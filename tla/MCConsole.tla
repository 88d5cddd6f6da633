------------------------------ MODULE MCConsole ------------------------------
(***************************************************************************)
(* Two columns and two lines: every second character wraps, every second   *)
(* line scrolls.                                                           *)
(***************************************************************************)
EXTENDS Console, TLC

MCTexts == {<<"x">>, <<"newline">>}
MCKeys == {"Letter", "Enter", "Backspace", "Escape", "LControl"}
MCSymmetry == Permutations(Threads)
=============================================================================
