-------------------------------- MODULE Console --------------------------------
(***************************************************************************)
(* The text console (PrimitiveConsole.cpp), written to by threads through  *)
(* print and println (Globals.h) and by the keyboard's interrupt           *)
(* (Keyboard.cpp), without a lock.                                         *)
(*                                                                         *)
(* A cell is an upper and a lower part: the cursor is a bar over the       *)
(* lower one.  What was under it is kept, to be put back when it moves.    *)
(* The kernel is built with -O0: each access to a member of the console    *)
(* is a load or a store of its own, and an interrupt may come between any  *)
(* two: each is one step of a thread.  A loop over pixels is one step, so  *)
(* that no glyph is torn.  The steps in Drawing are longer: there raced    *)
(* records whatever comes between, and they do not write the position.     *)
(* The keyboard's handler runs with interrupts off, so it is one step too. *)
(* Which table a key is looked up in changes only its glyph; all glyphs    *)
(* are one here.                                                           *)
(***************************************************************************)
EXTENDS Integers, Sequences

CONSTANTS
    Threads,
    Texts,      \* what a thread prints: sequences over Glyph and "newline"
    Keys,       \* the keys that are pressed
    Width, Height,
    MaxCalls    \* bound: calls of print and println, and keys pressed, together

Cell == (0 .. Width - 1) \X (0 .. Height - 1)
Blank == " "
Glyph == {Blank, "x"}
Held == {"LShift", "RShift", "LControl", "LAlt"}

ASSUME ConsoleAssumption ==
    /\ Width \in Nat \ {0} /\ Height \in Nat \ {0}
    /\ Texts \subseteq Seq(Glyph \cup {"newline"})
    /\ MaxCalls \in Nat

VARIABLES
    screen,     \* the members of gConsole and the frame buffer
    thread,     \* each thread's call of print: program counter and locals
    flags,      \* the keyboard's modifiers that are set
    calls,      \* calls of print and keys pressed so far
    raced       \* history: prints overlapped, or a key came while one was Drawing

vars == <<screen, thread, flags, calls, raced>>

Cursor(s) == <<s.x, s.y>>

\* No print under way.
Idle == [pc |-> "idle", text |-> <<>>, state |-> FALSE, was |-> FALSE, r |-> 0,
         at |-> <<0, 0>>, pos |-> <<0, 0>>, char |-> Blank, scroll |-> FALSE,
         return |-> "idle"]

-----------------------------------------------------------------------------
(* The console's operations, as the interrupt executes them: whole.        *)

\* PutChar: both parts of a cell; WritePixel ignores what is off the screen.
Put(s, char, p) ==
    IF p \in Cell THEN [s EXCEPT !.upper[p] = char, !.lower[p] = char] ELSE s

\* Mutant: the cursor is not taken away from where it was.
LeftBehind(s) == s

\* UpdateCursor and DisableCursor put back what the cursor covered.
PutBack(s, p) == IF p \in Cell THEN [s EXCEPT !.lower[p] = s.under] ELSE s
Restore(s) == IF s.drawn THEN PutBack(s, s.prev) ELSE s

\* Off the screen ReadPixel answers black and nothing is drawn.
Draw(s, p) ==
    IF p \in Cell THEN [s EXCEPT !.under = s.lower[p], !.lower[p] = "cursor"]
    ELSE [s EXCEPT !.under = "black"]

UpdateCursor(s) ==
    IF s.enabled THEN [Draw([Restore(s) EXCEPT !.prev = Cursor(s)], Cursor(s)) EXCEPT !.drawn = TRUE]
    ELSE s

EnableCursor(s) == UpdateCursor([s EXCEPT !.enabled = TRUE, !.drawn = FALSE])
DisableCursor(s) == [Restore(s) EXCEPT !.enabled = FALSE, !.drawn = FALSE]

\* Rows move up, or go, whatever is in them; smeared remembers that a cursor
\* was on them.
Smeared(s) == s.smeared \/ (s.enabled /\ s.drawn)
Up(part, lines) ==
    [p \in Cell |-> IF p[2] + lines < Height THEN part[<<p[1], p[2] + lines>>] ELSE Blank]
Scrolled(s, lines) ==
    [s EXCEPT !.upper = Up(@, lines), !.lower = Up(@, lines), !.smeared = Smeared(s)]
Wiped(s) ==
    [s EXCEPT !.upper = [p \in Cell |-> Blank], !.lower = [p \in Cell |-> Blank],
              !.smeared = Smeared(s)]

Clear(s) == [Wiped(s) EXCEPT !.x = 0, !.y = 0]

\* ScrollDown(lines)
ScrollDown(s, lines) == IF lines >= Height THEN Clear(s) ELSE Scrolled(s, lines)

\* Mutant: the line after the last one is not taken for the last.
NewLineBelow(s) == [s EXCEPT !.x = 0, !.y = @ + 1]
NewLine(s) ==
    LET below == [s EXCEPT !.x = 0, !.y = @ + 1]
        off   == IF s.enabled THEN DisableCursor(below) ELSE below
        last  == IF off.y > Height - 1
                 THEN [ScrollDown(off, off.y - (Height - 1)) EXCEPT !.y = Height - 1]
                 ELSE off
    IN  IF s.enabled THEN EnableCursor(last) ELSE last

\* Mutant: the first line has one before it.
BackspaceBefore(s) ==
    UpdateCursor(IF s.x > 0 THEN [s EXCEPT !.x = @ - 1]
                 ELSE [s EXCEPT !.x = Width - 1, !.y = @ - 1])

\* Backspace(1, false); X = mWidth and X - 1 are one assignment here.
Backspace(s) ==
    UpdateCursor(IF s.x > 0 THEN [s EXCEPT !.x = @ - 1]
                 ELSE IF s.y > 0 THEN [s EXCEPT !.x = Width - 1, !.y = @ - 1]
                 ELSE [s EXCEPT !.x = 0, !.y = 0])

WriteGlyph(s, char) ==
    LET next == IF s.x + 1 < Width THEN [s EXCEPT !.x = @ + 1]
                ELSE [s EXCEPT !.x = 0, !.y = IF @ + 1 > Height - 1 THEN Height - 1 ELSE @ + 1]
        full == s.x + 1 >= Width /\ s.y + 1 > Height - 1
        put  == Put(UpdateCursor(next), char, Cursor(s))
    IN  IF full THEN Scrolled(put, 1) ELSE put

WriteChar(s, char) ==
    CASE char = "newline"   -> NewLine(s)
      [] char = "backspace" -> Backspace(s)
      [] char = "none"      -> s
      [] char = "tab" -> WriteGlyph(WriteGlyph(WriteGlyph(WriteGlyph(s, Blank), Blank), Blank), Blank)
      [] OTHER -> WriteGlyph(s, char)

-----------------------------------------------------------------------------
(* The keyboard's interrupt.                                               *)

\* What the tables say of a key; Tab has no entry under shift.
Character(key) ==
    CASE key = "Enter" -> "newline"
      [] key = "Tab" -> IF flags \cap {"LShift", "RShift"} = {} THEN "tab" ELSE "none"
      [] key = "Letter" -> "x"
      [] OTHER -> "none"

\* A thread is between two accesses of the cursor's functions that belong
\* together: half the position loaded, or the cursor drawn and not yet noted.
Drawing(t) ==
    thread[t].pc \in {"erase", "disabled", "enabled", "posY", "restore", "place", "draw", "drawn"}

\* No code sends the keyboard a command, so each byte is a key's.  The prefix
\* of the right Control and Alt is taken for another key's release: they set
\* and reset the left ones' flags.  The release of any other key changes nothing.
KeyUpEvent(key) ==
    /\ flags' = flags \ ({key} \cap Held)
    /\ UNCHANGED <<screen, thread, calls, raced>>

KeyDownEvent(key) ==
    /\ calls < MaxCalls /\ calls' = calls + 1
    /\ flags' = CASE key \in Held -> flags \cup {key}
                  [] key = "CapsLock" -> IF key \in flags THEN flags \ {key} ELSE flags \cup {key}
                  [] OTHER -> flags
    /\ screen' = CASE key = "Backspace" ->
                        Backspace(WriteChar(Backspace(screen), Blank))
                   [] key = "Escape" -> Clear(screen)
                   [] key \in Held \cup {"CapsLock"} -> screen
                   [] OTHER -> IF flags \cap {"LControl", "LAlt"} = {}
                               THEN WriteChar(screen, Character(key)) ELSE screen
    /\ raced' = (raced \/ (screen' # screen /\ \E t \in Threads : Drawing(t)))
    /\ UNCHANGED thread

-----------------------------------------------------------------------------
(* A thread's print: one load or store of a member at a time.              *)

To(t, pc) == [thread[t] EXCEPT !.pc = pc]
Call(t, pc, return) == [thread[t] EXCEPT !.pc = pc, !.return = return]
Return(t) == IF thread[t].return = "idle" THEN Idle ELSE To(t, thread[t].return)

Step(t, pc, s, frame) ==
    /\ thread[t].pc = pc
    /\ screen' = s
    /\ thread' = [thread EXCEPT ![t] = frame]
    /\ UNCHANGED <<flags, calls, raced>>

\* print and println: println's text ends in a newline.
Println(t) == \E text \in Texts :
    /\ thread[t].pc = "idle" /\ calls < MaxCalls
    /\ thread' = [thread EXCEPT ![t] = [Idle EXCEPT !.pc = "state", !.text = text]]
    /\ calls' = calls + 1
    /\ raced' = (raced \/ \E u \in Threads : thread[u].pc # "idle")
    /\ UNCHANGED <<screen, flags>>

ReadState(t) ==
    Step(t, "state", screen,
         IF screen.enabled THEN [Call(t, "disable", "next") EXCEPT !.state = TRUE] ELSE To(t, "next"))

\* Write's loop, and the end of print.
NextChar(t) ==
    LET f == thread[t] IN
    Step(t, "next", screen,
         IF f.text = <<>> THEN IF f.state THEN Call(t, "enable", "idle") ELSE Idle
         ELSE IF Head(f.text) = "newline"
              THEN [Idle EXCEPT !.pc = "line", !.text = Tail(f.text), !.state = f.state]
              ELSE [Idle EXCEPT !.pc = "origin", !.text = Tail(f.text), !.state = f.state,
                                !.char = Head(f.text), !.at = <<screen.x, 0>>])

\* WriteChar: the rest of originalPos, X += 1, the wrap, Y += 1, the last line.
Origin(t) == Step(t, "origin", screen, [To(t, "right") EXCEPT !.at = <<@[1], screen.y>>])
LoadX(t) == Step(t, "right", screen, [To(t, "storeX") EXCEPT !.r = screen.x])
StoreX(t) == Step(t, "storeX", [screen EXCEPT !.x = thread[t].r + 1], To(t, "wide"))
TestX(t) ==
    Step(t, "wide", screen, IF screen.x >= Width THEN To(t, "wrap") ELSE Call(t, "update", "put"))
WrapX(t) == Step(t, "wrap", [screen EXCEPT !.x = 0], To(t, "down"))
LoadY(t) == Step(t, "down", screen, [To(t, "storeY") EXCEPT !.r = screen.y])
StoreY(t) == Step(t, "storeY", [screen EXCEPT !.y = thread[t].r + 1], To(t, "tall"))
TestY(t) ==
    Step(t, "tall", screen, IF screen.y > Height - 1 THEN To(t, "clamp") ELSE Call(t, "update", "put"))
Clamp(t) ==
    Step(t, "clamp", [screen EXCEPT !.y = Height - 1],
         [Call(t, "update", "put") EXCEPT !.scroll = TRUE])
PutAt(t) ==
    Step(t, "put", Put(screen, thread[t].char, thread[t].at),
         To(t, IF thread[t].scroll THEN "scroll" ELSE "next"))
Scroll(t) == Step(t, "scroll", Scrolled(screen, 1), To(t, "next"))

\* UpdateCursor reads the position twice: for the pixels, and to remember it.
TestEnabled(t) ==
    Step(t, "update", screen, IF screen.enabled THEN To(t, "posX") ELSE Return(t))
PosX(t) == Step(t, "posX", screen, [To(t, "posY") EXCEPT !.pos = <<screen.x, 0>>])
PosY(t) == Step(t, "posY", screen, [To(t, "restore") EXCEPT !.pos = <<@[1], screen.y>>])
RestoreOld(t) == Step(t, "restore", Restore(screen), To(t, "place"))
Place(t) == Step(t, "place", [screen EXCEPT !.prev = Cursor(screen)], To(t, "draw"))
DrawNew(t) == Step(t, "draw", Draw(screen, thread[t].pos), To(t, "drawn"))
Drawn(t) == Step(t, "drawn", [screen EXCEPT !.drawn = TRUE], Return(t))

\* EnableCursor.
Enable(t) == Step(t, "enable", [screen EXCEPT !.enabled = TRUE], To(t, "enabled"))
Enabled(t) == Step(t, "enabled", [screen EXCEPT !.drawn = FALSE], To(t, "update"))

\* DisableCursor.
TestDrawn(t) ==
    Step(t, "disable", screen, To(t, IF screen.drawn THEN "oldX" ELSE "disabled"))
OldX(t) == Step(t, "oldX", screen, [To(t, "erase") EXCEPT !.pos = <<screen.prev[1], 0>>])
Erase(t) ==
    Step(t, "erase", PutBack(screen, <<thread[t].pos[1], screen.prev[2]>>), To(t, "disabled"))
Disable(t) == Step(t, "disabled", [screen EXCEPT !.enabled = FALSE], To(t, "forget"))
Forget(t) == Step(t, "forget", [screen EXCEPT !.drawn = FALSE], Return(t))

\* NewLine: X = 0, Y += 1, the cursor off, the scrolling, the cursor on.
AfterLine(t) == IF thread[t].was THEN Call(t, "enable", "next") ELSE To(t, "next")

CarriageReturn(t) == Step(t, "line", [screen EXCEPT !.x = 0], To(t, "loadLine"))
LoadLine(t) == Step(t, "loadLine", screen, [To(t, "feed") EXCEPT !.r = screen.y])
Feed(t) == Step(t, "feed", [screen EXCEPT !.y = thread[t].r + 1], To(t, "was"))
ReadWas(t) == Step(t, "was", screen, [To(t, "off") EXCEPT !.was = screen.enabled])
TurnOff(t) ==
    Step(t, "off", screen, IF screen.enabled THEN Call(t, "disable", "bottom") ELSE To(t, "bottom"))
TestBottom(t) ==
    Step(t, "bottom", screen, IF screen.y > Height - 1 THEN To(t, "excess") ELSE AfterLine(t))

\* Y is read again, and the difference is a uint: below zero it is huge.
Excess(t) ==
    LET lines == screen.y - (Height - 1)
    IN  Step(t, "excess", screen,
             [To(t, "lines") EXCEPT !.r = IF lines < 0 THEN Height ELSE lines])

\* ScrollDown(lines); Clear's last stores are steps of their own.
ScrollUp(t) ==
    LET lines == thread[t].r
    IN  Step(t, "lines", CASE lines = 0 -> screen
                           [] lines >= Height -> Wiped(screen)
                           [] OTHER -> Scrolled(screen, lines),
             To(t, IF lines >= Height THEN "homeX" ELSE "last"))
HomeX(t) == Step(t, "homeX", [screen EXCEPT !.x = 0], To(t, "homeY"))
HomeY(t) == Step(t, "homeY", [screen EXCEPT !.y = 0], To(t, "last"))
LastLine(t) == Step(t, "last", [screen EXCEPT !.y = Height - 1], AfterLine(t))

PrintStep(t) ==
    \/ ReadState(t) \/ NextChar(t) \/ Origin(t)
    \/ LoadX(t) \/ StoreX(t) \/ TestX(t) \/ WrapX(t)
    \/ LoadY(t) \/ StoreY(t) \/ TestY(t) \/ Clamp(t) \/ PutAt(t) \/ Scroll(t)
    \/ TestEnabled(t) \/ PosX(t) \/ PosY(t)
    \/ RestoreOld(t) \/ Place(t) \/ DrawNew(t) \/ Drawn(t)
    \/ Enable(t) \/ Enabled(t)
    \/ TestDrawn(t) \/ OldX(t) \/ Erase(t) \/ Disable(t) \/ Forget(t)
    \/ CarriageReturn(t) \/ LoadLine(t) \/ Feed(t) \/ ReadWas(t) \/ TurnOff(t)
    \/ TestBottom(t) \/ Excess(t) \/ ScrollUp(t) \/ HomeX(t) \/ HomeY(t) \/ LastLine(t)

-----------------------------------------------------------------------------
\* KernelStart has enabled the cursor, and some characters may have been typed.
Init ==
    /\ \E x \in 0 .. Width - 1, y \in 1 .. Height - 1 :
         LET cells == [p \in Cell |-> IF p[2] = y /\ p[1] < x THEN "x" ELSE Blank]
         IN  screen = EnableCursor([x |-> x, y |-> y, upper |-> cells, lower |-> cells,
                                    enabled |-> FALSE, drawn |-> FALSE, prev |-> <<0, 0>>,
                                    under |-> Blank, smeared |-> FALSE])
    /\ thread = [t \in Threads |-> Idle]
    /\ flags = {}
    /\ calls = 0
    /\ raced = FALSE

Next ==
    \/ \E t \in Threads : Println(t) \/ PrintStep(t)
    \/ \E key \in Keys : KeyDownEvent(key)
    \/ \E key \in Keys \cap flags : KeyUpEvent(key)

Spec == Init /\ [][Next]_vars

-----------------------------------------------------------------------------
(* Properties *)

Quiescent == \A t \in Threads : thread[t].pc = "idle"

\* Types.  Each of two threads that add 1 can undo the other's return to the
\* first column or last line, so there is no bound while they print.
Part == Glyph \cup {"cursor", "black"}
TypeOK ==
    /\ screen \in [x : Nat, y : Nat,
                   upper : [Cell -> Glyph], lower : [Cell -> Part],
                   enabled : BOOLEAN, drawn : BOOLEAN,
                   prev : Int \X Int, under : Part, smeared : BOOLEAN]
    /\ flags \subseteq Held \cup {"CapsLock"}
    /\ calls \in 0 .. MaxCalls /\ raced \in BOOLEAN

\* When nobody is printing, the cursor is on the screen: WriteChar, NewLine and
\* Backspace test each coordinate again after they changed it, so no order of
\* two threads' and the interrupt's loads and stores leaves it outside.
OnScreen == Quiescent => Cursor(screen) \in Cell

\* When nobody is printing, and no two prints overlapped and no key came while
\* a thread was Drawing, the cursor is on, drawn where it belongs, and nowhere
\* else did it leave a trace: keys may come at any other moment of a print, also
\* between other accesses of EnableCursor, DisableCursor and UpdateCursor.  A
\* screen smeared by a scroll or by Escape under a drawn cursor is excepted; the
\* cursor is then still on and drawn.
Clean ==
    Quiescent /\ ~raced =>
        /\ screen.enabled /\ screen.drawn
        /\ screen.smeared \/
            /\ screen.prev = Cursor(screen)
            /\ screen.under = screen.upper[screen.prev]
            /\ screen.lower = [screen.upper EXCEPT ![screen.prev] = "cursor"]
=============================================================================
