----------------------------- MODULE ConsoleProofs -----------------------------
(***************************************************************************)
(* Theorems about Console for every screen, every text and any number of   *)
(* threads.                                                                *)
(***************************************************************************)
EXTENDS Console, TLAPS

\* The console as TypeOK describes it.
Screen == [x : Nat, y : Nat, upper : [Cell -> Glyph], lower : [Cell -> Part],
           enabled : BOOLEAN, drawn : BOOLEAN,
           prev : Int \X Int, under : Part, smeared : BOOLEAN]

\* Where a thread can be.
Pc == {"idle", "state", "next", "origin", "right", "storeX", "wide", "wrap",
       "down", "storeY", "tall", "clamp", "put", "scroll",
       "update", "posX", "posY", "restore", "place", "draw", "drawn", "enable", "enabled",
       "disable", "oldX", "erase", "disabled", "forget",
       "line", "loadLine", "feed", "was", "off", "bottom", "excess", "lines",
       "homeX", "homeY", "last"}

\* What a thread in print keeps.
Frame == [pc : Pc, text : Seq(Glyph \cup {"newline"}), state : BOOLEAN, was : BOOLEAN,
          r : Nat, at : Nat \X Nat, pos : Int \X Int, char : Glyph, scroll : BOOLEAN,
          return : Pc]

\* A call that will still test the column, or the line, before it ends.
MindsX(f) == f.pc \in {"wide", "wrap"}
MindsY(f) ==
    \/ f.pc \in {"tall", "clamp", "was", "off", "bottom", "excess", "lines", "homeX", "homeY",
                "last"}
    \/ f.pc \in {"disable", "oldX", "erase", "disabled", "forget"} /\ f.return = "bottom"

\* Only while such a call is under way may the cursor be outside.
Minded ==
    /\ screen.x >= Width => \E t \in Threads : MindsX(thread[t])
    /\ screen.y >= Height => \E t \in Threads : MindsY(thread[t])

Inv ==
    /\ screen \in Screen
    /\ thread \in [Threads -> Frame]
    /\ flags \subseteq Held \cup {"CapsLock"}
    /\ calls \in 0 .. MaxCalls /\ raced \in BOOLEAN
    /\ Minded

-----------------------------------------------------------------------------
(* What the operations on a screen keep.                                   *)

\* Its members are what the set says.
LEMMA Members ==
    ASSUME NEW s \in Screen PROVE s.x \in Nat /\ s.y \in Nat
  BY DEF Screen

\* The cursor moves to another column, to another line,
LEMMA Moved ==
    ASSUME NEW s \in Screen, NEW x \in Nat, NEW y \in Nat
    PROVE  /\ [s EXCEPT !.x = x] \in Screen
           /\ [s EXCEPT !.x = x].x = x /\ [s EXCEPT !.x = x].y = s.y
           /\ [s EXCEPT !.y = y] \in Screen
           /\ [s EXCEPT !.y = y].x = s.x /\ [s EXCEPT !.y = y].y = y
  BY DEF Screen

\* or both.
MoveTo(s, x, y) == [s EXCEPT !.x = x, !.y = y]
LEMMA MovedTo ==
    ASSUME NEW s \in Screen, NEW x \in Nat, NEW y \in Nat
    PROVE  MoveTo(s, x, y) \in Screen /\ MoveTo(s, x, y).x = x /\ MoveTo(s, x, y).y = y
  BY DEF MoveTo, Screen

\* What X and Y are stored with: their successors,
LEMMA IncNat == \A n \in Nat : n + 1 \in Nat
  OBVIOUS
\* mHeight - 1 is the last line,
LEMMA LastLineNat == Height - 1 \in Nat /\ Height - 1 < Height
  BY ConsoleAssumption
\* and 0 a column of every screen.
LEMMA FirstColumn == 0 \in Nat /\ 0 < Width
  BY ConsoleAssumption
LEMMA FirstLine == 0 \in Nat /\ 0 < Height
  BY ConsoleAssumption
\* Where the cursor was drawn is given by numbers.
LEMMA PrevInt == \A s \in Screen : s.prev[1] \in Int
  BY DEF Screen
\* The cursor's position is a place that can be remembered.
LEMMA CursorType == \A s \in Screen : Cursor(s) \in Int \X Int
  BY Members DEF Cursor

\* PutChar stays on the screen and does not move the cursor.
LEMMA PutType ==
    ASSUME NEW s \in Screen, NEW c \in Glyph, NEW p
    PROVE  Put(s, c, p) \in Screen /\ Put(s, c, p).x = s.x /\ Put(s, c, p).y = s.y
  BY DEF Put, Screen, Part

\* Nor does what UpdateCursor and DisableCursor put back,
LEMMA PutBackType ==
    ASSUME NEW s \in Screen, NEW p
    PROVE  PutBack(s, p) \in Screen /\ PutBack(s, p).x = s.x /\ PutBack(s, p).y = s.y
  BY DEF PutBack, Screen
LEMMA RestoreType ==
    ASSUME NEW s \in Screen
    PROVE  Restore(s) \in Screen /\ Restore(s).x = s.x /\ Restore(s).y = s.y
  BY PutBackType DEF Restore

\* or what they draw.
LEMMA DrawType ==
    ASSUME NEW s \in Screen, NEW p
    PROVE  Draw(s, p) \in Screen /\ Draw(s, p).x = s.x /\ Draw(s, p).y = s.y
  BY DEF Draw, Screen, Part

\* Rows that move up are rows.
LEMMA UpType ==
    ASSUME NEW lines \in Nat, NEW S, Blank \in S, NEW part \in [Cell -> S]
    PROVE  Up(part, lines) \in [Cell -> S]
  <1>1. ASSUME NEW p \in Cell, p[2] + lines < Height
        PROVE  <<p[1], p[2] + lines>> \in Cell
    BY <1>1, ConsoleAssumption DEF Cell
  <1> QED BY <1>1 DEF Up

\* ScrollDown() does not move the cursor.
LEMMA ScrolledType ==
    ASSUME NEW s \in Screen, NEW lines \in Nat
    PROVE  /\ Scrolled(s, lines) \in Screen
           /\ Scrolled(s, lines).x = s.x /\ Scrolled(s, lines).y = s.y
  <1>1. Blank \in Glyph /\ Blank \in Part
    BY DEF Glyph, Part
  <1>2. s.upper \in [Cell -> Glyph] /\ s.lower \in [Cell -> Part]
    BY DEF Screen
  <1>3. Up(s.upper, lines) \in [Cell -> Glyph] /\ Up(s.lower, lines) \in [Cell -> Part]
    BY <1>1, <1>2, UpType
  <1>4. Smeared(s) \in BOOLEAN
    BY DEF Smeared, Screen
  <1> QED BY <1>3, <1>4 DEF Scrolled, Screen

\* Nor do Clear's pixels,
LEMMA WipedType ==
    ASSUME NEW s \in Screen
    PROVE  Wiped(s) \in Screen /\ Wiped(s).x = s.x /\ Wiped(s).y = s.y
  <1>1. Smeared(s) \in BOOLEAN
    BY DEF Smeared, Screen
  <1> QED BY <1>1 DEF Wiped, Screen, Glyph, Part

\* but Clear puts it in the first cell.
LEMMA ClearType ==
    ASSUME NEW s \in Screen
    PROVE  Clear(s) \in Screen /\ Clear(s).x = 0 /\ Clear(s).y = 0
  <1>1. Wiped(s) \in Screen
    BY WipedType
  <1> QED BY <1>1 DEF Clear, Screen

\* ScrollDown(lines) does one or the other.
LEMMA ScrollDownType ==
    ASSUME NEW s \in Screen, NEW lines \in Nat
    PROVE  /\ ScrollDown(s, lines) \in Screen
           /\ ScrollDown(s, lines).x \in {0, s.x} /\ ScrollDown(s, lines).y \in {0, s.y}
  BY ScrolledType, ClearType DEF ScrollDown

\* UpdateCursor draws the cursor where it is.
LEMMA UpdateCursorType ==
    ASSUME NEW s \in Screen
    PROVE  UpdateCursor(s) \in Screen /\ UpdateCursor(s).x = s.x /\ UpdateCursor(s).y = s.y
  <1> DEFINE r == [Restore(s) EXCEPT !.prev = Cursor(s)]
             d == Draw(r, Cursor(s))
  <1>1. r \in Screen /\ r.x = s.x /\ r.y = s.y
    BY RestoreType DEF Screen, Cursor
  <1> HIDE DEF r
  <1>2. d \in Screen /\ d.x = s.x /\ d.y = s.y
    BY <1>1, DrawType
  <1> HIDE DEF d
  <1>3. /\ [d EXCEPT !.drawn = TRUE] \in Screen
        /\ [d EXCEPT !.drawn = TRUE].x = s.x /\ [d EXCEPT !.drawn = TRUE].y = s.y
    BY <1>2 DEF Screen
  <1> QED BY <1>3 DEF UpdateCursor, r, d

\* EnableCursor draws it without moving it,
LEMMA EnableCursorType ==
    ASSUME NEW s \in Screen
    PROVE  EnableCursor(s) \in Screen /\ EnableCursor(s).x = s.x /\ EnableCursor(s).y = s.y
  <1> DEFINE e == [s EXCEPT !.enabled = TRUE, !.drawn = FALSE]
  <1>1. e \in Screen /\ e.x = s.x /\ e.y = s.y
    BY DEF Screen
  <1> HIDE DEF e
  <1>2. UpdateCursor(e) \in Screen /\ UpdateCursor(e).x = s.x /\ UpdateCursor(e).y = s.y
    BY <1>1, UpdateCursorType
  <1> QED BY <1>2 DEF EnableCursor, e

\* DisableCursor takes it away without moving it.
LEMMA DisableCursorType ==
    ASSUME NEW s \in Screen
    PROVE  DisableCursor(s) \in Screen /\ DisableCursor(s).x = s.x /\ DisableCursor(s).y = s.y
  BY RestoreType DEF DisableCursor, Screen

-----------------------------------------------------------------------------
(* What a key does: the cursor is outside after it only if it was before.  *)

Kept(s, new) ==
    /\ new \in Screen
    /\ new.x >= Width => s.x >= Width
    /\ new.y >= Height => s.y >= Height

\* Operations in a row.
LEMMA KeptTransitive ==
    ASSUME NEW s, NEW m, NEW new, Kept(s, m), Kept(m, new)
    PROVE  Kept(s, new)
  BY DEF Kept

\* Backspace in the first column goes to the end of the line before.
LEMMA BackspaceKept ==
    ASSUME NEW s \in Screen
    PROVE  Kept(s, Backspace(s))
  <1> DEFINE b == IF s.x > 0 THEN [s EXCEPT !.x = @ - 1]
                  ELSE IF s.y > 0 THEN [s EXCEPT !.x = Width - 1, !.y = @ - 1]
                  ELSE [s EXCEPT !.x = 0, !.y = 0]
  <1>1. b \in Screen /\ (b.x >= Width => s.x >= Width) /\ (b.y >= Height => s.y >= Height)
    <2>1. CASE s.x > 0
      <3>1. b = [s EXCEPT !.x = s.x - 1] /\ s.x - 1 \in Nat
        BY <2>1, Members
      <3> DEFINE n == s.x - 1
      <3>2. b = [s EXCEPT !.x = n] /\ n \in Nat /\ (n >= Width => s.x >= Width)
        BY <3>1, Members, ConsoleAssumption
      <3> HIDE DEF n, b
      <3> QED BY <3>2, Moved
    <2>2. CASE ~(s.x > 0) /\ s.y > 0
      <3> DEFINE n == Width - 1
                 m == s.y - 1
      <3>1. b = MoveTo(s, n, m)
        BY <2>2 DEF MoveTo
      <3>2. n \in Nat /\ m \in Nat /\ ~(n >= Width) /\ (m >= Height => s.y >= Height)
        BY <2>2, Members, ConsoleAssumption
      <3> HIDE DEF n, m, b
      <3> QED BY <3>1, <3>2, MovedTo
    <2>3. CASE ~(s.x > 0) /\ ~(s.y > 0)
      <3>1. b = MoveTo(s, 0, 0)
        BY <2>3 DEF MoveTo
      <3>2. 0 \in Nat /\ ~(0 >= Width) /\ ~(0 >= Height)
        BY ConsoleAssumption
      <3> HIDE DEF b
      <3> QED BY <3>1, <3>2, MovedTo
    <2> QED BY <2>1, <2>2, <2>3
  <1>2. Backspace(s) = UpdateCursor(b)
    BY DEF Backspace
  <1> HIDE DEF b
  <1> QED BY <1>1, <1>2, UpdateCursorType DEF Kept

\* A character moves the cursor on, to the next line or back to the last.
LEMMA WriteGlyphKept ==
    ASSUME NEW s \in Screen, NEW char \in Glyph
    PROVE  Kept(s, WriteGlyph(s, char))
  <1> DEFINE next == IF s.x + 1 < Width THEN [s EXCEPT !.x = @ + 1]
                     ELSE [s EXCEPT !.x = 0, !.y = IF @ + 1 > Height - 1 THEN Height - 1 ELSE @ + 1]
             put == Put(UpdateCursor(next), char, Cursor(s))
  <1>1. next \in Screen /\ next.x < Width /\ (next.y >= Height => s.y >= Height)
    <2>1. CASE s.x + 1 < Width
      <3> DEFINE n == s.x + 1
      <3>1. next = [s EXCEPT !.x = n]
        BY <2>1
      <3>2. n \in Nat /\ n < Width
        BY <2>1, Members
      <3> HIDE DEF n, next
      <3> QED BY <3>1, <3>2, Moved
    <2>2. CASE ~(s.x + 1 < Width)
      <3> DEFINE m == IF s.y + 1 > Height - 1 THEN Height - 1 ELSE s.y + 1
      <3>1. next = MoveTo(s, 0, m)
        BY <2>2 DEF MoveTo
      <3>2. m \in Nat /\ ~(m >= Height)
        BY Members, ConsoleAssumption
      <3>3. 0 \in Nat /\ 0 < Width
        BY ConsoleAssumption
      <3> HIDE DEF m, next
      <3>4. next \in Screen /\ next.x = 0 /\ next.y = m
        BY <3>1, <3>2, <3>3, MovedTo
      <3> QED BY <3>2, <3>3, <3>4
    <2> QED BY <2>1, <2>2
  <1>2. WriteGlyph(s, char) \in {put, Scrolled(put, 1)}
    <2> DEFINE full == s.x + 1 >= Width /\ s.y + 1 > Height - 1
    <2>1. WriteGlyph(s, char) = IF full THEN Scrolled(put, 1) ELSE put
      BY SMTT(30) DEF WriteGlyph
    <2> HIDE DEF full, put
    <2> QED BY <2>1
  <1> HIDE DEF next
  <1>3. put \in Screen /\ put.x = next.x /\ put.y = next.y
    BY <1>1, UpdateCursorType, PutType
  <1> HIDE DEF put
  <1>4. /\ Scrolled(put, 1) \in Screen
        /\ Scrolled(put, 1).x = next.x /\ Scrolled(put, 1).y = next.y
    BY <1>3, ScrolledType
  <1>5. next.x \in Nat /\ next.y \in Nat
    BY <1>1 DEF Screen
  <1> QED BY <1>1, <1>2, <1>3, <1>4, <1>5, ConsoleAssumption DEF Kept

\* A new line is on the screen wherever the cursor was.
LEMMA NewLineKept ==
    ASSUME NEW s \in Screen
    PROVE  Kept(s, NewLine(s))
  <1> DEFINE below == [s EXCEPT !.x = 0, !.y = @ + 1]
             off == IF s.enabled THEN DisableCursor(below) ELSE below
             up == ScrollDown(off, off.y - (Height - 1))
             last == IF off.y > Height - 1 THEN [up EXCEPT !.y = Height - 1] ELSE off
  <1>1. below \in Screen /\ below.x = 0
    <2> DEFINE m == s.y + 1
    <2>1. below = MoveTo(s, 0, m) /\ m \in Nat
      BY Members DEF MoveTo
    <2> HIDE DEF below, m
    <2> QED BY <2>1, MovedTo
  <1>2. NewLine(s) = IF s.enabled THEN EnableCursor(last) ELSE last
    BY DEF NewLine
  <1> HIDE DEF below
  <1>3. off \in Screen /\ off.x = 0
    BY <1>1, DisableCursorType
  <1> HIDE DEF off
  <1>4. last \in Screen /\ last.x = 0 /\ last.y <= Height - 1
    <2>1. off.y \in Nat
      BY <1>3 DEF Screen
    <2>2. CASE off.y > Height - 1
      <3>1. off.y - (Height - 1) \in Nat
        BY <2>1, <2>2, ConsoleAssumption
      <3>2. up \in Screen /\ up.x = 0
        BY <1>3, <3>1, ScrollDownType
      <3> DEFINE n == Height - 1
      <3>3. last = [up EXCEPT !.y = n]
        BY <2>2
      <3>4. n \in Nat /\ n <= Height - 1
        BY ConsoleAssumption
      <3> HIDE DEF up, n, last
      <3> QED BY <3>2, <3>3, <3>4, Moved
    <2>3. CASE ~(off.y > Height - 1)
      BY <1>3, <2>1, <2>3, ConsoleAssumption
    <2> QED BY <2>2, <2>3
  <1> HIDE DEF last
  <1>5. /\ EnableCursor(last) \in Screen
        /\ EnableCursor(last).x = 0 /\ EnableCursor(last).y = last.y
    BY <1>4, EnableCursorType
  <1>6. last.y \in Nat
    BY <1>4 DEF Screen
  <1> QED BY <1>2, <1>4, <1>5, <1>6, ConsoleAssumption DEF Kept

\* WriteChar for every character, a tab being four blanks.
LEMMA WriteCharKept ==
    ASSUME NEW s \in Screen, NEW char, char \in Glyph \cup {"newline", "backspace", "none", "tab"}
    PROVE  Kept(s, WriteChar(s, char))
  <1> DEFINE a == WriteGlyph(s, Blank)
             b == WriteGlyph(a, Blank)
             c == WriteGlyph(b, Blank)
             d == WriteGlyph(c, Blank)
  <1>1. Blank \in Glyph
    BY DEF Glyph
  <1>2. Kept(s, a)
    BY <1>1, WriteGlyphKept
  <1>3. Kept(a, b)
    BY <1>1, <1>2, WriteGlyphKept DEF Kept
  <1>4. Kept(b, c)
    BY <1>1, <1>3, WriteGlyphKept DEF Kept
  <1>5. Kept(c, d)
    BY <1>1, <1>4, WriteGlyphKept DEF Kept
  <1>6. Kept(s, d)
    <2> HIDE DEF a, b, c, d
    <2> QED BY <1>2, <1>3, <1>4, <1>5, KeptTransitive
  <1>7. WriteChar(s, char) \in {NewLine(s), Backspace(s), s, d} \/ (char \in Glyph /\ WriteChar(s, char) = WriteGlyph(s, char))
    BY DEF WriteChar, Glyph, Blank
  <1> HIDE DEF d
  <1>8. Kept(s, s)
    BY DEF Kept
  <1> QED BY <1>6, <1>7, <1>8, NewLineKept, BackspaceKept, WriteGlyphKept

-----------------------------------------------------------------------------
(* What a step of a print keeps.                                           *)

\* A step may leave the cursor outside if the thread minds it afterwards, or
\* if it was outside before and the thread was not the one to mind it.
LEMMA StepInv ==
    ASSUME Inv, NEW t \in Threads, NEW pc, NEW s, NEW f,
           Step(t, pc, s, f), s \in Screen, f \in Frame,
           \/ s.x < Width
           \/ MindsX(f)
           \/ s.x = screen.x /\ ~MindsX(thread[t]),
           \/ s.y < Height
           \/ MindsY(f)
           \/ s.y = screen.y /\ ~MindsY(thread[t])
    PROVE  Inv'
  <1>1. screen' = s /\ thread' = [thread EXCEPT ![t] = f] /\ UNCHANGED <<flags, calls, raced>>
    BY DEF Step
  <1>2. thread' \in [Threads -> Frame] /\ thread'[t] = f
    BY <1>1 DEF Inv
  <1>3. \A u \in Threads : u # t => thread'[u] = thread[u]
    BY <1>1 DEF Inv
  <1>4. s.x \in Nat /\ s.y \in Nat /\ Width \in Nat /\ Height \in Nat
    BY Members, ConsoleAssumption
  <1>5. s.x >= Width => \E u \in Threads : MindsX(thread'[u])
    <2>1. CASE s.x < Width
      BY <2>1, <1>4
    <2>2. CASE MindsX(f)
      BY <2>2, <1>2
    <2>3. CASE s.x = screen.x /\ ~MindsX(thread[t])
      <3> SUFFICES ASSUME s.x >= Width PROVE \E u \in Threads : MindsX(thread'[u])
        OBVIOUS
      <3>1. PICK u \in Threads : MindsX(thread[u])
        BY <2>3 DEF Inv, Minded
      <3> QED BY <2>3, <3>1, <1>3
    <2> QED BY <2>1, <2>2, <2>3
  <1>6. s.y >= Height => \E u \in Threads : MindsY(thread'[u])
    <2>1. CASE s.y < Height
      BY <2>1, <1>4
    <2>2. CASE MindsY(f)
      BY <2>2, <1>2
    <2>3. CASE s.y = screen.y /\ ~MindsY(thread[t])
      <3> SUFFICES ASSUME s.y >= Height PROVE \E u \in Threads : MindsY(thread'[u])
        OBVIOUS
      <3>1. PICK u \in Threads : MindsY(thread[u])
        BY <2>3 DEF Inv, Minded
      <3> QED BY <2>3, <3>1, <1>3
    <2> QED BY <2>1, <2>2, <2>3
  <1>7. Minded'
    <2>1. (\E u \in Threads : MindsX(thread'[u])) => (\E u \in Threads : MindsX(thread[u]))'
      OBVIOUS
    <2>2. (\E u \in Threads : MindsY(thread'[u])) => (\E u \in Threads : MindsY(thread[u]))'
      OBVIOUS
    <2> QED BY <1>1, <1>5, <1>6, <2>1, <2>2 DEF Minded
  <1> QED BY <1>1, <1>2, <1>7 DEF Inv

\* A thread's next program counter, with or without a place to return to.
LEMMA ToFrame ==
    ASSUME NEW t \in Threads, thread[t] \in Frame, NEW pc \in Pc
    PROVE  To(t, pc) \in Frame /\ To(t, pc).pc = pc /\ To(t, pc).return = thread[t].return
  BY DEF To, Frame

\* A call remembers where to return to.
LEMMA CallFrame ==
    ASSUME NEW t \in Threads, thread[t] \in Frame, NEW pc \in Pc, NEW return \in Pc
    PROVE  /\ Call(t, pc, return) \in Frame
           /\ Call(t, pc, return).pc = pc /\ Call(t, pc, return).return = return
  BY DEF Call, Frame

\* Locals that a step sets.
LEMMA SetR ==
    ASSUME NEW f \in Frame, NEW n \in Nat
    PROVE  /\ [f EXCEPT !.r = n] \in Frame
           /\ [f EXCEPT !.r = n].pc = f.pc /\ [f EXCEPT !.r = n].return = f.return
  BY DEF Frame

\* print's copy of GetCursorEnabled.
LEMMA SetState ==
    ASSUME NEW f \in Frame, NEW b \in BOOLEAN
    PROVE  /\ [f EXCEPT !.state = b] \in Frame
           /\ [f EXCEPT !.state = b].pc = f.pc /\ [f EXCEPT !.state = b].return = f.return
  BY DEF Frame

\* NewLine's copy of CursorEnabled.
LEMMA SetWas ==
    ASSUME NEW f \in Frame, NEW b \in BOOLEAN
    PROVE  /\ [f EXCEPT !.was = b] \in Frame
           /\ [f EXCEPT !.was = b].pc = f.pc /\ [f EXCEPT !.was = b].return = f.return
  BY DEF Frame

\* WriteChar's decision to scroll.
LEMMA SetScroll ==
    ASSUME NEW f \in Frame, NEW b \in BOOLEAN
    PROVE  /\ [f EXCEPT !.scroll = b] \in Frame
           /\ [f EXCEPT !.scroll = b].pc = f.pc /\ [f EXCEPT !.scroll = b].return = f.return
  BY DEF Frame

\* Copies of a position.
LEMMA SetPos ==
    ASSUME NEW f \in Frame, NEW p \in Int \X Int
    PROVE  /\ [f EXCEPT !.pos = p] \in Frame
           /\ [f EXCEPT !.pos = p].pc = f.pc /\ [f EXCEPT !.pos = p].return = f.return
  BY DEF Frame
LEMMA SetAt ==
    ASSUME NEW f \in Frame, NEW p \in Nat \X Nat
    PROVE  [f EXCEPT !.at = p] \in Frame
  BY DEF Frame

\* A thread outside print.
LEMMA IdleFrame == Idle \in Frame /\ Idle.pc = "idle" /\ Idle.return = "idle"
  <1>1. <<>> \in Seq(Glyph \cup {"newline"})
    OBVIOUS
  <1>2. <<0, 0>> \in Nat \X Nat
    OBVIOUS
  <1> QED BY <1>1, <1>2 DEF Idle, Frame, Glyph, Pc

\* The cursor's functions return to print, to WriteChar or to NewLine.
LEMMA ReturnFrame ==
    ASSUME NEW t \in Threads, thread[t] \in Frame
    PROVE  /\ Return(t) \in Frame
           /\ thread[t].return = "bottom" => Return(t).pc = "bottom"
  <1>1. thread[t].return \in Pc
    BY DEF Frame
  <1> QED BY <1>1, ToFrame, IdleFrame DEF Return, Pc

\* NewLine ends with the cursor as it found it.
LEMMA AfterLineFrame ==
    ASSUME NEW t \in Threads, thread[t] \in Frame
    PROVE  AfterLine(t) \in Frame
  <1>1. "enable" \in Pc /\ "next" \in Pc
    BY DEF Pc
  <1>2. Call(t, "enable", "next") \in Frame
    BY <1>1, CallFrame
  <1>3. To(t, "next") \in Frame
    BY <1>1, ToFrame
  <1> QED BY <1>2, <1>3 DEF AfterLine

\* Members of the screen that are set besides the position.
LEMMA SetPrev ==
    ASSUME NEW s \in Screen, NEW p \in Int \X Int
    PROVE  /\ [s EXCEPT !.prev = p] \in Screen
           /\ [s EXCEPT !.prev = p].x = s.x /\ [s EXCEPT !.prev = p].y = s.y
  BY DEF Screen

\* HasDrawnCursor is set without moving the cursor,
LEMMA SetDrawn ==
    ASSUME NEW s \in Screen, NEW b \in BOOLEAN
    PROVE  /\ [s EXCEPT !.drawn = b] \in Screen
           /\ [s EXCEPT !.drawn = b].x = s.x /\ [s EXCEPT !.drawn = b].y = s.y
  BY DEF Screen

\* and so is CursorEnabled.
LEMMA SetEnabled ==
    ASSUME NEW s \in Screen, NEW b \in BOOLEAN
    PROVE  /\ [s EXCEPT !.enabled = b] \in Screen
           /\ [s EXCEPT !.enabled = b].x = s.x /\ [s EXCEPT !.enabled = b].y = s.y
  BY DEF Screen

\* A step that leaves the position alone and passes on what it minds.
LEMMA PassInv ==
    ASSUME Inv, NEW t \in Threads, NEW pc, NEW s, NEW f,
           Step(t, pc, s, f), s \in Screen, f \in Frame,
           s.x = screen.x, s.y = screen.y,
           MindsX(thread[t]) => MindsX(f), MindsY(thread[t]) => MindsY(f)
    PROVE  Inv'
  BY StepInv

-----------------------------------------------------------------------------
(* Each step of a print.                                                   *)

\* print: GetCursorEnabled.
LEMMA ReadStateStep == ASSUME Inv, NEW t \in Threads, ReadState(t) PROVE Inv'
  <1> DEFINE s == screen
             f == IF screen.enabled THEN [Call(t, "disable", "next") EXCEPT !.state = TRUE] ELSE To(t, "next")
  <1>1. Step(t, "state", s, f) /\ thread[t].pc = "state"
    BY DEF ReadState, Step
  <1>2. screen \in Screen /\ thread[t] \in Frame
    BY DEF Inv
  <1>3. s \in Screen /\ s.x = screen.x /\ s.y = screen.y
    BY <1>2
  <1>4. f \in Frame
    <2> DEFINE c == Call(t, "disable", "next")
    <2>1. c \in Frame /\ To(t, "next") \in Frame
      <3>1. "disable" \in Pc /\ "next" \in Pc
        BY DEF Pc
      <3>2. c \in Frame
        BY <1>2, <3>1, CallFrame
      <3>3. To(t, "next") \in Frame
        BY <1>2, <3>1, ToFrame
      <3>4. QED BY <3>2, <3>3
    <2> HIDE DEF c
    <2>2. [c EXCEPT !.state = TRUE] \in Frame
      BY <2>1, SetState
    <2> QED BY <2>1, <2>2 DEF c
  <1> HIDE DEF s, f
  <1> QED BY <1>1, <1>3, <1>4, PassInv DEF MindsX, MindsY

\* X += 1, its load.
LEMMA LoadXStep == ASSUME Inv, NEW t \in Threads, LoadX(t) PROVE Inv'
  <1> DEFINE s == screen
             f == [To(t, "storeX") EXCEPT !.r = screen.x]
  <1>1. Step(t, "right", s, f) /\ thread[t].pc = "right"
    BY DEF LoadX, Step
  <1>2. screen \in Screen /\ thread[t] \in Frame
    BY DEF Inv
  <1>3. s \in Screen /\ s.x = screen.x /\ s.y = screen.y
    BY <1>2
  <1>4. f \in Frame
    BY <1>2, ToFrame, SetR, Members DEF Pc
  <1> HIDE DEF s, f
  <1> QED BY <1>1, <1>3, <1>4, PassInv DEF MindsX, MindsY

\* Y += 1, its load.
LEMMA LoadYStep == ASSUME Inv, NEW t \in Threads, LoadY(t) PROVE Inv'
  <1> DEFINE s == screen
             f == [To(t, "storeY") EXCEPT !.r = screen.y]
  <1>1. Step(t, "down", s, f) /\ thread[t].pc = "down"
    BY DEF LoadY, Step
  <1>2. screen \in Screen /\ thread[t] \in Frame
    BY DEF Inv
  <1>3. s \in Screen /\ s.x = screen.x /\ s.y = screen.y
    BY <1>2
  <1>4. f \in Frame
    BY <1>2, ToFrame, SetR, Members DEF Pc
  <1> HIDE DEF s, f
  <1> QED BY <1>1, <1>3, <1>4, PassInv DEF MindsX, MindsY

\* PutChar.
LEMMA PutAtStep == ASSUME Inv, NEW t \in Threads, PutAt(t) PROVE Inv'
  <1> DEFINE s == Put(screen, thread[t].char, thread[t].at)
             f == To(t, IF thread[t].scroll THEN "scroll" ELSE "next")
  <1>1. Step(t, "put", s, f) /\ thread[t].pc = "put"
    BY DEF PutAt, Step
  <1>2. screen \in Screen /\ thread[t] \in Frame
    BY DEF Inv
  <1>3. s \in Screen /\ s.x = screen.x /\ s.y = screen.y
    BY <1>2, PutType DEF Frame
  <1>4. f \in Frame
    BY <1>2, ToFrame DEF Pc
  <1> HIDE DEF s, f
  <1> QED BY <1>1, <1>3, <1>4, PassInv DEF MindsX, MindsY

\* ScrollDown after the last cell.
LEMMA ScrollStep == ASSUME Inv, NEW t \in Threads, Scroll(t) PROVE Inv'
  <1> DEFINE s == Scrolled(screen, 1)
             f == To(t, "next")
  <1>1. Step(t, "scroll", s, f) /\ thread[t].pc = "scroll"
    BY DEF Scroll, Step
  <1>2. screen \in Screen /\ thread[t] \in Frame
    BY DEF Inv
  <1>3. s \in Screen /\ s.x = screen.x /\ s.y = screen.y
    BY <1>2, ScrolledType
  <1>4. f \in Frame
    BY <1>2, ToFrame DEF Pc
  <1> HIDE DEF s, f
  <1> QED BY <1>1, <1>3, <1>4, PassInv DEF MindsX, MindsY

\* UpdateCursor's test,
LEMMA TestEnabledStep == ASSUME Inv, NEW t \in Threads, TestEnabled(t) PROVE Inv'
  <1> DEFINE s == screen
             f == IF screen.enabled THEN To(t, "posX") ELSE Return(t)
  <1>1. Step(t, "update", s, f) /\ thread[t].pc = "update"
    BY DEF TestEnabled, Step
  <1>2. screen \in Screen /\ thread[t] \in Frame
    BY DEF Inv
  <1>3. s \in Screen /\ s.x = screen.x /\ s.y = screen.y
    BY <1>2
  <1>4. f \in Frame
    BY <1>2, ToFrame, ReturnFrame DEF Pc
  <1> HIDE DEF s, f
  <1> QED BY <1>1, <1>3, <1>4, PassInv DEF MindsX, MindsY

\* and its first reads of the position.
LEMMA PosXStep == ASSUME Inv, NEW t \in Threads, PosX(t) PROVE Inv'
  <1> DEFINE s == screen
             p == <<screen.x, 0>>
             f == [To(t, "posY") EXCEPT !.pos = p]
  <1>1. Step(t, "posX", s, f) /\ thread[t].pc = "posX"
    BY DEF PosX, Step
  <1>2. screen \in Screen /\ thread[t] \in Frame
    BY DEF Inv
  <1>3. s \in Screen /\ s.x = screen.x /\ s.y = screen.y
    BY <1>2
  <1>4. f \in Frame
    <2>1. p \in Int \X Int
      BY <1>2, Members
    <2>2. /\ To(t, "posY") \in Frame /\ To(t, "posY").pc = "posY"
          /\ To(t, "posY").return = thread[t].return
      BY <1>2, ToFrame DEF Pc
    <2> HIDE DEF p
    <2> QED BY <2>1, <2>2, SetPos
  <1> HIDE DEF s, f
  <1> QED BY <1>1, <1>3, <1>4, PassInv DEF MindsX, MindsY

\* The other coordinate.
LEMMA PosYStep == ASSUME Inv, NEW t \in Threads, PosY(t) PROVE Inv'
  <1> DEFINE s == screen
             p == <<thread[t].pos[1], screen.y>>
             f == [To(t, "restore") EXCEPT !.pos = p]
  <1>1. Step(t, "posY", s, f) /\ thread[t].pc = "posY"
    BY DEF PosY, Step, To, Inv, Frame
  <1>2. screen \in Screen /\ thread[t] \in Frame
    BY DEF Inv
  <1>3. s \in Screen /\ s.x = screen.x /\ s.y = screen.y
    BY <1>2
  <1>4. f \in Frame
    <2>1. p \in Int \X Int
      BY <1>2, Members DEF Frame
    <2>2. /\ To(t, "restore") \in Frame /\ To(t, "restore").pc = "restore"
          /\ To(t, "restore").return = thread[t].return
      BY <1>2, ToFrame DEF Pc
    <2> HIDE DEF p
    <2> QED BY <2>1, <2>2, SetPos
  <1> HIDE DEF s, f
  <1> QED BY <1>1, <1>3, <1>4, PassInv DEF MindsX, MindsY

\* UpdateCursor puts the old pixels back.
LEMMA RestoreOldStep == ASSUME Inv, NEW t \in Threads, RestoreOld(t) PROVE Inv'
  <1> DEFINE s == Restore(screen)
             f == To(t, "place")
  <1>1. Step(t, "restore", s, f) /\ thread[t].pc = "restore"
    BY DEF RestoreOld, Step
  <1>2. screen \in Screen /\ thread[t] \in Frame
    BY DEF Inv
  <1>3. s \in Screen /\ s.x = screen.x /\ s.y = screen.y
    BY <1>2, RestoreType
  <1>4. f \in Frame
    BY <1>2, ToFrame DEF Pc
  <1> HIDE DEF s, f
  <1> QED BY <1>1, <1>3, <1>4, PassInv DEF MindsX, MindsY

\* It remembers the place.
LEMMA PlaceStep == ASSUME Inv, NEW t \in Threads, Place(t) PROVE Inv'
  <1> DEFINE s == [screen EXCEPT !.prev = Cursor(screen)]
             f == To(t, "draw")
  <1>1. Step(t, "place", s, f) /\ thread[t].pc = "place"
    BY DEF Place, Step
  <1>2. screen \in Screen /\ thread[t] \in Frame
    BY DEF Inv
  <1>3. s \in Screen /\ s.x = screen.x /\ s.y = screen.y
    BY <1>2, SetPrev, CursorType
  <1>4. f \in Frame
    BY <1>2, ToFrame DEF Pc
  <1> HIDE DEF s, f
  <1> QED BY <1>1, <1>3, <1>4, PassInv DEF MindsX, MindsY

\* It draws the cursor.
LEMMA DrawNewStep == ASSUME Inv, NEW t \in Threads, DrawNew(t) PROVE Inv'
  <1> DEFINE s == Draw(screen, thread[t].pos)
             f == To(t, "drawn")
  <1>1. Step(t, "draw", s, f) /\ thread[t].pc = "draw"
    BY DEF DrawNew, Step
  <1>2. screen \in Screen /\ thread[t] \in Frame
    BY DEF Inv
  <1>3. s \in Screen /\ s.x = screen.x /\ s.y = screen.y
    BY <1>2, DrawType
  <1>4. f \in Frame
    BY <1>2, ToFrame DEF Pc
  <1> HIDE DEF s, f
  <1> QED BY <1>1, <1>3, <1>4, PassInv DEF MindsX, MindsY

\* It remembers that it did.
LEMMA DrawnStep == ASSUME Inv, NEW t \in Threads, Drawn(t) PROVE Inv'
  <1> DEFINE s == [screen EXCEPT !.drawn = TRUE]
             f == Return(t)
  <1>1. Step(t, "drawn", s, f) /\ thread[t].pc = "drawn"
    BY DEF Drawn, Step
  <1>2. screen \in Screen /\ thread[t] \in Frame
    BY DEF Inv
  <1>3. s \in Screen /\ s.x = screen.x /\ s.y = screen.y
    BY <1>2, SetDrawn
  <1>4. f \in Frame
    BY <1>2, ReturnFrame DEF Pc
  <1> HIDE DEF s, f
  <1> QED BY <1>1, <1>3, <1>4, PassInv DEF MindsX, MindsY

\* EnableCursor,
LEMMA EnableStep == ASSUME Inv, NEW t \in Threads, Enable(t) PROVE Inv'
  <1> DEFINE s == [screen EXCEPT !.enabled = TRUE]
             f == To(t, "enabled")
  <1>1. Step(t, "enable", s, f) /\ thread[t].pc = "enable"
    BY DEF Enable, Step
  <1>2. screen \in Screen /\ thread[t] \in Frame
    BY DEF Inv
  <1>3. s \in Screen /\ s.x = screen.x /\ s.y = screen.y
    BY <1>2, SetEnabled
  <1>4. f \in Frame
    BY <1>2, ToFrame DEF Pc
  <1> HIDE DEF s, f
  <1> QED BY <1>1, <1>3, <1>4, PassInv DEF MindsX, MindsY

\* its second store.
LEMMA EnabledStep == ASSUME Inv, NEW t \in Threads, Enabled(t) PROVE Inv'
  <1> DEFINE s == [screen EXCEPT !.drawn = FALSE]
             f == To(t, "update")
  <1>1. Step(t, "enabled", s, f) /\ thread[t].pc = "enabled"
    BY DEF Enabled, Step
  <1>2. screen \in Screen /\ thread[t] \in Frame
    BY DEF Inv
  <1>3. s \in Screen /\ s.x = screen.x /\ s.y = screen.y
    BY <1>2, SetDrawn
  <1>4. f \in Frame
    BY <1>2, ToFrame DEF Pc
  <1> HIDE DEF s, f
  <1> QED BY <1>1, <1>3, <1>4, PassInv DEF MindsX, MindsY

\* DisableCursor's test; NewLine still minds the line.
LEMMA TestDrawnStep == ASSUME Inv, NEW t \in Threads, TestDrawn(t) PROVE Inv'
  <1> DEFINE f == To(t, IF screen.drawn THEN "oldX" ELSE "disabled")
  <1>1. Step(t, "disable", screen, f) /\ thread[t].pc = "disable"
    BY DEF TestDrawn, Step
  <1>2. screen \in Screen /\ thread[t] \in Frame
    BY DEF Inv
  <1>3. f \in Frame /\ f.pc \in {"oldX", "disabled"} /\ f.return = thread[t].return
    BY <1>2, ToFrame DEF Pc
  <1> HIDE DEF f
  <1> QED BY <1>1, <1>2, <1>3, PassInv DEF MindsX, MindsY

\* Where the cursor was drawn.
LEMMA OldXStep == ASSUME Inv, NEW t \in Threads, OldX(t) PROVE Inv'
  <1> DEFINE s == screen
             p == <<screen.prev[1], 0>>
             f == [To(t, "erase") EXCEPT !.pos = p]
  <1>1. Step(t, "oldX", s, f) /\ thread[t].pc = "oldX"
    BY DEF OldX, Step
  <1>2. screen \in Screen /\ thread[t] \in Frame
    BY DEF Inv
  <1>3. s \in Screen /\ s.x = screen.x /\ s.y = screen.y
    BY <1>2
  <1>4. f \in Frame /\ f.pc = "erase" /\ f.return = thread[t].return
    <2>1. p \in Int \X Int
      BY <1>2, PrevInt
    <2>2. /\ To(t, "erase") \in Frame /\ To(t, "erase").pc = "erase"
          /\ To(t, "erase").return = thread[t].return
      BY <1>2, ToFrame DEF Pc
    <2> HIDE DEF p
    <2> QED BY <2>1, <2>2, SetPos
  <1> HIDE DEF s, f
  <1> QED BY <1>1, <1>3, <1>4, PassInv DEF MindsX, MindsY

\* The pixels go back.
LEMMA EraseStep == ASSUME Inv, NEW t \in Threads, Erase(t) PROVE Inv'
  <1> DEFINE s == PutBack(screen, <<thread[t].pos[1], screen.prev[2]>>)
             f == To(t, "disabled")
  <1>1. Step(t, "erase", s, f) /\ thread[t].pc = "erase"
    BY DEF Erase, Step
  <1>2. screen \in Screen /\ thread[t] \in Frame
    BY DEF Inv
  <1>3. s \in Screen /\ s.x = screen.x /\ s.y = screen.y
    BY <1>2, PutBackType
  <1>4. f \in Frame /\ f.pc = "disabled" /\ f.return = thread[t].return
    BY <1>2, ToFrame DEF Pc
  <1> HIDE DEF s, f
  <1> QED BY <1>1, <1>3, <1>4, PassInv DEF MindsX, MindsY

\* The cursor is off.
LEMMA DisableStep == ASSUME Inv, NEW t \in Threads, Disable(t) PROVE Inv'
  <1> DEFINE s == [screen EXCEPT !.enabled = FALSE]
             f == To(t, "forget")
  <1>1. Step(t, "disabled", s, f) /\ thread[t].pc = "disabled"
    BY DEF Disable, Step
  <1>2. screen \in Screen /\ thread[t] \in Frame
    BY DEF Inv
  <1>3. s \in Screen /\ s.x = screen.x /\ s.y = screen.y
    BY <1>2, SetEnabled
  <1>4. f \in Frame /\ f.pc = "forget" /\ f.return = thread[t].return
    BY <1>2, ToFrame DEF Pc
  <1> HIDE DEF s, f
  <1> QED BY <1>1, <1>3, <1>4, PassInv DEF MindsX, MindsY

\* DisableCursor returns to NewLine or to print.
LEMMA ForgetStep == ASSUME Inv, NEW t \in Threads, Forget(t) PROVE Inv'
  <1> DEFINE s == [screen EXCEPT !.drawn = FALSE]
             f == Return(t)
  <1>1. Step(t, "forget", s, f) /\ thread[t].pc = "forget"
    BY DEF Forget, Step
  <1>2. screen \in Screen /\ thread[t] \in Frame
    BY DEF Inv
  <1>3. s \in Screen /\ s.x = screen.x /\ s.y = screen.y
    BY <1>2, SetDrawn
  <1>4. f \in Frame /\ (thread[t].return = "bottom" => f.pc = "bottom")
    BY <1>2, ReturnFrame DEF Pc
  <1> HIDE DEF s, f
  <1> QED BY <1>1, <1>3, <1>4, PassInv DEF MindsX, MindsY

\* NewLine reads CursorEnabled,
LEMMA ReadWasStep == ASSUME Inv, NEW t \in Threads, ReadWas(t) PROVE Inv'
  <1> DEFINE s == screen
             f == [To(t, "off") EXCEPT !.was = screen.enabled]
  <1>1. Step(t, "was", s, f) /\ thread[t].pc = "was"
    BY DEF ReadWas, Step
  <1>2. screen \in Screen /\ thread[t] \in Frame
    BY DEF Inv
  <1>3. s \in Screen /\ s.x = screen.x /\ s.y = screen.y
    BY <1>2
  <1>4. f \in Frame /\ f.pc = "off"
    BY <1>2, ToFrame, SetWas DEF Screen, Pc
  <1> HIDE DEF s, f
  <1> QED BY <1>1, <1>3, <1>4, PassInv DEF MindsX, MindsY

\* reads it again, and may turn the cursor off.
LEMMA TurnOffStep == ASSUME Inv, NEW t \in Threads, TurnOff(t) PROVE Inv'
  <1> DEFINE s == screen
             f == IF screen.enabled THEN Call(t, "disable", "bottom") ELSE To(t, "bottom")
  <1>1. Step(t, "off", s, f) /\ thread[t].pc = "off"
    BY DEF TurnOff, Step
  <1>2. screen \in Screen /\ thread[t] \in Frame
    BY DEF Inv
  <1>3. s \in Screen /\ s.x = screen.x /\ s.y = screen.y
    BY <1>2
  <1>4. f \in Frame /\ (f.pc = "bottom" \/ (f.pc = "disable" /\ f.return = "bottom"))
    <2> DEFINE c == Call(t, "disable", "bottom")
               b == To(t, "bottom")
    <2>1. c \in Frame /\ c.pc = "disable" /\ c.return = "bottom"
      <3>1. "disable" \in Pc /\ "bottom" \in Pc
        BY DEF Pc
      <3> QED BY <1>2, <3>1, CallFrame
    <2>2. b \in Frame /\ b.pc = "bottom"
      BY <1>2, ToFrame DEF Pc
    <2>3. f = c \/ f = b
      OBVIOUS
    <2> HIDE DEF c, b, f
    <2>4. CASE f = c
      BY <2>1, <2>4
    <2>5. CASE f = b
      BY <2>2, <2>5
    <2> QED BY <2>3, <2>4, <2>5
  <1> HIDE DEF s, f
  <1> QED BY <1>1, <1>3, <1>4, PassInv DEF MindsX, MindsY

\* Y += lines, its load.
LEMMA LoadLineStep == ASSUME Inv, NEW t \in Threads, LoadLine(t) PROVE Inv'
  <1> DEFINE s == screen
             f == [To(t, "feed") EXCEPT !.r = screen.y]
  <1>1. Step(t, "loadLine", s, f) /\ thread[t].pc = "loadLine"
    BY DEF LoadLine, Step
  <1>2. screen \in Screen /\ thread[t] \in Frame
    BY DEF Inv
  <1>3. s \in Screen /\ s.x = screen.x /\ s.y = screen.y
    BY <1>2
  <1>4. f \in Frame
    BY <1>2, ToFrame, SetR, Members DEF Pc
  <1> HIDE DEF s, f
  <1> QED BY <1>1, <1>3, <1>4, PassInv DEF MindsX, MindsY

\* X += 1, its store: the thread will test the column.
LEMMA StoreXStep == ASSUME Inv, NEW t \in Threads, StoreX(t) PROVE Inv'
  <1> DEFINE s == [screen EXCEPT !.x = thread[t].r + 1]
             f == To(t, "wide")
  <1>1. Step(t, "storeX", s, f) /\ thread[t].pc = "storeX"
    BY DEF StoreX, Step
  <1>2. screen \in Screen /\ thread[t] \in Frame
    BY DEF Inv
  <1>3. s \in Screen /\ s.y = screen.y
    BY <1>2, Moved, IncNat DEF Frame
  <1>4. f \in Frame /\ f.pc = "wide"
    BY <1>2, ToFrame DEF Pc
  <1> HIDE DEF s, f
  <1> QED BY <1>1, <1>3, <1>4, StepInv DEF MindsX, MindsY

\* A column beyond the last is gone back from.
LEMMA TestXStep == ASSUME Inv, NEW t \in Threads, TestX(t) PROVE Inv'
  <1> DEFINE s == screen
             f == IF screen.x >= Width THEN To(t, "wrap") ELSE Call(t, "update", "put")
  <1>1. Step(t, "wide", s, f) /\ thread[t].pc = "wide"
    BY DEF TestX, Step
  <1>2. screen \in Screen /\ thread[t] \in Frame
    BY DEF Inv
  <1>3. s \in Screen /\ s.y = screen.y /\ (s.x < Width \/ s.x >= Width)
    BY <1>2, Members, ConsoleAssumption
  <1>4. f \in Frame /\ (s.x >= Width => f.pc = "wrap")
    <2>1. {"wrap", "update", "put"} \subseteq Pc
      BY DEF Pc
    <2>2. To(t, "wrap") \in Frame /\ To(t, "wrap").pc = "wrap"
      BY <1>2, <2>1, ToFrame
    <2>3. Call(t, "update", "put") \in Frame
      BY <1>2, <2>1, CallFrame
    <2>4. QED BY <2>2, <2>3
  <1> HIDE DEF s, f
  <1> QED BY <1>1, <1>3, <1>4, StepInv DEF MindsX, MindsY

\* X = 0.
LEMMA WrapXStep == ASSUME Inv, NEW t \in Threads, WrapX(t) PROVE Inv'
  <1> DEFINE s == [screen EXCEPT !.x = 0]
             f == To(t, "down")
  <1>1. Step(t, "wrap", s, f) /\ thread[t].pc = "wrap"
    BY DEF WrapX, Step
  <1>2. screen \in Screen /\ thread[t] \in Frame
    BY DEF Inv
  <1>3. s \in Screen /\ s.y = screen.y /\ s.x = 0 /\ 0 < Width
    BY <1>2, Moved, FirstColumn
  <1>4. f \in Frame
    BY <1>2, ToFrame DEF Pc
  <1> HIDE DEF s, f
  <1> QED BY <1>1, <1>3, <1>4, StepInv DEF MindsX, MindsY

\* Y += 1, its store: the thread will test the line.
LEMMA StoreYStep == ASSUME Inv, NEW t \in Threads, StoreY(t) PROVE Inv'
  <1> DEFINE s == [screen EXCEPT !.y = thread[t].r + 1]
             f == To(t, "tall")
  <1>1. Step(t, "storeY", s, f) /\ thread[t].pc = "storeY"
    BY DEF StoreY, Step
  <1>2. screen \in Screen /\ thread[t] \in Frame
    BY DEF Inv
  <1>3. s \in Screen /\ s.x = screen.x
    BY <1>2, Moved, IncNat DEF Frame
  <1>4. f \in Frame /\ f.pc = "tall"
    BY <1>2, ToFrame DEF Pc
  <1> HIDE DEF s, f
  <1> QED BY <1>1, <1>3, <1>4, StepInv DEF MindsX, MindsY

\* A line beyond the last is gone back from.
LEMMA TestYStep == ASSUME Inv, NEW t \in Threads, TestY(t) PROVE Inv'
  <1> DEFINE s == screen
             f == IF screen.y > Height - 1 THEN To(t, "clamp") ELSE Call(t, "update", "put")
  <1>1. Step(t, "tall", s, f) /\ thread[t].pc = "tall"
    BY DEF TestY, Step
  <1>2. screen \in Screen /\ thread[t] \in Frame
    BY DEF Inv
  <1>3. s \in Screen /\ s.x = screen.x /\ (s.y < Height \/ s.y > Height - 1)
    BY <1>2, Members, ConsoleAssumption
  <1>4. f \in Frame /\ (s.y > Height - 1 => f.pc = "clamp")
    <2>1. "clamp" \in Pc /\ "update" \in Pc /\ "put" \in Pc
      BY DEF Pc
    <2>2. To(t, "clamp") \in Frame /\ To(t, "clamp").pc = "clamp"
      BY <1>2, <2>1, ToFrame
    <2>3. Call(t, "update", "put") \in Frame
      BY <1>2, <2>1, CallFrame
    <2> QED BY <2>2, <2>3
  <1> HIDE DEF s, f
  <1> QED BY <1>1, <1>3, <1>4, StepInv DEF MindsX, MindsY

\* Y = mHeight - 1.
LEMMA ClampStep == ASSUME Inv, NEW t \in Threads, Clamp(t) PROVE Inv'
  <1> DEFINE s == [screen EXCEPT !.y = Height - 1]
             f == [Call(t, "update", "put") EXCEPT !.scroll = TRUE]
  <1>1. Step(t, "clamp", s, f) /\ thread[t].pc = "clamp"
    BY DEF Clamp, Step
  <1>2. screen \in Screen /\ thread[t] \in Frame
    BY DEF Inv
  <1>3. s \in Screen /\ s.x = screen.x /\ s.y < Height
    BY <1>2, Moved, LastLineNat
  <1>4. f \in Frame
    <2> DEFINE c == Call(t, "update", "put")
    <2>1. c \in Frame
      <3>1. "update" \in Pc /\ "put" \in Pc
        BY DEF Pc
      <3> QED BY <1>2, <3>1, CallFrame
    <2> HIDE DEF c
    <2>2. [c EXCEPT !.scroll = TRUE] \in Frame
      BY <2>1, SetScroll
    <2> QED BY <2>2 DEF c
  <1> HIDE DEF s, f
  <1> QED BY <1>1, <1>3, <1>4, StepInv DEF MindsX, MindsY

\* NewLine: X = 0.
LEMMA CarriageReturnStep == ASSUME Inv, NEW t \in Threads, CarriageReturn(t) PROVE Inv'
  <1> DEFINE s == [screen EXCEPT !.x = 0]
             f == To(t, "loadLine")
  <1>1. Step(t, "line", s, f) /\ thread[t].pc = "line"
    BY DEF CarriageReturn, Step
  <1>2. screen \in Screen /\ thread[t] \in Frame
    BY DEF Inv
  <1>3. s \in Screen /\ s.y = screen.y /\ s.x = 0 /\ 0 < Width
    BY <1>2, Moved, FirstColumn
  <1>4. f \in Frame
    BY <1>2, ToFrame DEF Pc
  <1> HIDE DEF s, f
  <1> QED BY <1>1, <1>3, <1>4, StepInv DEF MindsX, MindsY

\* Y += lines, its store: the thread will test the line.
LEMMA FeedStep == ASSUME Inv, NEW t \in Threads, Feed(t) PROVE Inv'
  <1> DEFINE s == [screen EXCEPT !.y = thread[t].r + 1]
             f == To(t, "was")
  <1>1. Step(t, "feed", s, f) /\ thread[t].pc = "feed"
    BY DEF Feed, Step
  <1>2. screen \in Screen /\ thread[t] \in Frame
    BY DEF Inv
  <1>3. s \in Screen /\ s.x = screen.x
    BY <1>2, Moved, IncNat DEF Frame
  <1>4. f \in Frame /\ f.pc = "was"
    BY <1>2, ToFrame DEF Pc
  <1> HIDE DEF s, f
  <1> QED BY <1>1, <1>3, <1>4, StepInv DEF MindsX, MindsY

\* Y = mHeight - 1 after the scrolling.
LEMMA LastLineStep == ASSUME Inv, NEW t \in Threads, LastLine(t) PROVE Inv'
  <1> DEFINE s == [screen EXCEPT !.y = Height - 1]
             f == AfterLine(t)
  <1>1. Step(t, "last", s, f) /\ thread[t].pc = "last"
    BY DEF LastLine, Step
  <1>2. screen \in Screen /\ thread[t] \in Frame
    BY DEF Inv
  <1>3. s \in Screen /\ s.x = screen.x /\ s.y < Height
    BY <1>2, Moved, LastLineNat
  <1>4. f \in Frame
    BY <1>2, AfterLineFrame DEF Pc
  <1> HIDE DEF s, f
  <1> QED BY <1>1, <1>3, <1>4, StepInv DEF MindsX, MindsY

\* The scrolling, or Clear's pixels.
LEMMA ScrollUpStep == ASSUME Inv, NEW t \in Threads, ScrollUp(t) PROVE Inv'
  <1> DEFINE n == thread[t].r
             s == CASE n = 0 -> screen [] n >= Height -> Wiped(screen) [] OTHER -> Scrolled(screen, n)
             f == To(t, IF n >= Height THEN "homeX" ELSE "last")
  <1>1. Step(t, "lines", s, f) /\ thread[t].pc = "lines"
    BY DEF ScrollUp, Step
  <1>2. screen \in Screen /\ thread[t] \in Frame
    BY DEF Inv
  <1>3. s \in Screen /\ s.x = screen.x /\ s.y = screen.y
    <2>1. n \in Nat
      BY <1>2 DEF Frame
    <2> HIDE DEF n
    <2> QED BY <1>2, <2>1, WipedType, ScrolledType
  <1>4. f \in Frame /\ f.pc \in {"homeX", "last"}
    BY <1>2, ToFrame DEF Pc
  <1> HIDE DEF s, f
  <1> QED BY <1>1, <1>3, <1>4, PassInv DEF MindsX, MindsY

\* Clear's stores into the position.
LEMMA HomeXStep == ASSUME Inv, NEW t \in Threads, HomeX(t) PROVE Inv'
  <1> DEFINE s == [screen EXCEPT !.x = 0]
             f == To(t, "homeY")
  <1>1. Step(t, "homeX", s, f) /\ thread[t].pc = "homeX"
    BY DEF HomeX, Step
  <1>2. screen \in Screen /\ thread[t] \in Frame
    BY DEF Inv
  <1>3. s \in Screen /\ s.x < Width /\ s.y = screen.y
    BY <1>2, Moved, FirstColumn
  <1>4. f \in Frame /\ f.pc = "homeY"
    BY <1>2, ToFrame DEF Pc
  <1> HIDE DEF s, f
  <1> QED BY <1>1, <1>3, <1>4, StepInv DEF MindsX, MindsY

\* The second of them.
LEMMA HomeYStep == ASSUME Inv, NEW t \in Threads, HomeY(t) PROVE Inv'
  <1> DEFINE s == [screen EXCEPT !.y = 0]
             f == To(t, "last")
  <1>1. Step(t, "homeY", s, f) /\ thread[t].pc = "homeY"
    BY DEF HomeY, Step
  <1>2. screen \in Screen /\ thread[t] \in Frame
    BY DEF Inv
  <1>3. s \in Screen /\ s.x = screen.x /\ s.y < Height
    BY <1>2, Moved, FirstLine
  <1>4. f \in Frame /\ f.pc = "last"
    BY <1>2, ToFrame DEF Pc
  <1> HIDE DEF s, f
  <1> QED BY <1>1, <1>3, <1>4, StepInv DEF MindsX, MindsY

\* A line beyond the last is scrolled up to.
LEMMA TestBottomStep == ASSUME Inv, NEW t \in Threads, TestBottom(t) PROVE Inv'
  <1>1. screen \in Screen /\ thread[t] \in Frame /\ thread[t].pc = "bottom"
    BY DEF Inv, TestBottom, Step
  <1>2. CASE screen.y > Height - 1
    <2>1. Step(t, "bottom", screen, To(t, "excess"))
      BY <1>2 DEF TestBottom
    <2>2. To(t, "excess") \in Frame /\ To(t, "excess").pc = "excess"
      BY <1>1, ToFrame DEF Pc
    <2> QED BY <1>1, <2>1, <2>2, PassInv DEF MindsX, MindsY
  <1>3. CASE ~(screen.y > Height - 1)
    <2>1. Step(t, "bottom", screen, AfterLine(t))
      BY <1>3 DEF TestBottom
    <2>2. screen.y < Height
      BY <1>1, <1>3, Members, ConsoleAssumption
    <2> QED BY <1>1, <2>1, <2>2, AfterLineFrame, StepInv DEF MindsX, MindsY
  <1> QED BY <1>2, <1>3

\* How far beyond, read again.
LEMMA ExcessStep == ASSUME Inv, NEW t \in Threads, Excess(t) PROVE Inv'
  <1> DEFINE n == screen.y - (Height - 1)
             m == IF n < 0 THEN Height ELSE n
             f == [To(t, "lines") EXCEPT !.r = m]
  <1>1. Step(t, "excess", screen, f) /\ thread[t].pc = "excess"
    BY DEF Excess, Step
  <1>2. screen \in Screen /\ thread[t] \in Frame
    BY DEF Inv
  <1>3. m \in Nat
    BY <1>2, Members, ConsoleAssumption
  <1> HIDE DEF m
  <1>4. f \in Frame /\ f.pc = "lines"
    BY <1>2, <1>3, ToFrame, SetR DEF Pc
  <1> HIDE DEF f
  <1> QED BY <1>1, <1>2, <1>4, PassInv DEF MindsX, MindsY

\* Write takes the next character, or print ends.
LEMMA NextCharStep == ASSUME Inv, NEW t \in Threads, NextChar(t) PROVE Inv'
  <1> DEFINE g == thread[t]
             f == IF g.text = <<>> THEN IF g.state THEN Call(t, "enable", "idle") ELSE Idle
                  ELSE IF Head(g.text) = "newline"
                       THEN [Idle EXCEPT !.pc = "line", !.text = Tail(g.text), !.state = g.state]
                       ELSE [Idle EXCEPT !.pc = "origin", !.text = Tail(g.text), !.state = g.state,
                                         !.char = Head(g.text), !.at = <<screen.x, 0>>]
  <1>1. Step(t, "next", screen, f) /\ g.pc = "next"
    BY DEF NextChar, Step
  <1>2. screen \in Screen /\ g \in Frame
    BY DEF Inv
  <1>3. f \in Frame
    <2>1. CASE g.text = <<>>
      <3>1. "enable" \in Pc /\ "idle" \in Pc
        BY DEF Pc
      <3>2. Call(t, "enable", "idle") \in Frame
        BY <1>2, <3>1, CallFrame
      <3> QED BY <2>1, <3>2, IdleFrame
    <2>2. CASE g.text # <<>>
      <3>1. g.text \in Seq(Glyph \cup {"newline"}) /\ g.state \in BOOLEAN
        BY <1>2 DEF Frame
      <3>2. Head(g.text) \in Glyph \cup {"newline"} /\ Tail(g.text) \in Seq(Glyph \cup {"newline"})
        BY <2>2, <3>1
      <3>3. <<screen.x, 0>> \in Nat \X Nat
        BY <1>2, Members
      <3>4. CASE Head(g.text) = "newline"
        <4>1. f = [Idle EXCEPT !.pc = "line", !.text = Tail(g.text), !.state = g.state]
          BY <2>2, <3>4
        <4>2. "line" \in Pc
          BY DEF Pc
        <4> HIDE DEF f
        <4> QED BY <3>1, <3>2, <4>1, <4>2, IdleFrame DEF Frame
      <3>5. CASE Head(g.text) # "newline"
        <4>1. f = [Idle EXCEPT !.pc = "origin", !.text = Tail(g.text), !.state = g.state,
                               !.char = Head(g.text), !.at = <<screen.x, 0>>]
          BY <2>2, <3>5
        <4>2. Head(g.text) \in Glyph
          BY <3>2, <3>5
        <4>3. "origin" \in Pc
          BY DEF Pc
        <4> HIDE DEF f
        <4> QED BY <3>1, <3>2, <3>3, <4>1, <4>2, <4>3, IdleFrame DEF Frame
      <3> QED BY <3>4, <3>5
    <2> QED BY <2>1, <2>2
  <1> HIDE DEF f
  <1> QED BY <1>1, <1>2, <1>3, PassInv DEF MindsX, MindsY

\* WriteChar remembers the other coordinate of the origin.
LEMMA OriginStep == ASSUME Inv, NEW t \in Threads, Origin(t) PROVE Inv'
  <1> DEFINE s == screen
             p == <<thread[t].at[1], screen.y>>
             f == [To(t, "right") EXCEPT !.at = p]
  <1>1. Step(t, "origin", s, f) /\ thread[t].pc = "origin"
    BY DEF Origin, Step, To, Inv, Frame
  <1>2. screen \in Screen /\ thread[t] \in Frame
    BY DEF Inv
  <1>3. s \in Screen /\ s.x = screen.x /\ s.y = screen.y
    BY <1>2
  <1>4. f \in Frame
    <2>1. p \in Nat \X Nat
      BY <1>2, Members DEF Frame
    <2>2. /\ To(t, "right") \in Frame /\ To(t, "right").pc = "right"
          /\ To(t, "right").return = thread[t].return
      BY <1>2, ToFrame DEF Pc
    <2> HIDE DEF p
    <2> QED BY <2>1, <2>2, SetAt
  <1> HIDE DEF s, f
  <1> QED BY <1>1, <1>3, <1>4, PassInv DEF MindsX, MindsY

-----------------------------------------------------------------------------
(* The whole next-state relation.                                          *)

\* print begins.
LEMMA PrintlnStep == ASSUME Inv, NEW t \in Threads, Println(t) PROVE Inv'
  <1>1. PICK text \in Texts :
          /\ thread[t].pc = "idle" /\ calls < MaxCalls
          /\ thread' = [thread EXCEPT ![t] = [Idle EXCEPT !.pc = "state", !.text = text]]
          /\ calls' = calls + 1
          /\ raced' = (raced \/ \E u \in Threads : thread[u].pc # "idle")
          /\ UNCHANGED <<screen, flags>>
    BY DEF Println
  <1> DEFINE f == [Idle EXCEPT !.pc = "state", !.text = text]
  <1>2. f \in Frame
    <2>1. text \in Seq(Glyph \cup {"newline"})
      BY ConsoleAssumption
    <2>2. "state" \in Pc
      BY DEF Pc
    <2> QED BY <2>1, <2>2, IdleFrame DEF Frame
  <1>3. thread' = [thread EXCEPT ![t] = f]
    BY <1>1
  <1> HIDE DEF f
  <1>4. thread' \in [Threads -> Frame] /\ \A u \in Threads : u # t => thread'[u] = thread[u]
    BY <1>2, <1>3 DEF Inv
  <1>5. calls' \in 0 .. MaxCalls /\ raced' \in BOOLEAN
    BY <1>1, ConsoleAssumption DEF Inv
  <1>6. ~MindsX(thread[t]) /\ ~MindsY(thread[t])
    BY <1>1 DEF MindsX, MindsY
  <1>7. /\ screen.x >= Width => \E u \in Threads : MindsX(thread'[u])
        /\ screen.y >= Height => \E u \in Threads : MindsY(thread'[u])
    BY <1>4, <1>6 DEF Inv, Minded
  <1>8. Minded'
    <2>1. (\E u \in Threads : MindsX(thread'[u])) => (\E u \in Threads : MindsX(thread[u]))'
      OBVIOUS
    <2>2. (\E u \in Threads : MindsY(thread'[u])) => (\E u \in Threads : MindsY(thread[u]))'
      OBVIOUS
    <2> QED BY <1>1, <1>7, <2>1, <2>2 DEF Minded
  <1> QED BY <1>1, <1>4, <1>5, <1>8 DEF Inv

\* The keyboard's interrupt changes the screen by whole operations.
LEMMA KeyDownStep == ASSUME Inv, NEW key \in Keys, KeyDownEvent(key) PROVE Inv'
  <1>1. screen \in Screen
    BY DEF Inv
  <1>2. Kept(screen, screen')
    <2>1. Kept(screen, Backspace(WriteChar(Backspace(screen), Blank)))
      <3> DEFINE a == Backspace(screen)
                 b == WriteChar(a, Blank)
      <3>1. Kept(screen, a)
        BY <1>1, BackspaceKept
      <3>2. Kept(a, b)
        <4>1. Blank \in Glyph
          BY DEF Glyph
        <4> QED BY <3>1, <4>1, WriteCharKept DEF Kept
      <3>3. Kept(b, Backspace(b))
        BY <3>2, BackspaceKept DEF Kept
      <3> HIDE DEF a, b
      <3>4. Kept(screen, b)
        BY <3>1, <3>2, KeptTransitive
      <3>5. Kept(screen, Backspace(b))
        BY <3>3, <3>4, KeptTransitive
      <3> QED BY <3>5 DEF a, b
    <2>2. Kept(screen, Clear(screen))
      BY <1>1, ClearType, ConsoleAssumption DEF Kept
    <2>3. Kept(screen, screen)
      BY <1>1 DEF Kept
    <2>4. Kept(screen, WriteChar(screen, Character(key)))
      <3>1. Character(key) \in Glyph \cup {"newline", "backspace", "none", "tab"}
        BY DEF Character, Glyph
      <3> QED BY <1>1, <3>1, WriteCharKept
    <2>5. screen' \in {Backspace(WriteChar(Backspace(screen), Blank)), Clear(screen), screen,
                       WriteChar(screen, Character(key))}
      BY DEF KeyDownEvent
    <2> QED BY <2>1, <2>2, <2>3, <2>4, <2>5
  <1>3. thread' = thread
    BY DEF KeyDownEvent
  <1>4. flags' \subseteq Held \cup {"CapsLock"}
    BY DEF KeyDownEvent, Inv
  <1>5. calls' \in 0 .. MaxCalls /\ raced' \in BOOLEAN
    BY ConsoleAssumption DEF KeyDownEvent, Inv
  <1>6. Minded'
    BY <1>2, <1>3 DEF Minded, Kept, Inv
  <1> QED BY <1>2, <1>3, <1>4, <1>5, <1>6 DEF Inv, Kept

\* A released key changes the flags only.
LEMMA KeyUpStep == ASSUME Inv, NEW key \in Keys \cap flags, KeyUpEvent(key) PROVE Inv'
  BY DEF KeyUpEvent, Inv, Minded

\* Each step of a print, named above.
LEMMA PrintStepInv == ASSUME Inv, NEW t \in Threads, PrintStep(t) PROVE Inv'
  BY ReadStateStep, NextCharStep, OriginStep, LoadXStep, StoreXStep, TestXStep, WrapXStep,
     LoadYStep, StoreYStep, TestYStep, ClampStep, PutAtStep, ScrollStep,
     TestEnabledStep, PosXStep, PosYStep, RestoreOldStep, PlaceStep, DrawNewStep, DrawnStep,
     EnableStep, EnabledStep, TestDrawnStep, OldXStep, EraseStep, DisableStep, ForgetStep,
     CarriageReturnStep, LoadLineStep, FeedStep, ReadWasStep, TurnOffStep, TestBottomStep,
     ExcessStep, ScrollUpStep, HomeXStep, HomeYStep, LastLineStep
  DEF PrintStep

\* KernelStart's console, with what was typed before the threads run.
LEMMA InitInv == ASSUME Init PROVE Inv
  <1>1. PICK x \in 0 .. Width - 1, y \in 1 .. Height - 1 :
          screen = EnableCursor([x |-> x, y |-> y,
                     upper |-> [p \in Cell |-> IF p[2] = y /\ p[1] < x THEN "x" ELSE Blank],
                     lower |-> [p \in Cell |-> IF p[2] = y /\ p[1] < x THEN "x" ELSE Blank],
                     enabled |-> FALSE, drawn |-> FALSE, prev |-> <<0, 0>>,
                     under |-> Blank, smeared |-> FALSE])
    BY DEF Init
  <1> DEFINE cells == [p \in Cell |-> IF p[2] = y /\ p[1] < x THEN "x" ELSE Blank]
             s == [x |-> x, y |-> y, upper |-> cells, lower |-> cells,
                   enabled |-> FALSE, drawn |-> FALSE, prev |-> <<0, 0>>,
                   under |-> Blank, smeared |-> FALSE]
  <1>2. cells \in [Cell -> Glyph] /\ cells \in [Cell -> Part]
    BY DEF Glyph, Part
  <1>3. x \in Nat /\ y \in Nat /\ x < Width /\ y < Height
    BY ConsoleAssumption
  <1>4. <<0, 0>> \in Int \X Int /\ Blank \in Part
    BY DEF Part, Glyph
  <1>5. screen = EnableCursor(s)
    BY <1>1
  <1> HIDE DEF cells
  <1>6. s \in Screen /\ s.x = x /\ s.y = y
    BY <1>2, <1>3, <1>4 DEF Screen
  <1> HIDE DEF s
  <1>7. screen \in Screen /\ screen.x = x /\ screen.y = y
    BY <1>5, <1>6, EnableCursorType
  <1>8. Minded
    BY <1>3, <1>7, ConsoleAssumption DEF Minded
  <1>9. thread \in [Threads -> Frame]
    BY IdleFrame DEF Init
  <1>10. calls \in 0 .. MaxCalls /\ raced \in BOOLEAN /\ flags \subseteq Held \cup {"CapsLock"}
    <2>1. calls = 0 /\ raced = FALSE /\ flags = {}
      BY DEF Init
    <2>2. 0 \in 0 .. MaxCalls
      BY ConsoleAssumption
    <2> QED BY <2>1, <2>2
  <1> QED BY <1>7, <1>8, <1>9, <1>10 DEF Inv

\* Every step keeps the invariant.
LEMMA NextInv == Inv /\ [Next]_vars => Inv'
  <1> SUFFICES ASSUME Inv, [Next]_vars PROVE Inv'
    OBVIOUS
  <1>1. ASSUME NEW t \in Threads, Println(t) \/ PrintStep(t) PROVE Inv'
    BY <1>1, PrintlnStep, PrintStepInv
  <1>2. ASSUME NEW key \in Keys, KeyDownEvent(key) PROVE Inv'
    BY <1>2, KeyDownStep
  <1>3. ASSUME NEW key \in Keys \cap flags, KeyUpEvent(key) PROVE Inv'
    BY <1>3, KeyUpStep
  <1>4. CASE UNCHANGED vars
    BY <1>4 DEF vars, Inv, Minded
  <1> QED BY <1>1, <1>2, <1>3, <1>4 DEF Next

\* The invariant holds throughout.
THEOREM Invariance == Spec => []Inv
  <1>1. Init => Inv
    BY InitInv
  <1> QED BY <1>1, NextInv, PTL DEF Spec

\* The types of the console's members, with the glyphs a cell can hold.
THEOREM TypeCorrect == Spec => []TypeOK
  <1>1. Inv => TypeOK
    BY DEF Inv, TypeOK, Screen
  <1> QED BY <1>1, Invariance, PTL

\* When no thread prints, the cursor is on the screen, whatever loads and
\* stores of prints and keys came before, in whatever order.
THEOREM OnScreenHolds == Spec => []OnScreen
  <1>1. ASSUME Inv, Quiescent PROVE Cursor(screen) \in Cell
    <2>1. \A t \in Threads : ~MindsX(thread[t]) /\ ~MindsY(thread[t])
      BY <1>1 DEF Quiescent, MindsX, MindsY
    <2>2. ~(screen.x >= Width) /\ ~(screen.y >= Height)
      BY <1>1, <2>1 DEF Inv, Minded
    <2>3. screen.x \in Nat /\ screen.y \in Nat
      BY <1>1, Members DEF Inv
    <2>4. screen.x \in 0 .. Width - 1 /\ screen.y \in 0 .. Height - 1
      BY <2>2, <2>3, ConsoleAssumption
    <2> QED BY <2>4 DEF Cursor, Cell
  <1>2. Inv => OnScreen
    BY <1>1 DEF OnScreen
  <1> QED BY <1>2, Invariance, PTL

-----------------------------------------------------------------------------
(***************************************************************************)
(* What the cursor leaves on the screen.                                   *)
(***************************************************************************)
\* The lower parts show the glyphs, with or without the cursor on top.
Bare(s) == s.smeared \/ s.lower = s.upper
Shown(s) == s.smeared \/
    /\ s.prev \in Cell
    /\ s.under = s.upper[s.prev]
    /\ s.lower = [s.upper EXCEPT ![s.prev] = "cursor"]
Painted(s) == IF s.drawn THEN Shown(s) ELSE Bare(s)

\* Between two calls of the cursor's functions it is on, and then drawn where
\* it belongs if it is drawn, or off.
On(s) ==
    /\ s.enabled /\ Cursor(s) \in Cell /\ Painted(s)
    /\ s.drawn => s.smeared \/ s.prev = Cursor(s)
Off(s) == ~s.enabled /\ Bare(s)

\* The labels of print while the cursor is off for it.
Writing == {"next", "origin", "right", "storeX", "wide", "wrap", "down", "storeY", "tall",
            "clamp", "put", "scroll", "line", "loadLine", "feed", "was", "off", "bottom",
            "excess", "lines", "homeX", "homeY", "last"}

\* What a thread that prints alone finds on the screen.
Finds(f, s) ==
    /\ f.pc \in {"state", "disable", "oldX"} => On(s) /\ s.drawn
    /\ f.pc \in {"disable", "oldX", "erase", "disabled", "forget"} =>
         f.return = "next" /\ f.state /\ ~f.was
    /\ f.pc = "state" => ~f.was
    /\ f.pc = "erase" => Shown(s) /\ f.pos[1] = s.prev[1]
    /\ f.pc = "disabled" => Bare(s)
    /\ f.pc = "forget" => Off(s)
    /\ f.pc \in Writing => Off(s) /\ f.state /\ ~f.was
    /\ f.pc \in {"enable", "enabled"} => f.return = "idle"
    /\ f.pc = "enable" => Off(s)
    /\ f.pc = "enabled" => s.enabled /\ Bare(s)
    /\ f.pc = "update" =>
         \/ f.return = "idle" /\ On(s)
         \/ f.return = "put" /\ Off(s) /\ f.state /\ ~f.was
    /\ f.pc = "posX" => f.return = "idle" /\ On(s)
    /\ f.pc \in {"posY", "restore", "place", "draw", "drawn"} =>
         /\ f.return = "idle" /\ s.enabled
         /\ Cursor(s) \in Cell /\ f.pos[1] = s.x
    /\ f.pc \in {"restore", "place", "draw", "drawn"} => f.pos = Cursor(s)
    /\ f.pc \in {"posY", "restore"} => Painted(s)
    /\ f.pc \in {"place", "draw"} => Bare(s)
    /\ f.pc \in {"draw", "drawn"} => s.prev = Cursor(s)
    /\ f.pc = "drawn" => Shown(s)

Alone == \A t, u \in Threads : thread[t].pc # "idle" /\ thread[u].pc # "idle" => t = u

\* Until prints overlap or a key comes while one is Drawing.
Presented == ~raced =>
    /\ Alone
    /\ Quiescent => On(screen) /\ screen.drawn
    /\ \A t \in Threads : Finds(thread[t], screen)

\* What has moved only the position is painted as before.
LEMMA PaintedMoved ==
    ASSUME NEW s, NEW n, Painted(s),
           n.enabled = s.enabled, n.drawn = s.drawn, n.smeared = s.smeared, n.prev = s.prev,
           n.under = s.under, n.upper = s.upper, n.lower = s.lower
    PROVE  Painted(n)
  BY DEF Painted, Shown, Bare

\* Putting back what it covered takes the cursor from the screen.
LEMMA PutBackBare ==
    ASSUME NEW s \in Screen, Shown(s), NEW p, s.smeared \/ p = s.prev
    PROVE  LET n == PutBack(s, p) IN
           /\ Bare(n) /\ n \in Screen
           /\ n.x = s.x /\ n.y = s.y /\ n.upper = s.upper
           /\ n.enabled = s.enabled /\ n.drawn = s.drawn
           /\ n.smeared = s.smeared /\ n.prev = s.prev
  <1> DEFINE n == PutBack(s, p)
  <1>1. n \in Screen
    BY PutBackType
  <1>2. CASE p \in Cell
    <2> DEFINE low == [s.lower EXCEPT ![p] = s.under]
    <2>1. n = [s EXCEPT !.lower = low]
      BY <1>2 DEF PutBack, Screen
    <2>2. s.smeared \/ low = s.upper
      <3> SUFFICES ASSUME ~s.smeared PROVE low = s.upper
        OBVIOUS
      <3>1. /\ s.under = s.upper[p] /\ s.lower = [s.upper EXCEPT ![p] = "cursor"]
            /\ s.upper \in [Cell -> Glyph]
        BY DEF Shown, Screen
      <3> QED BY <1>2, <3>1
    <2> HIDE DEF low, n
    <2>3. /\ n.lower = low /\ n.upper = s.upper /\ n.x = s.x /\ n.y = s.y
          /\ n.enabled = s.enabled /\ n.drawn = s.drawn
          /\ n.smeared = s.smeared /\ n.prev = s.prev
      BY <2>1 DEF Screen
    <2> QED BY <1>1, <2>2, <2>3 DEF Bare, n
  <1>3. CASE p \notin Cell
    BY <1>1, <1>3 DEF PutBack, Shown, Bare
  <1> QED BY <1>2, <1>3

\* Restore does it if there is a cursor.
LEMMA RestoreBare ==
    ASSUME NEW s \in Screen, Painted(s)
    PROVE  /\ Bare(Restore(s)) /\ Restore(s) \in Screen
           /\ Restore(s).x = s.x /\ Restore(s).y = s.y /\ Restore(s).upper = s.upper
           /\ Restore(s).enabled = s.enabled /\ Restore(s).drawn = s.drawn
           /\ Restore(s).smeared = s.smeared /\ Restore(s).prev = s.prev
  <1>1. CASE s.drawn
    <2> DEFINE p == s.prev
    <2>1. Shown(s) /\ Restore(s) = PutBack(s, p)
      BY <1>1 DEF Painted, Restore
    <2> QED BY <2>1, PutBackBare
  <1>2. CASE ~s.drawn
    BY <1>2 DEF Restore, Painted
  <1> QED BY <1>1, <1>2

\* Draw shows the cursor where it is told to.
LEMMA DrawShown ==
    ASSUME NEW s \in Screen, NEW p \in Cell, Bare(s), s.prev = p
    PROVE  /\ Shown(Draw(s, p)) /\ Draw(s, p) \in Screen
           /\ Draw(s, p).x = s.x /\ Draw(s, p).y = s.y /\ Draw(s, p).prev = p
           /\ Draw(s, p).enabled = s.enabled /\ Draw(s, p).smeared = s.smeared
  <1> DEFINE low == [s.lower EXCEPT ![p] = "cursor"]
             u == s.lower[p]
  <1>1. Draw(s, p) = [s EXCEPT !.under = u, !.lower = low]
    BY DEF Draw, Screen
  <1>2. s.smeared \/ (u = s.upper[p] /\ low = [s.upper EXCEPT ![p] = "cursor"])
    BY DEF Bare
  <1> HIDE DEF low, u
  <1>3. /\ Draw(s, p).under = u /\ Draw(s, p).lower = low /\ Draw(s, p).upper = s.upper
        /\ Draw(s, p).x = s.x /\ Draw(s, p).y = s.y /\ Draw(s, p).prev = p
        /\ Draw(s, p).enabled = s.enabled /\ Draw(s, p).smeared = s.smeared
    BY <1>1 DEF Screen
  <1> QED BY <1>2, <1>3, DrawType DEF Shown

\* UpdateCursor redraws it where it belongs,
LEMMA UpdateOn ==
    ASSUME NEW s \in Screen, s.enabled, Cursor(s) \in Cell, Painted(s)
    PROVE  LET u == UpdateCursor(s) IN
           u \in Screen /\ On(u) /\ u.drawn /\ u.prev = Cursor(u) /\ u.x = s.x /\ u.y = s.y
  <1> DEFINE p == Cursor(s)
             r == [Restore(s) EXCEPT !.prev = p]
             d == Draw(r, p)
             u == UpdateCursor(s)
  <1>1. r \in Screen /\ r.x = s.x /\ r.y = s.y /\ r.prev = p /\ r.enabled /\ Bare(r)
    <2> DEFINE q == Restore(s)
    <2>1. /\ q \in Screen /\ q.x = s.x /\ q.y = s.y /\ q.enabled /\ Bare(q)
          /\ p \in Int \X Int
      BY RestoreBare, CursorType
    <2> HIDE DEF q, p
    <2>2. LET n == [q EXCEPT !.prev = p] IN
            /\ n \in Screen /\ n.x = q.x /\ n.y = q.y /\ n.prev = p /\ n.enabled = q.enabled
            /\ n.smeared = q.smeared /\ n.lower = q.lower /\ n.upper = q.upper
      BY <2>1 DEF Screen
    <2> QED BY <2>1, <2>2 DEF Bare, q
  <1> HIDE DEF r, p
  <1>2. /\ d \in Screen /\ d.x = s.x /\ d.y = s.y /\ d.prev = p /\ d.enabled /\ Shown(d)
    BY <1>1, DrawShown DEF p
  <1> HIDE DEF d
  <1>3. u = [d EXCEPT !.drawn = TRUE]
    BY DEF UpdateCursor, d, r, p
  <1> HIDE DEF u
  <1>4. /\ u \in Screen /\ u.x = s.x /\ u.y = s.y /\ u.prev = p /\ u.enabled /\ u.drawn
        /\ u.smeared = d.smeared /\ u.under = d.under /\ u.upper = d.upper
        /\ u.lower = d.lower /\ d.prev = p
    BY <1>2, <1>3 DEF Screen
  <1>5. Shown(u)
    BY <1>2, <1>4 DEF Shown
  <1>6. Cursor(u) = p /\ p \in Cell
    BY <1>4 DEF Cursor, p
  <1> QED BY <1>4, <1>5, <1>6 DEF On, Painted, u

\* and leaves a cursor that is off alone.
LEMMA UpdateOff ==
    ASSUME NEW s, ~s.enabled PROVE UpdateCursor(s) = s
  BY DEF UpdateCursor

\* PutChar beside the cursor.
LEMMA PutOn ==
    ASSUME NEW s \in Screen, On(s), s.drawn, NEW c \in Glyph, NEW p,
           s.smeared \/ p # Cursor(s)
    PROVE  LET n == Put(s, c, p) IN
           n \in Screen /\ On(n) /\ n.drawn /\ n.x = s.x /\ n.y = s.y
  <1> DEFINE n == Put(s, c, p)
             up == [s.upper EXCEPT ![p] = c]
             low == [s.lower EXCEPT ![p] = c]
  <1>1. CASE p \in Cell
    <2>1. n = [s EXCEPT !.upper = up, !.lower = low]
      BY <1>1 DEF Put, Screen
    <2>2. n \in Screen
      BY PutType
    <2> HIDE DEF up, low, n
    <2>3. /\ n.upper = up /\ n.lower = low /\ n.under = s.under /\ n.prev = s.prev
          /\ n.x = s.x /\ n.y = s.y /\ n.enabled = s.enabled /\ n.drawn = s.drawn
          /\ n.smeared = s.smeared
      BY <2>1 DEF Screen
    <2>4. Shown(n)
      <3> SUFFICES ASSUME ~s.smeared PROVE Shown(n)
        BY <2>3 DEF Shown
      <3>1. /\ s.prev \in Cell /\ s.prev # p /\ s.under = s.upper[s.prev]
            /\ s.lower = [s.upper EXCEPT ![s.prev] = "cursor"]
            /\ s.upper \in [Cell -> Glyph]
        BY DEF On, Painted, Shown, Screen
      <3>2. up[s.prev] = s.upper[s.prev] /\ low = [up EXCEPT ![s.prev] = "cursor"]
        BY <1>1, <3>1 DEF up, low
      <3> QED BY <2>3, <3>1, <3>2 DEF Shown
    <2> QED BY <2>2, <2>3, <2>4 DEF On, Painted, Cursor, n
  <1>2. CASE p \notin Cell
    BY <1>2 DEF Put
  <1> QED BY <1>1, <1>2

\* PutChar while the cursor is off.
LEMMA PutOff ==
    ASSUME NEW s \in Screen, Off(s), NEW c \in Glyph, NEW p
    PROVE  Off(Put(s, c, p))
  <1> DEFINE n == Put(s, c, p)
             up == [s.upper EXCEPT ![p] = c]
             low == [s.lower EXCEPT ![p] = c]
  <1>1. CASE p \in Cell
    <2>1. n = [s EXCEPT !.upper = up, !.lower = low]
      BY <1>1 DEF Put, Screen
    <2>2. s.smeared \/ up = low
      BY DEF Off, Bare
    <2> HIDE DEF up, low, n
    <2>3. /\ n.upper = up /\ n.lower = low /\ n.enabled = s.enabled /\ n.drawn = s.drawn
          /\ n.smeared = s.smeared
      BY <2>1 DEF Screen
    <2> QED BY <2>2, <2>3 DEF Off, Bare, n
  <1>2. CASE p \notin Cell
    BY <1>2 DEF Put
  <1> QED BY <1>1, <1>2

\* Rows that move, or go, while the cursor is off stay clean.
LEMMA ScrolledOff ==
    ASSUME NEW s \in Screen, Off(s), NEW lines \in Nat
    PROVE  LET n == Scrolled(s, lines) IN n \in Screen /\ Off(n)
  <1> DEFINE n == Scrolled(s, lines)
             up == Up(s.upper, lines)
             low == Up(s.lower, lines)
             m == Smeared(s)
  <1>1. n = [s EXCEPT !.upper = up, !.lower = low, !.smeared = m]
    BY DEF Scrolled, Screen
  <1>2. n \in Screen
    BY ScrolledType
  <1>3. (s.smeared \/ low = up) /\ m = s.smeared
    BY DEF Off, Bare, Smeared, Screen
  <1> HIDE DEF up, low, n, m
  <1>4. n.upper = up /\ n.lower = low /\ n.smeared = m /\ n.enabled = s.enabled
    BY <1>1 DEF Screen
  <1> QED BY <1>2, <1>3, <1>4 DEF Off, Bare, n
LEMMA WipedOff ==
    ASSUME NEW s \in Screen, Off(s)
    PROVE  LET n == Wiped(s) IN n \in Screen /\ Off(n)
  <1> DEFINE n == Wiped(s)
             up == [p \in Cell |-> Blank]
             m == Smeared(s)
  <1>1. n = [s EXCEPT !.upper = up, !.lower = up, !.smeared = m]
    BY DEF Wiped, Screen
  <1>2. n \in Screen
    BY WipedType
  <1> HIDE DEF up, n, m
  <1>3. n.upper = up /\ n.lower = up /\ n.enabled = s.enabled
    BY <1>1 DEF Screen
  <1> QED BY <1>2, <1>3 DEF Off, Bare, n

\* Clear smears a drawn cursor.
LEMMA ClearOn ==
    ASSUME NEW s \in Screen, s.enabled
    PROVE  LET n == Clear(s) IN
           /\ n \in Screen /\ Painted(n) /\ n.x = 0 /\ n.y = 0 /\ n.enabled
           /\ n.drawn = s.drawn /\ (n.drawn => n.smeared)
  <1> DEFINE n == Clear(s)
             up == [p \in Cell |-> Blank]
             m == Smeared(s)
  <1>1. n = [s EXCEPT !.upper = up, !.lower = up, !.smeared = m, !.x = 0, !.y = 0]
    BY DEF Clear, Wiped, Screen
  <1>2. n \in Screen
    BY ClearType
  <1>3. s.drawn => m
    BY DEF Smeared
  <1> HIDE DEF up, n, m
  <1>4. /\ n.upper = up /\ n.lower = up /\ n.smeared = m /\ n.x = 0 /\ n.y = 0
        /\ n.enabled = s.enabled /\ n.drawn = s.drawn
    BY <1>1 DEF Screen
  <1>5. Painted(n)
    BY <1>3, <1>4 DEF Painted, Shown, Bare
  <1> QED BY <1>2, <1>3, <1>4, <1>5 DEF n

\* While the cursor is off Clear leaves it off.
LEMMA ClearOff ==
    ASSUME NEW s \in Screen, Off(s) PROVE Off(Clear(s)) /\ Clear(s) \in Screen
  <1> DEFINE w == Wiped(s)
             n == Clear(s)
  <1>1. w \in Screen /\ Off(w)
    BY WipedOff
  <1>2. n = [w EXCEPT !.x = 0, !.y = 0]
    BY DEF Clear
  <1>3. n \in Screen
    BY ClearType
  <1> HIDE DEF w, n
  <1>4. /\ n.enabled = w.enabled /\ n.smeared = w.smeared
        /\ n.lower = w.lower /\ n.upper = w.upper
    BY <1>1, <1>2 DEF Screen
  <1> QED BY <1>1, <1>3, <1>4 DEF Off, Bare, n

\* The first cell is a cell.
LEMMA FirstCell == <<0, 0>> \in Cell
  BY ConsoleAssumption DEF Cell

\* A position on the screen is a cell.
LEMMA CursorInCell ==
    ASSUME NEW s, s.x \in Nat, s.y \in Nat, s.x < Width, s.y < Height
    PROVE  Cursor(s) \in Cell
  <1>1. s.x \in 0 .. Width - 1 /\ s.y \in 0 .. Height - 1
    BY ConsoleAssumption
  <1> QED BY <1>1 DEF Cursor, Cell

\* Backspace with the cursor on, and off.
LEMMA BackspaceOn ==
    ASSUME NEW s \in Screen, On(s) PROVE On(Backspace(s)) /\ Backspace(s).drawn
  <1> DEFINE b == IF s.x > 0 THEN [s EXCEPT !.x = @ - 1]
                  ELSE IF s.y > 0 THEN [s EXCEPT !.x = Width - 1, !.y = @ - 1]
                  ELSE [s EXCEPT !.x = 0, !.y = 0]
  <1>1. \E x \in 0 .. Width - 1, y \in 0 .. Height - 1 : b = MoveTo(s, x, y)
    <2>1. s.x \in 0 .. Width - 1 /\ s.y \in 0 .. Height - 1
      BY DEF On, Cursor, Cell
    <2>2. CASE s.x > 0
      <3> DEFINE n == s.x - 1
                 y == s.y
      <3>1. n \in 0 .. Width - 1
        BY <2>1, <2>2, ConsoleAssumption
      <3>2. b = [s EXCEPT !.x = n]
        BY <2>2
      <3> HIDE DEF n, b
      <3>3. b = MoveTo(s, n, y)
        BY <3>2 DEF MoveTo, Screen
      <3> QED BY <2>1, <3>1, <3>3
    <2>3. CASE ~(s.x > 0) /\ s.y > 0
      <3> DEFINE n == Width - 1
                 m == s.y - 1
      <3>1. n \in 0 .. Width - 1 /\ m \in 0 .. Height - 1
        BY <2>1, <2>3, ConsoleAssumption
      <3>2. b = MoveTo(s, n, m)
        BY <2>3 DEF MoveTo
      <3> HIDE DEF n, m, b
      <3> QED BY <3>1, <3>2
    <2>4. CASE ~(s.x > 0) /\ ~(s.y > 0)
      <3>1. b = MoveTo(s, 0, 0)
        BY <2>4 DEF MoveTo
      <3>2. 0 \in 0 .. Width - 1 /\ 0 \in 0 .. Height - 1
        BY ConsoleAssumption
      <3> QED BY <3>1, <3>2
    <2> QED BY <2>2, <2>3, <2>4
  <1>2. PICK x \in 0 .. Width - 1, y \in 0 .. Height - 1 : b = MoveTo(s, x, y)
    BY <1>1
  <1>3. Backspace(s) = UpdateCursor(b)
    BY DEF Backspace
  <1> HIDE DEF b
  <1>4. /\ b \in Screen /\ b.x = x /\ b.y = y /\ b.enabled = s.enabled /\ b.drawn = s.drawn
        /\ b.smeared = s.smeared /\ b.prev = s.prev /\ b.under = s.under /\ b.upper = s.upper
        /\ b.lower = s.lower
    <2>1. x \in Nat /\ y \in Nat
      BY ConsoleAssumption
    <2> QED BY <1>2, <2>1 DEF MoveTo, Screen
  <1>5. Painted(b) /\ b.enabled /\ Cursor(b) \in Cell
    BY <1>4, PaintedMoved DEF On, Cursor, Cell
  <1> QED BY <1>3, <1>4, <1>5, UpdateOn

\* With the cursor off nothing is drawn.
LEMMA BackspaceOff ==
    ASSUME NEW s \in Screen, Off(s) PROVE Off(Backspace(s))
  <1> DEFINE b == IF s.x > 0 THEN [s EXCEPT !.x = @ - 1]
                  ELSE IF s.y > 0 THEN [s EXCEPT !.x = Width - 1, !.y = @ - 1]
                  ELSE [s EXCEPT !.x = 0, !.y = 0]
  <1>1. Backspace(s) = UpdateCursor(b)
    BY DEF Backspace
  <1>2. /\ b.enabled = s.enabled /\ b.drawn = s.drawn
        /\ b.smeared = s.smeared /\ b.upper = s.upper /\ b.lower = s.lower
    BY DEF Screen
  <1> HIDE DEF b
  <1>3. Off(b)
    BY <1>2 DEF Off, Bare
  <1> QED BY <1>1, <1>3, UpdateOff DEF Off

\* A character goes to the cell that the cursor leaves.
LEMMA GlyphOn ==
    ASSUME NEW s \in Screen, On(s), NEW char \in Glyph
    PROVE  On(WriteGlyph(s, char)) /\ WriteGlyph(s, char).drawn
  <1> DEFINE next == IF s.x + 1 < Width THEN [s EXCEPT !.x = @ + 1]
                     ELSE [s EXCEPT !.x = 0, !.y = IF @ + 1 > Height - 1 THEN Height - 1 ELSE @ + 1]
             u == UpdateCursor(next)
             full == s.x + 1 >= Width /\ s.y + 1 > Height - 1
             put == Put(u, char, Cursor(s))
  <1>0. s.x \in 0 .. Width - 1 /\ s.y \in 0 .. Height - 1
    BY DEF On, Cursor, Cell
  <1>1. \E x \in 0 .. Width - 1, y \in 0 .. Height - 1 :
          next = MoveTo(s, x, y) /\ (full \/ x # s.x \/ y # s.y)
    <2>1. CASE s.x + 1 < Width
      <3> DEFINE n == s.x + 1
                 y == s.y
      <3>1. n \in 0 .. Width - 1 /\ n # s.x
        BY <1>0, <2>1, ConsoleAssumption
      <3>2. next = [s EXCEPT !.x = n]
        BY <2>1
      <3> HIDE DEF n, next, full
      <3>3. next = MoveTo(s, n, y)
        BY <3>2 DEF MoveTo, Screen
      <3> QED BY <1>0, <3>1, <3>3
    <2>2. CASE ~(s.x + 1 < Width)
      <3> DEFINE m == IF s.y + 1 > Height - 1 THEN Height - 1 ELSE s.y + 1
      <3>1. m \in 0 .. Height - 1 /\ 0 \in 0 .. Width - 1 /\ (full \/ m # s.y)
        BY <1>0, <2>2, ConsoleAssumption
      <3>2. next = MoveTo(s, 0, m)
        BY <2>2 DEF MoveTo
      <3> HIDE DEF m, next, full
      <3> QED BY <3>1, <3>2
    <2> QED BY <2>1, <2>2
  <1>2. PICK x \in 0 .. Width - 1, y \in 0 .. Height - 1 :
          next = MoveTo(s, x, y) /\ (full \/ x # s.x \/ y # s.y)
    BY <1>1
  <1>3. WriteGlyph(s, char) = IF full THEN Scrolled(put, 1) ELSE put
    BY Zenon DEF WriteGlyph
  <1> HIDE DEF next, full
  <1>4. /\ next \in Screen /\ next.x = x /\ next.y = y /\ next.enabled = s.enabled
        /\ next.drawn = s.drawn /\ next.smeared = s.smeared /\ next.prev = s.prev
        /\ next.under = s.under /\ next.upper = s.upper /\ next.lower = s.lower
    <2>1. x \in Nat /\ y \in Nat
      BY ConsoleAssumption
    <2> QED BY <1>2, <2>1 DEF MoveTo, Screen
  <1>5. Painted(next) /\ next.enabled /\ Cursor(next) \in Cell
    BY <1>4, PaintedMoved DEF On, Cursor, Cell
  <1>6. u \in Screen /\ On(u) /\ u.drawn /\ u.x = x /\ u.y = y
    BY <1>4, <1>5, UpdateOn
  <1> HIDE DEF u
  <1>7. CASE ~full
    <2>1. Cursor(s) # Cursor(u)
      BY <1>2, <1>6, <1>7 DEF Cursor
    <2> QED BY <1>3, <1>6, <1>7, <2>1, PutOn
  <1>8. CASE full
    <2> DEFINE m == Scrolled(u, 1)
    <2>1. \A p \in Screen : p.drawn /\ p.enabled /\ Cursor(p) \in Cell =>
            On(Scrolled(p, 1)) /\ Scrolled(p, 1).drawn
      <3> SUFFICES ASSUME NEW p \in Screen, p.drawn, p.enabled, Cursor(p) \in Cell
                   PROVE  On(Scrolled(p, 1)) /\ Scrolled(p, 1).drawn
        OBVIOUS
      <3> DEFINE n == Scrolled(p, 1)
      <3>1. /\ n.x = p.x /\ n.y = p.y /\ n.enabled = p.enabled /\ n.drawn = p.drawn
            /\ n.smeared
        BY DEF Scrolled, Smeared, Screen
      <3> HIDE DEF n
      <3> QED BY <3>1 DEF On, Painted, Shown, Cursor, n
    <2>2. /\ put \in Screen /\ put.x = u.x /\ put.y = u.y /\ put.drawn = u.drawn
          /\ put.enabled = u.enabled
      <3> DEFINE p == Cursor(s)
                 v == [u.upper EXCEPT ![p] = char]
                 w == [u.lower EXCEPT ![p] = char]
      <3>1. put \in Screen /\ put.x = u.x /\ put.y = u.y
        BY <1>6, PutType
      <3>2. put = IF p \in Cell THEN [u EXCEPT !.upper = v, !.lower = w] ELSE u
        BY <1>6 DEF Put, Screen
      <3> HIDE DEF put, v, w
      <3> QED BY <1>6, <3>1, <3>2 DEF Screen
    <2> HIDE DEF put
    <2>3. Cursor(put) \in Cell /\ put.drawn /\ put.enabled
      BY <1>6, <2>2 DEF On, Cursor
    <2> QED BY <1>3, <1>8, <2>1, <2>2, <2>3
  <1> QED BY <1>7, <1>8

\* The same without a cursor.
LEMMA GlyphOff ==
    ASSUME NEW s \in Screen, Off(s), NEW char \in Glyph
    PROVE  Off(WriteGlyph(s, char))
  <1> DEFINE next == IF s.x + 1 < Width THEN [s EXCEPT !.x = @ + 1]
                     ELSE [s EXCEPT !.x = 0, !.y = IF @ + 1 > Height - 1 THEN Height - 1 ELSE @ + 1]
             put == Put(UpdateCursor(next), char, Cursor(s))
  <1>1. /\ next.enabled = s.enabled /\ next.drawn = s.drawn
        /\ next.smeared = s.smeared /\ next.upper = s.upper /\ next.lower = s.lower
    BY DEF Screen
  <1>2. next \in Screen
    <2>1. s.x + 1 \in Nat /\ s.y + 1 \in Nat /\ Height - 1 \in Nat
      BY Members, IncNat, LastLineNat
    <2> QED BY <2>1 DEF Screen
  <1>3. WriteGlyph(s, char) \in {put, Scrolled(put, 1)}
    BY Zenon DEF WriteGlyph
  <1> HIDE DEF next
  <1>4. Off(next)
    BY <1>1 DEF Off, Bare
  <1>5. Off(put) /\ put \in Screen
    BY <1>2, <1>4, UpdateOff, PutOff, PutType DEF Off
  <1> HIDE DEF put
  <1>6. Off(Scrolled(put, 1))
    BY <1>5, ScrolledOff
  <1> QED BY <1>3, <1>5, <1>6

\* Scrolling while the cursor is off.
LEMMA ScrollDownOff ==
    ASSUME NEW s \in Screen, Off(s), NEW lines \in Nat
    PROVE  Off(ScrollDown(s, lines)) /\ ScrollDown(s, lines) \in Screen
  BY ScrolledOff, ClearOff DEF ScrollDown

\* The line feed of an interrupt, with the cursor on, and off.
LEMMA NewLineOn ==
    ASSUME NEW s \in Screen, On(s) PROVE On(NewLine(s)) /\ NewLine(s).drawn
  <1> DEFINE below == [s EXCEPT !.x = 0, !.y = @ + 1]
             r == Restore(below)
             off == DisableCursor(below)
             n == off.y - (Height - 1)
             up == ScrollDown(off, n)
             last == IF off.y > Height - 1 THEN [up EXCEPT !.y = Height - 1] ELSE off
             e == [last EXCEPT !.enabled = TRUE, !.drawn = FALSE]
  <1>1. NewLine(s) = UpdateCursor(e)
    BY DEF NewLine, On, EnableCursor
  <1>2. below \in Screen /\ below.x = 0 /\ Painted(below)
    <2> DEFINE m == s.y + 1
    <2>1. below = MoveTo(s, 0, m) /\ m \in Nat
      BY Members DEF MoveTo
    <2> HIDE DEF below, m
    <2>2. below \in Screen /\ below.x = 0
      BY <2>1, MovedTo
    <2>3. /\ below.enabled = s.enabled /\ below.drawn = s.drawn
          /\ below.smeared = s.smeared /\ below.prev = s.prev /\ below.under = s.under
          /\ below.upper = s.upper /\ below.lower = s.lower
      BY <2>1 DEF MoveTo, Screen
    <2> QED BY <2>2, <2>3, PaintedMoved DEF On
  <1> HIDE DEF below
  <1>3. r \in Screen /\ Bare(r) /\ r.x = 0
    BY <1>2, RestoreBare
  <1>4. off = [r EXCEPT !.enabled = FALSE, !.drawn = FALSE]
    BY DEF DisableCursor
  <1> HIDE DEF r, off
  <1>5. off \in Screen /\ off.x = 0 /\ Off(off)
    <2>1. /\ off \in Screen /\ off.x = r.x /\ off.lower = r.lower /\ off.upper = r.upper
          /\ off.smeared = r.smeared /\ ~off.enabled /\ ~off.drawn
      BY <1>3, <1>4 DEF Screen
    <2> QED BY <1>3, <2>1 DEF Off, Bare
  <1>6. last \in Screen /\ last.x = 0 /\ last.y < Height /\ Bare(last)
    <2>1. CASE off.y > Height - 1
      <3>1. off.y \in Nat /\ n \in Nat
        BY <1>5, <2>1, Members, ConsoleAssumption
      <3> HIDE DEF n
      <3>2. up \in Screen /\ up.x = 0 /\ Bare(up)
        <4>1. up.x \in {0, off.x}
          BY <1>5, <3>1, ScrollDownType
        <4>2. up \in Screen /\ Off(up)
          BY <1>5, <3>1, ScrollDownOff
        <4> QED BY <1>5, <4>1, <4>2 DEF Off
      <3> DEFINE m == Height - 1
      <3>3. last = [up EXCEPT !.y = m] /\ m \in Nat /\ m < Height
        BY <2>1, LastLineNat
      <3> HIDE DEF up, m, last
      <3>4. /\ last \in Screen /\ last.x = 0 /\ last.y = m /\ last.smeared = up.smeared
            /\ last.lower = up.lower /\ last.upper = up.upper
        BY <3>2, <3>3 DEF Screen
      <3> QED BY <3>2, <3>3, <3>4 DEF Bare
    <2>2. CASE ~(off.y > Height - 1)
      <3>1. off.y < Height
        BY <1>5, <2>2, Members, ConsoleAssumption
      <3> QED BY <1>5, <2>2, <3>1 DEF Off
    <2> QED BY <2>1, <2>2
  <1> HIDE DEF last
  <1>7. e \in Screen /\ e.enabled /\ Cursor(e) \in Cell /\ Painted(e)
    <2>1. /\ e \in Screen /\ e.x = last.x /\ e.y = last.y /\ e.enabled /\ ~e.drawn
          /\ e.smeared = last.smeared /\ e.lower = last.lower /\ e.upper = last.upper
      BY <1>6 DEF Screen
    <2>2. e.x \in Nat /\ e.y \in Nat /\ e.x < Width /\ e.y < Height
      BY <1>6, <2>1, Members, FirstColumn
    <2> HIDE DEF e
    <2> QED BY <1>6, <2>1, <2>2, CursorInCell DEF Painted, Bare
  <1> HIDE DEF e
  <1> QED BY <1>1, <1>7, UpdateOn

\* The line feed while the cursor is off.
LEMMA NewLineOff ==
    ASSUME NEW s \in Screen, Off(s) PROVE Off(NewLine(s))
  <1> DEFINE below == [s EXCEPT !.x = 0, !.y = @ + 1]
             n == below.y - (Height - 1)
             up == ScrollDown(below, n)
             last == IF below.y > Height - 1 THEN [up EXCEPT !.y = Height - 1] ELSE below
  <1>1. NewLine(s) = last
    BY DEF NewLine, Off
  <1>2. below \in Screen /\ Off(below)
    <2> DEFINE m == s.y + 1
    <2>1. below = MoveTo(s, 0, m) /\ m \in Nat
      BY Members DEF MoveTo
    <2> HIDE DEF below, m
    <2>2. below \in Screen
      BY <2>1, MovedTo
    <2>3. /\ below.enabled = s.enabled /\ below.drawn = s.drawn
          /\ below.smeared = s.smeared /\ below.upper = s.upper /\ below.lower = s.lower
      BY <2>1 DEF MoveTo, Screen
    <2> QED BY <2>2, <2>3 DEF Off, Bare
  <1> HIDE DEF below
  <1>3. CASE below.y > Height - 1
    <2>1. n \in Nat
      BY <1>2, <1>3, Members, ConsoleAssumption
    <2> HIDE DEF n
    <2>2. up \in Screen /\ Off(up)
      BY <1>2, <2>1, ScrollDownOff
    <2>3. last = [up EXCEPT !.y = Height - 1]
      BY <1>3
    <2> HIDE DEF up, last
    <2>4. /\ last.enabled = up.enabled /\ last.drawn = up.drawn
          /\ last.smeared = up.smeared /\ last.upper = up.upper /\ last.lower = up.lower
      BY <2>2, <2>3 DEF Screen
    <2> QED BY <1>1, <2>2, <2>4 DEF Off, Bare
  <1>4. CASE ~(below.y > Height - 1)
    BY <1>1, <1>2, <1>4
  <1> QED BY <1>3, <1>4

\* WriteChar for any character keeps the cursor on, or off.
LEMMA WriteCharKeeps ==
    ASSUME NEW s \in Screen, NEW char, char \in Glyph \cup {"newline", "none", "tab"}
    PROVE  /\ On(s) => On(WriteChar(s, char)) /\ (s.drawn => WriteChar(s, char).drawn)
           /\ Off(s) => Off(WriteChar(s, char))
  <1> DEFINE a == WriteGlyph(s, Blank)
             b == WriteGlyph(a, Blank)
             c == WriteGlyph(b, Blank)
             d == WriteGlyph(c, Blank)
  <1>1. Blank \in Glyph
    BY DEF Glyph
  <1>2. a \in Screen /\ b \in Screen /\ c \in Screen
    <2>1. \A n \in Screen : WriteGlyph(n, Blank) \in Screen
      BY <1>1, WriteGlyphKept DEF Kept
    <2> QED BY <2>1
  <1>3. WriteChar(s, char) \in {NewLine(s), s, d} \/ (char \in Glyph /\ WriteChar(s, char) = WriteGlyph(s, char))
    BY DEF WriteChar, Glyph, Blank
  <1>4. On(s) => On(d) /\ d.drawn
    <2>1. \A n \in Screen : On(n) => On(WriteGlyph(n, Blank)) /\ WriteGlyph(n, Blank).drawn
      BY <1>1, GlyphOn
    <2> QED BY <1>2, <2>1
  <1>5. Off(s) => Off(d)
    <2>1. \A n \in Screen : Off(n) => Off(WriteGlyph(n, Blank))
      BY <1>1, GlyphOff
    <2> QED BY <1>2, <2>1
  <1> HIDE DEF d
  <1> QED BY <1>3, <1>4, <1>5, NewLineOn, NewLineOff, GlyphOn, GlyphOff

\* A thread that prints alone moves: it finds the screen as it left it.
LEMMA AloneMoves ==
    ASSUME Inv, Presented, ~raced, NEW t \in Threads, NEW pc, NEW s, NEW f,
           Step(t, pc, s, f), pc # "idle", Finds(f, s), f.pc = "idle" => On(s) /\ s.drawn
    PROVE  Presented'
  <1>1. /\ screen' = s /\ thread' = [thread EXCEPT ![t] = f] /\ raced' = raced
        /\ thread[t].pc = pc /\ thread \in [Threads -> Frame]
    BY DEF Step, Inv
  <1>2. thread'[t] = f /\ \A u \in Threads : u # t => thread'[u].pc = "idle"
    BY <1>1 DEF Presented, Alone
  <1>3. Alone'
    BY <1>2 DEF Alone
  <1>4. Quiescent' => f.pc = "idle"
    BY <1>2 DEF Quiescent
  <1>5. \A u \in Threads : Finds(thread'[u], s)
    <2> SUFFICES ASSUME NEW u \in Threads PROVE Finds(thread'[u], s)
      OBVIOUS
    <2>1. CASE u = t
      BY <1>2, <2>1
    <2>2. CASE u # t
      <3>1. thread'[u].pc = "idle"
        BY <1>2, <2>2
      <3> QED BY <3>1 DEF Finds, Writing
    <2> QED BY <2>1, <2>2
  <1> QED BY <1>1, <1>3, <1>4, <1>5 DEF Presented

\* While it writes the cursor is off.
LEMMA WritingMoves ==
    ASSUME Inv, Presented, ~raced, NEW t \in Threads, NEW pc, NEW s, NEW f,
           Step(t, pc, s, f), pc # "idle", Off(s), f.state, ~f.was,
           f.pc \in Writing \/ (f.pc = "update" /\ f.return = "put")
    PROVE  Presented'
  <1>1. Finds(f, s) /\ f.pc # "idle"
    BY DEF Finds, Writing
  <1> QED BY <1>1, AloneMoves

\* Only the position changes, or nothing.
LEMMA OffMoved ==
    ASSUME NEW s \in Screen, Off(s), NEW n
    PROVE  Off([s EXCEPT !.x = n]) /\ Off([s EXCEPT !.y = n])
  BY DEF Off, Bare, Screen

\* What a thread keeps when it goes on.
LEMMA ToKeeps ==
    ASSUME NEW t, thread[t] \in Frame, NEW pc, NEW return
    PROVE  /\ To(t, pc).pc = pc /\ To(t, pc).state = thread[t].state
           /\ To(t, pc).was = thread[t].was /\ To(t, pc).return = thread[t].return
           /\ To(t, pc).pos = thread[t].pos
           /\ Call(t, pc, return).pc = pc /\ Call(t, pc, return).state = thread[t].state
           /\ Call(t, pc, return).was = thread[t].was /\ Call(t, pc, return).return = return
           /\ DOMAIN To(t, pc) = DOMAIN thread[t] /\ DOMAIN Call(t, pc, return) = DOMAIN thread[t]
           /\ DOMAIN thread[t] = {"pc", "text", "state", "was", "r", "at", "pos", "char",
                                  "scroll", "return"}
  BY DEF To, Call, Frame

\* WriteChar to its call of UpdateCursor, and NewLine.
LEMMA PositionPresented ==
    ASSUME Inv, Presented, ~raced, NEW t \in Threads,
           \/ Origin(t) \/ LoadX(t) \/ StoreX(t) \/ TestX(t) \/ WrapX(t) \/ LoadY(t) \/ StoreY(t)
           \/ TestY(t) \/ Clamp(t) \/ CarriageReturn(t) \/ LoadLine(t) \/ Feed(t) \/ ReadWas(t)
           \/ TurnOff(t) \/ TestBottom(t) \/ Excess(t) \/ HomeX(t) \/ HomeY(t) \/ LastLine(t)
    PROVE  Presented'
  <1> DEFINE g == thread[t]
  <1>1. screen \in Screen /\ g \in Frame /\ Finds(g, screen)
    BY DEF Inv, Presented
  <1>2. g.pc \in Writing
    BY DEF Origin, LoadX, StoreX, TestX, WrapX, LoadY, StoreY, TestY, Clamp, CarriageReturn,
           LoadLine, Feed, ReadWas, TurnOff, TestBottom, Excess, HomeX, HomeY, LastLine, Step,
           Writing
  <1>3. Off(screen) /\ g.state /\ ~g.was
    BY <1>1, <1>2 DEF Finds
  <1> DEFINE Fine(f) == /\ f.state /\ ~f.was
                        /\ f.pc \in Writing \/ (f.pc = "update" /\ f.return = "put")
  <1>4. \A pc \in Writing : Fine(To(t, pc))
    BY <1>1, <1>3, ToKeeps
  <1>5. Fine(Call(t, "update", "put")) /\ Fine([Call(t, "update", "put") EXCEPT !.scroll = TRUE])
    BY <1>1, <1>3, ToKeeps
  <1>6. \A pc \in Writing : \A n : Fine([To(t, pc) EXCEPT !.r = n])
                                /\ Fine([To(t, pc) EXCEPT !.at = <<@[1], n>>])
    BY <1>1, <1>3, ToKeeps
  <1>7. Fine(AfterLine(t)) /\ Fine([To(t, "off") EXCEPT !.was = screen.enabled])
    <2>1. AfterLine(t) = To(t, "next")
      BY <1>3 DEF AfterLine
    <2>2. ~screen.enabled /\ "off" \in Writing /\ "next" \in Writing
      BY <1>3 DEF Off, Writing
    <2> QED BY <1>1, <1>3, <1>4, <2>1, <2>2, ToKeeps
  <1>8. \A n : Off([screen EXCEPT !.x = n]) /\ Off([screen EXCEPT !.y = n])
    BY <1>1, <1>3, OffMoved
  <1>9. ASSUME NEW pc, NEW s, NEW f, Step(t, pc, s, f), pc # "idle", Off(s), Fine(f)
        PROVE  Presented'
    BY <1>9, WritingMoves
  <1> HIDE DEF Fine, g
  <1>10. CASE LoadX(t)
    BY <1>3, <1>6, <1>9, <1>10 DEF LoadX, Writing
  <1>11. CASE StoreX(t)
    BY <1>4, <1>8, <1>9, <1>11 DEF StoreX, Writing
  <1>12. CASE TestX(t)
    BY <1>3, <1>4, <1>5, <1>9, <1>12 DEF TestX, Writing
  <1>13. CASE WrapX(t)
    BY <1>4, <1>8, <1>9, <1>13 DEF WrapX, Writing
  <1>14. CASE LoadY(t)
    BY <1>3, <1>6, <1>9, <1>14 DEF LoadY, Writing
  <1>15. CASE StoreY(t)
    BY <1>4, <1>8, <1>9, <1>15 DEF StoreY, Writing
  <1>16. CASE TestY(t)
    BY <1>3, <1>4, <1>5, <1>9, <1>16 DEF TestY, Writing
  <1>17. CASE Clamp(t)
    BY <1>5, <1>8, <1>9, <1>17 DEF Clamp
  <1>18. CASE CarriageReturn(t)
    BY <1>4, <1>8, <1>9, <1>18 DEF CarriageReturn, Writing
  <1>19. CASE LoadLine(t)
    BY <1>3, <1>6, <1>9, <1>19 DEF LoadLine, Writing
  <1>20. CASE Feed(t)
    BY <1>4, <1>8, <1>9, <1>20 DEF Feed, Writing
  <1>21. CASE ReadWas(t)
    BY <1>3, <1>7, <1>9, <1>21 DEF ReadWas
  <1>22. CASE TurnOff(t)
    BY <1>3, <1>4, <1>9, <1>22 DEF TurnOff, Off, Writing
  <1>23. CASE TestBottom(t)
    BY <1>3, <1>4, <1>7, <1>9, <1>23 DEF TestBottom, Writing
  <1>24. CASE LastLine(t)
    BY <1>7, <1>8, <1>9, <1>24 DEF LastLine
  <1>25. CASE Origin(t)
    BY <1>3, <1>6, <1>9, <1>25 DEF Origin, Writing
  <1>26. CASE Excess(t)
    BY <1>3, <1>6, <1>9, <1>26 DEF Excess, Writing
  <1>27. CASE HomeX(t)
    BY <1>4, <1>8, <1>9, <1>27 DEF HomeX, Writing
  <1>28. CASE HomeY(t)
    BY <1>4, <1>8, <1>9, <1>28 DEF HomeY, Writing
  <1> QED BY <1>10, <1>11, <1>12, <1>13, <1>14, <1>15, <1>16, <1>17, <1>18, <1>19, <1>20,
             <1>21, <1>22, <1>23, <1>24, <1>25, <1>26, <1>27, <1>28

\* The glyphs and the scrolling, and the loop over the text.
LEMMA GlyphsPresented ==
    ASSUME Inv, Presented, ~raced, NEW t \in Threads,
           PutAt(t) \/ Scroll(t) \/ ScrollUp(t) \/ NextChar(t)
    PROVE  Presented'
  <1> DEFINE g == thread[t]
  <1>1. screen \in Screen /\ g \in Frame /\ Finds(g, screen)
    BY DEF Inv, Presented
  <1>2. g.pc \in {"put", "scroll", "lines", "next"}
    BY DEF PutAt, Scroll, ScrollUp, NextChar, Step
  <1>3. Off(screen) /\ g.state /\ ~g.was
    BY <1>1, <1>2 DEF Finds, Writing
  <1>4. \A pc \in Writing : /\ To(t, pc).pc = pc /\ To(t, pc).state /\ ~To(t, pc).was
    BY <1>1, <1>3, ToKeeps
  <1>5. CASE PutAt(t)
    <2>1. g.char \in Glyph
      BY <1>1 DEF Frame
    <2>2. Off(Put(screen, g.char, g.at))
      BY <1>1, <1>3, <2>1, PutOff
    <2> QED BY <1>4, <1>5, <2>2, WritingMoves DEF PutAt, Writing
  <1>6. CASE Scroll(t)
    <2>1. Off(Scrolled(screen, 1))
      BY <1>1, <1>3, ScrolledOff
    <2> QED BY <1>4, <1>6, <2>1, WritingMoves DEF Scroll, Writing
  <1>7. CASE ScrollUp(t)
    <2> DEFINE n == g.r
               s == CASE n = 0 -> screen [] n >= Height -> Wiped(screen) [] OTHER -> Scrolled(screen, n)
               f == To(t, IF n >= Height THEN "homeX" ELSE "last")
    <2>1. Step(t, "lines", s, f)
      BY <1>7 DEF ScrollUp
    <2>2. n \in Nat
      BY <1>1 DEF Frame
    <2>3. f.pc \in Writing /\ f.state /\ ~f.was
      BY <1>4 DEF Writing
    <2> HIDE DEF n, f
    <2>4. Off(s)
      BY <1>1, <1>3, <2>2, ScrolledOff, WipedOff
    <2> HIDE DEF s
    <2> QED BY <2>1, <2>3, <2>4, WritingMoves
  <1>8. CASE NextChar(t)
    <2>1. CASE g.text = <<>>
      <3>1. Step(t, "next", screen, Call(t, "enable", "idle"))
        BY <1>3, <1>8, <2>1 DEF NextChar
      <3>2. Call(t, "enable", "idle").pc = "enable" /\ Call(t, "enable", "idle").return = "idle"
        BY <1>1, ToKeeps
      <3>3. Finds(Call(t, "enable", "idle"), screen)
        BY <1>3, <3>2 DEF Finds, Writing
      <3> QED BY <3>1, <3>2, <3>3, AloneMoves
    <2>2. CASE g.text # <<>>
      <3> DEFINE f == IF Head(g.text) = "newline"
                      THEN [Idle EXCEPT !.pc = "line", !.text = Tail(g.text), !.state = g.state]
                      ELSE [Idle EXCEPT !.pc = "origin", !.text = Tail(g.text), !.state = g.state,
                                        !.char = Head(g.text), !.at = <<screen.x, 0>>]
      <3>1. Step(t, "next", screen, f)
        BY <1>8, <2>2 DEF NextChar
      <3>2. f.pc \in Writing /\ f.state /\ ~f.was
        BY <1>3 DEF Idle, Writing
      <3> HIDE DEF f
      <3> QED BY <1>3, <3>1, <3>2, WritingMoves
    <2> QED BY <2>1, <2>2
  <1> QED BY <1>5, <1>6, <1>7, <1>8

\* The cursor's functions.
LEMMA CursorPresented ==
    ASSUME Inv, Presented, ~raced, NEW t \in Threads,
           \/ ReadState(t) \/ TestDrawn(t) \/ OldX(t) \/ Erase(t) \/ Disable(t) \/ Forget(t)
           \/ Enable(t) \/ Enabled(t) \/ TestEnabled(t) \/ PosX(t) \/ PosY(t)
           \/ RestoreOld(t) \/ Place(t) \/ DrawNew(t) \/ Drawn(t)
    PROVE  Presented'
  <1> DEFINE g == thread[t]
  <1>1. screen \in Screen /\ g \in Frame /\ Finds(g, screen)
    BY DEF Inv, Presented
  <1>2. CASE ReadState(t)
    <2>1. g.pc = "state" /\ On(screen) /\ screen.drawn /\ ~g.was
      BY <1>1, <1>2 DEF ReadState, Step, Finds
    <2> DEFINE f == [Call(t, "disable", "next") EXCEPT !.state = TRUE]
    <2>2. Step(t, "state", screen, f)
      BY <1>2, <2>1 DEF ReadState, On
    <2>3. f.pc = "disable" /\ f.return = "next" /\ f.state /\ ~f.was
      BY <1>1, <2>1, ToKeeps
    <2> HIDE DEF f
    <2>4. Finds(f, screen)
      BY <2>1, <2>3 DEF Finds, Writing
    <2> QED BY <2>2, <2>3, <2>4, AloneMoves
  <1>3. CASE TestDrawn(t)
    <2>1. g.pc = "disable" /\ On(screen) /\ screen.drawn /\ g.return = "next" /\ g.state /\ ~g.was
      BY <1>1, <1>3 DEF TestDrawn, Step, Finds
    <2> DEFINE f == To(t, "oldX")
    <2>2. Step(t, "disable", screen, f)
      BY <1>3, <2>1 DEF TestDrawn
    <2>3. f.pc = "oldX" /\ f.return = "next" /\ f.state /\ ~f.was
      BY <1>1, <2>1, ToKeeps
    <2> HIDE DEF f
    <2>4. Finds(f, screen)
      BY <2>1, <2>3 DEF Finds, Writing
    <2> QED BY <2>2, <2>3, <2>4, AloneMoves
  <1>4. CASE OldX(t)
    <2>1. g.pc = "oldX" /\ On(screen) /\ screen.drawn /\ g.return = "next" /\ g.state /\ ~g.was
      BY <1>1, <1>4 DEF OldX, Step, Finds
    <2> DEFINE p == <<screen.prev[1], 0>>
               f == [To(t, "erase") EXCEPT !.pos = p]
    <2>2. Step(t, "oldX", screen, f)
      BY <1>4 DEF OldX
    <2> HIDE DEF p
    <2>3. f.pc = "erase" /\ f.return = "next" /\ f.state /\ ~f.was /\ f.pos = p
      BY <1>1, <2>1, ToKeeps
    <2> HIDE DEF f
    <2>4. f.pos[1] = screen.prev[1]
      BY <2>3 DEF p
    <2>5. Finds(f, screen)
      BY <2>1, <2>3, <2>4 DEF Finds, Writing, On, Painted
    <2> QED BY <2>2, <2>3, <2>5, AloneMoves
  <1>5. CASE Erase(t)
    <2>1. /\ g.pc = "erase" /\ Shown(screen) /\ g.pos[1] = screen.prev[1]
          /\ g.return = "next" /\ g.state /\ ~g.was
      BY <1>1, <1>5 DEF Erase, Step, Finds
    <2> DEFINE f == To(t, "disabled")
               p == <<g.pos[1], screen.prev[2]>>
               s == PutBack(screen, p)
    <2>2. Step(t, "erase", s, f)
      BY <1>5 DEF Erase
    <2>3. f.pc = "disabled" /\ f.return = "next" /\ f.state /\ ~f.was
      BY <1>1, <2>1, ToKeeps
    <2>4. p = screen.prev
      BY <1>1, <2>1 DEF Screen
    <2> HIDE DEF f, p
    <2>5. Bare(s)
      BY <1>1, <2>1, <2>4, PutBackBare
    <2> HIDE DEF s
    <2>6. Finds(f, s)
      BY <2>3, <2>5 DEF Finds, Writing
    <2> QED BY <2>2, <2>3, <2>6, AloneMoves
  <1>6. CASE Disable(t)
    <2>1. g.pc = "disabled" /\ Bare(screen) /\ g.return = "next" /\ g.state /\ ~g.was
      BY <1>1, <1>6 DEF Disable, Step, Finds
    <2> DEFINE f == To(t, "forget")
               s == [screen EXCEPT !.enabled = FALSE]
    <2>2. Step(t, "disabled", s, f)
      BY <1>6 DEF Disable
    <2>3. f.pc = "forget" /\ f.return = "next" /\ f.state /\ ~f.was
      BY <1>1, <2>1, ToKeeps
    <2>4. Off(s)
      BY <1>1, <2>1 DEF Off, Bare, Screen
    <2> HIDE DEF f, s
    <2>5. Finds(f, s)
      BY <2>3, <2>4 DEF Finds, Writing
    <2> QED BY <2>2, <2>3, <2>5, AloneMoves
  <1>11. CASE Forget(t)
    <2>1. g.pc = "forget" /\ Off(screen) /\ g.return = "next" /\ g.state /\ ~g.was
      BY <1>1, <1>11 DEF Forget, Step, Finds
    <2> DEFINE f == To(t, "next")
               s == [screen EXCEPT !.drawn = FALSE]
    <2>2. Step(t, "forget", s, f)
      BY <1>11, <2>1 DEF Forget, Return
    <2>3. f.pc \in Writing /\ f.state /\ ~f.was
      BY <1>1, <2>1, ToKeeps DEF Writing
    <2>4. Off(s)
      BY <1>1, <2>1 DEF Off, Bare, Screen
    <2> HIDE DEF f, s
    <2> QED BY <2>2, <2>3, <2>4, WritingMoves
  <1>12. CASE Enable(t)
    <2>1. g.pc = "enable" /\ Off(screen) /\ g.return = "idle"
      BY <1>1, <1>12 DEF Enable, Step, Finds
    <2> DEFINE f == To(t, "enabled")
               s == [screen EXCEPT !.enabled = TRUE]
    <2>2. Step(t, "enable", s, f)
      BY <1>12 DEF Enable
    <2>3. f.pc = "enabled" /\ f.return = "idle"
      BY <1>1, <2>1, ToKeeps
    <2>4. s.enabled /\ Bare(s)
      BY <1>1, <2>1 DEF Off, Bare, Screen
    <2> HIDE DEF f, s
    <2>5. Finds(f, s)
      BY <2>3, <2>4 DEF Finds, Writing
    <2> QED BY <2>2, <2>3, <2>5, AloneMoves
  <1>13. CASE Enabled(t)
    <2>1. g.pc = "enabled" /\ screen.enabled /\ Bare(screen) /\ g.return = "idle"
      BY <1>1, <1>13 DEF Enabled, Step, Finds
    <2> DEFINE f == To(t, "update")
               s == [screen EXCEPT !.drawn = FALSE]
    <2>2. Step(t, "enabled", s, f)
      BY <1>13 DEF Enabled
    <2>3. f.pc = "update" /\ f.return = "idle"
      BY <1>1, <2>1, ToKeeps
    <2>4. Cursor(screen) \in Cell
      <3>1. \A u \in Threads : ~MindsX(thread[u]) /\ ~MindsY(thread[u])
        BY <2>1 DEF Presented, Alone, MindsX, MindsY
      <3>2. ~(screen.x >= Width) /\ ~(screen.y >= Height)
        BY <3>1 DEF Inv, Minded
      <3>3. screen.x \in Nat /\ screen.y \in Nat
        BY <1>1, Members
      <3>4. screen.x < Width /\ screen.y < Height
        BY <3>2, <3>3, ConsoleAssumption
      <3> QED BY <3>3, <3>4, CursorInCell
    <2>5. On(s)
      BY <1>1, <2>1, <2>4 DEF On, Painted, Bare, Cursor, Screen
    <2> HIDE DEF f, s
    <2>6. Finds(f, s)
      BY <2>3, <2>5 DEF Finds, Writing
    <2> QED BY <2>2, <2>3, <2>6, AloneMoves
  <1>14. CASE TestEnabled(t)
    <2>1. g.pc = "update"
      BY <1>14 DEF TestEnabled, Step
    <2>2. CASE g.return = "idle" /\ On(screen)
      <3> DEFINE f == To(t, "posX")
      <3>1. Step(t, "update", screen, f)
        BY <1>14, <2>2 DEF TestEnabled, On
      <3>2. f.pc = "posX" /\ f.return = "idle"
        BY <1>1, <2>2, ToKeeps
      <3> HIDE DEF f
      <3>3. Finds(f, screen)
        BY <2>2, <3>2 DEF Finds, Writing
      <3> QED BY <3>1, <3>2, <3>3, AloneMoves
    <2>3. CASE g.return = "put" /\ Off(screen) /\ g.state /\ ~g.was
      <3> DEFINE f == To(t, "put")
      <3>1. Step(t, "update", screen, f)
        BY <1>14, <2>3 DEF TestEnabled, Return, Off
      <3>2. f.pc \in Writing /\ f.state /\ ~f.was
        BY <1>1, <2>3, ToKeeps DEF Writing
      <3> HIDE DEF f
      <3> QED BY <2>3, <3>1, <3>2, WritingMoves
    <2> QED BY <1>1, <2>1, <2>2, <2>3 DEF Finds
  <1>15. CASE PosX(t)
    <2>1. g.pc = "posX" /\ On(screen) /\ g.return = "idle"
      BY <1>1, <1>15 DEF PosX, Step, Finds
    <2> DEFINE p == <<screen.x, 0>>
               f == [To(t, "posY") EXCEPT !.pos = p]
    <2>2. Step(t, "posX", screen, f)
      BY <1>15 DEF PosX
    <2> HIDE DEF p
    <2>3. f.pc = "posY" /\ f.return = "idle" /\ f.pos = p
      <3>1. g.return = "idle"
        BY <2>1
      <3> QED BY <1>1, <3>1, ToKeeps
    <2> HIDE DEF f
    <2>4. f.pos[1] = screen.x
      BY <2>3 DEF p
    <2>5. Finds(f, screen)
      BY <2>1, <2>3, <2>4 DEF Finds, Writing, On
    <2> QED BY <2>2, <2>3, <2>5, AloneMoves
  <1>16. CASE PosY(t)
    <2>1. /\ g.pc = "posY" /\ g.return = "idle" /\ screen.enabled /\ Painted(screen)
          /\ Cursor(screen) \in Cell /\ g.pos[1] = screen.x
      BY <1>1, <1>16 DEF PosY, Step, Finds
    <2> DEFINE p == <<g.pos[1], screen.y>>
               f == [To(t, "restore") EXCEPT !.pos = p]
    <2>2. Step(t, "posY", screen, f)
      BY <1>1, <1>16 DEF PosY, Step, To, Frame
    <2> HIDE DEF p
    <2>3. f.pc = "restore" /\ f.return = "idle" /\ f.pos = p
      BY <1>1, <2>1, ToKeeps
    <2> HIDE DEF f
    <2>4. f.pos = Cursor(screen) /\ f.pos[1] = screen.x
      BY <2>1, <2>3 DEF Cursor, p
    <2>5. Finds(f, screen)
      BY <2>1, <2>3, <2>4 DEF Finds, Writing
    <2> QED BY <2>2, <2>3, <2>5, AloneMoves
  <1> DEFINE Draws(f, s) == /\ f.return = "idle" /\ s.enabled
                            /\ Cursor(s) \in Cell /\ f.pos = Cursor(s) /\ f.pos[1] = s.x
  <1>7. CASE RestoreOld(t)
    <2>1. g.pc = "restore" /\ Draws(g, screen) /\ Painted(screen)
      BY <1>1, <1>7 DEF RestoreOld, Step, Finds
    <2> DEFINE f == To(t, "place")
               s == Restore(screen)
    <2>2. Step(t, "restore", s, f)
      BY <1>7 DEF RestoreOld
    <2>3. f.pc = "place" /\ f.return = "idle" /\ f.pos = g.pos
      BY <1>1, <2>1, ToKeeps
    <2>4. Bare(s) /\ s.enabled = screen.enabled /\ s.x = screen.x /\ s.y = screen.y
      BY <1>1, <2>1, RestoreBare
    <2> HIDE DEF f, s
    <2>5. Finds(f, s)
      BY <2>1, <2>3, <2>4 DEF Finds, Writing, Cursor
    <2> QED BY <2>2, <2>3, <2>5, AloneMoves
  <1>8. CASE Place(t)
    <2>1. g.pc = "place" /\ Draws(g, screen) /\ Bare(screen)
      BY <1>1, <1>8 DEF Place, Step, Finds
    <2> DEFINE f == To(t, "draw")
               p == Cursor(screen)
               s == [screen EXCEPT !.prev = p]
    <2>2. Step(t, "place", s, f)
      BY <1>8 DEF Place
    <2>3. f.pc = "draw" /\ f.return = "idle" /\ f.pos = g.pos
      BY <1>1, <2>1, ToKeeps
    <2> HIDE DEF f, p
    <2>4. /\ s.enabled = screen.enabled /\ s.x = screen.x /\ s.y = screen.y /\ s.prev = p
          /\ s.smeared = screen.smeared /\ s.lower = screen.lower /\ s.upper = screen.upper
      BY <1>1 DEF Screen
    <2> HIDE DEF s
    <2>5. Finds(f, s)
      BY <2>1, <2>3, <2>4 DEF Finds, Writing, Cursor, Bare, p
    <2> QED BY <2>2, <2>3, <2>5, AloneMoves
  <1>9. CASE DrawNew(t)
    <2>1. /\ g.pc = "draw" /\ Draws(g, screen) /\ Bare(screen)
          /\ screen.prev = Cursor(screen)
      BY <1>1, <1>9 DEF DrawNew, Step, Finds
    <2> DEFINE f == To(t, "drawn")
               s == Draw(screen, g.pos)
    <2>2. Step(t, "draw", s, f)
      BY <1>9 DEF DrawNew
    <2>3. f.pc = "drawn" /\ f.return = "idle" /\ f.pos = g.pos
      BY <1>1, <2>1, ToKeeps
    <2>4. /\ Shown(s) /\ s.enabled = screen.enabled /\ s.x = screen.x /\ s.y = screen.y
          /\ s.prev = g.pos
      <3> DEFINE p == g.pos
      <3>1. p \in Cell /\ screen.prev = p
        BY <2>1
      <3> HIDE DEF p
      <3>2. /\ Shown(Draw(screen, p)) /\ Draw(screen, p).enabled = screen.enabled
            /\ Draw(screen, p).x = screen.x /\ Draw(screen, p).y = screen.y
            /\ Draw(screen, p).prev = p
        BY <1>1, <2>1, <3>1, DrawShown
      <3> QED BY <3>2 DEF p
    <2> HIDE DEF f, s
    <2>5. Finds(f, s)
      BY <2>1, <2>3, <2>4 DEF Finds, Writing, Cursor
    <2> QED BY <2>2, <2>3, <2>5, AloneMoves
  <1>10. CASE Drawn(t)
    <2>1. /\ g.pc = "drawn" /\ Draws(g, screen) /\ Shown(screen)
          /\ screen.prev = Cursor(screen)
      BY <1>1, <1>10 DEF Drawn, Step, Finds
    <2> DEFINE s == [screen EXCEPT !.drawn = TRUE]
    <2>2. Step(t, "drawn", s, Idle)
      BY <1>10, <2>1 DEF Drawn, Return
    <2>3. /\ s.enabled = screen.enabled /\ s.x = screen.x /\ s.y = screen.y /\ s.drawn
          /\ s.prev = screen.prev /\ s.under = screen.under
          /\ s.smeared = screen.smeared /\ s.lower = screen.lower /\ s.upper = screen.upper
      BY <1>1 DEF Screen
    <2> HIDE DEF s
    <2>4. On(s)
      BY <2>1, <2>3 DEF On, Painted, Shown, Cursor
    <2>5. Finds(Idle, s)
      BY IdleFrame DEF Finds, Writing
    <2> QED BY <2>2, <2>3, <2>4, <2>5, AloneMoves
  <1> QED BY <1>2, <1>3, <1>4, <1>5, <1>6, <1>7, <1>8, <1>9, <1>10, <1>11, <1>12, <1>13, <1>14,
             <1>15, <1>16

\* print begins: alone, or it overlaps another.
LEMMA PrintlnPresented ==
    ASSUME Inv, Presented, NEW t \in Threads, Println(t) PROVE Presented'
  <1>1. PICK text \in Texts :
          /\ thread[t].pc = "idle"
          /\ thread' = [thread EXCEPT ![t] = [Idle EXCEPT !.pc = "state", !.text = text]]
          /\ raced' = (raced \/ \E u \in Threads : thread[u].pc # "idle")
          /\ UNCHANGED screen
    BY DEF Println
  <1> SUFFICES ASSUME ~raced, \A u \in Threads : thread[u].pc = "idle" PROVE Presented'
    BY <1>1 DEF Presented
  <1> DEFINE f == [Idle EXCEPT !.pc = "state", !.text = text]
  <1>2. f.pc = "state" /\ ~f.was
    BY DEF Idle
  <1>3. thread' = [thread EXCEPT ![t] = f]
    BY <1>1
  <1> HIDE DEF f
  <1>4. thread'[t] = f /\ \A u \in Threads : u # t => thread'[u].pc = "idle"
    BY <1>3 DEF Inv
  <1>5. On(screen) /\ screen.drawn
    BY DEF Presented, Quiescent
  <1>6. Finds(f, screen)
    BY <1>2, <1>5 DEF Finds, Writing
  <1>7. \A u \in Threads : Finds(thread'[u], screen)
    <2> SUFFICES ASSUME NEW u \in Threads PROVE Finds(thread'[u], screen)
      OBVIOUS
    <2>1. CASE u = t
      BY <1>4, <1>6, <2>1
    <2>2. CASE u # t
      <3>1. thread'[u].pc = "idle"
        BY <1>4, <2>2
      <3> QED BY <3>1 DEF Finds, Writing
    <2> QED BY <2>1, <2>2
  <1>8. Alone' /\ ~Quiescent'
    BY <1>2, <1>4 DEF Alone, Quiescent
  <1> QED BY <1>1, <1>7, <1>8 DEF Presented

\* What a key does to a screen on which the cursor is on, or off.
LEMMA KeyKeeps ==
    ASSUME Inv, NEW key, KeyDownEvent(key)
    PROVE  /\ On(screen) => On(screen') /\ (screen.drawn => screen'.drawn)
           /\ Off(screen) => Off(screen')
  <1>1. screen \in Screen
    BY DEF Inv
  <1> DEFINE a == Backspace(screen)
             b == WriteChar(a, Blank)
             c == Backspace(b)
  <1>2. a \in Screen /\ b \in Screen /\ Blank \in Glyph
    <2>1. a \in Screen
      BY <1>1, BackspaceKept DEF Kept
    <2>2. Blank \in Glyph
      BY DEF Glyph
    <2> HIDE DEF a
    <2> QED BY <2>1, <2>2, WriteCharKept DEF Kept
  <1>3. On(screen) => On(c) /\ c.drawn
    BY <1>1, <1>2, BackspaceOn, WriteCharKeeps
  <1>4. Off(screen) => Off(c)
    BY <1>1, <1>2, BackspaceOff, WriteCharKeeps
  <1>5. /\ On(screen) => On(Clear(screen)) /\ (screen.drawn => Clear(screen).drawn)
        /\ Off(screen) => Off(Clear(screen))
    BY <1>1, ClearOn, ClearOff, FirstCell DEF On, Cursor
  <1> DEFINE d == WriteChar(screen, Character(key))
  <1>6. /\ On(screen) => On(d) /\ (screen.drawn => d.drawn)
        /\ Off(screen) => Off(d)
    <2>1. Character(key) \in Glyph \cup {"newline", "none", "tab"}
      BY DEF Character, Glyph
    <2> QED BY <1>1, <2>1, WriteCharKeeps
  <1>7. screen' \in {c, Clear(screen), screen, d}
    BY DEF KeyDownEvent
  <1> HIDE DEF c, d
  <1> QED BY <1>3, <1>4, <1>5, <1>6, <1>7

\* A key comes between two steps of a print, or between prints.
LEMMA KeyPresented ==
    ASSUME Inv, Presented, NEW key, KeyDownEvent(key) PROVE Presented'
  <1>1. thread' = thread /\ raced' = (raced \/ (screen' # screen /\ \E t \in Threads : Drawing(t)))
    BY DEF KeyDownEvent
  <1>2. SUFFICES ASSUME ~raced, screen' # screen, \A t \in Threads : ~Drawing(t)
                 PROVE  Presented'
    BY <1>1 DEF Presented, Alone, Quiescent
  <1>3. /\ On(screen) => On(screen') /\ (screen.drawn => screen'.drawn)
        /\ Off(screen) => Off(screen')
    BY KeyKeeps
  <1>4. ASSUME NEW t \in Threads PROVE Finds(thread[t], screen')
    <2>1. Finds(thread[t], screen) /\ ~Drawing(t)
      BY <1>2 DEF Presented
    <2> QED BY <1>3, <2>1 DEF Finds, Drawing, Writing
  <1> QED BY <1>1, <1>2, <1>3, <1>4 DEF Presented, Alone, Quiescent

\* KernelStart has enabled the cursor.
LEMMA InitPresented == ASSUME Init PROVE Presented
  <1>1. PICK x \in 0 .. Width - 1, y \in 1 .. Height - 1 :
          screen = EnableCursor([x |-> x, y |-> y,
                     upper |-> [p \in Cell |-> IF p[2] = y /\ p[1] < x THEN "x" ELSE Blank],
                     lower |-> [p \in Cell |-> IF p[2] = y /\ p[1] < x THEN "x" ELSE Blank],
                     enabled |-> FALSE, drawn |-> FALSE, prev |-> <<0, 0>>,
                     under |-> Blank, smeared |-> FALSE])
    BY DEF Init
  <1> DEFINE cells == [p \in Cell |-> IF p[2] = y /\ p[1] < x THEN "x" ELSE Blank]
             s == [x |-> x, y |-> y, upper |-> cells, lower |-> cells,
                   enabled |-> FALSE, drawn |-> FALSE, prev |-> <<0, 0>>,
                   under |-> Blank, smeared |-> FALSE]
             e == [s EXCEPT !.enabled = TRUE, !.drawn = FALSE]
  <1>2. cells \in [Cell -> Glyph] /\ cells \in [Cell -> Part]
    BY DEF Glyph, Part
  <1>3. x \in Nat /\ y \in Nat /\ x < Width /\ y < Height
    BY ConsoleAssumption
  <1>4. <<0, 0>> \in Int \X Int /\ Blank \in Part
    BY DEF Part, Glyph
  <1>5. screen = UpdateCursor(e)
    BY <1>1 DEF EnableCursor
  <1> HIDE DEF cells
  <1>6. /\ e \in Screen /\ e.x = x /\ e.y = y /\ e.enabled /\ ~e.drawn
        /\ e.lower = cells /\ e.upper = cells
    BY <1>2, <1>3, <1>4 DEF Screen
  <1> HIDE DEF e
  <1>7. Cursor(e) \in Cell
    BY <1>3, <1>6, CursorInCell
  <1>8. On(screen) /\ screen.drawn
    BY <1>5, <1>6, <1>7, UpdateOn DEF Painted, Bare
  <1>9. \A t \in Threads : thread[t].pc = "idle"
    BY DEF Init, Idle
  <1>10. \A t \in Threads : Finds(thread[t], screen)
    BY <1>9 DEF Finds, Writing
  <1> QED BY <1>8, <1>9, <1>10 DEF Presented, Alone

\* Every step keeps it.
LEMMA NextPresented == Inv /\ Presented /\ [Next]_vars => Presented'
  <1> SUFFICES ASSUME Inv, Presented, [Next]_vars PROVE Presented'
    OBVIOUS
  <1>1. ASSUME NEW t \in Threads, PrintStep(t) PROVE Presented'
    <2>1. raced' = raced
      BY <1>1 DEF PrintStep, ReadState, NextChar, Origin, LoadX, StoreX, TestX, WrapX, LoadY, StoreY,
         TestY, Clamp, PutAt, Scroll, TestEnabled, PosX, PosY, RestoreOld, Place, DrawNew, Drawn,
         Enable, Enabled, TestDrawn, OldX, Erase, Disable, Forget, CarriageReturn, LoadLine, Feed,
         ReadWas, TurnOff, TestBottom, Excess, ScrollUp, HomeX, HomeY, LastLine, Step
    <2>2. CASE raced
      BY <2>1, <2>2 DEF Presented
    <2>3. CASE ~raced
      BY <1>1, <2>3, PositionPresented, GlyphsPresented, CursorPresented DEF PrintStep
    <2> QED BY <2>2, <2>3
  <1>2. ASSUME NEW t \in Threads, Println(t) PROVE Presented'
    BY <1>2, PrintlnPresented
  <1>3. ASSUME NEW key \in Keys, KeyDownEvent(key) PROVE Presented'
    BY <1>3, KeyPresented
  <1>4. CASE (\E key \in Keys \cap flags : KeyUpEvent(key)) \/ UNCHANGED vars
    <2>1. UNCHANGED <<screen, thread, raced>>
      BY <1>4 DEF KeyUpEvent, vars
    <2> QED BY <2>1 DEF Presented, Alone, Quiescent
  <1> QED BY <1>1, <1>2, <1>3, <1>4 DEF Next

\* When nobody prints, no two prints overlapped and no key came while a thread
\* was Drawing, the cursor is on and drawn where it belongs, and what
\* it covered is as it was; keys may come at any other moment of a print.
THEOREM CleanHolds == Spec => []Clean
  <1>1. Init => Presented
    BY InitPresented
  <1>2. ASSUME Inv, Presented PROVE Clean
    <2> SUFFICES ASSUME Quiescent, ~raced
                 PROVE  /\ screen.enabled /\ screen.drawn
                        /\ screen.smeared \/
                            /\ screen.prev = Cursor(screen)
                            /\ screen.under = screen.upper[screen.prev]
                            /\ screen.lower = [screen.upper EXCEPT ![screen.prev] = "cursor"]
      BY DEF Clean
    <2>1. On(screen) /\ screen.drawn
      BY <1>2 DEF Presented
    <2> QED BY <2>1 DEF On, Painted, Shown
  <1>3. Inv /\ Presented => Clean
    BY <1>2
  <1> QED BY <1>1, <1>3, Invariance, NextPresented, PTL DEF Spec
=============================================================================
