---------------------------- MODULE ConsoleProofs ----------------------------
(***************************************************************************)
(* Proofs about Console, for consoles of any size: where the cursor, the   *)
(* screen and the text are, and what the controller shows, whoever prints  *)
(* what between TTY's steps.                                               *)
(***************************************************************************)
EXTENDS Console, TLAPS

CursorPlace(c, x) == x \in Nat /\ Original(c) <= x /\ x <= LastLineEnd(c)

StartPlace(c, s) ==
    /\ \E k \in Nat : s = Original(c) + ScreenWidth * k
    /\ s + ScreenSize < End(c) + 2 * ScreenWidth

Places ==
    /\ cursor \in [ConsoleNr -> 0 .. Word - 1] /\ start \in [ConsoleNr -> Nat]
    /\ \A c \in ConsoleNr :
        /\ CursorPlace(c, cursor[c]) \/ (c = 0 /\ Wrapped)
        /\ StartPlace(c, start[c])
    /\ \A c \in ConsoleNr \ {0} : cursor[c] < End(c)

Typed ==
    /\ current \in ConsoleNr
    /\ crt \in [cursor : 0 .. Word - 1, start : Nat]
    /\ hung \in BOOLEAN /\ overtaken \in BOOLEAN
    /\ pc \in {"loop", "switch", "load", "store", "while", "scroll", "move", "moved",
               "flush", "set_cursor", "set_start"}
    /\ back \in {"loop", "while"}
    /\ job \in Char \cup {"up", "down"}
    /\ p_vmem \in Nat /\ reg \in Nat

\* What TTY holds in out_char: with one writer the test of the switch holds on and p_vmem
\* is the cursor's; with two, a character or newline still finds the cursor in the memory,
\* and only a backspace can wrap it.
InOut ==
    /\ pc \in {"switch", "load", "store"} =>
        /\ job \in Char /\ CursorPlace(current, p_vmem)
        /\ current # 0 => p_vmem = cursor[current]
    /\ pc = "load" =>
        /\ job # "backspace" => cursor[current] < End(current)
        /\ current # 0 => Fits(current, job, cursor[current])
    /\ pc = "store" =>
        /\ CursorPlace(current, reg) \/ (current = 0 /\ reg = Word - 1)
        /\ current # 0 => reg < End(current)
        /\ current # 0 /\ job = "backspace" => Original(current) < p_vmem

\* What it holds in scroll_screen
InScreen ==
    /\ pc = "move" =>
        /\ Direction = "up" => Original(current) < start[current]
        /\ Direction = "down" => start[current] + ScreenSize < End(current) + ScreenWidth
    /\ pc = "moved" => StartPlace(current, reg)

\* What it holds in flush: what the console has, or had when a process overtook it.
InFlushing ==
    /\ pc = "set_cursor" =>
        /\ reg \in 0 .. Word - 1
        /\ back = "loop" => CursorPlace(current, reg)
        /\ IF overtaken THEN current = 0 ELSE reg = cursor[current]
    /\ pc = "set_start" =>
        /\ StartPlace(current, reg)
        /\ back = "loop" => CursorPlace(current, crt.cursor)
        /\ IF overtaken THEN current = 0
           ELSE crt.cursor = cursor[current] /\ reg = start[current]

\* What the controller has
Shown ==
    Steady =>
        /\ CursorPlace(current, crt.cursor) /\ StartPlace(current, crt.start)
        /\ IF overtaken THEN current = 0
           ELSE crt.cursor = cursor[current] /\ crt.start = start[current]

Text ==
    /\ cell \in [console : ConsoleNr, at : Int, what : Char \cup {"nothing"}]
    /\ TextInMemory

IInv == Places /\ Typed /\ InOut /\ InScreen /\ InFlushing /\ Shown /\ Text

-----------------------------------------------------------------------------
(* Lines and places *)

\* A line, and where in it a place is.
LEMMA Quotient ==
    ASSUME NEW w \in Nat \ {0}, NEW x \in Nat
    PROVE  /\ x \div w \in Nat
           /\ w * (x \div w) <= x /\ x < w * (x \div w) + w
OBVIOUS

\* Lines further down lie further down.
LEMMA Monotone ==
    ASSUME NEW w \in Nat, NEW a \in Nat, NEW b \in Nat, a <= b
    PROVE  w * a <= w * b
OBVIOUS

\* The next line begins one width further.
LEMMA NextMultiple ==
    ASSUME NEW w \in Nat, NEW a \in Nat
    PROVE  w * (a + 1) = w * a + w /\ w * a \in Nat
OBVIOUS

\* A whole number of lines leaves no remainder.
LEMMA NoRemainder ==
    ASSUME NEW w \in Nat \ {0}, NEW k \in Nat
    PROVE  (w * k) % w = 0
OBVIOUS

\* What the constants say of the consoles.
LEMMA Sizes ==
    ASSUME NEW c \in ConsoleNr
    PROVE  /\ Original(c) \in Nat /\ End(c) = Original(c) + VmemLimit
           /\ LastLineEnd(c) \in Nat
           /\ End(c) <= LastLineEnd(c) /\ LastLineEnd(c) < End(c) + ScreenWidth
           /\ ScreenWidth \in Nat \ {0} /\ ScreenSize \in Nat /\ VmemLimit \in Nat
           /\ ScreenWidth <= ScreenSize /\ ScreenSize < VmemLimit
<1>1. /\ ScreenWidth \in Nat \ {0} /\ ScreenSize \in Nat /\ VmemLimit \in Nat
      /\ ScreenWidth <= ScreenSize /\ ScreenSize < VmemLimit /\ VmemLimit - 1 \in Nat
  BY ConsoleAssumption
<1>2. c \in Nat /\ Original(c) \in Nat /\ End(c) = Original(c) + VmemLimit
  BY <1>1, ConsoleAssumption DEF ConsoleNr, Original, End
<1> DEFINE q == (VmemLimit - 1) \div ScreenWidth
<1>3. q \in Nat /\ ScreenWidth * q <= VmemLimit - 1 /\ VmemLimit - 1 < ScreenWidth * q + ScreenWidth
  BY <1>1, Quotient
<1>4. ScreenWidth * (q + 1) = ScreenWidth * q + ScreenWidth /\ ScreenWidth * q \in Nat
  BY <1>1, <1>3, NextMultiple
<1>5. LastLineEnd(c) = Original(c) + ScreenWidth * (q + 1)
  BY DEF LastLineEnd
<1> HIDE DEF q
<1> QED BY <1>1, <1>2, <1>3, <1>4, <1>5

\* Where the line behind a line of the console's memory begins, and a line that begins
\* less than a line behind that memory
LEMMA LineEnds ==
    ASSUME NEW c \in ConsoleNr, NEW k \in Nat
    PROVE  /\ ScreenWidth * k < VmemLimit =>
                Original(c) + ScreenWidth * (k + 1) <= LastLineEnd(c)
           /\ ScreenWidth * k < VmemLimit + ScreenWidth =>
                Original(c) + ScreenWidth * k <= LastLineEnd(c)
<1> DEFINE q == (VmemLimit - 1) \div ScreenWidth
<1>1. /\ ScreenWidth \in Nat \ {0} /\ VmemLimit \in Nat /\ VmemLimit - 1 \in Nat
      /\ Original(c) \in Nat
  BY Sizes
<1>2. q \in Nat /\ VmemLimit - 1 < ScreenWidth * q + ScreenWidth
  BY <1>1, Quotient
<1>3. LastLineEnd(c) = Original(c) + ScreenWidth * (q + 1)
  BY DEF LastLineEnd
<1> HIDE DEF q
<1>4. /\ ScreenWidth * (q + 1) = ScreenWidth * q + ScreenWidth /\ ScreenWidth * q \in Nat
      /\ ScreenWidth * (q + 1 + 1) = ScreenWidth * (q + 1) + ScreenWidth
      /\ ScreenWidth * (k + 1) = ScreenWidth * k + ScreenWidth /\ ScreenWidth * k \in Nat
  BY <1>1, <1>2, NextMultiple
<1>5. q + 1 <= k => ScreenWidth * (q + 1) <= ScreenWidth * k
  BY <1>1, <1>2, Monotone
<1>6. k <= q => ScreenWidth * k <= ScreenWidth * q
  BY <1>1, <1>2, Monotone
<1>7. q + 1 + 1 <= k => ScreenWidth * (q + 1 + 1) <= ScreenWidth * k
  BY <1>1, <1>2, Monotone
<1>8. k <= q + 1 => ScreenWidth * k <= ScreenWidth * (q + 1)
  BY <1>1, <1>2, Monotone
<1>9. ScreenWidth * k < VmemLimit => k <= q
  BY <1>1, <1>2, <1>4, <1>5
<1>10. ScreenWidth * k < VmemLimit + ScreenWidth => k <= q + 1
  BY <1>1, <1>2, <1>4, <1>7
<1> QED BY <1>1, <1>2, <1>3, <1>4, <1>6, <1>8, <1>9, <1>10

\* A u32 holds every place and every sum that is compared with one: the last two of its
\* values lie behind all of them.
LEMMA Words ==
    ASSUME NEW c \in ConsoleNr
    PROVE  /\ Word \in Nat \ {0, 1} /\ Word \div 2 \in Nat /\ Word \div 2 <= Word - 2
           /\ LastLineEnd(c) < Word \div 2
           /\ End(c) + 2 * ScreenWidth <= Word - 2
<1>1. /\ c \in Nat /\ NrConsoles \in Nat /\ VmemLimit \in Nat /\ c + 1 \in Nat
      /\ c + 1 <= NrConsoles
  BY ConsoleAssumption DEF ConsoleNr
<1>2. /\ ScreenWidth \in Nat \ {0} /\ ScreenSize \in Nat /\ ScreenWidth <= ScreenSize
      /\ LastLineEnd(c) \in Nat /\ LastLineEnd(c) < End(c) + ScreenWidth
  BY Sizes
<1>3. VmemLimit * (c + 1) <= VmemLimit * NrConsoles
  BY <1>1, Monotone
<1>4. VmemLimit * (c + 1) = VmemLimit * c + VmemLimit /\ VmemLimit * c \in Nat
  BY <1>1, NextMultiple
<1>5. End(c) = VmemLimit * c + VmemLimit /\ NrConsoles * VmemLimit = VmemLimit * NrConsoles
  BY <1>1 DEF End, Original
<1> DEFINE all == VmemLimit * NrConsoles
<1>6. all \in Nat /\ End(c) \in Nat /\ End(c) <= all
  BY <1>1, <1>3, <1>4, <1>5
<1>7. Word \in Nat /\ 2 * (all + ScreenSize + ScreenWidth) <= Word
  BY <1>5, ConsoleAssumption
<1> HIDE DEF all
<1>8. /\ all + ScreenSize + ScreenWidth <= Word \div 2
      /\ Word \div 2 \in Nat /\ 2 * (Word \div 2) <= Word
  BY <1>2, <1>6, <1>7
<1> QED BY <1>2, <1>6, <1>7, <1>8

\* What becomes of a u32 that is not too small, and of one less than 0.
LEMMA Wraps ==
    ASSUME NEW w \in Nat \ {0}
    PROVE  /\ \A x \in 0 .. w - 1 : x % w = x
           /\ (0 - 1) % w = w - 1
OBVIOUS

\* A character or a newline moves the cursor forward, at most to the end of the last
\* line; if it fits, not out of the memory.
LEMMA Forward ==
    ASSUME NEW c \in ConsoleNr, NEW ch \in {"char", "newline"}, NEW pos,
           CursorPlace(c, pos), pos < End(c)
    PROVE  /\ CursorPlace(c, Moved(c, ch, pos)) /\ pos < Moved(c, ch, pos)
           /\ Fits(c, ch, pos) => Moved(c, ch, pos) < End(c)
<1>1. pos \in Nat /\ Original(c) <= pos /\ pos < Original(c) + VmemLimit
  BY Sizes DEF CursorPlace
<1>2. CASE ch = "char"
  BY <1>1, <1>2, Sizes DEF CursorPlace, Moved, Fits
<1>3. CASE ch = "newline"
  <2> DEFINE q == (pos - Original(c)) \div ScreenWidth
  <2>1. pos - Original(c) \in Nat
    BY <1>1, Sizes
  <2>2. /\ q \in Nat
        /\ ScreenWidth * q <= pos - Original(c) /\ pos - Original(c) < ScreenWidth * q + ScreenWidth
    BY <2>1, Sizes, Quotient
  <2>3. Moved(c, ch, pos) = Original(c) + ScreenWidth * (q + 1)
    BY <1>3 DEF Moved
  <2>4. Fits(c, ch, pos) => pos < End(c) - ScreenWidth
    BY <1>3 DEF Fits
  <2> HIDE DEF q
  <2>5. ScreenWidth * (q + 1) = ScreenWidth * q + ScreenWidth /\ ScreenWidth * q \in Nat
    BY <2>2, Sizes, NextMultiple
  <2>6. ScreenWidth * q < VmemLimit
    BY <1>1, <2>2, <2>5, Sizes
  <2>7. Original(c) + ScreenWidth * (q + 1) <= LastLineEnd(c)
    BY <2>2, <2>6, LineEnds
  <2> QED BY <1>1, <2>2, <2>3, <2>4, <2>5, <2>7, Sizes DEF CursorPlace
<1> QED BY <1>2, <1>3

\* A screen that is in its place is a natural number.
LEMMA StartsInMemory ==
    ASSUME NEW c \in ConsoleNr, NEW s, StartPlace(c, s)
    PROVE  /\ s \in Nat /\ Original(c) <= s /\ s <= LastLineEnd(c)
           /\ (s - Original(c)) % ScreenWidth = 0
<1>1. PICK k \in Nat : s = Original(c) + ScreenWidth * k
  BY DEF StartPlace
<1>2. ScreenWidth * k \in Nat
  BY Sizes, NextMultiple
<1>3. s \in Nat /\ Original(c) <= s /\ s - Original(c) = ScreenWidth * k
  BY <1>1, <1>2, Sizes
<1>4. ScreenWidth * k < VmemLimit + ScreenWidth
  BY <1>1, <1>2, Sizes DEF StartPlace
<1>5. s <= LastLineEnd(c)
  BY <1>1, <1>4, LineEnds
<1>6. (s - Original(c)) % ScreenWidth = 0
  BY <1>3, Sizes, NoRemainder
<1> QED BY <1>3, <1>5, <1>6

\* A backspace moves it back, from the first cell of console 0 to the last value of a u32.
LEMMA Backward ==
    ASSUME NEW c \in ConsoleNr, NEW pos, CursorPlace(c, pos)
    PROVE  /\ Original(c) < pos =>
                Moved(c, "backspace", pos) = pos - 1 /\ CursorPlace(c, pos - 1)
           /\ c = 0 /\ pos = Original(c) => Moved(c, "backspace", pos) = Word - 1
<1>1. /\ pos \in Nat /\ Original(c) <= pos /\ pos <= LastLineEnd(c)
      /\ Moved(c, "backspace", pos) = (pos - 1) % Word
  BY DEF CursorPlace, Moved
<1>2. /\ Original(c) \in Nat /\ LastLineEnd(c) \in Nat
      /\ Word \in Nat \ {0} /\ LastLineEnd(c) < Word
  BY Sizes, Words
<1>3. CASE Original(c) < pos
  <2>1. pos - 1 \in 0 .. Word - 1
    BY <1>1, <1>2, <1>3
  <2>2. (pos - 1) % Word = pos - 1
    BY <1>2, <2>1, Wraps
  <2> QED BY <1>1, <1>2, <1>3, <2>2 DEF CursorPlace
<1>4. CASE pos = Original(c)
  <2>1. c = 0 => pos = 0
    BY <1>4, ConsoleAssumption DEF Original
  <2>2. (0 - 1) % Word = Word - 1
    BY <1>2, Wraps
  <2> QED BY <1>1, <1>2, <1>4, <2>1, <2>2
<1> QED BY <1>1, <1>2, <1>3, <1>4

\* The address of a cell is that of its place; the last value of a u32 is the cell in
\* front of the memory.
LEMMA Cells ==
    /\ \A c \in ConsoleNr : \A x : CursorPlace(c, x) => Cell(x) = x
    /\ Cell(Word - 1) = -1
<1>1. 0 \in ConsoleNr
  BY ConsoleAssumption DEF ConsoleNr
<1>2. ASSUME NEW c \in ConsoleNr, NEW x, CursorPlace(c, x)
      PROVE  Cell(x) = x
  <2>1. x \in Nat /\ x <= LastLineEnd(c) /\ LastLineEnd(c) \in Nat
    BY <1>2, Sizes DEF CursorPlace
  <2>2. LastLineEnd(c) < Word \div 2 /\ Word \div 2 \in Nat
    BY Words
  <2> QED BY <2>1, <2>2 DEF Cell
<1>3. Cell(Word - 1) = -1
  <2>1. Word \in Nat /\ Word \div 2 \in Nat /\ Word \div 2 <= Word - 2
    BY <1>1, Words
  <2>2. ~(Word - 1 < Word \div 2)
    BY <2>1
  <2>3. Cell(Word - 1) = (Word - 1) - Word
    BY <2>2 DEF Cell
  <2> QED BY <2>1, <2>3
<1> QED BY <1>2, <1>3

\* A place of a console's cursor is a value of a u32.
LEMMA WithinWord ==
    ASSUME NEW c \in ConsoleNr, NEW x, CursorPlace(c, x)
    PROVE  x \in 0 .. Word - 1
BY Sizes, Words DEF CursorPlace

\* A wrapped cursor is below every screen.
LEMMA WrappedBelow ==
    ASSUME NEW s, StartPlace(0, s)
    PROVE  Below(Word - 1, s) /\ Below(Word - 2, s)
<1>1. 0 \in ConsoleNr
  BY ConsoleAssumption DEF ConsoleNr
<1>2. s \in Nat /\ s + ScreenSize < End(0) + 2 * ScreenWidth
  BY <1>1, StartsInMemory DEF StartPlace
<1>3. Word \in Nat /\ End(0) + 2 * ScreenWidth <= Word - 2
  BY <1>1, Words
<1>4. End(0) \in Nat /\ ScreenSize \in Nat /\ ScreenWidth \in Nat
  BY <1>1, Sizes
<1> QED BY <1>2, <1>3, <1>4 DEF Below

\* n rounds of the loop of out_char
LEMMA Rounds ==
    ASSUME NEW c \in ConsoleNr, NEW s, StartPlace(c, s), NEW pos \in Nat, NEW n \in Nat,
           StopsAfter(c, pos, s, n)
    PROVE  /\ StartPlace(c, s + ScreenWidth * n) /\ s <= s + ScreenWidth * n
           /\ s + ScreenSize < End(c) + ScreenWidth =>
                s + ScreenWidth * n + ScreenSize < End(c) + ScreenWidth
<1>1. PICK k \in Nat : s = Original(c) + ScreenWidth * k
  BY DEF StartPlace
<1>2. /\ s \in Nat /\ ScreenWidth * n \in Nat
      /\ s + ScreenWidth * n = Original(c) + ScreenWidth * (k + n)
  <2>1. ScreenWidth * (k + n) = ScreenWidth * k + ScreenWidth * n
    BY Sizes
  <2> QED BY <1>1, <2>1, Sizes, NextMultiple
<1>3. CASE n = 0
  <2>1. ScreenWidth * n = 0
    BY <1>3, Sizes
  <2> QED BY <1>2, <2>1, Sizes
<1>4. CASE n # 0
  <2>1. n - 1 \in 0 .. n - 1 /\ n - 1 \in Nat
    BY <1>4
  <2>2. CanScroll(c, "down", s + ScreenWidth * (n - 1))
    BY <2>1 DEF StopsAfter
  <2>3. ScreenWidth * n = ScreenWidth * (n - 1) + ScreenWidth /\ ScreenWidth * (n - 1) \in Nat
    <3> DEFINE m == n - 1
    <3>1. m \in Nat /\ n = m + 1
      BY <2>1
    <3> HIDE DEF m
    <3>2. ScreenWidth * (m + 1) = ScreenWidth * m + ScreenWidth /\ ScreenWidth * m \in Nat
      BY <3>1, Sizes, NextMultiple
    <3>3. ScreenWidth * n = ScreenWidth * m + ScreenWidth
      BY <3>1, <3>2
    <3> QED BY <3>2, <3>3 DEF m
  <2>4. s + ScreenWidth * (n - 1) + ScreenSize < End(c)
    BY <2>2 DEF CanScroll
  <2>5. s + ScreenWidth * n + ScreenSize < End(c) + ScreenWidth
    BY <1>2, <2>3, <2>4, Sizes
  <2>6. k + n \in Nat
    OBVIOUS
  <2> QED BY <1>2, <2>5, <2>6, Sizes DEF StartPlace
<1> QED BY <1>3, <1>4

-----------------------------------------------------------------------------
(* The steps *)

\* init_screen gives each console its part of the memory.
LEMMA InitInv == Init => IInv
<1> SUFFICES ASSUME Init PROVE IInv
  OBVIOUS
<1>1. 0 \in ConsoleNr
  BY ConsoleAssumption DEF ConsoleNr
<1>2. \A c \in ConsoleNr : StartPlace(c, Original(c))
  <2> SUFFICES ASSUME NEW c \in ConsoleNr PROVE StartPlace(c, Original(c))
    OBVIOUS
  <2>1. Original(c) = Original(c) + ScreenWidth * 0
    BY Sizes
  <2> QED BY <2>1, Sizes DEF StartPlace
<1>3. \A c \in ConsoleNr : CursorPlace(c, Original(c)) /\ Original(c) < End(c)
  BY Sizes DEF CursorPlace
<1>4. Original(0) = 0
  BY ConsoleAssumption DEF Original
<1>5. \A d \in BootText : CursorPlace(0, d)
  BY <1>1, <1>4, Sizes, ConsoleAssumption DEF CursorPlace
<1>a. /\ \A c \in ConsoleNr : CursorPlace(c, cursor[c]) /\ cursor[c] < End(c)
      /\ \A c \in ConsoleNr : cursor[c] \in 0 .. Word - 1
  <2>1. \A c \in ConsoleNr : CursorPlace(c, cursor[c]) /\ cursor[c] < End(c)
    BY <1>1, <1>3, <1>4, <1>5, Sizes, ConsoleAssumption DEF Init
  <2>2. \A c \in ConsoleNr : \A x : CursorPlace(c, x) => x \in 0 .. Word - 1
    BY WithinWord
  <2> QED BY <2>1, <2>2
<1>6. Places
  <2>1. \A c \in ConsoleNr : Original(c) \in Nat
    BY Sizes
  <2> QED BY <1>2, <1>a, <2>1 DEF Init, Places
<1>7. Typed
  BY <1>1, <1>6 DEF Init, Typed, Places, Char
<1>8. InOut /\ InScreen /\ InFlushing
  BY DEF Init, InOut, InScreen, InFlushing
<1>9. Shown
  BY <1>1, <1>2, <1>a DEF Init, Shown
<1>10. Text
  BY <1>1 DEF Init, Text, TextInMemory, NoCell
<1> QED BY <1>6, <1>7, <1>8, <1>9, <1>10 DEF IInv

\* What a character of syscall_printx does to a cursor in its place: it stays in its
\* place, and inside the memory if it was; and the screen goes forward.
LEMMA Prints ==
    ASSUME IInv, NEW ch \in Char, PrintX(ch)
    PROVE  /\ cursor' = [cursor EXCEPT ![0] = cursor'[0]]
           /\ start' = [start EXCEPT ![0] = start'[0]]
           /\ CursorPlace(0, cursor[0]) =>
                /\ CursorPlace(0, cursor'[0])
                /\ cursor[0] < End(0) => cursor'[0] < End(0)
           /\ ~CursorPlace(0, cursor[0]) =>
                Wrapped /\ hung' /\ cursor'[0] \in {Word - 1, Word - 2}
           /\ StartPlace(0, start'[0]) /\ start[0] <= start'[0]
           /\ start[0] + ScreenSize < End(0) + ScreenWidth =>
                start'[0] + ScreenSize < End(0) + ScreenWidth
           /\ crt' = IF current = 0 THEN [cursor |-> cursor'[0], start |-> start'[0]] ELSE crt
           /\ overtaken' = IF current = 0 THEN pc \in {"set_cursor", "set_start"} ELSE overtaken
           /\ hung' \in BOOLEAN /\ UNCHANGED <<current, tty>>
           /\ Text'
<1>1. 0 \in ConsoleNr /\ Original(0) = 0
  BY ConsoleAssumption DEF ConsoleNr, Original
<1>2. /\ cursor \in [ConsoleNr -> 0 .. Word - 1] /\ start \in [ConsoleNr -> Nat]
      /\ CursorPlace(0, cursor[0]) \/ Wrapped
      /\ StartPlace(0, start[0])
  BY <1>1 DEF IInv, Places
<1> DEFINE fits == Fits(0, ch, cursor[0])
           to   == IF fits THEN Moved(0, ch, cursor[0]) ELSE cursor[0]
<1>3. PICK n \in 0 .. VmemLimit :
        /\ StopsAfter(0, to, start[0], n)
        /\ cursor' = [cursor EXCEPT ![0] = to]
        /\ start' = [start EXCEPT ![0] = start[0] + ScreenWidth * n]
        /\ cell' = CASE fits /\ ch = "char" ->
                          [console |-> 0, at |-> Cell(cursor[0]), what |-> ch]
                     [] fits /\ ch = "backspace" ->
                          [console |-> 0, at |-> Cell(cursor[0]) - 1, what |-> ch]
                     [] OTHER -> NoCell
        /\ crt' = IF current = 0 THEN [cursor |-> to, start |-> start[0] + ScreenWidth * n] ELSE crt
        /\ hung' = Below(to, start[0] + ScreenWidth * n)
        /\ overtaken' = IF current = 0 THEN pc \in {"set_cursor", "set_start"} ELSE overtaken
        /\ UNCHANGED <<current, tty>>
  BY Zenon DEF PrintX, IsCurrent
<1>4. ~hung
  BY DEF PrintX
<1>5. CASE CursorPlace(0, cursor[0])
  <2>1. cursor[0] \in Nat /\ cursor[0] <= LastLineEnd(0)
    BY <1>5 DEF CursorPlace
  <2>2. fits /\ ch # "backspace" => cursor[0] < End(0)
    <3>1. CASE ch = "char"
      BY <1>1, <2>1, <3>1, Sizes DEF Fits
    <3>2. CASE ch = "newline"
      BY <1>1, <2>1, <3>2, Sizes DEF Fits
    <3> QED BY <3>1, <3>2 DEF Char
  <2>3. fits /\ ch # "backspace" => CursorPlace(0, to) /\ to < End(0)
    BY <1>1, <1>5, <2>2, Forward DEF Char
  <2>4. fits /\ ch = "backspace" =>
            /\ 0 < cursor[0] /\ to = cursor[0] - 1 /\ CursorPlace(0, to)
    <3> SUFFICES ASSUME fits, ch = "backspace"
                 PROVE  0 < cursor[0] /\ to = cursor[0] - 1 /\ CursorPlace(0, to)
      OBVIOUS
    <3>1. Original(0) < cursor[0]
      BY <1>1, <2>1 DEF Fits
    <3> QED BY <1>1, <1>5, <3>1, Backward
  <2>5. CursorPlace(0, to) /\ (cursor[0] < End(0) => to < End(0))
    <3>1. End(0) \in Nat
      BY <1>1, Sizes
    <3> QED BY <1>5, <2>1, <2>3, <2>4, <3>1
  <2>6. Cell(cursor[0]) = cursor[0]
    BY <1>1, <1>5, Cells
  <2> HIDE DEF fits, to
  <2>7. cell' = NoCell => Text'
    BY <1>1 DEF Text, TextInMemory, NoCell
  <2>8. ASSUME fits, ch = "char" PROVE Text'
    <3>1. cell' = [console |-> 0, at |-> cursor[0], what |-> "char"]
      BY <1>3, <2>6, <2>8
    <3> QED BY <1>1, <2>1, <3>1, <1>5, Sizes DEF Text, TextInMemory, Char, CursorPlace
  <2>9. ASSUME fits, ch = "backspace" PROVE Text'
    <3>1. cell' = [console |-> 0, at |-> cursor[0] - 1, what |-> "backspace"]
      BY <1>3, <2>6, <2>9
    <3> QED BY <1>1, <2>1, <2>4, <2>9, <3>1, Sizes DEF Text, TextInMemory, Char
  <2>10. Text'
    BY <1>3, <2>7, <2>8, <2>9
  <2>11. n \in Nat /\ to \in Nat
    BY <1>3, <2>5 DEF CursorPlace
  <2>12. /\ StartPlace(0, start[0] + ScreenWidth * n) /\ start[0] <= start[0] + ScreenWidth * n
         /\ start[0] + ScreenSize < End(0) + ScreenWidth =>
               start[0] + ScreenWidth * n + ScreenSize < End(0) + ScreenWidth
    BY <1>1, <1>2, <1>3, <2>11, Rounds
  <2>13. cursor'[0] = to /\ start'[0] = start[0] + ScreenWidth * n
    BY <1>1, <1>2, <1>3
  <2>14. hung' \in BOOLEAN
    BY <1>3 DEF Below
  <2> QED BY <1>3, <1>5, <2>5, <2>10, <2>12, <2>13, <2>14, Zenon
<1>6. CASE ~CursorPlace(0, cursor[0])
  <2>1. Wrapped /\ cursor[0] = Word - 1
    BY <1>2, <1>4, <1>6 DEF Wrapped
  <2>2. /\ Word \in Nat \ {0, 1} /\ End(0) + 2 * ScreenWidth <= Word - 2
        /\ End(0) \in Nat /\ ScreenWidth \in Nat \ {0}
    BY <1>1, Sizes, Words
  <2>3. fits <=> ch = "backspace"
    <3>1. CASE ch = "char"
      BY <2>1, <2>2, <3>1 DEF Fits
    <3>2. CASE ch = "newline"
      BY <2>1, <2>2, <3>2 DEF Fits
    <3>3. CASE ch = "backspace"
      BY <1>1, <2>1, <2>2, <3>3 DEF Fits
    <3> QED BY <3>1, <3>2, <3>3 DEF Char
  <2>4. ch = "backspace" => Moved(0, ch, cursor[0]) = Word - 2
    <3>1. Word - 2 \in 0 .. Word - 1 /\ (Word - 1) - 1 = Word - 2
      BY <2>2
    <3>2. (Word - 2) % Word = Word - 2
      BY <2>2, <3>1, Wraps
    <3> QED BY <2>1, <3>1, <3>2 DEF Moved
  <2>5. to \in {Word - 1, Word - 2}
    BY <2>1, <2>3, <2>4
  <2>6. Cell(cursor[0]) = -1
    BY <2>1, Cells
  <2> HIDE DEF fits, to
  <2>7. n \in Nat /\ to \in Nat
    BY <1>3, <2>2, <2>5
  <2>8. /\ StartPlace(0, start[0] + ScreenWidth * n) /\ start[0] <= start[0] + ScreenWidth * n
        /\ start[0] + ScreenSize < End(0) + ScreenWidth =>
              start[0] + ScreenWidth * n + ScreenSize < End(0) + ScreenWidth
    BY <1>1, <1>2, <1>3, <2>7, Rounds
  <2>9. hung' = TRUE
    <3>1. Below(to, start[0] + ScreenWidth * n)
      BY <2>5, <2>8, WrappedBelow
    <3> QED BY <1>3, <3>1 DEF Below
  <2>10. cursor'[0] = to /\ start'[0] = start[0] + ScreenWidth * n
    BY <1>1, <1>2, <1>3
  <2>11. Text'
    <3>1. ASSUME ch = "backspace" PROVE Text'
      <4>1. cell' = [console |-> 0, at |-> Cell(cursor[0]) - 1, what |-> "backspace"]
        BY <1>3, <2>3, <3>1
      <4>2. cell' = [console |-> 0, at |-> -2, what |-> "backspace"]
        BY <2>6, <4>1
      <4> QED BY <1>1, <2>9, <4>2 DEF Text, TextInMemory, Char
    <3>2. ASSUME ch # "backspace" PROVE Text'
      <4>1. cell' = NoCell
        BY <1>3, <2>3, <3>2
      <4> QED BY <1>1, <4>1 DEF Text, TextInMemory, NoCell
    <3> QED BY <3>1, <3>2
  <2> QED BY <1>3, <1>6, <2>1, <2>5, <2>8, <2>9, <2>10, <2>11, Zenon
<1> QED BY <1>5, <1>6

\* A process prints on console 0 between any two steps of TTY.
LEMMA PrintXInv == IInv /\ (\E ch \in Char : PrintX(ch)) => IInv'
<1> SUFFICES ASSUME IInv, NEW ch \in Char, PrintX(ch) PROVE IInv'
  OBVIOUS
<1>1. 0 \in ConsoleNr
  BY ConsoleAssumption DEF ConsoleNr
<1>2. /\ cursor' = [cursor EXCEPT ![0] = cursor'[0]]
      /\ start' = [start EXCEPT ![0] = start'[0]]
      /\ CursorPlace(0, cursor[0]) =>
           /\ CursorPlace(0, cursor'[0])
           /\ cursor[0] < End(0) => cursor'[0] < End(0)
      /\ ~CursorPlace(0, cursor[0]) =>
           Wrapped /\ hung' /\ cursor'[0] \in {Word - 1, Word - 2}
      /\ StartPlace(0, start'[0]) /\ start[0] <= start'[0]
      /\ start[0] + ScreenSize < End(0) + ScreenWidth =>
           start'[0] + ScreenSize < End(0) + ScreenWidth
      /\ crt' = IF current = 0 THEN [cursor |-> cursor'[0], start |-> start'[0]] ELSE crt
      /\ overtaken' = IF current = 0 THEN pc \in {"set_cursor", "set_start"} ELSE overtaken
      /\ hung' \in BOOLEAN
      /\ current' = current /\ pc' = pc /\ back' = back /\ job' = job
      /\ p_vmem' = p_vmem /\ reg' = reg
      /\ Text'
  BY Prints, Zenon DEF tty
<1>3. \A c \in ConsoleNr : c # 0 => cursor'[c] = cursor[c] /\ start'[c] = start[c]
  BY <1>1, <1>2 DEF IInv, Places
<1>4. cursor'[0] \in 0 .. Word - 1 /\ start'[0] \in Nat
  <2>1. CursorPlace(0, cursor'[0]) \/ cursor'[0] \in {Word - 1, Word - 2}
    BY <1>2
  <2>2. Word \in Nat \ {0, 1}
    BY <1>1, Words
  <2> QED BY <1>1, <1>2, <2>1, <2>2, WithinWord, StartsInMemory
<1>5. \A c \in ConsoleNr : (c # 0 => CursorPlace(c, cursor[c])) /\ StartPlace(c, start[c])
  BY DEF IInv, Places
<1>6. cursor' \in [ConsoleNr -> 0 .. Word - 1] /\ start' \in [ConsoleNr -> Nat]
  BY <1>1, <1>2, <1>4 DEF IInv, Places
<1>7. CursorPlace(0, cursor'[0]) \/ Wrapped'
  <2>1. CASE CursorPlace(0, cursor[0])
    BY <1>2, <2>1
  <2>2. CASE ~CursorPlace(0, cursor[0])
    BY <1>2, <2>2 DEF Wrapped, InLoop
  <2> QED BY <2>1, <2>2
<1>8. Places'
  <2>1. \A c \in ConsoleNr \ {0} : cursor'[c] < End(c)
    BY <1>3 DEF IInv, Places
  <2>2. \A c \in ConsoleNr : StartPlace(c, start'[c])
    BY <1>2, <1>3, <1>5, Zenon
  <2>3. \A c \in ConsoleNr : CursorPlace(c, cursor'[c]) \/ (c = 0 /\ Wrapped')
    BY <1>3, <1>5, <1>7, Zenon
  <2> QED BY <1>6, <2>1, <2>2, <2>3, Zenon DEF Places
<1>9. /\ crt'.cursor = (IF current = 0 THEN cursor'[0] ELSE crt.cursor)
      /\ crt'.start = (IF current = 0 THEN start'[0] ELSE crt.start)
      /\ crt' \in [cursor : 0 .. Word - 1, start : Nat]
  BY <1>2, <1>4 DEF IInv, Typed
<1>10. Typed'
  <2>1. overtaken' \in BOOLEAN
    <3>1. current = 0 => overtaken' = (pc \in {"set_cursor", "set_start"})
      BY <1>2
    <3>2. current # 0 => overtaken' = overtaken
      BY <1>2
    <3>3. current = 0 => overtaken' \in BOOLEAN
      BY <3>1, SMT
    <3>4. overtaken \in BOOLEAN
      BY DEF IInv, Typed
    <3> QED BY <3>2, <3>3, <3>4
  <2> QED BY <1>2, <1>9, <2>1 DEF IInv, Typed
<1>11. /\ start[current] <= start'[current]
       /\ start[current] + ScreenSize < End(current) + ScreenWidth =>
            start'[current] + ScreenSize < End(current) + ScreenWidth
       /\ current # 0 => cursor'[current] = cursor[current] /\ start'[current] = start[current]
       /\ current \in ConsoleNr
       /\ start[current] \in Nat /\ start'[current] \in Nat
       /\ Original(current) \in Nat
  BY <1>2, <1>3, <1>6, Sizes DEF IInv, Typed, Places
<1>12. ~InLoop => CursorPlace(0, cursor'[0]) /\ (cursor[0] < End(0) => cursor'[0] < End(0))
  BY <1>2 DEF Wrapped
<1>13. InOut'
  <2>1. CASE pc = "switch"
    BY <1>2, <1>11, <2>1 DEF IInv, InOut
  <2>2. CASE pc = "load"
    <3>1. cursor[current] < End(current) => cursor'[current] < End(current)
      BY <1>11, <1>12, <2>2 DEF InLoop
    <3> QED BY <1>2, <1>11, <2>2, <3>1 DEF IInv, InOut
  <2>3. CASE pc = "store"
    BY <1>2, <1>11, <2>3 DEF IInv, InOut
  <2> QED BY <1>2, <2>1, <2>2, <2>3 DEF InOut
<1>14. InScreen'
  BY <1>2, <1>11 DEF IInv, InScreen, Direction
<1>15. InFlushing'
  <2>1. CASE pc = "set_cursor"
    BY <1>2, <1>11, <2>1 DEF IInv, InFlushing
  <2>2. CASE pc = "set_start"
    <3>1. back = "loop" => CursorPlace(current, crt'.cursor)
      <4>1. CASE current = 0
        BY <1>9, <1>12, <2>2, <4>1 DEF InLoop
      <4>2. CASE current # 0
        BY <1>9, <2>2, <4>2 DEF IInv, InFlushing
      <4> QED BY <4>1, <4>2
    <3> QED BY <1>2, <1>9, <1>11, <2>2, <3>1 DEF IInv, InFlushing
  <2> QED BY <1>2, <2>1, <2>2 DEF InFlushing
<1>16. Shown'
  <2> SUFFICES ASSUME Steady PROVE Shown'
    BY <1>2 DEF Shown, Steady
  <2>1. ~InLoop /\ pc \notin {"set_cursor", "set_start"}
    BY DEF Steady, InLoop
  <2>2. CASE current = 0
    BY <1>2, <1>9, <1>12, <2>1, <2>2 DEF Shown
  <2>3. CASE current # 0
    BY <1>2, <1>9, <1>11, <2>3 DEF IInv, Shown
  <2> QED BY <2>2, <2>3
<1> QED BY <1>2, <1>8, <1>10, <1>13, <1>14, <1>15, <1>16 DEF IInv

\* A wrapped cursor keeps TTY in the loop: where no cursor or screen moves, everything
\* stays in its place as long as TTY stays there.
LEMMA PlacesKept ==
    ASSUME Places, UNCHANGED <<screen, current, hung>>, Wrapped => InLoop'
    PROVE  Places'
BY DEF Places, Wrapped, screen

\* What is shown stays what is to be shown where none of it changes.
LEMMA ShownKept ==
    ASSUME Shown, UNCHANGED <<screen, current, crt, overtaken>>, Steady' => Steady
    PROVE  Shown'
BY DEF Shown, screen

\* Outside the loop every cursor is in its place.
LEMMA Unwrapped ==
    ASSUME Places, ~InLoop
    PROVE  \A c \in ConsoleNr : CursorPlace(c, cursor[c])
BY DEF Places, Wrapped

\* A step that writes no cell writes none outside a console.
LEMMA NothingWritten == cell' = NoCell => Text'
<1>1. 0 \in ConsoleNr
  BY ConsoleAssumption DEF ConsoleNr
<1> QED BY <1>1 DEF Text, TextInMemory, NoCell

\* out_char is called: the place of the cursor is computed.
LEMMA OutCharInv == IInv /\ OutChar => IInv'
<1> SUFFICES ASSUME IInv, OutChar PROVE IInv'
  OBVIOUS
<1>a. /\ ~InLoop /\ current \in ConsoleNr /\ pc' = "switch" /\ current' = current
      /\ cursor' = cursor /\ job' \in Char /\ p_vmem' = Cell(cursor[current])
  BY DEF IInv, Typed, InLoop, OutChar, Still, Goto, screen
<1>b. CursorPlace(current, cursor[current]) /\ p_vmem' = cursor[current] /\ p_vmem' \in Nat
  <2>1. CursorPlace(current, cursor[current])
    BY <1>a, Unwrapped DEF IInv
  <2> QED BY <1>a, <2>1, Cells DEF CursorPlace
<1>1. Places'
  BY PlacesKept DEF IInv, OutChar, Still, Goto, Wrapped, InLoop
<1>2. Typed'
  BY <1>a, <1>b DEF IInv, Typed, OutChar, Still, Goto
<1>3. InOut'
  BY <1>a, <1>b DEF InOut
<1>4. InScreen'
  BY DEF InScreen, OutChar, Goto
<1>5. InFlushing'
  BY DEF IInv, Typed, InFlushing, OutChar, Still, Goto
<1>6. Shown'
  BY ShownKept DEF IInv, Steady, OutChar, Still, Goto
<1>7. Text'
  BY NothingWritten DEF OutChar
<1> QED BY <1>1, <1>2, <1>3, <1>4, <1>5, <1>6, <1>7 DEF IInv

\* The character is tested against the place the cursor is at.
LEMMA SwitchInv == IInv /\ Switch => IInv'
<1> SUFFICES ASSUME IInv, Switch PROVE IInv'
  OBVIOUS
<1>1. Places'
  BY PlacesKept DEF IInv, Switch, Still, Goto, Wrapped, InLoop
<1>2. Typed'
  BY DEF IInv, Typed, Switch, Still, Goto
<1>3. InOut'
  <2>1. /\ current \in ConsoleNr /\ job \in Char /\ CursorPlace(current, p_vmem)
        /\ current # 0 => p_vmem = cursor[current]
        /\ ~InLoop
        /\ cursor' = cursor /\ current' = current /\ job' = job
    BY DEF IInv, Typed, InOut, InLoop, Switch, Still, Goto, screen
  <2>2. CASE ~Fits(current, job, cursor[current])
    BY <2>1, <2>2 DEF InOut, Switch, Goto
  <2>3. CASE Fits(current, job, cursor[current])
    <3>1. pc' = "load" /\ p_vmem' = p_vmem
      BY <2>3 DEF Switch, Goto
    <3>2. cursor[current] \in Nat /\ End(current) \in Nat /\ ScreenWidth \in Nat \ {0}
      BY <2>1, Unwrapped, Sizes DEF IInv, CursorPlace
    <3>3. job = "char" => cursor[current] < End(current) - 1
      BY <2>3 DEF Fits
    <3>4. job = "newline" => cursor[current] < End(current) - ScreenWidth
      BY <2>3 DEF Fits
    <3>5. job # "backspace" => cursor[current] < End(current)
      BY <2>1, <3>2, <3>3, <3>4 DEF Char
    <3> QED BY <2>1, <2>3, <3>1, <3>5 DEF InOut
  <2> QED BY <2>2, <2>3
<1>4. InScreen'
  BY DEF InScreen, Switch, Goto
<1>5. InFlushing'
  BY DEF IInv, Typed, InFlushing, Switch, Still, Goto
<1>6. Shown'
  BY ShownKept DEF IInv, Steady, Switch, Still, Goto
<1>7. Text'
  BY NothingWritten DEF Switch
<1> QED BY <1>1, <1>2, <1>3, <1>4, <1>5, <1>6, <1>7 DEF IInv

\* The loop of out_char goes on, or is left.
LEMMA WhileInv == IInv /\ While => IInv'
<1> SUFFICES ASSUME IInv, While PROVE IInv'
  OBVIOUS
<1>a. Wrapped => Below(cursor[current], start[current])
  <2> SUFFICES ASSUME Wrapped PROVE Below(cursor[current], start[current])
    OBVIOUS
  <2>1. 0 \in ConsoleNr /\ current = 0 /\ cursor[0] \in {Word - 1, Word - 2}
    BY ConsoleAssumption DEF ConsoleNr, Wrapped
  <2>2. StartPlace(0, start[0])
    BY <2>1 DEF IInv, Places
  <2> QED BY <2>1, <2>2, WrappedBelow
<1>1. Places'
  BY PlacesKept, <1>a DEF IInv, While, Still, Goto, Wrapped, InLoop
<1>2. Typed'
  BY DEF IInv, Typed, While, Still, Goto
<1>3. InOut'
  BY DEF InOut, While, Goto
<1>4. InScreen'
  BY DEF InScreen, While, Goto
<1>5. InFlushing'
  BY DEF IInv, Typed, InFlushing, While, Still, Goto
<1>6. Shown'
  BY DEF IInv, Typed, Shown, Steady, While, Still, Goto
<1>7. Text'
  BY NothingWritten DEF While
<1> QED BY <1>1, <1>2, <1>3, <1>4, <1>5, <1>6, <1>7 DEF IInv

\* TTY takes a key that scrolls.
LEMMA ScrollKeyInv == IInv /\ ScrollKey => IInv'
<1> SUFFICES ASSUME IInv, ScrollKey PROVE IInv'
  OBVIOUS
<1>1. Places'
  BY PlacesKept DEF IInv, ScrollKey, Still, Goto, Wrapped, InLoop
<1>2. Typed'
  BY DEF IInv, Typed, ScrollKey, Still, Goto
<1>3. InOut'
  BY DEF InOut, ScrollKey, Goto
<1>4. InScreen'
  BY DEF InScreen, ScrollKey, Goto
<1>5. InFlushing'
  BY DEF IInv, Typed, InFlushing, ScrollKey, Still, Goto
<1>6. Shown'
  BY ShownKept DEF IInv, Steady, ScrollKey, Still, Goto
<1>7. Text'
  BY NothingWritten DEF ScrollKey
<1> QED BY <1>1, <1>2, <1>3, <1>4, <1>5, <1>6, <1>7 DEF IInv

\* The test of scroll_screen.
LEMMA ScrollInv == IInv /\ Scroll => IInv'
<1> SUFFICES ASSUME IInv, Scroll PROVE IInv'
  OBVIOUS
<1>1. Places'
  BY PlacesKept DEF IInv, Scroll, Still, Goto, Wrapped, InLoop
<1>2. Typed'
  BY DEF IInv, Typed, Scroll, Still, Goto
<1>3. InOut'
  BY DEF InOut, Scroll, Goto
<1>4. InScreen'
  <2>1. /\ start[current] \in Nat /\ start' = start /\ current' = current /\ job' = job
        /\ Direction \in {"up", "down"}
    BY DEF IInv, Typed, Places, Scroll, Still, screen, Direction
  <2>2. /\ pc' = "move" => CanScroll(current, Direction, start[current])
        /\ pc' # "moved"
    BY DEF Scroll, Goto
  <2>3. Direction' = Direction
    BY <2>1 DEF Direction
  <2>4. CanScroll(current, "up", start[current]) => Original(current) < start[current]
    BY <2>1, Sizes DEF CanScroll, IInv, Typed
  <2>5. CanScroll(current, "down", start[current]) =>
            start[current] + ScreenSize < End(current) + ScreenWidth
    BY <2>1, Sizes DEF CanScroll, IInv, Typed
  <2> QED BY <2>1, <2>2, <2>3, <2>4, <2>5 DEF InScreen
<1>5. InFlushing'
  BY DEF IInv, Typed, InFlushing, Scroll, Still, Goto
<1>6. Shown'
  BY ShownKept DEF IInv, Steady, Scroll, Still, Goto
<1>7. Text'
  BY NothingWritten DEF Scroll
<1> QED BY <1>1, <1>2, <1>3, <1>4, <1>5, <1>6, <1>7 DEF IInv

\* The screen is about to move, by a line.
LEMMA LoadStartInv == IInv /\ LoadStart => IInv'
<1> SUFFICES ASSUME IInv, LoadStart PROVE IInv'
  OBVIOUS
<1>a. /\ StartPlace(current, start[current]) /\ current \in ConsoleNr
      /\ pc = "move" /\ pc' = "moved" /\ current' = current
      /\ reg' = Scrolled(Direction, start[current])
  BY DEF IInv, Typed, Places, LoadStart, Goto, Still
<1>b. StartPlace(current, reg')
  <2>1. PICK k \in Nat : start[current] = Original(current) + ScreenWidth * k
    BY <1>a DEF StartPlace
  <2>2. start[current] \in Nat /\ ScreenWidth * k \in Nat
    BY <1>a, <2>1, Sizes, NextMultiple, StartsInMemory
  <2>3. CASE Direction = "down"
    <3>1. start[current] + ScreenSize < End(current) + ScreenWidth
      BY <1>a, <2>3 DEF IInv, InScreen
    <3>2. reg' = Original(current) + ScreenWidth * (k + 1)
      <4>1. ScreenWidth * (k + 1) = ScreenWidth * k + ScreenWidth
        BY <1>a, Sizes, NextMultiple
      <4>2. reg' = start[current] + ScreenWidth
        BY <1>a, <2>3 DEF Scrolled
      <4> QED BY <1>a, <2>1, <2>2, <4>1, <4>2, Sizes
    <3>3. reg' + ScreenSize < End(current) + 2 * ScreenWidth
      BY <1>a, <2>2, <2>3, <3>1, Sizes DEF Scrolled
    <3> QED BY <3>2, <3>3 DEF StartPlace
  <2>4. CASE Direction = "up"
    <3>1. Original(current) < start[current]
      BY <1>a, <2>4 DEF IInv, InScreen
    <3>2. k # 0
      BY <1>a, <2>1, <3>1, Sizes
    <3> DEFINE m == k - 1
    <3>3. m \in Nat /\ k = m + 1
      BY <3>2
    <3> HIDE DEF m
    <3>4. ScreenWidth * (m + 1) = ScreenWidth * m + ScreenWidth /\ ScreenWidth * m \in Nat
      BY <1>a, <3>3, Sizes, NextMultiple
    <3>5. reg' = Original(current) + ScreenWidth * m
      BY <1>a, <2>1, <2>4, <3>3, <3>4, Sizes DEF Scrolled
    <3>6. reg' + ScreenSize < End(current) + 2 * ScreenWidth
      BY <1>a, <2>2, <2>4, Sizes DEF Scrolled, StartPlace
    <3> QED BY <3>3, <3>5, <3>6 DEF StartPlace
  <2> QED BY <2>3, <2>4 DEF Direction
<1>c. reg' \in Nat
  BY <1>a, <1>b, StartsInMemory
<1>1. Places'
  BY PlacesKept DEF IInv, LoadStart, Still, Goto, Wrapped, InLoop
<1>2. Typed'
  BY <1>c DEF IInv, Typed, LoadStart, Still, Goto
<1>3. InOut'
  BY DEF InOut, LoadStart, Goto
<1>4. InScreen'
  BY <1>a, <1>b DEF InScreen, StartPlace
<1>5. InFlushing'
  BY DEF IInv, Typed, InFlushing, LoadStart, Still, Goto
<1>6. Shown'
  BY ShownKept DEF IInv, Steady, LoadStart, Still, Goto
<1>7. Text'
  BY NothingWritten DEF LoadStart
<1> QED BY <1>1, <1>2, <1>3, <1>4, <1>5, <1>6, <1>7 DEF IInv

\* The screen has moved.
LEMMA StoreStartInv == IInv /\ StoreStart => IInv'
<1> SUFFICES ASSUME IInv, StoreStart PROVE IInv'
  OBVIOUS
<1>a. /\ StartPlace(current, reg) /\ current \in ConsoleNr /\ reg \in Nat
      /\ start' = [start EXCEPT ![current] = reg] /\ cursor' = cursor
  BY DEF IInv, Typed, InScreen, StoreStart, Goto
<1>1. Places'
  <2>1. start' \in [ConsoleNr -> Nat]
    BY <1>a DEF IInv, Places
  <2>2. \A c \in ConsoleNr : StartPlace(c, start'[c])
    BY <1>a, Zenon DEF IInv, Places
  <2>3. Wrapped => Wrapped'
    BY <1>a DEF Wrapped, InLoop, StoreStart, Still, Goto
  <2>4. \A c \in ConsoleNr : CursorPlace(c, cursor'[c]) \/ (c = 0 /\ Wrapped')
    BY <1>a, <2>3, Zenon DEF IInv, Places
  <2> QED BY <1>a, <2>1, <2>2, <2>4, Zenon DEF IInv, Places
<1>2. Typed'
  BY DEF IInv, Typed, StoreStart, Still, Goto
<1>3. InOut'
  BY DEF InOut, StoreStart, Goto
<1>4. InScreen'
  BY DEF InScreen, StoreStart, Goto
<1>5. InFlushing'
  BY DEF IInv, Typed, InFlushing, StoreStart, Still, Goto
<1>6. Shown'
  BY DEF IInv, Typed, Shown, Steady, StoreStart, Still, Goto
<1>7. Text'
  BY NothingWritten DEF StoreStart
<1> QED BY <1>1, <1>2, <1>3, <1>4, <1>5, <1>6, <1>7 DEF IInv

\* Another console is selected.
LEMMA SelectConsoleInv == IInv /\ (\E c \in ConsoleNr : SelectConsole(c)) => IInv'
<1> SUFFICES ASSUME IInv, NEW d \in ConsoleNr, SelectConsole(d) PROVE IInv'
  OBVIOUS
<1>1. Places'
  <2>1. ~InLoop
    BY DEF InLoop, SelectConsole, Goto
  <2> QED BY <2>1, Unwrapped DEF IInv, Places, SelectConsole, screen
<1>2. Typed'
  BY DEF IInv, Typed, SelectConsole, Goto
<1>3. InOut'
  BY DEF InOut, SelectConsole, Goto
<1>4. InScreen'
  BY DEF InScreen, SelectConsole, Goto
<1>5. InFlushing'
  BY DEF IInv, Typed, InFlushing, SelectConsole, Still, Goto
<1>6. Shown'
  BY DEF IInv, Typed, Shown, Steady, SelectConsole, Still, Goto
<1>7. Text'
  BY NothingWritten DEF SelectConsole
<1> QED BY <1>1, <1>2, <1>3, <1>4, <1>5, <1>6, <1>7 DEF IInv

\* flush reads the cursor for set_cursor.
LEMMA FlushInv == IInv /\ Flush => IInv'
<1> SUFFICES ASSUME IInv, Flush PROVE IInv'
  OBVIOUS
<1>a. /\ current \in ConsoleNr /\ current' = current /\ cursor' = cursor /\ back' = back
      /\ reg' = cursor[current] /\ cursor[current] \in 0 .. Word - 1
      /\ pc = "flush" /\ pc' = "set_cursor" /\ overtaken' = FALSE
  BY DEF IInv, Typed, Places, Flush, Goto, screen
<1>b. back = "loop" => CursorPlace(current, cursor[current])
  BY <1>a, Unwrapped DEF IInv, InLoop
<1>c. reg' \in Nat
  <2>1. Word \in Nat
    BY ConsoleAssumption
  <2> QED BY <1>a, <2>1
<1>1. Places'
  BY PlacesKept DEF IInv, Flush, Still, Goto, Wrapped, InLoop
<1>2. Typed'
  BY <1>c DEF IInv, Typed, Flush, Goto
<1>3. InOut'
  BY DEF InOut, Flush, Goto
<1>4. InScreen'
  BY DEF InScreen, Flush, Goto
<1>5. InFlushing'
  BY <1>a, <1>b DEF InFlushing
<1>6. Shown'
  BY DEF IInv, Typed, Shown, Steady, Flush, Still, Goto
<1>7. Text'
  BY NothingWritten DEF Flush
<1> QED BY <1>1, <1>2, <1>3, <1>4, <1>5, <1>6, <1>7 DEF IInv

\* The cursor is written to the controller.
LEMMA SetCursorInv == IInv /\ SetCursor => IInv'
<1> SUFFICES ASSUME IInv, SetCursor PROVE IInv'
  OBVIOUS
<1>a. /\ current \in ConsoleNr /\ current' = current /\ back' = back
      /\ cursor' = cursor /\ start' = start /\ overtaken' = overtaken
      /\ pc = "set_cursor" /\ pc' = "set_start" /\ reg' = start[current]
      /\ crt' = [crt EXCEPT !.cursor = reg] /\ crt \in [cursor : 0 .. Word - 1, start : Nat]
      /\ StartPlace(current, start[current]) /\ start[current] \in Nat
  BY DEF IInv, Typed, Places, SetCursor, Goto, Still, screen
<1>b. /\ reg \in 0 .. Word - 1
      /\ back = "loop" => CursorPlace(current, reg)
      /\ IF overtaken THEN current = 0 ELSE reg = cursor[current]
  BY <1>a DEF IInv, InFlushing
<1>c. crt' \in [cursor : 0 .. Word - 1, start : Nat] /\ crt'.cursor = reg
  BY <1>a, <1>b
<1>1. Places'
  BY PlacesKept DEF IInv, SetCursor, Still, Goto, Wrapped, InLoop
<1>2. Typed'
  BY <1>a, <1>c DEF IInv, Typed, SetCursor, Still
<1>3. InOut'
  BY DEF InOut, SetCursor, Goto
<1>4. InScreen'
  BY DEF InScreen, SetCursor, Goto
<1>5. InFlushing'
  BY <1>a, <1>b, <1>c DEF InFlushing
<1>6. Shown'
  BY DEF IInv, Typed, Shown, Steady, SetCursor, Still, Goto
<1>7. Text'
  BY NothingWritten DEF SetCursor
<1> QED BY <1>1, <1>2, <1>3, <1>4, <1>5, <1>6, <1>7 DEF IInv

\* The start of the screen is written to the controller.
LEMMA SetVideoStartAddrInv == IInv /\ SetVideoStartAddr => IInv'
<1> SUFFICES ASSUME IInv, SetVideoStartAddr PROVE IInv'
  OBVIOUS
<1>1. Places'
  BY PlacesKept DEF IInv, SetVideoStartAddr, Still, Goto, Wrapped, InLoop
<1>2. Typed'
  BY DEF IInv, Typed, SetVideoStartAddr, Still, Goto, Char
<1>3. InOut'
  BY DEF IInv, Typed, InOut, SetVideoStartAddr, Goto
<1>4. InScreen'
  BY DEF IInv, Typed, InScreen, SetVideoStartAddr, Goto
<1>5. InFlushing'
  BY DEF IInv, Typed, InFlushing, SetVideoStartAddr, Still, Goto
<1>6. Shown'
  <2> SUFFICES ASSUME Steady' PROVE Shown'
    BY DEF Shown
  <2>1. /\ current' = current /\ cursor' = cursor /\ start' = start /\ overtaken' = overtaken
        /\ pc = "set_start" /\ pc' = back /\ back \in {"loop", "while"}
        /\ crt' = [crt EXCEPT !.start = reg] /\ crt \in [cursor : 0 .. Word - 1, start : Nat]
    BY DEF IInv, Typed, SetVideoStartAddr, Still, Goto, screen
  <2>2. back = "loop"
    BY <2>1 DEF Steady
  <2>3. crt'.cursor = crt.cursor /\ crt'.start = reg
    BY <2>1
  <2> QED BY <2>1, <2>2, <2>3 DEF IInv, InFlushing, Shown
<1>7. Text'
  BY NothingWritten DEF SetVideoStartAddr
<1> QED BY <1>1, <1>2, <1>3, <1>4, <1>5, <1>6, <1>7 DEF IInv

\* The cell is written, and the cursor read for its update.
LEMMA LoadCursorInv == IInv /\ LoadCursor => IInv'
<1> SUFFICES ASSUME IInv, LoadCursor PROVE IInv'
  OBVIOUS
<1>a. /\ current \in ConsoleNr /\ ~InLoop
      /\ pc' = "store" /\ current' = current /\ job' = job /\ p_vmem' = p_vmem
      /\ cursor' = cursor
      /\ job \in Char /\ CursorPlace(current, p_vmem)
      /\ current # 0 => p_vmem = cursor[current]
      /\ job # "backspace" => cursor[current] < End(current)
      /\ current # 0 => Fits(current, job, cursor[current])
      /\ reg' = Moved(current, job, cursor[current])
  BY Zenon DEF IInv, Typed, InOut, InLoop, LoadCursor, Goto, Still, screen
<1>b. CursorPlace(current, cursor[current]) /\ (current # 0 => cursor[current] < End(current))
  BY <1>a, Unwrapped DEF IInv, Places
<1>c. /\ CursorPlace(current, reg') \/ (current = 0 /\ reg' = Word - 1)
      /\ current # 0 => reg' < End(current)
      /\ current # 0 /\ job = "backspace" => Original(current) < p_vmem
  <2>1. CASE job = "backspace"
    <3>1. /\ Original(current) \in Nat /\ End(current) \in Nat
          /\ cursor[current] \in Nat /\ Original(current) <= cursor[current]
      BY <1>a, <1>b, Sizes DEF CursorPlace
    <3>2. current # 0 => Original(current) < cursor[current]
      BY <1>a, <2>1, <3>1 DEF Fits
    <3>3. CASE Original(current) < cursor[current]
      <4>1. reg' = cursor[current] - 1 /\ CursorPlace(current, reg')
        BY <1>a, <1>b, <2>1, <3>3, Backward
      <4> QED BY <1>a, <1>b, <3>1, <3>2, <4>1
    <3>4. CASE Original(current) = cursor[current]
      <4>1. current = 0
        BY <3>1, <3>2, <3>4
      <4>2. reg' = Word - 1
        BY <1>a, <1>b, <2>1, <3>4, <4>1, Backward
      <4> QED BY <4>1, <4>2
    <3> QED BY <3>1, <3>3, <3>4
  <2>2. CASE job # "backspace"
    BY <1>a, <1>b, <2>2, Forward DEF Char
  <2> QED BY <2>1, <2>2
<1>d. reg' \in Nat
  <2>1. Word \in Nat \ {0, 1}
    BY <1>a, Words
  <2> QED BY <1>c, <2>1 DEF CursorPlace
<1>1. Places'
  BY PlacesKept DEF IInv, LoadCursor, Still, Goto, Wrapped, InLoop
<1>2. Typed'
  BY <1>d DEF IInv, Typed, LoadCursor, Still, Goto
<1>3. InOut'
  BY <1>a, <1>c DEF InOut
<1>4. InScreen'
  BY DEF InScreen, LoadCursor, Goto
<1>5. InFlushing'
  BY DEF IInv, Typed, InFlushing, LoadCursor, Still, Goto
<1>6. Shown'
  BY ShownKept DEF IInv, Steady, LoadCursor, Still, Goto
<1>7. Text'
  <2>1. CASE job # "char"
    <3>1. cell' = NoCell
      BY <2>1 DEF LoadCursor
    <3> QED BY <3>1, NothingWritten
  <2>2. CASE job = "char"
    <3>1. cell' = [console |-> current, at |-> p_vmem, what |-> "char"]
      BY <2>2 DEF LoadCursor
    <3>2. p_vmem \in Nat /\ Original(current) <= p_vmem /\ p_vmem <= LastLineEnd(current)
      BY <1>a DEF CursorPlace
    <3>3. current # 0 => p_vmem < End(current)
      BY <1>a, <1>b
    <3> QED BY <1>a, <3>1, <3>2, <3>3, Sizes DEF Text, TextInMemory, Char
  <2> QED BY <2>1, <2>2
<1> QED BY <1>1, <1>2, <1>3, <1>4, <1>5, <1>6, <1>7 DEF IInv

\* The cursor gets the value computed from what was read.
LEMMA StoreCursorInv == IInv /\ StoreCursor => IInv'
<1> SUFFICES ASSUME IInv, StoreCursor PROVE IInv'
  OBVIOUS
<1>a. /\ current \in ConsoleNr /\ pc = "store" /\ pc' = "while" /\ current' = current
      /\ CursorPlace(current, reg) \/ (current = 0 /\ reg = Word - 1)
      /\ current # 0 => reg < End(current)
      /\ current # 0 /\ job = "backspace" => Original(current) < p_vmem
      /\ current # 0 => p_vmem = cursor[current]
      /\ CursorPlace(current, p_vmem)
      /\ cursor' = [cursor EXCEPT ![current] = reg] /\ start' = start
  BY DEF IInv, Typed, InOut, StoreCursor, Goto, Still
<1>b. \A c \in ConsoleNr : CursorPlace(c, cursor[c])
  BY <1>a, Unwrapped DEF IInv, InLoop
<1>c. reg \in 0 .. Word - 1
  <2>1. Word \in Nat \ {0, 1}
    BY <1>a, Words
  <2> QED BY <1>a, <2>1, WithinWord
<1>1. Places'
  <2>1. cursor' \in [ConsoleNr -> 0 .. Word - 1]
    BY <1>a, <1>c DEF IInv, Places
  <2>2. \A c \in ConsoleNr : cursor'[c] = IF c = current THEN reg ELSE cursor[c]
    BY <1>a DEF IInv, Places
  <2>3. reg = Word - 1 /\ current = 0 => Wrapped'
    BY <1>a, <2>2 DEF Wrapped, InLoop
  <2>4. \A c \in ConsoleNr : CursorPlace(c, cursor'[c]) \/ (c = 0 /\ Wrapped')
    BY <1>a, <1>b, <2>2, <2>3, Zenon
  <2>5. \A c \in ConsoleNr \ {0} : cursor'[c] < End(c)
    BY <1>a, <2>2 DEF IInv, Places
  <2> QED BY <1>a, <2>1, <2>4, <2>5, Zenon DEF IInv, Places
<1>2. Typed'
  BY DEF IInv, Typed, StoreCursor, Still, Goto
<1>3. InOut'
  BY DEF InOut, StoreCursor, Goto
<1>4. InScreen'
  BY DEF InScreen, StoreCursor, Goto
<1>5. InFlushing'
  BY DEF IInv, Typed, InFlushing, StoreCursor, Still, Goto
<1>6. Shown'
  BY DEF IInv, Typed, Shown, Steady, StoreCursor, Still, Goto
<1>7. Text'
  <2>1. CASE job # "backspace"
    <3>1. cell' = NoCell
      BY <2>1 DEF StoreCursor
    <3> QED BY <3>1, NothingWritten
  <2>2. CASE job = "backspace"
    <3>1. cell' = [console |-> current, at |-> p_vmem - 1, what |-> "backspace"]
      BY <2>2 DEF StoreCursor
    <3>2. p_vmem \in Nat /\ Original(current) <= p_vmem /\ p_vmem <= LastLineEnd(current)
      BY <1>a DEF CursorPlace
    <3>3. current # 0 => Original(current) < p_vmem /\ p_vmem < End(current)
      BY <1>a, <2>2 DEF IInv, Places
    <3> QED BY <1>a, <3>1, <3>2, <3>3, Sizes DEF Text, TextInMemory, Char
  <2> QED BY <2>1, <2>2
<1> QED BY <1>1, <1>2, <1>3, <1>4, <1>5, <1>6, <1>7 DEF IInv

\* A stuttering step changes none of it.
LEMMA StutterInv == IInv /\ UNCHANGED vars => IInv'
BY DEF IInv, Places, Wrapped, InLoop, Typed, InOut, InScreen, InFlushing, Shown, Steady,
    Text, TextInMemory, Direction, vars, screen, tty

-----------------------------------------------------------------------------
(* The theorems *)

\* The inductive invariant of the consoles: where everything is, and what TTY holds at
\* each place of out_char, scroll_screen and flush.
THEOREM Invariant == Spec => []IInv
<1>1. IInv /\ [Next]_vars => IInv'
  BY PrintXInv, OutCharInv, SwitchInv, LoadCursorInv, StoreCursorInv, WhileInv,
        ScrollKeyInv, ScrollInv, LoadStartInv, StoreStartInv, SelectConsoleInv, FlushInv,
      SetCursorInv, SetVideoStartAddrInv, StutterInv DEF Next, TtyStep, InOutChar,
      InScroll, InFlush
<1> QED BY <1>1, InitInv, PTL DEF Spec

\* The consoles and what TTY holds keep their types.
THEOREM TypeCorrect == Spec => []TypeOK
<1>1. IInv => TypeOK
  BY DEF IInv, Places, Typed, Text, TypeOK
<1> QED BY <1>1, Invariant, PTL

\* Whoever prints what between TTY's steps, cursor and screen leave a console's memory by
\* no more than the line it is cut off in, for consoles, screens and lines of any size; or
\* TTY's backspace, overtaken by a printed one, has wrapped the cursor of console 0, and
\* TTY is in the loop of out_char that does not end.
THEOREM StaysInMemory == Spec => []PlacesInMemory
<1>1. IInv => PlacesInMemory
  <2> SUFFICES ASSUME IInv, NEW c \in ConsoleNr
               PROVE  /\ \/ Original(c) <= cursor[c] /\ cursor[c] <= LastLineEnd(c)
                         \/ c = 0 /\ Wrapped
                      /\ Original(c) <= start[c] /\ (start[c] - Original(c)) % ScreenWidth = 0
                      /\ start[c] + ScreenSize < End(c) + 2 * ScreenWidth
    BY DEF PlacesInMemory
  <2>1. (CursorPlace(c, cursor[c]) \/ (c = 0 /\ Wrapped)) /\ StartPlace(c, start[c])
    BY DEF IInv, Places
  <2>2. Original(c) <= start[c] /\ (start[c] - Original(c)) % ScreenWidth = 0
    BY <2>1, StartsInMemory
  <2> QED BY <2>1, <2>2 DEF CursorPlace, StartPlace
<1> QED BY <1>1, Invariant, PTL

\* On a console with one writer every cell that out_char writes is in the console's
\* memory; on console 0, printed backspaces included, no cell is further from it than its
\* last line's end or the cell before it (two cells, in the call that never ends).
THEOREM TextStays == Spec => []TextInMemory
<1>1. IInv => TextInMemory
  BY DEF IInv, Text
<1> QED BY <1>1, Invariant, PTL

\* On a console with one writer the tests of out_char keep the cursor in the memory,
\* and its loop can always bring it into view.
THEOREM OneWriterStays == Spec => []OneWriterInside
<1>1. IInv => OneWriterInside
  <2> SUFFICES ASSUME IInv, NEW c \in ConsoleNr \ {0}
               PROVE  cursor[c] < End(c) /\ ~Stuck(c)
    BY DEF OneWriterInside
  <2>1. /\ cursor[c] < End(c) /\ CursorPlace(c, cursor[c]) /\ start[c] \in Nat
    BY DEF IInv, Places
  <2>2. cursor[c] \in Nat
    BY <2>1 DEF CursorPlace
  <2> QED BY <2>1, <2>2, Sizes DEF Stuck, Below, CanScroll
<1> QED BY <1>1, Invariant, PTL

\* Between TTY's flushes the controller has the cursor and start of the console that is
\* selected; where a process printed on it while TTY was inside its flush, at least a
\* place of that console.
THEOREM CurrentShown == Spec => []ShowsCurrent
<1>1. IInv => ShowsCurrent
  <2> SUFFICES ASSUME IInv, Steady
               PROVE  IF overtaken
                      THEN /\ current = 0
                           /\ crt.cursor \in Original(0) .. LastLineEnd(0)
                           /\ crt.start \in Original(0) .. LastLineEnd(0)
                      ELSE crt = [cursor |-> cursor[current], start |-> start[current]]
    BY DEF ShowsCurrent
  <2>1. /\ current \in ConsoleNr /\ CursorPlace(current, crt.cursor)
        /\ StartPlace(current, crt.start)
        /\ IF overtaken THEN current = 0
           ELSE crt.cursor = cursor[current] /\ crt.start = start[current]
    BY DEF IInv, Typed, Shown
  <2>2. CASE overtaken
    <3>1. current = 0
      BY <2>1, <2>2
    <3>2. /\ crt.start \in Nat
          /\ Original(0) <= crt.start /\ crt.start <= LastLineEnd(0)
      BY <2>1, <3>1, StartsInMemory
    <3> QED BY <2>1, <2>2, <3>1, <3>2, Sizes DEF CursorPlace
  <2>3. CASE ~overtaken
    <3>1. crt \in [cursor : 0 .. Word - 1, start : Nat]
      BY DEF IInv, Typed
    <3>2. crt = [cursor |-> crt.cursor, start |-> crt.start]
      BY <3>1
    <3> QED BY <2>1, <2>3, <3>2
  <2> QED BY <2>2, <2>3
<1> QED BY <1>1, Invariant, PTL
=============================================================================
