------------------------------- MODULE Console -------------------------------
(***************************************************************************)
(* The consoles of src/kernel/console.c and their two writers: TTY, which  *)
(* echoes keys, scrolls and selects consoles, and syscall_printx, by which *)
(* every other process prints.  TTY is a process: the clock may take the   *)
(* processor from it between any two accesses to the console, and other    *)
(* processes then print, backspaces included.  A kernel call is not        *)
(* preempted, so a character of syscall_printx is one step.  All processes *)
(* have nr_tty = 0 (main.c), so console 0 is the one with two writers.     *)
(***************************************************************************)
EXTENDS Integers

CONSTANTS
    NrConsoles,     \* NR_CONSOLES
    VmemLimit,      \* vmem_limit, the cells of one console
    ScreenSize,     \* SCREEN_SIZE, the cells that are shown
    ScreenWidth,    \* SCREEN_WIDTH
    BootText,       \* where the boot messages may end (disp_pos / 2)
    Word            \* the number of values of a u32

ConsoleNr == 0 .. NrConsoles - 1

ASSUME ConsoleAssumption ==
    /\ NrConsoles \in Nat \ {0}
    /\ ScreenWidth \in Nat \ {0}
    /\ ScreenSize \in Nat /\ ScreenWidth <= ScreenSize
    /\ VmemLimit \in Nat /\ ScreenSize < VmemLimit
    /\ BootText \subseteq 0 .. ScreenSize - 1
    /\ Word \in Nat /\ 2 * (NrConsoles * VmemLimit + ScreenSize + ScreenWidth) <= Word

Char == {"char", "newline", "backspace"}
NoCell == [console |-> 0, at |-> -1, what |-> "nothing"]

VARIABLES
    cursor,     \* cursor of console_table[c]
    start,      \* current_start_addr of console_table[c]
    current,    \* nr_current_console
    crt,        \* the last arguments of set_cursor and set_video_start_addr, of which
                \* the CRT controller has the low 16 bits
    cell,       \* the cell of the video memory that the last step wrote
    hung,       \* syscall_printx loops for ever, and the machine with it
    overtaken,  \* (history) a process printed on the console shown while TTY, in its
                \* last flush, had read what the process changed
    \* TTY:
    pc,         \* its place in out_char, scroll_screen, flush
    back,       \* where flush returns to
    job,        \* the character or the direction it works on
    p_vmem,     \* out_char's p_vmem, as a cell
    reg         \* a value it has loaded and not yet stored
                \* (both are 0 where the code does not use them again)

tty == <<pc, back, job, p_vmem, reg>>
screen == <<cursor, start>>
vars == <<screen, current, crt, cell, hung, overtaken, tty>>

Original(c) == c * VmemLimit
End(c) == Original(c) + VmemLimit

\* init_screen for every TTY, then select_console(0)
Init ==
    /\ start = [c \in ConsoleNr |-> Original(c)]
    /\ \E d \in BootText : cursor = [c \in ConsoleNr |-> IF c = 0 THEN d ELSE Original(c)]
    /\ current = 0
    /\ crt = [cursor |-> cursor[0], start |-> start[0]]
    /\ cell = NoCell /\ hung = FALSE /\ overtaken = FALSE
    /\ pc = "loop" /\ back = "loop" /\ job = "char" /\ p_vmem = 0 /\ reg = 0

-----------------------------------------------------------------------------
(* What the statements of out_char and scroll_screen compute *)

\* mutant: `<=' for `<'
LooseFits(c, ch, pos) ==
    CASE ch = "newline"   -> pos < End(c) - ScreenWidth
      [] ch = "backspace" -> pos > Original(c)
      [] ch = "char"      -> pos <= End(c)

\* mutant: a newline needs room for one character only
NarrowFits(c, ch, pos) ==
    CASE ch = "newline"   -> pos < End(c)
      [] ch = "backspace" -> pos > Original(c)
      [] ch = "char"      -> pos < End(c) - 1

\* The tests of the three cases of the switch.
Fits(c, ch, pos) ==
    CASE ch = "newline"   -> pos < End(c) - ScreenWidth
      [] ch = "backspace" -> pos > Original(c)
      [] ch = "char"      -> pos < End(c) - 1

\* What is assigned to the cursor, a u32.  (Only a backspace can leave 0 .. Word - 1.)
Moved(c, ch, pos) ==
    CASE ch = "newline"   -> Original(c) + ScreenWidth * ((pos - Original(c)) \div ScreenWidth + 1)
      [] ch = "backspace" -> (pos - 1) % Word
      [] ch = "char"      -> pos + 1

\* The cell at VMEM_BASE + 2 * pos: the address wraps, so that the upper half of the
\* cursor's values are cells in front of the memory.
Cell(pos) == IF pos < Word \div 2 THEN pos ELSE pos - Word

\* The test of the loop that scrolls.
Below(pos, at) == pos >= at + ScreenSize

\* mutant: SCREEN_UP is not tested
UpAnyway(c, dir, at) ==
    CASE dir = "up"   -> TRUE
      [] dir = "down" -> at + ScreenSize < End(c)

\* mutant: a line too careful
HeedsWidth(c, dir, at) ==
    CASE dir = "up"   -> at > Original(c)
      [] dir = "down" -> at + ScreenSize + ScreenWidth < End(c)

\* The tests of scroll_screen.
CanScroll(c, dir, at) ==
    CASE dir = "up"   -> at > Original(c)
      [] dir = "down" -> at + ScreenSize < End(c)

Scrolled(dir, at) == IF dir = "up" THEN at - ScreenWidth ELSE at + ScreenWidth

\* The loop of out_char cannot end: it scrolls a screen that does not move.
Stuck(c) == Below(cursor[c], start[c]) /\ ~CanScroll(c, "down", start[c])

\* The loop leaves a screen that begins at s after n rounds: it shows the cursor, or
\* cannot move.
StopsAfter(c, pos, s, n) ==
    LET GoesOn(k) == Below(pos, s + ScreenWidth * k) /\ CanScroll(c, "down", s + ScreenWidth * k)
    IN  ~GoesOn(n) /\ \A k \in 0 .. n - 1 : GoesOn(k)

-----------------------------------------------------------------------------
(* syscall_printx *)

AnyConsole(c) == TRUE       \* mutant: out_char flushes a console that is not shown
IsCurrent(c) == c = current

\* One character of a string, with out_char from beginning to end.
PrintX(ch) ==
    /\ ~hung
    /\ \E n \in 0 .. VmemLimit :
       LET fits == Fits(0, ch, cursor[0])
           to   == IF fits THEN Moved(0, ch, cursor[0]) ELSE cursor[0]
           at   == start[0] + ScreenWidth * n
       IN  /\ StopsAfter(0, to, start[0], n)
           /\ cursor' = [cursor EXCEPT ![0] = to]
           /\ start' = [start EXCEPT ![0] = at]
           /\ cell' = CASE fits /\ ch = "char" ->
                            [console |-> 0, at |-> Cell(cursor[0]), what |-> ch]
                        [] fits /\ ch = "backspace" ->
                            [console |-> 0, at |-> Cell(cursor[0]) - 1, what |-> ch]
                        [] OTHER -> NoCell
           /\ crt' = IF IsCurrent(0) THEN [cursor |-> to, start |-> at] ELSE crt
           /\ hung' = Below(to, at)
    /\ overtaken' = IF current = 0 THEN pc \in {"set_cursor", "set_start"} ELSE overtaken
    /\ UNCHANGED <<current, tty>>

-----------------------------------------------------------------------------
(* TTY *)

Goto(from, to) == ~hung /\ pc = from /\ pc' = to
Still == UNCHANGED <<current, hung, overtaken>>

\* out_char: p_vmem is computed from the cursor before anything is tested.
OutChar ==
    /\ Goto("loop", "switch")
    /\ job' \in Char
    /\ p_vmem' = Cell(cursor[current])
    /\ cell' = NoCell
    /\ Still /\ UNCHANGED <<screen, crt, back, reg>>

Switch ==
    /\ Goto("switch", IF Fits(current, job, cursor[current]) THEN "load" ELSE "while")
    /\ p_vmem' = IF pc' = "load" THEN p_vmem ELSE 0
    /\ cell' = NoCell
    /\ Still /\ UNCHANGED <<screen, crt, back, job, reg>>

\* The cursor is read again, and stored in another instruction.
LoadCursor ==
    /\ Goto("load", "store")
    /\ reg' = Moved(current, job, cursor[current])
    /\ cell' = IF job = "char" THEN [console |-> current, at |-> p_vmem, what |-> job] ELSE NoCell
    /\ Still /\ UNCHANGED <<screen, crt, back, job, p_vmem>>

StoreCursor ==
    /\ Goto("store", "while")
    /\ cursor' = [cursor EXCEPT ![current] = reg]
    /\ p_vmem' = 0 /\ reg' = 0
    /\ cell' = IF job = "backspace"
               THEN [console |-> current, at |-> p_vmem - 1, what |-> job]
               ELSE NoCell
    /\ Still /\ UNCHANGED <<start, crt, back, job>>

\* while (cursor >= current_start_addr + SCREEN_SIZE) scroll_screen(...); flush
While ==
    /\ \/ Below(cursor[current], start[current]) /\ Goto("while", "scroll") /\ back' = "while"
       \/ ~Below(cursor[current], start[current]) /\ Goto("while", "flush") /\ back' = "loop"
    /\ cell' = NoCell
    /\ Still /\ UNCHANGED <<screen, crt, job, p_vmem, reg>>

\* Shift with Up or Down (in_process)
ScrollKey ==
    /\ Goto("loop", "scroll")
    /\ job' \in {"up", "down"}
    /\ back' = "loop"
    /\ cell' = NoCell
    /\ Still /\ UNCHANGED <<screen, crt, p_vmem, reg>>

Upwards == "up"             \* mutant: the direction is not looked at
Direction == IF job = "up" THEN "up" ELSE "down"

\* scroll_screen: the test, the load and the store of current_start_addr
Scroll ==
    /\ Goto("scroll", IF CanScroll(current, Direction, start[current]) THEN "move" ELSE "flush")
    /\ cell' = NoCell
    /\ Still /\ UNCHANGED <<screen, crt, back, job, p_vmem, reg>>

LoadStart ==
    /\ Goto("move", "moved")
    /\ reg' = Scrolled(Direction, start[current])
    /\ cell' = NoCell
    /\ Still /\ UNCHANGED <<screen, crt, back, job, p_vmem>>

StoreStart ==
    /\ Goto("moved", "flush")
    /\ start' = [start EXCEPT ![current] = reg]
    /\ reg' = 0
    /\ cell' = NoCell
    /\ Still /\ UNCHANGED <<cursor, crt, back, job, p_vmem>>

\* Alt with a function key (in_process): select_console
SelectConsole(c) ==
    /\ Goto("loop", "flush")
    /\ current' = c
    /\ back' = "loop" /\ cell' = NoCell
    /\ UNCHANGED <<screen, crt, hung, overtaken, job, p_vmem, reg>>

\* flush: set_cursor and set_video_start_addr turn the interrupts off, but only
\* after the argument has been loaded.
Flush ==
    /\ Goto("flush", "set_cursor")
    /\ reg' = cursor[current]
    /\ cell' = NoCell
    /\ overtaken' = FALSE
    /\ UNCHANGED <<screen, current, crt, hung, back, job, p_vmem>>

SetCursor ==
    /\ Goto("set_cursor", "set_start")
    /\ crt' = [crt EXCEPT !.cursor = reg]
    /\ reg' = start[current]
    /\ cell' = NoCell
    /\ Still /\ UNCHANGED <<screen, back, job, p_vmem>>

SetVideoStartAddr ==
    /\ Goto("set_start", back)
    /\ crt' = [crt EXCEPT !.start = reg]
    /\ reg' = 0
    /\ job' = IF back = "loop" THEN "char" ELSE job
    /\ back' = "loop"
    /\ cell' = NoCell
    /\ Still /\ UNCHANGED <<screen, p_vmem>>

InOutChar == Switch \/ LoadCursor \/ StoreCursor \/ While
InScroll == Scroll \/ LoadStart \/ StoreStart
InFlush == Flush \/ SetCursor \/ SetVideoStartAddr
TtyStep == InOutChar \/ InScroll \/ InFlush

Next ==
    \/ \E ch \in Char : PrintX(ch)
    \/ OutChar \/ ScrollKey \/ \E c \in ConsoleNr : SelectConsole(c)
    \/ TtyStep

\* TTY gets the processor again and again (Schedule!NoStarvation); nobody need
\* type or print.
Spec == Init /\ [][Next]_vars /\ WF_vars(TtyStep)

-----------------------------------------------------------------------------
(* Properties *)

TypeOK ==
    /\ cursor \in [ConsoleNr -> 0 .. Word - 1] /\ start \in [ConsoleNr -> Nat]
    /\ current \in ConsoleNr
    /\ crt \in [cursor : 0 .. Word - 1, start : Nat]
    /\ cell \in [console : ConsoleNr, at : Int, what : Char \cup {"nothing"}]
    /\ hung \in BOOLEAN /\ overtaken \in BOOLEAN
    /\ pc \in {"loop", "switch", "load", "store", "while", "scroll", "move", "moved",
               "flush", "set_cursor", "set_start"}
    /\ back \in {"loop", "while"}
    /\ job \in Char \cup {"up", "down"}
    /\ p_vmem \in Nat /\ reg \in Nat

\* The end of the line that holds a console's last cell: 59 cells past the end,
\* with 5461 cells in lines of 80 (the cells there belong to the next console).
LastLineEnd(c) == Original(c) + ScreenWidth * ((VmemLimit - 1) \div ScreenWidth + 1)

\* TTY is in the loop that ends out_char.
InLoop ==
    \/ pc = "while"
    \/ back = "while" /\ pc \in {"scroll", "move", "moved", "flush", "set_cursor", "set_start"}

\* The cursor of console 0 has wrapped: to the last value of a u32, or, when a process
\* prints another backspace then, to the one before it, in a call that never ends.
Wrapped ==
    /\ InLoop /\ current = 0
    /\ \/ cursor[0] = Word - 1
       \/ cursor[0] = Word - 2 /\ hung

\* out_char and scroll_screen (console.c:19, :91) test a value that the other
\* writer may change before it is used.  Whatever is printed meanwhile, the
\* cursor stays in the lines that begin in its console's memory, or just behind
\* the last of them, and the screen begins at a line and shows less than two lines
\* of what lies behind that memory.  There is one way out: a backspace of TTY, tested on
\* console 0 and overtaken by printed ones that bring the cursor to 0, takes it to
\* 2^32 - 1 (console.c:32-34), and TTY then stays in the loop of console.c:51.
PlacesInMemory ==
    \A c \in ConsoleNr :
        /\ \/ Original(c) <= cursor[c] /\ cursor[c] <= LastLineEnd(c)
           \/ c = 0 /\ Wrapped
        /\ Original(c) <= start[c] /\ (start[c] - Original(c)) % ScreenWidth = 0
        /\ start[c] + ScreenSize < End(c) + 2 * ScreenWidth

\* out_char writes through p_vmem, computed before the test (console.c:19).  On a
\* console with one writer every cell it writes is in the console's memory.  On console
\* 0, where printed backspaces may make TTY's test pass after p_vmem was computed, and
\* printed characters or backspaces move the cursor under its backspace, a character
\* lands at most at the end of the memory's last line, and an erased cell in its lines
\* or the one cell before them (two, in the call of a wrapped cursor that never ends).
TextInMemory ==
    LET c == cell.console IN
    /\ cell.what = "char" => cell.at \in Original(c) .. LastLineEnd(c)
    /\ cell.what = "backspace" =>
        \/ cell.at \in Original(c) - 1 .. LastLineEnd(c) - 1
        \/ hung /\ cell.at = Original(c) - 2
    /\ cell.what # "nothing" /\ c # 0 => cell.at \in Original(c) .. End(c) - 1

\* What the tests of out_char (console.c:24-47) are for: on a console with one writer
\* the cursor stays in its memory, so that the loop that scrolls (line 51) can always
\* bring it into view.  Only console 0, on which every process prints, loses that: by a
\* newline of TTY that passed its test before a process printed up to the last line, or
\* by a cursor that wrapped.
OneWriterInside ==
    \A c \in ConsoleNr \ {0} : cursor[c] < End(c) /\ ~Stuck(c)

\* TTY is neither in its flush nor between a change and the flush that shows it.
Steady ==
    \/ pc \in {"loop", "switch", "load", "store"}
    \/ back = "loop" /\ pc \in {"scroll", "move", "moved"}

\* When TTY is steady the controller has the very cursor and start of the console
\* selected: a process that prints on another console does not move them
\* (console.c:132), nor does a preempted flush leave the console before behind.  Only
\* where a process printed on the console shown while TTY was inside its flush may the
\* flush have put back the older cursor or start of that console (console.c:134-135).
ShowsCurrent ==
    Steady =>
        IF overtaken
        THEN /\ current = 0
             /\ crt.cursor \in Original(0) .. LastLineEnd(0)
             /\ crt.start \in Original(0) .. LastLineEnd(0)
        ELSE crt = [cursor |-> cursor[current], start |-> start[current]]

\* Every echo and scroll of TTY ends, however much others print in between,
\* unless the loop of out_char is stuck for good.
EchoEnds == pc = "switch" ~> (pc = "loop" \/ hung \/ []Stuck(current))
=============================================================================
