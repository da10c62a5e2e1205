------------------------------ MODULE Keyboard ------------------------------
(***************************************************************************)
(* From the keyboard to the console: keyboard_handler, which puts bytes in *)
(* the scan-code buffer, and the process TTY, which takes them out, decodes *)
(* them and acts on the keys (src/kernel/keyboard.c, src/kernel/tty.c,     *)
(* src/include/sys/keymap.h), with the keyboard itself as environment.     *)
(*                                                                         *)
(* The handler comes between any two steps of TTY that share the buffer    *)
(* with it; what only TTY touches is done in one step.  A character is     *)
(* named by its place in the keymap.                                       *)
(***************************************************************************)
EXTENDS Integers, Sequences

CONSTANTS
    KBD_IN_BYTES,   \* the length of kbd.buf
    TTY_IN_BYTES,   \* the length of a TTY's in_buf
    NR_CONSOLES,    \* consoles, and TTYs
    KeySets,        \* the sets of keys to try: see PlainKey, ExtKey
    MaxEvents       \* bound on the presses and releases

ASSUME KeyboardAssumption ==
    /\ KBD_IN_BYTES \in Nat \ {0} /\ TTY_IN_BYTES \in Nat \ {0}
    /\ NR_CONSOLES \in Nat \ {0} /\ MaxEvents \in Nat

VARIABLES
    buf, p_head, p_tail, count,     \* struct keyboard kbd; the pointers as indices
    int_enabled,    \* interrupts are on (disable_int, enable_int)
    pc,             \* where TTY is
    tty,            \* the TTY its loop is at
    got,            \* the bytes keyboard_read has taken
    mods,           \* those of lshift ... rctrl that are TRUE
    locks,          \* those of caps_lock, num_lock, scroll_lock that are TRUE
    current,        \* nr_current_console
    in_buf,         \* in_buf[t]: the keys put_key has stored for TTY t
    port_ack,       \* the last byte in the port KBD_DATA was KBD_ACK
    keys,           \* the keys that may be struck, one of KeySets
    sending,        \* the bytes the keyboard has yet to send for the last event
    acks,           \* the commands the keyboard has yet to acknowledge
    down,           \* the keys held down
    events,         \* presses and releases so far
    owed,           \* what the keys struck so far should still bring about
    aim, lit,       \* the console and the locks once all that is owed has happened
    lost,           \* how bytes were lost: "full", the buffer was; "early", they
                    \* came before it was set up
    strange         \* a key had another effect than the one owed

kbd == <<buf, p_head, p_tail, count>>
decoder == <<mods, locks, current, in_buf>>
keyboard == <<keys, sending, acks, down, events, aim, lit>>
vars == <<kbd, int_enabled, pc, tty, got, decoder, port_ack, keyboard, owed, lost, strange>>

Tty == 0 .. NR_CONSOLES - 1
ACK == \hFA

Init ==
    /\ buf = [i \in 0 .. KBD_IN_BYTES - 1 |-> 0]
    /\ p_head = 0 /\ p_tail = 0 /\ count = 0
    /\ int_enabled = TRUE
    /\ pc = "init count" /\ tty = 0 /\ got = <<>>
    /\ mods = {} /\ locks = {} /\ current = 0
    /\ in_buf = [t \in Tty |-> <<>>]
    /\ keys \in KeySets
    /\ port_ack = TRUE /\ sending = <<>> /\ acks = 0
    /\ down = {} /\ events = 0
    /\ owed = <<>> /\ aim = 0 /\ lit = {}
    /\ lost = {} /\ strange = FALSE

-----------------------------------------------------------------------------
(* The keymap *)

Named(name) == [name |-> name, row |-> 0, col |-> 0]
Char(row, col) == [name |-> "CHAR", row |-> row, col |-> col]
Fn(n) == [name |-> "F", row |-> n, col |-> 0]
NoKey == Named("NONE")

Letters == \h10 .. \h19 \cup \h1E .. \h26 \cup \h2C .. \h32
Printable ==
    \h02 .. \h0D \cup \h10 .. \h1B \cup \h1E .. \h29 \cup {\h2B}
        \cup \h2C .. \h35 \cup {\h37, \h39}

\* The keys of the keypad, on the rows 0x47 ... 0x53: what they are with
\* num_lock on and off.
PadOn ==
    <<Char(\h08, 0), Char(\h09, 0), Char(\h0A, 0), Char(\h0C, 0),
      Char(\h05, 0), Char(\h06, 0), Char(\h07, 0), Char(\h0D, 1),
      Char(\h02, 0), Char(\h03, 0), Char(\h04, 0), Char(\h0B, 0), Char(\h34, 0)>>
PadOff ==
    <<Named("HOME"), Named("UP"), Named("PAGEUP"), Char(\h0C, 0),
      Named("LEFT"), Named("PAD_MID"), Named("RIGHT"), Char(\h0D, 1),
      Named("END"), Named("DOWN"), Named("PAGEDOWN"), Named("INSERT"), Named("DELETE")>>
Pad(row) == [name |-> "PAD", row |-> row, col |-> 0]

\* The third column of the keymap, behind the prefix 0xE0
Extended(row) ==
    CASE row = \h1C -> Named("ENTER")           \* PAD_ENTER
      [] row = \h1D -> Named("RCTRL")
      [] row = \h35 -> Char(\h35, 0)            \* PAD_SLASH
      [] row = \h38 -> Named("RALT")
      [] row \in {\h5B, \h5C, \h5D} -> Named("GUI")
      [] row \in \h47 .. \h53 \ {\h4A, \h4C, \h4E} -> PadOff[row - \h46]
      [] OTHER -> NoKey

\* The first two columns
Basic(row, col) ==
    CASE row \in {\h37, \h39} -> Char(row, 0)
      [] row \in Printable \ {\h37, \h39} -> Char(row, col)
      [] row \in \h3B .. \h44 -> Fn(row - \h3B)
      [] row \in {\h57, \h58} -> Fn(row - \h4D)
      [] row \in \h47 .. \h53 -> IF col = 0 THEN Pad(row) ELSE NoKey
      [] row = \h01 -> Named("ESC")
      [] row = \h0E -> Named("BACKSPACE")
      [] row = \h0F -> Named("TAB")
      [] row = \h1C -> Named("ENTER")
      [] row = \h1D -> Named("LCTRL")
      [] row = \h2A -> Named("LSHIFT")
      [] row = \h36 -> Named("RSHIFT")
      [] row = \h38 -> Named("LALT")
      [] row = \h3A -> Named("CAPS_LOCK")
      [] row = \h45 -> Named("NUM_LOCK")
      [] row = \h46 -> Named("SCROLL_LOCK")
      [] OTHER -> NoKey

Modifiers == {"LSHIFT", "RSHIFT", "LCTRL", "RCTRL", "LALT", "RALT"}
Locks == {"CAPS_LOCK", "NUM_LOCK", "SCROLL_LOCK"}

\* keyrow[column]
KeyAt(row, ext, shift, caps) ==
    IF ext THEN Extended(row)
    ELSE Basic(row, IF shift # (caps /\ row \in Letters) THEN 1 ELSE 0)

\* The switch on the keypad keys
Translated(key, num) ==
    IF key.name # "PAD" THEN key
    ELSE (IF num THEN PadOn ELSE PadOff)[key.row - \h46]

\* What in_process does something about; a key of the value 0 is printed too.
HasEffect(key, shift, alt) ==
    \/ key.name \in {"CHAR", "NONE", "ENTER", "BACKSPACE"}
    \/ key.name \in {"UP", "DOWN"} /\ shift
    \/ key.name = "F" /\ alt

-----------------------------------------------------------------------------
(* The keyboard: an event, its bytes, and what it should bring about *)

\* A key is a row of the keymap and whether its scan code has the prefix 0xE0, or
\* one of the two with scan codes of their own.
PlainKey(row) == [row |-> row, ext |-> FALSE]
ExtKey(row) == [row |-> row, ext |-> TRUE]
PrintScreen == PlainKey(\h80)
Pause == PlainKey(\h81)

\* A row is a scan code, its prefix aside, and no key has one that begins like one of
\* the long codes: fake shifts (0xE0 0x2A, and 0x37 with the prefix) are left out.
IsKey(k) ==
    \/ k \in {PrintScreen, Pause}
    \/ /\ k \in [row : 0 .. \h7F, ext : BOOLEAN]
       /\ k.row \notin IF k.ext THEN {\h2A, \h37} ELSE {\h60, \h61}

ASSUME KeySetsAssumption == \A set \in KeySets : \A k \in set : IsKey(k)

PauseCode == <<\hE1, \h1D, \h45, \hE1, \h9D, \hC5>>
PrintMake == <<\hE0, \h2A, \hE0, \h37>>
PrintBreak == <<\hE0, \hB7, \hE0, \hAA>>

MakeCode(k) ==
    CASE k = Pause -> PauseCode
      [] k = PrintScreen -> PrintMake
      [] k.ext -> <<\hE0, k.row>>
      [] OTHER -> <<k.row>>
BreakCode(k) ==
    CASE k = Pause -> <<>>
      [] k = PrintScreen -> PrintBreak
      [] k.ext -> <<\hE0, k.row + \h80>>
      [] OTHER -> <<k.row + \h80>>

Holds(k) == k \in down
HoldsShift == Holds(PlainKey(\h2A)) \/ Holds(PlainKey(\h36))
HoldsAlt == Holds(PlainKey(\h38)) \/ Holds(ExtKey(\h38))

\* The key as it is on the keyboard, with the keys held and the lights lit.
Meant(k) ==
    IF k \in {Pause, PrintScreen} THEN Named("IGNORED")
    ELSE Translated(KeyAt(k.row, k.ext, HoldsShift, "CAPS_LOCK" \in lit),
                    "NUM_LOCK" \in lit)

\* One event at a time, each behind the answer to a command; none after a loss,
\* where it would show no more.
CanStrike == sending = <<>> /\ acks = 0 /\ events < MaxEvents /\ lost = {}

\* PrintScreen has other scan codes with a modifier held: those are left out.
Press(k) ==
    /\ CanStrike
    /\ k = PrintScreen => down = {}
    /\ LET key == Meant(k) IN
       /\ owed' = IF HasEffect(key, HoldsShift, HoldsAlt)
                  THEN Append(owed, [con |-> aim, key |-> key]) ELSE owed
       /\ aim' = IF key.name = "F" /\ HoldsAlt /\ key.row \in Tty THEN key.row ELSE aim
       /\ lit' = IF key.name \notin Locks THEN lit
                 ELSE IF key.name \in lit THEN lit \ {key.name} ELSE lit \cup {key.name}
    /\ sending' = MakeCode(k)
    /\ down' = IF k = Pause THEN down ELSE down \cup {k}
    /\ events' = events + 1
    /\ UNCHANGED <<kbd, int_enabled, pc, tty, got, decoder, port_ack, keys, acks, lost, strange>>

Release(k) ==
    /\ CanStrike
    /\ k \in down
    /\ sending' = BreakCode(k)
    /\ down' = down \ {k}
    /\ events' = events + 1
    /\ UNCHANGED <<kbd, int_enabled, pc, tty, got, decoder, port_ack, keys, acks, aim, lit,
                   owed, lost, strange>>

-----------------------------------------------------------------------------
(* keyboard_handler *)

NoWrap(i) == i + 1                          \* mutant: no turn at the end of buf
Wrap(i) == IF i + 1 = KBD_IN_BYTES THEN 0 ELSE i + 1

\* TTY has not set the buffer up yet: what comes now does not stay in it.
SettingUp == pc \in {"init count", "init tail", "init head"}

KeyboardHandler(scan_code) ==
    /\ int_enabled
    /\ port_ack' = (scan_code = ACK)
    /\ IF count < KBD_IN_BYTES
       THEN /\ buf' = [buf EXCEPT ![p_head] = scan_code]
            /\ p_head' = Wrap(p_head)
            /\ count' = count + 1
       ELSE UNCHANGED <<buf, p_head, count>>
    /\ lost' = lost \cup {why \in {"early", "full"} :
                         IF why = "early" THEN SettingUp ELSE count = KBD_IN_BYTES}
    /\ UNCHANGED <<p_tail, int_enabled, pc, tty, got, decoder, keys, down, events, aim,
                   lit, owed, strange>>

\* The keyboard sends a byte, and the handler takes it.
SendByte ==
    /\ sending # <<>>
    /\ sending' = Tail(sending)
    /\ KeyboardHandler(Head(sending))
    /\ UNCHANGED acks

\* The keyboard acknowledges a command, between the scan codes of two events.
SendAck ==
    /\ sending = <<>> /\ acks > 0
    /\ acks' = acks - 1
    /\ KeyboardHandler(ACK)
    /\ UNCHANGED sending

-----------------------------------------------------------------------------
(* init_keyboard and set_leds *)

Goto(l) == pc' = l /\ UNCHANGED <<tty, got>>

\* kbd.count = 0, kbd.p_tail = kbd.buf, kbd.p_head = kbd.p_tail; the flags are 0
\* already.
InitKeyboard ==
    /\ \/ pc = "init count" /\ count' = 0 /\ Goto("init tail")
          /\ UNCHANGED <<p_head, p_tail>>
       \/ pc = "init tail" /\ p_tail' = 0 /\ Goto("init head")
          /\ UNCHANGED <<p_head, count>>
       \/ pc = "init head" /\ p_head' = p_tail /\ Goto("leds")
          /\ UNCHANGED <<p_tail, count>>
    /\ UNCHANGED <<buf, int_enabled, decoder, port_ack, keyboard, owed, lost, strange>>

\* set_leds, with the two loops of kbd_ack.  keyboard_handler takes the ACK too,
\* and kbd_ack sees it for as long as no other byte comes.
SetLeds ==
    /\ \/ pc = "leds" /\ Goto("ack 1") /\ acks' = acks + 1
       \/ pc = "ack 1" /\ port_ack /\ Goto("ack 2") /\ acks' = acks + 1
       \/ pc = "ack 2" /\ port_ack /\ UNCHANGED acks
          /\ Goto(IF got = <<>> THEN "read" ELSE "write")   \* init_keyboard's, or a key's
    /\ UNCHANGED <<kbd, int_enabled, decoder, port_ack, keys, sending, down, events, aim, lit,
                   owed, lost, strange>>

-----------------------------------------------------------------------------
(* TTY's loop *)

\* The new owed and strange when the key has its effect on the console con.
Effect(con, key) ==
    /\ owed' = IF owed = <<>> THEN owed ELSE Tail(owed)
    /\ strange' = (strange \/ owed = <<>> \/ Head(owed) # [con |-> con, key |-> key])

\* tty_do_read, and the test at the head of keyboard_read
TtyDoRead ==
    /\ pc = "read"
    /\ pc' = IF tty = current /\ count > 0 THEN "get" ELSE "write"
    /\ got' = <<>>
    /\ UNCHANGED <<kbd, int_enabled, tty, decoder, port_ack, keyboard, owed, lost, strange>>

\* get_byte_from_kbdbuf: the wait, and what it does with interrupts off
TakeWithIntsOn == UNCHANGED int_enabled     \* mutant: no disable_int
DisableInt == int_enabled' = FALSE
GetByte ==
    /\ pc = "get" /\ count > 0
    /\ DisableInt
    /\ got' = Append(got, buf[p_tail])
    /\ p_tail' = Wrap(p_tail)
    /\ pc' = "got"
    /\ UNCHANGED <<buf, p_head, count, tty, decoder, port_ack, keyboard, owed, lost, strange>>

\* keyboard_read asks for another byte while those it has begin one of the three
\* long codes; every code that begins with 0xE0 has two bytes.
AllFour == Len(got) < 4 /\ got[1] = \hE0    \* mutant: every 0xE0 code has four
NeedsByte ==
    \E code \in {PauseCode, PrintMake, PrintBreak} :
        \E n \in 1 .. Len(code) - 1 : got = SubSeq(code, 1, n)

\* kbd.count--, enable_int
TakenByte ==
    /\ pc = "got"
    /\ count' = count - 1
    /\ int_enabled' = TRUE
    /\ Goto(IF NeedsByte THEN "get" ELSE "decode")
    /\ UNCHANGED <<buf, p_head, p_tail, decoder, port_ack, keyboard, owed, lost, strange>>

Whole == got \in {PauseCode, PrintMake, PrintBreak}
CodeE0 == got[1] = \hE0
ScanCode == IF CodeE0 THEN got[2] ELSE got[1]
AlwaysMake == TRUE                          \* mutant: FLAG_BREAK not tested
IsMake == ScanCode < \h80
Shifted(m) == m \cap {"LSHIFT", "RSHIFT"} # {}
Alted(m) == m \cap {"LALT", "RALT"} # {}

\* keyrow[column]
Key == KeyAt(ScanCode % \h80, CodeE0, Shifted(mods), "CAPS_LOCK" \in locks)

\* case LSHIFT: lshift = make, and so on
StickyMods ==                               \* mutant: a modifier is never released
    mods' = IF Key.name \in Modifiers THEN mods \cup {Key.name} ELSE mods
SetMods ==
    mods' = IF Key.name \notin Modifiers THEN mods
            ELSE IF IsMake THEN mods \cup {Key.name} ELSE mods \ {Key.name}

\* select_console
SelectAny(n) == current' = n                \* mutant: no test against NR_CONSOLES
SelectConsole(n) == current' = IF n \in Tty THEN n ELSE current

\* put_key
PutKey(key) ==
    in_buf' = IF Len(in_buf[tty]) < TTY_IN_BYTES
              THEN [in_buf EXCEPT ![tty] = Append(@, key)] ELSE in_buf

\* in_process, for a key that has been made
InProcess(key) ==
    IF ~HasEffect(key, Shifted(mods), Alted(mods))
    THEN UNCHANGED <<current, in_buf, owed, strange>>
    ELSE CASE key.name = "F" ->
                  SelectConsole(key.row) /\ Effect(tty, key) /\ UNCHANGED in_buf
           [] key.name \in {"UP", "DOWN"} ->        \* scroll_screen
                  Effect(tty, key) /\ UNCHANGED <<current, in_buf>>
           [] OTHER -> PutKey(key) /\ UNCHANGED <<current, owed, strange>>

\* The rest of keyboard_read
Decode ==
    /\ pc = "decode"
    /\ IF Whole
       THEN Goto("write") /\ UNCHANGED <<decoder, owed, strange>>
       ELSE /\ SetMods
            /\ IF IsMake /\ Key.name \in Locks
               THEN /\ locks' = IF Key.name \in locks THEN locks \ {Key.name}
                                ELSE locks \cup {Key.name}
                    /\ Goto("leds")
                    /\ UNCHANGED <<current, in_buf, owed, strange>>
               ELSE /\ Goto("write")
                    /\ UNCHANGED locks
                    /\ IF IsMake THEN InProcess(Translated(Key, "NUM_LOCK" \in locks))
                       ELSE UNCHANGED <<current, in_buf, owed, strange>>
    /\ UNCHANGED <<kbd, int_enabled, port_ack, keyboard, lost>>

\* tty_do_write, and the loop of sys_tty
TtyDoWrite ==
    /\ pc = "write"
    /\ IF in_buf[tty] = <<>> THEN UNCHANGED <<in_buf, owed, strange>>
       ELSE /\ in_buf' = [in_buf EXCEPT ![tty] = Tail(@)]
            /\ Effect(tty, Head(in_buf[tty]))
    /\ pc' = "read"
    /\ tty' = (tty + 1) % NR_CONSOLES
    /\ got' = <<>>
    /\ UNCHANGED <<kbd, int_enabled, mods, locks, current, port_ack, keyboard, lost>>

TtyStep ==
    InitKeyboard \/ SetLeds \/ TtyDoRead \/ GetByte \/ TakenByte \/ Decode \/ TtyDoWrite

Next ==
    \/ TtyStep
    \/ SendByte \/ SendAck
    \/ \E k \in keys : Press(k) \/ Release(k)

\* TTY gets the processor (Schedule), and the keyboard sends what it has to.
Fairness == WF_vars(TtyStep) /\ WF_vars(SendByte) /\ WF_vars(SendAck)

Spec == Init /\ [][Next]_vars /\ Fairness

-----------------------------------------------------------------------------
(* Properties *)

TypeOK ==
    /\ buf \in [0 .. KBD_IN_BYTES - 1 -> 0 .. 255]
    /\ p_head \in 0 .. KBD_IN_BYTES - 1 /\ p_tail \in 0 .. KBD_IN_BYTES - 1
    /\ count \in 0 .. KBD_IN_BYTES
    /\ int_enabled \in BOOLEAN
    /\ pc \in {"init count", "init tail", "init head", "leds", "ack 1", "ack 2", "read",
               "get", "got", "decode", "write"}
    /\ tty \in Tty /\ current \in Tty
    /\ got \in Seq(0 .. 255) /\ Len(got) <= 6
    /\ mods \subseteq Modifiers /\ locks \subseteq Locks
    /\ \A t \in Tty : Len(in_buf[t]) <= TTY_IN_BYTES
    /\ acks \in Nat

\* keyboard.h:118-120: p_head points to the next free place, p_tail to the next
\* byte to process, and count is the number of bytes in the buffer.  The code does
\* not keep it when a byte comes while init_keyboard runs in TTY.
CountIsBytes ==
    int_enabled /\ ~SettingUp =>
        p_head \in {p_tail + count, p_tail + count - KBD_IN_BYTES}

\* Once the buffer has been set up undisturbed, head, tail and count agree whenever
\* interrupts are on: what get_byte_from_kbdbuf does to them is never torn by
\* keyboard_handler (keyboard.c:55-64, 290-298), a full buffer included.
RingSound == "early" \notin lost => CountIsBytes

\* While no byte was lost, every key has the effect it had on the keyboard when it
\* was struck, on the console selected by the keys before it, in the order struck:
\* the modifiers and locks the decoder tracks are those of the bytes it has read,
\* not of the moment (keyboard.c:129-276, tty.c:44-94).
KeysFollow == lost = {} => ~strange

\* keyboard_read never waits for the rest of a code that does not come: TTY spins in
\* get_byte_from_kbdbuf (keyboard.c:286) with the keyboard silent only when a byte of
\* the code was lost.
SpinsOnlyAfterLoss ==
    pc = "get" /\ got # <<>> /\ count = 0 /\ sending = <<>> => lost # {}

\* kbd_ack waits for an ACK that a later byte has replaced in the port.
AckMissed == pc \in {"ack 1", "ack 2"} /\ acks = 0 /\ ~port_ack

\* Every key that should have an effect has it in the end, unless a byte was lost or
\* TTY hangs in kbd_ack.
KeysArrive == owed # <<>> ~> (owed = <<>> \/ lost # {} \/ AckMissed)
=============================================================================
