--------------------------- MODULE KeyboardProofs ---------------------------
(***************************************************************************)
(* Proofs about Keyboard, for every buffer length, every set of keys, any  *)
(* number of consoles and of events.                                       *)
(*                                                                         *)
(* RingInv is about the scan-code buffer alone.  FlightInv is about what   *)
(* the bytes mean: those that TTY has taken, those in the buffer and those *)
(* the keyboard is to send are one sequence, cut into codes; what each     *)
(* will make the decoder do, one after the other, leads from the decoder's *)
(* state to the one the keyboard is in, and is what the keys struck should *)
(* bring about.                                                            *)
(***************************************************************************)
EXTENDS Keyboard, SequenceTheorems, TLAPS

-----------------------------------------------------------------------------
(* The buffer *)

Places == 0 .. KBD_IN_BYTES - 1

Pcs == {"init count", "init tail", "init head", "leds", "ack 1", "ack 2", "read",
        "get", "got", "decode", "write"}

\* The part of TypeOK the buffer rests on
RingType ==
    /\ p_head \in Places /\ p_tail \in Places
    /\ count \in 0 .. KBD_IN_BYTES
    /\ pc \in Pcs
    /\ pc = "got" => count > 0

\* Interrupts are off while get_byte_from_kbdbuf has advanced p_tail and not counted
\* the byte yet.
IntsOffInGet == int_enabled => pc # "got"

\* The bytes between p_tail and p_head
InRing(n) == p_head \in {p_tail + n, p_tail + n - KBD_IN_BYTES}

\* What the buffer holds at each place of TTY's code
Ring ==
    "early" \notin lost =>
        /\ SettingUp => p_head = 0 /\ p_tail = 0 /\ count = 0
        /\ pc = "got" => InRing(count - 1)
        /\ ~SettingUp /\ pc # "got" => InRing(count)

RingInv == RingType /\ IntsOffInGet /\ Ring

-----------------------------------------------------------------------------
\* A pointer that is advanced stays in the buffer, one place on.
LEMMA WrapStays ==
    ASSUME NEW i \in Places
    PROVE  /\ Wrap(i) \in Places
           /\ Wrap(i) \in {i + 1, i + 1 - KBD_IN_BYTES}
BY KeyboardAssumption DEF Wrap, Places

\* kernel_main's call of init_keyboard has set the buffer up.
LEMMA InitRing == Init => RingInv
<1> SUFFICES ASSUME Init PROVE RingInv
  OBVIOUS
<1>1. p_head = 0 /\ p_tail = 0 /\ count = 0 /\ pc = "init count"
  BY DEF Init
<1>2. RingType
  <2>1. 0 \in Places /\ 0 \in 0 .. KBD_IN_BYTES
    BY KeyboardAssumption DEF Places
  <2> QED BY <1>1, <2>1 DEF RingType, Pcs
<1>3. IntsOffInGet
  BY <1>1 DEF IntsOffInGet
<1>4. Ring
  BY <1>1 DEF Ring, SettingUp
<1> QED BY <1>2, <1>3, <1>4 DEF RingInv

\* keyboard_handler comes only with interrupts on, and stores at most one byte.
LEMMA HandlerRing ==
    ASSUME RingInv, NEW b, KeyboardHandler(b)
    PROVE  RingInv'
<1>1. pc # "got" /\ UNCHANGED <<pc, p_tail, int_enabled>>
  BY DEF KeyboardHandler, RingInv, IntsOffInGet
<1>2. RingType'
  <2>1. CASE count < KBD_IN_BYTES
    BY <1>1, <2>1, WrapStays, KeyboardAssumption DEF KeyboardHandler, RingInv, RingType
  <2>2. CASE ~(count < KBD_IN_BYTES)
    BY <1>1, <2>2 DEF KeyboardHandler, RingInv, RingType
  <2> QED BY <2>1, <2>2
<1>3. IntsOffInGet'
  BY <1>1 DEF RingInv, IntsOffInGet
<1>4. Ring'
  <2> SUFFICES ASSUME "early" \notin lost' PROVE Ring'
    BY DEF Ring
  <2>1. ~SettingUp /\ "early" \notin lost
    BY DEF KeyboardHandler
  <2>2. InRing(count)
    BY <1>1, <2>1 DEF RingInv, Ring
  <2>3. ~SettingUp' /\ pc' # "got"
    BY <1>1, <2>1 DEF SettingUp
  <2>4. InRing(count)'
    <3>1. CASE count < KBD_IN_BYTES
      BY <1>1, <2>2, <3>1, WrapStays, KeyboardAssumption
         DEF KeyboardHandler, RingInv, RingType, InRing, Places, Wrap
    <3>2. CASE ~(count < KBD_IN_BYTES)
      BY <1>1, <2>2, <3>2 DEF KeyboardHandler, InRing
    <3> QED BY <3>1, <3>2
  <2> QED BY <2>3, <2>4 DEF Ring
<1> QED BY <1>2, <1>3, <1>4 DEF RingInv

\* get_byte_from_kbdbuf: p_tail first, then count, with interrupts off in between
LEMMA GetRing ==
    ASSUME RingInv, GetByte \/ TakenByte
    PROVE  RingInv'
<1>1. CASE GetByte
  <2>1. pc = "get" /\ pc' = "got" /\ ~int_enabled' /\ count > 0
        /\ p_tail' = Wrap(p_tail) /\ UNCHANGED <<p_head, count, lost>>
    BY <1>1 DEF GetByte, DisableInt
  <2>2. RingType' /\ IntsOffInGet'
    BY <2>1, WrapStays DEF RingInv, RingType, IntsOffInGet, Pcs
  <2>3. Ring'
    BY <2>1, WrapStays, KeyboardAssumption
       DEF RingInv, RingType, Ring, SettingUp, InRing, Places, Wrap
  <2> QED BY <2>2, <2>3 DEF RingInv
<1>2. CASE TakenByte
  <2>1. pc = "got" /\ pc' \in {"get", "decode"} /\ int_enabled' = TRUE
        /\ count' = count - 1 /\ UNCHANGED <<p_head, p_tail, lost>>
    BY <1>2 DEF TakenByte, Goto
  <2>2. IntsOffInGet'
    BY <2>1 DEF IntsOffInGet
  <2>3. Ring'
    BY <2>1 DEF RingInv, RingType, Ring, SettingUp, InRing
  <2>4. RingType'
    <3>1. count' \in 0 .. KBD_IN_BYTES
      BY <2>1, KeyboardAssumption DEF RingInv, RingType
    <3>2. p_head' \in Places' /\ p_tail' \in Places'
      BY <2>1 DEF RingInv, RingType, Places
    <3> QED BY <2>1, <3>1, <3>2 DEF RingType, Pcs
  <2> QED BY <2>2, <2>3, <2>4 DEF RingInv
<1> QED BY <1>1, <1>2

\* No other step touches the buffer, but for those that set it up.
LEMMA RingStep == RingInv /\ [Next]_vars => RingInv'
<1> SUFFICES ASSUME RingInv, [Next]_vars PROVE RingInv'
  OBVIOUS
<1> USE DEF RingInv
<1>1. ASSUME UNCHANGED <<p_head, p_tail, count, int_enabled, lost>>,
             pc \notin {"init count", "init tail", "init head", "got"},
             pc' \in Pcs \ {"init count", "init tail", "init head", "got"}
      PROVE  RingInv'
  BY <1>1 DEF RingType, IntsOffInGet, Ring, SettingUp, InRing
<1>2. ASSUME UNCHANGED <<p_head, p_tail, count, int_enabled, lost, pc>>
      PROVE  RingInv'
  BY <1>2 DEF RingType, IntsOffInGet, Ring, SettingUp, InRing
<1>3. CASE InitKeyboard
  <2>1. RingType'
    <3>1. 0 \in Places /\ 0 \in 0 .. KBD_IN_BYTES
      BY KeyboardAssumption DEF Places
    <3>2. p_head' \in Places /\ p_tail' \in Places /\ count' \in 0 .. KBD_IN_BYTES
      BY <1>3, <3>1 DEF InitKeyboard, RingType
    <3>3. pc' \in {"init tail", "init head", "leds"}
      BY <1>3 DEF InitKeyboard, Goto
    <3> QED BY <3>2, <3>3 DEF RingType, Pcs, Places
  <2>2. IntsOffInGet'
    BY <1>3 DEF InitKeyboard, Goto, IntsOffInGet
  <2>3. UNCHANGED lost /\ SettingUp /\ pc' \in {"init tail", "init head", "leds"}
    BY <1>3 DEF InitKeyboard, Goto, SettingUp
  <2>4. "early" \notin lost => p_head' = 0 /\ p_tail' = 0 /\ count' = 0
    BY <1>3, <2>3 DEF InitKeyboard, Ring
  <2>5. Ring'
    <3>1. "early" \notin lost => InRing(count)'
      BY <2>4 DEF InRing
    <3> QED BY <2>3, <2>4, <3>1 DEF Ring
  <2> QED BY <2>1, <2>2, <2>5
<1>4. CASE SetLeds
  BY <1>1, <1>4 DEF SetLeds, Goto, kbd, Pcs
<1>5. CASE TtyDoRead
  BY <1>1, <1>5 DEF TtyDoRead, kbd, Pcs
<1>6. CASE GetByte \/ TakenByte
  BY <1>6, GetRing
<1>7. CASE Decode
  <2>1. pc = "decode" /\ pc' \in {"write", "leds"}
        /\ UNCHANGED <<p_head, p_tail, count, int_enabled, lost>>
    BY <1>7 DEF Decode, Goto, kbd
  <2> QED BY <1>1, <2>1 DEF Pcs
<1>8. CASE TtyDoWrite
  BY <1>1, <1>8 DEF TtyDoWrite, kbd, Pcs
<1>9. CASE SendByte \/ SendAck
  BY <1>9, HandlerRing DEF SendByte, SendAck
<1>10. CASE \E k \in keys : Press(k) \/ Release(k)
  BY <1>2, <1>10 DEF Press, Release, kbd
<1>11. CASE UNCHANGED vars
  BY <1>2, <1>11 DEF vars, kbd
<1> QED BY <1>3, <1>4, <1>5, <1>6, <1>7, <1>8, <1>9, <1>10, <1>11 DEF Next, TtyStep

-----------------------------------------------------------------------------
(* Scan codes *)

Code(k, make) == IF make THEN MakeCode(k) ELSE BreakCode(k)

Ordinary(k) ==
    /\ k \in [row : 0 .. \h7F, ext : BOOLEAN]
    /\ k.row \notin IF k.ext THEN {\h2A, \h37} ELSE {\h60, \h61}

LastByte(k, make) == IF make THEN k.row ELSE k.row + \h80

Longs == {PauseCode, PrintMake, PrintBreak}

\* A code of one of the keys that the keyboard may send; the ACK is like a key's that
\* does nothing.
IsCode(k, make) == IsKey(k) /\ make \in BOOLEAN /\ (k = Pause => make)

\* The two keys with codes of their own
LEMMA LongCodes ==
    /\ Pause # PrintScreen
    /\ \A k : Ordinary(k) => k \notin {Pause, PrintScreen}
    /\ MakeCode(Pause) = PauseCode
    /\ MakeCode(PrintScreen) = PrintMake
    /\ BreakCode(PrintScreen) = PrintBreak
<1>1. Pause # PrintScreen
  BY DEF Pause, PrintScreen, PlainKey
<1>2. ASSUME NEW k, Ordinary(k) PROVE k \notin {Pause, PrintScreen}
  BY <1>2 DEF Ordinary, Pause, PrintScreen, PlainKey
<1>3. ~Pause.ext /\ ~PrintScreen.ext
  BY DEF Pause, PrintScreen, PlainKey
<1>4. MakeCode(Pause) = PauseCode
  BY <1>1, <1>3, Zenon DEF MakeCode
<1>5. MakeCode(PrintScreen) = PrintMake /\ BreakCode(PrintScreen) = PrintBreak
  BY <1>1, <1>3, Zenon DEF MakeCode, BreakCode
<1> QED
  BY <1>1, <1>2, <1>4, <1>5

\* The codes of the other keys
LEMMA OrdinaryCodes ==
    ASSUME NEW k, NEW make \in BOOLEAN, Ordinary(k)
    PROVE  /\ k.ext => Code(k, make) = <<\hE0, LastByte(k, make)>>
           /\ ~k.ext => Code(k, make) = <<LastByte(k, make)>>
<1>1. k # Pause /\ k # PrintScreen
  BY LongCodes
<1>2. CASE k.ext
  <2>1. MakeCode(k) = <<\hE0, k.row>> /\ BreakCode(k) = <<\hE0, k.row + \h80>>
    BY <1>1, <1>2, Zenon DEF MakeCode, BreakCode
  <2> QED
    BY <1>2, <2>1, Zenon DEF Code, LastByte
<1>3. CASE ~k.ext
  <2>1. MakeCode(k) = <<k.row>> /\ BreakCode(k) = <<k.row + \h80>>
    BY <1>1, <1>3, Zenon DEF MakeCode, BreakCode
  <2> QED
    BY <1>3, <2>1, Zenon DEF Code, LastByte
<1> QED
  BY <1>2, <1>3, Zenon

\* A code is one of the long ones, or an ordinary key's.
LEMMA CodeIs ==
    ASSUME NEW k, NEW make, IsCode(k, make)
    PROVE  \/ k \in {Pause, PrintScreen} /\ Code(k, make) \in Longs
           \/ k \notin {Pause, PrintScreen} /\ Ordinary(k)
<1>1. CASE k = Pause
  <2>1. Code(k, make) = PauseCode
    BY <1>1, LongCodes, Zenon DEF IsCode, Code
  <2> QED
    BY <1>1, <2>1 DEF Longs
<1>2. CASE k = PrintScreen
  <2>1. Code(k, make) \in {PrintMake, PrintBreak}
    BY <1>2, LongCodes DEF Code
  <2> QED
    BY <1>2, <2>1 DEF Longs
<1>3. CASE k \notin {Pause, PrintScreen}
  BY <1>3 DEF IsCode, IsKey, Ordinary
<1> QED
  BY <1>1, <1>2, <1>3

\* The first bytes of a code are never those of another one.
LEMMA LastByteIs ==
    ASSUME NEW k, NEW make \in BOOLEAN, Ordinary(k)
    PROVE  /\ LastByte(k, make) \in 0 .. 255
           /\ k.ext => LastByte(k, make) \notin {\h2A, \hB7}
           /\ ~k.ext => LastByte(k, make) \notin {\hE0, \hE1}
           /\ LastByte(k, make) % \h80 = k.row
           /\ LastByte(k, make) < \h80 <=> make
<1>1. k.row \in 0 .. 127 /\ k.ext \in BOOLEAN
      /\ (k.ext => k.row # 42 /\ k.row # 55) /\ (~k.ext => k.row # 96 /\ k.row # 97)
  BY DEF Ordinary
<1>2. CASE make
  BY <1>1, <1>2 DEF LastByte
<1>3. CASE ~make
  BY <1>1, <1>3 DEF LastByte
<1> QED
  BY <1>2, <1>3

\* The three long codes
LEMMA LongsAre ==
    ASSUME NEW code \in Longs
    PROVE  code \in Seq(0 .. 255) /\ Len(code) \in 4 .. 6
<1>1. PauseCode \in Seq(0 .. 255) /\ Len(PauseCode) = 6
  BY DEF PauseCode
<1>2. PrintMake \in Seq(0 .. 255) /\ Len(PrintMake) = 4
  BY DEF PrintMake
<1>3. PrintBreak \in Seq(0 .. 255) /\ Len(PrintBreak) = 4
  BY DEF PrintBreak
<1> QED
  BY <1>1, <1>2, <1>3 DEF Longs

\* A code has one byte to six.
LEMMA CodesAre ==
    ASSUME NEW k, NEW make, IsCode(k, make)
    PROVE  Code(k, make) \in Seq(0 .. 255) /\ Len(Code(k, make)) \in 1 .. 6
<1>1. CASE Code(k, make) \in Longs
  BY <1>1, LongsAre
<1>2. CASE Ordinary(k)
  <2> DEFINE b == LastByte(k, make)
  <2>1. b \in 0 .. 255
    BY <1>2, LastByteIs DEF IsCode
  <2>2. Code(k, make) = <<\hE0, b>> \/ Code(k, make) = <<b>>
    <3>1. make \in BOOLEAN
      BY DEF IsCode
    <3>2. CASE k.ext
      BY <1>2, <3>1, <3>2, OrdinaryCodes, Zenon
    <3>3. CASE ~k.ext
      BY <1>2, <3>1, <3>3, OrdinaryCodes, Zenon
    <3> QED
      BY <3>2, <3>3, Zenon
  <2> HIDE DEF b
  <2>3. <<\hE0, b>> \in Seq(0 .. 255) /\ Len(<<\hE0, b>>) = 2
    BY <2>1
  <2>4. <<b>> \in Seq(0 .. 255) /\ Len(<<b>>) = 1
    BY <2>1
  <2>5. CASE Code(k, make) = <<\hE0, b>>
    BY <2>3, <2>5
  <2>6. CASE Code(k, make) = <<b>>
    BY <2>4, <2>6
  <2> QED
    BY <2>2, <2>5, <2>6, Zenon
<1> QED
  BY <1>1, <1>2, CodeIs, Zenon

\* keyboard_read has the beginning of a long code.
LEMMA NeedsByteIs ==
    ASSUME got \in Seq(0 .. 255)
    PROVE  NeedsByte <=> \E code \in Longs :
                            /\ Len(got) \in 1 .. Len(code) - 1
                            /\ \A i \in 1 .. Len(got) : got[i] = code[i]
<1>1. ASSUME NEW code \in Longs, NEW n \in 1 .. Len(code) - 1
      PROVE  /\ Len(SubSeq(code, 1, n)) = n
             /\ \A i \in 1 .. n : SubSeq(code, 1, n)[i] = code[i]
             /\ SubSeq(code, 1, n) \in Seq(0 .. 255)
  <2>1. code \in Seq(0 .. 255) /\ Len(code) \in Nat
    BY LongsAre
  <2>2. \A i \in 1 .. Len(code) : code[i] \in 0 .. 255
    BY <2>1, ElementOfSeq
  <2>3. n \in Int /\ n >= 1 /\ \A i \in 1 .. n : code[i] \in 0 .. 255
    BY <2>1, <2>2
  <2>4. /\ SubSeq(code, 1, n) \in Seq(0 .. 255)
        /\ Len(SubSeq(code, 1, n)) = IF 1 <= n THEN n - 1 + 1 ELSE 0
        /\ \A i \in 1 .. n - 1 + 1 : SubSeq(code, 1, n)[i] = code[1 + i - 1]
    <3> HIDE DEF Longs
    <3> QED
      BY <2>3, SubSeqProperties
  <2> QED
    BY <2>3, <2>4
<1>2. ASSUME NEW code \in Longs, NEW n \in 1 .. Len(code) - 1
      PROVE  got = SubSeq(code, 1, n) <=> Len(got) = n /\ \A i \in 1 .. n : got[i] = code[i]
  BY <1>1, SeqEqual
<1>3. NeedsByte <=> \E code \in Longs : \E n \in 1 .. Len(code) - 1 : got = SubSeq(code, 1, n)
  BY DEF NeedsByte, Longs
<1> QED
  BY <1>2, <1>3

\* The same, for one long code
LEMMA BeginsLong ==
    ASSUME got \in Seq(0 .. 255), NEW code \in Longs,
           Len(got) \in 1 .. Len(code) - 1, \A i \in 1 .. Len(got) : got[i] = code[i]
    PROVE  NeedsByte
BY NeedsByteIs

\* A byte is missing exactly as long as a code is not whole, whichever it is.
LEMMA NeedsByteIffShort ==
    ASSUME NEW k, NEW make, IsCode(k, make), got \in Seq(0 .. 255),
           Len(got) \in 1 .. Len(Code(k, make)),
           \A i \in 1 .. Len(got) : got[i] = Code(k, make)[i]
    PROVE  NeedsByte <=> Len(got) < Len(Code(k, make))
<1> DEFINE c == Code(k, make)
<1>1. /\ Len(got) \in Nat \ {0} /\ Len(got) <= Len(c) /\ Len(c) \in Nat
      /\ got[1] = c[1] /\ (Len(got) >= 2 => got[2] = c[2])
  BY CodesAre
<1>2. CASE c \in Longs
  <2>1. ASSUME Len(got) < Len(c) PROVE NeedsByte
    <3>1. Len(got) \in 1 .. Len(c) - 1 /\ \A i \in 1 .. Len(got) : got[i] = c[i]
      BY <1>1, <2>1
    <3> HIDE DEF c
    <3> QED
      BY <1>2, <3>1, NeedsByteIs
  <2>2. ASSUME NeedsByte, Len(got) = Len(c) PROVE FALSE
    <3>1. PICK code \in Longs :
            Len(got) \in 1 .. Len(code) - 1 /\ \A i \in 1 .. Len(got) : got[i] = code[i]
      BY <2>2, NeedsByteIs
    <3>2. Len(c) < Len(code) /\ c[1] = code[1] /\ c[2] = code[2]
      <4> HIDE DEF c
      <4>1. Len(code) \in 4 .. 6 /\ Len(c) \in 4 .. 6
        BY <1>2, LongsAre
      <4> QED
        BY <1>1, <2>2, <3>1, <4>1
    <3> HIDE DEF c
    <3> QED
      BY <1>2, <3>2 DEF Longs, PauseCode, PrintMake, PrintBreak
  <2> QED
    BY <1>1, <2>1, <2>2
<1>3. CASE Ordinary(k) /\ k.ext
  <2> DEFINE b == LastByte(k, make)
  <2>1. c = <<\hE0, b>>
    BY <1>3, OrdinaryCodes DEF IsCode
  <2>2. b \notin {\h2A, \hB7}
    BY <1>3, LastByteIs DEF IsCode
  <2> HIDE DEF c, b
  <2>3. CASE Len(got) = 1
    <3>1. NeedsByte
      <4>1. PrintMake \in Longs /\ Len(PrintMake) = 4 /\ PrintMake[1] = \hE0
        BY DEF Longs, PrintMake
      <4>2. got[1] = \hE0
        BY <1>1, <2>1
      <4>3. Len(got) \in 1 .. Len(PrintMake) - 1
            /\ \A i \in 1 .. Len(got) : got[i] = PrintMake[i]
        BY <2>3, <4>1, <4>2
      <4> DEFINE code == PrintMake
      <4>4. code \in Longs /\ Len(got) \in 1 .. Len(code) - 1
            /\ \A i \in 1 .. Len(got) : got[i] = code[i]
        BY <4>1, <4>3, Zenon
      <4> HIDE DEF code
      <4> QED
        BY <4>4, BeginsLong
    <3> QED
      BY <2>1, <2>3, <3>1 DEF c
  <2>4. CASE Len(got) = 2
    <3>1. ASSUME NeedsByte PROVE FALSE
      <4>1. PICK code \in Longs :
              Len(got) \in 1 .. Len(code) - 1 /\ \A i \in 1 .. Len(got) : got[i] = code[i]
        BY <3>1, NeedsByteIs
      <4>2. code[1] = \hE0 /\ code[2] = b
        BY <1>1, <2>1, <2>4, <4>1
      <4> QED
        BY <2>2, <4>2 DEF Longs, PauseCode, PrintMake, PrintBreak
    <3> QED
      BY <2>1, <2>4, <3>1 DEF c
  <2>5. Len(c) = 2
    BY <2>1
  <2> QED
    BY <1>1, <2>3, <2>4, <2>5 DEF c
<1>4. CASE Ordinary(k) /\ ~k.ext
  <2> DEFINE b == LastByte(k, make)
  <2>1. c = <<b>>
    BY <1>4, OrdinaryCodes DEF IsCode
  <2>2. b \notin {\hE0, \hE1}
    BY <1>4, LastByteIs DEF IsCode
  <2> HIDE DEF c, b
  <2>3. Len(got) = 1 /\ Len(c) = 1 /\ got[1] = b
    BY <1>1, <2>1
  <2>4. ASSUME NeedsByte PROVE FALSE
    <3>1. PICK code \in Longs : \A i \in 1 .. Len(got) : got[i] = code[i]
      BY <2>4, NeedsByteIs
    <3>2. code[1] = b
      BY <2>3, <3>1
    <3> QED
      BY <2>2, <3>2 DEF Longs, PauseCode, PrintMake, PrintBreak
  <2> QED
    BY <2>3, <2>4 DEF c
<1>5. c \in Longs \/ Ordinary(k)
  BY CodeIs
<1> QED
  BY <1>2, <1>3, <1>4, <1>5

\* What keyboard_read makes of a whole code
LEMMA DecodedIs ==
    ASSUME NEW k, NEW make, IsCode(k, make), got = Code(k, make)
    PROVE  /\ Whole <=> k \in {Pause, PrintScreen}
           /\ k \notin {Pause, PrintScreen} =>
                /\ CodeE0 <=> k.ext
                /\ ScanCode % \h80 = k.row
                /\ IsMake <=> make
<1>1. CASE k \in {Pause, PrintScreen}
  BY <1>1, CodeIs DEF Whole, Longs
<1>2. CASE Ordinary(k) /\ k.ext
  <2> DEFINE b == LastByte(k, make)
  <2>1. got = <<\hE0, b>>
    BY <1>2, OrdinaryCodes DEF IsCode
  <2> HIDE DEF b
  <2>2. CodeE0 /\ ScanCode = b /\ ~Whole
    BY <2>1 DEF CodeE0, ScanCode, Whole, PauseCode, PrintMake, PrintBreak
  <2>3. b % \h80 = k.row /\ (b < \h80 <=> make) /\ k \notin {Pause, PrintScreen}
    BY <1>2, LastByteIs, LongCodes DEF IsCode, b
  <2> QED
    BY <1>2, <2>2, <2>3, Zenon DEF IsMake
<1>3. CASE Ordinary(k) /\ ~k.ext
  <2> DEFINE b == LastByte(k, make)
  <2>1. got = <<b>>
    BY <1>3, OrdinaryCodes DEF IsCode
  <2>2. b # \hE0
    BY <1>3, LastByteIs DEF IsCode
  <2> HIDE DEF b
  <2>3. ~CodeE0 /\ ScanCode = b /\ ~Whole
    BY <2>1, <2>2 DEF CodeE0, ScanCode, Whole, PauseCode, PrintMake, PrintBreak
  <2>4. b % \h80 = k.row /\ (b < \h80 <=> make) /\ k \notin {Pause, PrintScreen}
    BY <1>3, LastByteIs, LongCodes DEF IsCode, b
  <2> QED
    BY <1>3, <2>3, <2>4, Zenon DEF IsMake
<1> QED
  BY <1>1, <1>2, <1>3, CodeIs, Zenon

-----------------------------------------------------------------------------
(* What a key does to the decoder *)

State == [mods : SUBSET Modifiers, locks : SUBSET Locks, con : Tty, n : Nat]

\* The key k, as it is in the state s
KeyIn(s, k) ==
    IF k \in {Pause, PrintScreen} THEN Named("IGNORED")
    ELSE Translated(KeyAt(k.row, k.ext, Shifted(s.mods), "CAPS_LOCK" \in s.locks),
                    "NUM_LOCK" \in s.locks)

Toggled(set, x) == IF x \in set THEN set \ {x} ELSE set \cup {x}

Counts(s, k, make) == make /\ HasEffect(KeyIn(s, k), Shifted(s.mods), Alted(s.mods))

\* The state that the key k, made or broken, leaves: n counts the effects.
After(s, k, make) ==
    LET key == KeyIn(s, k) IN
    [mods  |-> IF key.name \notin Modifiers THEN s.mods
               ELSE IF make THEN s.mods \cup {key.name} ELSE s.mods \ {key.name},
     locks |-> IF make /\ key.name \in Locks THEN Toggled(s.locks, key.name) ELSE s.locks,
     con   |-> IF make /\ key.name = "F" /\ Alted(s.mods) /\ key.row \in Tty
               THEN key.row ELSE s.con,
     n     |-> IF Counts(s, k, make) THEN s.n + 1 ELSE s.n]

ModKey ==
    [LSHIFT |-> PlainKey(\h2A), RSHIFT |-> PlainKey(\h36), LCTRL |-> PlainKey(\h1D),
     RCTRL |-> ExtKey(\h1D), LALT |-> PlainKey(\h38), RALT |-> ExtKey(\h38)]

PadNames == {"CHAR", "HOME", "UP", "PAGEUP", "LEFT", "PAD_MID", "RIGHT", "END", "DOWN",
             "PAGEDOWN", "INSERT", "DELETE"}

\* A key that is nothing but its name
LEMMA NamedHas ==
    ASSUME NEW name PROVE Named(name).name = name
BY DEF Named

\* A key leads from a state of the decoder to one.
LEMMA AfterIsState ==
    ASSUME NEW s \in State, NEW k, NEW make \in BOOLEAN
    PROVE  After(s, k, make) \in State
<1> DEFINE key == KeyIn(s, k)
<1>1. s.mods \in SUBSET Modifiers /\ s.locks \in SUBSET Locks /\ s.con \in Tty /\ s.n \in Nat
  BY DEF State
<1>2. (IF key.name \notin Modifiers THEN s.mods
       ELSE IF make THEN s.mods \cup {key.name} ELSE s.mods \ {key.name}) \in SUBSET Modifiers
  <2> HIDE DEF key
  <2> QED
    BY <1>1
<1>3. (IF make /\ key.name \in Locks THEN Toggled(s.locks, key.name) ELSE s.locks)
         \in SUBSET Locks
  <2> HIDE DEF key
  <2> QED
    BY <1>1 DEF Toggled
<1>4. (IF make /\ key.name = "F" /\ Alted(s.mods) /\ key.row \in Tty
       THEN key.row ELSE s.con) \in Tty
  BY <1>1, Zenon
<1>5. (IF Counts(s, k, make) THEN s.n + 1 ELSE s.n) \in Nat
  BY <1>1
<1> QED
  BY <1>2, <1>3, <1>4, <1>5, Zenon DEF After, State

-----------------------------------------------------------------------------
(* The modifiers in the keymap *)

Columns == {0, 1}

\* The first two columns of the keymap
LEMMA BasicModifiers ==
    ASSUME NEW row \in 0 .. \h7F, NEW col \in Columns
    PROVE  /\ row \notin {\h1D, \h2A, \h36, \h38} => Basic(row, col).name \notin Modifiers
           /\ row = \h1D => Basic(row, col).name = "LCTRL"
           /\ row = \h2A => Basic(row, col).name = "LSHIFT"
           /\ row = \h36 => Basic(row, col).name = "RSHIFT"
           /\ row = \h38 => Basic(row, col).name = "LALT"
<1>1. col \in {0, 1}
  BY DEF Columns
<1>2. row = \h1D => Basic(row, col) = Named("LCTRL")
  BY DEF Basic, Printable
<1>3. row = \h2A => Basic(row, col) = Named("LSHIFT")
  BY DEF Basic, Printable
<1>4. row = \h36 => Basic(row, col) = Named("RSHIFT")
  BY DEF Basic, Printable
<1>5. row = \h38 => Basic(row, col) = Named("LALT")
  BY DEF Basic, Printable
<1>6. ASSUME row \notin {\h1D, \h2A, \h36, \h38}
      PROVE  Basic(row, col).name \notin Modifiers
  <2> USE DEF Basic, Named, Char, Fn, Pad, NoKey, Modifiers
  <2>1. CASE row \in Printable
    BY <1>1, <1>6, <2>1 DEF Printable
  <2>2. CASE row \in \h3B .. \h44 \cup {\h57, \h58}
    BY <1>6, <2>2 DEF Printable
  <2>3. CASE row \in \h47 .. \h53
    BY <1>6, <2>3 DEF Printable
  <2>4. CASE row \notin Printable \cup \h3B .. \h44 \cup {\h57, \h58} \cup \h47 .. \h53
    BY <1>6, <2>4 DEF Printable
  <2> QED
    BY <2>1, <2>2, <2>3, <2>4
<1> QED
  BY <1>2, <1>3, <1>4, <1>5, <1>6, NamedHas

\* The third column
LEMMA ExtendedModifiers ==
    ASSUME NEW row \in 0 .. \h7F
    PROVE  /\ row \notin {\h1D, \h38} => Extended(row).name \notin Modifiers
           /\ row = \h1D => Extended(row).name = "RCTRL"
           /\ row = \h38 => Extended(row).name = "RALT"
           /\ Extended(row).name # "PAD"
BY DEF Extended, Named, Char, NoKey, PadOff, Modifiers

\* The keys of the keypad are on its rows.
LEMMA BasicPads ==
    ASSUME NEW row \in 0 .. \h7F, NEW col \in Columns, Basic(row, col).name = "PAD"
    PROVE  Basic(row, col).row \in \h47 .. \h53
BY DEF Basic, Named, Char, Fn, Pad, NoKey, Printable, Columns

\* What the switch on the keypad keys makes of them
LEMMA TranslatedPads ==
    ASSUME NEW key, NEW num, key.name = "PAD", key.row \in \h47 .. \h53
    PROVE  Translated(key, num).name \in PadNames
BY DEF Translated, PadOn, PadOff, PadNames, Named, Char

\* The keys held, as the flags they are
ModsHeld == {m \in Modifiers : ModKey[m] \in down}

\* keyboard_read has stored a key that TTY is still to print.
Pending == IF in_buf[tty] = <<>> THEN 0 ELSE 1

\* The decoder's state, and the one in which what is on its way will leave it
Now(base) == [mods |-> mods, locks |-> locks, con |-> current, n |-> base + Pending]
Then(base) == [mods |-> ModsHeld, locks |-> lit, con |-> aim, n |-> base + Len(owed)]

Raw(s, k) == KeyAt(k.row, k.ext, Shifted(s.mods), "CAPS_LOCK" \in s.locks)

\* The key before the keypad's switch is in one of the columns.
LEMMA RawIs ==
    ASSUME NEW s, NEW k, Ordinary(k)
    PROVE  /\ KeyIn(s, k) = Translated(Raw(s, k), "NUM_LOCK" \in s.locks)
           /\ k.ext => Raw(s, k) = Extended(k.row)
           /\ ~k.ext => \E col \in Columns : Raw(s, k) = Basic(k.row, col)
<1>1. k \notin {Pause, PrintScreen}
  BY LongCodes
<1> QED
  BY <1>1, Zenon DEF KeyIn, Raw, KeyAt, Columns

\* The keypad has no key that does anything to the decoder.
LEMMA RawNames ==
    ASSUME NEW s, NEW k, Ordinary(k), NEW x \in Modifiers \cup Locks
    PROVE  KeyIn(s, k).name = x <=> Raw(s, k).name = x
<1>1. x # "PAD" /\ x \notin PadNames
  BY DEF Modifiers, Locks, PadNames
<1>2. CASE Raw(s, k).name # "PAD"
  BY <1>2, RawIs DEF Translated
<1>3. CASE Raw(s, k).name = "PAD"
  <2>1. k.row \in 0 .. \h7F /\ k.ext \in BOOLEAN
    BY DEF Ordinary
  <2>2. ~k.ext
    BY <1>3, <2>1, RawIs, ExtendedModifiers
  <2>3. Raw(s, k).row \in \h47 .. \h53
    <3>1. PICK col \in Columns : Raw(s, k) = Basic(k.row, col)
      BY <2>2, RawIs, Zenon
    <3>2. k.row \in 0 .. \h7F /\ Basic(k.row, col).name = "PAD"
      BY <1>3, <2>1, <3>1
    <3> QED
      BY <3>1, <3>2, BasicPads, Zenon
  <2>4. KeyIn(s, k).name \in PadNames
    BY <1>3, <2>3, RawIs, TranslatedPads
  <2> QED
    BY <1>1, <1>3, <2>4
<1> QED
  BY <1>2, <1>3

\* A key is its row and its prefix.
LEMMA KeyIs ==
    ASSUME NEW k, Ordinary(k), NEW r
    PROVE  /\ k = PlainKey(r) <=> k.row = r /\ ~k.ext
           /\ k = ExtKey(r) <=> k.row = r /\ k.ext
<1>1. k = [row |-> k.row, ext |-> k.ext] /\ k.ext \in BOOLEAN
  BY DEF Ordinary
<1>2. PlainKey(r).row = r /\ PlainKey(r).ext = FALSE
  BY DEF PlainKey
<1>3. ExtKey(r).row = r /\ ExtKey(r).ext = TRUE
  BY DEF ExtKey
<1> QED
  BY <1>1, <1>2, <1>3, Zenon DEF PlainKey, ExtKey

\* Each modifier is one key.
LEMMA ModifierKey ==
    ASSUME NEW s, NEW k, IsKey(k), NEW m \in Modifiers
    PROVE  KeyIn(s, k).name = m <=> k = ModKey[m]
<1>1. /\ ModKey["LSHIFT"] = PlainKey(\h2A) /\ ModKey["RSHIFT"] = PlainKey(\h36)
      /\ ModKey["LCTRL"] = PlainKey(\h1D) /\ ModKey["RCTRL"] = ExtKey(\h1D)
      /\ ModKey["LALT"] = PlainKey(\h38) /\ ModKey["RALT"] = ExtKey(\h38)
  BY DEF ModKey
<1>2. CASE k \in {Pause, PrintScreen}
  <2>1. KeyIn(s, k).name = "IGNORED"
    BY <1>2, NamedHas DEF KeyIn
  <2> QED
    BY <1>2, <2>1 DEF Modifiers, ModKey, Pause, PrintScreen, PlainKey, ExtKey
<1>3. CASE Ordinary(k)
  <2> DEFINE r == k.row
             n == Raw(s, k).name
  <2>1. r \in 0 .. \h7F /\ k.ext \in BOOLEAN
    BY <1>3 DEF Ordinary
  <2>2. KeyIn(s, k).name = m <=> n = m
    BY <1>3, RawNames
  <2>3. CASE k.ext
    <3>1. /\ r \notin {\h1D, \h38} => n \notin Modifiers
          /\ r = \h1D => n = "RCTRL"
          /\ r = \h38 => n = "RALT"
      <4>1. n = Extended(r).name
        BY <1>3, <2>3, RawIs, Zenon
      <4>2. r \in 0 .. \h7F
        BY <2>1
      <4> HIDE DEF r, n
      <4> QED
        BY <4>1, <4>2, ExtendedModifiers, Zenon
    <3>2. k = ModKey[m] <=> \/ r = \h1D /\ m = "RCTRL"
                            \/ r = \h38 /\ m = "RALT"
      BY <1>1, <1>3, <2>3, KeyIs DEF Modifiers
    <3> HIDE DEF r, n
    <3> QED
      BY <2>1, <2>2, <3>1, <3>2
  <2>4. CASE ~k.ext
    <3>1. /\ r \notin {\h1D, \h2A, \h36, \h38} => n \notin Modifiers
          /\ r = \h1D => n = "LCTRL"
          /\ r = \h2A => n = "LSHIFT"
          /\ r = \h36 => n = "RSHIFT"
          /\ r = \h38 => n = "LALT"
      <4>1. PICK col \in Columns : n = Basic(r, col).name
        BY <1>3, <2>4, RawIs, Zenon
      <4>2. r \in 0 .. \h7F
        BY <2>1
      <4> HIDE DEF r, n
      <4>3. /\ r \notin {\h1D, \h2A, \h36, \h38} => Basic(r, col).name \notin Modifiers
            /\ r = \h1D => Basic(r, col).name = "LCTRL"
            /\ r = \h2A => Basic(r, col).name = "LSHIFT"
            /\ r = \h36 => Basic(r, col).name = "RSHIFT"
            /\ r = \h38 => Basic(r, col).name = "LALT"
        BY <4>2, BasicModifiers
      <4> QED
        BY <4>1, <4>3
    <3>2. k = ModKey[m] <=> \/ r = \h1D /\ m = "LCTRL"
                            \/ r = \h2A /\ m = "LSHIFT"
                            \/ r = \h36 /\ m = "RSHIFT"
                            \/ r = \h38 /\ m = "LALT"
      BY <1>1, <1>3, <2>4, KeyIs DEF Modifiers
    <3> HIDE DEF r, n
    <3> QED
      BY <2>1, <2>2, <3>1, <3>2
  <2> QED
    BY <2>1, <2>3, <2>4
<1> QED
  BY <1>2, <1>3 DEF IsKey, Ordinary

-----------------------------------------------------------------------------
(* The keyboard's side *)

\* The keys held are Shift and Alt when the flags of the modifiers held say so.
LEMMA HeldIs ==
    /\ HoldsShift <=> Shifted(ModsHeld)
    /\ HoldsAlt <=> Alted(ModsHeld)
<1>1. \A m \in Modifiers : m \in ModsHeld <=> Holds(ModKey[m])
  BY DEF ModsHeld, Holds
<1>2. /\ ModKey["LSHIFT"] = PlainKey(\h2A) /\ ModKey["RSHIFT"] = PlainKey(\h36)
      /\ ModKey["LALT"] = PlainKey(\h38) /\ ModKey["RALT"] = ExtKey(\h38)
  BY DEF ModKey
<1>3. {"LSHIFT", "RSHIFT", "LALT", "RALT"} \subseteq Modifiers
  BY DEF Modifiers
<1>4. Shifted(ModsHeld) <=> "LSHIFT" \in ModsHeld \/ "RSHIFT" \in ModsHeld
  BY DEF Shifted
<1>5. Alted(ModsHeld) <=> "LALT" \in ModsHeld \/ "RALT" \in ModsHeld
  BY DEF Alted
<1>6. /\ "LSHIFT" \in ModsHeld <=> Holds(PlainKey(\h2A))
      /\ "RSHIFT" \in ModsHeld <=> Holds(PlainKey(\h36))
  <2>1. "LSHIFT" \in Modifiers /\ "RSHIFT" \in Modifiers
    BY <1>3
  <2> QED
    BY <1>1, <1>2, <2>1, Zenon
<1>7. /\ "LALT" \in ModsHeld <=> Holds(PlainKey(\h38))
      /\ "RALT" \in ModsHeld <=> Holds(ExtKey(\h38))
  <2>1. "LALT" \in Modifiers /\ "RALT" \in Modifiers
    BY <1>3
  <2> QED
    BY <1>1, <1>2, <2>1, Zenon
<1>8. HoldsShift <=> Shifted(ModsHeld)
  BY <1>4, <1>6, Zenon DEF HoldsShift
<1>9. HoldsAlt <=> Alted(ModsHeld)
  BY <1>5, <1>7, Zenon DEF HoldsAlt
<1> QED
  BY <1>8, <1>9, Zenon

\* The key struck is what the decoder will take it for.
LEMMA MeantIs ==
    ASSUME NEW k, NEW base
    PROVE  Meant(k) = KeyIn(Then(base), k)
<1>1. Then(base).mods = ModsHeld /\ Then(base).locks = lit
  BY DEF Then
<1>2. KeyAt(k.row, k.ext, HoldsShift, "CAPS_LOCK" \in lit)
        = KeyAt(k.row, k.ext, Shifted(ModsHeld), "CAPS_LOCK" \in lit)
  <2>1. CASE HoldsShift
    <3>1. HoldsShift = TRUE /\ Shifted(ModsHeld) = TRUE
      BY <2>1, HeldIs DEF HoldsShift, Holds, Shifted
    <3> QED
      BY <3>1, Zenon
  <2>2. CASE ~HoldsShift
    <3>1. HoldsShift = FALSE /\ Shifted(ModsHeld) = FALSE
      BY <2>2, HeldIs DEF HoldsShift, Holds, Shifted
    <3> QED
      BY <3>1, Zenon
  <2> QED
    BY <2>1, <2>2
<1> QED
  BY <1>1, <1>2, Zenon DEF Meant, KeyIn

\* What a key should bring about is what its code will make the decoder do, should it
\* be in the state of the keyboard by then.
LEMMA PressIs ==
    ASSUME NEW k, IsKey(k), Press(k), NEW base \in Nat, NEW S, owed \in Seq(S)
    PROVE  /\ Then(base)' = After(Then(base), k, TRUE)
           /\ owed' = IF Counts(Then(base), k, TRUE)
                      THEN Append(owed, [con |-> aim, key |-> KeyIn(Then(base), k)])
                      ELSE owed
<1> DEFINE s == Then(base)
           key == KeyIn(s, k)
<1>1. s.mods = ModsHeld /\ s.locks = lit /\ s.con = aim /\ s.n = base + Len(owed)
  BY DEF Then
<1>2. Meant(k) = key
  BY MeantIs
<1>3. owed' = IF HasEffect(key, HoldsShift, HoldsAlt)
              THEN Append(owed, [con |-> aim, key |-> key]) ELSE owed
  BY <1>2, Zenon DEF Press
<1>4. HasEffect(key, HoldsShift, HoldsAlt) <=> Counts(s, k, TRUE)
  BY <1>1, HeldIs, Zenon DEF Counts, HasEffect
<1>5. owed' = IF Counts(s, k, TRUE) THEN Append(owed, [con |-> aim, key |-> key]) ELSE owed
  BY <1>3, <1>4, Zenon
<1>6. base + Len(owed') = IF Counts(s, k, TRUE) THEN s.n + 1 ELSE s.n
  <2> HIDE DEF key, s
  <2>1. Len(Append(owed, [con |-> aim, key |-> key])) = Len(owed) + 1 /\ Len(owed) \in Nat
    OBVIOUS
  <2>2. CASE Counts(s, k, TRUE)
    BY <1>1, <1>5, <2>1, <2>2
  <2>3. CASE ~Counts(s, k, TRUE)
    BY <1>1, <1>5, <2>1, <2>3
  <2> QED
    BY <2>2, <2>3
<1>7. aim' = IF TRUE /\ key.name = "F" /\ Alted(s.mods) /\ key.row \in Tty
             THEN key.row ELSE s.con
  BY <1>1, <1>2, HeldIs, Zenon DEF Press
<1>8. lit' = IF TRUE /\ key.name \in Locks THEN Toggled(s.locks, key.name) ELSE s.locks
  BY <1>1, <1>2, Zenon DEF Press, Toggled
<1>9. ModsHeld' = IF key.name \notin Modifiers THEN s.mods ELSE s.mods \cup {key.name}
  <2>1. \A m \in Modifiers : key.name = m <=> k = ModKey[m]
    BY ModifierKey
  <2>2. Pause \notin {ModKey[m] : m \in Modifiers}
    BY DEF Pause, ModKey, PlainKey, ExtKey, Modifiers
  <2>3. \A m \in Modifiers : ModKey[m] \in down' <=> ModKey[m] \in down \/ ModKey[m] = k
    BY <2>2 DEF Press
  <2>4. ModsHeld' = {m \in Modifiers : ModKey[m] \in down'}
    BY DEF ModsHeld
  <2> HIDE DEF key
  <2> QED
    BY <1>1, <2>1, <2>3, <2>4 DEF ModsHeld
<1>10. Then(base)' = [mods |-> ModsHeld', locks |-> lit', con |-> aim', n |-> base + Len(owed')]
  BY DEF Then
<1> QED
  BY <1>5, <1>6, <1>7, <1>8, <1>9, <1>10, Zenon DEF After

\* A release changes nothing but the modifiers held.
LEMMA ReleaseIs ==
    ASSUME NEW k, IsKey(k), Release(k), NEW base \in Nat
    PROVE  /\ Then(base)' = After(Then(base), k, FALSE)
           /\ UNCHANGED owed
<1> DEFINE s == Then(base)
           key == KeyIn(s, k)
<1>1. s.mods = ModsHeld /\ s.locks = lit /\ s.con = aim /\ s.n = base + Len(owed)
  BY DEF Then
<1>2. UNCHANGED <<owed, aim, lit>> /\ down' = down \ {k}
  BY DEF Release
<1>3. ModsHeld' = IF key.name \notin Modifiers THEN s.mods ELSE s.mods \ {key.name}
  <2>1. \A m \in Modifiers : key.name = m <=> k = ModKey[m]
    BY ModifierKey
  <2>2. ModsHeld' = {m \in Modifiers : ModKey[m] \in down'}
    BY DEF ModsHeld
  <2> HIDE DEF key
  <2> QED
    BY <1>1, <1>2, <2>1, <2>2 DEF ModsHeld
<1>4. Then(base)' = [mods |-> ModsHeld', locks |-> lit', con |-> aim', n |-> base + Len(owed')]
  BY DEF Then
<1> QED
  BY <1>1, <1>2, <1>3, <1>4, Zenon DEF After, Counts

-----------------------------------------------------------------------------
(* TTY's side *)

\* What is decoded from a whole code is what the key is in the decoder's state.
LEMMA KeyDecoded ==
    ASSUME NEW k, NEW make, IsCode(k, make), got = Code(k, make), ~Whole, NEW base
    PROVE  /\ Ordinary(k) /\ (IsMake <=> make)
           /\ Key = Raw(Now(base), k)
           /\ Translated(Key, "NUM_LOCK" \in locks) = KeyIn(Now(base), k)
<1>1. k \notin {Pause, PrintScreen} /\ Ordinary(k)
  BY DecodedIs, CodeIs, Zenon
<1>2. (CodeE0 <=> k.ext) /\ ScanCode % \h80 = k.row /\ (IsMake <=> make)
  BY <1>1, DecodedIs
<1>3. Now(base).mods = mods /\ Now(base).locks = locks
  BY DEF Now
<1>4. Key = KeyAt(k.row, k.ext, Shifted(mods), "CAPS_LOCK" \in locks)
  BY <1>2, Zenon DEF Key, KeyAt
<1>5. Key = Raw(Now(base), k)
  BY <1>3, <1>4, Zenon DEF Raw
<1> QED
  BY <1>1, <1>2, <1>3, <1>5, RawIs

\* in_process does nothing about a lock or a modifier.
LEMMA NoEffect ==
    ASSUME NEW key, key.name \in Locks \cup Modifiers, NEW shift, NEW alt
    PROVE  ~HasEffect(key, shift, alt) /\ key.name # "F"
BY DEF HasEffect, Locks, Modifiers

\* The rest of keyboard_read, once it has the whole of a key's code
LEMMA DecodeIs ==
    ASSUME NEW k, NEW make, IsCode(k, make), got = Code(k, make), Decode,
           NEW base \in Nat, tty \in Tty, in_buf[tty] = <<>>
    PROVE  /\ mods' = After(Now(base), k, make).mods
           /\ locks' = After(Now(base), k, make).locks
           /\ current' = After(Now(base), k, make).con
           /\ ~Counts(Now(base), k, make) => UNCHANGED <<in_buf, owed, strange>>
           /\ Counts(Now(base), k, make) =>
                \/ UNCHANGED in_buf /\ Effect(tty, KeyIn(Now(base), k))
                \/ /\ in_buf' = [in_buf EXCEPT ![tty] = <<KeyIn(Now(base), k)>>]
                   /\ UNCHANGED <<owed, strange>>
                   /\ pc' = "write"
<1> DEFINE s == Now(base)
           key == KeyIn(s, k)
           t == After(s, k, make)
           Done == /\ mods' = t.mods /\ locks' = t.locks /\ current' = t.con
                   /\ ~Counts(s, k, make) => UNCHANGED <<in_buf, owed, strange>>
                   /\ Counts(s, k, make) =>
                        \/ UNCHANGED in_buf /\ Effect(tty, key)
                        \/ /\ in_buf' = [in_buf EXCEPT ![tty] = <<key>>]
                           /\ UNCHANGED <<owed, strange>>
                           /\ pc' = "write"
<1> SUFFICES Done
  OBVIOUS
<1>1. s.mods = mods /\ s.locks = locks /\ s.con = current
  BY DEF Now
<1>2. /\ t.mods = IF key.name \notin Modifiers THEN mods
                  ELSE IF make THEN mods \cup {key.name} ELSE mods \ {key.name}
      /\ t.locks = IF make /\ key.name \in Locks THEN Toggled(locks, key.name) ELSE locks
      /\ t.con = IF make /\ key.name = "F" /\ Alted(mods) /\ key.row \in Tty
                 THEN key.row ELSE current
      /\ Counts(s, k, make) <=> make /\ HasEffect(key, Shifted(mods), Alted(mods))
  BY <1>1 DEF After, Counts
<1> HIDE DEF t
<1>3. CASE Whole
  <2>1. k \in {Pause, PrintScreen}
    BY <1>3, DecodedIs, Zenon
  <2>2. key = Named("IGNORED")
    BY <2>1 DEF KeyIn
  <2>3. key.name \notin Modifiers \cup Locks /\ key.name # "F"
        /\ ~HasEffect(key, Shifted(mods), Alted(mods))
    BY <2>2, NamedHas DEF Modifiers, Locks, HasEffect
  <2>4. UNCHANGED decoder /\ UNCHANGED <<owed, strange>>
    BY <1>3 DEF Decode
  <2> HIDE DEF key, s
  <2> QED
    BY <1>2, <2>3, <2>4 DEF decoder
<1>4. CASE ~Whole
  <2>1. Ordinary(k) /\ (IsMake <=> make) /\ Key = Raw(s, k)
        /\ Translated(Key, "NUM_LOCK" \in locks) = key
    BY <1>4, KeyDecoded
  <2>2. \A x \in Modifiers \cup Locks : key.name = x <=> Key.name = x
    BY <2>1, RawNames
  <2> HIDE DEF key, s
  <2>3. mods' = t.mods
    <3>1. SetMods
      BY <1>4 DEF Decode
    <3> QED
      BY <1>2, <2>1, <2>2, <3>1 DEF SetMods
  <2>4. CASE IsMake /\ Key.name \in Locks
    <3>1. key.name = Key.name /\ ~HasEffect(key, Shifted(mods), Alted(mods)) /\ key.name # "F"
      BY <2>2, <2>4, NoEffect
    <3>2. locks' = Toggled(locks, key.name) /\ UNCHANGED <<current, in_buf, owed, strange>>
      BY <1>4, <2>4, <3>1 DEF Decode, Toggled
    <3> QED
      BY <1>2, <2>1, <2>3, <2>4, <3>1, <3>2
  <2>5. CASE ~IsMake
    <3>1. UNCHANGED <<locks, current, in_buf, owed, strange>>
      BY <1>4, <2>5 DEF Decode
    <3> QED
      BY <1>2, <2>1, <2>3, <2>5, <3>1
  <2>6. CASE IsMake /\ Key.name \notin Locks
    <3>1. UNCHANGED locks /\ InProcess(key) /\ pc' = "write"
      BY <1>4, <2>1, <2>6 DEF Decode, Goto
    <3>2. key.name \notin Locks
      BY <2>2, <2>6
    <3>3. CASE ~HasEffect(key, Shifted(mods), Alted(mods))
      <4>1. UNCHANGED <<current, in_buf, owed, strange>>
        BY <3>1, <3>3 DEF InProcess
      <4>2. ~(key.name = "F" /\ Alted(mods))
        BY <3>3 DEF HasEffect
      <4>3. ~Counts(s, k, make) /\ locks' = t.locks /\ current' = t.con
        BY <1>2, <3>1, <3>2, <3>3, <4>1, <4>2
      <4> QED
        BY <2>3, <4>1, <4>3
    <3>4. CASE HasEffect(key, Shifted(mods), Alted(mods)) /\ key.name = "F"
      <4>1. SelectConsole(key.row) /\ Effect(tty, key) /\ UNCHANGED in_buf
        BY <3>1, <3>4 DEF InProcess
      <4>2. Alted(mods)
        BY <3>4 DEF HasEffect
      <4>3. Counts(s, k, make) /\ locks' = t.locks /\ current' = t.con
        BY <1>2, <2>1, <2>6, <3>1, <3>2, <3>4, <4>1, <4>2 DEF SelectConsole
      <4> QED
        BY <2>3, <4>1, <4>3
    <3>5. CASE HasEffect(key, Shifted(mods), Alted(mods)) /\ key.name \in {"UP", "DOWN"}
      <4>1. Effect(tty, key) /\ UNCHANGED <<current, in_buf>>
        BY <3>1, <3>5 DEF InProcess
      <4>2. Counts(s, k, make) /\ locks' = t.locks /\ current' = t.con
        BY <1>2, <2>1, <2>6, <3>1, <3>2, <3>5, <4>1
      <4> QED
        BY <2>3, <4>1, <4>2
    <3>6. CASE HasEffect(key, Shifted(mods), Alted(mods)) /\ key.name \notin {"F", "UP", "DOWN"}
      <4>1. PutKey(key) /\ UNCHANGED <<current, owed, strange>>
        BY <3>1, <3>6 DEF InProcess
      <4>2. in_buf' = [in_buf EXCEPT ![tty] = <<key>>]
        <5>1. Len(in_buf[tty]) < TTY_IN_BYTES /\ Append(in_buf[tty], key) = <<key>>
          BY KeyboardAssumption
        <5> QED
          BY <4>1, <5>1 DEF PutKey
      <4>3. Counts(s, k, make) /\ locks' = t.locks /\ current' = t.con
        BY <1>2, <2>1, <2>6, <3>1, <3>2, <3>6, <4>1
      <4> QED
        BY <2>3, <3>1, <4>1, <4>2, <4>3
    <3> QED
      BY <3>3, <3>4, <3>5, <3>6
  <2> QED
    BY <2>4, <2>5, <2>6
<1> QED
  BY <1>3, <1>4

-----------------------------------------------------------------------------
(* The bytes on their way *)

BytesType ==
    /\ buf \in [Places -> 0 .. 255]
    /\ sending \in Seq(0 .. 255) /\ got \in Seq(0 .. 255)

\* What keyboard_read has taken of a code, and how many bytes are still in the buffer
Gotten == IF pc \in {"get", "got", "decode"} THEN got ELSE <<>>
Stored == IF pc = "got" THEN count - 1 ELSE count

\* The place n behind p_tail
At(n) == IF p_tail + n < KBD_IN_BYTES THEN p_tail + n ELSE p_tail + n - KBD_IN_BYTES

\* The bytes struck and not decoded yet are those taken, those stored and those to be
\* sent: how many they are, and the n-th of them.
Flying == Len(Gotten) + Stored + Len(sending)
Byte(n) ==
    IF n <= Len(Gotten) THEN Gotten[n]
    ELSE IF n <= Len(Gotten) + Stored THEN buf[At(n - Len(Gotten) - 1)]
    ELSE sending[n - Len(Gotten) - Stored]

\* What a step does to them
Keeps == Flying' = Flying /\ \A n \in 1 .. Flying : Byte(n)' = Byte(n)
Adds(code) ==
    /\ Flying' = Flying + Len(code)
    /\ \A n \in 1 .. Flying : Byte(n)' = Byte(n)
    /\ \A n \in Flying + 1 .. Flying + Len(code) : Byte(n)' = code[n - Flying]
Drops(m) == Flying' = Flying - m /\ \A n \in 1 .. Flying - m : Byte(n)' = Byte(n + m)

\* The counts are numbers.
LEMMA FlyingIs ==
    ASSUME RingInv, BytesType
    PROVE  /\ Gotten \in Seq(0 .. 255) /\ Len(Gotten) \in Nat
           /\ Stored \in Nat /\ Stored <= KBD_IN_BYTES
           /\ Len(sending) \in Nat /\ Flying \in Nat
<1>1. Gotten \in Seq(0 .. 255)
  BY DEF BytesType, Gotten
<1>2. Len(Gotten) \in Nat
  BY <1>1
<1>3. Len(sending) \in Nat
  BY DEF BytesType
<1>4. Stored \in Nat /\ Stored <= KBD_IN_BYTES
  BY KeyboardAssumption DEF RingInv, RingType, Stored
<1> QED
  BY <1>1, <1>2, <1>3, <1>4 DEF Flying

\* The places behind p_tail are different ones, the first of them free for the handler.
LEMMA AtIs ==
    ASSUME p_tail \in Places, NEW n \in 0 .. KBD_IN_BYTES - 1
    PROVE  /\ At(n) \in Places
           /\ n = 0 => At(n) = p_tail
           /\ InRing(n) /\ p_head \in Places => At(n) = p_head
           /\ \A m \in 0 .. KBD_IN_BYTES - 1 : m # n => At(m) # At(n)
           /\ n + 1 < KBD_IN_BYTES /\ p_tail' = Wrap(p_tail) => At(n)' = At(n + 1)
BY KeyboardAssumption DEF At, Places, InRing, Wrap

\* keyboard_handler puts its byte behind those stored.
LEMMA HandlerStores ==
    ASSUME RingInv, BytesType, NEW b \in 0 .. 255, KeyboardHandler(b), lost' = {}
    PROVE  /\ Stored < KBD_IN_BYTES /\ Stored' = Stored + 1
           /\ UNCHANGED Gotten
           /\ \A n : At(n)' = At(n)
           /\ \A n \in 0 .. Stored - 1 : buf'[At(n)] = buf[At(n)]
           /\ buf'[At(Stored)] = b
           /\ buf' \in [Places -> 0 .. 255]
<1>1. pc # "got" /\ UNCHANGED <<pc, p_tail, got>>
  BY DEF KeyboardHandler, RingInv, IntsOffInGet
<1>2. ~SettingUp /\ lost = {} /\ count # KBD_IN_BYTES
  BY DEF KeyboardHandler
<1>3. count \in 0 .. KBD_IN_BYTES - 1 /\ p_head \in Places /\ p_tail \in Places
  BY <1>2, KeyboardAssumption DEF RingInv, RingType
<1>4. buf' = [buf EXCEPT ![p_head] = b] /\ count' = count + 1
  BY <1>3, KeyboardAssumption DEF KeyboardHandler
<1>5. InRing(count)
  BY <1>1, <1>2 DEF RingInv, Ring
<1>6. At(count) = p_head
  BY <1>3, <1>5, AtIs
<1>7. \A n : At(n)' = At(n)
  BY <1>1 DEF At
<1>8. Stored = count /\ Stored' = count + 1 /\ UNCHANGED Gotten
  BY <1>1, <1>4 DEF Stored, Gotten
<1>9. ASSUME NEW n \in 0 .. count - 1 PROVE buf'[At(n)] = buf[At(n)]
  <2>1. n \in 0 .. KBD_IN_BYTES - 1 /\ n # count
    BY <1>3, KeyboardAssumption
  <2>2. At(n) \in Places /\ At(n) # p_head
    BY <1>3, <1>6, <2>1, AtIs
  <2> QED
    BY <1>4, <2>2 DEF BytesType
<1>10. buf'[p_head] = b /\ buf' \in [Places -> 0 .. 255]
  BY <1>3, <1>4 DEF BytesType
<1>11. \A n \in 0 .. Stored - 1 : buf'[At(n)] = buf[At(n)]
  BY <1>8, <1>9, Zenon
<1>12. Stored < KBD_IN_BYTES /\ Stored' = Stored + 1
  BY <1>3, <1>8, KeyboardAssumption
<1> QED
  BY <1>6, <1>7, <1>8, <1>10, <1>11, <1>12, Zenon

\* A sequence of bytes without its first
LEMMA TailIs ==
    ASSUME NEW s \in Seq(0 .. 255), s # <<>>
    PROVE  /\ Tail(s) \in Seq(0 .. 255) /\ Len(Tail(s)) = Len(s) - 1 /\ Len(s) >= 1
           /\ Head(s) = s[1] /\ s[1] \in 0 .. 255
           /\ \A i \in 1 .. Len(s) - 1 : Tail(s)[i] = s[i + 1]
<1>1. Tail(s) \in Seq(0 .. 255) /\ Len(Tail(s)) = Len(s) - 1 /\ Head(s) = s[1]
  OBVIOUS
<1>2. Len(s) \in Nat /\ Len(s) # 0
  OBVIOUS
<1>3. s[1] \in 0 .. 255
  <2>1. Len(s) \in Nat /\ Len(s) >= 1
    BY <1>2
  <2> QED
    BY <2>1, ElementOfSeq
<1>4. \A i \in 1 .. Len(s) - 1 : Tail(s)[i] = s[i + 1]
  BY HeadTailProperties
<1> QED
  BY <1>1, <1>2, <1>3, <1>4

\* A byte that comes is one the keyboard had to send.
LEMMA SendKeeps ==
    ASSUME RingInv, BytesType, SendByte, lost' = {}
    PROVE  Keeps /\ BytesType'
<1> DEFINE b == Head(sending)
           L == Len(Gotten)
<1>1. b \in 0 .. 255 /\ b = sending[1] /\ sending' = Tail(sending) /\ KeyboardHandler(b)
  BY TailIs DEF SendByte, BytesType
<1>2. /\ sending' \in Seq(0 .. 255) /\ Len(sending') = Len(sending) - 1 /\ Len(sending) >= 1
      /\ \A i \in 1 .. Len(sending) - 1 : sending'[i] = sending[i + 1]
  BY TailIs DEF SendByte, BytesType
<1>3. /\ Stored' = Stored + 1 /\ UNCHANGED Gotten
      /\ \A n : At(n)' = At(n)
      /\ \A n \in 0 .. Stored - 1 : buf'[At(n)] = buf[At(n)]
      /\ buf'[At(Stored)] = b
      /\ buf' \in [Places -> 0 .. 255]
  BY <1>1, HandlerStores, Zenon
<1>4. L \in Nat /\ Stored \in Nat /\ Len(sending) \in Nat
  BY FlyingIs
<1>5. Flying' = Flying
  BY <1>2, <1>3, <1>4 DEF Flying
<1>6. ASSUME NEW n \in 1 .. Flying PROVE Byte(n)' = Byte(n)
  <2>1. n \in Nat /\ n >= 1 /\ n <= L + Stored + Len(sending)
    BY <1>4 DEF Flying
  <2> HIDE DEF b
  <2>2. Byte(n)' = IF n <= L THEN Gotten[n]
                   ELSE IF n <= L + (Stored + 1) THEN buf'[At(n - L - 1)]
                   ELSE sending'[n - L - (Stored + 1)]
    BY <1>3, Zenon DEF Byte
  <2>3. CASE n <= L
    BY <1>4, <2>1, <2>2, <2>3 DEF Byte
  <2>4. CASE n > L /\ n <= L + Stored
    <3>1. n - L - 1 \in 0 .. Stored - 1
      BY <1>4, <2>1, <2>4
    <3>2. buf'[At(n - L - 1)] = buf[At(n - L - 1)]
      BY <1>3, <3>1, Zenon
    <3> QED
      BY <1>4, <2>1, <2>2, <2>4, <3>2 DEF Byte
  <2>5. CASE n = L + Stored + 1
    <3>1. n - L - 1 = Stored /\ n - L - Stored = 1
      BY <1>4, <2>1, <2>5
    <3> QED
      BY <1>1, <1>3, <1>4, <2>1, <2>2, <2>5, <3>1 DEF Byte
  <2>6. CASE n > L + Stored + 1
    <3> DEFINE i == n - L - (Stored + 1)
    <3>1. i \in 1 .. Len(sending) - 1 /\ i + 1 = n - L - Stored
      BY <1>4, <2>1, <2>6
    <3>2. sending'[i] = sending[n - L - Stored]
      BY <1>2, <3>1
    <3> QED
      BY <1>4, <2>1, <2>2, <2>6, <3>2 DEF Byte
  <2> QED
    BY <1>4, <2>1, <2>3, <2>4, <2>5, <2>6
<1>7. BytesType'
  BY <1>2, <1>3 DEF BytesType, KeyboardHandler, SendByte
<1> QED
  BY <1>5, <1>6, <1>7 DEF Keeps

\* The answer to a command is a byte of its own.
LEMMA AckAdds ==
    ASSUME RingInv, BytesType, SendAck, lost' = {}
    PROVE  Adds(<<ACK>>) /\ BytesType'
<1> DEFINE L == Len(Gotten)
<1>1. ACK \in 0 .. 255 /\ sending = <<>> /\ sending' = <<>> /\ KeyboardHandler(ACK)
  BY DEF SendAck, ACK
<1>2. /\ Stored' = Stored + 1 /\ UNCHANGED Gotten
      /\ \A n : At(n)' = At(n)
      /\ \A n \in 0 .. Stored - 1 : buf'[At(n)] = buf[At(n)]
      /\ buf'[At(Stored)] = ACK
      /\ buf' \in [Places -> 0 .. 255]
  BY <1>1, HandlerStores, Zenon
<1>3. L \in Nat /\ Stored \in Nat /\ Len(sending) = 0 /\ Len(sending') = 0
  BY <1>1, FlyingIs
<1>4. Flying = L + Stored /\ Flying' = Flying + 1
  BY <1>2, <1>3 DEF Flying
<1>5. \A n : Byte(n)' = IF n <= L THEN Gotten[n]
                        ELSE IF n <= L + (Stored + 1) THEN buf'[At(n - L - 1)]
                        ELSE sending'[n - L - (Stored + 1)]
  BY <1>2, Zenon DEF Byte
<1>6. ASSUME NEW n \in 1 .. Flying PROVE Byte(n)' = Byte(n)
  <2>1. n \in Nat /\ n >= 1 /\ n <= L + Stored
    BY <1>3, <1>4
  <2>2. CASE n <= L
    BY <1>3, <1>5, <2>1, <2>2 DEF Byte
  <2>3. CASE n > L
    <3>1. n - L - 1 \in 0 .. Stored - 1
      BY <1>3, <2>1, <2>3
    <3>2. buf'[At(n - L - 1)] = buf[At(n - L - 1)]
      BY <1>2, <3>1, Zenon
    <3> QED
      BY <1>3, <1>5, <2>1, <2>3, <3>2 DEF Byte
  <2> QED
    BY <1>3, <2>1, <2>2, <2>3
<1>7. ASSUME NEW n \in Flying + 1 .. Flying + 1 PROVE Byte(n)' = ACK
  <2>1. n = L + Stored + 1
    BY <1>3, <1>4
  <2>2. n - L - 1 = Stored
    BY <1>3, <2>1
  <2> QED
    BY <1>2, <1>3, <1>5, <2>1, <2>2
<1>8. \A n \in Flying + 1 .. Flying + 1 : <<ACK>>[n - Flying] = ACK
  BY <1>3, <1>4
<1>9. BytesType'
  BY <1>1, <1>2 DEF BytesType, KeyboardHandler, SendAck
<1>10. Len(<<ACK>>) = 1
  OBVIOUS
<1> QED
  BY <1>4, <1>6, <1>7, <1>8, <1>9, <1>10 DEF Adds

\* A step that moves no byte
LEMMA StillKeeps ==
    ASSUME UNCHANGED <<Gotten, Stored, p_tail, buf, sending>>
    PROVE  Keeps
<1>1. \A n : At(n)' = At(n)
  BY DEF At
<1>2. \A n : Byte(n)' = Byte(n)
  BY <1>1, Zenon DEF Byte
<1> QED
  BY <1>2, Zenon DEF Keeps, Flying

\* get_byte_from_kbdbuf moves a byte from the buffer to the code.
LEMMA GetKeeps ==
    ASSUME RingInv, BytesType, GetByte
    PROVE  Keeps /\ BytesType'
<1> DEFINE L == Len(got)
           x == buf[p_tail]
<1>1. /\ pc = "get" /\ pc' = "got" /\ p_tail' = Wrap(p_tail) /\ got' = Append(got, x)
      /\ UNCHANGED <<buf, count, sending>>
  BY DEF GetByte, keyboard
<1>2. p_tail \in Places /\ count \in 0 .. KBD_IN_BYTES /\ x \in 0 .. 255 /\ count > 0
  BY DEF GetByte, RingInv, RingType, BytesType
<1>3. L \in Nat /\ count \in Nat /\ Len(sending) \in Nat
  BY KeyboardAssumption, <1>2 DEF BytesType
<1>4. /\ got' \in Seq(0 .. 255) /\ Len(got') = L + 1
      /\ got'[L + 1] = x /\ \A i \in 1 .. L : got'[i] = got[i]
  BY <1>1, <1>2, AppendProperties DEF BytesType
<1>5. Gotten = got /\ Gotten' = got' /\ Stored = count /\ Stored' = count - 1
  BY <1>1 DEF Gotten, Stored
<1>6. Flying' = Flying /\ Flying = L + count + Len(sending)
  BY <1>1, <1>3, <1>4, <1>5 DEF Flying
<1>7. ASSUME NEW n \in 1 .. Flying PROVE Byte(n)' = Byte(n)
  <2>1. n \in Nat /\ n >= 1 /\ n <= L + count + Len(sending)
    BY <1>3, <1>6
  <2>2. PICK l : l = L /\ Len(got') = l + 1
    BY <1>4
  <2>3. Byte(n)' = IF n <= l + 1 THEN got'[n]
                   ELSE IF n <= l + 1 + (count - 1) THEN buf[At(n - (l + 1) - 1)']
                   ELSE sending[n - (l + 1) - (count - 1)]
    BY <1>1, <1>5, <2>2, Zenon DEF Byte
  <2>4. Byte(n) = IF n <= l THEN got[n]
                  ELSE IF n <= l + count THEN buf[At(n - l - 1)]
                  ELSE sending[n - l - count]
    BY <1>5, <2>2, Zenon DEF Byte
  <2> HIDE DEF L, x
  <2>5. CASE n <= l
    BY <1>3, <2>2, <1>4, <2>1, <2>3, <2>4, <2>5
  <2>6. CASE n = l + 1
    <3>1. n - l - 1 = 0 /\ 0 \in 0 .. KBD_IN_BYTES - 1
      BY <1>3, <2>2, <2>6, KeyboardAssumption
    <3>2. At(n - l - 1) = p_tail
      BY <1>2, <3>1, AtIs
    <3> QED
      BY <1>2, <1>3, <2>2, <1>4, <2>1, <2>3, <2>4, <2>6, <3>2 DEF x, L
  <2>7. CASE n > l + 1 /\ n <= l + count
    <3>1. PICK i : i = n - (l + 1) - 1
      OBVIOUS
    <3>2. i \in 0 .. KBD_IN_BYTES - 1 /\ i + 1 < KBD_IN_BYTES /\ i + 1 = n - l - 1
      BY <1>2, <1>3, <2>2, <2>1, <2>7, <3>1, KeyboardAssumption DEF L
    <3>3. At(i)' = At(n - l - 1)
      <4>1. At(i)' = At(i + 1)
        BY <1>1, <1>2, <3>2, AtIs
      <4> QED
        BY <3>2, <4>1
    <3> QED
      BY <1>3, <2>2, <2>1, <2>3, <2>4, <2>7, <3>1, <3>3
  <2>8. CASE n > l + count
    <3>1. n - (l + 1) - (count - 1) = n - l - count
      BY <1>3, <2>2, <2>1
    <3> QED
      BY <1>2, <1>3, <2>2, <2>1, <2>3, <2>4, <2>8, <3>1
  <2> QED
    BY <1>3, <2>2, <2>1, <2>5, <2>6, <2>7, <2>8
<1>8. BytesType'
  BY <1>1, <1>4 DEF BytesType
<1> QED
  BY <1>6, <1>7, <1>8 DEF Keeps

\* A press or a release adds its code.
LEMMA StrikeAdds ==
    ASSUME RingInv, BytesType, sending = <<>>, sending' \in Seq(0 .. 255),
           UNCHANGED <<pc, count, got, p_tail, buf>>
    PROVE  Adds(sending')
<1> DEFINE L == Len(Gotten)
<1>1. UNCHANGED Gotten /\ UNCHANGED Stored /\ \A n : At(n)' = At(n)
  BY DEF Gotten, Stored, At
<1>2. L \in Nat /\ Stored \in Nat /\ Len(sending) = 0 /\ Len(sending') \in Nat
  BY FlyingIs
<1>3. Flying = L + Stored /\ Flying' = Flying + Len(sending')
  BY <1>1, <1>2 DEF Flying
<1>4. \A n : Byte(n)' = IF n <= L THEN Gotten[n]
                        ELSE IF n <= L + Stored THEN buf[At(n - L - 1)]
                        ELSE sending'[n - L - Stored]
  BY <1>1, Zenon DEF Byte
<1>5. ASSUME NEW n \in 1 .. Flying PROVE Byte(n)' = Byte(n)
  <2>1. n <= L + Stored
    BY <1>2, <1>3
  <2> QED
    BY <1>4, <2>1, Zenon DEF Byte
<1>6. ASSUME NEW n \in Flying + 1 .. Flying + Len(sending')
      PROVE  Byte(n)' = sending'[n - Flying]
  <2>1. ~(n <= L) /\ ~(n <= L + Stored) /\ n - L - Stored = n - Flying
    BY <1>2, <1>3
  <2> QED
    BY <1>4, <2>1, Zenon
<1> QED
  BY <1>3, <1>5, <1>6 DEF Adds

\* A decoded code is gone.
LEMMA DecodeDrops ==
    ASSUME RingInv, BytesType, Decode
    PROVE  Drops(Len(got))
<1> DEFINE L == Len(got)
<1>1. /\ pc = "decode" /\ pc' \in {"write", "leds"}
      /\ UNCHANGED <<buf, p_tail, count, got, sending>>
  BY DEF Decode, Goto, kbd, keyboard
<1>2. Gotten = got /\ Gotten' = <<>> /\ Stored = count /\ Stored' = count
      /\ \A n : At(n)' = At(n)
  BY <1>1 DEF Gotten, Stored, At
<1>3. L \in Nat /\ count \in Nat /\ Len(sending) \in Nat /\ Len(Gotten') = 0
  BY <1>2, FlyingIs
<1>4. Flying = L + count + Len(sending) /\ Flying' = Flying - L
  BY <1>1, <1>2, <1>3 DEF Flying
<1>5. ASSUME NEW n \in 1 .. Flying - L PROVE Byte(n)' = Byte(n + L)
  <2>1. n \in Nat /\ n >= 1
    BY <1>3, <1>4
  <2>2. PICK l, m : l = L /\ m = n + l
    OBVIOUS
  <2>3. Byte(n)' = IF n <= Len(Gotten') THEN Gotten'[n]
                   ELSE IF n <= Len(Gotten') + count THEN buf[At(n - Len(Gotten') - 1)]
                   ELSE sending[n - Len(Gotten') - count]
    <3>1. \A j : buf'[At(j)'] = buf[At(j)]
      BY <1>1, <1>2, Zenon
    <3>2. \A j : j = Len(Gotten') => buf'[At(n - Len(Gotten) - 1)'] = buf[At(n - j - 1)]
      BY <1>1 DEF At
    <3> QED
      BY <1>1, <1>2, <3>2, Zenon DEF Byte
  <2>4. Byte(m) = IF m <= l THEN got[m]
                  ELSE IF m <= l + count THEN buf[At(m - l - 1)]
                  ELSE sending[m - l - count]
    BY <1>2, <2>2, Zenon DEF Byte
  <2>5. /\ ~(n <= Len(Gotten')) /\ ~(m <= l) /\ (n <= Len(Gotten') + count <=> m <= l + count)
        /\ n - Len(Gotten') - 1 = m - l - 1 /\ n - Len(Gotten') - count = m - l - count
    BY <1>3, <2>1, <2>2
  <2> QED
    BY <2>2, <2>3, <2>4, <2>5, Zenon
<1> QED
  BY <1>4, <1>5 DEF Drops

-----------------------------------------------------------------------------
(* The types *)

TypeInv ==
    /\ BytesType
    /\ Len(got) <= 6
    /\ pc = "get" => Len(got) <= 5
    /\ pc \in {"got", "decode"} => got # <<>>
    /\ int_enabled \in BOOLEAN /\ acks \in Nat
    /\ tty \in Tty /\ current \in Tty /\ aim \in Tty
    /\ mods \subseteq Modifiers /\ locks \subseteq Locks /\ lit \subseteq Locks
    /\ \E S : in_buf \in [Tty -> Seq(S)]
    /\ \A t \in Tty : Len(in_buf[t]) <= TTY_IN_BYTES
    /\ \E S : owed \in Seq(S)
    /\ keys \in KeySets /\ down \subseteq keys /\ Pause \notin down

\* What a step of TTY but for those that decode leaves alone
Spared == <<mods, locks, current, in_buf, owed, aim, lit, keys, down>>

\* The keys that may be struck are keys.
LEMMA KeysAreKeys ==
    ASSUME TypeInv, NEW k \in keys
    PROVE  IsKey(k)
BY KeySetsAssumption DEF TypeInv

\* No code is longer than six bytes.
LEMMA NeedsByteShort ==
    ASSUME got \in Seq(0 .. 255), NeedsByte
    PROVE  Len(got) <= 5
<1>1. PICK code \in Longs : Len(got) \in 1 .. Len(code) - 1
  BY NeedsByteIs
<1>2. Len(code) \in 4 .. 6
  BY LongsAre
<1>3. \A n \in 4 .. 6 : \A m \in 1 .. n - 1 : m <= 5
  OBVIOUS
<1> QED
  BY <1>1, <1>2, <1>3, Zenon

\* An effect that happens leaves a sequence of those owed.
LEMMA OwedStays ==
    ASSUME TypeInv, NEW con, NEW key, Effect(con, key)
    PROVE  (\E S : owed \in Seq(S))'
<1>1. PICK S : owed \in Seq(S)
  BY DEF TypeInv
<1>2. owed' \in Seq(S)
  <2>1. CASE owed = <<>>
    BY <1>1, <2>1 DEF Effect
  <2>2. CASE owed # <<>>
    BY <1>1, <2>2 DEF Effect
  <2> QED
    BY <2>1, <2>2
<1> QED
  BY <1>2

\* The types of what a step does not touch
LEMMA SparedType ==
    ASSUME TypeInv, UNCHANGED Spared
    PROVE  /\ current' \in Tty /\ aim' \in Tty
           /\ mods' \subseteq Modifiers /\ locks' \subseteq Locks /\ lit' \subseteq Locks
           /\ (\E S : in_buf \in [Tty -> Seq(S)])'
           /\ (\A t \in Tty : Len(in_buf[t]) <= TTY_IN_BYTES)'
           /\ (\E S : owed \in Seq(S))'
           /\ keys' \in KeySets /\ down' \subseteq keys' /\ Pause \notin down'
BY DEF TypeInv, Spared, Tty

\* The types after keyboard_handler
LEMMA HandlerType ==
    ASSUME RingInv, TypeInv, NEW b \in 0 .. 255, KeyboardHandler(b), acks' \in Nat,
           sending' \in Seq(0 .. 255)
    PROVE  TypeInv'
<1>1. UNCHANGED <<pc, tty, got, int_enabled>> /\ UNCHANGED Spared
  BY DEF KeyboardHandler, Spared, decoder
<1>2. BytesType'
  <2>1. buf' \in [Places -> 0 .. 255]
    BY DEF KeyboardHandler, TypeInv, BytesType
  <2> QED
    BY <1>1, <2>1 DEF TypeInv, BytesType, Places
<1>3. /\ Len(got') <= 6 /\ (pc' = "get" => Len(got') <= 5)
      /\ (pc' \in {"got", "decode"} => got' # <<>>) /\ int_enabled' \in BOOLEAN /\ tty' \in Tty
  BY <1>1 DEF TypeInv
<1> QED
  BY <1>1, <1>2, <1>3, SparedType, Zenon DEF TypeInv, Tty

\* The types after the rest of keyboard_read
LEMMA DecodeType ==
    ASSUME RingInv, TypeInv, Decode
    PROVE  TypeInv'
<1>1. /\ pc' \in {"write", "leds"}
      /\ UNCHANGED <<buf, sending, got, int_enabled, acks, tty, aim, lit, keys, down>>
  BY DEF Decode, Goto, kbd, keyboard
<1>2. BytesType'
  BY <1>1 DEF TypeInv, BytesType, Places
<1>3. mods' \subseteq Modifiers
  BY DEF Decode, SetMods, TypeInv, decoder
<1>4. locks' \subseteq Locks
  BY DEF Decode, TypeInv, decoder
<1>5. ASSUME NEW key, InProcess(key)
      PROVE  /\ current' \in Tty
             /\ (\E S : in_buf \in [Tty -> Seq(S)])'
             /\ (\A t \in Tty : Len(in_buf[t]) <= TTY_IN_BYTES)'
             /\ (\E S : owed \in Seq(S))'
  <2>1. CASE UNCHANGED <<current, in_buf, owed>>
    BY <2>1 DEF TypeInv, Tty
  <2>2. CASE SelectConsole(key.row) /\ Effect(tty, key) /\ UNCHANGED in_buf
    BY <2>2, OwedStays DEF TypeInv, Tty, SelectConsole
  <2>3. CASE Effect(tty, key) /\ UNCHANGED <<current, in_buf>>
    BY <2>3, OwedStays DEF TypeInv, Tty
  <2>4. CASE PutKey(key) /\ UNCHANGED <<current, owed>>
    <3>1. PICK S : in_buf \in [Tty -> Seq(S)]
      BY DEF TypeInv
    <3>2. CASE ~(Len(in_buf[tty]) < TTY_IN_BYTES)
      BY <2>4, <3>2 DEF PutKey, TypeInv, Tty
    <3>3. CASE Len(in_buf[tty]) < TTY_IN_BYTES
      <4>1. /\ in_buf' = [in_buf EXCEPT ![tty] = Append(in_buf[tty], key)]
            /\ tty \in Tty
        BY <2>4, <3>3 DEF PutKey, TypeInv
      <4>2. \A t \in Tty : in_buf[t] \in Seq(S \cup {key})
        BY <3>1
      <4>3. /\ Append(in_buf[tty], key) \in Seq(S \cup {key})
            /\ Len(Append(in_buf[tty], key)) <= TTY_IN_BYTES
        BY <3>3, <4>1, <4>2, KeyboardAssumption
      <4>4. in_buf' \in [Tty -> Seq(S \cup {key})]
        BY <3>1, <4>1, <4>2, <4>3
      <4>5. \A t \in Tty : Len(in_buf'[t]) <= TTY_IN_BYTES
        BY <3>1, <4>1, <4>3 DEF TypeInv
      <4> QED
        BY <2>4, <4>4, <4>5 DEF TypeInv, Tty
    <3> QED
      BY <3>2, <3>3
  <2> QED
    BY <1>5, <2>1, <2>2, <2>3, <2>4 DEF InProcess
<1>6. /\ current' \in Tty
      /\ (\E S : in_buf \in [Tty -> Seq(S)])'
      /\ (\A t \in Tty : Len(in_buf[t]) <= TTY_IN_BYTES)'
      /\ (\E S : owed \in Seq(S))'
  <2>1. CASE UNCHANGED <<current, in_buf, owed>>
    BY <2>1 DEF TypeInv, Tty
  <2>2. CASE InProcess(Translated(Key, "NUM_LOCK" \in locks))
    BY <1>5, <2>2
  <2> QED
    BY <2>1, <2>2 DEF Decode, decoder
<1>7. /\ Len(got') <= 6 /\ (pc' = "get" => Len(got') <= 5)
      /\ (pc' \in {"got", "decode"} => got' # <<>>) /\ int_enabled' \in BOOLEAN
      /\ acks' \in Nat /\ tty' \in Tty /\ aim' \in Tty /\ lit' \subseteq Locks
      /\ keys' \in KeySets /\ down' \subseteq keys' /\ Pause \notin down'
  BY <1>1 DEF TypeInv
<1> QED
  BY <1>1, <1>2, <1>3, <1>4, <1>6, <1>7, Zenon DEF TypeInv, Tty

\* The types after a step of TTY
LEMMA TtyType ==
    ASSUME RingInv, TypeInv, TtyStep
    PROVE  TypeInv'
<1>1. UNCHANGED <<sending, aim, lit, keys, down>>
  BY DEF TtyStep, InitKeyboard, SetLeds, TtyDoRead, GetByte, TakenByte, Decode, TtyDoWrite,
         keyboard
<1>2. CASE InitKeyboard \/ SetLeds
  <2>1. /\ pc' \notin {"get", "got", "decode"} /\ acks' \in Nat
        /\ UNCHANGED <<buf, sending, got, int_enabled, tty>> /\ UNCHANGED Spared
    <3>1. CASE InitKeyboard
      BY <3>1 DEF InitKeyboard, Goto, keyboard, decoder, TypeInv, Spared
    <3>2. CASE SetLeds
      <4>1. /\ pc' \notin {"get", "got", "decode"} /\ acks' \in Nat
            /\ UNCHANGED <<got, tty>>
        <5>1. \E l \in {"ack 1", "ack 2", "read", "write"} : Goto(l)
          BY <3>2 DEF SetLeds
        <5>2. acks' \in {acks, acks + 1}
          BY <3>2 DEF SetLeds
        <5>3. acks \in Nat
          BY DEF TypeInv
        <5>4. acks' \in Nat
          BY <5>2, <5>3
        <5>5. pc' \notin {"get", "got", "decode"} /\ UNCHANGED <<got, tty>>
          BY <5>1 DEF Goto
        <5> QED
          BY <5>4, <5>5
      <4> QED
        BY <3>2, <4>1 DEF SetLeds, kbd, decoder, Spared
    <3> QED
      BY <1>2, <3>1, <3>2
  <2>2. BytesType' /\ Len(got') <= 6 /\ int_enabled' \in BOOLEAN /\ tty' \in Tty
    BY <2>1 DEF TypeInv, BytesType, Places
  <2> QED
    BY <2>1, <2>2, SparedType, Zenon DEF TypeInv, Tty
<1>3. CASE TtyDoRead
  <2>1. got' = <<>> /\ UNCHANGED <<buf, sending, int_enabled, tty, acks>> /\ UNCHANGED Spared
        /\ pc' \in {"get", "write"}
    BY <1>3 DEF TtyDoRead, keyboard, kbd, decoder, Spared
  <2>2. BytesType' /\ Len(got') <= 5 /\ Len(got') <= 6 /\ int_enabled' \in BOOLEAN
        /\ tty' \in Tty /\ acks' \in Nat
    BY <2>1 DEF TypeInv, BytesType, Places
  <2> QED
    BY <2>1, <2>2, SparedType, Zenon DEF TypeInv, Tty
<1>4. CASE GetByte
  <2>1. UNCHANGED <<tty, acks>> /\ UNCHANGED Spared /\ pc = "get" /\ pc' = "got"
        /\ int_enabled' = FALSE /\ got' = Append(got, buf[p_tail])
    BY <1>4 DEF GetByte, DisableInt, keyboard, decoder, Spared
  <2>2. Len(got') <= 6 /\ got' # <<>>
    <3>1. buf[p_tail] \in 0 .. 255 /\ got \in Seq(0 .. 255) /\ Len(got) <= 5
      BY <2>1 DEF RingInv, RingType, TypeInv, BytesType
    <3>2. Len(got') = Len(got) + 1 /\ Len(got) \in Nat /\ got' \in Seq(0 .. 255)
      BY <2>1, <3>1, AppendProperties
    <3> QED
      BY <3>1, <3>2, EmptySeq
  <2>3. BytesType' /\ int_enabled' \in BOOLEAN /\ tty' \in Tty /\ acks' \in Nat
    BY <1>4, <2>1, GetKeeps DEF TypeInv
  <2> QED
    BY <2>1, <2>2, <2>3, SparedType, Zenon DEF TypeInv, Tty
<1>5. CASE TakenByte
  <2>1. UNCHANGED <<buf, sending, got, tty, acks>> /\ UNCHANGED Spared /\ pc = "got"
        /\ pc' = (IF NeedsByte THEN "get" ELSE "decode") /\ int_enabled' = TRUE
    BY <1>5 DEF TakenByte, Goto, keyboard, decoder, Spared
  <2>2. pc' = "get" => Len(got') <= 5
    BY <2>1, NeedsByteShort DEF TypeInv, BytesType
  <2>3. BytesType' /\ int_enabled' \in BOOLEAN /\ tty' \in Tty /\ acks' \in Nat
        /\ Len(got') <= 6 /\ got' # <<>>
    BY <2>1 DEF TypeInv, BytesType, Places
  <2> QED
    BY <2>2, <2>3, <2>1, SparedType, Zenon DEF TypeInv, Tty
<1>6. CASE TtyDoWrite
  <2>1. /\ pc' = "read" /\ got' = <<>> /\ tty' = (tty + 1) % NR_CONSOLES
        /\ UNCHANGED <<buf, sending, int_enabled, acks, mods, locks, current>>
    BY <1>6 DEF TtyDoWrite, keyboard, kbd
  <2>2. tty' \in Tty
    BY <2>1, KeyboardAssumption DEF TypeInv, Tty
  <2>3. BytesType' /\ Len(got') <= 6
    BY <2>1 DEF TypeInv, BytesType, Places
  <2>4. /\ (\E S : in_buf \in [Tty -> Seq(S)])'
        /\ (\A t \in Tty : Len(in_buf[t]) <= TTY_IN_BYTES)'
        /\ (\E S : owed \in Seq(S))'
    <3>1. PICK S : in_buf \in [Tty -> Seq(S)]
      BY DEF TypeInv
    <3>2. CASE in_buf[tty] = <<>>
      BY <1>6, <3>2 DEF TtyDoWrite, TypeInv, Tty
    <3>3. CASE in_buf[tty] # <<>>
      <4>1. in_buf' = [in_buf EXCEPT ![tty] = Tail(in_buf[tty])]
            /\ Effect(tty, Head(in_buf[tty])) /\ tty \in Tty
        BY <1>6, <3>3 DEF TtyDoWrite, TypeInv
      <4>2. Tail(in_buf[tty]) \in Seq(S) /\ Len(Tail(in_buf[tty])) <= TTY_IN_BYTES
        <5>1. in_buf[tty] \in Seq(S) /\ Len(in_buf[tty]) <= TTY_IN_BYTES
          BY <3>1, <4>1 DEF TypeInv
        <5> QED
          BY <3>3, <5>1, KeyboardAssumption
      <4>3. in_buf' \in [Tty -> Seq(S)] /\ \A t \in Tty : Len(in_buf'[t]) <= TTY_IN_BYTES
        BY <3>1, <4>1, <4>2 DEF TypeInv
      <4> QED
        BY <4>1, <4>3, OwedStays DEF Tty
    <3> QED
      BY <3>2, <3>3
  <2>5. /\ int_enabled' \in BOOLEAN /\ acks' \in Nat /\ current' \in Tty /\ aim' \in Tty
        /\ mods' \subseteq Modifiers /\ locks' \subseteq Locks /\ lit' \subseteq Locks
        /\ keys' \in KeySets /\ down' \subseteq keys' /\ Pause \notin down'
    BY <1>1, <2>1 DEF TypeInv
  <2> QED
    BY <2>1, <2>2, <2>3, <2>4, <2>5, Zenon DEF TypeInv, Tty
<1> QED
  BY <1>2, <1>3, <1>4, <1>5, <1>6, DecodeType DEF TtyStep

\* The types after a step of the keyboard
LEMMA KeyboardType ==
    ASSUME RingInv, TypeInv, SendByte \/ SendAck \/ \E k \in keys : Press(k) \/ Release(k)
    PROVE  TypeInv'
<1>1. CASE SendByte
  <2>1. Head(sending) \in 0 .. 255 /\ sending' \in Seq(0 .. 255)
    BY <1>1, TailIs DEF SendByte, TypeInv, BytesType
  <2>2. acks' \in Nat /\ KeyboardHandler(Head(sending))
    BY <1>1 DEF SendByte, TypeInv
  <2> QED
    BY <2>1, <2>2, HandlerType
<1>2. CASE SendAck
  <2>1. acks' \in Nat /\ sending' \in Seq(0 .. 255) /\ ACK \in 0 .. 255 /\ KeyboardHandler(ACK)
    BY <1>2 DEF SendAck, TypeInv, BytesType, ACK
  <2> QED
    BY <2>1, HandlerType
<1>3. ASSUME NEW k \in keys, Press(k) \/ Release(k)
      PROVE  TypeInv'
  <2>1. IsKey(k)
    BY KeysAreKeys
  <2>2. /\ UNCHANGED <<buf, int_enabled, pc, tty, got, mods, locks, current, in_buf, keys, acks>>
    BY <1>3 DEF Press, Release, kbd, decoder
  <2>3. sending' \in Seq(0 .. 255)
    <3>1. CASE Press(k)
      <4>1. IsCode(k, TRUE) /\ sending' = Code(k, TRUE)
        BY <2>1, <3>1 DEF Press, IsCode, Code
      <4> QED
        BY <4>1, CodesAre
    <3>2. CASE Release(k)
      <4>1. IsCode(k, FALSE) /\ sending' = Code(k, FALSE)
        BY <2>1, <3>2 DEF Release, IsCode, Code, TypeInv
      <4> QED
        BY <4>1, CodesAre
    <3> QED
      BY <1>3, <3>1, <3>2
  <2>4. BytesType'
    BY <2>2, <2>3 DEF TypeInv, BytesType, Places
  <2>5. /\ (\E S : in_buf \in [Tty -> Seq(S)])'
        /\ (\A t \in Tty : Len(in_buf[t]) <= TTY_IN_BYTES)'
    BY <2>2 DEF TypeInv, Tty
  <2>6. (\E S : owed \in Seq(S))' /\ aim' \in Tty /\ lit' \subseteq Locks
    <3>1. CASE Press(k)
      <4> DEFINE e == [con |-> aim, key |-> Meant(k)]
      <4>1. owed' \in {owed, Append(owed, e)}
        BY <3>1 DEF Press
      <4>2. PICK S : owed \in Seq(S)
        BY DEF TypeInv
      <4> HIDE DEF e
      <4>3. owed' \in Seq(S \cup {e})
        BY <4>1, <4>2
      <4>4. aim' \in Tty
        BY <3>1 DEF Press, TypeInv
      <4>5. lit' \subseteq Locks
        BY <3>1 DEF Press, TypeInv
      <4> QED
        BY <4>3, <4>4, <4>5
    <3>2. CASE Release(k)
      BY <3>2 DEF Release, TypeInv
    <3> QED
      BY <1>3, <3>1, <3>2
  <2>7. down' \subseteq keys /\ Pause \notin down'
    BY <1>3 DEF Press, Release, TypeInv
  <2>8. /\ Len(got') <= 6 /\ (pc' = "get" => Len(got') <= 5)
        /\ (pc' \in {"got", "decode"} => got' # <<>>) /\ int_enabled' \in BOOLEAN /\ tty' \in Tty
        /\ acks' \in Nat /\ current' \in Tty
        /\ mods' \subseteq Modifiers /\ locks' \subseteq Locks /\ keys' \in KeySets
    BY <2>2 DEF TypeInv
  <2> QED
    BY <2>2, <2>4, <2>5, <2>6, <2>7, <2>8, Zenon DEF TypeInv, Tty
<1> QED
  BY <1>1, <1>2, <1>3

-----------------------------------------------------------------------------
(* What is on its way *)

\* keyboard_read is in the middle of a code of this length.
Fits(len) ==
    /\ pc = "get" => Len(got) < len
    /\ pc = "got" => Len(got) <= len
    /\ pc = "decode" => Len(got) = len

\* At p begins the code of the key k; it takes the decoder from the state st[p] to that
\* behind the code, and its effect, if it has one, is owed.
Leg(st, off, base, p, k, make) ==
    LET code == Code(k, make)
        q == p + Len(code) IN
    /\ IsCode(k, make)
    /\ q \in DOMAIN st
    /\ \A i \in 1 .. Len(code) : Byte(p - off + i) = code[i]
    /\ st[q] = After(st[p], k, make)
    /\ Counts(st[p], k, make) =>
         owed[st[q].n - base] = [con |-> st[p].con, key |-> KeyIn(st[p], k)]
    /\ p = off => Fits(Len(code))

\* The bytes from off on are codes, and lead from the decoder's state to the one the
\* keyboard has reached.  Bytes and effects are counted from the beginning: off bytes
\* have been decoded, base effects are done.
FlightFrom(st, off, base) ==
    /\ off \in Nat /\ base \in Nat
    /\ DOMAIN st \subseteq 0 .. off + Flying
    /\ \A p \in DOMAIN st : st[p] \in State
    /\ \A p \in DOMAIN st : \A q \in DOMAIN st : p <= q => st[p].n <= st[q].n
    /\ off \in DOMAIN st /\ st[off] = Now(base)
    /\ off + Flying \in DOMAIN st /\ st[off + Flying] = Then(base)
    /\ \A p \in DOMAIN st :
         off <= p /\ p < off + Flying => \E k, make : Leg(st, off, base, p, k, make)

Flight == \E st, off, base : FlightFrom(st, off, base)

\* TTY has stored a key only to print it next, on the console it is owed on.
Quiet ==
    /\ pc \in {"get", "got", "decode"} => Flying > 0 /\ tty = current
    /\ \A t \in Tty : in_buf[t] # <<>> =>
         /\ t = tty /\ pc = "write"
         /\ \E key : in_buf[t] = <<key>> /\ owed[1] = [con |-> tty, key |-> key]
    /\ ~strange

\* The end of the flight
LEMMA OwedCovers ==
    ASSUME RingInv, TypeInv, NEW st, NEW off, NEW base, FlightFrom(st, off, base),
           NEW p \in DOMAIN st
    PROVE  /\ p \in Nat /\ p <= off + Flying
           /\ st[p].n \in Nat /\ Len(owed) \in Nat /\ st[p].n <= base + Len(owed)
           /\ off <= p => base + Pending <= st[p].n
<1>1. off \in Nat /\ base \in Nat /\ Flying \in Nat
  BY FlyingIs DEF FlightFrom, TypeInv
<1>2. p \in 0 .. off + Flying
  BY DEF FlightFrom
<1>3. p \in Nat /\ p <= off + Flying
  BY <1>1, <1>2
<1>4. st[p].n \in Nat
  BY DEF FlightFrom, State
<1>5. Len(owed) \in Nat
  <2>1. PICK S : owed \in Seq(S)
    BY DEF TypeInv
  <2> QED
    BY <2>1
<1>6. st[p].n <= base + Len(owed)
  <2>1. st[p].n <= st[off + Flying].n
    BY <1>3 DEF FlightFrom
  <2>2. st[off + Flying].n = base + Len(owed)
    BY DEF FlightFrom, Then
  <2> QED
    BY <2>1, <2>2
<1>7. off <= p => base + Pending <= st[p].n
  <2>1. off <= p => st[off].n <= st[p].n
    BY DEF FlightFrom
  <2>2. st[off].n = base + Pending
    BY DEF FlightFrom, Now
  <2> QED
    BY <2>1, <2>2
<1> QED
  BY <1>3, <1>4, <1>5, <1>6, <1>7

\* A leg has the bytes that are left when it begins there.
LEMMA LegIs ==
    ASSUME RingInv, TypeInv, NEW st, NEW off, NEW base, FlightFrom(st, off, base),
           NEW p \in DOMAIN st, off <= p, NEW k, NEW make, Leg(st, off, base, p, k, make)
    PROVE  /\ Len(Code(k, make)) \in 1 .. 6
           /\ p + Len(Code(k, make)) \in DOMAIN st
           /\ p - off + Len(Code(k, make)) <= Flying
           /\ \A i \in 1 .. Len(Code(k, make)) : p - off + i \in 1 .. Flying
<1> DEFINE len == Len(Code(k, make))
<1>1. len \in 1 .. 6
  BY CodesAre DEF Leg
<1>2. p + len \in DOMAIN st
  BY DEF Leg
<1> HIDE DEF len
<1>3. p \in Nat /\ off \in Nat /\ Flying \in Nat /\ p + len <= off + Flying
  <2>1. p + len <= off + Flying
    BY <1>2, OwedCovers
  <2> QED
    BY <2>1, OwedCovers, FlyingIs DEF FlightFrom, TypeInv
<1>4. p - off + len <= Flying /\ \A i \in 1 .. len : p - off + i \in 1 .. Flying
  BY <1>1, <1>3
<1> QED
  BY <1>1, <1>2, <1>4 DEF len

\* Nothing is struck, decoded or done: only where the bytes are changes.
LEMMA FlightStays ==
    ASSUME RingInv, TypeInv, NEW st, NEW off, NEW base, FlightFrom(st, off, base),
           Keeps, UNCHANGED <<mods, locks, current, owed, down, lit, aim>>, Pending' = Pending,
           \A k, make :
             /\ IsCode(k, make) /\ Fits(Len(Code(k, make)))
             /\ Len(Code(k, make)) <= Flying
             /\ \A i \in 1 .. Len(Code(k, make)) : Byte(i) = Code(k, make)[i]
             => Fits(Len(Code(k, make)))'
    PROVE  FlightFrom(st, off, base)'
<1>1. Now(base)' = Now(base) /\ Then(base)' = Then(base) /\ Flying' = Flying
  BY DEF Now, Then, ModsHeld, Keeps
<1>2. ASSUME NEW p \in DOMAIN st, off <= p, NEW k, NEW make, Leg(st, off, base, p, k, make)
      PROVE  Leg(st, off, base, p, k, make)'
  <2> DEFINE code == Code(k, make)
             q == p + Len(code)
  <2>1. /\ IsCode(k, make) /\ q \in DOMAIN st /\ st[q] = After(st[p], k, make)
        /\ Counts(st[p], k, make) =>
             owed'[st[q].n - base] = [con |-> st[p].con, key |-> KeyIn(st[p], k)]
    BY <1>2 DEF Leg
  <2>2. \A i \in 1 .. Len(code) : Byte(p - off + i)' = code[i]
    <3>1. \A i \in 1 .. Len(code) : p - off + i \in 1 .. Flying
      BY <1>2, LegIs
    <3>2. \A i \in 1 .. Len(code) : Byte(p - off + i) = code[i]
      BY <1>2 DEF Leg
    <3> HIDE DEF code
    <3> QED
      BY <3>1, <3>2, Zenon DEF Keeps
  <2>3. p = off => Fits(Len(code))'
    <3> SUFFICES ASSUME p = off PROVE Fits(Len(code))'
      OBVIOUS
    <3>1. Fits(Len(code))
      BY <1>2 DEF Leg
    <3>2. Len(code) \in 1 .. 6 /\ p - off + Len(code) <= Flying
      BY <1>2, LegIs
    <3>3. off \in Nat /\ p \in Nat
      BY DEF FlightFrom
    <3>4. \A i \in 1 .. Len(code) : p - off + i = i
      BY <3>3
    <3>5. \A i \in 1 .. Len(code) : Byte(i) = code[i]
      BY <1>2, <3>4 DEF Leg
    <3>6. Len(code) <= Flying
      BY <3>2, <3>3
    <3> QED
      BY <2>1, <3>1, <3>5, <3>6
  <2> QED
    BY <2>1, <2>2, <2>3, Zenon DEF Leg
<1>3. \A p \in DOMAIN st :
        off <= p /\ p < off + Flying => \E k, make : Leg(st, off, base, p, k, make)'
  BY <1>2 DEF FlightFrom
<1> QED
  BY <1>1, <1>3, Zenon DEF FlightFrom

\* A code is added behind what is on its way.
LEMMA FlightGrows ==
    ASSUME RingInv, TypeInv, NEW st, NEW off, NEW base, FlightFrom(st, off, base), Quiet,
           NEW k, NEW make, IsCode(k, make), Adds(Code(k, make)),
           Then(base)' = After(Then(base), k, make),
           owed' = IF Counts(Then(base), k, make)
                   THEN Append(owed, [con |-> aim, key |-> KeyIn(Then(base), k)]) ELSE owed,
           UNCHANGED <<mods, locks, current, in_buf, tty, pc, got>>
    PROVE  Flight'
<1> DEFINE code == Code(k, make)
<1>1. off \in Nat /\ base \in Nat /\ Flying \in Nat /\ Len(code) \in 1 .. 6
      /\ Flying' = Flying + Len(code)
  BY FlyingIs, CodesAre DEF FlightFrom, TypeInv, Adds
<1> HIDE DEF code
<1>2. PICK end, last : end = off + Flying /\ last = end + Len(code)
  OBVIOUS
<1>3. end \in Nat /\ last \in Nat /\ end < last /\ last = off + Flying'
  <2>1. PICK m : m = Len(code)
    OBVIOUS
  <2>2. m \in Nat /\ m > 0
    BY <1>1, <2>1
  <2>3. Flying' = Flying + m /\ last = end + m
    BY <1>1, <1>2, <2>1
  <2> QED
    BY <1>1, <1>2, <2>2, <2>3
<1>4. DOMAIN st \subseteq 0 .. end /\ end \in DOMAIN st /\ off \in DOMAIN st
      /\ off <= end /\ st[end] = Then(base) /\ st[off] = Now(base)
  BY <1>1, <1>2 DEF FlightFrom
<1>5. last \notin DOMAIN st /\ \A p \in DOMAIN st : p \in Nat /\ p <= end /\ p < last
  BY <1>3, <1>4
<1>6. PICK st2 : st2 = [p \in DOMAIN st \cup {last} |->
                          IF p = last THEN After(Then(base), k, make) ELSE st[p]]
  OBVIOUS
<1>7. /\ DOMAIN st2 = DOMAIN st \cup {last} /\ st2[last] = Then(base)'
      /\ st2[last] = After(Then(base), k, make)
      /\ \A p \in DOMAIN st : st2[p] = st[p]
  BY <1>5, <1>6
<1>8. Then(base) \in State /\ After(Then(base), k, make) \in State
  <2>1. Then(base) \in State
    BY <1>4 DEF FlightFrom
  <2> QED
    BY <2>1, AfterIsState DEF IsCode
<1>9. Now(base)' = Now(base)
  BY DEF Now, Pending
<1>10. ASSUME NEW p \in DOMAIN st2 PROVE st2[p] \in State
  BY <1>7, <1>8 DEF FlightFrom
<1>11. ASSUME NEW p \in DOMAIN st2, NEW q \in DOMAIN st2, p <= q PROVE st2[p].n <= st2[q].n
  <2>1. CASE p \in DOMAIN st /\ q \in DOMAIN st
    BY <1>7, <1>11, <2>1 DEF FlightFrom
  <2>2. CASE p = last
    <3>1. q = last
      BY <1>3, <1>5, <1>7, <1>11, <2>2
    <3>2. st2[p].n \in Nat
      BY <1>10 DEF State
    <3> QED
      BY <2>2, <3>1, <3>2
  <2>3. CASE p \in DOMAIN st /\ q = last
    <3>1. st[p].n <= st[end].n
      BY <1>4, <1>5, <2>3 DEF FlightFrom
    <3>2. st[p].n \in Nat /\ Then(base).n \in Nat
      BY <1>8, <2>3 DEF FlightFrom, State
    <3>3. After(Then(base), k, make).n \in {Then(base).n, Then(base).n + 1}
      BY DEF After
    <3> HIDE DEF FlightFrom
    <3>4. st2[q].n = After(Then(base), k, make).n /\ st2[p].n = st[p].n
      BY <1>7, <2>3
    <3> QED
      BY <1>4, <3>1, <3>2, <3>3, <3>4
  <2> QED
    BY <1>7, <2>1, <2>2, <2>3
<1>12. PICK S : owed \in Seq(S)
  BY DEF TypeInv
<1>13. ASSUME NEW i \in 1 .. Len(owed) PROVE owed'[i] = owed[i]
  BY <1>12
<1>14. ASSUME NEW p \in DOMAIN st, off <= p, NEW k2, NEW make2, Leg(st, off, base, p, k2, make2)
       PROVE  Leg(st2, off, base, p, k2, make2)'
  <2> DEFINE code2 == Code(k2, make2)
             q == p + Len(code2)
  <2>1. IsCode(k2, make2) /\ q \in DOMAIN st /\ st[q] = After(st[p], k2, make2)
    BY <1>14 DEF Leg
  <2>2. q \in DOMAIN st2 /\ st2[q] = After(st2[p], k2, make2)
    BY <1>7, <2>1
  <2>3. \A i \in 1 .. Len(code2) : Byte(p - off + i)' = code2[i]
    <3>1. \A i \in 1 .. Len(code2) : p - off + i \in 1 .. Flying
      BY <1>14, LegIs
    <3>2. \A i \in 1 .. Len(code2) : Byte(p - off + i) = code2[i]
      BY <1>14 DEF Leg
    <3> HIDE DEF code2
    <3> QED
      BY <3>1, <3>2, Zenon DEF Adds
  <2>4. Counts(st2[p], k2, make2) =>
          owed'[st2[q].n - base] = [con |-> st2[p].con, key |-> KeyIn(st2[p], k2)]
    <3> SUFFICES ASSUME Counts(st[p], k2, make2)
                 PROVE  owed'[st[q].n - base] = [con |-> st[p].con, key |-> KeyIn(st[p], k2)]
      BY <1>7, <2>1
    <3>1. st[q].n = st[p].n + 1
      BY <2>1 DEF After
    <3>2. st[p].n \in Nat /\ st[q].n \in Nat /\ Len(owed) \in Nat
          /\ base + Pending <= st[p].n /\ st[q].n <= base + Len(owed)
      BY <1>14, <2>1, OwedCovers
    <3>3. Pending \in Nat
      BY DEF Pending
    <3> HIDE DEF q, code2
    <3>4. st[q].n - base \in 1 .. Len(owed)
      BY <1>1, <3>1, <3>2, <3>3
    <3>5. owed[st[q].n - base] = [con |-> st[p].con, key |-> KeyIn(st[p], k2)]
      BY <1>14 DEF Leg, q, code2
    <3> QED
      BY <1>13, <3>4, <3>5
  <2>5. p = off => Fits(Len(code2))'
    <3>1. p = off => Fits(Len(code2))
      BY <1>14 DEF Leg
    <3> QED
      BY <3>1 DEF Fits
  <2> QED
    BY <2>1, <2>2, <2>3, <2>4, <2>5, Zenon DEF Leg
<1>15. Leg(st2, off, base, end, k, make)'
  <2>1. IsCode(k, make) /\ last \in DOMAIN st2 /\ st2[last] = After(st2[end], k, make)
    BY <1>4, <1>7
  <2>2. ASSUME NEW i \in 1 .. Len(code) PROVE Byte(end - off + i)' = code[i]
    <3>1. PICK n : n = end - off + i
      OBVIOUS
    <3>2. n \in Flying + 1 .. Flying + Len(code) /\ n - Flying = i
      BY <1>1, <1>2, <3>1
    <3>3. Byte(n)' = code[n - Flying]
      BY <3>2 DEF Adds, code
    <3> QED
      BY <3>1, <3>2, <3>3
  <2>3. Counts(st2[end], k, make) =>
          owed'[st2[last].n - base] = [con |-> st2[end].con, key |-> KeyIn(st2[end], k)]
    <3> SUFFICES ASSUME Counts(Then(base), k, make)
                 PROVE  owed'[After(Then(base), k, make).n - base]
                          = [con |-> aim, key |-> KeyIn(Then(base), k)]
      <4>1. st2[end] = Then(base) /\ st2[last] = After(Then(base), k, make)
            /\ Then(base).con = aim
        BY <1>4, <1>7 DEF Then
      <4> QED
        BY <4>1, Zenon
    <3>1. After(Then(base), k, make).n - base = Len(owed) + 1
      <4>1. After(Then(base), k, make).n = base + Len(owed) + 1
        BY DEF After, Then
      <4>2. Len(owed) \in Nat
        BY <1>12
      <4> QED
        BY <1>1, <4>1, <4>2
    <3> DEFINE e == [con |-> aim, key |-> KeyIn(Then(base), k)]
    <3>2. owed' = Append(owed, e)
      OBVIOUS
    <3> HIDE DEF e
    <3>3. Append(owed, e)[Len(owed) + 1] = e
      BY <1>12
    <3> QED
      BY <3>1, <3>2, <3>3, Zenon DEF e
  <2>4. end = off => Fits(Len(code))'
    <3>1. end = off => pc \notin {"get", "got", "decode"}
      BY <1>1, <1>2 DEF Quiet
    <3> QED
      BY <3>1 DEF Fits
  <2>5. \A i \in 1 .. Len(code) : Byte(end - off + i)' = code[i]
    BY <2>2
  <2> QED
    BY <1>2, <2>1, <2>3, <2>4, <2>5, Zenon DEF Leg, code
<1>16. ASSUME NEW p \in DOMAIN st2, off <= p, p < last
       PROVE  \E k2, make2 : Leg(st2, off, base, p, k2, make2)'
  <2>1. CASE p \in DOMAIN st /\ p < end
    <3>1. PICK k2, make2 : Leg(st, off, base, p, k2, make2)
      BY <1>16, <1>2, <2>1 DEF FlightFrom
    <3> QED
      BY <1>14, <1>16, <2>1, <3>1
  <2>2. CASE p = end
    BY <1>15, <2>2
  <2>3. (p \in DOMAIN st /\ p < end) \/ p = end
    BY <1>3, <1>5, <1>7, <1>16
  <2> QED
    BY <1>3, <1>16, <2>1, <2>2, <2>3
<1>17. FlightFrom(st2, off, base)'
  <2>1. DOMAIN st2 \subseteq 0 .. off + Flying'
    BY <1>3, <1>5, <1>7
  <2>2. off \in DOMAIN st2 /\ st2[off] = Now(base)'
    BY <1>4, <1>7, <1>9
  <2>3. off + Flying' \in DOMAIN st2 /\ st2[off + Flying'] = Then(base)'
    BY <1>3, <1>7
  <2>4. \A p \in DOMAIN st2 : off <= p /\ p < off + Flying' =>
          \E k2, make2 : Leg(st2, off, base, p, k2, make2)'
    BY <1>3, <1>16
  <2> QED
    BY <1>1, <1>10, <1>11, <2>1, <2>2, <2>3, <2>4 DEF FlightFrom
<1> QED
  BY <1>17 DEF Flight

\* The effect that follows one behind c is in range when the first d owed are gone.
LEMMA PlaceInOwed ==
    ASSUME NEW a \in Nat, NEW b \in Nat, NEW c \in Nat, NEW len \in Nat,
           NEW base \in Nat, NEW d \in Nat,
           a = b + 1, c <= b, a <= base + len, base + d <= c
    PROVE  a - (base + d) \in 1 .. len - d /\ a - (base + d) + d = a - base
<1>1. a - (base + d) \in Int /\ len - d \in Int
  OBVIOUS
<1>2. 1 <= a - (base + d)
  OBVIOUS
<1>3. a - (base + d) <= len - d
  OBVIOUS
<1>4. a - (base + d) + d = a - base
  OBVIOUS
<1> QED
  BY <1>1, <1>2, <1>3, <1>4

\* The decoder moves on to q, and with d = 1 the first effect owed happens.
LEMMA FlightMoves ==
    ASSUME RingInv, TypeInv, NEW st, NEW off, NEW base, FlightFrom(st, off, base),
           NEW q \in DOMAIN st, off <= q, Drops(q - off), NEW d \in {0, 1},
           base + d <= st[q].n, st[q] = Now(base + d)',
           owed' = IF d = 0 THEN owed ELSE Tail(owed),
           UNCHANGED <<down, lit, aim>>, pc' \notin {"get", "got", "decode"}
    PROVE  FlightFrom(st, q, base + d)'
<1>1. off \in Nat /\ base \in Nat /\ Flying \in Nat /\ q \in Nat /\ q <= off + Flying
      /\ st[q].n \in Nat /\ st[q].n <= base + Len(owed) /\ Len(owed) \in Nat
  BY FlyingIs, OwedCovers DEF FlightFrom, TypeInv
<1>2. Flying' = Flying - (q - off) /\ q + Flying' = off + Flying
  BY <1>1 DEF Drops
<1>3. PICK S : owed \in Seq(S)
  BY DEF TypeInv
<1>4. /\ Len(owed') = Len(owed) - d
      /\ \A i \in 1 .. Len(owed) - d : owed'[i] = owed[i + d]
  <2>1. CASE d = 0
    BY <1>1, <2>1
  <2>2. CASE d = 1
    <3>1. owed # <<>>
      <4>1. Len(owed) > 0
        BY <1>1, <2>2
      <4> QED
        BY <4>1
    <3>2. owed' = Tail(owed)
      BY <2>2
    <3>3. Len(owed') = Len(owed) - 1
      BY <1>3, <3>1, <3>2
    <3>4. \A i \in 1 .. Len(owed) - 1 : owed'[i] = owed[i + 1]
      BY <1>3, <3>1, <3>2, HeadTailProperties
    <3> QED
      BY <2>2, <3>3, <3>4
  <2> QED
    BY <2>1, <2>2
<1>5. Then(base + d)' = Then(base)
  <2>1. base + d + Len(owed') = base + Len(owed)
    BY <1>1, <1>4
  <2>2. ModsHeld' = ModsHeld
    BY DEF ModsHeld
  <2> QED
    BY <2>1, <2>2 DEF Then
<1>6. ASSUME NEW p \in DOMAIN st, q <= p, NEW k, NEW make, Leg(st, off, base, p, k, make)
      PROVE  Leg(st, q, base + d, p, k, make)'
  <2> DEFINE code == Code(k, make)
             r == p + Len(code)
  <2>1. p \in Nat /\ off <= p
    <3>1. p \in Nat
      BY OwedCovers
    <3> QED
      BY <1>1, <1>6, <3>1
  <2>2. IsCode(k, make) /\ r \in DOMAIN st /\ st[r] = After(st[p], k, make)
    BY <1>6 DEF Leg
  <2>3. ASSUME NEW i \in 1 .. Len(code) PROVE Byte(p - q + i)' = code[i]
    <3>1. Len(code) \in 1 .. 6 /\ p - off + Len(code) <= Flying
      BY <1>6, <2>1, LegIs
    <3>2. Byte(p - off + i) = code[i]
      BY <1>6 DEF Leg
    <3> HIDE DEF code, r
    <3>3. p - q + i \in 1 .. Flying - (q - off) /\ p - q + i + (q - off) = p - off + i
      <4>1. PICK m, f : m = Len(code) /\ f = Flying
        OBVIOUS
      <4>2. m \in Nat /\ f \in Nat /\ i \in Nat /\ 1 <= i /\ i <= m /\ p - off + m <= f
        BY <1>1, <3>1, <4>1
      <4>3. p - q + i \in 1 .. f - (q - off) /\ p - q + i + (q - off) = p - off + i
        <5>1. p \in Nat /\ q \in Nat /\ off \in Nat /\ off <= q /\ q <= p
          BY <1>1, <1>6, <2>1
        <5>2. p - q + i \in 1 .. f - (q - off)
          BY <4>2, <5>1
        <5>3. p - q + i + (q - off) = p - off + i
          BY <4>2, <5>1
        <5> QED
          BY <5>2, <5>3
      <4> QED
        BY <4>1, <4>3
    <3>4. Byte(p - q + i)' = Byte(p - q + i + (q - off))
      BY <3>3 DEF Drops
    <3> QED
      BY <3>2, <3>3, <3>4
  <2>4. Counts(st[p], k, make) =>
          owed'[st[r].n - (base + d)] = [con |-> st[p].con, key |-> KeyIn(st[p], k)]
    <3> SUFFICES ASSUME Counts(st[p], k, make)
                 PROVE  owed'[st[r].n - (base + d)]
                          = [con |-> st[p].con, key |-> KeyIn(st[p], k)]
      OBVIOUS
    <3>1. st[r].n = st[p].n + 1
      BY <2>2 DEF After
    <3>2. st[p].n \in Nat /\ st[r].n \in Nat /\ st[r].n <= base + Len(owed)
      BY <2>2, OwedCovers
    <3>3. st[q].n <= st[p].n
      BY <1>6 DEF FlightFrom
    <3>4. owed[st[r].n - base] = [con |-> st[p].con, key |-> KeyIn(st[p], k)]
      BY <1>6 DEF Leg
    <3> HIDE DEF r, code
    <3>5. st[r].n - (base + d) \in 1 .. Len(owed) - d
          /\ st[r].n - (base + d) + d = st[r].n - base
      <4>1. d \in Nat /\ base \in Nat /\ st[q].n \in Nat /\ Len(owed) \in Nat
        BY <1>1
      <4> DEFINE a == st[r].n
                 b == st[p].n
                 c == st[q].n
                 len == Len(owed)
      <4>2. a \in Nat /\ b \in Nat /\ c \in Nat /\ len \in Nat
        BY <3>2, <4>1
      <4>3. a = b + 1 /\ c <= b /\ a <= base + len /\ base + d <= c
        BY <3>1, <3>2, <3>3
      <4> HIDE DEF a, b, c, len
      <4>4. a - (base + d) \in 1 .. len - d /\ a - (base + d) + d = a - base
        BY <4>1, <4>2, <4>3, PlaceInOwed
      <4> QED
        BY <4>4 DEF a, len
    <3> QED
      BY <1>4, <3>4, <3>5
  <2>5. Fits(Len(code))'
    BY DEF Fits
  <2>6. \A i \in 1 .. Len(code) : Byte(p - q + i)' = code[i]
    BY <2>3
  <2> QED
    BY <2>2, <2>4, <2>5, <2>6, Zenon DEF Leg
<1>7. ASSUME NEW p \in DOMAIN st, q <= p, p < q + Flying'
      PROVE  \E k, make : Leg(st, q, base + d, p, k, make)'
  <2>1. p \in Nat
    BY OwedCovers
  <2>2. off <= p /\ p < off + Flying
    BY <1>1, <1>2, <1>7, <2>1
  <2>3. PICK k, make : Leg(st, off, base, p, k, make)
    BY <2>2 DEF FlightFrom
  <2> QED
    BY <1>6, <1>7, <2>3
<1>8. /\ q \in Nat /\ base + d \in Nat
      /\ DOMAIN st \subseteq 0 .. q + Flying'
      /\ q + Flying' \in DOMAIN st /\ st[q + Flying'] = Then(base + d)'
  <2>1. base + d \in Nat
    BY <1>1
  <2>2. DOMAIN st \subseteq 0 .. off + Flying /\ off + Flying \in DOMAIN st
        /\ st[off + Flying] = Then(base)
    BY DEF FlightFrom
  <2> QED
    BY <1>1, <1>2, <1>5, <2>1, <2>2
<1>9. /\ \A p \in DOMAIN st : st[p] \in State
      /\ \A p \in DOMAIN st : \A p2 \in DOMAIN st : p <= p2 => st[p].n <= st[p2].n
  BY DEF FlightFrom
<1> QED
  BY <1>7, <1>8, <1>9 DEF FlightFrom

-----------------------------------------------------------------------------
(* TTY's steps *)

\* The leg that keyboard_read is at
LEMMA FirstLeg ==
    ASSUME RingInv, TypeInv, NEW st, NEW off, NEW base, FlightFrom(st, off, base), Flying > 0
    PROVE  \E k, make :
             /\ Leg(st, off, base, off, k, make) /\ IsCode(k, make) /\ Fits(Len(Code(k, make)))
             /\ Len(Code(k, make)) <= Flying
             /\ \A i \in 1 .. Len(Code(k, make)) : Byte(i) = Code(k, make)[i]
<1>1. off \in Nat /\ Flying \in Nat /\ off \in DOMAIN st /\ off <= off
  BY FlyingIs DEF FlightFrom, TypeInv
<1>2. PICK k, make : Leg(st, off, base, off, k, make)
  BY <1>1 DEF FlightFrom
<1>3. IsCode(k, make) /\ Fits(Len(Code(k, make)))
  BY <1>2 DEF Leg
<1>4. Len(Code(k, make)) \in 1 .. 6 /\ off - off + Len(Code(k, make)) <= Flying
  BY <1>1, <1>2, LegIs
<1>5. Len(Code(k, make)) <= Flying
  BY <1>1, <1>4
<1>6. \A i \in 1 .. Len(Code(k, make)) : off - off + i = i
  BY <1>1
<1>7. \A i \in 1 .. Len(Code(k, make)) : Byte(i) = Code(k, make)[i]
  BY <1>2, <1>6 DEF Leg
<1> QED
  BY <1>2, <1>3, <1>5, <1>7

\* keyboard_read has the first bytes of its code.
LEMMA GotIs ==
    ASSUME TypeInv, pc \in {"get", "got", "decode"}
    PROVE  Gotten = got /\ \A i \in 1 .. Len(got) : Byte(i) = got[i]
BY DEF Gotten, Byte, TypeInv, BytesType

\* A step that decodes nothing and prints nothing
LEMMA TtyWaits ==
    ASSUME RingInv, TypeInv, Flight, Quiet, Keeps,
           UNCHANGED <<mods, locks, current, in_buf, owed, down, lit, aim, strange>>,
           \/ pc' \notin {"get", "got", "decode"} /\ \A t \in Tty : in_buf[t] = <<>>
           \/ pc' \notin {"get", "got", "decode"} /\ pc' = pc /\ tty' = tty
           \/ /\ pc' \in {"get", "got", "decode"} /\ tty' = tty /\ pc # "write"
              /\ tty = current /\ Flying > 0
              /\ \A k, make :
                   /\ IsCode(k, make) /\ Fits(Len(Code(k, make)))
                   /\ Len(Code(k, make)) <= Flying
                   /\ \A i \in 1 .. Len(Code(k, make)) : Byte(i) = Code(k, make)[i]
                   => Fits(Len(Code(k, make)))',
           tty' \in Tty
    PROVE  Flight' /\ Quiet'
<1>1. PICK st, off, base : FlightFrom(st, off, base)
  BY DEF Flight
<1>2. \A k, make :
        /\ IsCode(k, make) /\ Fits(Len(Code(k, make)))
        /\ Len(Code(k, make)) <= Flying
        /\ \A i \in 1 .. Len(Code(k, make)) : Byte(i) = Code(k, make)[i]
        => Fits(Len(Code(k, make)))'
  <2>1. CASE pc' \notin {"get", "got", "decode"}
    BY <2>1 DEF Fits
  <2> QED
    BY <2>1
<1>3. Pending' = Pending
  <2>1. tty' = tty \/ \A t \in Tty : in_buf[t] = <<>>
    OBVIOUS
  <2> QED
    BY <2>1 DEF Pending, TypeInv
<1>4. FlightFrom(st, off, base)'
  BY <1>1, <1>2, <1>3, FlightStays
<1>5. Quiet'
  <2>1. pc' \in {"get", "got", "decode"} => Flying' > 0 /\ tty' = current'
    BY DEF Keeps
  <2>2. ASSUME NEW t \in Tty, in_buf'[t] # <<>>
        PROVE  /\ t = tty' /\ pc' = "write"
               /\ \E key : in_buf'[t] = <<key>> /\ owed'[1] = [con |-> tty', key |-> key]
    BY <2>2 DEF Quiet
  <2> QED
    BY <2>1, <2>2 DEF Quiet, Tty
<1> QED
  BY <1>4, <1>5 DEF Flight

\* init_keyboard finds the buffer empty, and set_leds leaves it alone.
LEMMA SetUpFlies ==
    ASSUME RingInv, TypeInv, Flight, Quiet, InitKeyboard \/ SetLeds, lost' = {}
    PROVE  Flight' /\ Quiet'
<1>1. CASE InitKeyboard
  <2>1. SettingUp /\ pc' \in {"init tail", "init head", "leds"} /\ lost = {}
        /\ UNCHANGED <<tty, got, buf, mods, locks, current, in_buf, sending, owed, down, lit,
                       aim, strange>>
    BY <1>1 DEF InitKeyboard, Goto, SettingUp, decoder, keyboard
  <2>2. count = 0 /\ p_tail = 0
    BY <2>1 DEF RingInv, Ring
  <2>3. UNCHANGED <<count, p_tail>>
    BY <1>1, <2>2 DEF InitKeyboard
  <2>4. UNCHANGED <<Gotten, Stored>>
    BY <2>1, <2>3 DEF Gotten, Stored, SettingUp
  <2>5. Keeps
    BY <2>1, <2>3, <2>4, StillKeeps
  <2>6. \A t \in Tty : in_buf[t] = <<>>
    BY <2>1 DEF Quiet, SettingUp
  <2>7. tty' \in Tty
    BY <2>1 DEF TypeInv
  <2> QED
    BY <2>1, <2>5, <2>6, <2>7, TtyWaits
<1>2. CASE SetLeds
  <2>1. \E l \in {"ack 1", "ack 2", "read", "write"} : Goto(l)
    BY <1>2 DEF SetLeds
  <2>2. pc \in {"leds", "ack 1", "ack 2"}
    BY <1>2 DEF SetLeds
  <2>3. UNCHANGED <<buf, count, p_tail, mods, locks, current, in_buf, sending, owed, down, lit,
                    aim, strange>>
    BY <1>2 DEF SetLeds, decoder, kbd
  <2>4. pc' \in {"ack 1", "ack 2", "read", "write"} /\ UNCHANGED <<got, tty>>
    BY <2>1 DEF Goto
  <2>5. UNCHANGED <<Gotten, Stored>>
    BY <2>2, <2>3, <2>4 DEF Gotten, Stored
  <2>6. Keeps
    BY <2>3, <2>5, StillKeeps
  <2>7. \A t \in Tty : in_buf[t] = <<>>
    BY <2>2 DEF Quiet
  <2>8. tty' \in Tty
    BY <2>4 DEF TypeInv
  <2> QED
    BY <2>3, <2>4, <2>6, <2>7, <2>8, TtyWaits
<1> QED
  BY <1>1, <1>2

\* keyboard_read takes a code byte by byte, and asks for no more than it has.
LEMMA ReadFlies ==
    ASSUME RingInv, TypeInv, Flight, Quiet, TtyDoRead \/ GetByte \/ TakenByte
    PROVE  Flight' /\ Quiet'
<1>1. UNCHANGED <<mods, locks, current, in_buf, owed, down, lit, aim, strange, tty, sending, buf>>
      /\ tty' \in Tty
  BY DEF TtyDoRead, GetByte, TakenByte, Goto, decoder, keyboard, kbd, TypeInv
<1>2. CASE TtyDoRead
  <2>1. pc = "read" /\ got' = <<>> /\ UNCHANGED <<count, p_tail>>
        /\ pc' = IF tty = current /\ count > 0 THEN "get" ELSE "write"
    BY <1>2 DEF TtyDoRead, kbd
  <2>2. UNCHANGED <<Gotten, Stored>>
    BY <2>1 DEF Gotten, Stored
  <2>3. Keeps
    BY <1>1, <2>1, <2>2, StillKeeps
  <2>4. \A t \in Tty : in_buf[t] = <<>>
    BY <2>1 DEF Quiet
  <2>5. CASE pc' = "write"
    BY <1>1, <2>3, <2>4, <2>5, TtyWaits
  <2>6. CASE pc' = "get"
    <3>1. tty = current /\ count > 0
      BY <2>1, <2>6
    <3>2. Flying > 0
      <4>1. Stored = count /\ Len(Gotten) \in Nat /\ Len(sending) \in Nat /\ count \in Int
        BY <2>1, FlyingIs DEF Stored, TypeInv, RingInv, RingType
      <4> QED
        BY <3>1, <4>1 DEF Flying
    <3>3. ASSUME NEW k, NEW make, IsCode(k, make) PROVE Fits(Len(Code(k, make)))'
      <4>1. Len(got') = 0
        BY <2>1
      <4>2. Len(Code(k, make)) > 0
        <5>1. Len(Code(k, make)) \in 1 .. 6
          BY <3>3, CodesAre
        <5>2. \A n \in 1 .. 6 : n > 0
          OBVIOUS
        <5> QED
          BY <5>1, <5>2
      <4> QED
        BY <2>6, <4>1, <4>2 DEF Fits
    <3> QED
      BY <1>1, <2>1, <2>3, <2>6, <3>1, <3>2, <3>3, TtyWaits
  <2> QED
    BY <2>1, <2>5, <2>6
<1>3. CASE GetByte
  <2>1. pc = "get" /\ pc' = "got" /\ got' = Append(got, buf[p_tail])
    BY <1>3 DEF GetByte
  <2>2. Keeps
    BY <1>3, GetKeeps DEF TypeInv
  <2>3. tty = current /\ Flying > 0
    BY <2>1 DEF Quiet
  <2>4. Len(got') = Len(got) + 1 /\ Len(got) \in Nat
    <3>1. buf[p_tail] \in 0 .. 255 /\ got \in Seq(0 .. 255)
      BY DEF RingInv, RingType, TypeInv, BytesType
    <3> QED
      BY <2>1, <3>1, AppendProperties
  <2>5. ASSUME NEW k, NEW make, IsCode(k, make), Fits(Len(Code(k, make)))
        PROVE  Fits(Len(Code(k, make)))'
    <3>1. Len(Code(k, make)) \in 1 .. 6 /\ Len(got) < Len(Code(k, make))
      BY <2>1, <2>5, CodesAre DEF Fits
    <3> QED
      BY <2>1, <2>4, <3>1 DEF Fits
  <2> QED
    BY <1>1, <2>1, <2>2, <2>3, <2>5, TtyWaits
<1>4. CASE TakenByte
  <2>1. pc = "got" /\ pc' = (IF NeedsByte THEN "get" ELSE "decode") /\ count' = count - 1
        /\ UNCHANGED <<got, p_tail>>
    BY <1>4 DEF TakenByte, Goto
  <2>2. UNCHANGED <<Gotten, Stored>>
    BY <2>1 DEF Gotten, Stored
  <2>3. Keeps
    BY <1>1, <2>1, <2>2, StillKeeps
  <2>4. tty = current /\ Flying > 0
    BY <2>1 DEF Quiet
  <2>5. ASSUME NEW k, NEW make, IsCode(k, make), Fits(Len(Code(k, make))),
               \A i \in 1 .. Len(Code(k, make)) : Byte(i) = Code(k, make)[i]
        PROVE  Fits(Len(Code(k, make)))'
    <3> DEFINE code == Code(k, make)
    <3>1. Len(got) <= Len(code) /\ Len(code) \in 1 .. 6
      BY <2>1, <2>5, CodesAre DEF Fits
    <3>2. got \in Seq(0 .. 255) /\ got # <<>>
      BY <2>1 DEF TypeInv, BytesType
    <3>3. Len(got) \in 1 .. Len(code)
      <4>1. Len(got) \in Nat /\ Len(got) # 0
        BY <3>2, EmptySeq
      <4> HIDE DEF code
      <4> QED
        BY <3>1, <4>1
    <3>4. \A i \in 1 .. Len(got) : got[i] = code[i]
      <4>1. \A i \in 1 .. Len(got) : Byte(i) = got[i]
        BY <2>1, GotIs
      <4>2. \A i \in 1 .. Len(got) : i \in 1 .. Len(code)
        BY <3>1, <3>3
      <4> QED
        BY <2>5, <4>1, <4>2, Zenon
    <3>5. NeedsByte <=> Len(got) < Len(code)
      BY <2>5, <3>2, <3>3, <3>4, NeedsByteIffShort
    <3> HIDE DEF code
    <3>6. \/ NeedsByte /\ Len(got) < Len(code)
          \/ ~NeedsByte /\ Len(got) = Len(code)
      <4>1. Len(got) < Len(code) \/ Len(got) = Len(code)
        BY <3>3, <3>1
      <4>2. Len(got) = Len(code) => ~(Len(got) < Len(code))
        BY <3>1
      <4> QED
        BY <3>5, <4>1, <4>2, Zenon
    <3>7. Fits(Len(code))'
      BY <2>1, <3>6 DEF Fits
    <3> QED
      BY <3>7 DEF code
  <2>6. pc' \in {"get", "got", "decode"}
    BY <2>1
  <2> QED
    BY <1>1, <2>1, <2>3, <2>4, <2>5, <2>6, TtyWaits
<1> QED
  BY <1>2, <1>3, <1>4

\* What the first effect owed is, and what is left of it when it happens
LEMMA EffectIs ==
    ASSUME TypeInv, Len(owed) > 0, NEW con, NEW key, owed[1] = [con |-> con, key |-> key],
           Effect(con, key), ~strange
    PROVE  owed' = Tail(owed) /\ ~strange'
<1>1. PICK S : owed \in Seq(S)
  BY DEF TypeInv
<1>2. owed # <<>> /\ Head(owed) = owed[1]
  BY <1>1
<1> QED
  BY <1>2 DEF Effect

\* tty_do_write prints the key that was stored: the first effect owed.
LEMMA WriteFlies ==
    ASSUME RingInv, TypeInv, Flight, Quiet, TtyDoWrite
    PROVE  Flight' /\ Quiet'
<1>1. /\ pc' = "read" /\ pc = "write" /\ tty' = (tty + 1) % NR_CONSOLES
      /\ UNCHANGED <<mods, locks, current, down, lit, aim, sending, buf, count, p_tail>>
  BY DEF TtyDoWrite, keyboard, kbd
<1>2. UNCHANGED <<Gotten, Stored>>
  BY <1>1 DEF Gotten, Stored
<1>3. Keeps
  BY <1>1, <1>2, StillKeeps
<1>4. tty' \in Tty /\ tty \in Tty
  BY <1>1, KeyboardAssumption DEF TypeInv, Tty
<1>5. CASE in_buf[tty] = <<>>
  <2>1. UNCHANGED <<in_buf, owed, strange>>
    BY <1>5 DEF TtyDoWrite
  <2>2. \A t \in Tty : in_buf[t] = <<>>
    BY <1>5 DEF Quiet
  <2> QED
    BY <1>1, <1>3, <1>4, <2>1, <2>2, TtyWaits
<1>6. CASE in_buf[tty] # <<>>
  <2>1. PICK key : in_buf[tty] = <<key>> /\ owed[1] = [con |-> tty, key |-> key]
    BY <1>4, <1>6 DEF Quiet
  <2>2. /\ in_buf' = [in_buf EXCEPT ![tty] = Tail(in_buf[tty])]
        /\ Effect(tty, Head(in_buf[tty]))
    BY <1>6 DEF TtyDoWrite
  <2>3. Head(in_buf[tty]) = key /\ Tail(in_buf[tty]) = <<>>
    BY <2>1
  <2>4. \A t \in Tty : in_buf'[t] = <<>>
    BY <1>4, <2>2, <2>3 DEF Quiet, TypeInv
  <2>5. Pending = 1 /\ Pending' = 0
    BY <1>4, <1>6, <2>4 DEF Pending
  <2>6. PICK st, off, base : FlightFrom(st, off, base)
    BY DEF Flight
  <2>7. /\ off \in DOMAIN st /\ off \in Nat /\ base \in Nat /\ st[off] = Now(base)
        /\ st[off].n = base + 1
    BY <2>5, <2>6 DEF FlightFrom, Now
  <2>8. Len(owed) > 0 /\ Len(owed) \in Nat
    <3>1. st[off].n <= base + Len(owed) /\ Len(owed) \in Nat
      BY <2>6, <2>7, OwedCovers
    <3> QED
      BY <2>7, <3>1
  <2>9. owed' = Tail(owed) /\ ~strange'
    BY <2>1, <2>2, <2>3, <2>8, EffectIs DEF Quiet
  <2>10. Now(base + 1)' = Now(base)
    <3>1. base + 1 + Pending' = base + Pending
      BY <2>5, <2>7
    <3> QED
      BY <1>1, <3>1 DEF Now
  <2>11. Drops(off - off)
    <3>1. off - off = 0 /\ Flying \in Nat
      BY <2>7, FlyingIs DEF TypeInv
    <3>2. Drops(0)
      BY <1>3, <3>1 DEF Keeps, Drops
    <3> QED
      BY <3>1, <3>2
  <2>12. FlightFrom(st, off, base + 1)'
    <3>1. pc' \notin {"get", "got", "decode"} /\ off <= off /\ base + 1 <= st[off].n
      BY <1>1, <2>7
    <3>2. owed' = IF 1 = 0 THEN owed ELSE Tail(owed)
      BY <2>9
    <3> QED
      BY <1>1, <2>6, <2>7, <2>10, <2>11, <3>1, <3>2, FlightMoves
  <2>13. Quiet'
    BY <1>1, <2>4, <2>9 DEF Quiet, Tty
  <2> QED
    BY <2>12, <2>13 DEF Flight
<1> QED
  BY <1>5, <1>6

\* The rest of keyboard_read does with a code what the key is owed.
LEMMA DecodeFlies ==
    ASSUME RingInv, TypeInv, Flight, Quiet, Decode
    PROVE  Flight' /\ Quiet'
<1>1. /\ pc = "decode" /\ pc' \in {"write", "leds"} /\ tty' = tty
      /\ UNCHANGED <<down, lit, aim>>
  BY DEF Decode, Goto, keyboard
<1>2. Flying > 0 /\ tty = current /\ tty \in Tty /\ \A t \in Tty : in_buf[t] = <<>>
  BY <1>1 DEF Quiet, TypeInv
<1>3. PICK st, off, base : FlightFrom(st, off, base)
  BY DEF Flight
<1>4. PICK k, make :
        /\ Leg(st, off, base, off, k, make) /\ IsCode(k, make) /\ Fits(Len(Code(k, make)))
        /\ \A i \in 1 .. Len(Code(k, make)) : Byte(i) = Code(k, make)[i]
  BY <1>2, <1>3, FirstLeg
<1> DEFINE code == Code(k, make)
<1>5. Len(got) = Len(code)
  BY <1>1, <1>4 DEF Fits
<1>6. got = code
  <2>1. got \in Seq(0 .. 255) /\ code \in Seq(0 .. 255)
    BY <1>4, CodesAre DEF TypeInv, BytesType
  <2>2. \A i \in 1 .. Len(got) : Byte(i) = got[i]
    BY <1>1, GotIs
  <2>3. \A i \in 1 .. Len(got) : got[i] = code[i]
    BY <1>4, <1>5, <2>2, Zenon
  <2> HIDE DEF code
  <2> QED
    BY <1>5, <2>1, <2>3, SeqEqual
<1>7. PICK q : q = off + Len(code)
  OBVIOUS
<1>8. /\ off \in Nat /\ base \in Nat /\ q \in DOMAIN st /\ off <= q /\ q - off = Len(got)
      /\ off \in DOMAIN st
  <2>1. off \in Nat /\ base \in Nat /\ off \in DOMAIN st
    BY <1>3 DEF FlightFrom
  <2>2. q \in DOMAIN st
    BY <1>4, <1>7 DEF Leg
  <2>3. Len(code) \in 1 .. 6
    BY <1>4, CodesAre
  <2> HIDE DEF code
  <2>4. off <= q /\ q - off = Len(code)
    BY <1>7, <2>1, <2>3
  <2> QED
    BY <1>5, <2>1, <2>2, <2>4
<1>9. Drops(q - off)
  <2>1. Drops(Len(got))
    BY DecodeDrops DEF TypeInv
  <2> QED
    BY <1>8, <2>1
<1> DEFINE s == Now(base)
           t == After(s, k, make)
           key == KeyIn(s, k)
<1>10. Pending = 0 /\ s.n = base /\ s.con = tty
  <2>1. Pending = 0
    BY <1>2 DEF Pending
  <2> QED
    BY <1>2, <1>8, <2>1 DEF Now
<1>11. st[q] = t /\ (Counts(s, k, make) => owed[t.n - base] = [con |-> tty, key |-> key])
  <2>1. st[off] = s
    BY <1>3 DEF FlightFrom
  <2>2. st[q] = After(st[off], k, make)
        /\ (Counts(st[off], k, make) =>
              owed[st[q].n - base] = [con |-> st[off].con, key |-> KeyIn(st[off], k)])
    BY <1>4, <1>7, Zenon DEF Leg
  <2> QED
    BY <1>10, <2>1, <2>2, Zenon
<1>12. t = [mods |-> t.mods, locks |-> t.locks, con |-> t.con, n |-> t.n]
       /\ t.n = IF Counts(s, k, make) THEN base + 1 ELSE base
  BY <1>10 DEF After
<1>13. /\ mods' = t.mods /\ locks' = t.locks /\ current' = t.con
       /\ ~Counts(s, k, make) => UNCHANGED <<in_buf, owed, strange>>
       /\ Counts(s, k, make) =>
            \/ UNCHANGED in_buf /\ Effect(tty, key)
            \/ /\ in_buf' = [in_buf EXCEPT ![tty] = <<key>>]
               /\ UNCHANGED <<owed, strange>>
               /\ pc' = "write"
  BY <1>2, <1>4, <1>6, <1>8, DecodeIs
<1> HIDE DEF s, t, key, code
<1>14. ASSUME NEW d \in {0, 1}, base + d <= t.n, t.n = base + d + Pending',
              owed' = IF d = 0 THEN owed ELSE Tail(owed)
       PROVE  Flight'
  <2>1. Now(base + d)' = [mods |-> mods', locks |-> locks', con |-> current',
                          n |-> base + d + Pending']
    BY DEF Now
  <2>2. st[q] = Now(base + d)'
    BY <1>11, <1>12, <1>13, <1>14, <2>1
  <2>3. pc' \notin {"get", "got", "decode"} /\ base + d <= st[q].n
    BY <1>1, <1>11, <1>14
  <2>4. FlightFrom(st, q, base + d)'
    BY <1>1, <1>3, <1>8, <1>9, <1>14, <2>2, <2>3, FlightMoves
  <2> QED
    BY <2>4 DEF Flight
<1>15. CASE ~Counts(s, k, make)
  <2>1. UNCHANGED <<in_buf, owed, strange>>
    BY <1>13, <1>15
  <2>2. Pending' = 0
    BY <1>1, <1>2, <2>1 DEF Pending
  <2>3. t.n = base /\ base + 0 <= t.n /\ t.n = base + 0 + Pending'
    BY <1>8, <1>12, <1>15, <2>2
  <2>4. Flight'
    BY <1>14, <2>1, <2>3
  <2>5. Quiet'
    BY <1>1, <1>2, <2>1 DEF Quiet, Tty
  <2> QED
    BY <2>4, <2>5
<1>16. CASE Counts(s, k, make)
  <2>1. t.n = base + 1 /\ t.n - base = 1
    BY <1>8, <1>12, <1>16
  <2>2. owed[1] = [con |-> tty, key |-> key]
    BY <1>11, <1>16, <2>1
  <2>3. Len(owed) > 0
    <3>1. st[q].n <= base + Len(owed) /\ Len(owed) \in Nat
      BY <1>3, <1>8, OwedCovers
    <3> QED
      BY <1>8, <1>11, <2>1, <3>1
  <2>4. CASE UNCHANGED in_buf /\ Effect(tty, key)
    <3>1. owed' = Tail(owed) /\ ~strange'
      BY <2>2, <2>3, <2>4, EffectIs DEF Quiet
    <3>2. Pending' = 0
      BY <1>1, <1>2, <2>4 DEF Pending
    <3>3. base + 1 <= t.n /\ t.n = base + 1 + Pending'
      BY <1>8, <2>1, <3>2
    <3>4. Flight'
      BY <1>14, <3>1, <3>3
    <3>5. Quiet'
      BY <1>1, <1>2, <2>4, <3>1 DEF Quiet, Tty
    <3> QED
      BY <3>4, <3>5
  <2>5. CASE /\ in_buf' = [in_buf EXCEPT ![tty] = <<key>>]
             /\ UNCHANGED <<owed, strange>>
             /\ pc' = "write"
    <3>1. in_buf'[tty] = <<key>> /\ \A t2 \in Tty : t2 # tty => in_buf'[t2] = <<>>
      BY <1>2, <2>5 DEF TypeInv
    <3>2. Pending' = 1
      BY <1>1, <3>1 DEF Pending
    <3>3. base + 0 <= t.n /\ t.n = base + 0 + Pending'
      BY <1>8, <2>1, <3>2
    <3>4. Flight'
      BY <1>14, <2>5, <3>3
    <3>5. Quiet'
      BY <1>1, <2>2, <2>5, <3>1 DEF Quiet, Tty
    <3> QED
      BY <3>4, <3>5
  <2> QED
    BY <1>13, <1>16, <2>4, <2>5
<1> QED
  BY <1>15, <1>16

-----------------------------------------------------------------------------
(* The keyboard's steps *)

\* A code is added to the flight; ACK is the break code of a key there is not.
LEMMA StruckFlies ==
    ASSUME RingInv, TypeInv, Flight, Quiet, NEW k, NEW make, IsCode(k, make),
           Adds(Code(k, make)),
           \A base \in Nat :
             /\ Then(base)' = After(Then(base), k, make)
             /\ owed' = IF Counts(Then(base), k, make)
                        THEN Append(owed, [con |-> aim, key |-> KeyIn(Then(base), k)]) ELSE owed,
           UNCHANGED <<mods, locks, current, in_buf, tty, pc, got, strange>>
    PROVE  Flight' /\ Quiet'
<1>1. PICK st, off, base : FlightFrom(st, off, base)
  BY DEF Flight
<1>2. off \in Nat /\ base \in Nat /\ off \in DOMAIN st /\ st[off].n = base + Pending
  BY <1>1 DEF FlightFrom, Now
<1>3. Flight'
  BY <1>1, <1>2, FlightGrows
<1>4. Flying > 0 => Flying' > 0
  <2>1. Flying \in Nat /\ Flying' = Flying + Len(Code(k, make)) /\ Len(Code(k, make)) \in 1 .. 6
    BY FlyingIs, CodesAre DEF Adds, TypeInv
  <2> QED
    BY <2>1
<1>5. ASSUME NEW t \in Tty, in_buf[t] # <<>> PROVE owed'[1] = owed[1]
  <2>1. t = tty /\ Pending = 1
    BY <1>5 DEF Quiet, Pending
  <2>2. st[off].n <= base + Len(owed) /\ Len(owed) \in Nat
    BY <1>1, <1>2, OwedCovers
  <2>3. 1 \in 1 .. Len(owed)
    BY <1>2, <2>1, <2>2
  <2>4. PICK S : owed \in Seq(S)
    BY DEF TypeInv
  <2> DEFINE e == [con |-> aim, key |-> KeyIn(Then(base), k)]
  <2>5. owed' \in {owed, Append(owed, e)}
    BY <1>2
  <2> HIDE DEF e
  <2>6. Append(owed, e)[1] = owed[1]
    BY <2>3, <2>4
  <2> QED
    BY <2>5, <2>6
<1>6. Quiet'
  BY <1>4, <1>5 DEF Quiet, Tty
<1> QED
  BY <1>3, <1>6

\* ACK is the break code of the row 0x7A, which has no key.
LEMMA AckCode ==
    /\ IsCode(PlainKey(\h7A), FALSE) /\ Code(PlainKey(\h7A), FALSE) = <<ACK>>
    /\ \A s \in State : After(s, PlainKey(\h7A), FALSE) = s /\ ~Counts(s, PlainKey(\h7A), FALSE)
<1> DEFINE k == PlainKey(\h7A)
<1>1. Ordinary(k) /\ ~k.ext /\ k.row = \h7A /\ IsKey(k)
  BY DEF PlainKey, Ordinary, IsKey
<1>2. IsCode(k, FALSE)
  <2>1. k # Pause
    BY <1>1, LongCodes
  <2> QED
    BY <1>1, <2>1 DEF IsCode
<1>3. Code(k, FALSE) = <<ACK>>
  <2>1. Code(k, FALSE) = <<LastByte(k, FALSE)>>
    BY <1>1, OrdinaryCodes
  <2>2. LastByte(k, FALSE) = ACK
    BY <1>1 DEF LastByte, ACK
  <2> QED
    BY <2>1, <2>2
<1>4. ASSUME NEW s \in State PROVE After(s, k, FALSE) = s /\ ~Counts(s, k, FALSE)
  <2>1. \A m \in Modifiers : KeyIn(s, k).name # m
    <3>1. \A m \in Modifiers : k # ModKey[m]
      BY DEF Modifiers, ModKey, PlainKey, ExtKey
    <3> QED
      BY <1>1, <3>1, ModifierKey
  <2>2. s = [mods |-> s.mods, locks |-> s.locks, con |-> s.con, n |-> s.n]
    BY DEF State
  <2>3. ~Counts(s, k, FALSE)
    BY DEF Counts
  <2> HIDE DEF k
  <2>4. After(s, k, FALSE) = [mods |-> s.mods, locks |-> s.locks, con |-> s.con, n |-> s.n]
    BY <2>1, <2>3, Zenon DEF After
  <2> QED
    BY <2>2, <2>3, <2>4
<1> QED
  BY <1>2, <1>3, <1>4

\* The keyboard's state is one of the decoder's.
LEMMA ThenIsState ==
    ASSUME TypeInv, NEW base \in Nat
    PROVE  Then(base) \in State
<1>1. PICK S : owed \in Seq(S)
  BY DEF TypeInv
<1>2. base + Len(owed) \in Nat
  BY <1>1
<1> QED
  BY <1>2 DEF TypeInv, Then, State, ModsHeld

\* keyboard_handler
LEMMA SendFlies ==
    ASSUME RingInv, TypeInv, Flight, Quiet, SendByte \/ SendAck, lost' = {}
    PROVE  Flight' /\ Quiet'
<1>1. UNCHANGED <<mods, locks, current, in_buf, owed, down, lit, aim, strange, tty, pc, got>>
  BY DEF SendByte, SendAck, KeyboardHandler, decoder
<1>2. CASE SendByte
  <2>1. Keeps
    BY <1>2, SendKeeps DEF TypeInv
  <2>2. tty' \in Tty
    BY <1>1 DEF TypeInv
  <2>3. \A k, make : Fits(Len(Code(k, make))) => Fits(Len(Code(k, make)))'
    BY <1>1 DEF Fits
  <2>4. CASE pc \in {"get", "got", "decode"}
    <3>1. tty = current /\ Flying > 0
      BY <2>4 DEF Quiet
    <3> QED
      BY <1>1, <2>1, <2>2, <2>3, <2>4, <3>1, TtyWaits
  <2>5. CASE pc \notin {"get", "got", "decode"}
    BY <1>1, <2>1, <2>2, <2>5, TtyWaits
  <2> QED
    BY <2>4, <2>5
<1>3. CASE SendAck
  <2>1. Adds(Code(PlainKey(\h7A), FALSE)) /\ IsCode(PlainKey(\h7A), FALSE)
    BY <1>3, AckAdds, AckCode DEF TypeInv
  <2>2. ASSUME NEW base \in Nat
        PROVE  /\ Then(base)' = After(Then(base), PlainKey(\h7A), FALSE)
               /\ ~Counts(Then(base), PlainKey(\h7A), FALSE)
    <3>1. Then(base)' = Then(base)
      BY <1>1 DEF Then, ModsHeld
    <3> QED
      BY <3>1, ThenIsState, AckCode
  <2> QED
    BY <1>1, <2>1, <2>2, StruckFlies
<1> QED
  BY <1>2, <1>3

\* A press or a release
LEMMA StrikeFlies ==
    ASSUME RingInv, TypeInv, Flight, Quiet, NEW k \in keys, Press(k) \/ Release(k)
    PROVE  Flight' /\ Quiet'
<1>1. /\ UNCHANGED <<mods, locks, current, in_buf, tty, pc, got, strange, count, p_tail, buf>>
      /\ sending = <<>> /\ IsKey(k)
  BY KeysAreKeys DEF Press, Release, CanStrike, decoder, kbd
<1>2. PICK S : owed \in Seq(S)
  BY DEF TypeInv
<1>3. CASE Press(k)
  <2>1. IsCode(k, TRUE) /\ sending' = Code(k, TRUE)
    BY <1>1, <1>3 DEF Press, IsCode, Code
  <2>2. Adds(Code(k, TRUE))
    BY <1>1, <2>1, CodesAre, StrikeAdds DEF TypeInv
  <2>3. ASSUME NEW base \in Nat
        PROVE  /\ Then(base)' = After(Then(base), k, TRUE)
               /\ owed' = IF Counts(Then(base), k, TRUE)
                          THEN Append(owed, [con |-> aim, key |-> KeyIn(Then(base), k)])
                          ELSE owed
    BY <1>1, <1>2, <1>3, PressIs
  <2> QED
    BY <1>1, <2>1, <2>2, <2>3, StruckFlies
<1>4. CASE Release(k)
  <2>1. IsCode(k, FALSE) /\ sending' = Code(k, FALSE)
    BY <1>1, <1>4 DEF Release, IsCode, Code, TypeInv
  <2>2. Adds(Code(k, FALSE))
    BY <1>1, <2>1, CodesAre, StrikeAdds DEF TypeInv
  <2>3. ASSUME NEW base \in Nat
        PROVE  /\ Then(base)' = After(Then(base), k, FALSE)
               /\ owed' = IF Counts(Then(base), k, FALSE)
                          THEN Append(owed, [con |-> aim, key |-> KeyIn(Then(base), k)])
                          ELSE owed
    BY <1>1, <1>4, ReleaseIs DEF Counts
  <2> QED
    BY <1>1, <2>1, <2>2, <2>3, StruckFlies
<1> QED
  BY <1>3, <1>4

-----------------------------------------------------------------------------
(* The invariant *)

FlightInv == lost = {} => Flight /\ Quiet

IInv == RingInv /\ TypeInv /\ FlightInv

\* The types at the start
LEMMA InitTypes == Init => TypeInv
<1> SUFFICES ASSUME Init PROVE TypeInv
  OBVIOUS
<1>1. got = <<>> /\ sending = <<>> /\ owed = <<>>
  BY DEF Init
<1>2. in_buf = [t \in Tty |-> <<>>]
  BY DEF Init
<1>3. BytesType
  <2>1. got \in Seq(0 .. 255) /\ sending \in Seq(0 .. 255)
    BY <1>1
  <2>2. buf = [i \in Places |-> 0]
    BY DEF Init, Places
  <2>3. buf \in [Places -> 0 .. 255]
    BY <2>2
  <2> QED
    BY <2>1, <2>3 DEF BytesType
<1>4. 0 \in Tty
  BY KeyboardAssumption DEF Tty
<1>5. in_buf \in [Tty -> Seq({})] /\ owed \in Seq({})
  BY <1>1, <1>2
<1>6. \A t \in Tty : Len(in_buf[t]) <= TTY_IN_BYTES
  BY <1>2, KeyboardAssumption
<1>7. Len(got) <= 6
  BY <1>1
<1>8. /\ mods = {} /\ locks = {} /\ lit = {} /\ down = {} /\ keys \in KeySets
      /\ tty = 0 /\ current = 0 /\ aim = 0 /\ acks = 0 /\ int_enabled = TRUE
      /\ pc = "init count"
  BY DEF Init
<1> QED
  BY <1>3, <1>4, <1>5, <1>6, <1>7, <1>8 DEF TypeInv

\* Nothing is on its way at the start.
LEMMA InitFlight == Init => FlightInv
<1> SUFFICES ASSUME Init PROVE Flight /\ Quiet
  BY DEF FlightInv
<1>1. TypeInv /\ RingInv
  BY InitTypes, InitRing
<1>2. /\ sending = <<>> /\ owed = <<>> /\ pc = "init count" /\ in_buf = [t \in Tty |-> <<>>]
      /\ mods = {} /\ locks = {} /\ lit = {} /\ down = {} /\ count = 0
      /\ tty = 0 /\ current = 0 /\ aim = 0 /\ ~strange
  BY DEF Init
<1>3. Flying = 0
  <2>1. Gotten = <<>> /\ Stored = 0 /\ sending = <<>>
    BY <1>2 DEF Gotten, Stored
  <2> QED
    BY <2>1 DEF Flying
<1>4. Pending = 0
  BY <1>1, <1>2 DEF Pending, TypeInv
<1>5. Now(0) = Then(0)
  <2>1. ModsHeld = {} /\ Len(owed) = 0
    BY <1>2 DEF ModsHeld
  <2> QED
    BY <1>2, <1>4, <2>1 DEF Now, Then
<1>6. PICK st : st = [p \in {0} |-> Then(0)]
  OBVIOUS
<1>7. Then(0) \in State /\ Then(0).n = 0
  <2>1. Len(owed) = 0
    BY <1>2
  <2> QED
    BY <1>1, <2>1, ThenIsState DEF Then
<1>8. FlightFrom(st, 0, 0)
  <2>1. DOMAIN st = {0} /\ st[0] = Then(0) /\ st[0].n \in Nat
    BY <1>6, <1>7
  <2>2. 0 + Flying = 0
    BY <1>3
  <2>3. DOMAIN st \subseteq 0 .. 0 + Flying
    BY <2>1, <2>2
  <2>4. \A p \in DOMAIN st : ~(0 <= p /\ p < 0 + Flying)
    BY <2>1, <2>2
  <2>5. \A p \in DOMAIN st : \A q \in DOMAIN st : p <= q => st[p].n <= st[q].n
    BY <2>1
  <2> QED
    BY <1>5, <1>7, <2>1, <2>2, <2>3, <2>4, <2>5 DEF FlightFrom
<1>9. Quiet
  BY <1>2 DEF Quiet
<1> QED
  BY <1>8, <1>9 DEF Flight

\* The types after any step
LEMMA TypeStep == RingInv /\ TypeInv /\ [Next]_vars => TypeInv'
<1> SUFFICES ASSUME RingInv, TypeInv, [Next]_vars PROVE TypeInv'
  OBVIOUS
<1>1. CASE TtyStep
  BY <1>1, TtyType
<1>2. CASE SendByte \/ SendAck \/ \E k \in keys : Press(k) \/ Release(k)
  BY <1>2, KeyboardType
<1>3. CASE UNCHANGED vars
  <2>1. UNCHANGED Spared /\ UNCHANGED <<buf, sending, got, pc, int_enabled, acks, tty>>
    BY <1>3 DEF vars, kbd, decoder, keyboard, Spared
  <2>2. BytesType' /\ Len(got') <= 6 /\ (pc' = "get" => Len(got') <= 5)
        /\ (pc' \in {"got", "decode"} => got' # <<>>) /\ int_enabled' \in BOOLEAN
        /\ tty' \in Tty /\ acks' \in Nat
    BY <2>1 DEF TypeInv, BytesType, Places
  <2> QED
    BY <2>1, <2>2, SparedType, Zenon DEF TypeInv, Tty
<1> QED
  BY <1>1, <1>2, <1>3 DEF Next

\* Every step keeps the flight, or loses a byte.
LEMMA FlightStep == IInv /\ [Next]_vars => FlightInv'
<1> SUFFICES ASSUME RingInv, TypeInv, FlightInv, [Next]_vars, lost' = {}
             PROVE  Flight' /\ Quiet'
  BY DEF IInv, FlightInv
<1>1. lost = {}
  BY DEF Next, TtyStep, InitKeyboard, SetLeds, TtyDoRead, GetByte, TakenByte, Decode,
         TtyDoWrite, SendByte, SendAck, KeyboardHandler, Press, Release, vars
<1>2. Flight /\ Quiet
  BY <1>1 DEF FlightInv
<1>3. CASE InitKeyboard \/ SetLeds
  BY <1>2, <1>3, SetUpFlies
<1>4. CASE TtyDoRead \/ GetByte \/ TakenByte
  BY <1>2, <1>4, ReadFlies
<1>5. CASE Decode
  BY <1>2, <1>5, DecodeFlies
<1>6. CASE TtyDoWrite
  BY <1>2, <1>6, WriteFlies
<1>7. CASE SendByte \/ SendAck
  BY <1>2, <1>7, SendFlies
<1>8. CASE \E k \in keys : Press(k) \/ Release(k)
  BY <1>2, <1>8, StrikeFlies
<1>9. CASE UNCHANGED vars
  <2>1. UNCHANGED <<mods, locks, current, in_buf, owed, down, lit, aim, strange, tty, pc, got,
                    count, p_tail, buf, sending>>
    BY <1>9 DEF vars, kbd, decoder, keyboard
  <2>2. UNCHANGED <<Gotten, Stored>>
    BY <2>1 DEF Gotten, Stored
  <2>3. Keeps /\ tty' \in Tty
    BY <2>1, <2>2, StillKeeps DEF TypeInv
  <2>4. \A k, make : Fits(Len(Code(k, make))) => Fits(Len(Code(k, make)))'
    BY <2>1 DEF Fits
  <2>5. CASE pc \in {"get", "got", "decode"}
    <3>1. tty = current /\ Flying > 0
      BY <1>2, <2>5 DEF Quiet
    <3> QED
      BY <1>2, <2>1, <2>3, <2>4, <2>5, <3>1, TtyWaits
  <2>6. CASE pc \notin {"get", "got", "decode"}
    BY <1>2, <2>1, <2>3, <2>6, TtyWaits
  <2> QED
    BY <2>5, <2>6
<1> QED
  BY <1>3, <1>4, <1>5, <1>6, <1>7, <1>8, <1>9 DEF Next, TtyStep

\* The buffer, its bytes and what they mean agree at every statement of
\* keyboard_handler, init_keyboard, get_byte_from_kbdbuf and keyboard_read.
THEOREM Invariant == Spec => []IInv
<1>1. Init => IInv
  BY InitRing, InitTypes, InitFlight DEF IInv
<1>2. IInv /\ [Next]_vars => IInv'
  BY RingStep, TypeStep, FlightStep DEF IInv
<1> QED BY <1>1, <1>2, PTL DEF Spec

\* No pointer leaves the buffer, no code grows past six bytes, no TTY's in_buf past its
\* length, and TTY and nr_current_console stay among the consoles, whatever is typed.
THEOREM TypeCorrect == Spec => []TypeOK
<1>1. IInv => TypeOK
  <2> SUFFICES ASSUME RingInv, TypeInv PROVE TypeOK
    BY DEF IInv
  <2> QED
    BY DEF RingInv, RingType, TypeInv, BytesType, TypeOK, Places, Pcs
<1> QED BY <1>1, Invariant, PTL

\* Whatever is typed and whenever it interrupts TTY, the buffer of any length holds
\* exactly `count' bytes between p_tail and p_head once it was set up undisturbed.
THEOREM BufferSound == Spec => []RingSound
<1>1. IInv => RingSound
  BY DEF IInv, RingInv, IntsOffInGet, Ring, RingSound, CountIsBytes, InRing
<1> QED BY <1>1, Invariant, PTL

\* While no byte was lost, each key has the effect it was struck for, on the console it
\* was struck for and in the order struck, whatever is held, locked, buffered or half
\* sent meanwhile: keyboard_read and in_process decode by the bytes alone.
THEOREM KeysHaveTheirEffect == Spec => []KeysFollow
<1>1. IInv => KeysFollow
  BY DEF IInv, FlightInv, Quiet, KeysFollow
<1> QED BY <1>1, Invariant, PTL

\* While no byte was lost, get_byte_from_kbdbuf is never left waiting for a byte of a
\* code that has no more: keyboard_read asks for another one just as long as the code it
\* has is not whole.
THEOREM CodesEnd == Spec => []SpinsOnlyAfterLoss
<1>1. IInv => SpinsOnlyAfterLoss
  <2> SUFFICES ASSUME RingInv, TypeInv, Flight, Quiet, pc = "get", count = 0, sending = <<>>
               PROVE  FALSE
    BY DEF IInv, FlightInv, SpinsOnlyAfterLoss
  <2>1. Flying > 0 /\ Flying = Len(got)
    <3>1. Gotten = got /\ Stored = 0 /\ Len(sending) = 0 /\ Len(Gotten) \in Nat
      BY FlyingIs DEF Gotten, Stored
    <3>2. Flying = Len(got)
      BY <3>1 DEF Flying
    <3> QED
      BY <3>2 DEF Quiet
  <2>2. PICK k, make : IsCode(k, make) /\ Fits(Len(Code(k, make))) /\ Len(Code(k, make)) <= Flying
    BY <2>1, FirstLeg DEF Flight
  <2>3. Len(Code(k, make)) \in 1 .. 6 /\ Len(got) < Len(Code(k, make))
    BY <2>2, CodesAre DEF Fits
  <2>4. Len(got) \in Nat
    BY DEF TypeInv, BytesType
  <2> QED
    BY <2>1, <2>2, <2>3, <2>4
<1> QED BY <1>1, Invariant, PTL
=============================================================================
