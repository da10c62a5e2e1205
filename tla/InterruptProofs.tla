--------------------------- MODULE InterruptProofs ---------------------------
(***************************************************************************)
(* Proofs about Interrupt, for any processes, lines and set-up programs:   *)
(* how entries nest, and that every process and activation goes on with    *)
(* the registers it had.                                                   *)
(***************************************************************************)
EXTENDS InterruptRefinement, FiniteSetTheorems, SequenceTheorems, TLAPS

Acts == Line \cup {"call"}

Typed ==
    /\ cpu \in RegistersOf(Proc \cup Acts)
    /\ int_flag \in BOOLEAN
    /\ p_proc_ready \in Proc /\ esp0 \in Proc
    /\ regs \in [Proc -> RegistersOf(Proc)]
    /\ kstack \in Seq(Entry)
    /\ imr \subseteq Line \cup {Cascade} /\ irr \subseteq Line
    /\ todo \in [Proc -> Seq([line : Line \cup {Cascade}, on : BOOLEAN])]

\* The registers of a process are its own, wherever they are.
Home ==
    /\ \A p \in Proc : regs[p].of = p /\ regs[p].eax \in 0 .. 1 /\ ~regs[p].midway
    /\ InUser => cpu.of = esp0 /\ cpu.eax \in 0 .. 1

\* Between its two port accesses a process cannot be interrupted, so that al stays
\* what the port holds.
Midway ==
    cpu.midway =>
        /\ InUser /\ int_flag = FALSE
        /\ todo[cpu.of] # <<>>
        /\ cpu.al = imr \cap Chip(Head(todo[cpu.of]).line)

\* On the kernel's stack are handlers, each with its line masked, on top of at most
\* one kernel call.
Nested ==
    \A n \in DOMAIN kstack :
        /\ Activation(n).of \in Acts
        /\ Activation(n).of = "call" => n = 1
        /\ Activation(n).of \in Line => Activation(n).of \in imr
        /\ ~Activation(n).midway

\* What is left of a program still enables the lines that it disables.
EnabledAgain ==
    \A p \in Proc : \A n \in DOMAIN todo[p] : ~todo[p][n].on =>
        \E m \in DOMAIN todo[p] : m > n /\ todo[p][m].line = todo[p][n].line

IInv ==
    /\ Typed /\ Home /\ Midway /\ DepthCounted /\ Nested /\ NestsOnce
    /\ EnabledAgain /\ MasksAgree

-----------------------------------------------------------------------------
LEMMA RegistersTyped ==
    ASSUME NEW S, NEW x \in S
    PROVE  Registers(x) \in RegistersOf(S) /\ Registers(x).of = x /\ Registers(x).eax = 0
BY DEF Registers, RegistersOf

LEMMA EaxSet ==
    ASSUME NEW S, NEW r \in RegistersOf(S), NEW e \in 0 .. 2
    PROVE  /\ [r EXCEPT !.eax = e] \in RegistersOf(S)
           /\ [r EXCEPT !.eax = e].of = r.of /\ [r EXCEPT !.eax = e].eax = e
BY DEF RegistersOf

LEMMA MaskSet ==
    ASSUME NEW S, NEW r \in RegistersOf(S),
           NEW A \in SUBSET (Line \cup {Cascade}), NEW m \in BOOLEAN
    PROVE  /\ [r EXCEPT !.al = A, !.midway = m] \in RegistersOf(S)
           /\ [r EXCEPT !.al = A, !.midway = m].of = r.of
           /\ [r EXCEPT !.al = A, !.midway = m].eax = r.eax
BY DEF RegistersOf

LEMMA RegistersOwn ==
    \A x : Registers(x).of = x /\ Registers(x).eax = 0 /\ Registers(x).midway = FALSE
BY DEF Registers

\* An entry: everything below it on the stack stays, and cpu is its own.
LEMMA Pushed ==
    ASSUME IInv, NEW x \in Acts, Save(x)
    PROVE  /\ cpu' = Registers(x)
           /\ k_reenter' = k_reenter + 1
           /\ kstack' \in Seq(Entry)
           /\ Len(kstack) \in Nat /\ Len(kstack') = Len(kstack) + 1
           /\ DOMAIN kstack = 1 .. Len(kstack) /\ DOMAIN kstack' = 1 .. Len(kstack) + 1
           /\ \A n \in DOMAIN kstack : kstack'[n] = kstack[n]
           /\ kstack'[Len(kstack) + 1] =
                [ret   |-> IF kstack = <<>> THEN "restart" ELSE "restart_reenter",
                 esi   |-> IF kstack = <<>> THEN esp0 ELSE NoProc,
                 saved |-> cpu]
           /\ regs' = IF kstack = <<>> THEN [regs EXCEPT ![esp0] = cpu] ELSE regs
<1> DEFINE entry == [ret   |-> IF kstack = <<>> THEN "restart" ELSE "restart_reenter",
                     esi   |-> IF kstack = <<>> THEN esp0 ELSE NoProc,
                     saved |-> cpu]
<1>1. kstack \in Seq(Entry) /\ entry \in Entry
  BY DEF IInv, Typed, Entry, Acts
<1>2. Outermost(k_reenter + 1) <=> kstack = <<>>
  BY <1>1 DEF IInv, DepthCounted, Outermost
<1>3. InUser <=> kstack = <<>>
  BY DEF IInv, DepthCounted
<1>4. kstack' = IF kstack = <<>> THEN <<entry>> ELSE Append(kstack, entry)
  BY <1>2, <1>3 DEF Save
<1> HIDE DEF entry
<1>6. /\ kstack' \in Seq(Entry)
      /\ Len(kstack) \in Nat /\ Len(kstack') = Len(kstack) + 1
      /\ DOMAIN kstack = 1 .. Len(kstack) /\ DOMAIN kstack' = 1 .. Len(kstack) + 1
      /\ \A n \in DOMAIN kstack : kstack'[n] = kstack[n]
      /\ kstack'[Len(kstack) + 1] = entry
  <2>1. CASE kstack = <<>>
    BY <1>1, <1>4, <2>1
  <2>2. CASE kstack # <<>>
    BY <1>1, <1>4, <2>2
  <2> QED BY <2>1, <2>2
<1> QED BY <1>3, <1>6 DEF Save, entry

\* The activations below an entry are as they were.
LEMMA PushedActs ==
    ASSUME IInv, NEW x \in Acts, Save(x)
    PROVE  /\ \A n \in DOMAIN kstack : Activation(n)' = Activation(n)
           /\ Activation(Len(kstack))' = Registers(x)
<1>1. Len(kstack) \in Nat
  BY DEF IInv, Typed
<1>2. Activation(Len(kstack))' = Registers(x)
  BY Pushed DEF Activation
<1>3. ASSUME NEW n \in DOMAIN kstack PROVE Activation(n)' = Activation(n)
  <2>1. n \in 1 .. Len(kstack) /\ n # Len(kstack')
    BY <1>1, Pushed
  <2>2. Activation(n)' = kstack'[n + 1].saved
    BY <2>1 DEF Activation
  <2>3. CASE n = Len(kstack)
    BY <1>1, <2>2, <2>3, Pushed DEF Activation
  <2>4. CASE n # Len(kstack)
    <3>1. n + 1 \in DOMAIN kstack
      BY <1>1, <2>1, <2>4, Pushed
    <3> QED BY <2>2, <2>4, <3>1, Pushed DEF Activation
  <2> QED BY <2>3, <2>4
<1> QED BY <1>2, <1>3

\* An exit: everything below stays, and goes on with its own registers.
LEMMA Popped ==
    ASSUME IInv, Return, ~InUser
    PROVE  /\ Len(kstack) \in Nat /\ Len(kstack) >= 1 /\ DOMAIN kstack = 1 .. Len(kstack)
           /\ k_reenter' = k_reenter - 1
           /\ kstack' \in Seq(Entry) /\ Len(kstack') = Len(kstack) - 1
           /\ DOMAIN kstack' = 1 .. Len(kstack) - 1
           /\ \A n \in DOMAIN kstack' : kstack'[n] = kstack[n]
           /\ Len(kstack) = 1 => cpu' = regs[p_proc_ready] /\ esp0' = p_proc_ready
           /\ Len(kstack) # 1 => cpu' = kstack[Len(kstack)].saved /\ esp0' = esp0
<1>1. kstack \in Seq(Entry) /\ kstack # <<>>
  BY DEF IInv, Typed, DepthCounted
<1>2. Len(kstack) \in Nat /\ Len(kstack) >= 1 /\ DOMAIN kstack = 1 .. Len(kstack)
  BY <1>1
<1>3. /\ (kstack[Len(kstack)].ret = "restart") <=> Len(kstack) = 1
      /\ (kstack[Len(kstack)].esi = NoProc) <=> Len(kstack) # 1
  BY <1>2 DEF IInv, DepthCounted
<1>4. k_reenter' = k_reenter - 1
  BY DEF Return, CountedOut
<1>5. CASE Len(kstack) = 1
  <2>1. Restart
    BY <1>3, <1>5 DEF Return, Last
  <2> QED BY <1>1, <1>2, <1>4, <1>5, <2>1 DEF Restart
<1>6. CASE Len(kstack) # 1
  <2>1. RestartReenter
    BY <1>3, <1>6 DEF Return, Last
  <2>2. cpu' = kstack[Len(kstack)].saved /\ esp0' = esp0
    BY <1>3, <1>6, <2>1 DEF RestartReenter, Last
  <2>3. kstack' = SubSeq(kstack, 1, Len(kstack) - 1)
    BY <2>1 DEF RestartReenter, Front
  <2>4. /\ kstack' \in Seq(Entry) /\ Len(kstack') = Len(kstack) - 1
        /\ DOMAIN kstack' = 1 .. Len(kstack) - 1
        /\ \A n \in 1 .. Len(kstack) - 1 : kstack'[n] = kstack[n]
    BY <1>1, <1>2, <2>3
  <2> QED BY <1>2, <1>4, <1>6, <2>2, <2>4
<1> QED BY <1>5, <1>6

LEMMA PoppedActs ==
    ASSUME IInv, Return, ~InUser
    PROVE  \A n \in DOMAIN kstack' : Activation(n)' = Activation(n)
<1> SUFFICES ASSUME NEW n \in DOMAIN kstack' PROVE Activation(n)' = Activation(n)
  OBVIOUS
<1>1. n \in 1 .. Len(kstack) - 1 /\ Len(kstack) \in Nat /\ Len(kstack) >= 1
  BY Popped
<1>2. Len(kstack) # 1 /\ n # Len(kstack)
  BY <1>1
<1>3. Activation(n) = kstack[n + 1].saved
  BY <1>2 DEF Activation
<1>4. CASE n = Len(kstack) - 1
  <2>1. Activation(n)' = cpu'
    BY <1>4, Popped DEF Activation
  <2>2. cpu' = kstack[Len(kstack)].saved
    BY <1>2, Popped
  <2>3. n + 1 = Len(kstack)
    BY <1>1, <1>4
  <2> QED BY <1>3, <2>1, <2>2, <2>3
<1>5. CASE n # Len(kstack) - 1
  <2>1. Activation(n)' = kstack'[n + 1].saved
    BY <1>5, Popped DEF Activation
  <2>2. n + 1 \in DOMAIN kstack'
    BY <1>1, <1>5, Popped
  <2> QED BY <1>3, <2>1, <2>2, Popped
<1> QED BY <1>4, <1>5

-----------------------------------------------------------------------------
(* The inductive invariant *)

LEMMA InitInv == Init => IInv
<1> SUFFICES ASSUME Init PROVE IInv
  OBVIOUS
<1>1. FirstProc \in Proc /\ Opened \subseteq Line
      /\ Programs \in [Proc -> Seq([line : Line \cup {Cascade}, on : BOOLEAN])]
  BY InterruptAssumption
<1>2. \A p \in Proc : /\ Registers(p) \in RegistersOf(Proc)
                      /\ Registers(p).of = p /\ Registers(p).eax = 0
  BY RegistersTyped
<1>3. cpu \in RegistersOf(Proc \cup Acts) /\ cpu.of = FirstProc /\ cpu.eax = 0
  BY <1>1, RegistersTyped DEF Init
<1>4. Typed
  <2>1. regs \in [Proc -> RegistersOf(Proc)]
    BY <1>2 DEF Init
  <2>2. kstack \in Seq(Entry)
    BY DEF Init
  <2>3. imr \subseteq Line \cup {Cascade} /\ irr \subseteq Line
    BY DEF Init
  <2> QED BY <1>1, <1>3, <2>1, <2>2, <2>3 DEF Init, Typed
<1>5. Home
  BY <1>1, <1>3, RegistersOwn DEF Init, Home
<1>6. DepthCounted /\ Nested /\ NestsOnce
  BY <1>1, <1>3 DEF Init, DepthCounted, Nested, NestsOnce, InUser
<1>7. Midway
  BY RegistersOwn DEF Init, Midway
<1>8. EnabledAgain
  BY ProgramsAssumption DEF Init, EnabledAgain
<1>9. MasksAgree
  BY ProgramsAssumption DEF Init, MasksAgree, SetUp
<1> QED BY <1>4, <1>5, <1>6, <1>7, <1>8, <1>9 DEF IInv

\* An activation begins: x is not at work yet, and its line is masked.
LEMMA BeginInv ==
    ASSUME IInv, NEW x \in Acts, Save(x), Typed', 
           UNCHANGED <<p_proc_ready, esp0, todo>>, int_flag,
           x = "call" => InUser,
           x \in Line => x \notin imr, imr' = imr \cup (Line \cap {x})
    PROVE  IInv'
<1>1. /\ Len(kstack) \in Nat /\ Len(kstack') = Len(kstack) + 1
      /\ DOMAIN kstack = 1 .. Len(kstack) /\ DOMAIN kstack' = 1 .. Len(kstack) + 1
  BY Pushed
<1>2. /\ \A n \in DOMAIN kstack : Activation(n)' = Activation(n)
      /\ \A n : n = Len(kstack) + 1 => Activation(n)'.of = x /\ ~Activation(n)'.midway
  <2>1. \A n : n = Len(kstack') => Activation(n)'.of = x /\ ~Activation(n)'.midway
    BY Pushed, RegistersOwn DEF Activation
  <2> QED BY <1>1, <2>1, PushedActs
<1>3. InUser <=> kstack = <<>>
  BY DEF IInv, DepthCounted
<1>4. cpu'.of = x /\ ~cpu'.midway /\ x \notin Proc /\ ~cpu.midway
  BY InterruptAssumption, Pushed, RegistersOwn DEF Acts, IInv, Midway
<1>5. Home'
  <2>1. CASE kstack = <<>>
    <3>1. regs' = [regs EXCEPT ![esp0] = cpu] /\ cpu.of = esp0 /\ cpu.eax \in 0 .. 1
      BY <1>3, <2>1, Pushed DEF IInv, Home
    <3> QED BY <1>4, <3>1 DEF Home, IInv, Typed, InUser
  <2>2. CASE kstack # <<>>
    BY <1>4, <2>2, Pushed DEF Home, IInv, InUser
  <2> QED BY <2>1, <2>2
<1>6. x = "call" => kstack = <<>>
  BY <1>3
<1>7. ASSUME NEW n \in DOMAIN kstack PROVE Activation(n).of # x
  <2>1. CASE x \in Line
    BY <1>7, <2>1 DEF IInv, Nested
  <2>2. CASE x = "call"
    BY <1>1, <1>6, <1>7, <2>2
  <2> QED BY <2>1, <2>2 DEF Acts
<1>8. \A n \in DOMAIN kstack' : n \in DOMAIN kstack \/ n = Len(kstack) + 1
  BY <1>1
<1>9. Nested'
  <2> SUFFICES ASSUME NEW n \in DOMAIN kstack'
               PROVE  /\ Activation(n)'.of \in Acts
                      /\ Activation(n)'.of = "call" => n = 1
                      /\ Activation(n)'.of \in Line => Activation(n)'.of \in imr'
                      /\ ~Activation(n)'.midway
    BY DEF Nested
  <2>1. CASE n \in DOMAIN kstack
    BY <1>2, <2>1 DEF IInv, Nested
  <2>2. CASE n = Len(kstack) + 1
    <3>1. x = "call" => n = 1
      BY <1>1, <1>6, <2>2
    <3> QED BY <1>2, <2>2, <3>1
  <2> QED BY <1>8, <2>1, <2>2
<1>10. NestsOnce'
  <2> SUFFICES ASSUME NEW m \in DOMAIN kstack', NEW n \in DOMAIN kstack',
                      Activation(m)'.of = Activation(n)'.of
               PROVE  m = n
    BY DEF NestsOnce
  <2> QED BY <1>2, <1>7, <1>8 DEF IInv, NestsOnce
<1>11. DepthCounted'
  <2>1. k_reenter' = Len(kstack') - 1
    BY <1>1, Pushed DEF IInv, DepthCounted
  <2>2. ~InUser' /\ kstack' # <<>>
    BY <1>1, <1>4 DEF InUser
  <2>3. ASSUME NEW n \in DOMAIN kstack'
        PROVE  /\ (kstack'[n].ret = "restart") <=> n = 1
               /\ (kstack'[n].esi = NoProc) <=> n # 1
    <3>1. CASE n \in DOMAIN kstack
      BY <3>1, Pushed DEF IInv, DepthCounted
    <3>2. CASE n = Len(kstack) + 1
      <4>1. n = 1 <=> kstack = <<>>
        BY <1>1, <3>2 DEF IInv, Typed
      <4>2. esp0 # NoProc
        BY InterruptAssumption DEF IInv, Typed
      <4> QED BY <3>2, <4>1, <4>2, Pushed
    <3> QED BY <1>8, <3>1, <3>2
  <2> QED BY <2>1, <2>2, <2>3 DEF DepthCounted
<1>12. MasksAgree'
  <2> SUFFICES ASSUME NEW i \in Line \cup {Cascade}, SetUp(i)
               PROVE  i \in imr' <=> \E n \in DOMAIN kstack' : Activation(n)'.of = i
    BY DEF MasksAgree, SetUp
  <2>1. i \in imr <=> \E n \in DOMAIN kstack : Activation(n).of = i
    BY DEF IInv, MasksAgree
  <2>2. i \in imr' <=> i \in imr \/ i = x
    BY InterruptAssumption DEF Acts
  <2>3. DOMAIN kstack \subseteq DOMAIN kstack' /\ Len(kstack) + 1 \in DOMAIN kstack'
    BY <1>1
  <2> QED BY <1>2, <1>8, <2>1, <2>2, <2>3
<1>13. Midway' /\ EnabledAgain'
  BY <1>4 DEF IInv, Midway, EnabledAgain
<1> QED BY <1>5, <1>9, <1>10, <1>11, <1>12, <1>13 DEF IInv

\* The innermost activation goes on.
LEMMA WorkInv ==
    ASSUME IInv, ~InUser, Typed', UNCHANGED <<k_reenter, esp0, kstack, imr, todo>>,
           cpu'.of = cpu.of, cpu'.midway = cpu.midway,
           \A p \in Proc : regs'[p].of = p /\ regs'[p].eax \in 0 .. 1 /\ ~regs'[p].midway
    PROVE  IInv'
<1>1. \A n : Activation(n)'.of = Activation(n).of /\ Activation(n)'.midway = Activation(n).midway
  BY DEF Activation
<1>2. InUser' <=> InUser
  BY DEF InUser
<1>3. Home' /\ DepthCounted'
  BY <1>2 DEF IInv, Home, DepthCounted
<1>4. Nested' /\ NestsOnce'
  BY <1>1 DEF IInv, Nested, NestsOnce
<1>5. MasksAgree' /\ EnabledAgain'
  BY <1>1 DEF IInv, MasksAgree, SetUp, EnabledAgain
<1>6. Midway'
  BY DEF IInv, Midway
<1> QED BY <1>3, <1>4, <1>5, <1>6 DEF IInv

\* An activation ends: its line was masked for no other's sake.
LEMMA EndInv ==
    ASSUME IInv, ~InUser, Return, Typed', UNCHANGED <<p_proc_ready, regs, todo>>,
           \A i \in Line \cup {Cascade} : i \in imr' <=> i \in imr /\ i # cpu.of
    PROVE  IInv'
<1>1. /\ Len(kstack) \in Nat /\ Len(kstack) >= 1 /\ Len(kstack') = Len(kstack) - 1
      /\ DOMAIN kstack = 1 .. Len(kstack) /\ DOMAIN kstack' = 1 .. Len(kstack) - 1
  BY Popped
<1>2. \A n \in DOMAIN kstack' : n \in DOMAIN kstack /\ n # Len(kstack)
  BY <1>1
<1>3. Activation(Len(kstack)) = cpu /\ Len(kstack) \in DOMAIN kstack
  BY <1>1 DEF Activation
<1>4. ASSUME NEW n \in DOMAIN kstack'
      PROVE  Activation(n)' = Activation(n) /\ Activation(n).of # cpu.of
  BY <1>2, <1>3, PoppedActs DEF IInv, NestsOnce
<1>5. Nested' /\ NestsOnce'
  BY <1>2, <1>4 DEF IInv, Nested, NestsOnce
<1>8. MasksAgree'
  <2> SUFFICES ASSUME NEW i \in Line \cup {Cascade}, SetUp(i)
               PROVE  i \in imr' <=> \E n \in DOMAIN kstack' : Activation(n)'.of = i
    BY DEF MasksAgree, SetUp
  <2>1. i \in imr <=> \E n \in DOMAIN kstack : Activation(n).of = i
    BY DEF IInv, MasksAgree
  <2>2. \A n \in DOMAIN kstack : n \in DOMAIN kstack' \/ n = Len(kstack)
    BY <1>1
  <2> QED BY <1>2, <1>3, <1>4, <2>1, <2>2
<1>9. EnabledAgain'
  BY DEF IInv, EnabledAgain
<1>6. CASE Len(kstack) = 1
  <2>1. cpu' = regs[p_proc_ready] /\ esp0' = p_proc_ready /\ p_proc_ready \in Proc
    BY <1>6, Popped DEF IInv, Typed
  <2>2. InUser' /\ Home' /\ Midway'
    BY <2>1 DEF IInv, Home, InUser, Midway
  <2>3. kstack' = <<>> /\ DOMAIN kstack' = {} /\ k_reenter' = Len(kstack') - 1
    BY <1>1, <1>6, Popped DEF IInv, DepthCounted
  <2>4. DepthCounted'
    BY <2>2, <2>3 DEF DepthCounted
  <2> QED BY <1>5, <1>8, <1>9, <2>2, <2>4 DEF IInv
<1>7. CASE Len(kstack) # 1
  <2>1. cpu' = kstack[Len(kstack)].saved
    BY <1>7, Popped
  <2>2. cpu' = Activation(Len(kstack) - 1) /\ Len(kstack) - 1 \in DOMAIN kstack
    BY <1>1, <1>7, <2>1 DEF Activation
  <2>3. cpu'.of \in Acts /\ ~cpu'.midway
    BY <2>2 DEF IInv, Nested
  <2>4. ~InUser' /\ Home' /\ Midway'
    BY <2>3, InterruptAssumption DEF IInv, Home, InUser, Acts, Midway
  <2>5. kstack' # <<>> /\ k_reenter' = Len(kstack') - 1
    BY <1>1, <1>7, Popped DEF IInv, DepthCounted
  <2>6. DepthCounted'
    BY <1>2, <2>4, <2>5, Popped DEF IInv, DepthCounted
  <2> QED BY <1>5, <1>8, <1>9, <2>4, <2>6 DEF IInv
<1> QED BY <1>6, <1>7

LEMMA RaiseInv ==
    ASSUME IInv, NEW i \in Line, Raise(i)
    PROVE  IInv'
<1>1. UNCHANGED <<cpu, int_flag, k_reenter, p_proc_ready, esp0, regs, kstack, imr, todo>>
      /\ irr' \subseteq irr \cup Line
  BY DEF Raise, processes
<1>2. Typed' /\ Home' /\ Midway'
  BY <1>1 DEF IInv, Typed, Home, Midway, InUser
<1> QED BY <1>1, <1>2 DEF IInv, DepthCounted, Nested, NestsOnce, InUser, Activation,
                          EnabledAgain, MasksAgree, SetUp

\* What an entry pushes has its type.
LEMMA SaveTyped ==
    ASSUME IInv, NEW x \in Acts, Save(x)
    PROVE  /\ cpu' \in RegistersOf(Proc \cup Acts)
           /\ regs' \in [Proc -> RegistersOf(Proc)]
           /\ kstack' \in Seq(Entry)
<1>1. cpu' \in RegistersOf(Proc \cup Acts)
  BY Pushed, RegistersTyped
<1>2. CASE kstack = <<>>
  <2>1. cpu \in RegistersOf(Proc)
    BY <1>2 DEF IInv, Typed, DepthCounted, InUser, RegistersOf
  <2> QED BY <1>1, <1>2, <2>1, Pushed DEF IInv, Typed
<1>3. CASE kstack # <<>>
  BY <1>1, <1>3, Pushed DEF IInv, Typed
<1> QED BY <1>2, <1>3

LEMMA HwIntInv ==
    ASSUME IInv, NEW n \in DOMAIN Lines, HwInt(n)
    PROVE  IInv'
<1>1. Lines[n] \in Line /\ Lines[n] \in Acts
  BY DEF Line, ToSet, Acts
<1>2. Save(Lines[n]) /\ imr' = imr \cup {Lines[n]} /\ irr' \subseteq irr
      /\ int_flag' = TRUE /\ UNCHANGED <<p_proc_ready, esp0, todo>>
  BY DEF HwInt, Mask, Sti
<1>3. Lines[n] \notin imr /\ int_flag
  BY DEF HwInt, FirstDeliverable, Deliverable
<1>4. Typed'
  BY <1>1, <1>2, SaveTyped DEF IInv, Typed
<1>5. Lines[n] # "call"
  BY <1>1, InterruptAssumption
<1> QED BY <1>1, <1>2, <1>3, <1>4, <1>5, BeginInv

LEMMA SyscallInv ==
    ASSUME IInv, Syscall
    PROVE  IInv'
<1>1. Save("call") /\ InUser /\ int_flag /\ int_flag' = TRUE
      /\ UNCHANGED <<p_proc_ready, esp0, imr, irr, todo>>
  BY DEF Syscall, Sti
<1>2. "call" \in Acts /\ "call" \notin Line
  BY InterruptAssumption DEF Acts
<1>3. Typed'
  BY <1>1, <1>2, SaveTyped DEF IInv, Typed
<1> QED BY <1>1, <1>2, <1>3, BeginInv

LEMMA KernelInv ==
    ASSUME IInv, Handler \/ SyscallBody \/ SyscallAnswer
    PROVE  IInv'
<1>1. cpu.of \in Acts /\ ~InUser
  BY InterruptAssumption DEF Handler, SyscallBody, SyscallAnswer, Acts, InUser
<1>2. CASE Handler \/ SyscallBody
  <2>1. cpu' = [cpu EXCEPT !.eax = 1] /\ p_proc_ready' \in Proc
        /\ UNCHANGED <<int_flag, k_reenter, esp0, regs, kstack, imr, irr, todo>>
    BY <1>2 DEF Handler, SyscallBody, IInv, Typed
  <2>2. cpu' \in RegistersOf(Proc \cup Acts) /\ cpu'.of = cpu.of
        /\ cpu'.midway = cpu.midway
    <3>1. cpu \in RegistersOf(Proc \cup Acts)
      BY DEF IInv, Typed
    <3> QED BY <2>1, <3>1 DEF RegistersOf
  <2>3. Typed'
    BY <2>1, <2>2 DEF IInv, Typed
  <2>4. \A p \in Proc : regs'[p].of = p /\ regs'[p].eax \in 0 .. 1 /\ ~regs'[p].midway
    BY <2>1 DEF IInv, Home
  <2> QED BY <1>1, <2>1, <2>2, <2>3, <2>4, WorkInv
<1>3. CASE SyscallAnswer
  <2> DEFINE c == Last(kstack).esi
  <2>1. cpu' = [cpu EXCEPT !.eax = 2] /\ regs' = [regs EXCEPT ![c].eax = 1]
        /\ UNCHANGED <<int_flag, k_reenter, p_proc_ready, esp0, kstack, imr, irr, todo>>
    BY <1>3 DEF SyscallAnswer, Caller
  <2>2. cpu' \in RegistersOf(Proc \cup Acts) /\ cpu'.of = cpu.of
        /\ cpu'.midway = cpu.midway
    <3>1. cpu \in RegistersOf(Proc \cup Acts)
      BY DEF IInv, Typed
    <3> QED BY <2>1, <3>1 DEF RegistersOf
  <2>3. regs' \in [Proc -> RegistersOf(Proc)]
    <3>1. regs \in [Proc -> RegistersOf(Proc)]
      BY DEF IInv, Typed
    <3>2. c \in Proc => [regs[c] EXCEPT !.eax = 1] \in RegistersOf(Proc)
      BY <3>1 DEF RegistersOf
    <3> QED BY <2>1, <3>1, <3>2
  <2>4. \A p \in Proc : regs'[p].of = p /\ regs'[p].eax \in 0 .. 1 /\ ~regs'[p].midway
    <3>1. regs \in [Proc -> RegistersOf(Proc)]
          /\ \A p \in Proc : regs[p].of = p /\ regs[p].eax \in 0 .. 1 /\ ~regs[p].midway
      BY DEF IInv, Typed, Home
    <3>2. ASSUME NEW p \in Proc
          PROVE  regs'[p].of = p /\ regs'[p].eax \in 0 .. 1 /\ ~regs'[p].midway
      <4>1. CASE p = c
        BY <2>1, <3>1, <4>1 DEF RegistersOf
      <4>2. CASE p # c
        BY <2>1, <3>1, <4>2
      <4> QED BY <4>1, <4>2
    <3> QED BY <3>2
  <2>5. Typed'
    BY <2>1, <2>2, <2>3 DEF IInv, Typed
  <2> QED BY <1>1, <2>1, <2>2, <2>4, <2>5, WorkInv
<1> QED BY <1>2, <1>3

LEMMA ReturnInv ==
    ASSUME IInv, HwIntReturn \/ SyscallReturn
    PROVE  IInv'
<1>1. cpu.of \in Acts /\ ~InUser /\ Return /\ UNCHANGED <<p_proc_ready, regs, irr, todo>>
  BY InterruptAssumption DEF HwIntReturn, SyscallReturn, Acts, InUser
<1>2. imr' \subseteq imr
      /\ \A i \in Line \cup {Cascade} : i \in imr' <=> i \in imr /\ i # cpu.of
  BY InterruptAssumption DEF HwIntReturn, SyscallReturn, Unmask
<1>3. cpu' \in RegistersOf(Proc \cup Acts) /\ esp0' \in Proc
  <2>1. CASE Len(kstack) = 1
    <3>1. cpu' = regs[p_proc_ready] /\ esp0' = p_proc_ready
          /\ p_proc_ready \in Proc /\ regs \in [Proc -> RegistersOf(Proc)]
      BY <1>1, <2>1, Popped DEF IInv, Typed
    <3> QED BY <3>1 DEF RegistersOf
  <2>2. CASE Len(kstack) # 1
    <3>1. kstack[Len(kstack)] \in Entry /\ esp0' = esp0
          /\ cpu' = kstack[Len(kstack)].saved
      <4>1. esp0' = esp0 /\ cpu' = kstack[Len(kstack)].saved
            /\ Len(kstack) \in DOMAIN kstack
        BY <1>1, <2>2, Popped
      <4> QED BY <4>1 DEF IInv, Typed
    <3> QED BY <3>1 DEF IInv, Typed, Entry, Acts
  <2> QED BY <2>1, <2>2
<1>4. Typed'
  BY <1>1, <1>2, <1>3, Popped DEF IInv, Typed, Return
<1> QED BY <1>1, <1>2, <1>4, EndInv

LEMMA ComputeInv ==
    ASSUME IInv, Compute
    PROVE  IInv'
<1>1. InUser /\ kstack = <<>> /\ ~cpu.midway /\ cpu \in RegistersOf(Proc \cup Acts)
      /\ cpu.eax \in 0 .. 1 /\ cpu' = [cpu EXCEPT !.eax = 1 - cpu.eax]
      /\ UNCHANGED <<int_flag, k_reenter, p_proc_ready, esp0, regs, kstack, imr, irr, todo>>
  BY DEF Compute, IInv, Typed, Home, DepthCounted, processes
<1>2. 1 - cpu.eax \in 0 .. 1 /\ 1 - cpu.eax \in 0 .. 2
  BY <1>1
<1>3. cpu' \in RegistersOf(Proc \cup Acts) /\ cpu'.of = cpu.of /\ cpu'.eax \in 0 .. 1
      /\ ~cpu'.midway
  BY <1>1, <1>2 DEF RegistersOf
<1>4. Typed' /\ Home' /\ Midway'
  BY <1>1, <1>3 DEF IInv, Typed, Home, Midway, InUser
<1>5. DepthCounted' /\ Nested' /\ NestsOnce' /\ EnabledAgain' /\ MasksAgree'
  BY <1>1, <1>3 DEF IInv, DepthCounted, Nested, NestsOnce, InUser, EnabledAgain, MasksAgree, SetUp
<1> QED BY <1>4, <1>5 DEF IInv

LEMMA MaskInInv ==
    ASSUME IInv, MaskIn
    PROVE  IInv'
<1> DEFINE A == imr \cap Chip(Head(todo[cpu.of]).line)
<1>1. InUser /\ kstack = <<>> /\ cpu \in RegistersOf(Proc \cup Acts) /\ int_flag' = FALSE
      /\ cpu.eax \in 0 .. 1 /\ cpu' = [cpu EXCEPT !.al = A, !.midway = TRUE]
      /\ todo[cpu.of] # <<>> /\ A \subseteq Line \cup {Cascade}
      /\ UNCHANGED <<k_reenter, p_proc_ready, esp0, regs, kstack, imr, irr, todo>>
  BY DEF MaskIn, IInv, Typed, Home, DepthCounted, processes, DisableInt
<1>2. cpu' \in RegistersOf(Proc \cup Acts) /\ cpu'.of = cpu.of /\ cpu'.eax \in 0 .. 1
      /\ cpu'.al = A
  <2> HIDE DEF A
  <2> QED BY <1>1 DEF RegistersOf
<1>3. Typed' /\ Home' /\ Midway'
  BY <1>1, <1>2 DEF IInv, Typed, Home, Midway, InUser
<1>4. DepthCounted' /\ Nested' /\ NestsOnce' /\ EnabledAgain' /\ MasksAgree'
  BY <1>1, <1>2 DEF IInv, DepthCounted, Nested, NestsOnce, InUser, EnabledAgain, MasksAgree, SetUp
<1> QED BY <1>3, <1>4 DEF IInv

LEMMA TailElements ==
    ASSUME NEW S, NEW s \in Seq(S), s # <<>>
    PROVE  /\ Head(s) = s[1] /\ Head(s) \in S /\ 1 \in DOMAIN s /\ Tail(s) \in Seq(S)
           /\ Len(s) \in Nat /\ DOMAIN s = 1 .. Len(s)
           /\ DOMAIN Tail(s) = 1 .. Len(s) - 1
           /\ \A n \in 1 .. Len(s) - 1 : Tail(s)[n] = s[n + 1]
OBVIOUS

\* The line comes out of the port as the operation wants it, and all others as they were.
LEMMA MaskOutInv ==
    ASSUME IInv, MaskOut
    PROVE  IInv'
<1> DEFINE p == cpu.of
           op == Head(todo[p])
           mask == IF op.on THEN cpu.al \ {op.line} ELSE cpu.al \cup {op.line}
           Op == [line : Line \cup {Cascade}, on : BOOLEAN]
<1>1. /\ p \in Proc /\ kstack = <<>> /\ cpu \in RegistersOf(Proc \cup Acts)
      /\ cpu.eax \in 0 .. 1 /\ cpu' = [cpu EXCEPT !.al = {}, !.midway = FALSE]
      /\ int_flag' = TRUE /\ imr' = (imr \ Chip(op.line)) \cup mask
      /\ todo' = [todo EXCEPT ![p] = Tail(@)]
      /\ UNCHANGED <<k_reenter, p_proc_ready, esp0, regs, kstack, irr>>
  BY DEF MaskOut, IInv, Typed, Home, DepthCounted, processes, InUser
<1>2. /\ todo \in [Proc -> Seq(Op)] /\ todo[p] \in Seq(Op) /\ todo[p] # <<>>
      /\ imr \subseteq Line \cup {Cascade} /\ cpu.al = imr \cap Chip(op.line)
  BY <1>1 DEF MaskOut, IInv, Typed, Midway
<1>3. op \in Op /\ op = todo[p][1] /\ 1 \in DOMAIN todo[p] /\ Tail(todo[p]) \in Seq(Op)
  <2> HIDE DEF p, Op
  <2>1. todo[p] \in Seq(Op) /\ todo[p] # <<>>
    BY <1>2
  <2> QED BY <2>1, TailElements
<1>4. /\ Len(todo[p]) \in Nat /\ DOMAIN todo[p] = 1 .. Len(todo[p])
      /\ DOMAIN Tail(todo[p]) = 1 .. Len(todo[p]) - 1
      /\ \A n \in 1 .. Len(todo[p]) - 1 : Tail(todo[p])[n] = todo[p][n + 1]
  BY <1>2, TailElements
<1>5. ASSUME NEW n \in DOMAIN todo[p], n # 1
      PROVE  \E m \in DOMAIN Tail(todo[p]) : m + 1 = n /\ Tail(todo[p])[m] = todo[p][n]
  <2>1. n - 1 \in 1 .. Len(todo[p]) - 1 /\ (n - 1) + 1 = n
    BY <1>4, <1>5
  <2> QED BY <1>4, <2>1
<1>6. ASSUME NEW n \in DOMAIN Tail(todo[p])
      PROVE  n \in Nat /\ n + 1 \in DOMAIN todo[p] /\ Tail(todo[p])[n] = todo[p][n + 1]
  BY <1>4
<1>7. /\ todo'[p] = Tail(todo[p])
      /\ \A q \in Proc : q # p => todo'[q] = todo[q]
      /\ todo' \in [Proc -> Seq(Op)]
  BY <1>1, <1>2, <1>3
<1>8. imr' \subseteq Line \cup {Cascade}
  BY <1>1, <1>2, <1>3
<1>9. cpu' \in RegistersOf(Proc \cup Acts) /\ cpu'.of = cpu.of /\ cpu'.eax \in 0 .. 1
      /\ ~cpu'.midway
  BY <1>1 DEF RegistersOf
<1>10. Typed' /\ Home' /\ Midway'
  BY <1>1, <1>7, <1>8, <1>9 DEF IInv, Typed, Home, Midway, InUser
<1>11. DepthCounted' /\ Nested' /\ NestsOnce'
  BY <1>1, <1>9 DEF IInv, DepthCounted, Nested, NestsOnce, InUser
<1>12. EnabledAgain'
  <2> SUFFICES ASSUME NEW q \in Proc, NEW n \in DOMAIN todo'[q], ~todo'[q][n].on
               PROVE  \E m \in DOMAIN todo'[q] : m > n /\ todo'[q][m].line = todo'[q][n].line
    BY DEF EnabledAgain
  <2>1. CASE q # p
    <3>1. todo'[q] = todo[q]
      BY <1>7, <2>1
    <3>2. \E m \in DOMAIN todo[q] : m > n /\ todo[q][m].line = todo[q][n].line
      BY <3>1 DEF IInv, EnabledAgain
    <3> QED BY <3>1, <3>2
  <2>2. CASE q = p
    <3>1. n \in Nat /\ n + 1 \in DOMAIN todo[p] /\ todo'[p][n] = todo[p][n + 1]
      BY <1>6, <1>7, <2>2
    <3>2. PICK m \in DOMAIN todo[p] : m > n + 1 /\ todo[p][m].line = todo[p][n + 1].line
      BY <1>1, <2>2, <3>1 DEF IInv, EnabledAgain
    <3>3. m # 1 /\ m \in Nat
      BY <1>4, <3>1, <3>2
    <3>4. PICK k \in DOMAIN Tail(todo[p]) : k + 1 = m /\ Tail(todo[p])[k] = todo[p][m]
      BY <1>5, <3>3
    <3>5. k \in Nat /\ k > n
      BY <1>6, <3>1, <3>2, <3>4
    <3> QED BY <1>7, <2>2, <3>1, <3>2, <3>4, <3>5
  <2> QED BY <2>1, <2>2
<1>13. MasksAgree'
  <2> SUFFICES ASSUME NEW i \in Line \cup {Cascade}, SetUp(i)' PROVE i \notin imr'
    BY <1>1 DEF MasksAgree
  <2>1. CASE i = op.line
    <3>1. \A n \in DOMAIN todo[p] : n # 1 => todo[p][n].line # i
      BY <1>1, <1>5, <1>7 DEF SetUp
    <3>2. op.on
      BY <1>1, <1>3, <1>4, <2>1, <3>1 DEF IInv, EnabledAgain
    <3> QED BY <1>1, <2>1, <3>2 DEF Chip
  <2>2. CASE i # op.line
    <3>1. \A n \in DOMAIN todo[p] : todo[p][n].line # i
      <4>1. todo[p][1].line # i
        BY <1>3, <2>2
      <4>2. \A m \in DOMAIN Tail(todo[p]) : Tail(todo[p])[m].line # i
        BY <1>1, <1>7 DEF SetUp
      <4> QED BY <1>5, <4>1, <4>2
    <3>2. SetUp(i)
      BY <1>7, <3>1 DEF SetUp
    <3>3. i \notin imr
      BY <1>1, <3>2 DEF IInv, MasksAgree
    <3> QED BY <1>1, <1>2, <2>2, <3>3
  <2> QED BY <2>1, <2>2
<1> QED BY <1>10, <1>11, <1>12, <1>13 DEF IInv

LEMMA StutterInv == IInv /\ UNCHANGED vars => IInv'
<1> SUFFICES ASSUME IInv, UNCHANGED vars PROVE IInv'
  OBVIOUS
<1>1. UNCHANGED <<cpu, int_flag, k_reenter, p_proc_ready, esp0, regs, kstack, imr, irr, todo>>
  BY DEF vars, processes
<1>2. Typed' /\ Home' /\ Midway'
  BY <1>1 DEF IInv, Typed, Home, Midway, InUser
<1> QED BY <1>1, <1>2 DEF IInv, DepthCounted, Nested, NestsOnce, InUser, Activation,
                          EnabledAgain, MasksAgree, SetUp

LEMMA StepInv == IInv /\ [Next]_vars => IInv'
BY RaiseInv, HwIntInv, SyscallInv, KernelInv, ReturnInv, ComputeInv, MaskInInv, MaskOutInv,
   StutterInv DEF Next

THEOREM Invariant == Spec => []IInv
BY InitInv, StepInv, PTL DEF Spec

-----------------------------------------------------------------------------
(* The theorems *)

LEMMA FiniteLines == IsFiniteSet(Line) /\ Cardinality(Line) \in Nat
<1> DEFINE f == [n \in DOMAIN Lines |-> Lines[n]]
<1>1. DOMAIN Lines = 1 .. Len(Lines) /\ Len(Lines) \in Nat
  BY InterruptAssumption
<1>2. IsFiniteSet(DOMAIN Lines)
  BY <1>1, FS_Interval
<1>3. f \in Surjection(DOMAIN Lines, Line)
  BY DEF Surjection, Line, ToSet
<1>4. IsFiniteSet(Line)
  BY <1>2, <1>3, FS_Surjection
<1> QED BY <1>4, FS_CardinalityType

\* Two of more entries than there are activities would be of the same.
LEMMA Bounded == IInv => k_reenter \in -1 .. Cardinality(Line)
<1> SUFFICES ASSUME IInv PROVE k_reenter \in -1 .. Cardinality(Line)
  OBVIOUS
<1> DEFINE f == [n \in DOMAIN kstack |-> Activation(n).of]
<1>1. /\ Len(kstack) \in Nat /\ DOMAIN kstack = 1 .. Len(kstack)
      /\ k_reenter = Len(kstack) - 1
  BY DEF IInv, Typed, DepthCounted
<1>2. IsFiniteSet(DOMAIN kstack) /\ Cardinality(DOMAIN kstack) = Len(kstack)
  <2>1. IsFiniteSet(1 .. Len(kstack))
        /\ Cardinality(1 .. Len(kstack)) = IF 1 > Len(kstack) THEN 0 ELSE Len(kstack) - 1 + 1
    <3>1. 1 \in Int /\ Len(kstack) \in Int
      BY <1>1
    <3> QED BY <3>1, FS_Interval, Zenon
  <2> QED BY <1>1, <2>1
<1>3. IsFiniteSet(Acts) /\ Cardinality(Acts) = Cardinality(Line) + 1
  BY FiniteLines, FS_AddElement, InterruptAssumption DEF Acts
<1>4. f \in [DOMAIN kstack -> Acts]
  BY DEF IInv, Nested
<1>5. \A m, n \in DOMAIN kstack : f[m] = f[n] => m = n
  BY DEF IInv, NestsOnce
<1>6. ~(Cardinality(Acts) < Cardinality(DOMAIN kstack))
  <2> HIDE DEF f
  <2> QED BY <1>2, <1>3, <1>4, <1>5, FS_PigeonHole
<1> QED BY <1>1, <1>2, <1>3, <1>6, FiniteLines

\* The kernel's stack holds at most one kernel call and one entry for each line, and
\* everything keeps its type (kernel.asm:258-295).
THEOREM TypeCorrect == Spec => []TypeOK
<1>1. IInv => TypeOK
  BY Bounded DEF IInv, Typed, TypeOK, Acts
<1> QED BY <1>1, Invariant, PTL

\* For any number of processes and lines, k_reenter counts the entries on the kernel's
\* stack, and only the first returns into the process that is ready (kernel.asm:271).
THEOREM DepthIsCounted == Spec => []DepthCounted
<1>1. IInv => DepthCounted
  BY DEF IInv
<1> QED BY <1>1, Invariant, PTL

\* For any lines, and whatever drivers do with their masks meanwhile, no handler
\* interrupts itself (kernel.asm:151-153).
THEOREM NoSelfNesting == Spec => []NestsOnce
<1>1. IInv => NestsOnce
  BY DEF IInv
<1> QED BY <1>1, Invariant, PTL

\* For any set-up programs that enable in the end what they disable, a line whose
\* driver is set up is masked by its own handler only (kliba.asm:107, kernel.asm:160).
THEOREM NoLostMask == Spec => []MasksAgree
<1>1. IInv => MasksAgree
  BY DEF IInv
<1> QED BY <1>1, Invariant, PTL

-----------------------------------------------------------------------------
(* The refinement *)

LEMMA SameElements ==
    ASSUME NEW S, NEW s \in Seq(S), NEW t \in Seq(S), Len(s) = Len(t),
           \A n \in 1 .. Len(s) : s[n] = t[n]
    PROVE  s = t
OBVIOUS

LEMMA FrontElements ==
    ASSUME NEW S, NEW s \in Seq(S), s # <<>>
    PROVE  /\ Front(s) \in Seq(S) /\ Len(Front(s)) = Len(s) - 1
           /\ \A n \in 1 .. Len(s) - 1 : Front(s)[n] = s[n]
<1>1. Len(s) \in Nat /\ Len(s) >= 1
  OBVIOUS
<1>2. \A n \in 1 .. Len(s) - 1 : s[n] \in S
  BY <1>1
<1>3. 1 \in Int /\ Len(s) - 1 \in Int
  BY <1>1
<1>4. /\ SubSeq(s, 1, Len(s) - 1) \in Seq(S)
      /\ Len(SubSeq(s, 1, Len(s) - 1)) = IF 1 <= Len(s) - 1 THEN (Len(s) - 1) - 1 + 1 ELSE 0
      /\ \A n \in 1 .. (Len(s) - 1) - 1 + 1 : SubSeq(s, 1, Len(s) - 1)[n] = s[1 + n - 1]
  BY <1>2, <1>3, SubSeqProperties
<1>5. \A n \in 1 .. Len(s) - 1 : n \in 1 .. (Len(s) - 1) - 1 + 1 /\ 1 + n - 1 = n
  BY <1>1
<1>6. Len(SubSeq(s, 1, Len(s) - 1)) = Len(s) - 1
  <2>1. \A l \in Nat : l >= 1 => (IF 1 <= l - 1 THEN (l - 1) - 1 + 1 ELSE 0) = l - 1
    OBVIOUS
  <2>2. (IF 1 <= Len(s) - 1 THEN (Len(s) - 1) - 1 + 1 ELSE 0) = Len(s) - 1
    BY <1>1, <2>1, Zenon
  <2>3. Len(SubSeq(s, 1, Len(s) - 1))
          = IF 1 <= Len(s) - 1 THEN (Len(s) - 1) - 1 + 1 ELSE 0
    BY <1>4
  <2> QED BY <2>2, <2>3
<1>7. \A n \in 1 .. Len(s) - 1 : SubSeq(s, 1, Len(s) - 1)[n] = s[n]
  BY <1>4, <1>5
<1> QED BY <1>4, <1>6, <1>7, Zenon DEF Front

LEMMA AsSequence ==
    ASSUME NEW S, NEW l \in Nat, NEW s, s = [n \in 1 .. l |-> s[n]],
           \A n \in 1 .. l : s[n] \in S
    PROVE  s \in Seq(S) /\ Len(s) = l
OBVIOUS

\* The abstract stack, entry by entry
Elements ==
    /\ Stacked \in Seq(RegistersOf(Proc \cup Acts))
    /\ Len(kstack) \in Nat /\ DOMAIN kstack = 1 .. Len(kstack)
    /\ Len(Stacked) = Len(kstack)
    /\ \A n \in 1 .. Len(kstack) : Stacked[n] = Activation(n)

LEMMA StackedElements == IInv => Elements
<1> SUFFICES ASSUME IInv PROVE Elements
  OBVIOUS
<1>0. Len(kstack) \in Nat
  BY DEF IInv, Typed
<1>1. DOMAIN kstack = 1 .. Len(kstack)
  BY DEF IInv, Typed
<1>2. ASSUME NEW n \in 1 .. Len(kstack) PROVE Activation(n) \in RegistersOf(Proc \cup Acts)
  <2>1. CASE n = Len(kstack)
    BY <2>1 DEF Activation, IInv, Typed
  <2>2. CASE n # Len(kstack)
    <3>1. n \in 1 .. Len(kstack) /\ n # Len(kstack)
      BY <1>2, <2>2
    <3>3. n + 1 \in 1 .. Len(kstack)
      BY <1>0, <3>1
    <3>2. kstack[n + 1] \in Entry
      BY <1>1, <3>3 DEF IInv, Typed
    <3> QED BY <2>2, <3>2 DEF Activation, Entry, Acts
  <2> QED BY <2>1, <2>2
<1>3. Stacked = [n \in 1 .. Len(kstack) |-> Activation(n)]
  BY <1>1 DEF Stacked
<1>4. Stacked \in Seq(RegistersOf(Proc \cup Acts)) /\ Len(Stacked) = Len(kstack)
  <2>1. \A n \in 1 .. Len(kstack) : Stacked[n] = Activation(n)
    BY <1>3
  <2>2. Stacked = [n \in 1 .. Len(kstack) |-> Stacked[n]]
    BY <1>3
  <2>3. \A n \in 1 .. Len(kstack) : Stacked[n] \in RegistersOf(Proc \cup Acts)
    BY <1>2, <2>1
  <2> HIDE DEF Stacked
  <2> QED BY <1>0, <2>2, <2>3, AsSequence
<1> QED BY <1>0, <1>1, <1>3, <1>4 DEF Elements

LEMMA RefinesInit == Init => Abstract!Init
<1> SUFFICES ASSUME Init PROVE Abstract!Init
  OBVIOUS
<1>1. kstack = <<>> /\ cpu.of \in Proc
  BY InterruptAssumption, RegistersOwn DEF Init
<1>2. Stacked = <<>>
  BY <1>1 DEF Stacked
<1> QED BY <1>1, <1>2 DEF Abstract!Init, RegsOf, Running

LEMMA RefinesBegin ==
    ASSUME IInv, IInv', NEW x \in Acts, Save(x)
    PROVE  Abstract!Begin
<1>1. /\ Len(Stacked') = Len(Stacked) + 1 /\ Stacked' # <<>>
      /\ Len(Stacked) = Len(kstack) /\ Len(kstack) \in Nat
      /\ Stacked \in Seq(RegistersOf(Proc \cup Acts))
      /\ Stacked' \in Seq(RegistersOf(Proc \cup Acts))
  <2>1. Elements /\ Elements'
    BY StackedElements, PTL
  <2>2. Len(kstack') = Len(kstack) + 1
    BY Pushed
  <2> QED BY <2>1, <2>2 DEF Elements
<1>2. \A n \in 1 .. Len(Stacked) : Stacked'[n] = Stacked[n]
  <2> SUFFICES ASSUME NEW n \in 1 .. Len(Stacked) PROVE Stacked'[n] = Stacked[n]
    OBVIOUS
  <2>1. n \in DOMAIN kstack /\ n \in DOMAIN kstack'
    BY <1>1, Pushed
  <2>2. Stacked'[n] = Activation(n)' /\ Stacked[n] = Activation(n)
    BY <2>1 DEF Stacked
  <2> QED BY <2>1, <2>2, PushedActs
<1>3. Front(Stacked') = Stacked
  <2>1. /\ Front(Stacked') \in Seq(RegistersOf(Proc \cup Acts))
        /\ Len(Front(Stacked')) = Len(Stacked)
        /\ \A n \in 1 .. Len(Stacked) : Front(Stacked')[n] = Stacked[n]
    BY <1>1, <1>2, FrontElements
  <2> QED BY <1>1, <2>1, SameElements
<1>4. Last(Stacked') = Registers(x)
  <2>1. Len(Stacked') \in DOMAIN kstack' /\ Len(Stacked') = Len(kstack')
    BY <1>1, Pushed
  <2>2. Stacked'[Len(kstack')] = Activation(Len(kstack))'
    BY <2>1 DEF Stacked
  <2> QED BY <2>1, <2>2, PushedActs DEF Last
<1>5. RegsOf' = RegsOf /\ Running' = Running
  <2>1. cpu'.of \notin Proc
    BY InterruptAssumption, Pushed, RegistersOwn DEF Acts
  <2>2. kstack' # <<>> /\ kstack'[1].esi = Running
    <3>1. CASE kstack = <<>>
      BY <3>1, Pushed DEF Running, IInv, Home, DepthCounted
    <3>2. CASE kstack # <<>>
      BY <1>1, <3>2, Pushed DEF Running
    <3> QED BY <3>1, <3>2
  <2>3. \A p \in Proc : regs'[p] = IF cpu.of = p THEN cpu ELSE regs[p]
    <3>1. CASE kstack = <<>>
      <4>1. regs' = [regs EXCEPT ![esp0] = cpu] /\ cpu.of = esp0
        BY <3>1, Pushed DEF IInv, Home, DepthCounted
      <4> QED BY <4>1 DEF IInv, Typed
    <3>2. CASE kstack # <<>>
      BY <3>2, Pushed DEF IInv, DepthCounted, InUser
    <3> QED BY <3>1, <3>2
  <2>4. RegsOf' = RegsOf
    BY <2>1, <2>3 DEF RegsOf
  <2> QED BY <2>2, <2>4 DEF Running
<1>6. Last(Stacked') \in {Registers(y) : y \in Line \cup {"call"}}
  BY <1>4 DEF Acts
<1> QED BY <1>1, <1>3, <1>5, <1>6
        DEF Abstract!Begin, Abstract!Front, Front, Abstract!Last, Last

\* The steps of an activation change none below.
LEMMA RefinesWork ==
    ASSUME IInv, IInv', ~InUser, kstack' = kstack, cpu'.of = cpu.of
    PROVE  Abstract!InnermostWorks /\ Running' = Running
<1>1. kstack # <<>>
  BY DEF IInv, DepthCounted
<1>2. Elements /\ Elements'
  BY StackedElements, PTL
<1>3. Len(Stacked') = Len(Stacked) /\ Len(Stacked) = Len(kstack) /\ Len(kstack) \in Nat
      /\ Stacked # <<>> /\ Stacked' # <<>>
      /\ Stacked \in Seq(RegistersOf(Proc \cup Acts))
      /\ Stacked' \in Seq(RegistersOf(Proc \cup Acts))
  BY <1>1, <1>2 DEF Elements
<1>4. ASSUME NEW n \in 1 .. Len(Stacked) - 1 PROVE Stacked'[n] = Stacked[n]
  <2>1. n \in 1 .. Len(kstack) /\ n # Len(kstack)
    BY <1>3, <1>4
  <2>2. Activation(n)' = Activation(n)
    BY <2>1 DEF Activation
  <2> QED BY <1>2, <2>1, <2>2 DEF Elements
<1>5. Front(Stacked') = Front(Stacked)
  <2>1. /\ Front(Stacked) \in Seq(RegistersOf(Proc \cup Acts))
        /\ Len(Front(Stacked)) = Len(Stacked) - 1
        /\ \A n \in 1 .. Len(Stacked) - 1 : Front(Stacked)[n] = Stacked[n]
    BY <1>3, FrontElements
  <2>2. /\ Front(Stacked') \in Seq(RegistersOf(Proc \cup Acts))
        /\ Len(Front(Stacked')) = Len(Stacked) - 1
        /\ \A n \in 1 .. Len(Stacked) - 1 : Front(Stacked')[n] = Stacked'[n]
    BY <1>3, FrontElements
  <2> QED BY <1>4, <2>1, <2>2, SameElements
<1>6. Running' = Running
  BY <1>1 DEF Running
<1> QED BY <1>3, <1>5, <1>6 DEF Abstract!InnermostWorks, Abstract!Front, Front

LEMMA RefinesEnd ==
    ASSUME IInv, IInv', ~InUser, Return, UNCHANGED <<p_proc_ready, regs>>
    PROVE  Abstract!End
<1>1. kstack # <<>>
  BY DEF IInv, DepthCounted
<1>2. Elements /\ Elements'
  BY StackedElements, PTL
<1>3. Len(Stacked') = Len(Stacked) - 1 /\ Len(Stacked) = Len(kstack) /\ Len(kstack) \in Nat
      /\ Len(kstack) >= 1 /\ Stacked # <<>> /\ Len(kstack') = Len(kstack) - 1
      /\ Stacked \in Seq(RegistersOf(Proc \cup Acts))
      /\ Stacked' \in Seq(RegistersOf(Proc \cup Acts))
  <2>1. Len(kstack) \in Nat /\ Len(kstack) >= 1 /\ Len(kstack') = Len(kstack) - 1
    BY Popped
  <2>2. /\ Len(Stacked) = Len(kstack) /\ Len(Stacked') = Len(kstack')
        /\ Stacked \in Seq(RegistersOf(Proc \cup Acts))
        /\ Stacked' \in Seq(RegistersOf(Proc \cup Acts))
    BY <1>2 DEF Elements
  <2> QED BY <2>1, <2>2
<1>4. ASSUME NEW n \in 1 .. Len(Stacked) - 1 PROVE Stacked'[n] = Stacked[n]
  <2>1. n \in 1 .. Len(kstack') /\ n \in 1 .. Len(kstack)
    BY <1>3, <1>4
  <2>2. n \in DOMAIN kstack'
    BY <1>2, <2>1 DEF Elements
  <2>3. Activation(n)' = Activation(n)
    BY <2>2, PoppedActs
  <2> QED BY <1>2, <2>1, <2>3 DEF Elements
<1>5. Stacked' = Front(Stacked)
  <2>1. /\ Front(Stacked) \in Seq(RegistersOf(Proc \cup Acts))
        /\ Len(Front(Stacked)) = Len(Stacked) - 1
        /\ \A n \in 1 .. Len(Stacked) - 1 : Front(Stacked)[n] = Stacked[n]
    BY <1>3, FrontElements
  <2> QED BY <1>3, <1>4, <2>1, SameElements
<1>6. RegsOf' = RegsOf
  <2>1. \A p \in Proc : cpu.of # p
    BY DEF InUser
  <2>2. \A p \in Proc : cpu'.of = p => cpu' = regs[p]
    <3>1. CASE Len(kstack) = 1
      <4>1. cpu' = regs[p_proc_ready]
        BY <3>1, Popped
      <4>2. p_proc_ready \in Proc /\ regs[p_proc_ready].of = p_proc_ready
        BY DEF IInv, Typed, Home
      <4> QED BY <4>1, <4>2
    <3>2. CASE Len(kstack) # 1
      <4>1. kstack' # <<>>
        BY <1>3, <3>2
      <4> QED BY <4>1 DEF IInv, DepthCounted, InUser
    <3> QED BY <3>1, <3>2
  <2> QED BY <2>1, <2>2 DEF RegsOf
<1>7. Running' \in IF Len(Stacked) = 1 THEN Proc ELSE {Running}
  <2>1. CASE Len(kstack) = 1
    <3>1. kstack' = <<>>
      BY <1>3, <2>1, Popped
    <3>2. cpu'.of \in Proc
      BY <3>1 DEF IInv, DepthCounted, InUser
    <3> QED BY <1>3, <2>1, <3>1, <3>2 DEF Running
  <2>2. CASE Len(kstack) # 1
    <3>1. kstack' # <<>> /\ 1 \in 1 .. Len(kstack')
      BY <1>3, <2>2
    <3>2. kstack'[1] = kstack[1]
      BY <1>2, <3>1, Popped DEF Elements
    <3> QED BY <1>1, <1>3, <2>2, <3>1, <3>2 DEF Running
  <2> QED BY <2>1, <2>2
<1> QED BY <1>3, <1>5, <1>6, <1>7 DEF Abstract!End, Abstract!Front, Front

LEMMA RefinesKernel ==
    ASSUME IInv, IInv', Handler \/ SyscallBody
    PROVE  Abstract!Work
<1>1. ~InUser /\ cpu.of \in Acts /\ cpu' = [cpu EXCEPT !.eax = 1]
      /\ UNCHANGED <<regs, kstack>>
  BY InterruptAssumption DEF Handler, SyscallBody, InUser, Acts
<1>2. cpu'.of = cpu.of
  <2>1. cpu \in RegistersOf(Proc \cup Acts)
    BY DEF IInv, Typed
  <2> QED BY <1>1, <2>1 DEF RegistersOf
<1>3. RegsOf' = RegsOf
  BY <1>1, <1>2 DEF RegsOf, InUser
<1> QED BY <1>1, <1>2, <1>3, RefinesWork DEF Abstract!Work

\* Only the outermost entry is a kernel call, and its caller is who was running.
LEMMA RefinesAnswer ==
    ASSUME IInv, IInv', SyscallAnswer
    PROVE  Abstract!Answer
<1>1. ~InUser /\ cpu.of = "call" /\ cpu' = [cpu EXCEPT !.eax = 2] /\ UNCHANGED kstack
      /\ regs' = [regs EXCEPT ![Last(kstack).esi].eax = 1]
  BY InterruptAssumption DEF SyscallAnswer, Caller, InUser
<1>2. cpu'.of = cpu.of
  <2>1. cpu \in RegistersOf(Proc \cup Acts)
    BY DEF IInv, Typed
  <2> QED BY <1>1, <2>1 DEF RegistersOf
<1>3. kstack # <<>> /\ Elements
  BY <1>1, StackedElements DEF IInv, DepthCounted
<1>4. Len(kstack) \in DOMAIN kstack /\ Activation(Len(kstack)) = cpu
  <2>1. Len(kstack) \in 1 .. Len(kstack)
    BY <1>3 DEF IInv, Typed
  <2> QED BY <1>3, <2>1 DEF Elements, Activation
<1>5. Len(kstack) = 1 /\ Len(Stacked) = 1
  BY <1>1, <1>3, <1>4 DEF IInv, Nested, Elements
<1>6. Last(kstack).esi = Running
  BY <1>3, <1>5 DEF Last, Running
<1>7. RegsOf' = [RegsOf EXCEPT ![Running] = WithAnswer(@)]
  <2>1. RegsOf = regs /\ RegsOf' = regs'
    <3>1. regs \in [Proc -> RegistersOf(Proc)] /\ regs' \in [Proc -> RegistersOf(Proc)]
      BY DEF IInv, Typed
    <3> QED BY <1>1, <1>2, <3>1 DEF RegsOf, InUser
  <2> QED BY <1>1, <1>6, <2>1 DEF WithAnswer
<1> QED BY <1>1, <1>2, <1>5, <1>7, RefinesWork DEF Abstract!Answer

LEMMA RefinesUser ==
    ASSUME IInv, IInv', Compute \/ MaskIn \/ MaskOut
    PROVE  Abstract!Compute
<1>1. InUser /\ kstack = <<>> /\ UNCHANGED <<regs, kstack>>
  BY DEF Compute, MaskIn, MaskOut, processes, IInv, DepthCounted
<1>2. cpu'.of = cpu.of
  <2>1. cpu \in RegistersOf(Proc \cup Acts)
    BY DEF IInv, Typed
  <2> QED BY <2>1 DEF Compute, MaskIn, MaskOut, RegistersOf
<1>3. Stacked = <<>> /\ Stacked' = Stacked /\ Running = cpu.of /\ Running' = Running
  BY <1>1, <1>2 DEF Stacked, Running
<1>4. RegsOf' = [RegsOf EXCEPT ![Running] = RegsOf'[Running]]
  BY <1>1, <1>2, <1>3 DEF RegsOf, InUser
<1> QED BY <1>3, <1>4 DEF Abstract!Compute

LEMMA RefinesStutter ==
    ASSUME UNCHANGED <<cpu, regs, kstack>>
    PROVE  UNCHANGED Abstract!vars
BY DEF Abstract!vars, RegsOf, Running, Stacked, Activation

LEMMA RefinesStep == IInv /\ IInv' /\ [Next]_vars => [Abstract!Next]_(Abstract!vars)
<1> SUFFICES ASSUME IInv, IInv', [Next]_vars PROVE [Abstract!Next]_(Abstract!vars)
  OBVIOUS
<1>1. CASE (\E i \in Line : Raise(i)) \/ UNCHANGED vars
  BY <1>1, RefinesStutter DEF Raise, processes, vars
<1>2. ASSUME NEW n \in DOMAIN Lines, HwInt(n) PROVE Abstract!Next
  <2>1. Lines[n] \in Acts /\ Save(Lines[n])
    BY <1>2 DEF HwInt, Line, ToSet, Acts
  <2> QED BY <2>1, RefinesBegin DEF Abstract!Next
<1>3. CASE Syscall
  <2>1. "call" \in Acts /\ Save("call")
    BY <1>3 DEF Syscall, Acts
  <2> QED BY <2>1, RefinesBegin DEF Abstract!Next
<1>4. CASE Handler \/ SyscallBody
  BY <1>4, RefinesKernel DEF Abstract!Next
<1>5. CASE SyscallAnswer
  BY <1>5, RefinesAnswer DEF Abstract!Next
<1>6. CASE HwIntReturn \/ SyscallReturn
  <2>1. ~InUser /\ Return /\ UNCHANGED <<p_proc_ready, regs>>
    BY <1>6, InterruptAssumption DEF HwIntReturn, SyscallReturn, InUser
  <2> QED BY <2>1, RefinesEnd DEF Abstract!Next
<1>7. CASE Compute \/ MaskIn \/ MaskOut
  BY <1>7, RefinesUser DEF Abstract!Next
<1> QED BY <1>1, <1>2, <1>3, <1>4, <1>5, <1>6, <1>7 DEF Next

\* For any number of processes and lines, and however entries nest, the entry and exit
\* code gives every process and every activation a processor of its own
\* (kernel.asm:258-295).
THEOREM GivesProcessors == Spec => ImplementsProcessors
<1>1. IInv /\ IInv' /\ [Next]_vars => [Abstract!Next]_(Abstract!vars)
  BY RefinesStep
<1> QED BY <1>1, RefinesInit, Invariant, PTL DEF Spec, ImplementsProcessors, Abstract!Spec
=============================================================================
