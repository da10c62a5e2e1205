------------------------ MODULE IpcRefinementProofs ------------------------
(***************************************************************************)
(* Ipc implements Rendezvous, for any number of processes: every kernel    *)
(* call is a step of the abstract specification, in which there are lines  *)
(* of processes and no links.                                              *)
(***************************************************************************)
EXTENDS IpcRefinement, IpcProofs, SequenceTheorems, FiniteSetTheorems,
        WellFoundedInduction

-----------------------------------------------------------------------------
(* Numbers and sequences *)

LEMMA LeastOf ==
    ASSUME NEW S \in SUBSET Nat, S # {}
    PROVE  \E m \in S : \A k \in S : m <= k
<1> DEFINE R == OpToRel(<, Nat)
<1>1. \A x, y \in Nat : x < y => <<x, y>> \in R
  BY DEF OpToRel
<1>2. IsWellFoundedOn(R, Nat)
  BY NatLessThanWellFounded
<1> HIDE DEF R
<1>3. PICK x \in S : \A y \in S : <<y, x>> \notin R
  BY <1>2, WFMin, Zenon
<1>4. \A y \in S : ~(y < x)
  BY <1>1, <1>3
<1> QED
  BY <1>4

LEMMA AppendIs ==
    ASSUME NEW S, NEW n \in Nat, NEW s \in [1 .. n -> S], NEW e \in S
    PROVE  Append(s, e) = [i \in 1 .. n + 1 |-> IF i <= n THEN s[i] ELSE e]
<1>1. s \in Seq(S) /\ Len(s) = n
  OBVIOUS
<1> DEFINE a == Append(s, e)
           b == [i \in 1 .. n + 1 |-> IF i <= n THEN s[i] ELSE e]
<1>2. a \in Seq(S) /\ Len(a) = n + 1 /\ \A i \in 1 .. n + 1 : a[i] = b[i]
  BY <1>1, AppendProperties
<1>3. b \in Seq(S) /\ Len(b) = n + 1
  OBVIOUS
<1>4. a = b
  <2> HIDE DEF a, b
  <2> QED
    BY <1>2, <1>3, SeqEqual
<1> QED
  BY <1>4

LEMMA RemoveAtIs ==
    ASSUME NEW S, NEW n \in Nat, NEW s \in [1 .. n -> S], NEW k \in 1 .. n
    PROVE  Abstract!RemoveAt(s, k) = [i \in 1 .. n - 1 |-> IF i < k THEN s[i] ELSE s[i + 1]]
<1>1. s \in Seq(S) /\ Len(s) = n
  OBVIOUS
<1> DEFINE u == SubSeq(s, 1, k - 1)
           v == SubSeq(s, k + 1, n)
           a == u \o v
           b == [i \in 1 .. n - 1 |-> IF i < k THEN s[i] ELSE s[i + 1]]
<1>2. u \in Seq(S) /\ Len(u) = k - 1 /\ \A i \in 1 .. k - 1 : u[i] = s[i]
  BY SubSeqProperties
<1>3. v \in Seq(S) /\ Len(v) = n - k /\ \A i \in 1 .. n - k : v[i] = s[k + i]
  BY SubSeqProperties
<1>4. b \in Seq(S) /\ Len(b) = n - 1 /\ \A i \in 1 .. n - 1 : b[i] = IF i < k THEN s[i] ELSE s[i + 1]
  OBVIOUS
<1>5. a \in Seq(S) /\ Len(a) = n - 1
  BY <1>2, <1>3, ConcatProperties
<1>6. \A i \in 1 .. n - 1 : a[i] = b[i]
  BY <1>2, <1>3, <1>4, ConcatProperties
<1>7. Abstract!RemoveAt(s, k) = a
  BY <1>1 DEF Abstract!RemoveAt
<1> HIDE DEF a, b
<1> QED
  BY <1>4, <1>5, <1>6, <1>7, SeqEqual

-----------------------------------------------------------------------------
(* The links are a list *)

\* The n processes s lists are the senders to d, each once, and the links lead
\* along s.
Chained(d, n, s) ==
    /\ \A p \in Proc : Sends(p, d) <=> \E i \in 1 .. n : s[i] = p
    /\ \A i, j \in 1 .. n : s[i] = s[j] => i = j
    /\ q_sending[d] = IF n = 0 THEN NULL ELSE s[1]
    /\ \A i \in 1 .. n : next_sending[s[i]] = IF i = n THEN NULL ELSE s[i + 1]

Lined == \A d \in Proc : \E n \in Nat : \E s \in [1 .. n -> Proc] : Chained(d, n, s)

ListsAre ==
    \A d \in Proc : \A n \in Nat : \A s \in [1 .. n -> Proc] :
        Chained(d, n, s) => ListOf(d) = s

\* There is one sequence that the links lead along.
LEMMA ListsUnique == ListsAre
<1> SUFFICES ASSUME NEW d \in Proc, NEW n \in Nat, NEW s \in [1 .. n -> Proc], Chained(d, n, s)
             PROVE  ListOf(d) = s
  BY DEF ListsAre
<1> DEFINE senders == {p \in Proc : Sends(p, d)}
           Follows(t) == /\ n > 0 => t[1] = q_sending[d]
                         /\ \A i \in 1 .. n - 1 : next_sending[t[i]] = t[i + 1]
<1>1. s \in [1 .. n -> senders]
  BY DEF Chained
<1>2. n = Cardinality(senders)
  <2>1. s \in Bijection(1 .. n, senders)
    BY <1>1 DEF Bijection, Injection, Surjection, IsInjective, Chained
  <2>2. ExistsBijection(1 .. n, senders)
    BY <2>1 DEF ExistsBijection
  <2>3. IsFiniteSet(1 .. n) /\ Cardinality(1 .. n) = n
    BY FS_Interval
  <2> HIDE DEF senders
  <2> QED
    BY <2>2, <2>3, FS_Bijection, Zenon
<1>3. Follows(s)
  BY DEF Chained
<1>4. ASSUME NEW t \in [1 .. n -> senders], Follows(t) PROVE t = s
  <2> DEFINE D == {i \in 1 .. n : s[i] # t[i]}
  <2>1. CASE D = {}
    BY <2>1, <1>1
  <2>2. CASE D # {}
    <3>1. PICK m \in D : \A k \in D : m <= k
      <4>1. D \in SUBSET Nat
        OBVIOUS
      <4> HIDE DEF D
      <4> QED
        BY <4>1, <2>2, LeastOf
    <3>2. m # 1
      BY <1>3, <1>4
    <3>3. m - 1 \in 1 .. n - 1 /\ s[m - 1] = t[m - 1]
      BY <3>1, <3>2
    <3> QED
      BY <3>1, <3>3, <1>3, <1>4
  <2> QED
    BY <2>1, <2>2
<1> HIDE DEF Follows, senders
<1>5. ListOf(d) = CHOOSE t \in [1 .. n -> senders] : Follows(t)
  BY <1>2 DEF ListOf, senders, Follows
<1> QED
  BY <1>1, <1>3, <1>4, <1>5

LEMMA ListsUniqueNext == ListsAre'
  BY ListsUnique, PTL

Lines == [d \in Proc |-> ListOf(d)]

LEMMA InitLined == Init => Lined /\ Lines = [d \in Proc |-> <<>>]
<1> SUFFICES ASSUME Init PROVE Lined /\ Lines = [d \in Proc |-> <<>>]
  OBVIOUS
<1>1. ASSUME NEW d \in Proc PROVE Chained(d, 0, <<>>)
  BY DEF Chained, Init, Sends
<1>2. <<>> \in [1 .. 0 -> Proc]
  OBVIOUS
<1> QED
  BY <1>1, <1>2, ListsUnique DEF Lined, ListsAre, Lines

LEMMA SameLines ==
    ASSUME Lined, UNCHANGED links, \A x, e \in Proc : Sends(x, e)' <=> Sends(x, e)
    PROVE  Lined' /\ UNCHANGED Lines
<1>1. ASSUME NEW d \in Proc
      PROVE  \E n \in Nat : \E s \in [1 .. n -> Proc] : Chained(d, n, s) /\ Chained(d, n, s)'
  BY DEF Lined, Chained, links
<1> QED
  BY <1>1, ListsUnique, ListsUniqueNext DEF Lined, ListsAre, Lines

LEMMA EnqueueLines ==
    ASSUME IInv, Lined, NEW p \in Proc, NEW d \in Proc, NEW m \in Message, p # d,
           p_flags[p] = {}, Enqueue(p, d, m)
    PROVE  Lined' /\ Lines' = [Lines EXCEPT ![d] = Append(@, p)]
<1>1. ASSUME NEW e \in Proc, e # d
      PROVE  \E n \in Nat : \E s \in [1 .. n -> Proc] : Chained(e, n, s) /\ Chained(e, n, s)'
  <2>0. PICK n \in Nat : \E s \in [1 .. n -> Proc] : Chained(e, n, s)
    BY DEF Lined
  <2>1. PICK s \in [1 .. n -> Proc] : Chained(e, n, s)
    BY <2>0
  <2>2. \A i \in 1 .. n : s[i] \in Proc /\ Sends(s[i], e)
    BY <2>1 DEF Chained
  <2>3. \A i \in 1 .. n : s[i] # p /\ (q_sending[d] # NULL => s[i] # QueueEnd(d))
    BY <2>2, <1>1, EnqueueChanges DEF Sends
  <2>4. Chained(e, n, s)'
    BY <2>1, <2>2, <2>3, <1>1, EnqueueChanges DEF Chained
  <2> QED
    BY <2>1, <2>4
<1>0. PICK n \in Nat : \E s \in [1 .. n -> Proc] : Chained(d, n, s)
  BY DEF Lined
<1>2. PICK s \in [1 .. n -> Proc] : Chained(d, n, s)
  BY <1>0
<1> DEFINE u == [i \in 1 .. n + 1 |-> IF i <= n THEN s[i] ELSE p]
<1>3. u \in [1 .. n + 1 -> Proc] /\ Append(s, p) = u
  BY AppendIs
<1>4. q_sending[d] # NULL => n # 0 /\ QueueEnd(d) = s[n]
  <2> SUFFICES ASSUME q_sending[d] # NULL PROVE n # 0 /\ QueueEnd(d) = s[n]
    OBVIOUS
  <2>1. QueueEnd(d) \in Proc /\ Sends(QueueEnd(d), d) /\ next_sending[QueueEnd(d)] = NULL
    BY EnqueueChanges
  <2>2. PICK i \in 1 .. n : s[i] = QueueEnd(d)
    BY <1>2, <2>1 DEF Chained
  <2> QED
    BY <1>2, <2>1, <2>2, IpcAssumption DEF Chained
<1>5. Chained(d, n + 1, u)'
  <2> USE <1>2, <1>3, <1>4, EnqueueChanges DEF Chained
  <2>0. \A i \in 1 .. n : s[i] # p /\ s[i] \in Proc
    BY DEF Sends
  <2>1. \A x \in Proc : Sends(x, d)' <=> \E i \in 1 .. n + 1 : u[i] = x
    <3>1. \A x \in Proc : (\E i \in 1 .. n + 1 : u[i] = x) <=> (\E i \in 1 .. n : s[i] = x) \/ x = p
      OBVIOUS
    <3> QED
      BY <3>1
  <2>2. \A i, j \in 1 .. n + 1 : u[i] = u[j] => i = j
    BY <2>0
  <2>3. q_sending'[d] = u[1]
    BY IpcAssumption
  <2>4. ASSUME NEW i \in 1 .. n + 1
        PROVE  next_sending'[u[i]] = IF i = n + 1 THEN NULL ELSE u[i + 1]
    <3>1. CASE i = n + 1
      BY <3>1, <2>0
    <3>2. CASE i = n
      <4>1. q_sending[d] # NULL /\ u[i] = s[n] /\ u[i + 1] = p
        BY <3>2, <2>0, IpcAssumption
      <4> QED
        BY <4>1, <3>2, <2>0
    <3>3. CASE i < n
      <4>1. i \in 1 .. n /\ i + 1 \in 1 .. n /\ n \in 1 .. n
        BY <3>3
      <4>2. u[i] = s[i] /\ u[i + 1] = s[i + 1] /\ s[i] # s[n]
        BY <4>1, <3>3
      <4>3. next_sending[s[i]] = s[i + 1]
        BY <4>1, <3>3
      <4> QED
        BY <4>1, <4>2, <4>3, <3>3, <2>0
    <3> QED
      BY <3>1, <3>2, <3>3
  <2> QED
    BY <2>1, <2>2, <2>3, <2>4
<1>6. Lined'
  <2>1. \E k \in Nat : \E t \in [1 .. k -> Proc] : Chained(d, k, t)'
    BY <1>3, <1>5
  <2> QED
    BY <1>1, <2>1 DEF Lined
<1>7. ListOf(d) = s /\ ListOf(d)' = Append(s, p)
  BY <1>2, <1>3, <1>5, ListsUnique, ListsUniqueNext DEF ListsAre
<1>8. \A e \in Proc : e # d => ListOf(e)' = ListOf(e)
  BY <1>1, ListsUnique, ListsUniqueNext DEF ListsAre
<1> QED
  BY <1>6, <1>7, <1>8 DEF Lines
LEMMA TakeLines ==
    ASSUME IInv, Lined, NEW p \in Proc, NEW f \in Proc, Sends(f, p), Take(p, f)
    PROVE  /\ Lined'
           /\ \E k \in DOMAIN Lines[p] :
                  /\ Lines[p][k] = f
                  /\ f = q_sending[p] <=> k = 1
                  /\ Lines' = [Lines EXCEPT ![p] = Abstract!RemoveAt(@, k)]
<1>1. ASSUME NEW e \in Proc, e # p
      PROVE  \E n \in Nat : \E s \in [1 .. n -> Proc] : Chained(e, n, s) /\ Chained(e, n, s)'
  <2>0. PICK n \in Nat : \E s \in [1 .. n -> Proc] : Chained(e, n, s)
    BY DEF Lined
  <2>1. PICK s \in [1 .. n -> Proc] : Chained(e, n, s)
    BY <2>0
  <2>2. \A i \in 1 .. n : s[i] \in Proc /\ Sends(s[i], e)
    BY <2>1 DEF Chained
  <2>3. \A i \in 1 .. n : s[i] # f /\ (f # q_sending[p] => s[i] # Prev(p, f))
    BY <2>2, <1>1, TakeChanges DEF Sends
  <2>4. \A x \in Proc : Sends(x, e)' <=> Sends(x, e)
    BY <1>1, TakeChanges DEF Sends
  <2>5. Chained(e, n, s)'
    BY <2>1, <2>2, <2>3, <2>4, <1>1, TakeChanges DEF Chained
  <2> QED
    BY <2>1, <2>5
<1>0. PICK n \in Nat : \E s \in [1 .. n -> Proc] : Chained(p, n, s)
  BY DEF Lined
<1>2. PICK s \in [1 .. n -> Proc] : Chained(p, n, s)
  BY <1>0
<1>3. PICK k \in 1 .. n : s[k] = f
  BY <1>2 DEF Chained
<1> DEFINE u == [i \in 1 .. n - 1 |-> IF i < k THEN s[i] ELSE s[i + 1]]
<1>4. n - 1 \in Nat /\ u \in [1 .. n - 1 -> Proc] /\ Abstract!RemoveAt(s, k) = u
  <2>1. n - 1 \in Nat /\ u \in [1 .. n - 1 -> Proc]
    OBVIOUS
  <2>2. Abstract!RemoveAt(s, k) = u
    BY RemoveAtIs
  <2> QED
    BY <2>1, <2>2
<1>5. f = q_sending[p] <=> k = 1
  BY <1>2, <1>3 DEF Chained
<1>6. f # q_sending[p] => k - 1 \in 1 .. n /\ Prev(p, f) = s[k - 1]
  <2> SUFFICES ASSUME f # q_sending[p] PROVE k - 1 \in 1 .. n /\ Prev(p, f) = s[k - 1]
    OBVIOUS
  <2>1. Prev(p, f) \in Proc /\ Sends(Prev(p, f), p) /\ next_sending[Prev(p, f)] = f
    BY TakeChanges
  <2>2. PICK j \in 1 .. n : s[j] = Prev(p, f)
    BY <1>2, <2>1 DEF Chained
  <2>3. j # n /\ s[j + 1] = f
    BY <1>2, <2>1, <2>2, TakeChanges DEF Chained
  <2>4. j + 1 \in 1 .. n /\ j + 1 = k
    BY <2>3, <1>2, <1>3 DEF Chained
  <2> QED
    BY <2>2, <2>4
<1> DEFINE Other(x) == x \in Proc /\ x # f /\ (f # q_sending[p] => x # Prev(p, f))
<1>12. \A j \in 1 .. n : j # k /\ j # k - 1 => Other(s[j])
  BY <1>2, <1>3, <1>6 DEF Chained
<1>7. Chained(p, n - 1, u)'
  <2>1. ASSUME NEW x \in Proc PROVE Sends(x, p)' <=> \E i \in 1 .. n - 1 : u[i] = x
    <3>1. Sends(x, p)' <=> \E i \in 1 .. n : s[i] = x /\ i # k
      BY <1>2, <1>3, TakeChanges DEF Chained
    <3>2. ASSUME NEW i \in 1 .. n, s[i] = x, i # k PROVE \E j \in 1 .. n - 1 : u[j] = x
      <4>1. CASE i < k
        BY <3>2, <4>1
      <4>2. CASE i > k
        <5>1. i - 1 \in 1 .. n - 1 /\ u[i - 1] = s[i]
          BY <4>2
        <5> QED
          BY <5>1, <3>2
      <4> QED
        BY <3>2, <4>1, <4>2
    <3>3. ASSUME NEW j \in 1 .. n - 1, u[j] = x PROVE \E i \in 1 .. n : s[i] = x /\ i # k
      BY <3>3
    <3> QED
      BY <3>1, <3>2, <3>3
  <2>2. ASSUME NEW i \in 1 .. n - 1, NEW j \in 1 .. n - 1, u[i] = u[j] PROVE i = j
    <3>1. \A a, b \in 1 .. n : s[a] = s[b] => a = b
      BY <1>2 DEF Chained
    <3> QED
      BY <2>2, <3>1
  <2>3. q_sending'[p] = IF n - 1 = 0 THEN NULL ELSE u[1]
    <3>1. CASE k = 1
      BY <3>1, <1>2, <1>3, <1>5, TakeChanges DEF Chained
    <3>2. CASE k # 1
      BY <3>2, <1>2, <1>3, <1>5, TakeChanges DEF Chained
    <3> QED
      BY <3>1, <3>2
  <2>4. ASSUME NEW i \in 1 .. n - 1
        PROVE  next_sending'[u[i]] = IF i = n - 1 THEN NULL ELSE u[i + 1]
    <3>1. CASE i < k - 1
      <4>1. i \in 1 .. n /\ i + 1 \in 1 .. n /\ i # n /\ i # k /\ i # k - 1 /\ i # n - 1
        BY <3>1
      <4>2. u[i] = s[i] /\ u[i + 1] = s[i + 1]
        BY <3>1, <4>1
      <4>3. Other(s[i])
        BY <4>1, <1>12
      <4>4. next_sending[s[i]] = s[i + 1]
        BY <4>1, <1>2 DEF Chained
      <4> QED
        BY <4>1, <4>2, <4>3, <4>4, TakeChanges
    <3>2. CASE i = k - 1
      <4>1. u[i] = s[i] /\ s[i] = Prev(p, f) /\ f # q_sending[p] /\ s[i] \in Proc /\ s[i] # f
        BY <3>2, <1>2, <1>3, <1>5, <1>6 DEF Chained
      <4>2. next_sending'[u[i]] = next_sending[f]
        BY <4>1, TakeChanges
      <4>3. next_sending[f] = IF k = n THEN NULL ELSE s[k + 1]
        BY <1>2, <1>3 DEF Chained
      <4> QED
        BY <3>2, <4>2, <4>3
    <3>3. CASE i >= k
      <4>1. i + 1 \in 1 .. n /\ u[i] = s[i + 1] /\ i + 1 # k /\ i + 1 # k - 1
        BY <3>3
      <4>2. Other(s[i + 1])
        BY <4>1, <1>12
      <4>3. next_sending[s[i + 1]] = IF i + 1 = n THEN NULL ELSE s[i + 1 + 1]
        BY <4>1, <1>2 DEF Chained
      <4>4. i # n - 1 => u[i + 1] = s[i + 1 + 1]
        BY <3>3
      <4>5. next_sending'[s[i + 1]] = next_sending[s[i + 1]]
        BY <4>2, TakeChanges
      <4>6. i = n - 1 <=> i + 1 = n
        OBVIOUS
      <4> HIDE DEF u
      <4> QED
        BY <4>1, <4>3, <4>4, <4>5, <4>6, Zenon
    <3> QED
      BY <3>1, <3>2, <3>3
  <2> QED
    BY <2>1, <2>2, <2>3, <2>4 DEF Chained
<1>8. Lined'
  <2>1. \E j \in Nat : \E t \in [1 .. j -> Proc] : Chained(p, j, t)'
    BY <1>4, <1>7
  <2> QED
    BY <1>1, <2>1 DEF Lined
<1>9. ListOf(p) = s /\ ListOf(p)' = Abstract!RemoveAt(s, k)
  BY <1>2, <1>4, <1>7, ListsUnique, ListsUniqueNext DEF ListsAre
<1>10. \A e \in Proc : e # p => ListOf(e)' = ListOf(e)
  BY <1>1, ListsUnique, ListsUniqueNext DEF ListsAre
<1>11. Lines' = [Lines EXCEPT ![p] = Abstract!RemoveAt(@, k)]
  BY <1>9, <1>10 DEF Lines
<1> QED
  BY <1>3, <1>5, <1>8, <1>9, <1>11 DEF Lines
-----------------------------------------------------------------------------
(* What the abstract specification asks, in the kernel's terms *)

LEMMA InLineIs ==
    ASSUME Lined, NEW q \in Proc, NEW e \in Proc
    PROVE  Abstract!Contains(Lines[e], q) <=> Sends(q, e)
<1>0. PICK n \in Nat : \E s \in [1 .. n -> Proc] : Chained(e, n, s)
  BY DEF Lined
<1>1. PICK s \in [1 .. n -> Proc] : Chained(e, n, s)
  BY <1>0
<1>2. Lines[e] = s /\ Len(s) = n
  BY <1>1, ListsUnique DEF ListsAre, Lines
<1>3. Abstract!Contains(s, q) <=> \E i \in 1 .. n : s[i] = q
  BY <1>2 DEF Abstract!Contains
<1> QED
  BY <1>1, <1>2, <1>3 DEF Chained

LEMMA HeldUpIs ==
    ASSUME IInv, Lined, NEW p \in Proc, NEW d \in Proc, p # d
    PROVE  Abstract!HeldUpBy(d, p) <=> Deadlock(p, d)
<1>1. \A S \in SUBSET Proc :
          SendClosed(d, S) <=>
              d \in S /\ \A q \in S, e \in Proc : Abstract!Contains(Lines[e], q) => e \in S
  <2>1. \A q \in Proc : SENDING \in p_flags[q] => p_sendto[q] \in Proc
    BY DEF IInv, FieldsAgree, Idle, SENDING, RECEIVING
  <2> QED
    BY <2>1, InLineIs DEF SendClosed, Sends
<1>2. Abstract!HeldUpBy(d, p) <=> p \in WaitChain(d)
  BY <1>1 DEF Abstract!HeldUpBy, WaitChain, Lines
<1>3. Deadlock(p, d) => p \in WaitChain(d)
  BY DEF Deadlock, WaitChain, SendClosed, Sends
<1>4. ~Deadlock(p, d) => p \notin WaitChain(d)
  BY NoDeadlock
<1> QED
  BY <1>2, <1>3, <1>4

LEMMA RunsIs ==
    ASSUME IInv, Lined, NEW p \in Proc, CanRun(p)
    PROVE  Abstract!Runs(p)
<1>1. Idle(p)
  BY ClearIsIdle DEF CanRun
<1>2. \A d \in Proc : ~Abstract!Contains(Lines[d], p)
  BY <1>1, InLineIs DEF Idle, Sends
<1> QED
  BY <1>1, <1>2 DEF Abstract!Runs, Abstract!InLine, Idle, CanRun, Lines

LEMMA WaitsIs ==
    ASSUME IInv, NEW p \in Proc, NEW srcs, NO_PROC \notin srcs
    PROVE  WaitsFor(p, srcs) <=> p_recvfrom[p] \in srcs
BY DEF IInv, FieldsAgree, Idle, WaitsFor, SENDING, RECEIVING
\* When msg_receive finds nobody to take a message from, no place in line is
\* to be served.
LEMMA NobodyServable ==
    ASSUME IInv, Lined, NEW p \in Proc, NEW src \in Source, From(p, src) = NULL
    PROVE  Abstract!Servable(p, src) = {}
<1>0. PICK n \in Nat : \E s \in [1 .. n -> Proc] : Chained(p, n, s)
  BY DEF Lined
<1>1. PICK s \in [1 .. n -> Proc] : Chained(p, n, s)
  BY <1>0
<1>2. ListOf(p) = s /\ DOMAIN s = 1 .. n
  BY <1>1, ListsUnique DEF ListsAre
<1>3. ASSUME NEW i \in 1 .. n, IF src = ANY THEN i = 1 ELSE s[i] = src PROVE FALSE
  <2>1. s[i] \in Proc /\ Sends(s[i], p)
    BY <1>1 DEF Chained
  <2>2. q_sending[p] = s[1] /\ s[1] \in Proc
    BY <1>1 DEF Chained
  <2> QED
    BY <2>1, <2>2, <1>3, IpcAssumption DEF From
<1> QED
  BY <1>2, <1>3 DEF Abstract!Servable

-----------------------------------------------------------------------------
(* Each effect of the kernel call is one of the abstract specification *)

LEMMA StopIs ==
    ASSUME Lined, NEW how, how # "running", Stop(how)
    PROVE  Lined' /\ Abstract!Halt
<1>1. Lined' /\ UNCHANGED Lines
  BY SameLines DEF Stop, pcb, Sends
<1> QED
  BY <1>1 DEF Stop, pcb, Abstract!Halt, Lines

LEMMA OfferIs ==
    ASSUME IInv, IInv', Lined, NEW p \in Proc, NEW d \in Proc, NEW m \in Message, p # d,
           CanRun(p), MsgSend(p, d, m)
    PROVE  Lined' /\ Abstract!Offer(p, d, m)
<1>0. kernel' # "assert"
  BY DEF IInv, NoAssertFails
<1>1. Abstract!HeldUpBy(d, p) <=> Deadlock(p, d)
  BY HeldUpIs
<1>2. WaitsFor(d, {p, ANY}) <=> p_recvfrom[d] \in {p, ANY}
  BY WaitsIs, IpcAssumption
<1>3. CASE Deadlock(p, d)
  <2>1. Stop("panic")
    BY <1>0, <1>3 DEF MsgSend, Stop
  <2> QED
    BY <1>1, <1>3, <2>1, StopIs DEF Abstract!Offer
<1>4. CASE ~Deadlock(p, d) /\ WaitsFor(d, {p, ANY})
  <2>1. Deliver(p, d, m)
    BY <1>0, <1>4 DEF MsgSend, Stop
  <2>2. \A x, e \in Proc : Sends(x, e)' <=> Sends(x, e)
    BY <2>1 DEF Deliver, Sends, IInv, TypeOK, SENDING, RECEIVING
  <2>3. Lined' /\ UNCHANGED Lines
    BY <2>1, <2>2, SameLines DEF Deliver
  <2> QED
    BY <2>1, <2>3, <1>1, <1>2, <1>4 DEF Abstract!Offer, Deliver, Lines
<1>5. CASE ~Deadlock(p, d) /\ ~WaitsFor(d, {p, ANY})
  <2>1. Enqueue(p, d, m)
    BY <1>0, <1>5 DEF MsgSend, Stop
  <2>2. Lined' /\ Lines' = [Lines EXCEPT ![d] = Append(@, p)]
    BY <2>1, EnqueueLines DEF CanRun
  <2> QED
    BY <2>1, <2>2, <1>1, <1>2, <1>5 DEF Abstract!Offer, Enqueue, Lines
<1> QED
  BY <1>3, <1>4, <1>5

LEMMA AcceptIs ==
    ASSUME IInv, IInv', Lined, NEW p \in Proc, NEW src \in Source, NEW m \in Message,
           p # src, CanRun(p), MsgReceive(p, src, m)
    PROVE  Lined' /\ Abstract!Accept(p, src, m)
<1>0. kernel' # "assert"
  BY DEF IInv, NoAssertFails
<1>1. CASE TakesInt(p, src)
  <2>1. TakeInt(p)
    BY <1>0, <1>1 DEF MsgReceive, Stop
  <2>2. Lined' /\ UNCHANGED Lines
    BY <2>1, SameLines DEF TakeInt, Sends
  <2> QED
    BY <2>1, <2>2, <1>1 DEF Abstract!Accept, TakesInt, TakeInt, HardInt, Lines
<1>2. CASE ~TakesInt(p, src) /\ From(p, src) # NULL
  <2> DEFINE f == From(p, src)
  <2>1. f \in Proc /\ Sends(f, p)
    BY <1>2 DEF From, IInv, TypeOK, LinksInv, HeadSends
  <2>2. Take(p, f)
    BY <1>0, <1>2 DEF MsgReceive, Stop
  <2>3. /\ Lined'
        /\ \E k \in DOMAIN Lines[p] :
                /\ Lines[p][k] = f
                /\ f = q_sending[p] <=> k = 1
                /\ Lines' = [Lines EXCEPT ![p] = Abstract!RemoveAt(@, k)]
    BY <2>1, <2>2, TakeLines
  <2>4. PICK k \in DOMAIN Lines[p] :
                /\ Lines[p][k] = f
                /\ f = q_sending[p] <=> k = 1
                /\ Lines' = [Lines EXCEPT ![p] = Abstract!RemoveAt(@, k)]
    BY <2>3
  <2>5. k \in Abstract!Servable(p, src)
    BY <2>4, <1>2 DEF Abstract!Servable, From, Lines
  <2> HIDE DEF f
  <2>6. /\ buf' = [buf EXCEPT ![p] = buf[f]]
        /\ UNCHANGED <<p_recvfrom, has_int_msg, kernel>>
    BY <2>2 DEF Take
  <2> QED
    BY <2>3, <2>4, <2>5, <2>6, <1>2 DEF Abstract!Accept, TakesInt, Lines
<1>3. CASE ~TakesInt(p, src) /\ From(p, src) = NULL
  <2>1. Abstract!Servable(p, src) = {}
    BY <1>3, NobodyServable
  <2>2. CASE has_int_msg[p]
    <3>1. Stop("assert has_int_msg")
      BY <2>2, <1>0, <1>3 DEF MsgReceive, Stop
    <3> QED
      BY <3>1, <2>1, <2>2, <1>3, StopIs DEF Abstract!Accept, TakesInt
  <2>3. CASE ~has_int_msg[p]
    <3>1. Wait(p, src, m)
      BY <2>3, <1>0, <1>3 DEF MsgReceive, Stop
    <3>2. \A x, e \in Proc : Sends(x, e)' <=> Sends(x, e)
      BY <3>1 DEF Wait, Sends, IInv, TypeOK, SENDING, RECEIVING
    <3>3. Lined' /\ UNCHANGED Lines
      BY <3>1, <3>2, SameLines DEF Wait
    <3> QED
      BY <3>1, <3>3, <2>1, <2>3 DEF Abstract!Accept, Wait, Lines
  <2> QED
    BY <2>2, <2>3
<1> QED
  BY <1>1, <1>2, <1>3

LEMMA InterruptIs ==
    ASSUME IInv, Lined, NEW p \in Proc, InformInt(p)
    PROVE  Lined' /\ Abstract!Interrupt(p)
<1>1. WaitsFor(p, {INTERRUPT, ANY}) <=> p_recvfrom[p] \in {ANY, INTERRUPT}
  BY WaitsIs, IpcAssumption
<1>2. CASE WaitsFor(p, {INTERRUPT, ANY})
  <2>1. p_flags[p] = {RECEIVING} /\ p_sendto[p] = NO_PROC
    BY <1>2, IpcAssumption DEF IInv, FieldsAgree, Idle, WaitsFor, SENDING, RECEIVING
  <2>2. /\ buf' = [buf EXCEPT ![p] = HardInt]
        /\ has_int_msg' = [has_int_msg EXCEPT ![p] = FALSE]
        /\ p_flags' = [p_flags EXCEPT ![p] = @ \ {RECEIVING}]
        /\ p_recvfrom' = [p_recvfrom EXCEPT ![p] = NO_PROC]
        /\ UNCHANGED <<p_sendto, links, kernel, both>>
    BY <2>1, <1>2 DEF InformInt
  <2>3. Lined' /\ UNCHANGED Lines
    <3>1. \A x, e \in Proc : Sends(x, e)' <=> Sends(x, e)
      BY <2>1, <2>2 DEF Sends, IInv, TypeOK, SENDING, RECEIVING
    <3> QED
      BY <2>2, <3>1, SameLines
  <2>4. UNCHANGED has_int_msg
    <3>1. has_int_msg[p] = FALSE /\ has_int_msg \in [Proc -> BOOLEAN]
      BY <1>2 DEF IInv, NoMissedRendezvous, TypeOK
    <3> QED
      BY <2>2, <3>1, Zenon
  <2> QED
    BY <2>2, <2>3, <2>4, <1>1, <1>2 DEF Abstract!Interrupt, InformInt, HardInt, Lines
<1>3. CASE ~WaitsFor(p, {INTERRUPT, ANY})
  <2>1. Lined' /\ UNCHANGED Lines
    BY <1>3, SameLines DEF InformInt, Sends
  <2> QED
    BY <2>1, <1>1, <1>3 DEF Abstract!Interrupt, InformInt, Lines
<1> QED
  BY <1>2, <1>3

-----------------------------------------------------------------------------
(* The refinement *)

LEMMA InitIs == Init => Lined /\ Abstract!Init
<1> SUFFICES ASSUME Init PROVE Lined /\ Abstract!Init
  OBVIOUS
<1>1. Lined /\ Lines = [d \in Proc |-> <<>>]
  BY InitLined
<1> QED
  BY <1>1 DEF Init, Abstract!Init, Lines

LEMMA NextIs ==
    IInv /\ IInv' /\ Lined /\ [Next]_vars => Lined' /\ [Abstract!Next]_(Abstract!vars)
<1> SUFFICES ASSUME IInv, IInv', Lined, [Next]_vars
             PROVE  Lined' /\ [Abstract!Next]_(Abstract!vars)
  OBVIOUS
<1>1. ASSUME NEW p \in Proc, NEW b \in Body \cup {ZERO, HARD_INT}
      PROVE  Outgoing(p, b) \in Message
  BY DEF Outgoing, Message
<1>2. ASSUME NEW p \in Proc, NEW d \in Proc, NEW b \in Body, Send(p, d, b) \/ SendBoth(p, d, b)
      PROVE  Lined' /\ Abstract!Send(p, d, b)
  <2>1. CanRun(p) /\ both[p] = NO_PROC /\ p # d /\ MsgSend(p, d, Outgoing(p, b))
    BY <1>2 DEF Send, SendBoth
  <2>2. Lined' /\ Abstract!Offer(p, d, Outgoing(p, b))
    BY <1>1, <2>1, OfferIs
  <2>3. Abstract!Runs(p)
    BY <2>1, RunsIs
  <2> QED
    BY <1>2, <2>1, <2>2, <2>3 DEF Abstract!Send, Outgoing, Send, SendBoth
<1>3. ASSUME NEW p \in Proc, NEW src \in Source, Receive(p, src)
      PROVE  Lined' /\ Abstract!Receive(p, src)
  <2>1. Lined' /\ Abstract!Accept(p, src, Outgoing(p, ZERO))
    BY <1>1, <1>3, AcceptIs DEF Receive
  <2>2. Abstract!Runs(p)
    BY <1>3, RunsIs DEF Receive
  <2> QED
    BY <1>3, <2>1, <2>2 DEF Abstract!Receive, Outgoing, Receive
<1>4. ASSUME NEW p \in Proc, ReceiveBoth(p)
      PROVE  Lined' /\ Abstract!ReceiveBoth(p)
  <2>1. both[p] \in Source /\ both[p] # p
    BY <1>4 DEF ReceiveBoth, IInv, TypeOK, BothInv, Source
  <2>2. buf[p] \in Message /\ Outgoing(p, buf[p].type) \in Message
    BY DEF Outgoing, Message, IInv, TypeOK
  <2>3. Outgoing(p, buf[p].type) = [buf[p] EXCEPT !.source = p]
    BY <2>2 DEF Outgoing, Message
  <2>4. Lined' /\ Abstract!Accept(p, both[p], Outgoing(p, buf[p].type))
    BY <1>4, <2>1, <2>2, AcceptIs DEF ReceiveBoth
  <2>5. Abstract!Runs(p)
    BY <1>4, RunsIs DEF ReceiveBoth
  <2> QED
    BY <1>4, <2>3, <2>4, <2>5 DEF Abstract!ReceiveBoth, ReceiveBoth
<1>5. ASSUME NEW p \in IrqProc, InformInt(p)
      PROVE  Lined' /\ Abstract!Interrupt(p)
  BY <1>5, InterruptIs, IpcAssumption
<1>6. CASE UNCHANGED vars
  <2>1. Lined' /\ UNCHANGED Lines
    BY <1>6, SameLines DEF vars, pcb, Sends
  <2> QED
    BY <1>6, <2>1 DEF vars, pcb, Abstract!vars, Lines
<1> QED
  BY <1>2, <1>3, <1>4, <1>5, <1>6 DEF Next, Abstract!Next, Source

\* Every behaviour of the kernel's message passing is one of Rendezvous: each
\* call of msg_send, msg_receive and inform_int (proc.c:224-407, 447-488) does
\* what the abstract specification asks, the links being the line.
THEOREM RendezvousImplemented == Spec => ImplementsRendezvous
<1>1. Init => Lined /\ Abstract!Init
  BY InitIs
<1>2. IInv /\ IInv' /\ Lined /\ [Next]_vars => Lined' /\ [Abstract!Next]_(Abstract!vars)
  BY NextIs
<1> QED
  BY <1>1, <1>2, Invariant, PTL DEF Spec, ImplementsRendezvous, Abstract!Spec
=============================================================================
