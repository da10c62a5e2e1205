------------------------------ MODULE IpcProofs ------------------------------
(***************************************************************************)
(* Proofs about Ipc, for any number of processes: the type invariant, and  *)
(* that no assertion fails, the queues are sound, no rendezvous is missed  *)
(* and no circle of senders closes.  They follow from one inductive        *)
(* invariant, IInv.                                                        *)
(***************************************************************************)
EXTENDS Ipc, TLAPS

IsSending(p) == SENDING \in p_flags[p]

\* The fields of a process agree: it is idle, blocked sending or blocked
\* receiving.
FieldsAgree ==
    \A p \in Proc :
        \/ Idle(p)
        \/ /\ p_flags[p] = {SENDING} /\ p_msg[p] # NULL
           /\ p_recvfrom[p] = NO_PROC /\ p_sendto[p] \in Proc \ {p}
        \/ /\ p_flags[p] = {RECEIVING} /\ p_msg[p] # NULL
           /\ p_recvfrom[p] \in Source \ {p} /\ p_sendto[p] = NO_PROC

\* The links stay among the senders to one process ...
HeadSends == \A d \in Proc : q_sending[d] # NULL => Sends(q_sending[d], d)
NextSends ==
    \A x \in Proc : next_sending[x] # NULL =>
        /\ IsSending(x)
        /\ IsSending(next_sending[x])
        /\ p_sendto[next_sending[x]] = p_sendto[x]
\* ... no two lead to the same process ...
LinksApart ==
    /\ \A x, y \in Proc : next_sending[x] = next_sending[y] /\ next_sending[x] # NULL => x = y
    /\ \A x, d \in Proc : next_sending[x] = q_sending[d] => next_sending[x] = NULL
\* ... every sender is led to ...
SendersLinked ==
    \A x \in Proc : IsSending(x) =>
        q_sending[p_sendto[x]] = x \/ \E y \in Proc : next_sending[y] = x
\* ... and no set of processes is a circle of links, followed either way.
LinksEnd == \A S \in SUBSET Proc : S # {} => \E x \in S : next_sending[x] \notin S
LinksBegin ==
    \A S \in SUBSET Proc : S # {} => \E x \in S : \A y \in S : next_sending[y] # x

LinksInv ==
    HeadSends /\ NextSends /\ LinksApart /\ SendersLinked /\ LinksEnd /\ LinksBegin

BothInv == \A p \in Proc : both[p] # p

IInv ==
    /\ TypeOK
    /\ FieldsAgree
    /\ LinksInv
    /\ BothInv
    /\ NoSendCycle
    /\ NoMissedRendezvous
    /\ NoAssertFails

-----------------------------------------------------------------------------
(* What the walks along the links find *)

\* The queue of d, the walk from q_sending[d], meets exactly its senders.
LEMMA QueueSenders ==
    ASSUME IInv PROVE QueueIsSenders
<1> SUFFICES ASSUME NEW d \in Proc
             PROVE  OnQueue(d) = {p \in Proc : Sends(p, d)}
  BY DEF QueueIsSenders
<1> DEFINE Q == {p \in Proc : Sends(p, d)}
<1>1. LinkClosed(d, Q)
  BY DEF IInv, TypeOK, LinksInv, HeadSends, NextSends, LinkClosed, Sends, IsSending
<1>2. OnQueue(d) \subseteq Q
  BY <1>1 DEF OnQueue
<1>3. ASSUME NEW S \in SUBSET Proc, LinkClosed(d, S)
      PROVE  Q \subseteq S
  <2> DEFINE R == Q \ S
  <2> SUFFICES ASSUME R # {} PROVE FALSE
    OBVIOUS
  <2>1. PICK x \in R : \A y \in R : next_sending[y] # x
    BY DEF IInv, LinksInv, LinksBegin
  <2>2. x \in Proc /\ IsSending(x) /\ p_sendto[x] = d /\ x # NULL
    BY <2>1, IpcAssumption DEF Sends, IsSending
  <2>3. CASE q_sending[d] = x
    BY <2>1, <2>2, <2>3, <1>3 DEF LinkClosed
  <2>4. CASE \E y \in Proc : next_sending[y] = x
    <3>1. PICK y \in Proc : next_sending[y] = x
      BY <2>4
    <3>2. y \in Q
      BY <3>1, <2>2 DEF IInv, LinksInv, NextSends, Sends, IsSending
    <3> QED
      BY <3>1, <3>2, <2>1, <2>2, <1>3 DEF LinkClosed
  <2> QED
    BY <2>2, <2>3, <2>4 DEF IInv, LinksInv, SendersLinked
<1> QED
  BY <1>2, <1>3 DEF OnQueue

\* msg_send's walk ends at a process that has none behind it.
LEMMA TailIsLast ==
    ASSUME IInv, NEW d \in Proc, q_sending[d] # NULL
    PROVE  QueueEnd(d) \in Proc /\ Sends(QueueEnd(d), d) /\ next_sending[QueueEnd(d)] = NULL
<1>1. OnQueue(d) = {p \in Proc : Sends(p, d)}
  BY QueueSenders DEF QueueIsSenders
<1>2. q_sending[d] \in OnQueue(d)
  BY <1>1 DEF IInv, TypeOK, LinksInv, HeadSends
<1>3. PICK x \in OnQueue(d) : next_sending[x] \notin OnQueue(d)
  BY <1>1, <1>2 DEF IInv, LinksInv, LinksEnd
<1>4. next_sending[x] = NULL
  BY <1>1, <1>3 DEF IInv, TypeOK, LinksInv, NextSends, Sends, IsSending
<1> QED
  BY <1>1, <1>3, <1>4 DEF QueueEnd

\* msg_receive's search for a queued sender that is not the first stops behind
\* the process that leads to it.
LEMMA PrevLeads ==
    ASSUME IInv, NEW d \in Proc, NEW f \in Proc, Sends(f, d), f # q_sending[d]
    PROVE  Prev(d, f) \in Proc /\ Sends(Prev(d, f), d) /\ next_sending[Prev(d, f)] = f
<1>1. OnQueue(d) = {p \in Proc : Sends(p, d)}
  BY QueueSenders DEF QueueIsSenders
<1>2. PICK y \in Proc : next_sending[y] = f
  BY DEF IInv, LinksInv, SendersLinked, Sends, IsSending
<1>3. y \in OnQueue(d)
  BY <1>1, <1>2, IpcAssumption DEF IInv, LinksInv, NextSends, Sends, IsSending
<1>4. f \in OnQueue(d)
  BY <1>1
<1> QED
  BY <1>1, <1>2, <1>3, <1>4 DEF Prev

\* When deadlock() returns 0, its walk has not met the sender, and has followed
\* every blocked sender it met.
LEMMA NoDeadlock ==
    ASSUME IInv, NEW p \in Proc, NEW d \in Proc, p # d, ~Deadlock(p, d)
    PROVE  /\ p \notin WaitChain(d)
           /\ d \in WaitChain(d)
           /\ \A x \in WaitChain(d) : IsSending(x) => p_sendto[x] \in WaitChain(d)
<1>1. d \in WaitChain(d)
  BY DEF WaitChain, SendClosed
<1>2. \A x \in WaitChain(d) : IsSending(x) => p_sendto[x] \in WaitChain(d)
  BY DEF WaitChain, SendClosed, IsSending, IInv, FieldsAgree, Idle, SENDING, RECEIVING
<1>3. ASSUME p \in WaitChain(d) PROVE FALSE
  <2> DEFINE S == WaitChain(d) \ {p}
  <2>1. S \in SUBSET Proc
    BY DEF WaitChain
  <2>2. SendClosed(d, S)
    BY <1>1, <1>2 DEF SendClosed, Deadlock, Sends, IsSending
  <2> QED
    BY <1>3, <2>1, <2>2 DEF WaitChain
<1> QED
  BY <1>1, <1>2, <1>3

-----------------------------------------------------------------------------
(* Each effect of the kernel call keeps the invariant *)

\* The links and the circle condition depend only on who sends to whom.
LEMMA SameSenders ==
    ASSUME IInv, UNCHANGED <<links, p_sendto>>,
           \A x \in Proc : IsSending(x)' <=> IsSending(x)
    PROVE  LinksInv' /\ NoSendCycle'
<1> USE DEF links, IInv, LinksInv, IsSending, Sends
<1>1. HeadSends'
  BY DEF HeadSends, TypeOK
<1>2. NextSends'
  BY DEF NextSends, TypeOK
<1>3. LinksApart'
  BY DEF LinksApart
<1>4. SendersLinked'
  BY DEF SendersLinked
<1>5. LinksEnd' /\ LinksBegin'
  BY DEF LinksEnd, LinksBegin
<1>6. NoSendCycle'
  BY DEF NoSendCycle
<1> QED
  BY <1>1, <1>2, <1>3, <1>4, <1>5, <1>6

\* A process whose flags are clear is idle.
LEMMA ClearIsIdle ==
    ASSUME IInv, NEW p \in Proc, p_flags[p] = {} PROVE Idle(p)
BY DEF IInv, FieldsAgree

LEMMA StutterKeeps == ASSUME IInv, UNCHANGED vars PROVE IInv'
<1> USE DEF vars, pcb
<1>1. LinksInv' /\ NoSendCycle'
  BY SameSenders DEF IsSending
<1>2. TypeOK'
  BY DEF IInv, TypeOK, links
<1>3. FieldsAgree' /\ NoMissedRendezvous' /\ NoAssertFails' /\ BothInv'
  BY DEF IInv, FieldsAgree, Idle, NoMissedRendezvous, Sends, WaitsFor,
         NoAssertFails, BothInv
<1> QED
  BY <1>1, <1>2, <1>3 DEF IInv

LEMMA StopKeeps ==
    ASSUME IInv, NEW how \in {"panic", "assert has_int_msg"}, Stop(how),
           both' \in [Proc -> Proc \cup {NO_PROC}], BothInv'
    PROVE  IInv'
<1>1. LinksInv' /\ NoSendCycle'
  BY SameSenders DEF Stop, pcb, IsSending
<1>2. TypeOK'
  BY DEF IInv, TypeOK, Stop, pcb, links
<1>3. FieldsAgree' /\ NoMissedRendezvous' /\ NoAssertFails'
  BY DEF IInv, Stop, pcb, FieldsAgree, Idle, NoMissedRendezvous, Sends, WaitsFor,
         NoAssertFails
<1> QED
  BY <1>1, <1>2, <1>3 DEF IInv

LEMMA DeliverKeeps ==
    ASSUME IInv, NEW p \in Proc, NEW d \in Proc, NEW m \in Message, p # d,
           p_flags[p] = {}, WaitsFor(d, {p, ANY}), Deliver(p, d, m),
           both' \in [Proc -> Proc \cup {NO_PROC}], BothInv'
    PROVE  IInv'
<1>1. p_flags[d] = {RECEIVING} /\ p_sendto[d] = NO_PROC
  BY IpcAssumption DEF IInv, FieldsAgree, Idle, WaitsFor, SENDING, RECEIVING
<1>2. TypeOK'
  BY <1>1, IpcAssumption DEF IInv, TypeOK, Deliver, ClearMsg, links, Source
<1>3. \A x \in Proc : IsSending(x)' <=> IsSending(x)
  BY DEF IInv, TypeOK, Deliver, IsSending, SENDING, RECEIVING
<1>4. LinksInv' /\ NoSendCycle'
  BY <1>3, SameSenders DEF Deliver
<1>5. FieldsAgree'
  <2>1. Idle(d)'
    BY <1>1 DEF IInv, TypeOK, Idle, Deliver, ClearMsg
  <2>2. \A x \in Proc \ {d} : /\ p_flags'[x] = p_flags[x] /\ p_msg'[x] = p_msg[x]
                              /\ p_sendto'[x] = p_sendto[x] /\ p_recvfrom'[x] = p_recvfrom[x]
    BY DEF IInv, TypeOK, Deliver, ClearMsg
  <2> QED
    BY <2>1, <2>2 DEF IInv, FieldsAgree, Idle
<1>6. NoMissedRendezvous'
  BY <1>1, <1>3, IpcAssumption
  DEF IInv, TypeOK, NoMissedRendezvous, Sends, WaitsFor, Deliver, IsSending
<1>7. NoAssertFails'
  BY DEF IInv, NoAssertFails, Deliver
<1> QED
  BY <1>2, <1>4, <1>5, <1>6, <1>7 DEF IInv

LEMMA TakeIntKeeps ==
    ASSUME IInv, NEW p \in Proc, p_flags[p] = {}, TakeInt(p),
           both' \in [Proc -> Proc \cup {NO_PROC}], BothInv'
    PROVE  IInv'
<1>1. TypeOK'
  BY DEF IInv, TypeOK, TakeInt, links, HardInt, Message
<1>2. LinksInv' /\ NoSendCycle'
  BY SameSenders DEF TakeInt, IsSending
<1>3. FieldsAgree' /\ NoMissedRendezvous' /\ NoAssertFails'
  BY DEF IInv, TypeOK, TakeInt, FieldsAgree, Idle, NoMissedRendezvous, Sends,
         WaitsFor, NoAssertFails
<1> QED
  BY <1>1, <1>2, <1>3 DEF IInv

LEMMA WaitKeeps ==
    ASSUME IInv, NEW p \in Proc, NEW src \in Source, NEW m \in Message, src # p,
           p_flags[p] = {}, ~has_int_msg[p], From(p, src) = NULL, Wait(p, src, m),
           both' \in [Proc -> Proc \cup {NO_PROC}], BothInv'
    PROVE  IInv'
<1>1. Idle(p)
  BY ClearIsIdle
<1>2. TypeOK'
  BY DEF IInv, TypeOK, Wait, links
<1>3. \A x \in Proc : IsSending(x)' <=> IsSending(x)
  BY DEF IInv, TypeOK, Wait, IsSending, SENDING, RECEIVING
<1>4. LinksInv' /\ NoSendCycle'
  BY <1>3, SameSenders DEF Wait
<1>5. FieldsAgree'
  <2>1. /\ p_flags'[p] = {RECEIVING} /\ p_msg'[p] = p /\ p_recvfrom'[p] = src
        /\ p_sendto'[p] = NO_PROC
    BY <1>1 DEF IInv, TypeOK, Idle, Wait
  <2>2. \A x \in Proc \ {p} : /\ p_flags'[x] = p_flags[x] /\ p_msg'[x] = p_msg[x]
                              /\ p_sendto'[x] = p_sendto[x] /\ p_recvfrom'[x] = p_recvfrom[x]
    BY DEF IInv, TypeOK, Wait
  <2> QED
    BY <2>1, <2>2, IpcAssumption DEF IInv, FieldsAgree, Idle
<1>6. NoMissedRendezvous'
  <2>1. \A x \in Proc : Sends(x, p) => src \notin {x, ANY}
    <3>1. ASSUME NEW x \in Proc, Sends(x, p), src = ANY PROVE FALSE
      <4>1. q_sending[p] = NULL
        BY <3>1 DEF From
      <4>2. x \in OnQueue(p)
        BY <3>1, QueueSenders DEF QueueIsSenders
      <4>3. LinkClosed(p, {})
        BY <4>1 DEF LinkClosed
      <4> QED
        BY <4>2, <4>3 DEF OnQueue
    <3>2. ASSUME NEW x \in Proc, Sends(x, p), src = x PROVE FALSE
      BY <3>2, IpcAssumption DEF From
    <3> QED
      BY <3>1, <3>2
  <2>2. \A x, e \in Proc : Sends(x, e)' <=> Sends(x, e)
    BY <1>3 DEF Sends, IsSending, Wait
  <2>3. \A e \in Proc \ {p} : \A srcs : WaitsFor(e, srcs)' <=> WaitsFor(e, srcs)
    BY DEF IInv, TypeOK, Wait, WaitsFor
  <2>4. p_recvfrom'[p] = src /\ has_int_msg'[p] = FALSE
    BY DEF IInv, TypeOK, Wait
  <2>5. ASSUME NEW e \in Proc, NEW x \in Proc, Sends(x, e)'
        PROVE  ~WaitsFor(e, {x, ANY})'
    <3>1. CASE e = p
      BY <3>1, <2>1, <2>2, <2>4, <2>5 DEF WaitsFor
    <3>2. CASE e # p
      BY <3>2, <2>2, <2>3, <2>5 DEF IInv, NoMissedRendezvous
    <3> QED
      BY <3>1, <3>2
  <2>6. ASSUME NEW e \in Proc, has_int_msg'[e] PROVE ~WaitsFor(e, {INTERRUPT, ANY})'
    BY <2>3, <2>4, <2>6 DEF IInv, NoMissedRendezvous, Wait
  <2> QED
    BY <2>5, <2>6 DEF NoMissedRendezvous
<1>7. NoAssertFails'
  BY DEF IInv, NoAssertFails, Wait
<1> QED
  BY <1>2, <1>4, <1>5, <1>6, <1>7 DEF IInv

\* inform_int, whether the process waits for the interrupt or not
LEMMA InformIntKeeps ==
    ASSUME IInv, NEW p \in Proc, InformInt(p)
    PROVE  IInv'
<1>0. both' \in [Proc -> Proc \cup {NO_PROC}] /\ BothInv'
  BY DEF IInv, TypeOK, BothInv, InformInt
<1>1. CASE WaitsFor(p, {INTERRUPT, ANY})
  <2>1. p_flags[p] = {RECEIVING} /\ p_sendto[p] = NO_PROC
    BY <1>1, IpcAssumption DEF IInv, FieldsAgree, Idle, WaitsFor, SENDING, RECEIVING
  <2>2. TypeOK'
    <3>1. p_flags' \in [Proc -> SUBSET {SENDING, RECEIVING}]
      BY <1>1, <2>1 DEF IInv, TypeOK, InformInt
    <3>2. p_msg' \in [Proc -> Proc \cup {NULL}]
      BY <1>1, <2>1 DEF IInv, TypeOK, InformInt, ClearMsg
    <3>3. /\ p_recvfrom' \in [Proc -> Source \cup {NO_PROC}]
          /\ has_int_msg' \in [Proc -> BOOLEAN]
      BY <1>1, <2>1 DEF IInv, TypeOK, InformInt
    <3>4. buf' \in [Proc -> Message]
      BY <1>1, <2>1 DEF IInv, TypeOK, InformInt, HardInt, Message
    <3> QED
      BY <1>0, <1>1, <2>1, <3>1, <3>2, <3>3, <3>4 DEF IInv, TypeOK, InformInt, links
  <2>3. \A x \in Proc : IsSending(x)' <=> IsSending(x)
    BY <1>1, <2>1 DEF IInv, TypeOK, InformInt, IsSending, SENDING, RECEIVING
  <2>4. LinksInv' /\ NoSendCycle'
    BY <1>1, <2>1, <2>3, SameSenders DEF InformInt
  <2>5. FieldsAgree'
    BY <1>1, <2>1 DEF IInv, TypeOK, FieldsAgree, Idle, InformInt, ClearMsg
  <2>6. NoMissedRendezvous' /\ NoAssertFails'
    BY <1>1, <2>1, <2>3, IpcAssumption
    DEF IInv, TypeOK, NoMissedRendezvous, Sends, WaitsFor, InformInt, IsSending, NoAssertFails
  <2> QED
    BY <1>0, <2>2, <2>4, <2>5, <2>6 DEF IInv
<1>2. CASE ~WaitsFor(p, {INTERRUPT, ANY})
  <2>1. TypeOK'
    BY <1>2, <1>0 DEF IInv, TypeOK, InformInt, links
  <2>2. LinksInv' /\ NoSendCycle'
    BY <1>2, SameSenders DEF InformInt, IsSending
  <2>3. FieldsAgree' /\ NoMissedRendezvous' /\ NoAssertFails'
    BY <1>2 DEF IInv, TypeOK, InformInt, FieldsAgree, Idle, NoMissedRendezvous, Sends,
         WaitsFor, NoAssertFails
  <2> QED
    BY <1>0, <2>1, <2>2, <2>3 DEF IInv
<1> QED
  BY <1>1, <1>2

\* Where the links lead when p has joined the queue of d.
LEMMA EnqueueChanges ==
    ASSUME IInv, NEW p \in Proc, NEW d \in Proc, NEW m \in Message, p # d,
           p_flags[p] = {}, Enqueue(p, d, m)
    PROVE  /\ q_sending[d] # NULL =>
                  /\ QueueEnd(d) \in Proc
                  /\ QueueEnd(d) # p
                  /\ Sends(QueueEnd(d), d)
                  /\ next_sending[QueueEnd(d)] = NULL
           /\ next_sending[p] = NULL
           /\ \A x \in Proc : next_sending[x] # p /\ q_sending[x] # p /\ ~Sends(p, x)
           /\ \A x, e \in Proc : Sends(x, e)' <=> Sends(x, e) \/ (x = p /\ e = d)
           /\ \A x \in Proc : q_sending'[x] =
                  IF x = d /\ q_sending[d] = NULL THEN p ELSE q_sending[x]
           /\ \A x \in Proc : next_sending'[x] =
                  IF q_sending[d] # NULL /\ x = QueueEnd(d) THEN p ELSE next_sending[x]
<1> DEFINE t == QueueEnd(d)
<1>1. Idle(p) /\ ~IsSending(p)
  BY ClearIsIdle DEF IsSending
<1>2. q_sending[d] # NULL =>
          t \in Proc /\ t # p /\ Sends(t, d) /\ next_sending[t] = NULL
  BY <1>1, TailIsLast DEF Sends, IsSending
<1>3. /\ next_sending[p] = NULL
      /\ \A x \in Proc : next_sending[x] # p /\ q_sending[x] # p /\ ~Sends(p, x)
  BY <1>1, IpcAssumption
  DEF IInv, LinksInv, NextSends, HeadSends, IsSending, Sends
<1>4. \A x \in Proc : /\ IsSending(x)' <=> IsSending(x) \/ x = p
                     /\ p_sendto'[x] = IF x = p THEN d ELSE p_sendto[x]
  BY DEF IInv, TypeOK, Enqueue, IsSending, SENDING, RECEIVING
<1>5. \A x, e \in Proc : Sends(x, e)' <=> Sends(x, e) \/ (x = p /\ e = d)
  BY <1>1, <1>4 DEF Sends, IsSending
<1>6. \A x \in Proc : q_sending'[x] =
          IF x = d /\ q_sending[d] = NULL THEN p ELSE q_sending[x]
  BY DEF IInv, TypeOK, Enqueue, LinkLast
<1>7. \A x \in Proc : next_sending'[x] =
          IF q_sending[d] # NULL /\ x = t THEN p ELSE next_sending[x]
  BY <1>2, <1>3 DEF IInv, TypeOK, Enqueue, LinkLast
<1> QED
  BY <1>2, <1>3, <1>5, <1>6, <1>7

LEMMA EnqueueKeeps ==
    ASSUME IInv, NEW p \in Proc, NEW d \in Proc, NEW m \in Message, p # d,
           p_flags[p] = {}, ~Deadlock(p, d), ~WaitsFor(d, {p, ANY}), Enqueue(p, d, m),
           both' \in [Proc -> Proc \cup {NO_PROC}], BothInv'
    PROVE  IInv'
<1> DEFINE t == QueueEnd(d)
<1>1. Idle(p) /\ ~IsSending(p)
  BY ClearIsIdle DEF IsSending
<1>2. q_sending[d] # NULL =>
          t \in Proc /\ t # p /\ Sends(t, d) /\ next_sending[t] = NULL
  BY EnqueueChanges
<1>3. /\ next_sending[p] = NULL
      /\ \A x \in Proc : next_sending[x] # p /\ q_sending[x] # p
  BY EnqueueChanges
<1>4. \A x \in Proc : /\ IsSending(x)' <=> IsSending(x) \/ x = p
                     /\ p_sendto'[x] = IF x = p THEN d ELSE p_sendto[x]
  BY DEF IInv, TypeOK, Enqueue, IsSending, SENDING, RECEIVING
<1>5. \A x, e \in Proc : Sends(x, e)' <=> Sends(x, e) \/ (x = p /\ e = d)
  BY EnqueueChanges
<1>6. \A x \in Proc : q_sending'[x] =
          IF x = d /\ q_sending[d] = NULL THEN p ELSE q_sending[x]
  BY EnqueueChanges
<1>7. \A x \in Proc : next_sending'[x] =
          IF q_sending[d] # NULL /\ x = t THEN p ELSE next_sending[x]
  BY EnqueueChanges
<1>8. TypeOK'
  <2>1. p_flags' \in [Proc -> SUBSET {SENDING, RECEIVING}]
    BY DEF IInv, TypeOK, Enqueue
  <2>2. q_sending' \in [Proc -> Proc \cup {NULL}] /\ next_sending' \in [Proc -> Proc \cup {NULL}]
    BY DEF IInv, TypeOK, Enqueue, LinkLast
  <2> QED
    BY <2>1, <2>2 DEF IInv, TypeOK, Enqueue
<1>9. FieldsAgree'
  <2>1. /\ p_flags'[p] = {SENDING} /\ p_msg'[p] = p /\ p_sendto'[p] = d
        /\ p_recvfrom'[p] = NO_PROC
    BY <1>1 DEF IInv, TypeOK, Idle, Enqueue
  <2>2. \A x \in Proc \ {p} : /\ p_flags'[x] = p_flags[x] /\ p_msg'[x] = p_msg[x]
                              /\ p_sendto'[x] = p_sendto[x] /\ p_recvfrom'[x] = p_recvfrom[x]
    BY DEF IInv, TypeOK, Enqueue
  <2> QED
    BY <2>1, <2>2, IpcAssumption DEF IInv, FieldsAgree, Idle
<1>10. LinksInv'
  <2> USE DEF IInv, LinksInv
  <2>1. HeadSends'
    BY <1>5, <1>6 DEF HeadSends, TypeOK
  <2>2. NextSends'
    <3> SUFFICES ASSUME NEW x \in Proc, next_sending'[x] # NULL
                 PROVE  /\ IsSending(x)'
                        /\ SENDING \in p_flags'[next_sending'[x]]
                        /\ p_sendto'[next_sending'[x]] = p_sendto'[x]
      BY DEF NextSends, IsSending
    <3> DEFINE y == next_sending'[x]
    <3>1. CASE q_sending[d] # NULL /\ x = t
      <4>1. y = p /\ x # p /\ Sends(x, d)
        BY <3>1, <1>2, <1>7
      <4> QED
        BY <4>1, <1>4 DEF Sends, IsSending
    <3>2. CASE ~(q_sending[d] # NULL /\ x = t)
      <4>1. y = next_sending[x] /\ y \in Proc /\ y # p /\ x # p
        BY <3>2, <1>3, <1>7 DEF TypeOK
      <4> QED
        BY <4>1, <1>4 DEF NextSends, IsSending
    <3> QED
      BY <3>1, <3>2
  <2>3. LinksApart'
    BY <1>2, <1>3, <1>6, <1>7 DEF LinksApart, TypeOK
  <2>4. SendersLinked'
    <3> SUFFICES ASSUME NEW x \in Proc, IsSending(x)'
                 PROVE  \/ q_sending'[p_sendto'[x]] = x
                        \/ \E y \in Proc : next_sending'[y] = x
      BY DEF SendersLinked
    <3>1. CASE x = p
      BY <3>1, <1>2, <1>4, <1>6, <1>7
    <3>2. CASE x # p
      <4>1. IsSending(x) /\ p_sendto'[x] = p_sendto[x] /\ p_sendto[x] \in Proc /\ x # NULL
        BY <3>2, <1>4, IpcAssumption DEF FieldsAgree, Idle, IsSending, SENDING, RECEIVING
      <4>2. CASE q_sending[p_sendto[x]] = x
        BY <4>1, <4>2, <1>6
      <4>3. CASE \E y \in Proc : next_sending[y] = x
        BY <4>1, <4>3, <1>2, <1>7
      <4> QED
        BY <4>1, <4>2, <4>3 DEF SendersLinked
    <3> QED
      BY <3>1, <3>2
  <2>5. ASSUME NEW S \in SUBSET Proc, S # {}
        PROVE  \E x \in S : next_sending'[x] \notin S
    <3>1. CASE p \in S
      BY <3>1, <1>2, <1>3, <1>7, IpcAssumption
    <3>2. CASE p \notin S
      BY <3>2, <2>5, <1>7 DEF LinksEnd
    <3> QED
      BY <3>1, <3>2
  <2>6. ASSUME NEW S \in SUBSET Proc, S # {}
        PROVE  \E x \in S : \A y \in S : next_sending'[y] # x
    <3>1. CASE S = {p}
      BY <3>1, <1>2, <1>3, <1>7, IpcAssumption
    <3>2. CASE S # {p}
      <4>1. PICK x \in S \ {p} : \A y \in S \ {p} : next_sending[y] # x
        BY <2>6, <3>2 DEF LinksBegin
      <4> QED
        BY <4>1, <1>2, <1>3, <1>7, IpcAssumption
    <3> QED
      BY <3>1, <3>2
  <2> QED
    BY <2>1, <2>2, <2>3, <2>4, <2>5, <2>6 DEF LinksEnd, LinksBegin
<1>11. NoSendCycle'
  <2> SUFFICES ASSUME NEW S \in SUBSET Proc, S # {}
               PROVE  \E x \in S : ~(IsSending(x)' /\ p_sendto'[x] \in S)
    BY DEF NoSendCycle, IsSending
  <2> DEFINE C == S \cap WaitChain(d)
  <2>1. CASE C # {}
    <3>1. PICK x \in C : ~(IsSending(x) /\ p_sendto[x] \in C)
      BY <2>1 DEF IInv, NoSendCycle, IsSending
    <3>2. x # p /\ (IsSending(x) => p_sendto[x] \notin S)
      BY <3>1, NoDeadlock
    <3> QED
      BY <3>1, <3>2, <1>4
  <2>2. CASE C = {}
    <3>1. PICK x \in S : ~(IsSending(x) /\ p_sendto[x] \in S)
      BY DEF IInv, NoSendCycle, IsSending
    <3>2. d \notin S
      BY <2>2, NoDeadlock
    <3> QED
      BY <3>1, <3>2, <1>4
  <2> QED
    BY <2>1, <2>2
<1>12. NoMissedRendezvous'
  <2>1. \A e \in Proc : \A srcs : WaitsFor(e, srcs)' => WaitsFor(e, srcs)
    BY DEF IInv, TypeOK, Enqueue, WaitsFor, SENDING, RECEIVING
  <2> QED
    BY <2>1, <1>5 DEF IInv, NoMissedRendezvous, Enqueue
<1>13. NoAssertFails'
  BY DEF IInv, NoAssertFails, Enqueue
<1> QED
  BY <1>8, <1>9, <1>10, <1>11, <1>12, <1>13 DEF IInv

\* Where the links lead when f, blocked sending to p, is taken out of its queue.
LEMMA TakeChanges ==
    ASSUME IInv, NEW p \in Proc, NEW f \in Proc, Sends(f, p), Take(p, f)
    PROVE  /\ f # q_sending[p] =>
                  Prev(p, f) \in Proc /\ Sends(Prev(p, f), p) /\ next_sending[Prev(p, f)] = f
           /\ next_sending[f] # f /\ f # NULL
           /\ \A x, e \in Proc : Sends(x, e)' <=> Sends(x, e) /\ x # f
           /\ \A x \in Proc : q_sending'[x] =
                  IF x = p /\ f = q_sending[p] THEN next_sending[f] ELSE q_sending[x]
           /\ \A x \in Proc : next_sending'[x] =
                  IF x = f THEN NULL
                  ELSE IF f # q_sending[p] /\ x = Prev(p, f) THEN next_sending[f]
                  ELSE next_sending[x]
<1> DEFINE h == Prev(p, f)
           g == next_sending[f]
           first == f = q_sending[p]
<1>1. p_flags[f] = {SENDING} /\ p_sendto[f] = p /\ IsSending(f) /\ p_recvfrom[f] = NO_PROC
  BY DEF IInv, FieldsAgree, Idle, Sends, IsSending, SENDING, RECEIVING
<1>2. ~first => h \in Proc /\ Sends(h, p) /\ next_sending[h] = f
  BY PrevLeads
<1>3. g # f /\ f # NULL
  <2>1. \E x \in {f} : next_sending[x] \notin {f}
    BY DEF IInv, LinksInv, LinksEnd
  <2> QED
    BY <2>1, IpcAssumption
<1>4. \A x \in Proc : IsSending(x)' <=> IsSending(x) /\ x # f
  BY DEF IInv, TypeOK, Take, IsSending, SENDING, RECEIVING
<1>5. \A x \in Proc : x # f => p_sendto'[x] = p_sendto[x]
  BY DEF IInv, TypeOK, Take
<1>6. \A x, e \in Proc : Sends(x, e)' <=> Sends(x, e) /\ x # f
  BY <1>4, <1>5 DEF Sends, IsSending
<1>7. \A x \in Proc : q_sending'[x] = IF x = p /\ first THEN g ELSE q_sending[x]
  BY DEF IInv, TypeOK, Take, Unlink
<1>8. \A x \in Proc : next_sending'[x] =
          IF x = f THEN NULL ELSE IF ~first /\ x = h THEN g ELSE next_sending[x]
  BY <1>2, <1>3 DEF IInv, TypeOK, Take, Unlink
<1> QED
  BY <1>2, <1>3, <1>6, <1>7, <1>8

LEMMA TakeKeeps ==
    ASSUME IInv, NEW p \in Proc, NEW f \in Proc, Sends(f, p), Take(p, f),
           both' \in [Proc -> Proc \cup {NO_PROC}], BothInv'
    PROVE  IInv'
<1> DEFINE h == Prev(p, f)
           g == next_sending[f]
           first == f = q_sending[p]
<1>1. p_flags[f] = {SENDING} /\ p_sendto[f] = p /\ IsSending(f) /\ p_recvfrom[f] = NO_PROC
  BY DEF IInv, FieldsAgree, Idle, Sends, IsSending, SENDING, RECEIVING
<1>2. ~first => h \in Proc /\ Sends(h, p) /\ next_sending[h] = f
  BY TakeChanges
<1>3. g # f /\ f # NULL
  BY TakeChanges
<1>4. \A x \in Proc : IsSending(x)' <=> IsSending(x) /\ x # f
  BY DEF IInv, TypeOK, Take, IsSending, SENDING, RECEIVING
<1>5. \A x \in Proc : x # f => p_sendto'[x] = p_sendto[x]
  BY DEF IInv, TypeOK, Take
<1>6. \A x, e \in Proc : Sends(x, e)' <=> Sends(x, e) /\ x # f
  BY TakeChanges
<1>7. \A x \in Proc : q_sending'[x] = IF x = p /\ first THEN g ELSE q_sending[x]
  BY TakeChanges
<1>8. \A x \in Proc : next_sending'[x] =
          IF x = f THEN NULL ELSE IF ~first /\ x = h THEN g ELSE next_sending[x]
  BY TakeChanges
<1>9. \A x \in Proc : next_sending[x] = f => ~first /\ x = h
  BY <1>2, <1>3 DEF IInv, LinksInv, LinksApart
<1>10. TypeOK'
  <2>1. p_flags' \in [Proc -> SUBSET {SENDING, RECEIVING}]
    BY DEF IInv, TypeOK, Take
  <2>2. q_sending' \in [Proc -> Proc \cup {NULL}]
    <3>1. /\ q_sending \in [Proc -> Proc \cup {NULL}]
          /\ next_sending \in [Proc -> Proc \cup {NULL}]
      BY DEF IInv, TypeOK
    <3>2. q_sending' = [q_sending EXCEPT ![p] = g] \/ q_sending' = q_sending
      BY DEF Take, Unlink
    <3> QED
      BY <3>1, <3>2
  <2>4. next_sending' \in [Proc -> Proc \cup {NULL}]
    <3>1. CASE first
      BY <3>1 DEF IInv, TypeOK, Take, Unlink
    <3>2. CASE ~first
      BY <3>2, <1>2 DEF IInv, TypeOK, Take, Unlink
    <3> QED
      BY <3>1, <3>2
  <2>3. p_msg' \in [Proc -> Proc \cup {NULL}] /\ p_sendto' \in [Proc -> Proc \cup {NO_PROC}]
    BY DEF IInv, TypeOK, Take, ClearMsg
  <2> QED
    BY <2>1, <2>2, <2>3, <2>4 DEF IInv, TypeOK, Take
<1>11. FieldsAgree'
  <2>1. Idle(f)'
    BY <1>1, IpcAssumption DEF IInv, TypeOK, Idle, Take, ClearMsg, SENDING, RECEIVING
  <2>2. \A x \in Proc \ {f} : /\ p_flags'[x] = p_flags[x] /\ p_msg'[x] = p_msg[x]
                              /\ p_sendto'[x] = p_sendto[x] /\ p_recvfrom'[x] = p_recvfrom[x]
    BY DEF IInv, TypeOK, Take, ClearMsg
  <2> QED
    BY <2>1, <2>2 DEF IInv, FieldsAgree, Idle
<1>12. LinksInv'
  <2> USE DEF IInv, LinksInv
  <2>1. HeadSends'
    <3> SUFFICES ASSUME NEW e \in Proc, q_sending'[e] # NULL
                 PROVE  SENDING \in p_flags'[q_sending'[e]] /\ p_sendto'[q_sending'[e]] = e
      BY DEF HeadSends, Sends
    <3>1. CASE e = p /\ first
      <4>1. q_sending'[e] = g /\ g \in Proc
        BY <3>1, <1>7 DEF TypeOK
      <4>2. Sends(g, p)
        BY <4>1, <1>1, IpcAssumption DEF NextSends, Sends, IsSending
      <4> QED
        BY <3>1, <4>1, <4>2, <1>3, <1>6 DEF Sends
    <3>2. CASE ~(e = p /\ first)
      <4>1. q_sending'[e] = q_sending[e] /\ q_sending[e] \in Proc /\ Sends(q_sending[e], e)
        BY <3>2, <1>7 DEF TypeOK, HeadSends
      <4> QED
        BY <3>2, <4>1, <1>1, <1>6 DEF Sends
    <3> QED
      BY <3>1, <3>2
  <2>2. NextSends'
    <3> SUFFICES ASSUME NEW x \in Proc, next_sending'[x] # NULL
                 PROVE  /\ IsSending(x)'
                        /\ SENDING \in p_flags'[next_sending'[x]]
                        /\ p_sendto'[next_sending'[x]] = p_sendto'[x]
      BY DEF NextSends, IsSending
    <3> DEFINE y == next_sending'[x]
    <3>1. x # f /\ y \in Proc
      BY <1>8, <1>10 DEF TypeOK
    <3>2. IsSending(x) /\ IsSending(y) /\ p_sendto[y] = p_sendto[x] /\ y # f
      BY <3>1, <1>1, <1>2, <1>3, <1>8, <1>9 DEF NextSends, Sends, IsSending
    <3> QED
      BY <3>1, <3>2, <1>4, <1>5 DEF IsSending
  <2>3. LinksApart'
    <3>1. ASSUME NEW x \in Proc, NEW y \in Proc,
                 next_sending'[x] = next_sending'[y], next_sending'[x] # NULL
          PROVE  x = y
      BY <3>1, <1>2, <1>8 DEF LinksApart
    <3>2. ASSUME NEW x \in Proc, NEW e \in Proc, next_sending'[x] = q_sending'[e]
          PROVE  next_sending'[x] = NULL
      <4>1. CASE e = p /\ first
        BY <3>2, <4>1, <1>7, <1>8 DEF LinksApart
      <4>2. CASE ~(e = p /\ first)
        BY <3>2, <4>2, <1>2, <1>7, <1>8 DEF LinksApart
      <4> QED
        BY <4>1, <4>2
    <3> QED
      BY <3>1, <3>2 DEF LinksApart
  <2>4. SendersLinked'
    <3> SUFFICES ASSUME NEW x \in Proc, IsSending(x)'
                 PROVE  \/ q_sending'[p_sendto'[x]] = x
                        \/ \E y \in Proc : next_sending'[y] = x
      BY DEF SendersLinked
    <3>1. x # f /\ IsSending(x) /\ p_sendto'[x] = p_sendto[x] /\ p_sendto[x] \in Proc /\ x # NULL
      BY <1>4, <1>5, IpcAssumption DEF FieldsAgree, Idle, IsSending, SENDING, RECEIVING
    <3>2. CASE q_sending[p_sendto[x]] = x
      BY <3>1, <3>2, <1>7
    <3>3. CASE \E y \in Proc : next_sending[y] = x
      <4>1. PICK y \in Proc : next_sending[y] = x
        BY <3>3
      <4>2. CASE y = f
        <5>1. p_sendto[x] = p
          BY <4>1, <4>2, <3>1, <1>1 DEF NextSends
        <5> QED
          BY <4>1, <4>2, <5>1, <3>1, <1>2, <1>3, <1>7, <1>8
      <4>3. CASE y # f
        BY <4>1, <4>3, <3>1, <1>2, <1>8
      <4> QED
        BY <4>2, <4>3
    <3> QED
      BY <3>1, <3>2, <3>3 DEF SendersLinked
  <2>5. ASSUME NEW S \in SUBSET Proc, S # {}
        PROVE  \E x \in S : next_sending'[x] \notin S
    <3>1. CASE f \in S
      BY <3>1, <1>8, IpcAssumption
    <3>2. CASE f \notin S /\ ~first /\ h \in S
      <4>1. PICK x \in S \cup {f} : next_sending[x] \notin S \cup {f}
        BY DEF LinksEnd
      <4> QED
        BY <3>2, <4>1, <1>2, <1>8
    <3>3. CASE f \notin S /\ (first \/ h \notin S)
      BY <3>3, <2>5, <1>8 DEF LinksEnd
    <3> QED
      BY <3>1, <3>2, <3>3
  <2>6. ASSUME NEW S \in SUBSET Proc, S # {}
        PROVE  \E x \in S : \A y \in S : next_sending'[y] # x
    <3>1. CASE f \in S
      BY <3>1, <1>3, <1>8, <1>9
    <3>2. CASE f \notin S /\ ~first /\ h \in S
      <4>1. PICK x \in S \cup {f} : \A y \in S \cup {f} : next_sending[y] # x
        BY DEF LinksBegin
      <4> QED
        BY <3>2, <4>1, <1>2, <1>8
    <3>3. CASE f \notin S /\ (first \/ h \notin S)
      BY <3>3, <2>6, <1>8 DEF LinksBegin
    <3> QED
      BY <3>1, <3>2, <3>3
  <2> QED
    BY <2>1, <2>2, <2>3, <2>4, <2>5, <2>6 DEF LinksEnd, LinksBegin
<1>13. NoSendCycle'
  BY <1>4, <1>5 DEF IInv, NoSendCycle, IsSending
<1>14. NoMissedRendezvous'
  <2>1. \A e \in Proc : \A srcs : WaitsFor(e, srcs)' => WaitsFor(e, srcs)
    BY DEF IInv, TypeOK, Take, WaitsFor, SENDING, RECEIVING
  <2> QED
    BY <2>1, <1>6 DEF IInv, NoMissedRendezvous, Take
<1>15. NoAssertFails'
  BY DEF IInv, NoAssertFails, Take
<1> QED
  BY <1>10, <1>11, <1>12, <1>13, <1>14, <1>15 DEF IInv

-----------------------------------------------------------------------------
(* The two kernel calls: under the invariant no branch that stops on an      *)
(* assertion of theirs can be taken.                                         *)

LEMMA MsgSendKeeps ==
    ASSUME IInv, NEW p \in Proc, NEW d \in Proc, NEW m \in Message, p # d,
           p_flags[p] = {}, MsgSend(p, d, m),
           both' \in [Proc -> Proc \cup {NO_PROC}], BothInv'
    PROVE  IInv'
<1>1. Idle(p)
  BY ClearIsIdle
<1>2. CASE Deadlock(p, d)
  <2>1. CircleAsserts(d)
    <3>1. WaitChain(d) \subseteq Proc
      BY DEF WaitChain
    <3> QED
      BY <3>1 DEF IInv, FieldsAgree, Idle, CircleAsserts, SENDING, RECEIVING
  <2> QED
    BY <1>2, <2>1, StopKeeps DEF MsgSend
<1>3. CASE ~Deadlock(p, d) /\ WaitsFor(d, {p, ANY})
  <2>1. DeliverAsserts(p, d)
    BY <1>1, <1>3, IpcAssumption
    DEF IInv, FieldsAgree, Idle, WaitsFor, DeliverAsserts, SENDING, RECEIVING
  <2> QED
    BY <2>1, <1>3, DeliverKeeps DEF MsgSend
<1>4. CASE ~Deadlock(p, d) /\ ~WaitsFor(d, {p, ANY})
  <2>1. EnqueueAsserts(p)
    BY <1>1 DEF Idle, EnqueueAsserts
  <2> QED
    BY <2>1, <1>4, EnqueueKeeps DEF MsgSend
<1> QED
  BY <1>2, <1>3, <1>4

LEMMA MsgReceiveKeeps ==
    ASSUME IInv, NEW p \in Proc, NEW src \in Source, NEW m \in Message, p # src,
           p_flags[p] = {}, MsgReceive(p, src, m),
           both' \in [Proc -> Proc \cup {NO_PROC}], BothInv'
    PROVE  IInv'
<1> DEFINE f == From(p, src)
<1>1. Idle(p)
  BY ClearIsIdle
<1>2. CASE TakesInt(p, src)
  <2>1. IntAsserts(p)
    BY <1>1 DEF Idle, IntAsserts
  <2> QED
    BY <2>1, <1>2, TakeIntKeeps DEF MsgReceive
<1>3. CASE ~TakesInt(p, src) /\ f # NULL
  <2>1. f \in Proc /\ Sends(f, p)
    BY <1>3 DEF From, IInv, TypeOK, LinksInv, HeadSends
  <2>2. q_sending[p] # NULL
    <3> SUFFICES ASSUME q_sending[p] = NULL PROVE FALSE
      OBVIOUS
    <3>1. f \in OnQueue(p)
      BY <2>1, QueueSenders DEF QueueIsSenders
    <3>2. LinkClosed(p, {})
      BY DEF LinkClosed
    <3> QED
      BY <3>1, <3>2 DEF OnQueue
  <2>3. TakeAsserts(p, f)
    BY <1>1, <2>1, <2>2
    DEF IInv, FieldsAgree, Idle, Sends, TakeAsserts, SENDING, RECEIVING
  <2> QED
    BY <2>1, <2>3, <1>3, TakeKeeps DEF MsgReceive
<1>4. CASE ~TakesInt(p, src) /\ f = NULL
  <2>1. WaitAsserts(p)
    BY <1>1 DEF Idle, WaitAsserts
  <2>2. CASE has_int_msg[p]
    BY <2>1, <2>2, <1>4, StopKeeps DEF MsgReceive
  <2>3. CASE ~has_int_msg[p]
    BY <2>1, <2>3, <1>4, WaitKeeps DEF MsgReceive
  <2> QED
    BY <2>2, <2>3
<1> QED
  BY <1>2, <1>3, <1>4

-----------------------------------------------------------------------------
(* The invariant *)

LEMMA InitHolds == Init => IInv
<1> SUFFICES ASSUME Init PROVE IInv
  OBVIOUS
<1> USE DEF Init
<1>1. TypeOK
  BY DEF TypeOK, Message
<1>2. FieldsAgree /\ BothInv
  BY IpcAssumption DEF FieldsAgree, Idle, BothInv
<1>3. LinksInv
  BY IpcAssumption DEF LinksInv, HeadSends, NextSends, LinksApart, SendersLinked,
                       LinksEnd, LinksBegin, IsSending
<1>4. NoSendCycle /\ NoMissedRendezvous /\ NoAssertFails
  BY DEF NoSendCycle, NoMissedRendezvous, NoAssertFails, Sends
<1> QED
  BY <1>1, <1>2, <1>3, <1>4 DEF IInv

LEMMA NextKeeps == IInv /\ [Next]_vars => IInv'
<1> SUFFICES ASSUME IInv, [Next]_vars PROVE IInv'
  OBVIOUS
<1>1. ASSUME NEW p \in Proc, NEW b \in Body \cup {ZERO, HARD_INT}
      PROVE  Outgoing(p, b) \in Message
  BY DEF Outgoing, Message
<1>2. ASSUME NEW p \in Proc, NEW d \in Proc, NEW b \in Body, Send(p, d, b)
      PROVE  IInv'
  <2>1. both' \in [Proc -> Proc \cup {NO_PROC}] /\ BothInv'
    BY <1>2 DEF Send, IInv, TypeOK, BothInv
  <2> QED
    BY <1>1, <1>2, <2>1, MsgSendKeeps DEF Send, CanRun
<1>3. ASSUME NEW p \in Proc, NEW d \in Proc, NEW b \in Body, SendBoth(p, d, b)
      PROVE  IInv'
  <2>1. both' \in [Proc -> Proc \cup {NO_PROC}] /\ BothInv'
    BY <1>3 DEF SendBoth, IInv, TypeOK, BothInv
  <2> QED
    BY <1>1, <1>3, <2>1, MsgSendKeeps DEF SendBoth, CanRun
<1>4. ASSUME NEW p \in Proc, NEW src \in Source, Receive(p, src)
      PROVE  IInv'
  <2>1. both' \in [Proc -> Proc \cup {NO_PROC}] /\ BothInv'
    BY <1>4 DEF Receive, IInv, TypeOK, BothInv
  <2> QED
    BY <1>1, <1>4, <2>1, MsgReceiveKeeps DEF Receive, CanRun
<1>5. ASSUME NEW p \in Proc, ReceiveBoth(p)
      PROVE  IInv'
  <2>1. both' \in [Proc -> Proc \cup {NO_PROC}] /\ BothInv'
    BY <1>5, IpcAssumption DEF ReceiveBoth, IInv, TypeOK, BothInv
  <2>2. both[p] \in Source /\ both[p] # p
    BY <1>5 DEF ReceiveBoth, IInv, TypeOK, BothInv, Source
  <2>3. Outgoing(p, buf[p].type) \in Message
    BY DEF Outgoing, Message, IInv, TypeOK
  <2> QED
    BY <1>5, <2>1, <2>2, <2>3, MsgReceiveKeeps DEF ReceiveBoth, CanRun
<1>6. ASSUME NEW p \in IrqProc, InformInt(p)
      PROVE  IInv'
  BY <1>6, InformIntKeeps, IpcAssumption
<1>7. CASE UNCHANGED vars
  BY <1>7, StutterKeeps
<1> QED
  BY <1>2, <1>3, <1>4, <1>5, <1>6, <1>7 DEF Next

THEOREM Invariant == Spec => []IInv
BY InitHolds, NextKeeps, PTL DEF Spec

\* Every field of the process table and every message keeps its type, whatever
\* the processes send and whenever they are interrupted.
THEOREM TypeCorrect == Spec => []TypeOK
<1>1. IInv => TypeOK
  BY DEF IInv
<1> QED
  BY <1>1, Invariant, PTL

\* No assertion of msg_send, msg_receive, inform_int, unblock or deadlock fails
\* (proc.c:224-302, 323-407, 428), for any number of processes.
THEOREM NoAssertionFails == Spec => []NoAssertFails
<1>1. IInv => NoAssertFails
  BY DEF IInv
<1> QED
  BY <1>1, Invariant, PTL

\* The list at q_sending[d] always holds exactly the processes blocked sending
\* to d, however many there are and wherever msg_receive takes one out.
THEOREM QueuesSound == Spec => []QueueIsSenders
<1>1. IInv => QueueIsSenders
  BY QueueSenders
<1> QED
  BY <1>1, Invariant, PTL

\* No process is left blocked while another that could serve it is blocked too.
THEOREM NoneMissed == Spec => []NoMissedRendezvous
<1>1. IInv => NoMissedRendezvous
  BY DEF IInv
<1> QED
  BY <1>1, Invariant, PTL

\* deadlock() is enough: no circle of blocked senders ever closes, and so the
\* loop of deadlock() always ends.
THEOREM NoCircle == Spec => []NoSendCycle
<1>1. IInv => NoSendCycle
  BY DEF IInv
<1> QED
  BY <1>1, Invariant, PTL
=============================================================================
