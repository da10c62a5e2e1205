-------------------------------- MODULE Ipc --------------------------------
(***************************************************************************)
(* The message-passing kernel call of src/kernel/proc.c: syscall_sendrec,  *)
(* msg_send, msg_receive, deadlock and inform_int, with the library        *)
(* routine send_recv through which every process calls them.               *)
(*                                                                         *)
(* A kernel call is one step here: no interrupt lands between its          *)
(* statements.  The code does not guarantee that (the call gate executes   *)
(* `sti'); module Hd splits the call and says what follows.  Which      *)
(* process runs is left open: schedule() may pick any whose p_flags is 0.  *)
(*                                                                         *)
(* The kernel's pointers keep their shape: q_sending and next_sending are  *)
(* the links of the code's list, and the code's walks along them are the   *)
(* least sets closed under a link, so that the module needs no recursion.  *)
(***************************************************************************)

CONSTANTS
    Proc,       \* the entries of proc_table
    IrqProc,    \* the processes some interrupt handler passes to inform_int
    Body,       \* what a sender may put in a message, its `type' included
    ANY, INTERRUPT,     \* the special sources of a RECEIVE
    NO_PROC,            \* p_recvfrom and p_sendto of a process that has none
    NULL,               \* the null pointer
    HARD_INT,           \* the type of the message an interrupt becomes
    ZERO                \* a message buffer after reset_msg or memset

SENDING == "SENDING"
RECEIVING == "RECEIVING"

ASSUME IpcAssumption ==
    /\ IrqProc \subseteq Proc
    /\ ANY \notin Proc
    /\ INTERRUPT \notin Proc \cup {ANY}
    /\ NO_PROC \notin Proc \cup {ANY, INTERRUPT}
    /\ NULL \notin Proc

Source == Proc \cup {ANY, INTERRUPT}
Message == [source : Proc \cup {INTERRUPT}, type : Body \cup {HARD_INT, ZERO}]

VARIABLES
    p_flags,        \* p_flags[p]: a subset of {SENDING, RECEIVING}
    p_msg,          \* p_msg[p]: NULL, or p for the address of p's buffer
    p_recvfrom,     \* whom p is waiting to receive from
    p_sendto,       \* whom p is waiting to send to
    has_int_msg,    \* an interrupt p has not received yet
    q_sending,      \* q_sending[p]: the first process waiting to send to p
    next_sending,   \* next_sending[p]: the process behind p in its queue
    buf,            \* buf[p]: the message p passes to the kernel
    both,           \* both[p]: whom a send_recv(BOTH) of p has yet to RECEIVE from
    kernel          \* "running", or what stopped the machine: "panic", "assert",
                    \* or the last assertion of msg_receive, "assert has_int_msg"

pcb == <<p_flags, p_msg, p_recvfrom, p_sendto, has_int_msg>>
links == <<q_sending, next_sending>>
vars == <<pcb, links, buf, both, kernel>>

Init ==
    /\ p_flags = [p \in Proc |-> {}]
    /\ p_msg = [p \in Proc |-> NULL]
    /\ p_recvfrom = [p \in Proc |-> NO_PROC]
    /\ p_sendto = [p \in Proc |-> NO_PROC]
    /\ has_int_msg = [p \in Proc |-> FALSE]
    /\ q_sending = [p \in Proc |-> NULL]
    /\ next_sending = [p \in Proc |-> NULL]
    /\ buf = [p \in Proc |-> [source |-> p, type |-> ZERO]]
    /\ both = [p \in Proc |-> NO_PROC]
    /\ kernel = "running"

-----------------------------------------------------------------------------
(* Walks along the kernel's pointers *)

Sends(p, d) == SENDING \in p_flags[p] /\ p_sendto[p] = d

\* What msg_send and inform_int ask of a process before they wake it.
WaitsFor(d, srcs) == RECEIVING \in p_flags[d] /\ p_recvfrom[d] \in srcs

\* The processes a walk from q_sending[d] along next_sending meets.
LinkClosed(d, S) ==
    /\ q_sending[d] \in S \cup {NULL}
    /\ \A x \in S : next_sending[x] \in S \cup {NULL}
OnQueue(d) == {x \in Proc : \A S \in SUBSET Proc : LinkClosed(d, S) => x \in S}

\* Where msg_send's walk to the end of the queue stops.
QueueEnd(d) == CHOOSE t \in OnQueue(d) : next_sending[t] = NULL

\* `prev' when msg_receive's search for f stops: f's predecessor, or the last
\* process of the queue when f is not on it.
Prev(d, f) ==
    CHOOSE x \in OnQueue(d) :
        \/ next_sending[x] = f
        \/ f \notin OnQueue(d) /\ next_sending[x] = NULL

\* The processes the walk of deadlock() meets: d, the process d is blocked
\* sending to, and so on.
SendClosed(d, S) ==
    /\ d \in S
    /\ \A x \in S : SENDING \in p_flags[x] => p_sendto[x] \in S
WaitChain(d) == {x \in Proc : \A S \in SUBSET Proc : SendClosed(d, S) => x \in S}
DirectDeadlock(p, d) == Sends(d, p)        \* mutant: looks one step ahead only
Deadlock(p, d) == \E x \in WaitChain(d) : Sends(x, p)

\* The assertion on the way round, when deadlock() walks a circle a second time.
CircleAsserts(d) == \A x \in WaitChain(d) : SENDING \in p_flags[x] => p_msg[x] # NULL

-----------------------------------------------------------------------------
(* msg_send *)

Idle(p) ==
    /\ p_flags[p] = {}
    /\ p_msg[p] = NULL
    /\ p_recvfrom[p] = NO_PROC
    /\ p_sendto[p] = NO_PROC

\* The assertions of the two ways out of msg_send.
DeliverAsserts(p, d) ==
    /\ p_msg[d] # NULL
    /\ p_flags[d] = {RECEIVING}
    /\ p_sendto[d] = NO_PROC
    /\ Idle(p)
EnqueueAsserts(p) == p_flags[p] \subseteq {SENDING} /\ p_recvfrom[p] = NO_PROC

\* panic() and a failed assert() stop the machine where it is.
Stop(how) == kernel' = how /\ UNCHANGED <<pcb, links, buf>>

\* The new p_msg: d has its message.
KeepMsg(d) == UNCHANGED p_msg               \* mutant: p_dst->p_msg is not cleared
ClearMsg(d) == p_msg' = [p_msg EXCEPT ![d] = NULL]

\* The destination is already waiting: it has the message at once.
Deliver(p, d, m) ==
    /\ buf' = [buf EXCEPT ![p] = m, ![d] = m]
    /\ ClearMsg(d)
    /\ p_flags' = [p_flags EXCEPT ![d] = @ \ {RECEIVING}]
    /\ p_recvfrom' = [p_recvfrom EXCEPT ![d] = NO_PROC]
    /\ UNCHANGED <<p_sendto, has_int_msg, links, kernel>>

\* The new q_sending and next_sending when p joins the queue of d.
LinkOnly(p, d) ==                           \* mutant: forgets who is queued
    /\ q_sending' = [q_sending EXCEPT ![d] = p]
    /\ next_sending' = [next_sending EXCEPT ![p] = NULL]
LinkFirst(p, d) ==                          \* mutant: the newest sender first
    /\ q_sending' = [q_sending EXCEPT ![d] = p]
    /\ next_sending' = [next_sending EXCEPT ![p] = q_sending[d]]
LinkLast(p, d) ==
    IF q_sending[d] = NULL
    THEN /\ q_sending' = [q_sending EXCEPT ![d] = p]
         /\ next_sending' = [next_sending EXCEPT ![p] = NULL]
    ELSE /\ next_sending' = [next_sending EXCEPT ![QueueEnd(d)] = p, ![p] = NULL]
         /\ UNCHANGED q_sending

\* The destination is not waiting: the sender blocks at the end of its queue.
Enqueue(p, d, m) ==
    /\ buf' = [buf EXCEPT ![p] = m]
    /\ p_flags' = [p_flags EXCEPT ![p] = @ \cup {SENDING}]
    /\ p_sendto' = [p_sendto EXCEPT ![p] = d]
    /\ p_msg' = [p_msg EXCEPT ![p] = p]
    /\ LinkLast(p, d)
    /\ UNCHANGED <<p_recvfrom, has_int_msg, kernel>>

MsgSend(p, d, m) ==
    \/ /\ Deadlock(p, d)
       /\ IF CircleAsserts(d) THEN Stop("panic") ELSE Stop("assert")
    \/ /\ ~Deadlock(p, d)
       /\ WaitsFor(d, {p, ANY})
       /\ IF DeliverAsserts(p, d) THEN Deliver(p, d, m) ELSE Stop("assert")
    \/ /\ ~Deadlock(p, d)
       /\ ~WaitsFor(d, {p, ANY})
       /\ IF EnqueueAsserts(p) THEN Enqueue(p, d, m) ELSE Stop("assert")

-----------------------------------------------------------------------------
(* msg_receive *)

HardInt == [source |-> INTERRUPT, type |-> HARD_INT]

TakesInt(p, src) == has_int_msg[p] /\ src \in {ANY, INTERRUPT}

\* p_from with copyok: the sender whose message is taken, NULL if there is none.
FromHead(p, src) ==                         \* mutant: overlooks a queued src
    IF src = ANY THEN q_sending[p] ELSE NULL
From(p, src) ==
    IF src = ANY THEN q_sending[p]
    ELSE IF src \in Proc /\ Sends(src, p) THEN src ELSE NULL

IntAsserts(p) == p_flags[p] = {} /\ p_msg[p] = NULL /\ p_sendto[p] = NO_PROC
TakeAsserts(p, f) ==
    /\ q_sending[p] # NULL
    /\ Idle(p)
    /\ p_flags[f] = {SENDING}
    /\ p_msg[f] # NULL
    /\ p_recvfrom[f] = NO_PROC
    /\ p_sendto[f] = p
WaitAsserts(p) == p_flags[p] \subseteq {RECEIVING} /\ p_sendto[p] = NO_PROC

TakeInt(p) ==
    /\ buf' = [buf EXCEPT ![p] = HardInt]
    /\ has_int_msg' = [has_int_msg EXCEPT ![p] = FALSE]
    /\ UNCHANGED <<p_flags, p_msg, p_recvfrom, p_sendto, links, kernel>>

\* The new q_sending and next_sending when f leaves the queue of p.
Unlink(p, f) ==
    IF f = q_sending[p]
    THEN /\ q_sending' = [q_sending EXCEPT ![p] = next_sending[f]]
         /\ next_sending' = [next_sending EXCEPT ![f] = NULL]
    ELSE /\ next_sending' = [next_sending EXCEPT ![Prev(p, f)] = next_sending[f],
                                                 ![f] = NULL]
         /\ UNCHANGED q_sending

\* Take the message of f, which is blocked sending to p, and wake f.
Take(p, f) ==
    /\ Unlink(p, f)
    /\ buf' = [buf EXCEPT ![p] = buf[f]]
    /\ ClearMsg(f)
    /\ p_sendto' = [p_sendto EXCEPT ![f] = NO_PROC]
    /\ p_flags' = [p_flags EXCEPT ![f] = @ \ {SENDING}]
    /\ UNCHANGED <<p_recvfrom, has_int_msg, kernel>>

\* There is nothing to receive: p blocks, its buffer m to be filled later.
Wait(p, src, m) ==
    /\ buf' = [buf EXCEPT ![p] = m]
    /\ p_flags' = [p_flags EXCEPT ![p] = @ \cup {RECEIVING}]
    /\ p_msg' = [p_msg EXCEPT ![p] = p]
    /\ p_recvfrom' = [p_recvfrom EXCEPT ![p] = src]
    /\ UNCHANGED <<p_sendto, has_int_msg, links, kernel>>

MsgReceive(p, src, m) ==
    \/ /\ TakesInt(p, src)
       /\ IF IntAsserts(p) THEN TakeInt(p) ELSE Stop("assert")
    \/ /\ ~TakesInt(p, src)
       /\ From(p, src) # NULL
       /\ IF TakeAsserts(p, From(p, src))
          THEN Take(p, From(p, src)) ELSE Stop("assert")
    \/ /\ ~TakesInt(p, src)
       /\ From(p, src) = NULL
       /\ CASE ~WaitAsserts(p) -> Stop("assert")
            [] WaitAsserts(p) /\ has_int_msg[p] -> Stop("assert has_int_msg")
            [] OTHER -> Wait(p, src, m)

-----------------------------------------------------------------------------
(* What a process does: send_recv, and an interrupt handler: inform_int *)

\* p is in its own code: it has the processor or will get it from schedule().
CanRun(p) == kernel = "running" /\ p_flags[p] = {}

\* syscall_sendrec: the kernel puts the caller in the message itself.
Anonymous(p, b) == [source |-> NO_PROC, type |-> b]     \* mutant: source not set
Outgoing(p, b) == [source |-> p, type |-> b]

\* send_recv(SEND, d, &msg)
Send(p, d, b) ==
    /\ CanRun(p) /\ both[p] = NO_PROC /\ p # d
    /\ MsgSend(p, d, Outgoing(p, b))
    /\ UNCHANGED both

\* The first half of send_recv(BOTH, d, &msg): the RECEIVE is still to come.
SendBoth(p, d, b) ==
    /\ CanRun(p) /\ both[p] = NO_PROC /\ p # d
    /\ MsgSend(p, d, Outgoing(p, b))
    /\ both' = [both EXCEPT ![p] = d]

\* send_recv(RECEIVE, src, &msg), on a message it clears first
Receive(p, src) ==
    /\ CanRun(p) /\ both[p] = NO_PROC /\ p # src
    /\ MsgReceive(p, src, Outgoing(p, ZERO))
    /\ UNCHANGED both

\* The second half of send_recv(BOTH, d, &msg), a kernel call of its own
ReceiveBoth(p) ==
    /\ CanRun(p) /\ both[p] # NO_PROC
    /\ MsgReceive(p, both[p], Outgoing(p, buf[p].type))
    /\ both' = [both EXCEPT ![p] = NO_PROC]

\* inform_int(p), from the handler of p's interrupt
InformInt(p) ==
    /\ kernel = "running"
    /\ UNCHANGED both
    /\ IF WaitsFor(p, {INTERRUPT, ANY})
       THEN IF p_flags[p] = {RECEIVING} /\ p_sendto[p] = NO_PROC
            THEN /\ buf' = [buf EXCEPT ![p] = HardInt]
                 /\ ClearMsg(p)
                 /\ has_int_msg' = [has_int_msg EXCEPT ![p] = FALSE]
                 /\ p_flags' = [p_flags EXCEPT ![p] = @ \ {RECEIVING}]
                 /\ p_recvfrom' = [p_recvfrom EXCEPT ![p] = NO_PROC]
                 /\ UNCHANGED <<p_sendto, links, kernel>>
            ELSE Stop("assert")
       ELSE /\ has_int_msg' = [has_int_msg EXCEPT ![p] = TRUE]
            /\ UNCHANGED <<p_flags, p_msg, p_recvfrom, p_sendto, links, buf, kernel>>

Next ==
    \/ \E p, d \in Proc, b \in Body : Send(p, d, b) \/ SendBoth(p, d, b)
    \/ \E p \in Proc, src \in Source : Receive(p, src)
    \/ \E p \in Proc : ReceiveBoth(p)
    \/ \E p \in IrqProc : InformInt(p)

Spec == Init /\ [][Next]_vars

-----------------------------------------------------------------------------
(* Properties *)

TypeOK ==
    /\ p_flags \in [Proc -> SUBSET {SENDING, RECEIVING}]
    /\ p_msg \in [Proc -> Proc \cup {NULL}]
    /\ p_recvfrom \in [Proc -> Source \cup {NO_PROC}]
    /\ p_sendto \in [Proc -> Proc \cup {NO_PROC}]
    /\ has_int_msg \in [Proc -> BOOLEAN]
    /\ q_sending \in [Proc -> Proc \cup {NULL}]
    /\ next_sending \in [Proc -> Proc \cup {NULL}]
    /\ buf \in [Proc -> Message]
    /\ both \in [Proc -> Proc \cup {NO_PROC}]
    /\ kernel \in {"running", "panic", "assert", "assert has_int_msg"}

\* No call of any process, in any order, makes an assertion of msg_send,
\* msg_receive, inform_int, unblock or deadlock fail (proc.c:224-302, 323-407, 428).
NoAssertFails == kernel # "assert"

\* The last assertion of msg_receive (proc.c:408): a process that has blocked in
\* RECEIVE has no interrupt pending.  The code does not keep it: a RECEIVE from
\* one process leaves the pending interrupt where it is.
NoIntPendingWhenBlocked == kernel # "assert has_int_msg"

\* The list threaded through q_sending and next_sending holds exactly the
\* processes blocked sending to d: the surgery of msg_send and msg_receive
\* loses none and leaves none behind (proc.c:284-297, 378-389).
QueueIsSenders == \A d \in Proc : OnQueue(d) = {p \in Proc : Sends(p, d)}

\* No blocked process could have been served: a receiver never waits for one
\* that is blocked sending to it, nor for an interrupt it already has.
NoMissedRendezvous ==
    \A d \in Proc :
        /\ \A p \in Proc : Sends(p, d) => ~WaitsFor(d, {p, ANY})
        /\ has_int_msg[d] => ~WaitsFor(d, {INTERRUPT, ANY})

\* deadlock() keeps blocked senders from waiting on each other in a circle:
\* every set of processes has one that is not sending to a member.  It is also
\* why the loop of deadlock() ends (proc.c:416-445).
NoSendCycle ==
    \A S \in SUBSET Proc :
        S # {} => \E x \in S : ~(SENDING \in p_flags[x] /\ p_sendto[x] \in S)
=============================================================================
