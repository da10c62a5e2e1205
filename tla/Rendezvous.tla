----------------------------- MODULE Rendezvous -----------------------------
(***************************************************************************)
(* What the message-passing kernel call promises, with no flag, pointer or *)
(* list: a message passes from a sender to a receiver when both have asked *)
(* for it; the processes that asked first wait in line, and a process that *)
(* receives from ANY is served the one that has waited longest.            *)
(*                                                                         *)
(* Ipc implements this specification (IpcRefinement).                      *)
(***************************************************************************)
EXTENDS SequencesExt

CONSTANTS Proc, IrqProc, Body, ANY, INTERRUPT, NO_PROC, HARD_INT, ZERO

VARIABLES
    line,       \* line[d]: the processes blocked sending to d, in the order they came
    waits,      \* waits[p]: the source p is blocked receiving from, or NO_PROC
    pending,    \* pending[p]: an interrupt has come that p has not received
    buf,        \* buf[p]: the message of p's call
    both,       \* both[p]: whom p must RECEIVE from next, after a SEND of BOTH
    halted      \* the machine has stopped

vars == <<line, waits, pending, buf, both, halted>>

Init ==
    /\ line = [p \in Proc |-> <<>>]
    /\ waits = [p \in Proc |-> NO_PROC]
    /\ pending = [p \in Proc |-> FALSE]
    /\ buf = [p \in Proc |-> [source |-> p, type |-> ZERO]]
    /\ both = [p \in Proc |-> NO_PROC]
    /\ halted = FALSE

InLine(p) == \E d \in Proc : Contains(line[d], p)
Runs(p) == ~halted /\ waits[p] = NO_PROC /\ ~InLine(p)

\* d is in line for somebody who is in line for ... who is in line for p.
HeldUpBy(d, p) ==
    \A S \in SUBSET Proc :
        d \in S /\ (\A q \in S, e \in Proc : Contains(line[e], q) => e \in S) => p \in S

Halt == halted' = TRUE /\ UNCHANGED <<line, waits, pending, buf>>

\* p offers d the message m: d has it at once if it waits for it, else p goes to
\* the end of the line.  An offer that would close a circle of senders stops the
\* machine.
Offer(p, d, m) ==
    \/ Halt /\ HeldUpBy(d, p)
    \/ /\ waits[d] \in {p, ANY}
       /\ buf' = [buf EXCEPT ![p] = m, ![d] = m]
       /\ waits' = [waits EXCEPT ![d] = NO_PROC]
       /\ UNCHANGED <<line, pending, halted>>
       /\ ~HeldUpBy(d, p)
    \/ /\ waits[d] \notin {p, ANY}
       /\ buf' = [buf EXCEPT ![p] = m]
       /\ line' = [line EXCEPT ![d] = Append(@, p)]
       /\ UNCHANGED <<waits, pending, halted>>
       /\ ~HeldUpBy(d, p)

\* The places in line that p may be served from now: the first if it asks for ANY,
\* else that of the one it asks for.
Servable(p, src) ==
    {i \in DOMAIN line[p] : IF src = ANY THEN i = 1 ELSE line[p][i] = src}

\* p asks for a message from src.  An interrupt goes before any message.  A
\* process that must wait for another one cannot do so with an interrupt
\* pending: the machine stops.
Accept(p, src, m) ==
    \/ /\ pending[p] /\ src \in {ANY, INTERRUPT}
       /\ buf' = [buf EXCEPT ![p] = [source |-> INTERRUPT, type |-> HARD_INT]]
       /\ pending' = [pending EXCEPT ![p] = FALSE]
       /\ UNCHANGED <<line, waits, halted>>
    \/ /\ ~(pending[p] /\ src \in {ANY, INTERRUPT})
       /\ UNCHANGED <<waits, pending, halted>>
       /\ \E i \in Servable(p, src) :
             /\ buf' = [buf EXCEPT ![p] = buf[line[p][i]]]
             /\ line' = [line EXCEPT ![p] = RemoveAt(@, i)]
    \/ /\ ~pending[p]
       /\ buf' = [buf EXCEPT ![p] = m]
       /\ waits' = [waits EXCEPT ![p] = src]
       /\ Servable(p, src) = {}
       /\ UNCHANGED <<line, pending, halted>>
    \/ /\ pending[p] /\ src \notin {ANY, INTERRUPT}
       /\ Halt
       /\ Servable(p, src) = {}

Send(p, d, b) ==
    /\ both[p] = NO_PROC /\ p # d
    /\ both' \in {both, [both EXCEPT ![p] = d]}
    /\ Offer(p, d, [source |-> p, type |-> b])
    /\ Runs(p)

Receive(p, src) ==
    /\ both[p] = NO_PROC /\ p # src
    /\ UNCHANGED both
    /\ Accept(p, src, [source |-> p, type |-> ZERO])
    /\ Runs(p)

ReceiveBoth(p) ==
    /\ both[p] # NO_PROC
    /\ both' = [both EXCEPT ![p] = NO_PROC]
    /\ Accept(p, both[p], [buf[p] EXCEPT !.source = p])
    /\ Runs(p)

Interrupt(p) ==
    /\ ~halted
    /\ UNCHANGED <<line, both, halted>>
    /\ IF waits[p] \in {ANY, INTERRUPT}
       THEN /\ buf' = [buf EXCEPT ![p] = [source |-> INTERRUPT, type |-> HARD_INT]]
            /\ waits' = [waits EXCEPT ![p] = NO_PROC]
            /\ UNCHANGED pending
       ELSE /\ pending' = [pending EXCEPT ![p] = TRUE]
            /\ UNCHANGED <<waits, buf>>

Next ==
    \/ \E p, d \in Proc, b \in Body : Send(p, d, b)
    \/ \E p \in Proc, src \in Proc \cup {ANY, INTERRUPT} : Receive(p, src)
    \/ \E p \in Proc : ReceiveBoth(p)
    \/ \E p \in IrqProc : Interrupt(p)

Spec == Init /\ [][Next]_vars
=============================================================================
