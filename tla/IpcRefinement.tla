---------------------------- MODULE IpcRefinement ----------------------------
(* Ipc implements Rendezvous: the kernel's list of senders is the line.      *)
EXTENDS Ipc, Naturals, FiniteSets

\* The processes blocked sending to d, in the order of the kernel's links.
ListOf(d) ==
    LET senders == {p \in Proc : Sends(p, d)}
        n == Cardinality(senders)
    IN  CHOOSE s \in [1 .. n -> senders] :
            /\ n > 0 => s[1] = q_sending[d]
            /\ \A i \in 1 .. n - 1 : next_sending[s[i]] = s[i + 1]

Abstract == INSTANCE Rendezvous WITH
    line <- [d \in Proc |-> ListOf(d)],
    waits <- p_recvfrom,
    pending <- has_int_msg,
    halted <- kernel # "running"

\* Every step of the kernel's message passing is a step of Rendezvous: each
\* message reaches the receiver that asked for it once and unchanged, senders to
\* one process are served first come, first served, and the machine stops only
\* for a circle of senders or a wait with an interrupt pending.
ImplementsRendezvous == Abstract!Spec
=============================================================================
