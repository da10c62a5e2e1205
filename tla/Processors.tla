----------------------------- MODULE Processors -----------------------------
(***************************************************************************)
(* What the entry and exit code of the kernel promises: every process, and *)
(* every activation of a kernel call or an interrupt handler, runs as if it*)
(* had a processor of its own.  Its registers change by its own steps, and *)
(* those of a process also by the answer to its own kernel call.           *)
(* Activations begin and end in the manner of a stack, and the process     *)
(* that runs is changed only when the last of them ends.                   *)
(***************************************************************************)
EXTENDS SequencesExt

CONSTANTS
    Proc,           \* the processes
    Fresh,          \* the registers an activation may begin with
    Answered(_)     \* the caller's registers, with the answer of its kernel call

VARIABLES
    regs,           \* the registers of each process
    running,        \* the process that runs, or called, or was interrupted
    acts            \* the registers of the activations, the innermost last

vars == <<regs, running, acts>>

Init ==
    /\ DOMAIN regs = Proc
    /\ running \in Proc
    /\ acts = <<>>

\* The running process computes: no other's registers change.
Compute ==
    /\ acts = <<>>
    /\ regs' = [regs EXCEPT ![running] = regs'[running]]
    /\ UNCHANGED <<running, acts>>

\* A handler, or the kernel call of the running process, begins.
Begin ==
    /\ Len(acts') = Len(acts) + 1
    /\ Front(acts') = acts /\ Last(acts') \in Fresh
    /\ UNCHANGED <<regs, running>>

InnermostWorks ==
    /\ acts # <<>>
    /\ Len(acts') = Len(acts) /\ Front(acts') = Front(acts)

Work == InnermostWorks /\ UNCHANGED <<regs, running>>

\* A kernel call stores its answer.
Answer ==
    /\ Len(acts) = 1 /\ InnermostWorks
    /\ regs' = [regs EXCEPT ![running] = Answered(@)]
    /\ UNCHANGED running

End ==
    /\ acts # <<>> /\ acts' = Front(acts)
    /\ running' \in IF Len(acts) = 1 THEN Proc ELSE {running}
    /\ UNCHANGED regs

Next == Compute \/ Begin \/ Work \/ Answer \/ End

Spec == Init /\ [][Next]_vars
=============================================================================
