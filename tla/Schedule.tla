------------------------------ MODULE Schedule ------------------------------
(***************************************************************************)
(* Which process runs: schedule() of src/kernel/proc.c, called by          *)
(* clock_handler (src/kernel/clock.c) and by block(), with the interrupts  *)
(* that may come between any two of its statements.                        *)
(*                                                                         *)
(* The code counts k_reenter to tell an interrupt of a process from one    *)
(* that nests: here `mode' says which code the interrupt comes upon.  The  *)
(* reasons to block are Ipc's; here a kernel call blocks or does not.      *)
(***************************************************************************)
EXTENDS Integers

CONSTANTS
    NrProcs,        \* NR_SYSU_PROCS + NR_USER_PROCS, the length of proc_table
    Priority,       \* p->priority
    IrqProc,        \* the processes an interrupt handler wakes
    NeverBlocks,    \* processes whose code makes no blocking call (sys_tty)
    MaxNested,      \* bound on the clock ticks that nest in one visit to the kernel
    MaxOverrun      \* bound on how far below zero p->ticks is told apart

Proc == 0 .. NrProcs - 1

ASSUME ScheduleAssumption ==
    /\ NrProcs \in Nat \ {0}
    /\ Priority \in [Proc -> Nat \ {0}]
    /\ IrqProc \subseteq Proc
    /\ NeverBlocks \subseteq Proc
    /\ MaxNested \in Nat
    /\ MaxOverrun \in Nat

VARIABLES
    ticks,          \* p->ticks
    runnable,       \* p->p_flags == 0
    p_proc_ready,   \* the process that runs, or runs next
    mode,           \* "user"; "call", a kernel call; "irq", another handler; or
                    \* inside schedule(): "scan", "choose", "recharge"
    by,             \* who called schedule(): "clock" or "block"
    p,              \* schedule()'s p
    greatest_ticks, \* schedule()'s greatest_ticks
    nested          \* clock ticks since this visit to the kernel began

local == <<by, p, greatest_ticks>>
vars == <<ticks, runnable, p_proc_ready, mode, local, nested>>

Init ==
    /\ ticks = Priority
    /\ runnable = [q \in Proc |-> TRUE]
    /\ p_proc_ready = 0
    /\ mode = "user"
    /\ by = "clock" /\ p = 0 /\ greatest_ticks = 0
    /\ nested = 0

InSchedule == mode \in {"scan", "choose", "recharge"}

-----------------------------------------------------------------------------
(* schedule() *)

\* for (p = &FIRST_PROC; ...): the loop at its beginning
Begin(m) == mode' = m /\ p' = 0
CallSchedule(who) == Begin("scan") /\ by' = who /\ greatest_ticks' = 0

Return == mode' = "user" /\ nested' = 0 /\ UNCHANGED <<by, p, greatest_ticks>>

\* p++ of either loop
AdvanceTwice == p + 2                       \* mutant: p++ twice a round
Advance == p + 1

\* The test of schedule()'s first loop
AnyGreater(q) == ticks[q] > greatest_ticks              \* mutant: p_flags not tested
AnyTicks(q) == runnable[q] /\ ticks[q] > 0              \* mutant: not the greatest
MoreThanOne(q) == runnable[q] /\ ticks[q] > greatest_ticks + 1  \* mutant: off by one
IsGreater(q) == runnable[q] /\ ticks[q] > greatest_ticks

\* One round of the first loop; behind it the outer loop decides.
Compare ==
    /\ mode = "scan"
    /\ \/ /\ p < NrProcs /\ IsGreater(p)
          /\ mode' = "choose"
          /\ UNCHANGED <<local, nested>>
       \/ /\ p < NrProcs /\ ~IsGreater(p)
          /\ p' = Advance
          /\ UNCHANGED <<mode, by, greatest_ticks, nested>>
       \/ /\ p = NrProcs /\ greatest_ticks = 0
          /\ Begin("recharge")
          /\ UNCHANGED <<by, greatest_ticks, nested>>
       \/ /\ p = NrProcs /\ greatest_ticks # 0
          /\ Return
    /\ UNCHANGED <<ticks, runnable, p_proc_ready>>

\* p->ticks is read again: a tick may have come since the comparison.
Choose ==
    /\ mode = "choose"
    /\ greatest_ticks' = ticks[p]
    /\ p_proc_ready' = p
    /\ p' = Advance
    /\ mode' = "scan"
    /\ UNCHANGED <<ticks, runnable, by, nested>>

\* One round of the second loop, then the first one again
Recharged(q) == IF runnable[q] THEN Priority[q] ELSE ticks[q]
Recharge ==
    /\ mode = "recharge"
    /\ IF p < NrProcs
       THEN /\ ticks' = [ticks EXCEPT ![p] = Recharged(p)]
            /\ p' = Advance
            /\ UNCHANGED mode
       ELSE Begin("scan") /\ UNCHANGED ticks
    /\ UNCHANGED <<runnable, p_proc_ready, by, greatest_ticks, nested>>

-----------------------------------------------------------------------------
(* Interrupts and kernel calls *)

\* p_proc_ready->ticks--, below zero no further than MaxOverrun
Spent == IF ticks[p_proc_ready] > -MaxOverrun THEN ticks[p_proc_ready] - 1
         ELSE ticks[p_proc_ready]
Spend == ticks' = [ticks EXCEPT ![p_proc_ready] = Spent]

\* clock_handler, when the clock interrupts a process: k_reenter is 0.
QuantumJustUsed == Spent = 0                \* mutant: misses a quantum overrun
QuantumUsed == Spent <= 0
ClockInUser ==
    /\ mode = "user"
    /\ Spend
    /\ IF QuantumUsed THEN CallSchedule("clock") ELSE UNCHANGED <<mode, local>>
    /\ UNCHANGED <<runnable, p_proc_ready, nested>>

\* clock_handler, when it nests in a kernel call or in another handler: it
\* counts the tick and returns.  It does not nest in itself (hwint_master masks
\* the line).
ClockInKernel ==
    /\ mode \in {"call", "irq"} \/ (InSchedule /\ by = "block")
    /\ nested < MaxNested
    /\ nested' = nested + 1
    /\ Spend
    /\ UNCHANGED <<runnable, p_proc_ready, mode, local>>

\* The handler of another interrupt, from user code: it may wake a process
\* (inform_int), and whoever ran goes on.
Irq ==
    /\ mode = "user"
    /\ mode' = "irq"
    /\ runnable' \in {runnable} \cup {[runnable EXCEPT ![q] = TRUE] : q \in IrqProc}
    /\ UNCHANGED <<ticks, p_proc_ready, local, nested>>

IrqReturn ==
    /\ mode = "irq"
    /\ Return
    /\ UNCHANGED <<ticks, runnable, p_proc_ready>>

\* The same handler, nested: in a kernel call or in schedule()
IrqInKernel ==
    /\ mode \in {"call", "irq"} \/ InSchedule
    /\ \E q \in IrqProc :
          ~runnable[q] /\ runnable' = [runnable EXCEPT ![q] = TRUE]
    /\ UNCHANGED <<ticks, p_proc_ready, mode, local, nested>>

\* A process calls the kernel, which then delivers its message and perhaps
\* wakes the other party, or blocks it.
Call ==
    /\ mode = "user"
    /\ mode' = "call"
    /\ UNCHANGED <<ticks, runnable, p_proc_ready, local, nested>>

CallReturns ==
    /\ mode = "call"
    /\ Return
    /\ runnable' \in {runnable} \cup {[runnable EXCEPT ![q] = TRUE] : q \in Proc}
    /\ UNCHANGED <<ticks, p_proc_ready>>

CallBlocks ==
    /\ mode = "call"
    /\ p_proc_ready \notin NeverBlocks
    /\ runnable' = [runnable EXCEPT ![p_proc_ready] = FALSE]
    /\ CallSchedule("block")
    /\ UNCHANGED <<ticks, p_proc_ready, nested>>

Kernel == Compare \/ Choose \/ Recharge \/ IrqReturn \/ CallReturns \/ CallBlocks

Next ==
    \/ Compare \/ Choose \/ Recharge
    \/ ClockInUser \/ ClockInKernel
    \/ Irq \/ IrqReturn \/ IrqInKernel
    \/ Call \/ CallReturns \/ CallBlocks

\* The kernel's code goes on until it returns; the clock keeps ticking, and not
\* every tick of a process that runs user code falls into the kernel.
Fairness == WF_vars(Kernel) /\ SF_vars(ClockInUser)

Spec == Init /\ [][Next]_vars /\ Fairness

-----------------------------------------------------------------------------
(* Properties *)

TypeOK ==
    /\ ticks \in [Proc -> Int]
    /\ runnable \in [Proc -> BOOLEAN]
    /\ p_proc_ready \in Proc
    /\ mode \in {"user", "call", "irq", "scan", "choose", "recharge"}
    /\ by \in {"clock", "block"}
    /\ p \in 0 .. NrProcs
    /\ greatest_ticks \in Int
    /\ nested \in Nat

\* restart (kernel.asm:281) never resumes a blocked process: whatever comes
\* during the scan, p_proc_ready is runnable when schedule() has returned.
RunsRunnable == ~InSchedule => runnable[p_proc_ready]

\* A waker that nests in the scan may come too late for its process to be seen.
Seen(q) == runnable[q] /\ q \notin IrqProc

\* schedule() picks a process with the most ticks left, but for the ticks that
\* nest in it.
GreatestChosen ==
    mode = "scan" /\ p = NrProcs /\ greatest_ticks # 0 =>
        \A q \in Proc : Seen(q) => ticks[q] <= ticks[p_proc_ready] + nested

\* No process gets a new quantum before every runnable one has used up its own.
RoundsAreFair ==
    [][mode = "scan" /\ mode' = "recharge" =>
          \A q \in Proc : Seen(q) => ticks[q] <= 0]_vars

\* Every runnable process gets the processor, whatever the others do with theirs.
NoStarvation == \A q \in Proc : runnable[q] ~> (p_proc_ready = q /\ ~InSchedule)
=============================================================================
