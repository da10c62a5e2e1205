---------------------------- MODULE ScheduleProofs ----------------------------
(***************************************************************************)
(* Proofs about Schedule, for any process table and any bounds: what       *)
(* schedule() has found out at each round of its loops, and from that the  *)
(* safety properties of the scheduler.                                     *)
(***************************************************************************)
EXTENDS Schedule, TLAPS

\* Every process the first loop has passed has no more ticks than the greatest
\* seen, or has none left.
PassedOver ==
    mode \in {"scan", "choose"} =>
        \A q \in Proc : q < p /\ Seen(q) => ticks[q] <= greatest_ticks \/ ticks[q] <= 0

\* The ticks that have nested since p_proc_ready was chosen account for what it
\* has lost.
ChosenIsReady ==
    InSchedule /\ greatest_ticks # 0 =>
        /\ mode # "recharge"
        /\ runnable[p_proc_ready]
        /\ p_proc_ready < p
        /\ greatest_ticks <= ticks[p_proc_ready] + nested
        /\ 0 <= greatest_ticks + nested
        /\ 0 <= ticks[p_proc_ready] + nested

\* Between the comparison of the first loop and the assignments behind it.
AboutToChoose ==
    mode = "choose" =>
        /\ p < NrProcs
        /\ runnable[p]
        /\ greatest_ticks # 0 => ticks[p] > greatest_ticks
        /\ greatest_ticks = 0 => ticks[p] + nested > 0

IInv ==
    TypeOK /\ RunsRunnable /\ PassedOver /\ ChosenIsReady /\ AboutToChoose

LEMMA TypeKept == TypeOK /\ RunsRunnable /\ AboutToChoose /\ [Next]_vars => TypeOK'
<1> SUFFICES ASSUME TypeOK, RunsRunnable, AboutToChoose, [Next]_vars PROVE TypeOK'
  OBVIOUS
<1> USE ScheduleAssumption DEF TypeOK, Proc
<1>1. CASE Compare
  BY <1>1 DEF Compare, Begin, Return, Advance, local
<1>2. CASE Choose
  BY <1>2 DEF Choose, Advance, AboutToChoose
<1>3. CASE Recharge
  <2>1. CASE p < NrProcs
    BY <1>3, <2>1 DEF Recharge, Advance, Recharged
  <2>2. CASE ~(p < NrProcs)
    BY <1>3, <2>2 DEF Recharge, Begin
  <2> QED
    BY <2>1, <2>2
<1>4. CASE ClockInUser
  <2>1. ticks' \in [Proc -> Int]
    BY <1>4 DEF ClockInUser, Spend, Spent
  <2> QED
    BY <1>4, <2>1 DEF ClockInUser, CallSchedule, Begin, local
<1>5. CASE ClockInKernel
  BY <1>5 DEF ClockInKernel, Spend, Spent, local
<1>6. CASE Irq \/ IrqInKernel
  BY <1>6 DEF Irq, IrqInKernel, local
<1>7. CASE IrqReturn
  BY <1>7 DEF IrqReturn, Return
<1>8. CASE Call
  BY <1>8 DEF Call, local
<1>9. CASE CallReturns
  BY <1>9 DEF CallReturns, Return
<1>10. CASE CallBlocks
  BY <1>10 DEF CallBlocks, CallSchedule, Begin
<1>11. CASE UNCHANGED vars
  BY <1>11 DEF vars, local
<1> QED
  BY <1>1, <1>2, <1>3, <1>4, <1>5, <1>6, <1>7, <1>8, <1>9, <1>10, <1>11 DEF Next

LEMMA InitHolds == Init => IInv
BY ScheduleAssumption
DEF Init, IInv, TypeOK, RunsRunnable, PassedOver, ChosenIsReady, AboutToChoose,
    InSchedule, Proc

\* A clock tick takes one off the ticks of p_proc_ready, or nothing.
LEMMA SpendsOne ==
    ASSUME TypeOK, Spend
    PROVE  \A q \in Proc :
               /\ q # p_proc_ready => ticks'[q] = ticks[q]
               /\ ticks'[q] \in Int /\ ticks[q] - 1 <= ticks'[q] /\ ticks'[q] <= ticks[q]
BY ScheduleAssumption DEF TypeOK, Spend, Spent, Proc

LEMMA NextKeeps == IInv /\ [Next]_vars => IInv'
<1> SUFFICES ASSUME IInv, [Next]_vars PROVE IInv'
  OBVIOUS
<1>0. TypeOK'
  BY TypeKept DEF IInv
<1> DEFINE Rest == RunsRunnable /\ PassedOver /\ ChosenIsReady /\ AboutToChoose
<1> SUFFICES Rest'
  BY <1>0 DEF IInv
<1> USE ScheduleAssumption
    DEF IInv, TypeOK, RunsRunnable, PassedOver, ChosenIsReady, AboutToChoose,
        InSchedule, Seen, Proc, local
<1>1. CASE Compare
  <2>1. CASE p < NrProcs /\ IsGreater(p)
    BY <1>1, <2>1 DEF Compare, IsGreater
  <2>2. CASE p < NrProcs /\ ~IsGreater(p)
    <3>1. /\ mode = "scan" /\ p' = p + 1
          /\ UNCHANGED <<mode, greatest_ticks, nested, ticks, runnable, p_proc_ready>>
      BY <1>1, <2>2 DEF Compare, Advance
    <3>2. runnable[p] => ticks[p] <= greatest_ticks
      BY <2>2 DEF IsGreater
    <3>3. ASSUME NEW q \in Proc, q < p', Seen(q)
          PROVE  ticks[q] <= greatest_ticks \/ ticks[q] <= 0
      <4>1. CASE q = p
        BY <4>1, <3>2, <3>3
      <4>2. CASE q < p
        BY <4>2, <3>1, <3>3
      <4> QED
        BY <4>1, <4>2, <3>1, <3>3
    <3>4. PassedOver'
      BY <3>1, <3>3
    <3> QED
      BY <3>1, <3>4
  <2>3. CASE p = NrProcs /\ greatest_ticks = 0
    BY <1>1, <2>3 DEF Compare, Begin
  <2>4. CASE p = NrProcs /\ greatest_ticks # 0
    BY <1>1, <2>4 DEF Compare, Return
  <2> QED
    BY <2>1, <2>2, <2>3, <2>4
<1>2. CASE Choose
  <2>1. /\ mode = "choose" /\ mode' = "scan" /\ p_proc_ready' = p /\ p' = p + 1
        /\ greatest_ticks' = ticks[p] /\ p \in Proc
        /\ UNCHANGED <<ticks, runnable, nested>>
    BY <1>2 DEF Choose, Advance
  <2>2. 0 <= ticks[p] + nested
    BY <2>1
  <2>3. PassedOver'
    BY <2>1
  <2> QED
    BY <2>1, <2>2, <2>3
<1>3. CASE Recharge
  BY <1>3 DEF Recharge, Begin
<1>4. CASE ClockInUser
  BY <1>4 DEF ClockInUser, CallSchedule, Begin
<1>5. CASE ClockInKernel
  <2> HIDE DEF Proc, TypeOK
  <2>0. /\ greatest_ticks \in Int /\ nested \in Nat /\ p_proc_ready \in Proc
        /\ \A q \in Proc : ticks[q] \in Int
    BY DEF TypeOK
  <2>1. nested' = nested + 1 /\ UNCHANGED <<runnable, p_proc_ready, mode, p, greatest_ticks>>
    BY <1>5 DEF ClockInKernel
  <2>2. \A q \in Proc :
            /\ q # p_proc_ready => ticks'[q] = ticks[q]
            /\ ticks'[q] \in Int /\ ticks[q] - 1 <= ticks'[q] /\ ticks'[q] <= ticks[q]
    BY <1>5, SpendsOne DEF ClockInKernel
  <2>3. RunsRunnable'
    BY <2>1
  <2>4. PassedOver'
    <3> SUFFICES ASSUME mode \in {"scan", "choose"}, NEW q \in Proc, q < p, Seen(q)
                 PROVE  ticks'[q] <= greatest_ticks \/ ticks'[q] <= 0
      BY <2>1
    <3>1. ticks[q] <= greatest_ticks \/ ticks[q] <= 0
      OBVIOUS
    <3> QED
      BY <3>1, <2>0, <2>2
  <2>5. ChosenIsReady'
    BY <2>0, <2>1, <2>2
  <2>6. AboutToChoose'
    <3> SUFFICES ASSUME mode = "choose" PROVE AboutToChoose'
      BY <2>1
    <3>1. p \in Proc /\ p < NrProcs /\ runnable[p]
      BY DEF TypeOK, Proc
    <3>2. greatest_ticks # 0 => ticks'[p] > greatest_ticks
      <4>1. greatest_ticks # 0 => p_proc_ready # p
        BY <2>0 DEF Proc
      <4> QED
        BY <3>1, <4>1, <2>0, <2>2
    <3>3. greatest_ticks = 0 => ticks'[p] + nested' > 0
      BY <3>1, <2>0, <2>1, <2>2
    <3> QED
      BY <3>1, <3>2, <3>3, <2>1
  <2> QED
    BY <2>3, <2>4, <2>5, <2>6
<1>6. CASE Irq
  BY <1>6 DEF Irq
<1>7. CASE IrqReturn
  BY <1>7 DEF IrqReturn, Return
<1>8. CASE IrqInKernel
  BY <1>8 DEF IrqInKernel
<1>9. CASE Call
  BY <1>9 DEF Call
<1>10. CASE CallReturns
  BY <1>10 DEF CallReturns, Return
<1>11. CASE CallBlocks
  BY <1>11 DEF CallBlocks, CallSchedule, Begin
<1>12. CASE UNCHANGED vars
  BY <1>12 DEF vars
<1> QED
  BY <1>1, <1>2, <1>3, <1>4, <1>5, <1>6, <1>7, <1>8, <1>9, <1>10, <1>11, <1>12 DEF Next

THEOREM Invariant == Spec => []IInv
BY InitHolds, NextKeeps, PTL DEF Spec

\* The scheduler's variables keep their types; p never passes the end of the
\* process table.
THEOREM TypeCorrect == Spec => []TypeOK
<1>1. IInv => TypeOK
  BY DEF IInv
<1> QED
  BY <1>1, Invariant, PTL

\* schedule() returns with a runnable process in p_proc_ready, whatever ticks
\* and wakes nest in it (proc.c:24-52, kernel.asm:281).
THEOREM RunnableResumed == Spec => []RunsRunnable
<1>1. IInv => RunsRunnable
  BY DEF IInv
<1> QED
  BY <1>1, Invariant, PTL

\* schedule() picks a process with the most ticks left, but for those that
\* nested in it.
THEOREM MostTicksChosen == Spec => []GreatestChosen
<1>1. IInv => GreatestChosen
  BY DEF IInv, TypeOK, GreatestChosen, PassedOver, ChosenIsReady, InSchedule, Proc
<1> QED
  BY <1>1, Invariant, PTL

\* Quanta are handed out again only when every runnable process has used up its
\* own, but for one an interrupt woke behind the scan.
THEOREM FairRounds == Spec => RoundsAreFair
<1>1. IInv /\ [Next]_vars =>
        [mode = "scan" /\ mode' = "recharge" =>
            \A q \in Proc : Seen(q) => ticks[q] <= 0]_vars
  <2> SUFFICES ASSUME IInv, [Next]_vars, mode = "scan", mode' = "recharge",
                      NEW q \in Proc, Seen(q)
               PROVE  ticks[q] <= 0
    OBVIOUS
  <2>1. p = NrProcs /\ greatest_ticks = 0
    BY DEF Next, Compare, Choose, Recharge, ClockInUser, ClockInKernel, Irq, IrqReturn,
           IrqInKernel, Call, CallReturns, CallBlocks, Return, vars, local
  <2> QED
    BY <2>1 DEF IInv, TypeOK, PassedOver, Proc
<1> QED
  BY <1>1, Invariant, PTL DEF Spec, RoundsAreFair
=============================================================================
