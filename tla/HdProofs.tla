------------------------------- MODULE HdProofs -------------------------------
(***************************************************************************)
(* Proofs about Hd, for requests, tables and opens of any number: each      *)
(* interrupt of the disk is consumed by the command it belongs to.          *)
(***************************************************************************)
EXTENDS Hd, TLAPS

AtReceive == pc \in {"check", "flag", "from", "block", "asleep"}
InLoop == AtReceive /\ call = "ANY"             \* sys_hd's RECEIVE
Awaiting == AtReceive /\ call = "INTERRUPT"     \* interrupt_wait
Quiet == ~irq /\ ~has_int_msg

ReqRecord ==
    [type : {"NONE", "HARD_INT", "DEV_OPEN", "DEV_CLOSE", "DEV_IOCTL", "DEV_READ",
             "DEV_WRITE"}, left : 0 .. MaxSectors]
DiskRecord ==
    [state : {"idle", "busy", "in", "out"}, cmd : {"IDENTIFY", "READ", "WRITE"},
     left : 0 .. MaxSectors, err : BOOLEAN]

\* TypeOK, in parts
TypedPlace ==
    /\ pc \in {"check", "flag", "from", "block", "asleep", "dispatch", "command",
               "read", "drq", "reply"} \cup Dead
    /\ call \in {"ANY", "INTERRUPT"}
    /\ receiving \in BOOLEAN /\ has_int_msg \in BOOLEAN
    /\ recvfrom \in {"ANY", "INTERRUPT", "NO_PROC"}
TypedReq == req \in ReqRecord
TypedWork ==
    /\ cmd \in {"IDENTIFY", "READ", "WRITE"}
    /\ tables \in 0 .. MaxTables /\ open_cnt \in 0 .. MaxOpen
    /\ hd_buf \in {"none", "fresh", "stale"}
    /\ queued \in Request \cup {NoReq}
TypedDisk == disk \in DiskRecord /\ irq \in BOOLEAN

\* The fields of HD in the process table, at each place of its RECEIVE
Flags ==
    /\ pc \notin {"from", "block", "asleep"} \cup Dead => ~receiving /\ recvfrom = "NO_PROC"
    /\ pc = "from" => receiving /\ recvfrom = "NO_PROC"
    /\ pc = "block" =>
        \/ receiving /\ recvfrom = call
        \/ ~receiving /\ recvfrom = "NO_PROC" /\ call = "INTERRUPT"
    /\ pc = "asleep" => receiving /\ recvfrom = call /\ ~has_int_msg

\* The client has one request out, in the queue or in hand.
OneRequest ==
    /\ req = NoReq <=> InLoop
    /\ queued # NoReq => InLoop
    /\ queued.type = "DEV_OPEN" => open_cnt < MaxOpen
    /\ queued.type = "DEV_CLOSE" => open_cnt > 0
    /\ pc = "dispatch" =>
        /\ req \in Request
        /\ req.type = "DEV_OPEN" => open_cnt < MaxOpen
        /\ req.type = "DEV_CLOSE" => open_cnt > 0

\* What is left to do, while there is a command to be given or at work
Working ==
    /\ pc \in {"command", "read", "drq"} \/ Awaiting =>
        /\ req.left >= 1
        /\ \/ req.type = "DEV_OPEN" /\ req.left = 1
              /\ \/ cmd = "IDENTIFY" /\ open_cnt < MaxOpen
                 \/ cmd = "READ" /\ tables >= 1
           \/ req.type = "DEV_READ" /\ cmd = "READ"
           \/ req.type = "DEV_WRITE" /\ cmd = "WRITE" /\ pc \in {"command", "drq"}
    /\ pc = "drq" => req.type = "DEV_WRITE"
    /\ pc # "spin"

\* The disk has a sector for what is left of the request, or has failed.
Delivered ==
    \/ disk.state = "in" /\ disk.left = req.left
    \/ disk.state = "idle" /\ disk.err

\* The disk and its interrupt, at each place of HD.  No interrupt is outstanding
\* unless HD waits for one, and then one at most.
Paired ==
    /\ InLoop \/ pc \in {"dispatch", "command", "reply"} =>
        Quiet /\ disk.state \in {"idle", "out"}
    /\ pc = "read" => Quiet /\ Delivered
    /\ pc = "drq" =>
        \/ disk.state = "busy" /\ disk.cmd = "WRITE" /\ Quiet
        \/ disk.state = "out" /\ Quiet
        \/ disk.state = "idle" /\ disk.err
    /\ Awaiting =>
        \/ disk.state = "busy" /\ disk.left = req.left /\ Quiet /\ (pc = "block" => receiving)
        \/ disk.state = "out" /\ Quiet /\ (pc = "block" => receiving)
        \/ /\ Delivered
           /\ ~(irq /\ has_int_msg)
           /\ pc = "block" /\ ~receiving => Quiet
           /\ disk.state = "in" => irq \/ has_int_msg \/ (pc = "block" /\ ~receiving)

IInv ==
    /\ TypedPlace /\ TypedReq /\ TypedWork /\ TypedDisk
    /\ Flags /\ OneRequest /\ Working /\ Paired /\ FreshData

-----------------------------------------------------------------------------
(* What a step does to the disk *)

\* The controller goes over to another state.
LEMMA DiskGoes ==
    ASSUME disk \in DiskRecord, NEW s \in {"idle", "busy", "in", "out"},
           disk' = [disk EXCEPT !.state = s]
    PROVE  /\ disk' \in DiskRecord /\ disk'.state = s
           /\ disk'.left = disk.left /\ disk'.err = disk.err
BY DEF DiskRecord

\* A command ends in an error.
LEMMA DiskFails ==
    ASSUME disk \in DiskRecord,
           disk' = [state |-> "idle", cmd |-> disk.cmd, left |-> 0, err |-> TRUE]
    PROVE  disk' \in DiskRecord /\ disk'.state = "idle" /\ disk'.err
<1>1. disk'.state = "idle" /\ disk'.err = TRUE
  BY Zenon
<1>2. 0 \in 0 .. MaxSectors /\ disk.cmd \in {"IDENTIFY", "READ", "WRITE"}
  BY HdAssumption DEF DiskRecord
<1>3. disk' \in DiskRecord
  BY <1>2, Zenon DEF DiskRecord
<1> QED BY <1>1, <1>3

\* The outcomes of a step of the disk.
LEMMA DiskMoves ==
    ASSUME disk \in DiskRecord, DiskStep
    PROVE  /\ disk' \in DiskRecord
           /\ disk.state = "busy" /\ UNCHANGED <<pc, driver, work, queued>>
           /\ \/ /\ disk.cmd # "WRITE" /\ disk'.state = "in" /\ irq' = TRUE
                 /\ disk'.left = disk.left /\ disk'.err = disk.err
              \/ /\ disk.cmd = "WRITE" /\ disk'.state = "out" /\ irq' = irq
                 /\ disk'.err = disk.err
              \/ disk'.state = "idle" /\ disk'.err /\ irq' = TRUE
<1>1. CASE disk.cmd # "WRITE" /\ disk' = [disk EXCEPT !.state = "in"] /\ irq' = TRUE
  <2>1. /\ disk' \in DiskRecord /\ disk'.state = "in"
        /\ disk'.left = disk.left /\ disk'.err = disk.err
    BY <1>1, DiskGoes
  <2> QED BY <1>1, <2>1, Zenon DEF DiskStep
<1>2. CASE disk.cmd = "WRITE" /\ disk' = [disk EXCEPT !.state = "out"] /\ UNCHANGED irq
  <2>1. /\ disk' \in DiskRecord /\ disk'.state = "out" /\ disk'.err = disk.err
    BY <1>2, DiskGoes
  <2> QED BY <1>2, <2>1, Zenon DEF DiskStep
<1>3. CASE /\ disk' = [state |-> "idle", cmd |-> disk.cmd, left |-> 0, err |-> TRUE]
           /\ irq' = TRUE
  <2>1. disk' \in DiskRecord /\ disk'.state = "idle" /\ disk'.err
    BY <1>3, DiskFails
  <2> QED BY <1>3, <2>1, Zenon DEF DiskStep
<1> QED BY <1>1, <1>2, <1>3, Zenon DEF DiskStep

\* port_read takes a sector the disk offers, and otherwise changes nothing.
LEMMA DiskReads ==
    ASSUME disk \in DiskRecord, disk.left >= 1, disk' = AfterPortRead
    PROVE  /\ disk' \in DiskRecord
           /\ disk.state # "in" => disk' = disk
           /\ disk.state = "in" =>
                /\ disk'.state = IF disk.left = 1 THEN "idle" ELSE "busy"
                /\ disk'.left = disk.left - 1
           /\ disk'.err = disk.err
<1>1. CASE disk.state # "in"
  BY <1>1 DEF AfterPortRead
<1>2. CASE disk.state = "in"
  <2> DEFINE s == IF disk.left = 1 THEN "idle" ELSE "busy"
             n == disk.left - 1
  <2>1. disk' = [disk EXCEPT !.state = s, !.left = n]
    BY <1>2 DEF AfterPortRead
  <2>2. s \in {"idle", "busy", "in", "out"} /\ n \in 0 .. MaxSectors
    BY HdAssumption DEF DiskRecord
  <2> HIDE DEF s, n
  <2>3. disk' \in DiskRecord /\ disk'.state = s /\ disk'.left = n /\ disk'.err = disk.err
    BY <2>1, <2>2 DEF DiskRecord
  <2> QED BY <1>2, <2>3 DEF s, n
<1> QED BY <1>1, <1>2

-----------------------------------------------------------------------------
(* Every step preserves IInv. *)

\* RECEIVE finds the interrupt already there, or goes on to sleep.
LEMMA CheckInv == IInv /\ Check => IInv'
<1> SUFFICES ASSUME IInv, Check PROVE IInv'
  OBVIOUS
<1>1. TypedPlace'
  BY DEF IInv, Check, ConsumeInt, Returned, TypedPlace
<1>2. TypedReq'
  BY HdAssumption DEF IInv, Check, Returned, HardInt, TypedReq, Request, ReqRecord,
     TypedWork
<1>3. TypedWork'
  BY DEF IInv, Check, TypedWork
<1>4. TypedDisk'
  BY DEF IInv, Check, TypedDisk
<1>5. Flags'
  BY DEF IInv, Check, Returned, Flags, Dead
<1>6. OneRequest'
  BY DEF IInv, Check, Returned, OneRequest, TypedPlace, TypedWork, Paired, AtReceive,
     InLoop, Quiet, NoReq
<1>7. Working'
  BY DEF IInv, Check, Returned, Working, Awaiting, AtReceive
<1>8. Paired'
  BY DEF IInv, Check, ConsumeInt, Returned, Paired, InLoop, Awaiting, AtReceive,
     Quiet, Delivered, TypedPlace
<1>9. FreshData'
  BY DEF IInv, Check, FreshData
<1> QED BY <1>1, <1>2, <1>3, <1>4, <1>5, <1>6, <1>7, <1>8, <1>9 DEF IInv

\* p_flags is set to RECEIVING.
LEMMA SetFlagInv == IInv /\ SetFlag => IInv'
<1> SUFFICES ASSUME IInv, SetFlag PROVE IInv'
  OBVIOUS
<1>1. TypedPlace'
  BY DEF IInv, SetFlag, TypedPlace
<1>2. TypedReq'
  BY DEF IInv, SetFlag, TypedReq, work
<1>3. TypedWork'
  BY DEF IInv, SetFlag, TypedWork, work
<1>4. TypedDisk'
  BY DEF IInv, SetFlag, TypedDisk
<1>5. Flags'
  BY DEF IInv, SetFlag, Flags, Dead
<1>6. OneRequest'
  BY DEF IInv, SetFlag, OneRequest, InLoop, AtReceive, work
<1>7. Working'
  BY DEF IInv, SetFlag, Working, Awaiting, AtReceive, work
<1>8. Paired'
  BY DEF IInv, SetFlag, Paired, InLoop, Awaiting, AtReceive, Quiet, Delivered, work
<1>9. FreshData'
  BY DEF IInv, SetFlag, FreshData, work
<1> QED BY <1>1, <1>2, <1>3, <1>4, <1>5, <1>6, <1>7, <1>8, <1>9 DEF IInv

\* p_recvfrom is set.
LEMMA SetFromInv == IInv /\ SetFrom => IInv'
<1> SUFFICES ASSUME IInv, SetFrom PROVE IInv'
  OBVIOUS
<1>1. TypedPlace'
  BY DEF IInv, SetFrom, TypedPlace
<1>2. TypedReq'
  BY DEF IInv, SetFrom, TypedReq, work
<1>3. TypedWork'
  BY DEF IInv, SetFrom, TypedWork, work
<1>4. TypedDisk'
  BY DEF IInv, SetFrom, TypedDisk
<1>5. Flags'
  BY DEF IInv, SetFrom, Flags
<1>6. OneRequest'
  BY DEF IInv, SetFrom, OneRequest, InLoop, AtReceive, work
<1>7. Working'
  BY DEF IInv, SetFrom, Working, Awaiting, AtReceive, work
<1>8. Paired'
  BY DEF IInv, SetFrom, Paired, Flags, work, AtReceive, InLoop, Awaiting, Quiet,
     Delivered
<1>9. FreshData'
  BY DEF IInv, SetFrom, FreshData, work
<1> QED BY <1>1, <1>2, <1>3, <1>4, <1>5, <1>6, <1>7, <1>8, <1>9 DEF IInv

\* block: the process sleeps, or the handler has woken it meanwhile.
LEMMA BlockInv == IInv /\ Block => IInv'
<1> SUFFICES ASSUME IInv, Block PROVE IInv'
  OBVIOUS
<1>1. TypedPlace'
  BY DEF IInv, Block, TypedPlace, Dead, driver
<1>2. TypedReq'
  BY DEF IInv, Block, TypedReq, work
<1>3. TypedWork'
  BY DEF IInv, Block, TypedWork, work
<1>4. TypedDisk'
  BY DEF IInv, Block, TypedDisk
<1>5. Flags'
  BY DEF IInv, Block, Flags, Dead, driver
<1>6. OneRequest'
  BY DEF IInv, Block, OneRequest, Flags, Paired, driver, work, AtReceive, InLoop,
     Quiet
<1>7. Working'
  BY DEF IInv, Block, Working, Awaiting, AtReceive, driver, work
<1>8. Paired'
  BY DEF IInv, Block, Paired, InLoop, Awaiting, AtReceive, Quiet, Delivered, driver,
     work
<1>9. FreshData'
  BY DEF IInv, Block, FreshData, work
<1> QED BY <1>1, <1>2, <1>3, <1>4, <1>5, <1>6, <1>7, <1>8, <1>9 DEF IInv

\* The interrupt wakes HD, or is remembered in has_int_msg.
LEMMA HdHandlerInv == IInv /\ HdHandler => IInv'
<1> SUFFICES ASSUME IInv, HdHandler PROVE IInv'
  OBVIOUS
<1>1. TypedPlace'
  BY DEF IInv, HdHandler, Returned, TypedPlace
<1>2. TypedReq'
  BY HdAssumption DEF IInv, HdHandler, Returned, HardInt, TypedReq, ReqRecord
<1>3. TypedWork'
  BY DEF IInv, HdHandler, TypedWork
<1>4. TypedDisk'
  BY DEF IInv, HdHandler, TypedDisk
<1>5. Flags'
  BY DEF IInv, HdHandler, Awaited, Returned, Flags, TypedPlace, Paired, AtReceive,
     InLoop, Quiet
<1>6. OneRequest'
  BY DEF IInv, HdHandler, Returned, OneRequest, TypedPlace, Paired, AtReceive, InLoop,
     Quiet
<1>7. Working'
  BY DEF IInv, HdHandler, Returned, Working, Awaiting, AtReceive
<1>8. Paired'
  BY DEF IInv, HdHandler, Awaited, Returned, Paired, Flags, AtReceive, InLoop,
     Awaiting, Quiet, Dead, Delivered
<1>9. FreshData'
  BY DEF IInv, HdHandler, FreshData
<1> QED BY <1>1, <1>2, <1>3, <1>4, <1>5, <1>6, <1>7, <1>8, <1>9 DEF IInv

\* The main loop takes the request up.
LEMMA DispatchInv == IInv /\ Dispatch => IInv'
<1> SUFFICES ASSUME IInv, Dispatch PROVE IInv'
  OBVIOUS
<1>1. TypedPlace'
  BY DEF IInv, Dispatch, TypedPlace, Dead, driver
<1>2. TypedReq'
  BY HdAssumption DEF IInv, Dispatch, TypedReq, ReqRecord
<1>3. TypedWork'
  BY HdAssumption DEF IInv, Dispatch, TypedWork, OneRequest
<1>4. TypedDisk'
  BY DEF IInv, Dispatch, TypedDisk
<1>5. Flags'
  BY DEF IInv, Dispatch, Flags, Dead, driver
<1>6. OneRequest'
  BY DEF IInv, Dispatch, OneRequest, InLoop, AtReceive, NoReq
<1>7. Working'
  BY DEF IInv, Dispatch, Working, OneRequest, AtReceive, Awaiting, Request
<1>8. Paired'
  BY DEF IInv, Dispatch, Paired, Awaiting, AtReceive, Quiet, driver
<1>9. FreshData'
  BY DEF IInv, Dispatch, FreshData
<1> QED BY <1>1, <1>2, <1>3, <1>4, <1>5, <1>6, <1>7, <1>8, <1>9 DEF IInv

\* waitfor fails before a command only while no command is at work.
LEMMA WaitforFailsInv == IInv /\ WaitforFails => IInv'
<1> SUFFICES ASSUME IInv, WaitforFails PROVE IInv'
  OBVIOUS
<1>1. TypedPlace'
  BY DEF IInv, WaitforFails, TypedPlace, Dead, driver
<1>2. TypedReq'
  BY DEF IInv, WaitforFails, TypedReq, work
<1>3. TypedWork'
  BY DEF IInv, WaitforFails, TypedWork, work
<1>4. TypedDisk'
  BY DEF IInv, WaitforFails, TypedDisk
<1>5. Flags'
  BY DEF IInv, WaitforFails, Flags, Dead
<1>6. OneRequest'
  BY DEF IInv, WaitforFails, OneRequest, InLoop, AtReceive, work
<1>7. Working'
  BY DEF IInv, WaitforFails, Working, Awaiting, AtReceive
<1>8. Paired'
  BY DEF IInv, WaitforFails, Paired, InLoop, Awaiting, AtReceive
<1>9. FreshData'
  BY DEF IInv, WaitforFails, FreshData, work
<1> QED BY <1>1, <1>2, <1>3, <1>4, <1>5, <1>6, <1>7, <1>8, <1>9 DEF IInv

\* A command goes out only when the disk is idle, or stuck in a write.
LEMMA CmdOutInv == IInv /\ CmdOut => IInv'
<1> SUFFICES ASSUME IInv, CmdOut PROVE IInv'
  OBVIOUS
<1>1. TypedPlace'
  BY DEF IInv, CmdOut, ThenWait, CallReceive, TypedPlace
<1>2. TypedReq'
  BY DEF IInv, CmdOut, TypedReq, work
<1>3. TypedWork'
  BY DEF IInv, CmdOut, TypedWork, work
<1>4. TypedDisk'
  BY DEF IInv, CmdOut, AfterCommand, Accepted, TypedDisk, DiskRecord, TypedReq,
     TypedWork, ReqRecord
<1>5. Flags'
  BY DEF IInv, CmdOut, ThenWait, CallReceive, Flags, Dead
<1>6. OneRequest'
  BY DEF IInv, CmdOut, ThenWait, CallReceive, OneRequest, InLoop, AtReceive, work
<1>7. Working'
  BY DEF IInv, CmdOut, ThenWait, CallReceive, Working, work
<1>8. Paired'
  BY DEF IInv, CmdOut, AfterCommand, Accepted, ThenWait, CallReceive, Paired, InLoop,
     AtReceive, Quiet, TypedDisk, work, DiskRecord
<1>9. FreshData'
  BY DEF IInv, CmdOut, AfterCommand, Accepted, FreshData, TypedDisk, work, DiskRecord
<1> QED BY <1>1, <1>2, <1>3, <1>4, <1>5, <1>6, <1>7, <1>8, <1>9 DEF IInv

\* The sector that is read belongs to the command, and only then.
LEMMA PortReadInv == IInv /\ PortRead => IInv'
<1> SUFFICES ASSUME IInv, PortRead PROVE IInv'
  OBVIOUS
<1>1. TypedPlace'
  BY DEF IInv, PortRead, Finished, NextTable, CallReceive, TypedPlace
<1>2. TypedReq'
  BY HdAssumption DEF IInv, PortRead, TypedReq, ReqRecord
<1>3. TypedWork'
  BY HdAssumption DEF IInv, PortRead, Finished, NextTable, TablesToGo, TypedWork,
     Working
<1>4. TypedDisk'
  <2>1. disk.state = "in" => disk.left >= 1
    BY DEF IInv, PortRead, Working, Paired, Delivered
  <2>2. disk \in DiskRecord /\ irq \in BOOLEAN /\ irq' = irq /\ disk' = AfterPortRead
    BY DEF IInv, TypedDisk, PortRead
  <2>3. CASE disk.state = "in"
    BY <2>1, <2>2, <2>3, DiskReads DEF TypedDisk
  <2>4. CASE disk.state # "in"
    BY <2>2, <2>4 DEF AfterPortRead, TypedDisk
  <2> QED BY <2>3, <2>4
<1>5. Flags'
  BY DEF IInv, PortRead, Finished, NextTable, CallReceive, Flags, Dead
<1>6. OneRequest'
  BY DEF IInv, PortRead, Finished, NextTable, CallReceive, OneRequest, Working,
     AtReceive, InLoop, NoReq
<1>7. Working'
  BY DEF IInv, PortRead, Finished, NextTable, TablesToGo, CallReceive, Working,
     Awaiting, AtReceive, TypedReq, TypedWork, ReqRecord
<1>8. Paired'
  BY DEF IInv, PortRead, AfterPortRead, Finished, NextTable, CallReceive, Paired,
     TypedReq, Working, AtReceive, InLoop, Awaiting, Quiet, Delivered, ReqRecord
<1>9. FreshData'
  BY DEF IInv, PortRead, AfterPortRead, FreshData, Paired, Delivered
<1> QED BY <1>1, <1>2, <1>3, <1>4, <1>5, <1>6, <1>7, <1>8, <1>9 DEF IInv

\* A write waits for the disk to ask for its sector.
LEMMA AwaitDrqInv == IInv /\ AwaitDrq => IInv'
<1> SUFFICES ASSUME IInv, AwaitDrq PROVE IInv'
  OBVIOUS
<1>1. TypedPlace'
  BY DEF IInv, AwaitDrq, TypedPlace, driver
<1>2. TypedReq'
  BY HdAssumption DEF IInv, AwaitDrq, TypedReq, Working, ReqRecord
<1>3. TypedWork'
  BY DEF IInv, AwaitDrq, TypedWork
<1>4. TypedDisk'
  BY DEF IInv, AwaitDrq, TypedDisk
<1>5. Flags'
  BY DEF IInv, AwaitDrq, Flags, Dead, driver
<1>6. OneRequest'
  BY DEF IInv, AwaitDrq, OneRequest, Working, AtReceive, InLoop, NoReq
<1>7. Working'
  BY DEF IInv, AwaitDrq, Working, Awaiting, AtReceive, TypedReq, ReqRecord
<1>8. Paired'
  BY DEF IInv, AwaitDrq, Paired, Quiet, driver
<1>9. FreshData'
  BY DEF IInv, AwaitDrq, FreshData
<1> QED BY <1>1, <1>2, <1>3, <1>4, <1>5, <1>6, <1>7, <1>8, <1>9 DEF IInv

\* The client gets its answer, and HD is back in its main loop.
LEMMA ReplyInv == IInv /\ Reply => IInv'
<1> SUFFICES ASSUME IInv, Reply PROVE IInv'
  OBVIOUS
<1>1. TypedPlace'
  BY DEF IInv, Reply, CallReceive, TypedPlace
<1>2. TypedReq'
  BY HdAssumption DEF IInv, Reply, TypedReq, NoReq, ReqRecord
<1>3. TypedWork'
  BY DEF IInv, Reply, TypedWork
<1>4. TypedDisk'
  BY DEF IInv, Reply, TypedDisk
<1>5. Flags'
  BY DEF IInv, Reply, CallReceive, Flags, Dead
<1>6. OneRequest'
  BY DEF IInv, Reply, CallReceive, OneRequest, InLoop, AtReceive
<1>7. Working'
  BY DEF IInv, Reply, CallReceive, Working, Awaiting
<1>8. Paired'
  BY DEF IInv, Reply, CallReceive, Paired, Awaiting, Quiet
<1>9. FreshData'
  BY DEF IInv, Reply, FreshData
<1> QED BY <1>1, <1>2, <1>3, <1>4, <1>5, <1>6, <1>7, <1>8, <1>9 DEF IInv

\* A client sends a request, to be taken now or queued.
LEMMA ClientSendInv == IInv /\ (\E r \in Request : ClientSend(r)) => IInv'
<1> SUFFICES ASSUME IInv, NEW r \in Request, ClientSend(r) PROVE IInv'
  OBVIOUS
<1>1. TypedPlace'
  BY DEF IInv, ClientSend, Returned, TypedPlace
<1>2. TypedReq'
  BY HdAssumption DEF IInv, ClientSend, Returned, TypedReq, Request, ReqRecord
<1>3. TypedWork'
  BY DEF IInv, ClientSend, TypedWork
<1>4. TypedDisk'
  BY DEF IInv, ClientSend, TypedDisk
<1>5. Flags'
  BY DEF IInv, ClientSend, Returned, Flags
<1>6. OneRequest'
  BY DEF IInv, ClientSend, Sensible, Returned, OneRequest, InLoop, AtReceive, Request,
     NoReq
<1>7. Working'
  BY DEF IInv, ClientSend, Returned, Working, Flags, AtReceive, Awaiting
<1>8. Paired'
  BY DEF IInv, ClientSend, Sensible, Returned, Paired, OneRequest, AtReceive, InLoop,
     Awaiting, Quiet
<1>9. FreshData'
  BY DEF IInv, ClientSend, FreshData
<1> QED BY <1>1, <1>2, <1>3, <1>4, <1>5, <1>6, <1>7, <1>8, <1>9 DEF IInv

\* The disk finishes what it has begun, or fails.
LEMMA DiskStepInv == IInv /\ DiskStep => IInv'
<1> SUFFICES ASSUME IInv, DiskStep PROVE IInv'
  OBVIOUS
<1>1. disk \in DiskRecord
  BY DEF IInv, TypedDisk
<1>a. /\ disk' \in DiskRecord
      /\ disk.state = "busy" /\ UNCHANGED <<pc, driver, work, queued>>
      /\ \/ /\ disk.cmd # "WRITE" /\ disk'.state = "in" /\ irq' = TRUE
            /\ disk'.left = disk.left /\ disk'.err = disk.err
         \/ /\ disk.cmd = "WRITE" /\ disk'.state = "out" /\ irq' = irq
            /\ disk'.err = disk.err
         \/ disk'.state = "idle" /\ disk'.err /\ irq' = TRUE
  BY <1>1, DiskMoves
<1>2. TypedPlace' /\ TypedReq' /\ TypedWork'
  BY <1>a DEF IInv, TypedPlace, TypedReq, TypedWork, driver, work
<1>3. TypedDisk'
  BY <1>a DEF IInv, TypedDisk
<1>4. Flags' /\ OneRequest' /\ Working'
  BY <1>a DEF IInv, Flags, OneRequest, Working, InLoop, Awaiting, AtReceive, driver, work
<1>5. Paired'
  BY <1>a DEF IInv, Paired, InLoop, Awaiting, AtReceive, Quiet, Delivered, driver, work
<1>6. FreshData'
  BY <1>a DEF IInv, FreshData, work
<1> QED BY <1>2, <1>3, <1>4, <1>5, <1>6 DEF IInv

\* At start HD is about to RECEIVE, the disk is idle and nothing is queued.
LEMMA InitInv == Init => IInv
<1> SUFFICES ASSUME Init PROVE IInv
  OBVIOUS
<1>1. 0 \in 0 .. MaxSectors /\ 0 \in 0 .. MaxTables /\ 0 \in 0 .. MaxOpen
  BY HdAssumption
<1>2. disk.state = "idle" /\ TypedDisk
  BY <1>1, Zenon DEF Init, DiskIdle, TypedDisk, DiskRecord
<1>3. TypedPlace /\ TypedReq /\ TypedWork /\ Flags /\ FreshData
  BY <1>1 DEF Init, TypedPlace, TypedReq, TypedWork, Flags, FreshData, ReqRecord, NoReq, Dead
<1>4. OneRequest
  BY DEF Init, OneRequest, InLoop, AtReceive, NoReq
<1>5. Working /\ Paired
  BY <1>2 DEF Init, Working, Paired, InLoop, Awaiting, AtReceive, Quiet
<1> QED BY <1>2, <1>3, <1>4, <1>5 DEF IInv

\* A stuttering step changes none of it.
LEMMA StutterInv == IInv /\ UNCHANGED vars => IInv'
BY DEF IInv, TypedPlace, TypedReq, TypedWork, TypedDisk, Flags, OneRequest, Working, Paired,
    FreshData, InLoop, Awaiting, AtReceive, Quiet, Delivered, vars, driver, work

-----------------------------------------------------------------------------
(* The theorems *)

\* The inductive invariant holds of every behaviour: the interrupt that HD waits
\* for is the one of the command it gave.
THEOREM Invariant == Spec => []IInv
<1>1. Init => IInv
  BY InitInv
<1>2. IInv /\ [Next]_vars => IInv'
  <2> SUFFICES ASSUME IInv, [Next]_vars PROVE IInv'
    OBVIOUS
  <2>1. CASE HdStep
    BY <2>1, CheckInv, SetFlagInv, SetFromInv, BlockInv, DispatchInv, CmdOutInv,
       WaitforFailsInv, PortReadInv, AwaitDrqInv, ReplyInv DEF HdStep
  <2>2. CASE HdHandler \/ DiskStep
    BY <2>2, HdHandlerInv, DiskStepInv
  <2>3. CASE \E r \in Request : ClientSend(r)
    BY <2>3, ClientSendInv
  <2>4. CASE UNCHANGED vars
    BY <2>4, StutterInv
  <2> QED BY <2>1, <2>2, <2>3, <2>4 DEF Next
<1> QED BY <1>1, <1>2, PTL DEF Spec

LEMMA InvTyped == IInv => TypeOK
BY DEF IInv, TypeOK, TypedPlace, TypedReq, TypedWork, TypedDisk, ReqRecord, DiskRecord

LEMMA InvFresh == IInv => FreshData
BY DEF IInv

LEMMA InvQuiet == IInv => MainLoopQuiet
BY DEF IInv, MainLoopQuiet, OneRequest, Working, Paired, InLoop, Quiet

LEMMA InvAsleep == IInv => AsleepForAReason
BY DEF IInv, AsleepForAReason, Paired, Flags, Awaiting, AtReceive, Delivered

\* Every variable of the driver, the request and the disk keeps its type: above
\* all, hd_open's count and the sectors left never leave their range.
THEOREM TypeCorrect == Spec => []TypeOK
BY Invariant, InvTyped, PTL

\* port_read (hd.c) only ever copies a sector the disk has ready for it, or the
\* command has failed: an early or a lost interrupt would make it read old data.
THEOREM SectorsAreFresh == Spec => []FreshData
BY Invariant, InvFresh, PTL

\* HD is in its main loop with no interrupt of the disk left over from the last
\* request, which the next RECEIVE(ANY) would take for a request.
THEOREM NoInterruptLeft == Spec => []MainLoopQuiet
BY Invariant, InvQuiet, PTL

\* HD asleep for an interrupt has a command at work, or the interrupt is on its way.
THEOREM SleepsForAReason == Spec => []AsleepForAReason
BY Invariant, InvAsleep, PTL

=============================================================================
