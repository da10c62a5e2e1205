--------------------------------- MODULE Hd ---------------------------------
(***************************************************************************)
(* The disk driver, the process HD of src/kernel/hd.c, against the disk,   *)
(* its interrupt handler and a client that sends requests one at a time.   *)
(*                                                                         *)
(* Kernel calls run with interrupts on, so hd_handler may come between any *)
(* two statements of the RECEIVE that HD is executing: that call is split  *)
(* here (proc.c:314, 400, 402, 404-408), while Ipc takes it in one step.   *)
(* No other process runs while HD is inside the call: clock_handler does   *)
(* not switch processes then.                                              *)
(*                                                                         *)
(* Sectors are counted, not stored.  A request's CNT is a whole number of  *)
(* sectors, as every caller of rw_sector has it.                           *)
(***************************************************************************)
EXTENDS Naturals

CONSTANTS
    MaxSectors,     \* bound on the sectors of one DEV_READ or DEV_WRITE
    MaxTables,      \* bound on the partition tables one DEV_OPEN reads
    MaxOpen         \* bound on open_cnt

ASSUME HdAssumption ==
    MaxSectors \in Nat \ {0} /\ MaxTables \in Nat \ {0} /\ MaxOpen \in Nat \ {0}

VARIABLES
    pc,             \* where HD is, or how it ended
    call,           \* the source HD's current RECEIVE asks for
    receiving,      \* p_flags & RECEIVING of HD
    recvfrom,       \* p_recvfrom of HD
    has_int_msg,    \* has_int_msg of HD
    req,            \* the request HD serves: its type, and the sectors to go
    cmd,            \* the command of hd_cmd_out: "IDENTIFY", "READ" or "WRITE"
    tables,         \* partition tables partition() has yet to read
    open_cnt,       \* hd_info[0].open_cnt
    hd_buf,         \* what hd_buf holds: "none", "fresh" or "stale" data
    queued,         \* the client's request waiting to be received, or NoReq
    disk,           \* the disk: [state, cmd, left, err]
    irq             \* the disk's interrupt request, not handled yet

driver == <<call, receiving, recvfrom, has_int_msg>>
work == <<req, cmd, tables, open_cnt, hd_buf>>
vars == <<pc, driver, work, queued, disk, irq>>

NoReq == [type |-> "NONE", left |-> 0]
Request ==
    [type : {"DEV_READ", "DEV_WRITE"}, left : 1 .. MaxSectors]
    \cup [type : {"DEV_OPEN", "DEV_CLOSE", "DEV_IOCTL"}, left : {0}]

\* The message inform_int and msg_receive make of an interrupt.
HardInt == [type |-> "HARD_INT", left |-> 0]

\* states of the disk: "idle", "busy", "in" (a sector to be read, DRQ), "out" (it
\* wants a sector, DRQ)
DiskIdle == [state |-> "idle", cmd |-> "IDENTIFY", left |-> 0, err |-> FALSE]

Init ==
    /\ pc = "check" /\ call = "ANY"
    /\ receiving = FALSE /\ recvfrom = "NO_PROC" /\ has_int_msg = FALSE
    /\ req = NoReq /\ cmd = "IDENTIFY" /\ tables = 0 /\ open_cnt = 0 /\ hd_buf = "none"
    /\ queued = NoReq
    /\ disk = DiskIdle /\ irq = FALSE

\* HD is between the statements of its RECEIVE, or has stopped for good: panic,
\* spin or a failed assertion.
InCall == pc \in {"flag", "from", "block"}
Dead == {"panic", "spin", "assert p_flags", "assert has_int_msg", "assert in get_ticks"}

-----------------------------------------------------------------------------
(* HD's RECEIVE, statement by statement *)

\* send_recv(RECEIVE, src, &msg)
CallReceive(src) == pc' = "check" /\ call' = src

\* The call has returned with the message m.
Returned(m) ==
    IF call = "INTERRUPT" THEN pc' = "read" /\ UNCHANGED req
    ELSE pc' = "dispatch" /\ req' = m

\* msg_receive has taken the pending interrupt.
KeepInt == UNCHANGED has_int_msg            \* mutant: has_int_msg is not cleared
ConsumeInt == has_int_msg' = FALSE

\* proc.c:314: an interrupt that has already come, then :331: a queued sender
Check ==
    /\ pc = "check"
    /\ \/ /\ has_int_msg
          /\ ConsumeInt
          /\ Returned(HardInt)
          /\ UNCHANGED queued
       \/ /\ ~has_int_msg /\ call = "ANY" /\ queued # NoReq
          /\ Returned(queued)
          /\ queued' = NoReq
          /\ UNCHANGED has_int_msg
       \/ /\ ~has_int_msg /\ ~(call = "ANY" /\ queued # NoReq)
          /\ pc' = "flag"
          /\ UNCHANGED <<has_int_msg, req, queued>>
    /\ UNCHANGED <<call, receiving, recvfrom, cmd, tables, open_cnt, hd_buf, disk, irq>>

\* proc.c:400
SetFlag ==
    /\ pc = "flag"
    /\ receiving' = TRUE
    /\ pc' = "from"
    /\ UNCHANGED <<call, recvfrom, has_int_msg, work, queued, disk, irq>>

\* proc.c:402; inform_int looks at p_msg only once p_recvfrom is set.
SetFrom ==
    /\ pc = "from"
    /\ recvfrom' = call
    /\ pc' = "block"
    /\ UNCHANGED <<call, receiving, has_int_msg, work, queued, disk, irq>>

\* The assertions of block() and of msg_receive behind it, the last one apart.
Block ==
    /\ pc = "block"
    /\ pc' = CASE ~receiving -> "assert p_flags"
               [] receiving /\ has_int_msg -> "assert has_int_msg"
               [] OTHER -> "asleep"
    /\ UNCHANGED <<driver, work, queued, disk, irq>>

\* The test of inform_int
AwaitedByAny == receiving /\ recvfrom = "ANY"   \* mutant: INTERRUPT forgotten
Awaited == receiving /\ recvfrom \in {"INTERRUPT", "ANY"}

\* hd_handler: it reads the status register, which takes the request back, and
\* informs HD.
HdHandler ==
    /\ irq
    /\ irq' = FALSE
    /\ IF Awaited
       THEN /\ receiving' = FALSE /\ recvfrom' = "NO_PROC" /\ has_int_msg' = FALSE
            /\ IF pc = "asleep" THEN Returned(HardInt) ELSE UNCHANGED <<pc, req>>
       ELSE has_int_msg' = TRUE /\ UNCHANGED <<pc, req, receiving, recvfrom>>
    /\ UNCHANGED <<call, cmd, tables, open_cnt, hd_buf, queued, disk>>

-----------------------------------------------------------------------------
(* The main loop and the requests *)

\* sys_hd: what it does with the message it has received.  It has no case for
\* the message of an interrupt.
Dispatch ==
    /\ pc = "dispatch"
    /\ \/ /\ req.type = "DEV_OPEN"              \* hd_open: hd_identify
          /\ cmd' = "IDENTIFY" /\ req' = [req EXCEPT !.left = 1]
          /\ pc' = "command"
          /\ UNCHANGED open_cnt
       \/ /\ req.type \in {"DEV_READ", "DEV_WRITE"}     \* hd_rdwt
          /\ cmd' = IF req.type = "DEV_READ" THEN "READ" ELSE "WRITE"
          /\ pc' = "command"
          /\ UNCHANGED <<req, open_cnt>>
       \/ /\ req.type = "DEV_CLOSE"             \* hd_close
          /\ open_cnt' = open_cnt - 1
          /\ pc' = "reply"
          /\ UNCHANGED <<req, cmd>>
       \/ /\ req.type = "DEV_IOCTL"             \* hd_ioctl
          /\ pc' = "reply"
          /\ UNCHANGED <<req, cmd, open_cnt>>
       \/ /\ req.type = "HARD_INT"
          /\ pc' = "spin"
          /\ UNCHANGED <<req, cmd, open_cnt>>
    /\ UNCHANGED <<driver, tables, hd_buf, queued, disk, irq>>

\* waitfor gives up after HD_TIMEOUT, and its callers panic.  Its get_ticks asks
\* the process SYS for the time: with an interrupt pending, that RECEIVE fails
\* the last assertion of msg_receive when SYS has not answered yet.
WaitforFails ==
    /\ pc \in {"command", "drq"}
    /\ \/ pc' = "panic"
       \/ has_int_msg /\ pc' = "assert in get_ticks"
    /\ UNCHANGED <<driver, work, queued, disk, irq>>

\* What the disk makes of a command.  The ATA standard leaves it open when the
\* disk still wants the data of a write.
Accepted == [disk EXCEPT !.state = "busy", !.cmd = cmd, !.left = req.left]
AfterCommand == IF disk.state = "idle" THEN {Accepted} ELSE {Accepted, disk}

\* After hd_cmd_out its callers go on with interrupt_wait, or with
\* waitfor(STATUS_DRQ) for a write.
ThenReadNow ==                              \* mutant: no interrupt_wait
    pc' = (IF cmd = "WRITE" THEN "drq" ELSE "read") /\ UNCHANGED call
ThenWait ==
    IF cmd = "WRITE" THEN pc' = "drq" /\ UNCHANGED call ELSE CallReceive("INTERRUPT")

\* hd_cmd_out: waitfor(STATUS_BSY, 0), then the registers
CmdOut ==
    /\ pc = "command"
    /\ disk.state # "busy"
    /\ disk' \in AfterCommand
    /\ ThenWait
    /\ UNCHANGED <<receiving, recvfrom, has_int_msg, work, queued, irq>>

\* The disk after HD has read a sector from its data register
AfterPortRead ==
    IF disk.state # "in" THEN disk
    ELSE [disk EXCEPT !.state = IF disk.left = 1 THEN "idle" ELSE "busy",
                      !.left = @ - 1]

\* The command's last sector is there: hd_open goes on to partition() the first
\* time, which reads its tables one get_part_table at a time.  The disk has a partition:
\* the assertion of hd.c:214, which fails without one, is Partition's.
NextForever(n) ==                           \* mutant: the loop has no end
    tables' = n /\ pc' = "command" /\ cmd' = "READ"
NextTable(n) ==
    /\ tables' = n
    /\ IF n = 0 THEN pc' = "reply" /\ UNCHANGED cmd
                ELSE pc' = "command" /\ cmd' = "READ"
TablesLeft == tables                        \* mutant: the tables are not counted
TablesToGo == tables - 1
Finished ==
    IF req.type # "DEV_OPEN"
    THEN pc' = "reply" /\ UNCHANGED <<cmd, tables, open_cnt>>
    ELSE IF cmd = "IDENTIFY"
    THEN /\ open_cnt' = open_cnt + 1
         /\ \E n \in 0 .. MaxTables : (n = 0 <=> open_cnt # 0) /\ NextTable(n)
    ELSE NextTable(TablesToGo) /\ UNCHANGED open_cnt

\* port_read after interrupt_wait, in hd_identify, get_part_table and hd_rdwt
PortRead ==
    /\ pc = "read"
    /\ hd_buf' = IF disk.state = "in" THEN "fresh" ELSE "stale"
    /\ disk' = AfterPortRead
    /\ IF req.left > 1
       THEN /\ CallReceive("INTERRUPT")
            /\ req' = [req EXCEPT !.left = @ - 1]
            /\ UNCHANGED <<cmd, tables, open_cnt>>
       ELSE /\ Finished
            /\ req' = IF req.type = "DEV_OPEN" THEN req ELSE [req EXCEPT !.left = 0]
            /\ UNCHANGED call
    /\ UNCHANGED <<receiving, recvfrom, has_int_msg, queued, irq>>

\* One round of hd_rdwt's loop for a write: it waits until the disk wants the
\* sector (no port_write follows).
AwaitDrq ==
    /\ pc = "drq"
    /\ disk.state \in {"in", "out"}
    /\ req' = [req EXCEPT !.left = @ - 1]
    /\ pc' = IF req.left > 1 THEN "drq" ELSE "reply"
    /\ UNCHANGED <<driver, cmd, tables, open_cnt, hd_buf, queued, disk, irq>>

\* send_recv(SEND, src, &msg), which the client is waiting for, and round again
Reply ==
    /\ pc = "reply"
    /\ req' = NoReq
    /\ CallReceive("ANY")
    /\ UNCHANGED <<receiving, recvfrom, has_int_msg, cmd, tables, open_cnt, hd_buf,
                   queued, disk, irq>>

-----------------------------------------------------------------------------
(* The client and the disk *)

\* The client opens before it closes, and has one request out at a time
\* (send_recv(BOTH)).
Sensible(r) ==
    /\ req = NoReq /\ queued = NoReq
    /\ r.type = "DEV_OPEN" => open_cnt < MaxOpen
    /\ r.type = "DEV_CLOSE" => open_cnt > 0

ClientSend(r) ==
    /\ Sensible(r)
    /\ ~InCall /\ pc \notin Dead
    /\ IF receiving /\ recvfrom = "ANY"
       THEN /\ receiving' = FALSE /\ recvfrom' = "NO_PROC"
            /\ Returned(r)
            /\ UNCHANGED queued
       ELSE queued' = r /\ UNCHANGED <<receiving, recvfrom, pc, req>>
    /\ UNCHANGED <<call, has_int_msg, cmd, tables, open_cnt, hd_buf, disk, irq>>

\* A busy disk has a sector ready and asks for an interrupt, or is ready to be
\* given one, which it does not announce for the first sector of a write; or the
\* command fails, and it asks for an interrupt.
DiskStep ==
    /\ disk.state = "busy"
    /\ \/ /\ disk.cmd # "WRITE"
          /\ disk' = [disk EXCEPT !.state = "in"]
          /\ irq' = TRUE
       \/ /\ disk.cmd = "WRITE"
          /\ disk' = [disk EXCEPT !.state = "out"]
          /\ UNCHANGED irq
       \/ /\ disk' = [state |-> "idle", cmd |-> disk.cmd, left |-> 0, err |-> TRUE]
          /\ irq' = TRUE
    /\ UNCHANGED <<pc, driver, work, queued>>

HdStep ==
    \/ Check \/ SetFlag \/ SetFrom \/ Block
    \/ Dispatch \/ CmdOut \/ WaitforFails \/ PortRead \/ AwaitDrq \/ Reply

Next ==
    \/ HdStep
    \/ HdHandler
    \/ DiskStep
    \/ \E r \in Request : ClientSend(r)

\* HD runs when it can (Schedule), the interrupt controller delivers a request
\* once interrupts are on, and the disk finishes what it has begun.
Fairness ==
    /\ WF_vars(HdStep)
    /\ WF_vars(HdHandler)
    /\ WF_vars(DiskStep)

Spec == Init /\ [][Next]_vars /\ Fairness

-----------------------------------------------------------------------------
(* Properties *)

TypeOK ==
    /\ pc \in {"check", "flag", "from", "block", "asleep", "dispatch", "command",
               "read", "drq", "reply"} \cup Dead
    /\ call \in {"ANY", "INTERRUPT"}
    /\ receiving \in BOOLEAN /\ has_int_msg \in BOOLEAN
    /\ recvfrom \in {"ANY", "INTERRUPT", "NO_PROC"}
    /\ req \in [type : {"NONE", "HARD_INT", "DEV_OPEN", "DEV_CLOSE", "DEV_IOCTL",
                        "DEV_READ", "DEV_WRITE"}, left : 0 .. MaxSectors]
    /\ cmd \in {"IDENTIFY", "READ", "WRITE"}
    /\ tables \in 0 .. MaxTables /\ open_cnt \in 0 .. MaxOpen
    /\ hd_buf \in {"none", "fresh", "stale"}
    /\ queued \in Request \cup {NoReq}
    /\ disk \in [state : {"idle", "busy", "in", "out"}, cmd : {"IDENTIFY", "READ", "WRITE"},
                 left : 0 .. MaxSectors, err : BOOLEAN]
    /\ irq \in BOOLEAN

\* HD never takes the data register for a sector the disk has not delivered:
\* each interrupt_wait returns for the interrupt of its own command
\* (hd.c:100-101, 252-253, 319-320).  The driver does not look at hd_status, so
\* after a failed command it does.
FreshData == hd_buf = "stale" => disk.err

\* When HD is back in its main loop every interrupt of its commands has been
\* consumed: RECEIVE ANY (hd.c:44) never returns one, which the loop could only
\* answer by spinning, and none can race the client's msg_send.
MainLoopQuiet ==
    /\ req = NoReq => ~irq /\ ~has_int_msg
    /\ pc # "spin"

\* No wake-up is lost unnoticed: while HD sleeps in interrupt_wait an interrupt is
\* on its way, unless the disk failed or still wants the data of an earlier write.
AsleepForAReason ==
    pc = "asleep" /\ call = "INTERRUPT" =>
        irq \/ disk.state = "busy" \/ disk.err \/ disk.state = "out"

\* An open or a read is answered, unless the machine stops, the disk fails, or
\* it still waits for the data of an earlier write.
Answered ==
    (req.type \in {"DEV_OPEN", "DEV_READ"}) ~>
        (req = NoReq \/ pc \in Dead \/ disk.err \/ disk.state = "out")

\* The assertions behind HD's block(): p_flags is RECEIVING (proc.c:241, 404) and
\* has_int_msg is 0 (proc.c:408).  An interrupt between line 402 and the
\* assertions clears the flag; one between lines 314 and 402 stays pending while
\* HD goes to sleep waiting for it.
AssertionsHold == pc \notin {"assert p_flags", "assert has_int_msg"}

\* fs.h:110-114, "WRITE_SECT ... write a sector": once HD has answered a write
\* the disk has its sectors.
WriteReachesDisk == pc = "reply" /\ req.type = "DEV_WRITE" => disk.state # "out"
=============================================================================
