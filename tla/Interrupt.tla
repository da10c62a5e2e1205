------------------------------ MODULE Interrupt ------------------------------
(***************************************************************************)
(* The way into the kernel and out of it: save, restart, restart_reenter,  *)
(* hwint_master, hwint_slave and _syscall of src/kernel/kernel.asm, with   *)
(* the masks of the two 8259A, which the handlers' entry code, disable_irq *)
(* and enable_irq (src/lib/kliba.asm) read and write back.                 *)
(*                                                                         *)
(* What runs with the interrupts off is one step.  Saved registers lie in  *)
(* the process table (the processor pushes them where tss.esp0 points) or, *)
(* for nested entries, on the kernel's stack.                              *)
(***************************************************************************)
EXTENDS Integers, Sequences, FiniteSets, SequencesExt

CONSTANTS
    Proc,       \* the processes of proc_table
    Clock,      \* CLOCK_IRQ
    Cascade,    \* CASCADE_IRQ, the line of the master that carries the slave
    FirstProc,  \* proc_table, the process that kernel_main makes ready
    Lines,      \* the lines with a handler, in the order of their priority
    Slave,      \* those of them that come through the slave
    Programs,   \* the disable_irq and enable_irq of each process's set-up
    Opened      \* the lines that kernel_main has enabled

Line == ToSet(Lines)

NoProc == "no process"

ASSUME InterruptAssumption ==
    /\ FirstProc \in Proc
    /\ Lines \in Seq(Line)
    /\ Clock \in Line /\ Cascade \notin Line /\ Slave \subseteq Line
    /\ Opened \subseteq Line
    /\ Proc \cap (Line \cup {Cascade, "call", NoProc}) = {} /\ "call" \notin Line \cup {Cascade}
    /\ Programs \in [Proc -> Seq([line : Line \cup {Cascade}, on : BOOLEAN])]

\* A driver that disables a line enables it in the end, and no line is left masked.
ASSUME ProgramsAssumption ==
    /\ \A p \in Proc : \A n \in DOMAIN Programs[p] : ~Programs[p][n].on =>
        \E m \in DOMAIN Programs[p] : m > n /\ Programs[p][m].line = Programs[p][n].line
    /\ \A i \in (Line \cup {Cascade}) \ Opened :
        \E p \in Proc : \E n \in DOMAIN Programs[p] : Programs[p][n].line = i

VARIABLES
    cpu,            \* whose code the processor runs, and its registers
    int_flag,       \* the interrupt flag
    k_reenter,
    p_proc_ready,
    esp0,           \* the process whose regs tss.esp0 points behind
    regs,           \* p->regs
    kstack,         \* the kernel's stack: per entry the return address save pushed,
                    \* its esi (the process, if it points into one) and the registers
                    \* saved on the stack itself
    imr,            \* the lines masked in either 8259A
    irr,            \* the lines that request an interrupt
    todo            \* what is left of Programs

processes == <<p_proc_ready, esp0, regs>>
vars == <<cpu, int_flag, k_reenter, processes, kstack, imr, irr, todo>>

\* `eax' also says how far an activation has come; `al' and `midway' are the mask
\* in al between the two port accesses of disable_irq and enable_irq.
Registers(who) == [of |-> who, eax |-> 0, al |-> {}, midway |-> FALSE]

\* restart() at the end of kernel_main
Init ==
    /\ p_proc_ready = FirstProc /\ esp0 = FirstProc
    /\ regs = [p \in Proc |-> Registers(p)]
    /\ cpu = Registers(FirstProc)
    /\ int_flag = TRUE
    /\ k_reenter = -1
    /\ kstack = <<>>
    /\ imr = (Line \cup {Cascade}) \ Opened
    /\ irr = {}
    /\ todo = Programs

InUser == cpu.of \in Proc

-----------------------------------------------------------------------------
(* save, restart, restart_reenter *)

\* mutant: a second entry begins the stack anew
FirstTwo(k) == k <= 1
\* cmp dword [k_reenter], 0
Outermost(k) == k = 0

\* save, on entry from whatever runs, for activation x
Save(x) ==
    LET k == k_reenter + 1
        entry == [ret   |-> IF Outermost(k) THEN "restart" ELSE "restart_reenter",
                  esi   |-> IF InUser THEN esp0 ELSE NoProc,
                  saved |-> cpu]
    IN  /\ k_reenter' = k
        /\ regs' = IF InUser THEN [regs EXCEPT ![esp0] = cpu] ELSE regs
        /\ kstack' = IF Outermost(k) THEN <<entry>> ELSE Append(kstack, entry)
        /\ cpu' = Registers(x)

Counted(k) == k             \* mutant: not counted down
\* dec dword [k_reenter]
CountedOut(k) == k - 1

Restart ==
    /\ cpu' = regs[p_proc_ready]
    /\ esp0' = p_proc_ready
    /\ kstack' = <<>>

RestartReenter ==
    /\ cpu' = IF Last(kstack).esi = NoProc THEN Last(kstack).saved ELSE regs[Last(kstack).esi]
    /\ kstack' = Front(kstack)
    /\ UNCHANGED esp0

\* `ret' to what save pushed; iretd restores the interrupt flag, which was on.
Return ==
    /\ k_reenter' = CountedOut(k_reenter)
    /\ int_flag' = TRUE
    /\ \/ Last(kstack).ret = "restart" /\ Restart
       \/ Last(kstack).ret = "restart_reenter" /\ RestartReenter

-----------------------------------------------------------------------------
(* hwint_master and hwint_slave *)

NotMasked(mask, i) == mask  \* mutant: the line stays enabled under its handler
Mask(mask, i) == mask \cup {i}
Unmask(mask, i) == mask \ {i}

\* The 8259A: a device requests an interrupt ...
Raise(i) ==
    /\ i \notin irr
    /\ irr' = irr \cup {i}
    /\ UNCHANGED <<cpu, int_flag, k_reenter, processes, kstack, imr, todo>>

\* ... and the first line that is not masked is delivered.  No line is in service
\* when the interrupts are on, since the EOI comes before sti.
Deliverable(i) == i \in irr \ imr /\ (i \in Slave => Cascade \notin imr)
FirstDeliverable(n) ==
    Deliverable(Lines[n]) /\ \A m \in 1 .. n - 1 : ~Deliverable(Lines[m])

StaysOff == FALSE           \* mutant: no sti
\* sti
Sti == TRUE

\* Save, mask the line, EOI, sti.
HwInt(n) ==
    /\ int_flag /\ FirstDeliverable(n)
    /\ Save(Lines[n])
    /\ imr' = Mask(imr, Lines[n])
    /\ irr' = irr \ {Lines[n]}
    /\ int_flag' = Sti
    /\ UNCHANGED <<p_proc_ready, esp0, todo>>

\* The handler.  clock_handler calls schedule() when it interrupted a process.
Handler ==
    /\ cpu.of \in Line /\ cpu.eax = 0
    /\ cpu' = [cpu EXCEPT !.eax = 1]
    /\ p_proc_ready' \in IF cpu.of = Clock /\ k_reenter = 0 THEN Proc ELSE {p_proc_ready}
    /\ UNCHANGED <<int_flag, k_reenter, esp0, regs, kstack, imr, irr, todo>>

\* cli, unmask the line, ret.
HwIntReturn ==
    /\ cpu.of \in Line /\ cpu.eax = 1
    /\ imr' = Unmask(imr, cpu.of)
    /\ Return
    /\ UNCHANGED <<p_proc_ready, regs, irr, todo>>

-----------------------------------------------------------------------------
(* _syscall *)

Syscall ==
    /\ InUser /\ int_flag
    /\ Save("call")
    /\ int_flag' = Sti
    /\ UNCHANGED <<p_proc_ready, esp0, imr, irr, todo>>

\* The function of syscall_table; it may block its caller, and schedule() then
\* picks another process.
SyscallBody ==
    /\ cpu.of = "call" /\ cpu.eax = 0
    /\ cpu' = [cpu EXCEPT !.eax = 1]
    /\ p_proc_ready' \in Proc
    /\ UNCHANGED <<int_flag, k_reenter, esp0, regs, kstack, imr, irr, todo>>

ReadyOne(esi) == p_proc_ready   \* mutant: the answer goes to the process that is ready now
\* pop esi
Caller(esi) == esi

\* mov [esi + EAXREG], eax: the interrupts are still on.
SyscallAnswer ==
    /\ cpu.of = "call" /\ cpu.eax = 1
    /\ cpu' = [cpu EXCEPT !.eax = 2]
    /\ regs' = [regs EXCEPT ![Caller(Last(kstack).esi)].eax = 1]
    /\ UNCHANGED <<int_flag, k_reenter, p_proc_ready, esp0, kstack, imr, irr, todo>>

SyscallReturn ==
    /\ cpu.of = "call" /\ cpu.eax = 2
    /\ Return
    /\ UNCHANGED <<p_proc_ready, regs, imr, irr, todo>>

-----------------------------------------------------------------------------
(* Processes *)

\* A process computes; here that changes one bit of its registers.
Compute ==
    /\ InUser /\ ~cpu.midway
    /\ cpu' = [cpu EXCEPT !.eax = 1 - cpu.eax]
    /\ UNCHANGED <<int_flag, k_reenter, processes, kstack, imr, irr, todo>>

Chip(i) == IF i \in Slave THEN Slave ELSE (Line \cup {Cascade}) \ Slave

KeepInt == TRUE             \* mutant: no cli
\* pushf; cli
DisableInt == FALSE

\* disable_irq or enable_irq: pushf, cli, in ...
MaskIn ==
    /\ InUser /\ ~cpu.midway /\ todo[cpu.of] # <<>>
    /\ cpu' = [cpu EXCEPT !.al = imr \cap Chip(Head(todo[cpu.of]).line), !.midway = TRUE]
    /\ int_flag' = DisableInt
    /\ UNCHANGED <<k_reenter, processes, kstack, imr, irr, todo>>

\* ... or / and, out, popf
MaskOut ==
    /\ InUser /\ cpu.midway
    /\ LET op == Head(todo[cpu.of])
           mask == IF op.on THEN cpu.al \ {op.line} ELSE cpu.al \cup {op.line}
       IN  imr' = (imr \ Chip(op.line)) \cup mask
    /\ cpu' = [cpu EXCEPT !.al = {}, !.midway = FALSE]
    /\ int_flag' = TRUE
    /\ todo' = [todo EXCEPT ![cpu.of] = Tail(@)]
    /\ UNCHANGED <<k_reenter, processes, kstack, irr>>

Kernel == Handler \/ HwIntReturn \/ SyscallBody \/ SyscallAnswer \/ SyscallReturn

Next ==
    \/ \E i \in Line : Raise(i)
    \/ \E n \in DOMAIN Lines : HwInt(n)
    \/ Handler \/ HwIntReturn
    \/ Syscall \/ SyscallBody \/ SyscallAnswer \/ SyscallReturn
    \/ Compute \/ MaskIn \/ MaskOut

\* The code that the processor runs with its interrupts off or in the kernel goes
\* on, though no activation need ever end if interrupts keep nesting in it; an
\* interrupt that is deliverable again and again is taken.
Fairness ==
    /\ WF_vars(Kernel \/ MaskOut)
    /\ \A n \in DOMAIN Lines : SF_vars(HwInt(n))

Spec == Init /\ [][Next]_vars /\ Fairness

-----------------------------------------------------------------------------
(* Properties *)

RegistersOf(who) ==
    [of : who, eax : 0 .. 2, al : SUBSET (Line \cup {Cascade}), midway : BOOLEAN]
Entry == [ret : {"restart", "restart_reenter"}, esi : Proc \cup {NoProc},
          saved : RegistersOf(Proc \cup Line \cup {"call"})]

TypeOK ==
    /\ cpu \in RegistersOf(Proc \cup Line \cup {"call"})
    /\ int_flag \in BOOLEAN
    /\ k_reenter \in -1 .. Cardinality(Line)
    /\ p_proc_ready \in Proc /\ esp0 \in Proc
    /\ regs \in [Proc -> RegistersOf(Proc)]
    /\ kstack \in Seq(Entry)
    /\ imr \subseteq Line \cup {Cascade} /\ irr \subseteq Line
    /\ todo \in [Proc -> Seq([line : Line \cup {Cascade}, on : BOOLEAN])]

\* k_reenter (kernel.asm:271) is one less than the number of entries on the
\* kernel's stack, whatever nests in what; only the first of them returns through
\* restart, into whichever process is ready, and only that one came from a process.
DepthCounted ==
    /\ k_reenter = Len(kstack) - 1
    /\ InUser <=> kstack = <<>>
    /\ \A n \in DOMAIN kstack :
        /\ (kstack[n].ret = "restart") <=> n = 1
        /\ (kstack[n].esi = NoProc) <=> n # 1

\* The activations on the kernel's stack, the innermost last
Activation(n) == IF n = Len(kstack) THEN cpu ELSE kstack[n + 1].saved

\* No handler interrupts itself and no kernel call another (kernel.asm:151-153
\* masks the line before sti): the depth of the 2 KB stack is bounded by the lines.
NestsOnce ==
    \A m, n \in DOMAIN kstack :
        Activation(m).of = Activation(n).of => m = n

\* A line is masked by its own handler and by nobody else once its driver is set
\* up: the masks that processes and handlers read and write back (kliba.asm:107,
\* kernel.asm:151, :160) never undo one another.
SetUp(i) == \A p \in Proc : \A n \in DOMAIN todo[p] : todo[p][n].line # i
MasksAgree ==
    \A i \in Line \cup {Cascade} :
        SetUp(i) => (i \in imr <=> \E n \in DOMAIN kstack : Activation(n).of = i)

\* An interrupt that a driver has enabled, and whose handler is not at work, is
\* taken in the end, even that of the last line in priority, which nests in the
\* handlers of the others (kernel.asm:154-156: the EOI and sti come first).
Taken ==
    LET i == Last(Lines) IN
        i \in irr \ imr /\ SetUp(i) /\ (i \in Slave => SetUp(Cascade)) ~> i \notin irr
=============================================================================
