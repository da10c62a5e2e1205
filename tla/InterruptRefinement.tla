------------------------- MODULE InterruptRefinement -------------------------
(* Interrupt implements Processors: the registers of each process are in the *)
(* processor or in the process table, and an activation that is interrupted  *)
(* has its own on the stack.                                                 *)
EXTENDS Interrupt

WithAnswer(r) == [r EXCEPT !.eax = 1]

RegsOf == [p \in Proc |-> IF cpu.of = p THEN cpu ELSE regs[p]]
Running == IF kstack = <<>> THEN cpu.of ELSE kstack[1].esi
Stacked == [n \in DOMAIN kstack |-> Activation(n)]

Abstract == INSTANCE Processors WITH
    Fresh <- {Registers(x) : x \in Line \cup {"call"}},
    Answered <- WithAnswer,
    regs <- RegsOf,
    running <- Running,
    acts <- Stacked

\* Whatever nests and whoever is switched to, each process and each activation
\* goes on with the registers it had (kernel.asm:258-295), but for the answer
\* that a kernel call leaves in its caller's eax (kernel.asm:254).
ImplementsProcessors == Abstract!Spec
=============================================================================
