----------------------------- MODULE MCPipeline -----------------------------
(***************************************************************************)
(* Every program of three instructions from a set that has each kind of    *)
(* dependence, control transfer and effect, followed by ebreak words.      *)
(***************************************************************************)
EXTENDS Pipeline

I(f7, rs2, rs1, f3, rd, op) == [f7 |-> f7, rs2 |-> rs2, rs1 |-> rs1, f3 |-> f3, rd |-> rd,
                                op |-> op, lo |-> 3]

ebreak == I(0, 1, 0, 0, 0, 28)
Plain == {I(0, 4, 1, 0, 1, 4),        \* addi x1, x1, 4
          I(0, 2, 1, 0, 2, 12),       \* add  x2, x1, x2
          I(0, 0, 0, 2, 1, 0),        \* lw   x1, 0(x0)
          I(0, 2, 0, 2, 0, 8),        \* sw   x2, 0(x0)
          I(0, 0, 1, 0, 8, 24),       \* beq  x1, x0, 8
          I(127, 2, 1, 1, 29, 24),    \* bne  x1, x2, -4
          I(0, 8, 0, 0, 1, 27),       \* jal  x1, 8
          I(0, 0, 1, 0, 0, 25)}       \* jalr x0, 0(x1)
System == {I(26, 0, 1, 1, 2, 28),     \* csrrw x2, mscratch, x1
           I(0, 0, 0, 0, 0, 28),      \* ecall
           I(24, 2, 0, 0, 0, 28),     \* mret
           I(0, 0, 0, 7, 1, 0)}       \* invalid

ProgramsOf(instructions) ==
  {[pc \in {64, 68, 72, 76, 80} |-> IF pc <= 72 THEN p[(pc - 60) \div 4] ELSE ebreak] :
     p \in [1..3 -> instructions]}

MCPrograms == ProgramsOf(Plain \cup System)
MCPlainPrograms == ProgramsOf(Plain)
MCMem0 == [a \in 0..7 |-> IF a = 1 THEN 1 ELSE 0]
=============================================================================
