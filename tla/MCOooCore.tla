----------------------------- MODULE MCOooCore -----------------------------
(***************************************************************************)
(* Programs and sizes for model-checking OooCore.  Each program is five    *)
(* instructions long, as many as fit in the front-end latches and the ROB  *)
(* together, so that every resource runs out and the ROB wraps.            *)
(***************************************************************************)
EXTENDS OooCore

I(op, rd, rs1, rs2, imm) == [op |-> op, rd |-> rd, rs1 |-> rs1, rs2 |-> rs2, imm |-> imm]
Addi(rd, rs1, imm) == I("add", rd, rs1, NoReg, imm)
Add(rd, rs1, rs2)  == I("add", rd, rs1, rs2, 0)
Mul(rd, rs1, rs2)  == I("mul", rd, rs1, rs2, 0)
Beq(rs1, rs2, t)   == I("beq", NoReg, rs1, rs2, t)
Jal(rd, t)         == I("jal", rd, NoReg, NoReg, t)
Jalr(rd, rs1, imm) == I("jalr", rd, rs1, NoReg, imm)
Csrrw(rd, n, rs1)  == I("csrrw", rd, rs1, NoReg, n)
Ecall              == I("ecall", NoReg, NoReg, NoReg, 0)
Ebreak             == I("ebreak", NoReg, NoReg, NoReg, 0)
Inv                == I("inv", NoReg, NoReg, NoReg, 0)

At0(seq) == [p \in 0 .. Len(seq) - 1 |-> seq[p + 1]]

\* A branch not taken over two dependent writes of the same register.
FallThrough == At0(<<Addi(1, 0, 1), Beq(1, 0, 4), Add(1, 1, 1), Mul(2, 1, 1), Ebreak>>)
\* A taken branch whose wrong path renames and meets an invalid instruction.
WrongPath   == At0(<<Beq(0, 0, 3), Addi(1, 0, 2), Inv, Addi(2, 1, 1), Ebreak>>)
\* A taken branch whose wrong path renames one register again and again.
WrongWrites == At0(<<Beq(0, 0, 4), Addi(1, 0, 2), Add(1, 1, 1), Mul(1, 1, 1), Ebreak>>)
\* A call and a return; the return may be predicted anywhere.
CallReturn  == At0(<<Jal(1, 3), Ebreak, Inv, Add(2, 2, 1), Jalr(0, 1, 0)>>)
\* Writes of mscratch and reads of the value written.
CsrSwap     == At0(<<Addi(1, 0, 3), Csrrw(2, MSCRATCH, 1), Csrrw(1, MSCRATCH, 2), Add(2, 1, 2), Ebreak>>)
\* A loop that runs twice, with a multiplication in flight across the branch.
Loop        == At0(<<Addi(1, 1, 1), Mul(2, 1, 1), Beq(1, 2, 0), Addi(2, 2, 1), Ebreak>>)
\* A jump out of memory on the correct path, after a branch that may hide it.
JumpOut     == At0(<<Addi(1, 0, 7), Beq(1, 0, 4), Jalr(2, 1, 0), Addi(1, 0, 1), Ebreak>>)
\* An invalid instruction on the correct path.
Invalid     == At0(<<Mul(1, 1, 1), Add(1, 1, 2), Inv, Addi(2, 0, 1), Ebreak>>)

MCPrograms == {FallThrough, WrongPath, WrongWrites, CallReturn, CsrSwap, Loop, JumpOut, Invalid}

\* A system call: mtvec is set to the handler at 4 first.
Syscall == At0(<<Addi(1, 0, 4), Csrrw(0, MTVEC, 1), Ecall, Addi(2, 0, 1), Ebreak>>)
MCSyscallPrograms == {Syscall}
=============================================================================
