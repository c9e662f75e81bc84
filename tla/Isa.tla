-------------------------------- MODULE Isa --------------------------------
(***************************************************************************)
(* The functional simulator (exec_once in src/cpu/exec.c): fetch, decode,  *)
(* execute and write back one instruction per step.  It is the reference   *)
(* the other engines are compared with, in the code by difftest_check and  *)
(* here by refinement.                                                     *)
(*                                                                         *)
(* Addresses.  An instruction address is an index of the program, so       *)
(* pc + 4 is pc + 1.  All the addresses outside physical memory are one    *)
(* value, BadPc.  Registers hold words 0 .. WORD-1, WORD > CODE_SIZE, so   *)
(* that a computed jump can leave the program.                             *)
(*                                                                         *)
(* Instructions.  One mnemonic stands for each way the executors of        *)
(* src/cpu/ir.c treat registers, pc and machine state.  Loads, stores and  *)
(* fences are in module Lsu.                                               *)
(***************************************************************************)
EXTENDS Integers

CONSTANTS
    NREG,       \* architectural registers x0 .. x(NREG-1)
    CODE_SIZE,  \* instructions of the program
    WORD,       \* registers hold 0 .. WORD-1
    Programs    \* the programs to run: functions from addresses to instructions

ASSUME IsaAssumption ==
    /\ NREG \in Nat \ {0}
    /\ CODE_SIZE \in Nat \ {0}
    /\ WORD \in Nat /\ WORD > CODE_SIZE

VARIABLES
    prog,   \* the program in memory
    gpr,    \* cpu.gpr
    pc,     \* cpu.pc
    csr,    \* the machine CSRs the instructions below touch
    state   \* the global `state`; PANIC: panic() stopped the simulator

isaVars == <<prog, gpr, pc, csr, state>>

NoReg    == -1                   \* rd, rs1 or rs2 absent
ArchRegs == 0 .. NREG - 1
Words    == 0 .. WORD - 1
ValidPc  == 0 .. CODE_SIZE - 1
BadPc    == CODE_SIZE
Pcs      == ValidPc \cup {BadPc}
Ops      == {"add", "mul", "beq", "jal", "jalr", "csrrw",
             "ecall", "mret", "ebreak", "inv"}
Insts    == [op : Ops, rd : ArchRegs \cup {NoReg}, rs1 : ArchRegs \cup {NoReg},
             rs2 : ArchRegs \cup {NoReg}, imm : Words]
MSCRATCH == 1                    \* CSR numbers
MTVEC    == 2
MEPC     == 3
CsrNos   == {MSCRATCH, MTVEC, MEPC}
CSRs     == [CsrNos -> Words]
BADBEEF  == WORD - 1             \* what an unknown CSR reads as
States   == {"RUNNING", "END", "PANIC"}

ASSUME ProgramsAssumption == Programs \subseteq [ValidPc -> Insts]

ToPc(w) == IF w \in ValidPc THEN w ELSE BadPc
Snpc(p) == IF p = BadPc THEN BadPc ELSE p + 1

(***************************************************************************)
(* ir->serializing, set by ir_decode.                                      *)
(***************************************************************************)
Serializing(inst) == inst.op \in {"csrrw", "ecall", "mret", "ebreak"}

(***************************************************************************)
(* ir->type is BRANCH, JAL or JALR.                                        *)
(***************************************************************************)
ControlFlow(inst) == inst.op \in {"beq", "jal", "jalr"}

(***************************************************************************)
(* read_csr and set_csr in machine mode: an unknown CSR reads as a marker  *)
(* and ignores writes.                                                     *)
(***************************************************************************)
read_csr(c, n) == IF n \in CsrNos THEN c[n] ELSE BADBEEF

set_csr(c, n, data) == IF n \in CsrNos THEN [c EXCEPT ![n] = data] ELSE c

(***************************************************************************)
(* ir_execute: the result, the next pc, the fault flag, the CSRs and the   *)
(* global state that the executor of an instruction at p leaves, from its  *)
(* source values.  The target of beq and jal is an absolute address here.  *)
(* The CSR number is the second source, an immediate.                      *)
(***************************************************************************)
Execute(inst, p, v1, v2, c, st) ==
    LET next == [result |-> 0, dnpc |-> Snpc(p), fault |-> FALSE,
                 csr |-> c, state |-> st]
    IN  CASE inst.op = "add"    -> [next EXCEPT !.result = (v1 + v2) % WORD]
          [] inst.op = "mul"    -> [next EXCEPT !.result = (v1 * v2) % WORD]
          [] inst.op = "beq"    -> IF v1 = v2 THEN [next EXCEPT !.dnpc = ToPc(inst.imm)]
                                   ELSE next
          [] inst.op = "jal"    -> [next EXCEPT !.result = Snpc(p), !.dnpc = ToPc(inst.imm)]
          [] inst.op = "jalr"   -> [next EXCEPT !.result = Snpc(p),
                                                !.dnpc = ToPc((v1 + v2) % WORD)]
          [] inst.op = "csrrw"  -> [next EXCEPT !.result = read_csr(c, v2),
                                                !.csr = set_csr(c, v2, v1)]
          [] inst.op = "ecall"  -> [next EXCEPT !.dnpc = ToPc(read_csr(c, MTVEC)),
                                                !.csr = set_csr(c, MEPC, p)]
          [] inst.op = "mret"   -> [next EXCEPT !.dnpc = ToPc(read_csr(c, MEPC))]
          [] inst.op = "ebreak" -> [next EXCEPT !.state = "END"]
          [] inst.op = "inv"    -> [next EXCEPT !.fault = TRUE]

(***************************************************************************)
(* ir_fill_operands: a register source, or the immediate in its place.     *)
(***************************************************************************)
Operand(regs, r, imm) == IF r = NoReg THEN imm ELSE regs[r]

(***************************************************************************)
(* ir_writeback: rd gets the result, x0 stays zero.                        *)
(***************************************************************************)
Writeback(regs, rd, result) ==
    [r \in ArchRegs |-> IF r = 0 THEN 0 ELSE IF r = rd THEN result ELSE regs[r]]

(***************************************************************************)
(* exec_once, as a function of the program q and a machine state m.  The   *)
(* fault flag is not tested: the functional simulator steps over an        *)
(* invalid instruction.                                                    *)
(***************************************************************************)
StepOf(q, m) ==
    LET inst == q[m.pc]
        ir   == Execute(inst, m.pc, Operand(m.gpr, inst.rs1, inst.imm),
                        Operand(m.gpr, inst.rs2, inst.imm), m.csr, m.state)
    IN  [gpr |-> Writeback(m.gpr, inst.rd, ir.result), pc |-> ir.dnpc,
         csr |-> ir.csr, state |-> ir.state]

CanStep(m) == m.state = "RUNNING" /\ m.pc \in ValidPc

Machine == [gpr |-> gpr, pc |-> pc, csr |-> csr, state |-> state]

IsaInit ==
    /\ prog \in Programs
    /\ gpr = [r \in ArchRegs |-> 0]
    /\ pc = 0
    /\ csr = [n \in CsrNos |-> 0]
    /\ state = "RUNNING"

exec_once ==
    /\ CanStep(Machine)
    /\ LET m == StepOf(prog, Machine)
       IN  gpr' = m.gpr /\ pc' = m.pc /\ csr' = m.csr /\ state' = m.state
    /\ UNCHANGED prog

IsaSpec == IsaInit /\ [][exec_once]_isaVars
=============================================================================
