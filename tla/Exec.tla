-------------------------------- MODULE Exec --------------------------------
(***************************************************************************)
(* Decoding and executing one RV64-IM instruction (src/src/cpu/ir.c, the   *)
(* immediates of src/include/cpu/decode.h), as functions.                  *)
(*                                                                         *)
(* An instruction word is the record of its fields                         *)
(*    [f7, rs2, rs1, f3, rd, op, lo]                                       *)
(* bits 31-25, 24-20, 19-15, 14-12, 11-7, 6-2 and 1-0.  The machine is     *)
(* scaled: a register has XLEN bits (64 in the code), a byte XLEN / 8 of   *)
(* them (BYTE), a half 2 * BYTE, a word 4 * BYTE.                          *)
(* The fields of a word keep the widths of the instruction set.            *)
(***************************************************************************)
EXTENDS Csr, Sequences, Functions, TLC, Bitwise

CONSTANT Garbage        \* values an uninitialised register-sized local may hold

ASSUME ExecAssumption == XLEN % 8 = 0 /\ XLEN >= 16

BYTE == XLEN \div 8
WLEN == 4 * BYTE

\* The unsigned value of an integer in n bits, and the signed value of one.
UEXT(x, n) == x % 2^n
SIGNED(x, n) == LET u == x % 2^n IN IF u >= 2^(n - 1) THEN u - 2^n ELSE u
SEXT(x, n) == SIGNED(x, n) % 2^XLEN

\* The immediates: unsigned XLEN-bit values.
immI(i) == SEXT(i.f7 * 32 + i.rs2, 12)
immS(i) == (SIGNED(i.f7, 7) * 32 + i.rd) % 2^XLEN
immB(i) == (SIGNED(i.f7 \div 64, 1) * 2^12 + (i.rd % 2) * 2^11
              + (i.f7 % 64) * 32 + (i.rd \div 2) * 2) % 2^XLEN
immU(i) == (((i.rs1 * 8 + i.f3) + 256 * i.rs2 + 2^13 * SIGNED(i.f7, 7))
              % 2^XLEN) * 2^12 % 2^XLEN
immJ(i) == (SIGNED(i.f7 \div 64, 1) * 2^20 + (i.rs1 * 8 + i.f3) * 2^12
              + (i.rs2 % 2) * 2^11 + ((i.f7 % 64) * 16 + i.rs2 \div 2) * 2) % 2^XLEN

-----------------------------------------------------------------------------
(***************************************************************************)
(* ir_decode: the executor the switch selects, "inv" when none.  Bits 1-0  *)
(* are not looked at.                                                      *)
(***************************************************************************)
\* The words of the three system instructions with funct3 0.
IsWord(i, f7, rs2) == i = [f7 |-> f7, rs2 |-> rs2, rs1 |-> 0, f3 |-> 0, rd |-> 0,
                           op |-> 28, lo |-> 3]

\* The R-type tables: funct7 0, 0x20 and 0x01.
ByFunct7(f7, base, alt, muldiv) ==
  CASE f7 = 0 -> base [] f7 = 32 -> alt [] f7 = 1 -> muldiv [] OTHER -> "inv"

\* The R-type words, opcode 0x0c, and those on words, opcode 0x0e.
DecodeR(f3, f7) ==
  LET no == <<"inv", "inv", "inv", "inv", "inv", "inv", "inv", "inv">> IN
  ByFunct7(f7, <<"add", "sll", "slt", "sltu", "xor", "srl", "or", "and">>[f3 + 1],
               [no EXCEPT ![1] = "sub", ![6] = "sra"][f3 + 1],
               <<"mul", "inv", "inv", "divu", "div", "divu", "rem", "remu">>[f3 + 1])

DecodeRW(f3, f7) ==
  LET no == <<"inv", "inv", "inv", "inv", "inv", "inv", "inv", "inv">> IN
  ByFunct7(f7, [no EXCEPT ![1] = "addw", ![2] = "sllw", ![6] = "srlw"][f3 + 1],
               [no EXCEPT ![1] = "subw", ![6] = "sraw"][f3 + 1],
               <<"mulw", "inv", "inv", "inv", "divw", "divuw", "remw", "remuw">>[f3 + 1])

DecodeSystem(i) ==
  CASE i.f3 = 1 -> "csrrw"
    [] i.f3 = 2 -> "csrrs"
    [] i.f3 = 3 -> "csrrc"
    [] IsWord(i, 0, 0) -> "ecall"
    [] IsWord(i, 24, 2) -> "mret"
    [] IsWord(i, 0, 1) -> "ebreak"
    [] OTHER -> "inv"

ir_decode(i) ==
  LET f3(names) == names[i.f3 + 1] IN
  CASE i.op = 4  -> f3(<<"addi", "slli", "slti", "sltiu", "xori",
                         IF i.f7 \div 2 = 32 THEN "srai" ELSE "srli", "ori", "andi">>)
    [] i.op = 0  -> f3(<<"lb", "lh", "lw", "ld", "lbu", "lhu", "lwu", "inv">>)
    [] i.op = 8  -> f3(<<"sb", "sh", "sw", "sd", "inv", "inv", "inv", "inv">>)
    [] i.op = 24 -> f3(<<"beq", "bne", "inv", "inv", "blt", "bge", "bltu", "bgeu">>)
    [] i.op = 27 -> "jal"
    [] i.op = 25 -> "jalr"
    [] i.op = 5  -> "auipc"
    [] i.op = 13 -> "lui"
    [] i.op = 6  -> f3(<<"addiw", "slliw", "inv", "inv", "inv",
                         IF i.f7 = 32 THEN "sraiw" ELSE "srliw", "inv", "inv">>)
    [] i.op = 12 -> DecodeR(i.f3, i.f7)
    [] i.op = 14 -> DecodeRW(i.f3, i.f7)
    [] i.op = 28 -> DecodeSystem(i)
    [] i.op = 3  -> "fence"
    [] OTHER -> "inv"

\* The operand format ir_fill_operands is called with, "none" when it is not.
Format(i) ==
  CASE i.op \in {4, 0, 25, 6} -> "I"
    [] i.op = 8 -> "S"
    [] i.op = 24 -> "B"
    [] i.op = 27 -> "J"
    [] i.op \in {5, 13} -> "U"
    [] i.op \in {12, 14} -> "R"
    [] i.op = 28 /\ i.f3 \in 1..3 -> "I"
    [] (i.op = 28 /\ i.f3 = 0) \/ i.op = 3 -> "N"
    [] OTHER -> "none"

Serializing == {"csrrw", "csrrs", "csrrc", "ecall", "mret", "ebreak", "fence"}

\* ir_fill_operands: register numbers (-1 for none) and operand values.
ir_fill_operands(i, gpr) ==
  LET t == Format(i)
      reads1 == t \in {"I", "S", "R", "B"}
      reads2 == t \in {"S", "R", "B"}
  IN [rd  |-> IF t \in {"I", "U", "J", "R"} THEN i.rd ELSE -1,
      rs1 |-> IF reads1 THEN i.rs1 ELSE -1,
      rs2 |-> IF reads2 THEN i.rs2 ELSE -1,
      src1_val |-> CASE reads1 -> gpr[i.rs1]
                     [] t = "U" -> immU(i)
                     [] t = "J" -> immJ(i)
                     [] OTHER -> 0,
      src2_val |-> CASE reads2 -> gpr[i.rs2] [] t = "I" -> immI(i) [] OTHER -> 0,
      imm |-> CASE t = "S" -> immS(i) [] t = "B" -> immB(i) [] OTHER -> 0]

-----------------------------------------------------------------------------
(***************************************************************************)
(* The executors.  Alu gives the set of results an operation can have: one *)
(* for a defined C expression, any of Garbage, or the death of the         *)
(* simulator (Crash), for a division by zero or of the least integer by    *)
(* -1, which C leaves undefined.  A shift by more than the register holds  *)
(* is taken modulo XLEN, as the host's shift instructions do, and signed   *)
(* multiplication wraps.                                                   *)
(***************************************************************************)
\* No result: the host's division trap ends the simulator.
Crash == -1

\* C division truncates towards zero.
Abs(x) == IF x < 0 THEN -x ELSE x
CDiv(a, b) == (IF (a < 0) = (b < 0) THEN 1 ELSE -1) * (Abs(a) \div Abs(b))
CMod(a, b) == a - b * CDiv(a, b)

Bool(p) == IF p THEN 1 ELSE 0

\* An arithmetic right shift of an n-bit value.
Sra(x, k, n) == SIGNED(x, n) \div 2^k

\* Quotient or remainder of n-bit operands: Signed those the host divides as
\* int64_t or int32_t, Unsigned the others.
Signed(a, b, n) == <<SIGNED(a, n), SIGNED(b, n)>>
Unsigned(a, b, n) == <<UEXT(a, n), UEXT(b, n)>>

Div(p, n) ==
  IF p[2] = 0 \/ p = <<-(2^(n - 1)), -1>> THEN Garbage \cup {Crash}
  ELSE {SEXT(CDiv(p[1], p[2]), n)}
Rem(p, n) ==
  IF p[2] = 0 \/ p = <<-(2^(n - 1)), -1>> THEN Garbage \cup {Crash}
  ELSE {SEXT(CMod(p[1], p[2]), n)}

\* ir_exec_add ... ir_exec_remu and the I-type operations on registers.
Alu64(op, a, b) ==
  LET sh == b % XLEN IN
  CASE op \in {"add", "addi"} -> {Wrap(a + b)}
    [] op = "sub" -> {Wrap(a - b)}
    [] op = "mul" -> {Wrap(SIGNED(a, XLEN) * SIGNED(b, XLEN))}
    [] op \in {"or", "ori"} -> {a | b}
    [] op \in {"xor", "xori"} -> {a ^^ b}
    [] op \in {"and", "andi"} -> {a & b}
    [] op \in {"slt", "slti"} -> {Bool(SIGNED(a, XLEN) < SIGNED(b, XLEN))}
    [] op \in {"sltu", "sltiu"} -> {Bool(a < b)}
    [] op \in {"sll", "slli"} -> {Wrap((a % 2^(XLEN - sh)) * 2^sh)}
    [] op \in {"srl", "srli"} -> {a \div 2^sh}
    [] op \in {"sra", "srai"} -> {Wrap(Sra(a, sh, XLEN))}
    [] op = "div" -> Div(Signed(a, b, XLEN), XLEN)
    [] op = "divu" -> Div(Unsigned(a, b, XLEN), XLEN)
    [] op = "rem" -> Rem(Signed(a, b, XLEN), XLEN)
    [] op = "remu" -> Rem(Unsigned(a, b, XLEN), XLEN)

\* ir_exec_addw ... ir_exec_sraiw: the low words, the result sign-extended.
\* slliw and srliw shift the zero-extended word by the whole immediate.
AluW(op, a, b) ==
  LET w == UEXT(a, WLEN)
      sh == b % WLEN
      shx == b % XLEN
  IN
  CASE op \in {"addw", "addiw"} -> {SEXT(a + b, WLEN)}
    [] op = "subw" -> {SEXT(a - b, WLEN)}
    [] op = "mulw" -> {SEXT(SIGNED(a, WLEN) * SIGNED(b, WLEN), WLEN)}
    [] op = "sllw" -> {SEXT(w * 2^sh, WLEN)}
    [] op = "slliw" -> {SEXT(IF shx < WLEN THEN w * 2^shx ELSE 0, WLEN)}
    [] op = "srlw" -> {SEXT(w \div 2^sh, WLEN)}
    [] op = "srliw" -> {SEXT(w \div 2^shx, WLEN)}
    [] op \in {"sraw", "sraiw"} -> {SEXT(Sra(a, sh, WLEN), WLEN)}
    [] op = "divw" -> Div(Signed(a, b, WLEN), WLEN)
    [] op = "divuw" -> Div(Unsigned(a, b, WLEN), WLEN)
    [] op = "remw" -> Rem(Signed(a, b, WLEN), WLEN)
    [] op = "remuw" -> Rem(Unsigned(a, b, WLEN), WLEN)

AluNames == {"add", "sub", "mul", "or", "xor", "and", "slt", "sltu", "sll", "srl", "sra",
             "div", "divu", "rem", "remu", "addi", "ori", "xori", "andi", "slti", "sltiu",
             "slli", "srli", "srai"}
AluWNames == {"addw", "subw", "mulw", "sllw", "srlw", "sraw", "divw", "divuw", "remw",
              "remuw", "addiw", "slliw", "srliw", "sraiw"}

\* Branch conditions.
Taken(op, a, b) ==
  CASE op = "beq" -> a = b
    [] op = "bne" -> a # b
    [] op = "blt" -> SIGNED(a, XLEN) < SIGNED(b, XLEN)
    [] op = "bge" -> SIGNED(a, XLEN) >= SIGNED(b, XLEN)
    [] op = "bltu" -> a < b
    [] op = "bgeu" -> a >= b

\* Width in bytes, and sign, of a load; width of a store.
LoadKind == [ld |-> <<8, 0>>, lw |-> <<4, 1>>, lh |-> <<2, 1>>, lb |-> <<1, 1>>,
             lwu |-> <<4, 0>>, lhu |-> <<2, 0>>, lbu |-> <<1, 0>>]
StoreWidth == [sd |-> 8, sw |-> 4, sh |-> 2, sb |-> 1]

Type(name) ==
  CASE name \in AluNames \cup AluWNames -> "ALU"
    [] name \in DOMAIN LoadKind -> "LOAD"
    [] name \in DOMAIN StoreWidth -> "STORE"
    [] name \in {"beq", "bne", "blt", "bge", "bltu", "bgeu"} -> "BRANCH"
    [] name = "jal" -> "JAL"
    [] name = "jalr" -> "JALR"
    [] name = "lui" -> "LUI"
    [] name = "auipc" -> "AUIPC"
    [] name \in {"csrrw", "csrrs", "csrrc"} -> "CSR"
    [] name \in {"ecall", "mret", "ebreak"} -> "SYSTEM"
    [] name = "fence" -> "FENCE"
    [] OTHER -> "INVALID"

-----------------------------------------------------------------------------
(***************************************************************************)
(* One instruction in flight: the IR_Inst ir_decode makes, and what        *)
(* ir_execute, ir_mem_access and ir_writeback do with it.                  *)
(***************************************************************************)
\* The numbers csr.h gives the registers, in blocks of consecutive ones.
CsrBlock(base, names) == [n \in base..(base + Len(names) - 1) |-> names[n - base + 1]]
CsrName(n) ==
  LET blocks == {CsrBlock(768, <<"mstatus", "misa", "medeleg", "mideleg", "mie", "mtvec", "mcountern">>),
                 CsrBlock(832, <<"mscratch", "mepc", "mcause", "mtval", "mip">>),
                 CsrBlock(3860, <<"mhartid">>), CsrBlock(256, <<"sstatus">>),
                 CsrBlock(260, <<"sie", "stvec">>), CsrBlock(384, <<"satp">>),
                 CsrBlock(320, <<"sscratch", "sepc", "scause", "stval", "sip">>),
                 CsrBlock(928, <<"pmpcfg0", "", "pmpcfg2", "", "pmpcfg4", "", "pmpcfg6", "",
                                 "pmpcfg8", "", "pmpcfga", "", "pmpcfgc", "", "pmpcfge">>),
                 CsrBlock(944, <<"pmpaddr0", "", "pmpaddr2", "", "pmpaddr4", "", "pmpaddr6", "",
                                 "pmpaddr8">>),
                 CsrBlock(3072, <<"cycle", "", "instret", "l1d_hits", "l1d_misses", "l1i_hits",
                                  "l1i_misses", "l2_hits", "l2_misses">>)}
  IN IF \E b \in blocks : n \in DOMAIN b THEN (CHOOSE b \in blocks : n \in DOMAIN b)[n] ELSE ""

\* ir_decode; the result of an instruction is not initialised by it.
MakeIr(i, pc, gpr) ==
  ir_fill_operands(i, gpr) @@
  [pc |-> pc, snpc |-> Wrap(pc + 4), name |-> ir_decode(i), type |-> "INVALID",
   dnpc |-> Wrap(pc + 4), taken |-> FALSE, mem_addr |-> 0, mem_width |-> 0, mem_sign |-> 0,
   serializing |-> ir_decode(i) \in Serializing, fault |-> FALSE, result |-> 0]

\* The outcomes of a CSR instruction: <<value read, hart, simulator>>.
CsrAccess(ir, h, sim, hartid, perf) ==
  LET no == CsrName(ir.src2_val % 4096)
      reads == ir.name # "csrrw" \/ ir.src2_val # 0
      old == csr_value(h, no, hartid, perf)
      s == IF reads THEN read_csr(h, sim, no) ELSE sim
      data == CASE ir.name = "csrrw" -> ir.src1_val
                [] ir.name = "csrrs" -> old | ir.src1_val
                [] ir.name = "csrrc" -> old - (old & ir.src1_val)
      after == IF ir.name = "csrrw" \/ ir.src1_val # 0 THEN set_csr(h, s, no, data)
               ELSE {<<h, s>>}
  IN {<<v, r[1], r[2]>> : v \in (IF reads THEN {old} ELSE Garbage), r \in after}

\* The outcomes of ir_execute: the instruction, the hart and the simulator.
ir_execute(ir0, h, sim, hartid, perf) ==
  LET ir == [ir0 EXCEPT !.type = Type(ir0.name)]
      n == ir.name
      a == ir.src1_val
      b == ir.src2_val
      Res(x) == [ir |-> x, hart |-> h, sim |-> sim]
      Value(v) == IF v = Crash THEN [Res(ir) EXCEPT !.sim.state = "PANIC"]
                  ELSE Res([ir EXCEPT !.result = v])
  IN
  CASE ir.type = "ALU" -> {Value(v) : v \in IF n \in AluNames THEN Alu64(n, a, b) ELSE AluW(n, a, b)}
    [] ir.type = "AUIPC" -> {Res([ir EXCEPT !.result = Wrap(a + ir.pc)])}
    [] ir.type = "LUI" -> {Res([ir EXCEPT !.result = a - (a % 2^12)])}
    [] ir.type = "JAL" -> {Res([ir EXCEPT !.result = ir.snpc, !.dnpc = Wrap(ir.pc + a)])}
    [] ir.type = "JALR" -> {Res([ir EXCEPT !.result = ir.snpc,
                                         !.dnpc = Wrap(a + b) - (Wrap(a + b) % 2)])}
    [] ir.type = "BRANCH" ->
         {Res([ir EXCEPT !.taken = Taken(n, a, b),
                       !.dnpc = IF Taken(n, a, b) THEN Wrap(ir.pc + ir.imm) ELSE ir.snpc])}
    [] ir.type = "LOAD" -> {Res([ir EXCEPT !.mem_addr = Wrap(a + b),
                               !.mem_width = LoadKind[n][1], !.mem_sign = LoadKind[n][2]])}
    [] ir.type = "STORE" -> {Res([ir EXCEPT !.mem_addr = Wrap(a + ir.imm),
                                          !.mem_width = StoreWidth[n]])}
    [] ir.type = "CSR" -> {[ir |-> [ir EXCEPT !.result = r[1]], hart |-> r[2], sim |-> r[3]] :
                             r \in CsrAccess(ir, h, sim, hartid, perf)}
    [] n = "ecall" -> {[ir |-> [ir EXCEPT !.rd = -1, !.dnpc = h.csr["mtvec"]], sim |-> sim,
                        hart |-> exception_priv_transfer(raise_intr(h, 11, ir.pc))]}
    [] n = "mret" -> {[ir |-> [ir EXCEPT !.rd = -1, !.dnpc = csr_value(h, "mepc", hartid, perf)],
                       hart |-> mret_priv_transfer(h), sim |-> read_csr(h, sim, "mepc")]}
    [] n = "ebreak" -> {[Res([ir EXCEPT !.rd = -1]) EXCEPT !.sim.state = "END"]}
    [] n = "fence" -> {Res([ir EXCEPT !.rd = -1])}
    [] OTHER -> {Res([ir EXCEPT !.fault = TRUE, !.result = v]) : v \in Garbage}

\* Memory is a function from addresses to bytes; a value is little-endian.
Bytes(mem, addr, width) ==
  SumFunction([k \in 0..(width - 1) |-> mem[Wrap(addr + k)] * 2^(BYTE * k)])

StoreBytes(mem, addr, width, v) ==
  [x \in DOMAIN mem |-> LET k == Wrap(x - addr) IN
                        IF k < width THEN (v \div 2^(BYTE * k)) % 2^BYTE ELSE mem[x]]

ir_mem_access(ir, mem) ==
  LET raw == Bytes(mem, ir.mem_addr, ir.mem_width) IN
  CASE ir.type = "LOAD" ->
         <<[ir EXCEPT !.result = IF ir.mem_sign = 1 THEN SEXT(raw, BYTE * ir.mem_width)
                                 ELSE UEXT(raw, BYTE * ir.mem_width)], mem>>
    [] ir.type = "STORE" -> <<ir, StoreBytes(mem, ir.mem_addr, ir.mem_width, ir.src2_val)>>
    [] OTHER -> <<ir, mem>>

ir_writeback(ir, gpr) ==
  [r \in DOMAIN gpr |-> IF r = 0 THEN 0 ELSE IF r = ir.rd THEN ir.result ELSE gpr[r]]

\* exec_once, the functional simulator's instruction: code is the program in
\* memory, m the machine [gpr, pc, mem, hart, sim].  The verdict of the fetch's
\* protection check ends the run after the instruction has been executed.
exec_once(code, m, perf) ==
  LET sim == pmp_check(m.hart, m.sim, m.pc, TRUE, FALSE)
  IN {LET acc == ir_mem_access(x.ir, m.mem)
      IN [gpr |-> ir_writeback(acc[1], m.gpr), pc |-> x.ir.dnpc, mem |-> acc[2],
          hart |-> x.hart, sim |-> x.sim] :
        x \in ir_execute(MakeIr(code[m.pc], m.pc, m.gpr), m.hart, sim, 0, perf)}
=============================================================================
