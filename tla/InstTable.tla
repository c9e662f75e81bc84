----------------------------- MODULE InstTable -----------------------------
(***************************************************************************)
(* The pattern table of the instruction set                                *)
(* (src/include/cpu/inst_table.inc): for each instruction the values of    *)
(* funct7, funct3 and the opcode (bits 6-2) of its words.  ir.c says that  *)
(* the table drives its decoder.                                           *)
(***************************************************************************)
EXTENDS Exec

Row(name, f7, f3, op) == [name |-> name, f7 |-> f7, f3 |-> f3, op |-> op]
Any7 == 0..127

\* Rows that differ in funct3 alone: names[k] at funct3 = k - 1, "" for none.
ByFunct3(f7, op, names) ==
  {Row(names[k], f7, {k - 1}, op) : k \in {j \in 1..8 : names[j] # ""}}

inst_table ==
  {Row("auipc", Any7, 0..7, 5), Row("lui", Any7, 0..7, 13), Row("jal", Any7, 0..7, 27),
   Row("jalr", Any7, {0}, 25), Row("slli", {0, 1}, {1}, 4), Row("srli", {0, 1}, {5}, 4),
   Row("srai", {32, 33}, {5}, 4), Row("addiw", Any7, {0}, 6), Row("slliw", {0}, {1}, 6),
   Row("srliw", {0}, {5}, 6), Row("sraiw", {32}, {5}, 6)}
  \cup ByFunct3({0}, 12, <<"add", "sll", "slt", "sltu", "xor", "srl", "or", "and">>)
  \cup ByFunct3({32}, 12, <<"sub", "", "", "", "", "sra", "", "">>)
  \cup ByFunct3({1}, 12, <<"mul", "", "", "", "div", "divu", "rem", "remu">>)
  \cup ByFunct3({0}, 14, <<"addw", "sllw", "", "", "", "srlw", "", "">>)
  \cup ByFunct3({32}, 14, <<"subw", "", "", "", "", "sraw", "", "">>)
  \cup ByFunct3({1}, 14, <<"mulw", "", "", "", "divw", "divuw", "remw", "remuw">>)
  \cup ByFunct3(Any7, 4, <<"addi", "", "slti", "sltiu", "xori", "", "ori", "andi">>)
  \cup ByFunct3(Any7, 24, <<"beq", "bne", "", "", "blt", "bge", "bltu", "bgeu">>)
  \cup ByFunct3(Any7, 0, <<"lb", "lh", "lw", "ld", "lbu", "lhu", "lwu", "">>)
  \cup ByFunct3(Any7, 8, <<"sb", "sh", "sw", "sd", "", "", "", "">>)
  \cup ByFunct3(Any7, 28, <<"", "csrrw", "csrrs", "csrrc", "", "", "", "">>)

\* The patterns that fix the registers too.
Fixed(name, f7, rs2, f3, op) ==
  [name |-> name, word |-> [f7 |-> f7, rs2 |-> rs2, rs1 |-> 0, f3 |-> f3, rd |-> 0,
                            op |-> op, lo |-> 3]]
fixed_words ==
  {Fixed("ecall", 0, 0, 0, 28), Fixed("mret", 24, 2, 0, 28), Fixed("ebreak", 0, 1, 0, 28),
   Fixed("fence_i", 0, 0, 1, 3)}
  \cup {Fixed("fence", f7, rs2, 0, 3) : f7 \in {0, 1, 8}, rs2 \in {0, 15, 31}}

\* The words of a row, for the given funct7 and registers; bits 1-0 are 11 in
\* every pattern.
WordsOf(row, F7, R) ==
  {[f7 |-> f7, rs2 |-> rs2, rs1 |-> rs1, f3 |-> f3, rd |-> rd, op |-> row.op, lo |-> 3] :
     f7 \in row.f7 \cap F7, f3 \in row.f3, rs2 \in R, rs1 \in R, rd \in R}
=============================================================================
