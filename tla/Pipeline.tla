------------------------------ MODULE Pipeline ------------------------------
(***************************************************************************)
(* The in-order five-stage pipeline (src/src/cpu/pipeline.c) with its      *)
(* inline difftest, and the loop of exec() that runs it (exec.c).  One     *)
(* step is one pipeline_cycle: the stages run from WB back to IF, each on  *)
(* the latches its upstream stage left a cycle ago, and the latches are    *)
(* rotated.  The machine is s, a record with the C globals as fields; ref  *)
(* is a history variable, the functional simulator advanced by one         *)
(* exec_once for every instruction the pipeline commits.                   *)
(*                                                                         *)
(* The program is read-only and lies apart from the data, memory around it *)
(* reads zero, and a load that misses takes any of Latencies.              *)
(***************************************************************************)
EXTENDS Exec, Bpred

CONSTANTS Programs,      \* programs run without difftest and without a stop
          PlainPrograms, \* programs also run with difftest, and stopped and resumed
          Mem0,          \* initial data memory: address -> byte
          GprCount,      \* registers (32 in the code)
          RESET,         \* initial pc
          Latencies,     \* cycles a load may take
          MaxInsts,      \* the n of exec(n)
          MaxStops       \* how often a watchpoint stops the run

ASSUME PipelineAssumption == /\ GprCount \in 1..32
                             /\ Latencies \subseteq Nat \ {0}
                             /\ MaxInsts \in Nat
                             /\ MaxStops \in Nat

VARIABLES code, g_bpred_mode, g_difftest_en, s, ref, stops, clk

vars == <<code, g_bpred_mode, g_difftest_en, s, ref, stops, clk>>

Zeros == [f7 |-> 0, rs2 |-> 0, rs1 |-> 0, f3 |-> 0, rd |-> 0, op |-> 0, lo |-> 0]
FetchWord(pc) == IF pc \in DOMAIN code THEN code[pc] ELSE Zeros

Perf == [c \in Counters |-> 0]

-----------------------------------------------------------------------------
(***************************************************************************)
(* The stages, as functions from a machine to the set of machines it can   *)
(* become.                                                                 *)
(***************************************************************************)
Bubble == [valid |-> FALSE]
IsType(slot, t) == slot.valid /\ slot.ir.type = t

pipeline_init(m) ==
  [m EXCEPT !.id = Bubble, !.ex = Bubble, !.mem = Bubble, !.wb = Bubble,
            !.fetch_pc = m.pc, !.mem_stall_rem = 0, !.insts = 0,
            !.bp = IF g_bpred_mode THEN bpred_init ELSE @]

\* difftest_step: the committed instruction is executed again, on the registers
\* of diff_cpu but on the hart's own CSRs and on memory; a difference aborts.
\* The decoded sources come from the register file, cpu.gpr.
difftest_step(m, c) ==
  LET d == IF m.diff_init THEN m.diff_cpu ELSE [gpr |-> m.gpr, pc |-> c.pc]
      ir0 == MakeIr(c.raw, c.pc, m.gpr)
      ir == [ir0 EXCEPT !.src1_val = IF ir0.rs1 > 0 THEN d.gpr[ir0.rs1] ELSE @,
                        !.src2_val = IF ir0.rs2 > 0 THEN d.gpr[ir0.rs2] ELSE @]
      is_csr == c.raw.op = 28 /\ c.raw.lo = 3
      After(x) ==
        LET acc == ir_mem_access(x.ir, m.data)
            g == ir_writeback(acc[1], d.gpr)
            differs == c.rd > 0 /\ ~is_csr /\ c.result # acc[1].result
        IN [m EXCEPT !.diff_init = TRUE, !.data = acc[2], !.hart = x.hart,
                     !.sim = IF differs THEN [x.sim EXCEPT !.state = "DIFFTEST"] ELSE x.sim,
                     !.diff_cpu = [gpr |-> IF c.rd > 0 /\ is_csr
                                           THEN [g EXCEPT ![c.rd] = c.result] ELSE g,
                                   pc |-> x.ir.dnpc]]
  IN IF ~g_difftest_en THEN {m}
     ELSE IF c.pc # d.pc THEN {[m EXCEPT !.sim.state = "DIFFTEST"]}
     ELSE {After(x) : x \in ir_execute(ir, m.hart, m.sim, 0, Perf)}

stage_WB(m) ==
  IF ~m.wb.valid THEN {m}
  ELSE {[x EXCEPT !.gpr = ir_writeback(m.wb.ir, m.gpr), !.pc = m.wb.ir.dnpc,
                  !.insts = @ + 1, !.wb = Bubble] : x \in difftest_step(m, m.wb.ir)}

stage_MEM(m) ==
  IF ~m.mem.valid THEN {m}
  ELSE LET acc == ir_mem_access(m.mem.ir, m.data)
           done == [m EXCEPT !.mem.ir = acc[1], !.data = acc[2]]
       IN IF IsType(m.mem, "LOAD")
          THEN {[done EXCEPT !.mem_stall_rem = lat - 1] : lat \in Latencies}
          ELSE {done}

\* The next pc fetch went on with.
Expected(ir) == IF g_bpred_mode THEN ir.bp_predicted_pc ELSE ir.snpc

\* ir_execute with INV for an invalid instruction; a wrong guess flushes ID.
stage_EX_NoFlush(m) ==
  IF ~m.ex.valid THEN {m}
  ELSE {[m EXCEPT !.ex.ir = x.ir, !.hart = x.hart, !.sim = x.sim, !.fetch_pc = x.ir.dnpc] :
          x \in {y \in ir_execute(m.ex.ir, m.hart, m.sim, 0, Perf) : ~y.ir.fault}}

stage_EX(m) ==
  LET After(x) ==
        LET n == [m EXCEPT !.ex.ir = x.ir, !.hart = x.hart,
                           !.sim = IF x.ir.fault THEN set_bad_abort(x.sim) ELSE x.sim,
                           !.bp = IF g_bpred_mode /\ IsControl(x.ir.raw)
                                  THEN bpred_update(@, x.ir.pc, x.ir.dnpc) ELSE @]
        IN IF x.ir.dnpc # Expected(x.ir)
           THEN [n EXCEPT !.id = Bubble, !.fetch_pc = x.ir.dnpc] ELSE n
  IN IF ~m.ex.valid THEN {m}
     ELSE {After(x) : x \in ir_execute(m.ex.ir, m.hart, m.sim, 0, Perf)}

\* The value of source register r of ID: the register file, MEM over it, and a
\* result of EX that is not a load's over both.  The default is what decoding put there.
Forward_MemWins(m, r, default) ==
  CASE r <= 0 -> default
    [] m.mem.valid /\ m.mem.ir.rd = r -> m.mem.ir.result
    [] m.ex.valid /\ m.ex.ir.type # "LOAD" /\ m.ex.ir.rd = r -> m.ex.ir.result
    [] OTHER -> m.gpr[r]

Forward(m, r, default) ==
  CASE r <= 0 -> default
    [] m.ex.valid /\ m.ex.ir.type # "LOAD" /\ m.ex.ir.rd = r -> m.ex.ir.result
    [] m.mem.valid /\ m.mem.ir.rd = r -> m.mem.ir.result
    [] OTHER -> m.gpr[r]

LoadUse_Rs2Only(m) == m.id.valid /\ IsType(m.ex, "LOAD") /\ m.ex.ir.rd = m.id.ir.rs2

LoadUse(m) ==
  /\ m.id.valid
  /\ IsType(m.ex, "LOAD")
  /\ m.ex.ir.rd > 0
  /\ m.ex.ir.rd \in {m.id.ir.rs1, m.id.ir.rs2}

\* On a load-use stall the operands re-read from the register file are
\* overwritten by the retry, so they are left out.
stage_ID(m) ==
  IF m.id.valid /\ ~LoadUse(m)
  THEN [m EXCEPT !.id.ir.src1_val = Forward(m, m.id.ir.rs1, @),
                 !.id.ir.src2_val = Forward(m, m.id.ir.rs2, @)]
  ELSE m

\* The instruction stage_IF puts in the fetch slot, and the machine after it.
stage_IF(m) ==
  LET pc == m.fetch_pc
      raw == FetchWord(pc)
      p == IF g_bpred_mode /\ IsControl(raw) THEN bpred_predict(m.bp, pc, raw)
           ELSE <<m.bp, Wrap(pc + 4)>>
      ir == MakeIr(raw, pc, m.gpr) @@ [raw |-> raw, bp_predicted_pc |-> p[2]]
  IN <<[valid |-> TRUE, ir |-> ir], [m EXCEPT !.bp = p[1], !.fetch_pc = p[2]]>>

\* The rotation: a stalled ID keeps its slot and EX gets a bubble.
Rotate(m) ==
  IF LoadUse(m)
  THEN [m EXCEPT !.wb = m.mem, !.mem = m.ex, !.ex = Bubble]
  ELSE LET f == stage_IF(stage_ID(m))
       IN [f[2] EXCEPT !.wb = m.mem, !.mem = m.ex, !.ex = f[2].id, !.id = f[1]]

pipeline_cycle_NoTick(m) ==
  IF m.mem_stall_rem > 0 THEN {m}
  ELSE {Rotate(x) : x \in UNION {stage_EX(y) : y \in UNION {stage_MEM(z) : z \in stage_WB(m)}}}

pipeline_cycle(m) ==
  IF m.mem_stall_rem > 0 THEN {[m EXCEPT !.mem_stall_rem = @ - 1]}
  ELSE {Rotate(x) : x \in UNION {stage_EX(y) : y \in UNION {stage_MEM(z) : z \in stage_WB(m)}}}

-----------------------------------------------------------------------------
Machine0 == [gpr |-> [r \in 0..(GprCount - 1) |-> 0], pc |-> RESET, data |-> Mem0,
             hart |-> CsrInit, sim |-> SimInit, insts |-> 0,
             id |-> Bubble, ex |-> Bubble, mem |-> Bubble, wb |-> Bubble,
             fetch_pc |-> RESET, mem_stall_rem |-> 0, bp |-> bpred_init,
             diff_init |-> FALSE,
             diff_cpu |-> [gpr |-> [r \in 0..(GprCount - 1) |-> 0], pc |-> 0]]

Init == /\ g_bpred_mode \in BOOLEAN
        /\ g_difftest_en \in BOOLEAN
        /\ stops \in {0, MaxStops}
        /\ code \in IF stops = 0 /\ ~g_difftest_en THEN Programs ELSE PlainPrograms
        /\ s = pipeline_init(Machine0)
        /\ ref = [gpr |-> Machine0.gpr, pc |-> RESET, mem |-> Mem0, hart |-> CsrInit,
                  sim |-> SimInit]
        /\ clk = 0

Flags == <<code, g_bpred_mode, g_difftest_en>>

NextReference == exec_once([pc \in {ref.pc} |-> FetchWord(pc)], ref, Perf)

Reference == IF s.wb.valid /\ s.mem_stall_rem = 0 THEN NextReference ELSE {ref}

\* One pass of the loop in exec(n).
Cycle == /\ s.sim.state = "RUNNING"
         /\ s.insts < MaxInsts
         /\ s' \in pipeline_cycle(s)
         /\ ref' \in Reference
         /\ clk' = 1 - clk
         /\ UNCHANGED <<Flags, stops>>

\* A watchpoint stops the run after a cycle; the monitor's next exec() starts
\* the pipeline again from the architectural pc.
StopAndResume == /\ s.sim.state = "RUNNING"
                 /\ stops > 0
                 /\ stops' = stops - 1
                 /\ s' = pipeline_init(s)
                 /\ clk' = 1 - clk
                 /\ UNCHANGED <<Flags, ref>>

Next == Cycle \/ StopAndResume

\* The loop runs on: its next pass is taken.  (Every step flips clk.)
Pass == s.sim.state = "RUNNING" /\ s.insts < MaxInsts /\ clk' = 1 - clk

Spec == Init /\ [][Next]_vars /\ WF_clk(Pass)

(***************************************************************************)
(* Properties.                                                             *)
(***************************************************************************)
\* Committed registers and pc are always the functional simulator's after the
\* same number of instructions: forwarding picks the newest writer, a load-use
\* stall neither loses nor repeats an instruction, nothing fetched past a branch,
\* trap or return commits, whatever was predicted, and in a program without
\* system instructions stopping and resuming does not show.  (A CSR instruction
\* that has executed and not retired at the stop executes again after it.)
CommitsMatch == s.gpr = ref.gpr /\ s.pc = ref.pc

\* Memory is never more than one instruction ahead of the registers: it is the
\* functional simulator's, or has the store of the next instruction to commit on
\* top.  Stores of a wrong path, of an instruction after a trap, or stores made
\* twice by stopping and resuming leave nothing else in it.
MemoryInStep == s.data = ref.mem \/ \E x \in NextReference : s.data = x.mem

\* difftest raises no false alarm: the re-execution of a committed instruction
\* agrees with the pipeline's for every program without system instructions.
DifftestAgrees == s.sim.state # "DIFFTEST"

\* exec(n) returns: the run ends or n instructions commit.  No stall, flush or
\* mispredicted loop keeps the pipeline from committing.
ExecReturns == <>(s.sim.state # "RUNNING" \/ s.insts >= MaxInsts)

=============================================================================
