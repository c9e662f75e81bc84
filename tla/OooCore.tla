------------------------------ MODULE OooCore ------------------------------
(***************************************************************************)
(* The register side of the out-of-order engine (src/cpu/ooo.c): rename,   *)
(* reservation stations, the INT and MUL units with the common data bus,   *)
(* the misprediction flush and in-order commit.  Loads and stores are in   *)
(* module Lsu.                                                             *)
(*                                                                         *)
(* ooo_cycle runs the stages in a fixed order.  Here the iterations of the *)
(* stages' loops interleave in any order, which includes that one; the     *)
(* countdown of the MUL unit is then the time its instruction waits.       *)
(*                                                                         *)
(* Abstractions.  The free list is the set of its members with the count   *)
(* the code keeps, so a pop may return any member.  Fields of an invalid   *)
(* entry are never read and have one value.  The branch predictor is any   *)
(* predictor: see Predict.                                                 *)
(***************************************************************************)
EXTENDS Isa, FiniteSets, Sequences

CONSTANTS NUM_PHYS_REGS, ROB_SIZE, RS_SIZE, FETCH_WIDTH,
          NUM_INT_UNITS, NUM_MUL_UNITS

ASSUME OooAssumption ==
    /\ NUM_PHYS_REGS \in Nat /\ NUM_PHYS_REGS > NREG
    /\ ROB_SIZE \in Nat /\ ROB_SIZE > 1
    /\ RS_SIZE \in Nat \ {0}
    /\ FETCH_WIDTH \in Nat \ {0}
    /\ NUM_INT_UNITS \in Nat \ {0} /\ NUM_MUL_UNITS \in Nat \ {0}

VARIABLES
    rat, rrat, freelist, prf,               \* renaming
    rob, rob_head, rob_tail, rob_count,     \* re-order buffer
    rs, rs_free_mask, rs_ready_mask,        \* reservation stations
    latch_int, latch_mul,                   \* issued instructions
    latch_if_id, latch_id_rn, fetch_pc,     \* front end
    csr_committed                           \* history: csr at the last commit

renameVars == <<rat, rrat, freelist>>
robVars    == <<rob, rob_head, rob_tail, rob_count>>
rsVars     == <<rs, rs_free_mask, rs_ready_mask>>
frontVars  == <<latch_if_id, latch_id_rn, fetch_pc>>
archVars   == <<gpr, pc, csr_committed>>
vars == <<prog, csr, state, archVars, renameVars, prf, robVars, rsVars,
          latch_int, latch_mul, frontVars>>

PhysRegs == 0 .. NUM_PHYS_REGS - 1
RobIdx   == 0 .. ROB_SIZE - 1
RsIdx    == 0 .. RS_SIZE - 1
IntSlots == 0 .. NUM_INT_UNITS - 1
MulSlots == 0 .. NUM_MUL_UNITS - 1
EuTypes  == {"INT", "MUL"}

NoEntry == [valid |-> FALSE, pc |-> 0, bp |-> 0, arch_rd |-> NoReg, phys_rd |-> NoReg,
            old_phys |-> NoReg, ready |-> FALSE, dnpc |-> 0, fault |-> FALSE]
NoSrc   == [ready |-> FALSE, val |-> 0, ptag |-> 0]
NoRs    == [valid |-> FALSE, rob_idx |-> 0, phys_rd |-> NoReg, eu_type |-> "INT",
            src1 |-> NoSrc, src2 |-> NoSrc]
NoLatch == [valid |-> FALSE, rob_idx |-> 0, phys_rd |-> NoReg, v1 |-> 0, v2 |-> 0]

(***************************************************************************)
(* An instruction whose destination is renamed: rd is neither -1 nor x0.   *)
(***************************************************************************)
Renames(rd) == rd \notin {NoReg, 0}

(***************************************************************************)
(* The ring: the slot after i, the distance of a slot from rob_head, and   *)
(* rob_newer_than.                                                         *)
(***************************************************************************)
Inc(i) == IF i = ROB_SIZE - 1 THEN 0 ELSE i + 1

Age(i) == IF i >= rob_head THEN i - rob_head ELSE (i - rob_head) + ROB_SIZE

\* Mutant: slots compared without regard to the wrap.
newer_than_NoWrap(a, b) == a > b

rob_newer_than(a, b) == Age(a) > Age(b)

Inst(i) == prog[rob[i].pc]

(***************************************************************************)
(* ooo_init.                                                               *)
(***************************************************************************)
Init ==
    /\ IsaInit
    /\ csr_committed = csr
    /\ rat = [r \in ArchRegs |-> r]
    /\ rrat = [r \in ArchRegs |-> r]
    /\ freelist = [regs |-> NREG .. NUM_PHYS_REGS - 1, count |-> NUM_PHYS_REGS - NREG]
    /\ prf = [p \in PhysRegs |-> [value |-> IF p \in ArchRegs THEN gpr[p] ELSE 0,
                                  ready |-> TRUE]]
    /\ rob = [i \in RobIdx |-> NoEntry]
    /\ rob_head = 0 /\ rob_tail = 0 /\ rob_count = 0
    /\ rs = [k \in RsIdx |-> NoRs]
    /\ rs_free_mask = RsIdx
    /\ rs_ready_mask = [eu \in EuTypes |-> {}]
    /\ latch_int = [s \in IntSlots |-> NoLatch]
    /\ latch_mul = [s \in MulSlots |-> NoLatch]
    /\ latch_if_id = <<>> /\ latch_id_rn = <<>>
    /\ fetch_pc = pc

-----------------------------------------------------------------------------
(***************************************************************************)
(* Front end.                                                              *)
(*                                                                         *)
(* What bp_predicted_pc may be: pc + 4, or the target the BTB or the       *)
(* return-address stack holds.  The BTB is fully tagged and holds targets  *)
(* this instruction had before; those of a jalr may be anything, since a   *)
(* wrong-path jalr trains it too.                                          *)
(***************************************************************************)
Predict(p) ==
    {Snpc(p)} \cup (CASE prog[p].op \in {"beq", "jal"} -> {ToPc(prog[p].imm)}
                      [] prog[p].op = "jalr"           -> Pcs
                      [] OTHER                         -> {})

(***************************************************************************)
(* ooo_stage_if: fetch up to FETCH_WIDTH consecutive instructions.  The    *)
(* group ends early at one predicted taken, or where memory ends.          *)
(***************************************************************************)
ooo_stage_if ==
    /\ state = "RUNNING"
    /\ latch_if_id = <<>>
    /\ \E k \in 1 .. FETCH_WIDTH :
         LET last == fetch_pc + k - 1
         IN  /\ fetch_pc \in ValidPc /\ last \in ValidPc
             /\ \E bp \in Predict(last) :
                  /\ k = FETCH_WIDTH \/ bp # Snpc(last) \/ Snpc(last) = BadPc
                  /\ latch_if_id' =
                       [j \in 1 .. k |-> [pc |-> fetch_pc + j - 1,
                                          bp |-> IF j = k THEN bp ELSE fetch_pc + j]]
                  /\ fetch_pc' = bp
    /\ UNCHANGED <<prog, csr, state, archVars, renameVars, prf, robVars, rsVars,
                   latch_int, latch_mul, latch_id_rn>>

(***************************************************************************)
(* ooo_stage_id.                                                           *)
(***************************************************************************)
ooo_stage_id ==
    /\ state = "RUNNING"
    /\ latch_if_id # <<>>
    /\ latch_id_rn = <<>>
    /\ latch_id_rn' = latch_if_id
    /\ latch_if_id' = <<>>
    /\ UNCHANGED <<prog, csr, state, archVars, renameVars, prf, robVars, rsVars,
                   latch_int, latch_mul, fetch_pc>>

-----------------------------------------------------------------------------
(***************************************************************************)
(* Rename.                                                                 *)
(*                                                                         *)
(* A source operand of a reservation station, read through the rat before  *)
(* the destination is renamed.                                             *)
(***************************************************************************)
Source(r, imm) ==
    IF r = NoReg THEN [ready |-> TRUE, val |-> imm, ptag |-> 0]
    ELSE IF r = 0 THEN [ready |-> TRUE, val |-> 0, ptag |-> 0]
    ELSE LET p == rat[r]
         IN  [ready |-> prf[p].ready, ptag |-> p,
              val |-> IF prf[p].ready THEN prf[p].value ELSE 0]

EuType(inst) == IF inst.op = "mul" THEN "MUL" ELSE "INT"

\* Mutant: serialising instructions do not wait for the ROB to drain.
CanRename_NoDrain(inst) ==
    /\ rob_count < ROB_SIZE
    /\ rs_free_mask # {}
    /\ Renames(inst.rd) => freelist.count > 0

(***************************************************************************)
(* The structural and serialising stalls of ooo_stage_rn.  The test n > 0  *)
(* of the code is implied: the instruction before it in the group is in    *)
(* the ROB.                                                                *)
(***************************************************************************)
CanRename(inst) ==
    /\ Serializing(inst) => rob_count = 0
    /\ rob_count < ROB_SIZE
    /\ rs_free_mask # {}
    /\ Renames(inst.rd) => freelist.count > 0

(***************************************************************************)
(* The physical destination: popped from the free list, p0 for x0, none.   *)
(***************************************************************************)
DestChoices(inst) ==
    IF Renames(inst.rd) THEN freelist.regs ELSE IF inst.rd = 0 THEN {0} ELSE {NoReg}

LowestFreeRs == CHOOSE k \in rs_free_mask : \A l \in rs_free_mask : k <= l

(***************************************************************************)
(* ooo_stage_rn, one iteration: the entry and the station a fetched        *)
(* instruction f gets, with phys_rd as its physical destination.           *)
(***************************************************************************)
RobEntryFor(f, phys_rd) ==
    [NoEntry EXCEPT !.valid = TRUE, !.pc = f.pc, !.bp = f.bp, !.arch_rd = prog[f.pc].rd,
                    !.phys_rd = phys_rd,
                    !.old_phys = IF Renames(prog[f.pc].rd) THEN rat[prog[f.pc].rd]
                                 ELSE phys_rd]

RsEntryFor(f, phys_rd) ==
    [valid |-> TRUE, rob_idx |-> rob_tail, phys_rd |-> phys_rd,
     eu_type |-> EuType(prog[f.pc]),
     src1 |-> Source(prog[f.pc].rs1, prog[f.pc].imm),
     src2 |-> Source(prog[f.pc].rs2, prog[f.pc].imm)]

\* Mutant: the new register keeps the ready flag of its last owner.
RenameDest_KeepsReady(inst, phys_rd) ==
    IF Renames(inst.rd)
    THEN /\ freelist' = [regs |-> freelist.regs \ {phys_rd}, count |-> freelist.count - 1]
         /\ rat' = [rat EXCEPT ![inst.rd] = phys_rd]
         /\ prf' = prf
    ELSE UNCHANGED <<freelist, rat, prf>>

RenameDest(inst, phys_rd) ==
    IF Renames(inst.rd)
    THEN /\ freelist' = [regs |-> freelist.regs \ {phys_rd}, count |-> freelist.count - 1]
         /\ rat' = [rat EXCEPT ![inst.rd] = phys_rd]
         /\ prf' = [prf EXCEPT ![phys_rd] = [value |-> 0, ready |-> FALSE]]
    ELSE UNCHANGED <<freelist, rat, prf>>

ooo_stage_rn ==
    /\ state = "RUNNING"
    /\ latch_id_rn # <<>>
    /\ LET f    == Head(latch_id_rn)
           inst == prog[f.pc]
           k    == LowestFreeRs
       IN  /\ CanRename(inst)
           /\ \E phys_rd \in DestChoices(inst) :
                /\ rob' = [rob EXCEPT ![rob_tail] = RobEntryFor(f, phys_rd)]
                /\ RenameDest(inst, phys_rd)
                /\ rs' = [rs EXCEPT ![k] = RsEntryFor(f, phys_rd)]
           /\ rob_tail' = Inc(rob_tail)
           /\ rob_count' = rob_count + 1
           /\ rs_free_mask' = rs_free_mask \ {k}
           /\ rs_ready_mask' =
                [rs_ready_mask EXCEPT ![EuType(inst)] =
                   IF Source(inst.rs1, inst.imm).ready /\ Source(inst.rs2, inst.imm).ready
                   THEN @ \cup {k} ELSE @ \ {k}]
    /\ latch_id_rn' = Tail(latch_id_rn)
    /\ UNCHANGED <<prog, csr, state, archVars, rrat, rob_head, latch_int, latch_mul,
                   latch_if_id, fetch_pc>>

-----------------------------------------------------------------------------
(***************************************************************************)
(* ooo_stage_is, one free slot of a unit: the oldest ready instruction for *)
(* that unit moves from its station to the slot (latch_from_rs).           *)
(***************************************************************************)
LatchFrom(k) == [valid |-> TRUE, rob_idx |-> rs[k].rob_idx, phys_rd |-> rs[k].phys_rd,
                 v1 |-> rs[k].src1.val, v2 |-> rs[k].src2.val]

OldestReady(eu, k) ==
    /\ k \in rs_ready_mask[eu]
    /\ \A l \in rs_ready_mask[eu] : Age(rs[k].rob_idx) <= Age(rs[l].rob_idx)

FreeStation(k) ==
    /\ rs' = [rs EXCEPT ![k] = NoRs]
    /\ rs_free_mask' = rs_free_mask \cup {k}
    /\ rs_ready_mask' = [rs_ready_mask EXCEPT ![rs[k].eu_type] = @ \ {k}]

IssueInt(s) ==
    /\ state = "RUNNING"
    /\ ~latch_int[s].valid
    /\ \E k \in RsIdx :
         /\ OldestReady("INT", k)
         /\ latch_int' = [latch_int EXCEPT ![s] = LatchFrom(k)]
         /\ FreeStation(k)
    /\ UNCHANGED <<prog, csr, state, archVars, renameVars, prf, robVars, latch_mul,
                   frontVars>>

IssueMul(s) ==
    /\ state = "RUNNING"
    /\ ~latch_mul[s].valid
    /\ \E k \in RsIdx :
         /\ OldestReady("MUL", k)
         /\ latch_mul' = [latch_mul EXCEPT ![s] = LatchFrom(k)]
         /\ FreeStation(k)
    /\ UNCHANGED <<prog, csr, state, archVars, renameVars, prf, robVars, latch_int,
                   frontVars>>

-----------------------------------------------------------------------------
(***************************************************************************)
(* cdb_broadcast: the stations waiting for tag p take the value v.         *)
(***************************************************************************)
Wake(src, p, v) ==
    IF ~src.ready /\ src.ptag = p THEN [src EXCEPT !.ready = TRUE, !.val = v] ELSE src

\* Mutant: the second source is not woken.
Woken_Src1Only(p, v) ==
    [k \in RsIdx |-> IF k \in rs_free_mask THEN rs[k]
                     ELSE [rs[k] EXCEPT !.src1 = Wake(@, p, v)]]

Woken(p, v) ==
    [k \in RsIdx |-> IF k \in rs_free_mask THEN rs[k]
                     ELSE [rs[k] EXCEPT !.src1 = Wake(@, p, v), !.src2 = Wake(@, p, v)]]

ReadyAfter(p, v) ==
    [eu \in EuTypes |-> rs_ready_mask[eu] \cup
       {k \in RsIdx \ rs_free_mask :
          /\ rs[k].eu_type = eu
          /\ Woken(p, v)[k] # rs[k]
          /\ Woken(p, v)[k].src1.ready /\ Woken(p, v)[k].src2.ready}]

(***************************************************************************)
(* Writeback of a result to physical register p and to the stations.  p0   *)
(* is written but not broadcast.                                           *)
(***************************************************************************)
PrfAfter(p, v) == IF p >= 0 THEN [prf EXCEPT ![p] = [value |-> v, ready |-> TRUE]] ELSE prf
RsAfter(p, v)  == IF p > 0 THEN Woken(p, v) ELSE rs
MaskAfter(p, v) == IF p > 0 THEN ReadyAfter(p, v) ELSE rs_ready_mask

Executed(i, ir) ==
    [rob EXCEPT ![i].ready = TRUE, ![i].dnpc = ir.dnpc, ![i].fault = ir.fault]

(***************************************************************************)
(* ooo_flush_after(b): the entries newer than b are undone, newest first,  *)
(* so that the rat ends with the old_phys of the oldest writer undone.     *)
(***************************************************************************)
Squashed(b) == {i \in RobIdx : rob[i].valid /\ rob_newer_than(i, b)}

SquashedWriters(b) == {i \in Squashed(b) : Renames(rob[i].arch_rd)}

\* Mutant: the walk ends with the youngest writer.
NewestOf(S) == CHOOSE i \in S : \A j \in S : Age(j) <= Age(i)

OldestOf(S) == CHOOSE i \in S : \A j \in S : Age(i) <= Age(j)

RatUndone(b) ==
    [r \in ArchRegs |->
       LET W == {i \in SquashedWriters(b) : rob[i].arch_rd = r}
       IN  IF W = {} THEN rat[r] ELSE rob[OldestOf(W)].old_phys]

FlushRename(b, prf1) ==
    LET freed == {rob[i].phys_rd : i \in SquashedWriters(b)}
    IN  /\ rat' = RatUndone(b)
        /\ freelist' = [regs  |-> freelist.regs \cup freed,
                        count |-> freelist.count + Cardinality(SquashedWriters(b))]
        /\ prf' = [p \in PhysRegs |-> IF p \in freed THEN [prf1[p] EXCEPT !.ready = FALSE]
                                      ELSE prf1[p]]

\* Mutant: the tail stays on the branch.
FlushRob_TailOnBranch(b, rob1) ==
    /\ rob' = [i \in RobIdx |-> IF i \in Squashed(b) THEN NoEntry ELSE rob1[i]]
    /\ rob_tail' = b
    /\ rob_count' = rob_count - Cardinality(Squashed(b))

FlushRob(b, rob1) ==
    /\ rob' = [i \in RobIdx |-> IF i \in Squashed(b) THEN NoEntry ELSE rob1[i]]
    /\ rob_tail' = Inc(b)
    /\ rob_count' = rob_count - Cardinality(Squashed(b))

\* Mutant: the ready mask keeps the flushed stations.
FlushRs_KeepsMask(b, rs1, mask1) ==
    LET gone == {k \in RsIdx : rs1[k].valid /\ rob_newer_than(rs1[k].rob_idx, b)}
    IN  /\ rs' = [k \in RsIdx |-> IF k \in gone THEN NoRs ELSE rs1[k]]
        /\ rs_free_mask' = rs_free_mask \cup gone
        /\ rs_ready_mask' = mask1

FlushRs(b, rs1, mask1) ==
    LET gone == {k \in RsIdx : rs1[k].valid /\ rob_newer_than(rs1[k].rob_idx, b)}
    IN  /\ rs' = [k \in RsIdx |-> IF k \in gone THEN NoRs ELSE rs1[k]]
        /\ rs_free_mask' = rs_free_mask \cup gone
        /\ rs_ready_mask' = [eu \in EuTypes |-> mask1[eu] \ gone]

\* Mutant: issued instructions survive the flush.
FlushLatch_None(latch, b) == latch

FlushLatch(latch, b) ==
    [s \in DOMAIN latch |->
       IF latch[s].valid /\ rob_newer_than(latch[s].rob_idx, b) THEN NoLatch ELSE latch[s]]

(***************************************************************************)
(* ooo_unit_int, one slot: execute the latched instruction, write back,    *)
(* and check the prediction of a branch or jump.  A jump out of memory     *)
(* that was not predicted is marked faulted and does not redirect fetch;   *)
(* any other misprediction flushes.  Units skip a latch whose ROB entry is *)
(* no longer valid: InFlightOnce shows that they never meet one.           *)
(***************************************************************************)
LatchIr(l) == Execute(Inst(l.rob_idx), rob[l.rob_idx].pc, l.v1, l.v2, csr, state)

Mispredicted(l) == ControlFlow(Inst(l.rob_idx)) /\ LatchIr(l).dnpc # rob[l.rob_idx].bp

Redirects(l) == Mispredicted(l) /\ LatchIr(l).dnpc # BadPc

IntComplete(s) ==
    LET l  == latch_int[s]
        ir == LatchIr(l)
    IN  /\ state = "RUNNING"
        /\ l.valid /\ rob[l.rob_idx].valid
        /\ ~Redirects(l)
        /\ prf' = PrfAfter(l.phys_rd, ir.result)
        /\ rs' = RsAfter(l.phys_rd, ir.result)
        /\ rs_ready_mask' = MaskAfter(l.phys_rd, ir.result)
        /\ rob' = Executed(l.rob_idx, [ir EXCEPT !.fault = @ \/ Mispredicted(l)])
        /\ latch_int' = [latch_int EXCEPT ![s] = NoLatch]
        /\ csr' = ir.csr
        /\ state' = ir.state
        /\ UNCHANGED <<prog, archVars, renameVars, rob_head, rob_tail, rob_count,
                       rs_free_mask, latch_mul, frontVars>>

IntMispredict(s) ==
    LET l  == latch_int[s]
        b  == l.rob_idx
        ir == LatchIr(l)
    IN  /\ state = "RUNNING"
        /\ l.valid /\ rob[b].valid
        /\ Redirects(l)
        /\ FlushRename(b, PrfAfter(l.phys_rd, ir.result))
        /\ FlushRob(b, Executed(b, ir))
        /\ FlushRs(b, RsAfter(l.phys_rd, ir.result), MaskAfter(l.phys_rd, ir.result))
        /\ latch_int' = FlushLatch([latch_int EXCEPT ![s] = NoLatch], b)
        /\ latch_mul' = FlushLatch(latch_mul, b)
        /\ latch_if_id' = <<>> /\ latch_id_rn' = <<>>
        /\ fetch_pc' = ir.dnpc
        /\ UNCHANGED <<prog, csr, state, archVars, rrat, rob_head>>

(***************************************************************************)
(* ooo_unit_mul, one slot, at the end of its countdown.                    *)
(***************************************************************************)
MulComplete(s) ==
    LET l  == latch_mul[s]
        ir == LatchIr(l)
    IN  /\ state = "RUNNING"
        /\ l.valid /\ rob[l.rob_idx].valid
        /\ prf' = PrfAfter(l.phys_rd, ir.result)
        /\ rs' = RsAfter(l.phys_rd, ir.result)
        /\ rs_ready_mask' = MaskAfter(l.phys_rd, ir.result)
        /\ rob' = Executed(l.rob_idx, ir)
        /\ latch_mul' = [latch_mul EXCEPT ![s] = NoLatch]
        /\ UNCHANGED <<prog, csr, state, archVars, renameVars, rob_head, rob_tail, rob_count,
                       rs_free_mask, latch_int, frontVars>>

-----------------------------------------------------------------------------
(***************************************************************************)
(* ooo_stage_commit, one iteration: retire the head, or panic on a fault.  *)
(***************************************************************************)
HeadReady == rob_count > 0 /\ rob[rob_head].valid /\ rob[rob_head].ready

\* Mutant: commit frees the register that became architectural.
CommitDest_FreesNew(e) ==
    IF Renames(e.arch_rd)
    THEN /\ gpr' = [gpr EXCEPT ![e.arch_rd] = prf[e.phys_rd].value]
         /\ rrat' = [rrat EXCEPT ![e.arch_rd] = e.phys_rd]
         /\ prf' = [prf EXCEPT ![e.old_phys].ready = FALSE]
         /\ freelist' = [regs  |-> freelist.regs \cup {e.phys_rd},
                         count |-> freelist.count + 1]
    ELSE UNCHANGED <<gpr, rrat, prf, freelist>>

\* Mutant: the superseded register is not returned.
CommitDest_Leaks(e) ==
    IF Renames(e.arch_rd)
    THEN /\ gpr' = [gpr EXCEPT ![e.arch_rd] = prf[e.phys_rd].value]
         /\ rrat' = [rrat EXCEPT ![e.arch_rd] = e.phys_rd]
         /\ prf' = [prf EXCEPT ![e.old_phys].ready = FALSE]
         /\ UNCHANGED freelist
    ELSE UNCHANGED <<gpr, rrat, prf, freelist>>

CommitDest(e) ==
    IF Renames(e.arch_rd)
    THEN /\ gpr' = [gpr EXCEPT ![e.arch_rd] = prf[e.phys_rd].value]
         /\ rrat' = [rrat EXCEPT ![e.arch_rd] = e.phys_rd]
         /\ prf' = [prf EXCEPT ![e.old_phys].ready = FALSE]
         /\ freelist' = [regs  |-> freelist.regs \cup {e.old_phys},
                         count |-> freelist.count + 1]
    ELSE UNCHANGED <<gpr, rrat, prf, freelist>>

ooo_stage_commit ==
    /\ state = "RUNNING"
    /\ HeadReady
    /\ ~rob[rob_head].fault
    /\ CommitDest(rob[rob_head])
    /\ pc' = rob[rob_head].dnpc
    /\ rob' = [rob EXCEPT ![rob_head] = NoEntry]
    /\ rob_head' = Inc(rob_head)
    /\ rob_count' = rob_count - 1
    /\ csr_committed' = csr
    /\ UNCHANGED <<prog, csr, state, rat, rob_tail, rsVars, latch_int, latch_mul, frontVars>>

CommitPanic ==
    /\ state = "RUNNING"
    /\ HeadReady
    /\ rob[rob_head].fault
    /\ state' = "PANIC"
    /\ UNCHANGED <<prog, csr, archVars, renameVars, prf, robVars, rsVars, latch_int,
                   latch_mul, frontVars>>

-----------------------------------------------------------------------------
Next ==
    \/ ooo_stage_commit
    \/ CommitPanic
    \/ \E s \in IntSlots : IntComplete(s) \/ IntMispredict(s) \/ IssueInt(s)
    \/ \E s \in MulSlots : MulComplete(s) \/ IssueMul(s)
    \/ ooo_stage_rn
    \/ ooo_stage_id
    \/ ooo_stage_if

Spec == Init /\ [][Next]_vars

(***************************************************************************)
(* exec calls ooo_cycle in a loop and ooo_cycle calls every stage.         *)
(***************************************************************************)
Fairness ==
    /\ WF_vars(ooo_stage_commit) /\ WF_vars(CommitPanic)
    /\ \A s \in IntSlots : WF_vars(IntComplete(s) \/ IntMispredict(s)) /\ WF_vars(IssueInt(s))
    /\ \A s \in MulSlots : WF_vars(MulComplete(s)) /\ WF_vars(IssueMul(s))
    /\ WF_vars(ooo_stage_rn) /\ WF_vars(ooo_stage_id) /\ WF_vars(ooo_stage_if)

FairSpec == Spec /\ Fairness

-----------------------------------------------------------------------------
(***************************************************************************)
(* Properties.                                                             *)
(***************************************************************************)
Sources  == [ready : BOOLEAN, val : Words, ptag : PhysRegs]
Fetched  == [pc : ValidPc, bp : Pcs]
MaybePhys == PhysRegs \cup {NoReg}
RobEntries == [valid : BOOLEAN, pc : ValidPc, bp : Pcs, arch_rd : ArchRegs \cup {NoReg},
               phys_rd : MaybePhys, old_phys : MaybePhys, ready : BOOLEAN,
               dnpc : Pcs, fault : BOOLEAN]
RsEntries == [valid : BOOLEAN, rob_idx : RobIdx, phys_rd : MaybePhys, eu_type : EuTypes,
              src1 : Sources, src2 : Sources]
Latches == [valid : BOOLEAN, rob_idx : RobIdx, phys_rd : MaybePhys, v1 : Words, v2 : Words]

(***************************************************************************)
(* Every variable has its type; the front-end latches hold at most one     *)
(* fetch group each.                                                       *)
(***************************************************************************)
TypeOK ==
    /\ prog \in [ValidPc -> Insts] /\ state \in States
    /\ gpr \in [ArchRegs -> Words] /\ pc \in Pcs /\ csr \in CSRs /\ csr_committed \in CSRs
    /\ rat \in [ArchRegs -> PhysRegs] /\ rrat \in [ArchRegs -> PhysRegs]
    /\ freelist \in [regs : SUBSET PhysRegs, count : 0 .. NUM_PHYS_REGS]
    /\ prf \in [PhysRegs -> [value : Words, ready : BOOLEAN]]
    /\ rob \in [RobIdx -> RobEntries]
    /\ rob_head \in RobIdx /\ rob_tail \in RobIdx /\ rob_count \in 0 .. ROB_SIZE
    /\ rs \in [RsIdx -> RsEntries]
    /\ rs_free_mask \in SUBSET RsIdx /\ rs_ready_mask \in [EuTypes -> SUBSET RsIdx]
    /\ latch_int \in [IntSlots -> Latches] /\ latch_mul \in [MulSlots -> Latches]
    /\ latch_if_id \in Seq(Fetched) /\ Len(latch_if_id) <= FETCH_WIDTH
    /\ latch_id_rn \in Seq(Fetched) /\ Len(latch_id_rn) <= FETCH_WIDTH
    /\ fetch_pc \in Pcs

(***************************************************************************)
(* The live entries are the rob_count slots from rob_head on and rob_tail  *)
(* is the slot after them, through every commit, rename and flush of part  *)
(* of the ring (the walk of ooo.c:284-302 moves rob_tail and counts).      *)
(***************************************************************************)
RobContiguous ==
    /\ \A i \in RobIdx : rob[i].valid <=> Age(i) < rob_count
    /\ rob_tail = IF rob_head + rob_count < ROB_SIZE THEN rob_head + rob_count
                  ELSE rob_head + rob_count - ROB_SIZE

(***************************************************************************)
(* Entry i of the ROB is live and renames architectural register r.        *)
(***************************************************************************)
Writer(i, r) == rob[i].valid /\ rob[i].arch_rd = r /\ Renames(r)

Writers == {i \in RobIdx : rob[i].valid /\ Renames(rob[i].arch_rd)}

(***************************************************************************)
(* Physical registers are neither lost nor handed out twice by rename,     *)
(* flush and commit (ooo.c, freelist_pop and freelist_push and their       *)
(* callers): each one is free, or the committed copy of one architectural  *)
(* register, or the destination of one live instruction, and never two of  *)
(* these; and the count of the free list is the number of its members.     *)
(***************************************************************************)
RegPartition ==
    LET committed == {rrat[r] : r \in ArchRegs}
        inflight  == {rob[i].phys_rd : i \in Writers}
    IN  /\ PhysRegs = freelist.regs \cup committed \cup inflight
        /\ freelist.regs \cap committed = {}
        /\ freelist.regs \cap inflight = {}
        /\ committed \cap inflight = {}
        /\ \A q, r \in ArchRegs : rrat[q] = rrat[r] => q = r
        /\ \A i, j \in Writers : rob[i].phys_rd = rob[j].phys_rd => i = j
        /\ freelist.count = Cardinality(freelist.regs)

(***************************************************************************)
(* What architectural register r maps to just before the instruction at    *)
(* age a: the destination of the youngest older writer, or rrat[r].        *)
(***************************************************************************)
MapsTo(r, a, p) ==
    \/ \E j \in RobIdx :
         /\ Writer(j, r) /\ Age(j) < a /\ p = rob[j].phys_rd
         /\ \A k \in RobIdx : Writer(k, r) /\ Age(k) < a => Age(k) <= Age(j)
    \/ /\ p = rrat[r]
       /\ \A j \in RobIdx : Writer(j, r) => Age(j) >= a

(***************************************************************************)
(* The rat is the rrat brought up to date by the live instructions, and    *)
(* the old_phys of each one is the mapping it replaced.  So undoing any    *)
(* suffix of the ROB, which is how ooo_flush_after recovers (ooo.c:275),   *)
(* gives the mapping at the branch, and undoing all of it gives rrat.      *)
(***************************************************************************)
RatConsistent ==
    /\ \A r \in ArchRegs : MapsTo(r, rob_count, rat[r])
    /\ \A i \in Writers : MapsTo(rob[i].arch_rd, Age(i), rob[i].old_phys)
    /\ rat[0] = 0 /\ rrat[0] = 0

(***************************************************************************)
(* The bitmasks agree with the stations they summarise (ooo.h:138-145,     *)
(* "Bit i set <-> ..."), although four stages update them incrementally.   *)
(***************************************************************************)
MasksExact ==
    /\ rs_free_mask = {k \in RsIdx : ~rs[k].valid}
    /\ \A eu \in EuTypes :
         rs_ready_mask[eu] = {k \in RsIdx : /\ rs[k].valid /\ rs[k].eu_type = eu
                                            /\ rs[k].src1.ready /\ rs[k].src2.ready}

(***************************************************************************)
(* No lost wakeup: an operand still waiting in a station waits for the     *)
(* destination of an older live instruction that has not executed, so that *)
(* its broadcast (cdb_broadcast) is still to come.                         *)
(***************************************************************************)
WaitsForLiveProducer(k, src) ==
    rs[k].valid /\ ~src.ready =>
      /\ ~prf[src.ptag].ready
      /\ \E i \in Writers : /\ rob[i].phys_rd = src.ptag
                             /\ ~rob[i].ready
                             /\ rob_newer_than(rs[k].rob_idx, i)

NoLostWakeup ==
    \A k \in RsIdx : WaitsForLiveProducer(k, rs[k].src1) /\ WaitsForLiveProducer(k, rs[k].src2)

(***************************************************************************)
(* Each live instruction that has not executed is in exactly one station   *)
(* or unit latch, and those hold nothing else: nothing executes twice, is  *)
(* forgotten, or survives its flush.                                       *)
(***************************************************************************)
Holders(i) ==
    Cardinality({k \in RsIdx : rs[k].valid /\ rs[k].rob_idx = i})
  + Cardinality({s \in IntSlots : latch_int[s].valid /\ latch_int[s].rob_idx = i})
  + Cardinality({s \in MulSlots : latch_mul[s].valid /\ latch_mul[s].rob_idx = i})

InFlightOnce ==
    \A i \in RobIdx : Holders(i) = IF rob[i].valid /\ ~rob[i].ready THEN 1 ELSE 0

(***************************************************************************)
(* The committed machine, and the engine as an implementation of the       *)
(* functional simulator: every commit is one exec_once and nothing else    *)
(* changes registers, pc or CSRs (ooo.c:66, "any mismatch is a bug").      *)
(* ebreak stops the engine before it commits; a panic stops it early.      *)
(***************************************************************************)
Committed == [gpr |-> gpr, pc |-> pc, csr |-> csr_committed, state |-> "RUNNING"]

Ref == INSTANCE Isa WITH pc <- IF state = "END" THEN Snpc(pc) ELSE pc,
                         csr <- csr_committed,
                         state <- IF state = "END" THEN "END" ELSE "RUNNING"

ImplementsIsa == Ref!IsaSpec

(***************************************************************************)
(* The panic at commit (ooo.c:433, "this must never happen on the correct  *)
(* path") reports a fault of the program, never one of a wrong path: the   *)
(* instruction at cpu.pc is invalid or jumps out of memory.                *)
(***************************************************************************)
PanicIsGenuine ==
    state = "PANIC" => prog[pc].op = "inv" \/ StepOf(prog, Committed).pc = BadPc

(***************************************************************************)
(* CSR writes and the end of the program happen at execute, not at commit; *)
(* serialisation in ooo_stage_rn makes them happen only for the oldest     *)
(* instruction, which is the one at cpu.pc and cannot be squashed.         *)
(***************************************************************************)
EffectsNotSpeculative ==
    [][csr' # csr \/ (state' # state /\ state' = "END") =>
         \E s \in IntSlots : /\ latch_int[s].valid /\ ~latch_int'[s].valid
                              /\ latch_int[s].rob_idx = rob_head
                              /\ rob[rob_head].pc = pc]_vars

(***************************************************************************)
(* Every run comes to its end: the engine never wedges on a full ROB, a    *)
(* full set of stations, an empty free list, a serialising instruction or  *)
(* an operand that never arrives.  (For programs that terminate.)          *)
(***************************************************************************)
RunEnds == <>(state # "RUNNING" \/ pc = BadPc)
=============================================================================
