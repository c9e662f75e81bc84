-------------------------- MODULE OooCoreRenaming ---------------------------
(***************************************************************************)
(* The renaming of OooCore, for every program and every size of the        *)
(* structures: the ring, the types each stage leaves, and the renaming     *)
(* invariant through every step.                                           *)
(*                                                                         *)
(* The facts about finite sets that the proofs need are gathered in        *)
(* SetLaws and FlushCounts, which the lemmas assume; module OooCoreProofs  *)
(* proves them from the library and discharges them.                       *)
(***************************************************************************)
EXTENDS OooCore, TLAPS

SetLaws ==
    /\ \A S \in SUBSET Nat : S # {} => \E m \in S : \A x \in S : m <= x
    /\ \A S \in SUBSET PhysRegs :
         /\ Cardinality(S) \in 0 .. NUM_PHYS_REGS
         /\ \A x \in PhysRegs \ S : Cardinality(S \cup {x}) = Cardinality(S) + 1
         /\ \A x \in S : Cardinality(S \ {x}) = Cardinality(S) - 1

(* A remainder is below its modulus: what % WORD does to a result. *)
LEMMA ModRange == ASSUME NEW a \in Int, NEW n \in Nat \ {0}
                  PROVE  a % n \in 0 .. n - 1
OBVIOUS

(* A function on 1 .. n is a sequence of length n. *)
LEMMA FunctionIsSequence ==
    ASSUME NEW S, NEW n \in Nat, NEW f \in [1 .. n -> S]
    PROVE  f \in Seq(S) /\ Len(f) = n
OBVIOUS

(* What the executors of ir.c leave is well typed. *)
LEMMA ExecuteType ==
    ASSUME NEW inst \in Insts, NEW p \in ValidPc, NEW v1 \in Words, NEW v2 \in Words,
           NEW c \in CSRs, NEW st \in States
    PROVE  Execute(inst, p, v1, v2, c, st) \in
             [result : Words, dnpc : Pcs, fault : BOOLEAN, csr : CSRs, state : States]
<1> USE Zenon
<1> DEFINE R == [result : Words, dnpc : Pcs, fault : BOOLEAN, csr : CSRs, state : States]
<1>1. Snpc(p) \in Pcs /\ Snpc(p) \in Words /\ p \in Words /\ inst.imm \in Words /\ 0 \in Words
  BY SMT, IsaAssumption DEF Snpc, Pcs, BadPc, ValidPc, Words, Insts
<1>2. \A w \in Words : ToPc(w) \in Pcs
  BY IsaAssumption DEF ToPc, Pcs
<1>3. (v1 + v2) % WORD \in Words /\ (v1 * v2) % WORD \in Words
  <2>1. v1 + v2 \in Int /\ v1 * v2 \in Int /\ WORD \in Nat \ {0}
    BY SMT, IsaAssumption DEF Words
  <2> QED BY <2>1, ModRange DEF Words
<1>4. \A n \in Words : read_csr(c, n) \in Words
  BY SMT, IsaAssumption DEF read_csr, CSRs, BADBEEF, Words
<1>5. \A n, d \in Words : set_csr(c, n, d) \in CSRs
  BY DEF set_csr, CSRs
<1>6. MTVEC \in CsrNos /\ MEPC \in CsrNos
  BY DEF CsrNos
<1>7. read_csr(c, MTVEC) \in Words /\ read_csr(c, MEPC) \in Words
  BY <1>6 DEF read_csr, CSRs
<1>8. set_csr(c, MEPC, p) \in CSRs
  BY <1>6, <1>1 DEF set_csr, CSRs
<1>9. inst.op \in Ops
  BY DEF Insts
<1>10. Execute(inst, p, v1, v2, c, st) \in R
  <2> USE DEF Execute
  <2>1. CASE inst.op = "add"    BY <2>1, <1>1, <1>3
  <2>2. CASE inst.op = "mul"    BY <2>2, <1>1, <1>3
  <2>3. CASE inst.op = "beq"    BY <2>3, <1>1, <1>2
  <2>4. CASE inst.op = "jal"    BY <2>4, <1>1, <1>2
  <2>5. CASE inst.op = "jalr"   BY <2>5, <1>1, <1>2, <1>3
  <2>6. CASE inst.op = "csrrw"  BY <2>6, <1>1, <1>4, <1>5
  <2>7. CASE inst.op = "ecall"  BY <2>7, <1>1, <1>2, <1>7, <1>8
  <2>8. CASE inst.op = "mret"   BY <2>8, <1>1, <1>2, <1>7
  <2>9. CASE inst.op = "ebreak" BY <2>9, <1>1 DEF States
  <2>10. CASE inst.op = "inv"   BY <2>10, <1>1
  <2> QED BY <1>9, <2>1, <2>2, <2>3, <2>4, <2>5, <2>6, <2>7, <2>8, <2>9, <2>10 DEF Ops
<1> QED BY <1>10

-----------------------------------------------------------------------------
(***************************************************************************)
(* The ring.                                                               *)
(***************************************************************************)

(* The slot at distance a from rob_head. *)
AtAge(a) == IF rob_head + a < ROB_SIZE THEN rob_head + a ELSE rob_head + a - ROB_SIZE

(* Age numbers the slots of the ring 0 .. ROB_SIZE-1, one to one. *)
LEMMA AgeBijective ==
    ASSUME rob_head \in RobIdx
    PROVE  /\ \A i \in RobIdx : Age(i) \in 0 .. ROB_SIZE - 1
           /\ \A i, j \in RobIdx : Age(i) = Age(j) => i = j
           /\ \A a \in 0 .. ROB_SIZE - 1 : AtAge(a) \in RobIdx /\ Age(AtAge(a)) = a
BY OooAssumption DEF RobIdx, Age, AtAge

(* OldestOf picks the member nearest to rob_head. *)
LEMMA OldestOfLeast ==
    ASSUME SetLaws, rob_head \in RobIdx, NEW S \in SUBSET RobIdx, S # {}
    PROVE  /\ OldestOf(S) \in S
           /\ \A j \in S : Age(OldestOf(S)) <= Age(j)
<1> USE Zenon
<1> DEFINE ages == {Age(i) : i \in S}
<1>1. \A i \in S : Age(i) \in Nat
  BY SMT, AgeBijective, OooAssumption
<1>2. ages \in SUBSET Nat /\ ages # {}
  BY <1>1
<1>3. PICK a \in ages : \A x \in ages : a <= x
  BY <1>2 DEF SetLaws
<1>4. \E i \in S : \A j \in S : Age(i) <= Age(j)
  BY <1>3
<1> QED BY <1>4 DEF OldestOf

-----------------------------------------------------------------------------
(***************************************************************************)
(* Types.                                                                  *)
(***************************************************************************)

(* The initial state of ooo_init is well typed. *)
LEMMA InitType == Init => TypeOK
<1> USE Zenon
<1> SUFFICES ASSUME Init PROVE TypeOK
  OBVIOUS
<1> USE IsaAssumption, OooAssumption
<1>1. /\ 0 \in Words /\ 0 \in ValidPc /\ 0 \in RobIdx /\ 0 \in PhysRegs /\ 0 \in ArchRegs
      /\ ArchRegs \subseteq PhysRegs
  BY SMT DEF Words, ValidPc, RobIdx, PhysRegs, ArchRegs
<1>2. prog \in [ValidPc -> Insts] /\ state \in States
  BY ProgramsAssumption DEF Init, IsaInit, States
<1>3. gpr \in [ArchRegs -> Words] /\ pc \in Pcs /\ csr \in CSRs /\ csr_committed \in CSRs
  BY <1>1 DEF Init, IsaInit, Pcs, CSRs
<1>4. /\ rat \in [ArchRegs -> PhysRegs] /\ rrat \in [ArchRegs -> PhysRegs]
      /\ freelist \in [regs : SUBSET PhysRegs, count : 0 .. NUM_PHYS_REGS]
  BY SMT, <1>1 DEF Init, PhysRegs
<1>5. prf \in [PhysRegs -> [value : Words, ready : BOOLEAN]]
  BY <1>1, <1>3 DEF Init
<1>6. /\ rob \in [RobIdx -> RobEntries]
      /\ rob_head \in RobIdx /\ rob_tail \in RobIdx /\ rob_count \in 0 .. ROB_SIZE
  BY SMT, <1>1 DEF Init, RobEntries, NoEntry, MaybePhys, Pcs
<1>7. /\ rs \in [RsIdx -> RsEntries]
      /\ rs_free_mask \in SUBSET RsIdx /\ rs_ready_mask \in [EuTypes -> SUBSET RsIdx]
  BY <1>1 DEF Init, RsEntries, NoRs, NoSrc, Sources, MaybePhys, EuTypes
<1>8. latch_int \in [IntSlots -> Latches] /\ latch_mul \in [MulSlots -> Latches]
  BY <1>1 DEF Init, Latches, NoLatch, MaybePhys
<1>9. /\ latch_if_id \in Seq(Fetched) /\ Len(latch_if_id) <= FETCH_WIDTH
      /\ latch_id_rn \in Seq(Fetched) /\ Len(latch_id_rn) <= FETCH_WIDTH
      /\ fetch_pc \in Pcs
  BY SMT, <1>3 DEF Init
<1> QED BY <1>2, <1>3, <1>4, <1>5, <1>6, <1>7, <1>8, <1>9 DEF TypeOK

(* Fetch keeps the types: the group stays inside memory. *)
LEMMA FetchType == ASSUME TypeOK, ooo_stage_if PROVE TypeOK'
<1> USE Zenon
<1>0. PICK k \in 1 .. FETCH_WIDTH : \E bp \in Predict(fetch_pc + k - 1) :
        /\ fetch_pc \in ValidPc /\ fetch_pc + k - 1 \in ValidPc
        /\ latch_if_id' = [j \in 1 .. k |-> [pc |-> fetch_pc + j - 1,
                                             bp |-> IF j = k THEN bp ELSE fetch_pc + j]]
        /\ fetch_pc' = bp
  BY DEF ooo_stage_if
<1>1. PICK bp \in Predict(fetch_pc + k - 1) :
        /\ fetch_pc \in ValidPc /\ fetch_pc + k - 1 \in ValidPc
        /\ latch_if_id' = [j \in 1 .. k |-> [pc |-> fetch_pc + j - 1,
                                             bp |-> IF j = k THEN bp ELSE fetch_pc + j]]
        /\ fetch_pc' = bp
  BY <1>0
<1>2. prog[fetch_pc + k - 1] \in Insts
  BY <1>1 DEF TypeOK
<1>3. bp \in Pcs
  <2>1. prog[fetch_pc + k - 1].imm \in Words
    BY <1>2 DEF Insts
  <2>2. Snpc(fetch_pc + k - 1) \in Pcs
    BY SMT, <1>1, IsaAssumption DEF Snpc, Pcs, ValidPc, BadPc
  <2>3. ToPc(prog[fetch_pc + k - 1].imm) \in Pcs
    BY <2>1 DEF ToPc, Pcs
  <2> QED BY <1>1, <2>2, <2>3 DEF Predict
<1>4. \A j \in 1 .. k : [pc |-> fetch_pc + j - 1, bp |-> IF j = k THEN bp ELSE fetch_pc + j]
                           \in Fetched
  BY SMT, <1>1, <1>3, OooAssumption, IsaAssumption DEF Fetched, ValidPc, Pcs
<1>5. latch_if_id' \in [1 .. k -> Fetched]
  BY <1>1, <1>4
<1>6. latch_if_id' \in Seq(Fetched) /\ Len(latch_if_id') = k
  BY SMT, <1>5, FunctionIsSequence, OooAssumption
<1> QED
  BY SMT, <1>1, <1>3, <1>6, OooAssumption
  DEF TypeOK, ooo_stage_if, archVars, renameVars, robVars, rsVars

(* Decode keeps the types. *)
LEMMA DecodeType == ASSUME TypeOK, ooo_stage_id PROVE TypeOK'
BY Zenon, OooAssumption DEF TypeOK, ooo_stage_id, archVars, renameVars, robVars, rsVars

(* Moving a station to a slot of a unit keeps the types. *)
LEMMA IssueType ==
    ASSUME TypeOK, NEW k \in RsIdx, FreeStation(k)
    PROVE  /\ LatchFrom(k) \in Latches
           /\ rs' \in [RsIdx -> RsEntries]
           /\ rs_free_mask' \in SUBSET RsIdx
           /\ rs_ready_mask' \in [EuTypes -> SUBSET RsIdx]
<1> USE Zenon
<1>1. rs[k] \in RsEntries /\ NoRs \in RsEntries
  <2>1. 0 \in Words /\ 0 \in PhysRegs /\ 0 \in RobIdx
    BY SMT, IsaAssumption, OooAssumption DEF Words, PhysRegs, RobIdx
  <2> QED BY <2>1 DEF TypeOK, NoRs, NoSrc, RsEntries, Sources, MaybePhys, EuTypes
<1>2. LatchFrom(k) \in Latches
  BY <1>1 DEF LatchFrom, RsEntries, Sources, Latches
<1>3. rs' \in [RsIdx -> RsEntries] /\ rs_free_mask' \in SUBSET RsIdx
  BY <1>1 DEF FreeStation, TypeOK
<1>4. rs_ready_mask' \in [EuTypes -> SUBSET RsIdx]
  BY DEF FreeStation, TypeOK
<1> QED BY <1>2, <1>3, <1>4

(* Issue keeps the types. *)
LEMMA IssueIntType == ASSUME TypeOK, NEW s \in IntSlots, IssueInt(s) PROVE TypeOK'
<1> USE Zenon
<1>1. PICK k \in RsIdx : /\ latch_int' = [latch_int EXCEPT ![s] = LatchFrom(k)]
                         /\ FreeStation(k)
  BY DEF IssueInt
<1>2. latch_int' \in [IntSlots -> Latches]
  BY <1>1, IssueType DEF TypeOK
<1> QED
  BY <1>1, <1>2, IssueType DEF TypeOK, IssueInt, archVars, renameVars, robVars, frontVars

(* Issue to the MUL unit keeps the types. *)
LEMMA IssueMulType == ASSUME TypeOK, NEW s \in MulSlots, IssueMul(s) PROVE TypeOK'
<1> USE Zenon
<1>1. PICK k \in RsIdx : /\ latch_mul' = [latch_mul EXCEPT ![s] = LatchFrom(k)]
                         /\ FreeStation(k)
  BY DEF IssueMul
<1>2. latch_mul' \in [MulSlots -> Latches]
  BY <1>1, IssueType DEF TypeOK
<1> QED
  BY <1>1, <1>2, IssueType DEF TypeOK, IssueMul, archVars, renameVars, robVars, frontVars

(* A result written back to the register file and broadcast to the stations is
   well typed. *)
LEMMA WritebackType ==
    ASSUME TypeOK, NEW p \in MaybePhys, NEW v \in Words
    PROVE  /\ PrfAfter(p, v) \in [PhysRegs -> [value : Words, ready : BOOLEAN]]
           /\ RsAfter(p, v) \in [RsIdx -> RsEntries]
           /\ MaskAfter(p, v) \in [EuTypes -> SUBSET RsIdx]
<1> USE Zenon
<1>1. PrfAfter(p, v) \in [PhysRegs -> [value : Words, ready : BOOLEAN]]
  BY DEF PrfAfter, TypeOK, MaybePhys, NoReg
<1>2. \A src \in Sources : Wake(src, p, v) \in Sources
  BY DEF Wake, Sources
<1>3. \A e \in RsEntries : [e EXCEPT !.src1 = Wake(@, p, v), !.src2 = Wake(@, p, v)] \in RsEntries
  BY <1>2 DEF RsEntries
<1>4. Woken(p, v) \in [RsIdx -> RsEntries]
  BY <1>3 DEF Woken, TypeOK
<1>5. ReadyAfter(p, v) \in [EuTypes -> SUBSET RsIdx]
  BY DEF ReadyAfter, TypeOK
<1> QED BY <1>1, <1>4, <1>5 DEF RsAfter, MaskAfter, TypeOK

(* The record type of an executed instruction. *)
IrType == [result : Words, dnpc : Pcs, fault : BOOLEAN, csr : CSRs, state : States]

(* What a unit computes for the instruction in its latch is well typed. *)
LEMMA LatchIrType ==
    ASSUME TypeOK, NEW l \in Latches
    PROVE  LatchIr(l) \in IrType
<1> USE Zenon
<1>1. rob[l.rob_idx] \in RobEntries /\ l.v1 \in Words /\ l.v2 \in Words
  BY DEF TypeOK, Latches
<1>2. rob[l.rob_idx].pc \in ValidPc
  BY <1>1 DEF RobEntries
<1>3. prog[rob[l.rob_idx].pc] \in Insts
  BY <1>2 DEF TypeOK
<1> QED BY <1>1, <1>2, <1>3, ExecuteType DEF LatchIr, Inst, IrType, TypeOK

(* Marking an entry executed keeps the type of the ROB. *)
LEMMA ExecutedType ==
    ASSUME TypeOK, NEW i \in RobIdx, NEW ir, ir.dnpc \in Pcs, ir.fault \in BOOLEAN
    PROVE  /\ Executed(i, ir) \in [RobIdx -> RobEntries]
           /\ \A j \in RobIdx : /\ Executed(i, ir)[j].valid = rob[j].valid
                                /\ Executed(i, ir)[j].arch_rd = rob[j].arch_rd
                                /\ Executed(i, ir)[j].phys_rd = rob[j].phys_rd
                                /\ Executed(i, ir)[j].old_phys = rob[j].old_phys
<1> USE Zenon
<1> DEFINE e == [rob[i] EXCEPT !.ready = TRUE, !.dnpc = ir.dnpc, !.fault = ir.fault]
<1>1. rob \in [RobIdx -> RobEntries] /\ rob[i] \in RobEntries
  BY DEF TypeOK
<1>2. Executed(i, ir) = [rob EXCEPT ![i] = e]
  BY <1>1 DEF Executed, RobEntries
<1>3. /\ e \in RobEntries
      /\ e.valid = rob[i].valid /\ e.arch_rd = rob[i].arch_rd
      /\ e.phys_rd = rob[i].phys_rd /\ e.old_phys = rob[i].old_phys
  BY <1>1 DEF RobEntries
<1> HIDE DEF e
<1> QED BY <1>1, <1>2, <1>3

(* The empty records are well typed. *)
LEMMA EmptyTypes == NoEntry \in RobEntries /\ NoRs \in RsEntries /\ NoLatch \in Latches
<1> USE Zenon
<1>1. /\ 0 \in Words /\ 0 \in ValidPc /\ 0 \in RobIdx /\ 0 \in PhysRegs
  BY SMT, IsaAssumption, OooAssumption DEF Words, ValidPc, RobIdx, PhysRegs
<1>2. NoEntry \in RobEntries
  BY <1>1 DEF NoEntry, RobEntries, MaybePhys, Pcs
<1>3. NoRs \in RsEntries
  BY <1>1 DEF NoRs, NoSrc, RsEntries, Sources, MaybePhys, EuTypes
<1>4. NoLatch \in Latches
  BY <1>1 DEF NoLatch, Latches, MaybePhys
<1> QED BY <1>2, <1>3, <1>4

(* Completing an instruction of the INT unit keeps the types. *)
LEMMA IntCompleteType == ASSUME TypeOK, NEW s \in IntSlots, IntComplete(s) PROVE TypeOK'
<1> USE Zenon
<1> DEFINE l == latch_int[s]
<1> DEFINE ir == LatchIr(l)
<1>1. l \in Latches /\ l.rob_idx \in RobIdx /\ l.phys_rd \in MaybePhys
  BY DEF TypeOK, Latches
<1>2. ir \in IrType
  BY <1>1, LatchIrType
<1>3. ir.result \in Words /\ ir.dnpc \in Pcs /\ ir.csr \in CSRs /\ ir.state \in States
  BY <1>2 DEF IrType
<1> DEFINE ir2 == [ir EXCEPT !.fault = @ \/ Mispredicted(l)]
<1>4. ir2.dnpc \in Pcs /\ ir2.fault \in BOOLEAN
  BY <1>2 DEF IrType
<1>5. rob' = Executed(l.rob_idx, ir2)
  BY DEF IntComplete
<1> HIDE DEF ir, ir2
<1>6. rob' \in [RobIdx -> RobEntries]
  BY <1>1, <1>4, <1>5, ExecutedType
<1>7. /\ prf' = PrfAfter(l.phys_rd, ir.result)
      /\ rs' = RsAfter(l.phys_rd, ir.result)
      /\ rs_ready_mask' = MaskAfter(l.phys_rd, ir.result)
      /\ latch_int' = [latch_int EXCEPT ![s] = NoLatch]
      /\ csr' = ir.csr /\ state' = ir.state
      /\ UNCHANGED <<prog, archVars, renameVars, rob_head, rob_tail, rob_count,
                     rs_free_mask, latch_mul, frontVars>>
  BY DEF IntComplete, ir
<1> HIDE DEF l
<1>8. /\ prf' \in [PhysRegs -> [value : Words, ready : BOOLEAN]]
      /\ rs' \in [RsIdx -> RsEntries] /\ rs_ready_mask' \in [EuTypes -> SUBSET RsIdx]
  BY <1>1, <1>3, <1>7, WritebackType
<1>9. latch_int' \in [IntSlots -> Latches]
  BY <1>7, EmptyTypes DEF TypeOK
<1> QED
  BY <1>3, <1>6, <1>7, <1>8, <1>9 DEF TypeOK, archVars, renameVars, frontVars

(* Completing an instruction of the MUL unit keeps the types. *)
LEMMA MulCompleteType == ASSUME TypeOK, NEW s \in MulSlots, MulComplete(s) PROVE TypeOK'
<1> USE Zenon
<1> DEFINE l == latch_mul[s]
<1> DEFINE ir == LatchIr(l)
<1>1. l \in Latches /\ l.rob_idx \in RobIdx /\ l.phys_rd \in MaybePhys
  BY DEF TypeOK, Latches
<1>2. ir \in IrType
  BY <1>1, LatchIrType
<1>3. ir.result \in Words /\ ir.dnpc \in Pcs /\ ir.fault \in BOOLEAN
  BY <1>2 DEF IrType
<1>4. /\ prf' = PrfAfter(l.phys_rd, ir.result)
      /\ rs' = RsAfter(l.phys_rd, ir.result)
      /\ rs_ready_mask' = MaskAfter(l.phys_rd, ir.result)
      /\ rob' = Executed(l.rob_idx, ir)
      /\ latch_mul' = [latch_mul EXCEPT ![s] = NoLatch]
      /\ UNCHANGED <<prog, csr, state, archVars, renameVars, rob_head, rob_tail, rob_count,
                     rs_free_mask, latch_int, frontVars>>
  BY DEF MulComplete
<1> HIDE DEF l, ir
<1>5. rob' \in [RobIdx -> RobEntries]
  BY <1>1, <1>3, <1>4, ExecutedType
<1>6. /\ prf' \in [PhysRegs -> [value : Words, ready : BOOLEAN]]
      /\ rs' \in [RsIdx -> RsEntries] /\ rs_ready_mask' \in [EuTypes -> SUBSET RsIdx]
  BY <1>1, <1>3, <1>4, WritebackType
<1>7. latch_mul' \in [MulSlots -> Latches]
  BY <1>4, EmptyTypes DEF TypeOK
<1> QED
  BY <1>4, <1>5, <1>6, <1>7 DEF TypeOK, archVars, renameVars, frontVars

(* A panic changes only the state. *)
LEMMA PanicType == ASSUME TypeOK, CommitPanic PROVE TypeOK'
BY Zenon DEF TypeOK, CommitPanic, States, archVars, renameVars, robVars, rsVars, frontVars

(* The station rename takes is a free one. *)
LEMMA LowestFreeRsType ==
    ASSUME SetLaws, TypeOK, rs_free_mask # {}
    PROVE  LowestFreeRs \in rs_free_mask /\ LowestFreeRs \in RsIdx
<1>1. rs_free_mask \in SUBSET Nat /\ rs_free_mask \subseteq RsIdx
  BY OooAssumption DEF TypeOK, RsIdx
<1>2. \E k \in rs_free_mask : \A l \in rs_free_mask : k <= l
  BY Zenon, <1>1 DEF SetLaws
<1> QED BY Zenon, <1>1, <1>2 DEF LowestFreeRs

(* What one iteration of ooo_stage_rn does to the ROB and the maps. *)
Renamed(f, phys_rd) ==
    /\ rob_count < ROB_SIZE
    /\ rob' = [rob EXCEPT ![rob_tail] = RobEntryFor(f, phys_rd)]
    /\ rob_tail' = Inc(rob_tail)
    /\ rob_count' = rob_count + 1
    /\ UNCHANGED <<rrat, rob_head>>
    /\ IF Renames(prog[f.pc].rd)
       THEN /\ phys_rd \in freelist.regs
            /\ freelist.count > 0
            /\ freelist' = [regs |-> freelist.regs \ {phys_rd}, count |-> freelist.count - 1]
            /\ rat' = [rat EXCEPT ![prog[f.pc].rd] = phys_rd]
       ELSE UNCHANGED <<freelist, rat>>

(* Rename keeps the types, and acts on the ROB and the maps as Renamed says. *)
LEMMA RenameType ==
    ASSUME SetLaws, TypeOK, ooo_stage_rn
    PROVE  /\ TypeOK'
           /\ \E f \in Fetched, phys_rd \in MaybePhys : Renamed(f, phys_rd)
<1> USE Zenon
<1> DEFINE f == Head(latch_id_rn)
<1> DEFINE inst == prog[f.pc]
<1> DEFINE k == LowestFreeRs
<1>1. f \in Fetched /\ Tail(latch_id_rn) \in Seq(Fetched) /\ Len(Tail(latch_id_rn)) <= FETCH_WIDTH
  <2>1. latch_id_rn \in Seq(Fetched) /\ latch_id_rn # <<>> /\ Len(latch_id_rn) <= FETCH_WIDTH
    BY DEF ooo_stage_rn, TypeOK
  <2>2. Len(latch_id_rn) \in Nat /\ Len(Tail(latch_id_rn)) = Len(latch_id_rn) - 1
    BY SMT, <2>1
  <2> QED BY SMT, <2>1, <2>2, OooAssumption
<1>2. f.pc \in ValidPc /\ f.bp \in Pcs /\ inst \in Insts
  BY <1>1 DEF Fetched, TypeOK
<1>3. /\ inst.rd \in ArchRegs \cup {NoReg} /\ inst.rs1 \in ArchRegs \cup {NoReg}
      /\ inst.rs2 \in ArchRegs \cup {NoReg} /\ inst.imm \in Words
  BY <1>2 DEF Insts
<1>4. PICK phys_rd \in DestChoices(inst) :
        /\ rob' = [rob EXCEPT ![rob_tail] = RobEntryFor(f, phys_rd)]
        /\ RenameDest(inst, phys_rd)
        /\ rs' = [rs EXCEPT ![k] = RsEntryFor(f, phys_rd)]
  BY DEF ooo_stage_rn
<1>5. CanRename(inst)
  BY DEF ooo_stage_rn
<1>6. k \in RsIdx
  BY <1>5, LowestFreeRsType DEF CanRename
<1>7. 0 \in Words /\ 0 \in PhysRegs /\ 0 \in ValidPc
  BY SMT, IsaAssumption, OooAssumption DEF Words, PhysRegs, ValidPc
<1>8. phys_rd \in MaybePhys /\ (Renames(inst.rd) => phys_rd \in freelist.regs /\ phys_rd \in PhysRegs)
  BY <1>4, <1>7 DEF DestChoices, MaybePhys, TypeOK
<1> HIDE DEF f, inst, k
<1>9. Renames(inst.rd) => inst.rd \in ArchRegs /\ rat[inst.rd] \in PhysRegs
  BY <1>3 DEF Renames, TypeOK
<1>10. RobEntryFor(f, phys_rd) \in RobEntries
  BY <1>2, <1>3, <1>7, <1>8, <1>9 DEF RobEntryFor, NoEntry, RobEntries, MaybePhys, Pcs, inst
<1>11. rob' \in [RobIdx -> RobEntries]
  BY <1>4, <1>10 DEF TypeOK
<1>12. \A r \in ArchRegs \cup {NoReg} : Source(r, inst.imm) \in Sources
  <2> SUFFICES ASSUME NEW r \in ArchRegs \cup {NoReg} PROVE Source(r, inst.imm) \in Sources
    OBVIOUS
  <2>1. CASE r \in {NoReg, 0}
    BY <2>1, <1>3, <1>7 DEF Source, Sources
  <2>2. CASE r \notin {NoReg, 0}
    <3>1. rat[r] \in PhysRegs /\ prf[rat[r]] \in [value : Words, ready : BOOLEAN]
      BY <2>2 DEF TypeOK
    <3> QED BY <3>1, <2>2, <1>7 DEF Source, Sources
  <2> QED BY <2>1, <2>2
<1>13. rs' \in [RsIdx -> RsEntries]
  <2>1. RsEntryFor(f, phys_rd) \in RsEntries
    BY <1>3, <1>8, <1>12 DEF RsEntryFor, RsEntries, EuType, EuTypes, TypeOK, inst
  <2> QED BY <2>1, <1>4, <1>6 DEF TypeOK
<1>14. /\ rob_tail' = Inc(rob_tail)
       /\ rob_count' = rob_count + 1
       /\ rs_free_mask' = rs_free_mask \ {k}
       /\ rs_ready_mask' =
             [rs_ready_mask EXCEPT ![EuType(inst)] =
                IF Source(inst.rs1, inst.imm).ready /\ Source(inst.rs2, inst.imm).ready
                THEN @ \cup {k} ELSE @ \ {k}]
       /\ latch_id_rn' = Tail(latch_id_rn)
       /\ UNCHANGED <<prog, csr, state, archVars, rrat, rob_head, latch_int, latch_mul,
                      latch_if_id, fetch_pc>>
  BY DEF ooo_stage_rn, f, inst, k
<1>15. rs_free_mask' \in SUBSET RsIdx /\ rs_ready_mask' \in [EuTypes -> SUBSET RsIdx]
  BY <1>6, <1>14 DEF TypeOK
<1>16. rob_tail' \in RobIdx /\ rob_count' \in 0 .. ROB_SIZE /\ rob_count < ROB_SIZE
  <2>1. rob_tail \in RobIdx /\ rob_count \in 0 .. ROB_SIZE /\ rob_count < ROB_SIZE
    BY <1>5 DEF TypeOK, CanRename
  <2>2. Inc(rob_tail) \in RobIdx
    BY SMT, <2>1, OooAssumption DEF Inc, RobIdx
  <2>3. rob_count + 1 \in 0 .. ROB_SIZE
    BY SMT, <2>1, OooAssumption
  <2> QED BY <1>14, <2>1, <2>2, <2>3
<1>17. /\ freelist' \in [regs : SUBSET PhysRegs, count : 0 .. NUM_PHYS_REGS]
       /\ rat' \in [ArchRegs -> PhysRegs]
       /\ prf' \in [PhysRegs -> [value : Words, ready : BOOLEAN]]
  <2>1. CASE Renames(inst.rd)
    <3>1. freelist.count > 0 /\ freelist.count \in 0 .. NUM_PHYS_REGS
      BY <1>5, <2>1 DEF CanRename, TypeOK
    <3>2. freelist' \in [regs : SUBSET PhysRegs, count : 0 .. NUM_PHYS_REGS]
      BY SMT, <1>4, <2>1, <3>1, OooAssumption DEF RenameDest, TypeOK
    <3>3. rat' = [rat EXCEPT ![inst.rd] = phys_rd] /\ rat' \in [ArchRegs -> PhysRegs]
      BY <1>4, <1>8, <1>9, <2>1 DEF RenameDest, TypeOK
    <3>4. prf' = [prf EXCEPT ![phys_rd] = [value |-> 0, ready |-> FALSE]]
      BY <1>4, <2>1 DEF RenameDest
    <3>5. prf' \in [PhysRegs -> [value : Words, ready : BOOLEAN]]
      BY <1>7, <3>4 DEF TypeOK
    <3> QED BY <3>2, <3>3, <3>5
  <2>2. CASE ~Renames(inst.rd)
    BY <1>4, <2>2 DEF RenameDest, TypeOK
  <2> QED BY <2>1, <2>2
<1>18. TypeOK'
  BY <1>1, <1>11, <1>13, <1>14, <1>15, <1>16, <1>17 DEF TypeOK, archVars, f
<1>19. Renamed(f, phys_rd)
  BY <1>4, <1>5, <1>8, <1>14, <1>16 DEF Renamed, RenameDest, CanRename, inst
<1> QED BY <1>1, <1>8, <1>18, <1>19 DEF f

-----------------------------------------------------------------------------
(***************************************************************************)
(* The inductive invariant.  RegPartition alone is not inductive: what a   *)
(* flush puts back in the rat is old_phys, and what a commit frees is      *)
(* old_phys, so RatConsistent is needed to know which register that is;    *)
(* and both need RobContiguous to know which entries the walk visits.      *)
(***************************************************************************)
IInv == TypeOK /\ RobContiguous /\ RegPartition /\ RatConsistent

(* MapsTo reads only the older writers of r: it carries over to a next state
   with the same ones. *)
LEMMA MapsToTransfer ==
    ASSUME NEW r, NEW a, NEW a2, NEW p,
           MapsTo(r, a, p), rrat'[r] = rrat[r], a \in Int, a2 \in Int,
           \A k \in RobIdx : Age(k) \in Int /\ Age(k)' = Age(k),
           \A k \in RobIdx : Writer(k, r)' /\ Age(k) < a2 <=> Writer(k, r) /\ Age(k) < a,
           \A k \in RobIdx : Writer(k, r) /\ Age(k) < a => rob'[k].phys_rd = rob[k].phys_rd
    PROVE  MapsTo(r, a2, p)'
<1> USE Zenon
<1>1. CASE \E j \in RobIdx :
             /\ Writer(j, r) /\ Age(j) < a /\ p = rob[j].phys_rd
             /\ \A k \in RobIdx : Writer(k, r) /\ Age(k) < a => Age(k) <= Age(j)
  <2>1. PICK j \in RobIdx :
             /\ Writer(j, r) /\ Age(j) < a /\ p = rob[j].phys_rd
             /\ \A k \in RobIdx : Writer(k, r) /\ Age(k) < a => Age(k) <= Age(j)
    BY <1>1
  <2>2. Writer(j, r)' /\ Age(j)' < a2 /\ p = rob'[j].phys_rd
    BY <2>1
  <2>3. \A k \in RobIdx : Writer(k, r)' /\ Age(k)' < a2 => Age(k)' <= Age(j)'
    BY <2>1
  <2> QED BY <2>2, <2>3 DEF MapsTo
<1>2. CASE p = rrat[r] /\ \A j \in RobIdx : Writer(j, r) => Age(j) >= a
  <2>1. \A j \in RobIdx : Writer(j, r)' => Age(j)' >= a2
    BY SMT, <1>2
  <2> QED BY <1>2, <2>1 DEF MapsTo
<1> QED BY <1>1, <1>2 DEF MapsTo

(* A step that leaves the maps and the renaming fields of the ROB alone keeps
   the renaming invariants. *)
LEMMA Frame ==
    ASSUME IInv, UNCHANGED <<renameVars, rob_head, rob_tail, rob_count>>,
           \A j \in RobIdx : /\ rob'[j].valid = rob[j].valid
                             /\ rob'[j].arch_rd = rob[j].arch_rd
                             /\ rob'[j].phys_rd = rob[j].phys_rd
                             /\ rob'[j].old_phys = rob[j].old_phys
    PROVE  RobContiguous' /\ RegPartition' /\ RatConsistent'
<1> USE Zenon
<1>1. \A i \in RobIdx : Age(i)' = Age(i)
  BY DEF Age
<1>2. Writers' = Writers
  BY DEF Writers
<1>3. \A r : \A i \in RobIdx : Writer(i, r)' <=> Writer(i, r)
  BY DEF Writer
<1>4. RobContiguous'
  BY <1>1 DEF RobContiguous, IInv
<1>5. RegPartition'
  <2>1. {rob'[i].phys_rd : i \in Writers'} = {rob[i].phys_rd : i \in Writers}
    BY <1>2 DEF Writers
  <2>2. \A i \in Writers : rob'[i].phys_rd = rob[i].phys_rd
    BY DEF Writers
  <2> QED BY SMT, <1>2, <2>1, <2>2 DEF RegPartition, IInv, renameVars
<1>6. \A r \in ArchRegs : MapsTo(r, rob_count, rat[r])'
  <2> SUFFICES ASSUME NEW r \in ArchRegs PROVE MapsTo(r, rob_count, rat[r])'
    OBVIOUS
  <2>1. MapsTo(r, rob_count, rat[r])
    BY DEF IInv, RatConsistent
  <2> QED BY <1>1, <1>3, <2>1 DEF MapsTo, renameVars
<1>7. \A i \in Writers' : MapsTo(rob[i].arch_rd, Age(i), rob[i].old_phys)'
  <2> SUFFICES ASSUME NEW i \in Writers' PROVE MapsTo(rob[i].arch_rd, Age(i), rob[i].old_phys)'
    OBVIOUS
  <2>1. i \in RobIdx /\ MapsTo(rob[i].arch_rd, Age(i), rob[i].old_phys)
    BY <1>2 DEF IInv, RatConsistent, Writers
  <2>2. /\ Age(i)' = Age(i) /\ rob'[i].arch_rd = rob[i].arch_rd
        /\ rob'[i].old_phys = rob[i].old_phys /\ rrat' = rrat
    BY <1>1, <2>1 DEF renameVars
  <2> QED BY SMT, <1>1, <1>3, <2>1, <2>2 DEF MapsTo
<1>8. RatConsistent'
  BY <1>6, <1>7 DEF RatConsistent, IInv, renameVars
<1> QED BY <1>4, <1>5, <1>8

(* Live writers: their registers are in range, and differ from p0. *)
LEMMA WriterFacts ==
    ASSUME IInv, NEW i \in Writers
    PROVE  /\ i \in RobIdx /\ rob[i].valid /\ Age(i) < rob_count
           /\ rob[i].arch_rd \in ArchRegs /\ rob[i].arch_rd # 0
           /\ rob[i].phys_rd \in PhysRegs
           /\ MapsTo(rob[i].arch_rd, Age(i), rob[i].old_phys)
<1> USE Zenon
<1>1. i \in RobIdx /\ rob[i].valid /\ Renames(rob[i].arch_rd) /\ rob[i] \in RobEntries
  BY DEF IInv, TypeOK, Writers
<1>2. rob[i].arch_rd \in ArchRegs /\ rob[i].arch_rd # 0
  BY <1>1 DEF Renames, RobEntries
<1>3. rob[i].phys_rd \in PhysRegs
  BY DEF IInv, RegPartition
<1> QED BY <1>1, <1>2, <1>3 DEF IInv, RatConsistent, RobContiguous

(* Rename keeps the invariant. *)
LEMMA RenameStep == ASSUME SetLaws, IInv, ooo_stage_rn PROVE IInv'
<1> USE Zenon
<1>1. TypeOK /\ TypeOK'
  BY RenameType DEF IInv
<1>2. PICK f \in Fetched, phys_rd \in MaybePhys : Renamed(f, phys_rd)
  BY RenameType DEF IInv
<1> PICK rd : rd = prog[f.pc].rd
  OBVIOUS
<1>3. rob_tail \in RobIdx /\ rob_head \in RobIdx /\ rob_count \in 0 .. ROB_SIZE /\ rob_count < ROB_SIZE
  BY <1>1, <1>2 DEF TypeOK, Renamed
<1> PICK t \in RobIdx : t = rob_tail
  BY <1>3
<1>4. Age(t) = rob_count /\ ~rob[t].valid
  BY SMT, <1>3, OooAssumption DEF IInv, RobContiguous, Age, RobIdx
<1>5. \A i \in RobIdx : Age(i)' = Age(i) /\ Age(i) \in 0 .. ROB_SIZE - 1
  BY <1>2, <1>3, AgeBijective DEF Age, Renamed
<1>6. /\ rob'[t].valid /\ rob'[t].arch_rd = rd /\ rob'[t].phys_rd = phys_rd
      /\ rob'[t].old_phys = IF Renames(rd) THEN rat[rd] ELSE phys_rd
      /\ \A i \in RobIdx \ {t} : rob'[i] = rob[i]
  BY <1>1, <1>2, <1>3 DEF Renamed, RobEntryFor, NoEntry, TypeOK
<1>7. RobContiguous'
  <2>1. \A i \in RobIdx : rob'[i].valid <=> Age(i)' < rob_count'
    <3> SUFFICES ASSUME NEW i \in RobIdx PROVE rob'[i].valid <=> Age(i) < rob_count + 1
      BY <1>2, <1>5 DEF Renamed
    <3>1. CASE i = t  BY SMT, <3>1, <1>3, <1>4, <1>6
    <3>2. CASE i # t
      <4>1. Age(i) # rob_count
        BY <3>2, <1>3, <1>4, AgeBijective
      <4> QED BY SMT, <4>1, <3>2, <1>3, <1>5, <1>6 DEF IInv, RobContiguous
    <3> QED BY <3>1, <3>2
  <2>2. rob_tail' = IF rob_head' + rob_count' < ROB_SIZE THEN rob_head' + rob_count'
                    ELSE rob_head' + rob_count' - ROB_SIZE
    BY SMT, <1>2, <1>3, OooAssumption DEF IInv, RobContiguous, Renamed, Inc, RobIdx
  <2> QED BY <2>1, <2>2 DEF RobContiguous
<1>8. \A r : \A k \in RobIdx : Writer(k, r) => /\ rob'[k].phys_rd = rob[k].phys_rd
                                               /\ Age(k) < rob_count /\ k # t
  <2> SUFFICES ASSUME NEW r, NEW k \in RobIdx, Writer(k, r)
               PROVE  rob'[k].phys_rd = rob[k].phys_rd /\ Age(k) < rob_count /\ k # t
    OBVIOUS
  <2>1. rob[k].valid
    BY DEF Writer
  <2>2. Age(k) < rob_count
    BY <2>1 DEF IInv, RobContiguous
  <2> QED BY <1>4, <1>6, <2>1, <2>2
(* The new entry is the youngest, so a mapping carries over to an age below
   which it brings no writer. *)
<1>9. ASSUME NEW r, NEW a \in Int, NEW a2 \in Int, NEW p, MapsTo(r, a, p),
             \A k \in RobIdx : Writer(k, r)' /\ Age(k) < a2 <=> Writer(k, r) /\ Age(k) < a
      PROVE  MapsTo(r, a2, p)'
  <2>1. rrat'[r] = rrat[r]
    BY <1>2 DEF Renamed
  <2>2. \A k \in RobIdx : Age(k) \in Int /\ Age(k)' = Age(k)
    BY SMT, <1>5
  <2>3. \A k \in RobIdx : Writer(k, r) /\ Age(k) < a => rob'[k].phys_rd = rob[k].phys_rd
    BY <1>8
  <2> QED BY <1>9, <2>1, <2>2, <2>3, MapsToTransfer
<1> PICK n \in Int : n = rob_count /\ n + 1 = rob_count' /\ n + 1 \in Int
  BY SMT, <1>2, <1>3 DEF Renamed
<1>10. CASE ~Renames(rd)
  <2>1. rat' = rat /\ rrat' = rrat /\ freelist' = freelist
    BY <1>2, <1>10 DEF Renamed
  <2>2. Writers' = Writers /\ \A i \in Writers : rob'[i] = rob[i]
    <3>1. ~Renames(rob'[t].arch_rd) /\ ~rob[t].valid
      BY <1>4, <1>6, <1>10
    <3>2. \A i \in RobIdx : i # t => rob'[i] = rob[i]
      BY <1>6
    <3> QED BY <3>1, <3>2 DEF Writers
  <2>3. RegPartition'
    <3>1. {rob'[i].phys_rd : i \in Writers'} = {rob[i].phys_rd : i \in Writers}
      BY <2>2
    <3>2. \A i \in Writers : rob'[i].phys_rd = rob[i].phys_rd
      BY <2>2
    <3> QED BY SMT, <2>1, <2>2, <3>1, <3>2 DEF IInv, RegPartition
  <2>4. \A r : \A k \in RobIdx : Writer(k, r)' <=> Writer(k, r)
    <3>1. ~Renames(rob'[t].arch_rd) /\ ~rob[t].valid
      BY <1>4, <1>6, <1>10
    <3>2. \A i \in RobIdx : i # t => rob'[i] = rob[i]
      BY <1>6
    <3> QED BY <3>1, <3>2 DEF Writer
  <2>5. \A r \in ArchRegs : MapsTo(r, rob_count, rat[r])'
    <3> SUFFICES ASSUME NEW r \in ArchRegs PROVE MapsTo(r, rob_count, rat[r])'
      OBVIOUS
    <3> PICK p : p = rat[r]
      OBVIOUS
    <3>1. MapsTo(r, n, p)
      BY DEF IInv, RatConsistent
    <3>2. \A k \in RobIdx : Writer(k, r)' /\ Age(k) < n + 1 <=> Writer(k, r) /\ Age(k) < n
      BY SMT, <1>5, <1>8, <2>4
    <3>3. MapsTo(r, n + 1, p)'
      BY <1>9, <3>1, <3>2
    <3> QED BY <2>1, <3>3 DEF MapsTo
  <2>6. \A i \in Writers' : MapsTo(rob[i].arch_rd, Age(i), rob[i].old_phys)'
    <3> SUFFICES ASSUME NEW i \in Writers PROVE MapsTo(rob[i].arch_rd, Age(i), rob[i].old_phys)'
      BY <2>2
    <3>1. i \in RobIdx /\ MapsTo(rob[i].arch_rd, Age(i), rob[i].old_phys)
      BY WriterFacts
    <3> PICK r : r = rob[i].arch_rd
      OBVIOUS
    <3> PICK p : p = rob[i].old_phys
      OBVIOUS
    <3> PICK a \in Int : a = Age(i)
      BY SMT, <1>5, <3>1
    <3>2. \A k \in RobIdx : Writer(k, r)' /\ Age(k) < a <=> Writer(k, r) /\ Age(k) < a
      BY <2>4
    <3>3. MapsTo(r, a, p)'
      BY <1>9, <3>1, <3>2
    <3>4. Age(i)' = a /\ rob'[i].arch_rd = r /\ rob'[i].old_phys = p
      BY <1>5, <2>2, <3>1
    <3> QED BY <3>3, <3>4 DEF MapsTo
  <2>7. RatConsistent'
    BY <2>1, <2>5, <2>6 DEF RatConsistent, IInv
  <2> QED BY <1>1, <1>7, <2>3, <2>7 DEF IInv
<1>11. CASE Renames(rd)
  <2>1. /\ phys_rd \in freelist.regs /\ freelist.count > 0
        /\ freelist' = [regs |-> freelist.regs \ {phys_rd}, count |-> freelist.count - 1]
        /\ rat' = [rat EXCEPT ![rd] = phys_rd] /\ rrat' = rrat
    BY <1>2, <1>11 DEF Renamed
  <2>2. rd \in ArchRegs /\ rd # 0
    <3>1. f.pc \in ValidPc
      BY DEF Fetched
    <3>2. prog[f.pc] \in Insts
      BY <1>1, <3>1 DEF TypeOK
    <3> QED BY <1>11, <3>2 DEF Renames, Insts
  <2>3. /\ Writers' = Writers \cup {t} /\ t \notin Writers
        /\ \A i \in Writers : rob'[i] = rob[i]
    <3>1. rob'[t].valid /\ Renames(rob'[t].arch_rd) /\ ~rob[t].valid
      BY <1>4, <1>6, <1>11
    <3>2. \A i \in RobIdx : i # t => rob'[i] = rob[i]
      BY <1>6
    <3> QED BY <3>1, <3>2 DEF Writers
  <2>4. RegPartition'
    <3>1. freelist'.regs = freelist.regs \ {phys_rd} /\ freelist'.count = freelist.count - 1
      BY <2>1
    <3>2. freelist'.count = Cardinality(freelist'.regs)
      <4>1. freelist.regs \in SUBSET PhysRegs /\ freelist.count = Cardinality(freelist.regs)
        BY <1>1 DEF TypeOK, IInv, RegPartition
      <4>2. Cardinality(freelist.regs \ {phys_rd}) = Cardinality(freelist.regs) - 1
        BY <2>1, <4>1 DEF SetLaws
      <4> QED BY <3>1, <4>1, <4>2
    <3>3. {rob'[i].phys_rd : i \in Writers'} = {rob[i].phys_rd : i \in Writers} \cup {phys_rd}
      <4>1. rob'[t].phys_rd = phys_rd
        BY <1>6
      <4> QED BY <2>3, <4>1
    <3>4. phys_rd \in PhysRegs
      BY <1>1, <2>1 DEF TypeOK
    <3>5. \A i, j \in Writers' : rob'[i].phys_rd = rob'[j].phys_rd => i = j
      <4>1. \A i, j \in Writers : rob[i].phys_rd = rob[j].phys_rd => i = j
        BY DEF IInv, RegPartition
      <4>2. freelist.regs \cap {rob[i].phys_rd : i \in Writers} = {}
        BY DEF IInv, RegPartition
      <4>3. \A i \in Writers : rob[i].phys_rd # phys_rd
        BY <2>1, <4>2
      <4>4. rob'[t].phys_rd = phys_rd
        BY <1>6
      <4> QED BY SMT, <2>3, <4>1, <4>3, <4>4
    <3> DEFINE C == {rrat[r] : r \in ArchRegs}
    <3> DEFINE I == {rob[i].phys_rd : i \in Writers}
    <3>6. /\ PhysRegs = freelist.regs \cup C \cup I
          /\ freelist.regs \cap C = {} /\ freelist.regs \cap I = {} /\ C \cap I = {}
      BY DEF IInv, RegPartition
    <3>7. {rrat'[r] : r \in ArchRegs} = C /\ {rob'[i].phys_rd : i \in Writers'} = I \cup {phys_rd}
      BY <2>1, <3>3
    <3> HIDE DEF C, I
    <3>8. /\ PhysRegs = freelist'.regs \cup C \cup (I \cup {phys_rd})
          /\ freelist'.regs \cap C = {} /\ freelist'.regs \cap (I \cup {phys_rd}) = {}
          /\ C \cap (I \cup {phys_rd}) = {}
      BY <2>1, <3>1, <3>4, <3>6
    <3>9. \A q, r \in ArchRegs : rrat'[q] = rrat'[r] => q = r
      BY <2>1 DEF IInv, RegPartition
    <3> QED BY <3>2, <3>5, <3>7, <3>8, <3>9 DEF RegPartition
  <2>5. \A r : \A k \in RobIdx : Writer(k, r)' <=> Writer(k, r) \/ (k = t /\ r = rd)
    <3>1. rob'[t].valid /\ rob'[t].arch_rd = rd /\ ~rob[t].valid
      BY <1>4, <1>6
    <3>2. \A i \in RobIdx : i # t => rob'[i] = rob[i]
      BY <1>6
    <3> QED BY <1>11, <3>1, <3>2 DEF Writer
  <2>6. \A r \in ArchRegs : MapsTo(r, rob_count, rat[r])'
    <3> SUFFICES ASSUME NEW r \in ArchRegs PROVE MapsTo(r, rob_count, rat[r])'
      OBVIOUS
    <3>1. CASE r = rd
      <4>1. rat'[r] = phys_rd
        BY <1>1, <2>1, <3>1 DEF TypeOK
      <4>2. Writer(t, r)' /\ rat'[r] = rob'[t].phys_rd
        BY <1>6, <2>5, <3>1, <4>1
      <4>3. Age(t)' = n /\ rob_count' = n + 1 /\ n < n + 1
        BY SMT, <1>4, <1>5
      <4>4. \A k \in RobIdx : Writer(k, r)' => Age(k)' <= Age(t)'
        BY SMT, <1>5, <1>8, <2>5, <4>3
      <4> QED BY <4>2, <4>3, <4>4 DEF MapsTo
    <3>2. CASE r # rd
      <4> PICK p : p = rat[r]
        OBVIOUS
      <4>1. rat'[r] = p
        BY <1>1, <2>1, <3>2 DEF TypeOK
      <4>2. MapsTo(r, n, p)
        BY DEF IInv, RatConsistent
      <4>3. \A k \in RobIdx : Writer(k, r)' <=> Writer(k, r)
        BY <2>5, <3>2
      <4>4. \A k \in RobIdx : Writer(k, r)' /\ Age(k) < n + 1 <=> Writer(k, r) /\ Age(k) < n
        BY SMT, <1>5, <1>8, <4>3
      <4>5. MapsTo(r, n + 1, p)'
        BY <1>9, <4>2, <4>4
      <4> QED BY <4>1, <4>5 DEF MapsTo
    <3> QED BY <3>1, <3>2
  <2>7. \A i \in Writers' : MapsTo(rob[i].arch_rd, Age(i), rob[i].old_phys)'
    <3> SUFFICES ASSUME NEW i \in Writers' PROVE MapsTo(rob[i].arch_rd, Age(i), rob[i].old_phys)'
      OBVIOUS
    <3>1. CASE i = t
      <4> PICK p : p = rat[rd]
        OBVIOUS
      <4>1. MapsTo(rd, n, p)
        BY <2>2 DEF IInv, RatConsistent
      <4>2. Age(i)' = n /\ rob'[i].arch_rd = rd /\ rob'[i].old_phys = p
        BY <1>4, <1>5, <1>6, <1>11, <3>1
      <4>3. \A k \in RobIdx : Writer(k, rd)' /\ Age(k) < n <=> Writer(k, rd) /\ Age(k) < n
        BY SMT, <1>4, <1>8, <2>5
      <4>4. MapsTo(rd, n, p)'
        BY <1>9, <4>1, <4>3
      <4> QED BY <4>2, <4>4 DEF MapsTo
    <3>2. CASE i # t
      <4>1. i \in Writers
        BY <2>3, <3>2
      <4>2. i \in RobIdx /\ MapsTo(rob[i].arch_rd, Age(i), rob[i].old_phys) /\ Age(i) < n
        BY <4>1, WriterFacts
      <4> PICK r : r = rob[i].arch_rd
        OBVIOUS
      <4> PICK p : p = rob[i].old_phys
        OBVIOUS
      <4> PICK a \in Int : a = Age(i)
        BY SMT, <1>5, <4>2
      <4>3. Age(i)' = a /\ rob'[i].arch_rd = r /\ rob'[i].old_phys = p
        BY <1>5, <1>6, <3>2, <4>2
      <4>4. \A k \in RobIdx : Writer(k, r)' /\ Age(k) < a <=> Writer(k, r) /\ Age(k) < a
        BY SMT, <1>4, <1>5, <2>5, <4>2
      <4>5. MapsTo(r, a, p)'
        BY <1>9, <4>2, <4>4
      <4> QED BY <4>3, <4>5 DEF MapsTo
    <3> QED BY <3>1, <3>2
  <2>8. RatConsistent'
    <3>1. rat'[0] = rat[0]
      BY SMT, <1>1, <2>1, <2>2, IsaAssumption DEF TypeOK, ArchRegs
    <3> QED BY <2>1, <2>6, <2>7, <3>1 DEF RatConsistent, IInv
  <2> QED BY <1>1, <1>7, <2>4, <2>8 DEF IInv
<1> QED BY <1>10, <1>11

-----------------------------------------------------------------------------

-----------------------------------------------------------------------------
(* How many entries and registers a flush counts. *)
FlushCounts ==
    \A b \in RobIdx : rob[b].valid =>
      /\ Cardinality(Squashed(b)) = rob_count - Age(b) - 1
      /\ Cardinality(freelist.regs \cup {rob[i].phys_rd : i \in SquashedWriters(b)})
           = freelist.count + Cardinality(SquashedWriters(b))

(* The part of a flush at branch b that concerns renaming; rob1 is the ROB with
   the branch marked executed. *)
LEMMA FlushStep ==
    ASSUME SetLaws, FlushCounts, IInv, NEW b \in RobIdx, rob[b].valid, NEW prf1, NEW rob1,
           FlushRename(b, prf1), FlushRob(b, rob1), UNCHANGED <<rrat, rob_head>>,
           rob1 \in [RobIdx -> RobEntries],
           \A j \in RobIdx : /\ rob1[j].valid = rob[j].valid
                             /\ rob1[j].arch_rd = rob[j].arch_rd
                             /\ rob1[j].phys_rd = rob[j].phys_rd
                             /\ rob1[j].old_phys = rob[j].old_phys
    PROVE  /\ RobContiguous' /\ RegPartition' /\ RatConsistent'
           /\ rat' \in [ArchRegs -> PhysRegs]
           /\ freelist' \in [regs : SUBSET PhysRegs, count : 0 .. NUM_PHYS_REGS]
           /\ rob' \in [RobIdx -> RobEntries] /\ rob_tail' \in RobIdx
           /\ rob_count' \in 0 .. ROB_SIZE
<1> USE Zenon
<1>1. TypeOK /\ RobContiguous /\ rob_head \in RobIdx /\ rob_count \in 0 .. ROB_SIZE
  BY DEF IInv, TypeOK
<1>2. /\ Cardinality(Squashed(b)) = rob_count - Age(b) - 1 /\ Age(b) < rob_count
      /\ \A i \in RobIdx : i \in Squashed(b) <=> Age(b) < Age(i) /\ Age(i) < rob_count
  BY <1>1 DEF FlushCounts, RobContiguous, Squashed, rob_newer_than
<1>3. \A i \in RobIdx : Age(i)' = Age(i) /\ Age(i) \in 0 .. ROB_SIZE - 1
  BY <1>1, AgeBijective DEF Age
<1> PICK n \in 0 .. ROB_SIZE - 1 : n = Age(b)
  BY <1>3
<1>4. rob_count' = n + 1 /\ rob_tail' = Inc(b) /\ n + 1 <= rob_count
  BY SMT, <1>1, <1>2 DEF FlushRob
<1>5. /\ rob' \in [RobIdx -> RobEntries]
      /\ \A i \in RobIdx : i \in Squashed(b) => ~rob'[i].valid
      /\ \A i \in RobIdx : i \notin Squashed(b) => rob'[i] = rob1[i]
  BY EmptyTypes DEF FlushRob, NoEntry
<1>6. RobContiguous'
  <2>1. \A i \in RobIdx : rob'[i].valid <=> Age(i)' < rob_count'
    BY SMT, <1>1, <1>2, <1>3, <1>4, <1>5 DEF RobContiguous
  <2>2. rob_tail' = IF rob_head' + rob_count' < ROB_SIZE THEN rob_head' + rob_count'
                    ELSE rob_head' + rob_count' - ROB_SIZE
    BY SMT, <1>1, <1>4, OooAssumption DEF Inc, Age, RobIdx
  <2> QED BY <2>1, <2>2 DEF RobContiguous
<1>7. rob_tail' \in RobIdx /\ rob_count' \in 0 .. ROB_SIZE
  BY SMT, <1>1, <1>4, OooAssumption DEF Inc, RobIdx
<1>8. \A r : \A k \in RobIdx : Writer(k, r)' <=> Writer(k, r) /\ Age(k) < n + 1
  BY SMT, <1>1, <1>2, <1>3, <1>5 DEF Writer, RobContiguous
<1>9. \A r : \A k \in RobIdx : Writer(k, r) /\ Age(k) < n + 1 =>
        rob'[k].phys_rd = rob[k].phys_rd /\ rob'[k].old_phys = rob[k].old_phys
  BY SMT, <1>2, <1>3, <1>5
<1>10. Writers' = Writers \ SquashedWriters(b)
  BY SMT, <1>1, <1>2, <1>3, <1>5 DEF Writers, SquashedWriters, RobContiguous
<1>11. \A i \in Writers' : /\ rob'[i].arch_rd = rob[i].arch_rd /\ rob'[i].phys_rd = rob[i].phys_rd
                           /\ rob'[i].old_phys = rob[i].old_phys /\ Age(i) < n + 1
  BY SMT, <1>1, <1>2, <1>3, <1>5 DEF Writers, RobContiguous
(* A mapping read just before an age a that no writer of r separates from the
   branch is the mapping after the branch. *)
<1>12. ASSUME NEW r \in ArchRegs, NEW a \in 0 .. ROB_SIZE, NEW p, MapsTo(r, a, p),
              NEW a2 \in 0 .. ROB_SIZE,
              \A k \in RobIdx : Writer(k, r)' /\ Age(k) < a2 <=> Writer(k, r) /\ Age(k) < a,
              a2 <= n + 1
       PROVE  MapsTo(r, a2, p)'
  <2>1. rrat'[r] = rrat[r] /\ a \in Int /\ a2 \in Int
    BY SMT, <1>12
  <2>2. \A k \in RobIdx : Age(k) \in Int /\ Age(k)' = Age(k)
    BY SMT, <1>3
  <2>3. \A k \in RobIdx : Writer(k, r) /\ Age(k) < a => rob'[k].phys_rd = rob[k].phys_rd
    BY <1>3, <1>8, <1>9, <1>12
  <2> QED BY <1>12, <2>1, <2>2, <2>3, MapsToTransfer
<1> DEFINE WW(r) == {i \in SquashedWriters(b) : rob[i].arch_rd = r}
<1>13. \A r \in ArchRegs : rat'[r] = IF WW(r) = {} THEN rat[r] ELSE rob[OldestOf(WW(r))].old_phys
  BY DEF FlushRename, RatUndone
<1>14. SquashedWriters(b) \subseteq Writers
  BY DEF SquashedWriters, Squashed, Writers
<1>15. \A i \in RobIdx, r \in ArchRegs :
         i \in WW(r) <=> Writer(i, r) /\ n < Age(i)
  BY <1>1, <1>2, <1>3 DEF SquashedWriters, Writer, RobContiguous
<1>16. \A r \in ArchRegs : MapsTo(r, rob_count, rat[r])'
  <2> SUFFICES ASSUME NEW r \in ArchRegs PROVE MapsTo(r, rob_count, rat[r])'
    OBVIOUS
  <2> PICK p : p = rat'[r]
    OBVIOUS
  <2>1. CASE WW(r) = {}
    <3>1. p = rat[r]
      BY <1>13, <2>1
    <3> PICK a \in 0 .. ROB_SIZE : a = rob_count
      BY <1>1
    <3>2. MapsTo(r, a, p)
      BY <3>1 DEF IInv, RatConsistent
    <3>3. \A k \in RobIdx : Writer(k, r)' /\ Age(k) < n + 1 <=> Writer(k, r) /\ Age(k) < a
      BY SMT, <1>1, <1>3, <1>4, <1>8, <1>15, <2>1 DEF RobContiguous, Writer
    <3>4. n + 1 \in 0 .. ROB_SIZE
      BY SMT, OooAssumption
    <3>5. MapsTo(r, n + 1, p)'
      BY SMT, <1>12, <3>2, <3>3, <3>4
    <3> QED BY <1>4, <3>5 DEF MapsTo
  <2>2. CASE WW(r) # {}
    <3> PICK i : i = OldestOf(WW(r))
      OBVIOUS
    <3>1. WW(r) \in SUBSET RobIdx
      BY DEF SquashedWriters, Squashed
    <3>2. i \in WW(r) /\ \A j \in WW(r) : Age(i) <= Age(j)
      BY <1>1, <2>2, <3>1, OldestOfLeast
    <3>3. /\ i \in RobIdx /\ Age(i) \in 0 .. ROB_SIZE /\ n < Age(i)
          /\ MapsTo(r, Age(i), rob[i].old_phys)
      <4>1. i \in Writers /\ i \in RobIdx /\ rob[i].arch_rd = r
        BY <1>14, <3>1, <3>2
      <4>2. MapsTo(r, Age(i), rob[i].old_phys)
        BY <4>1, WriterFacts
      <4> QED BY SMT, <1>3, <1>15, <3>2, <4>1, <4>2, OooAssumption
    <3> PICK a \in 0 .. ROB_SIZE : a = Age(i)
      BY <3>3
    <3>4. p = rob[i].old_phys
      BY <1>13, <2>2
    <3>5. \A k \in RobIdx : Writer(k, r)' /\ Age(k) < n + 1 <=> Writer(k, r) /\ Age(k) < a
      BY SMT, <1>3, <1>8, <1>15, <3>2, <3>3
    <3>6. n + 1 \in 0 .. ROB_SIZE
      BY SMT, OooAssumption
    <3>7. MapsTo(r, n + 1, p)'
      BY SMT, <1>12, <3>3, <3>4, <3>5, <3>6
    <3> QED BY <1>4, <3>7 DEF MapsTo
  <2> QED BY <2>1, <2>2
<1>17. \A i \in Writers' : MapsTo(rob[i].arch_rd, Age(i), rob[i].old_phys)'
  <2> SUFFICES ASSUME NEW i \in Writers' PROVE MapsTo(rob[i].arch_rd, Age(i), rob[i].old_phys)'
    OBVIOUS
  <2>1. i \in Writers /\ i \in RobIdx /\ rob[i].arch_rd \in ArchRegs
        /\ MapsTo(rob[i].arch_rd, Age(i), rob[i].old_phys)
    BY <1>10, WriterFacts
  <2>2. Age(i) < n + 1 /\ Age(i) \in 0 .. ROB_SIZE - 1
    BY <1>3, <1>11, <2>1
  <2> PICK a \in 0 .. ROB_SIZE : a = Age(i)
    BY SMT, <2>2, OooAssumption
  <2> PICK r \in ArchRegs : r = rob[i].arch_rd
    BY <2>1
  <2> PICK p : p = rob[i].old_phys
    OBVIOUS
  <2>3. \A k \in RobIdx : Writer(k, r)' /\ Age(k) < a <=> Writer(k, r) /\ Age(k) < a
    BY SMT, <1>3, <1>8, <2>2
  <2>4. MapsTo(r, a, p)'
    BY SMT, <1>12, <2>1, <2>2, <2>3
  <2>5. Age(i)' = a /\ rob'[i].arch_rd = r /\ rob'[i].old_phys = p
    BY <1>3, <1>11, <2>1
  <2> QED BY <2>4, <2>5 DEF MapsTo
<1>18. rat'[0] = 0 /\ rrat'[0] = 0
  <2>1. WW(0) = {}
    BY <1>14, WriterFacts
  <2>2. 0 \in ArchRegs
    BY SMT, IsaAssumption DEF ArchRegs
  <2> QED BY <1>13, <2>1, <2>2 DEF IInv, RatConsistent
<1>19. RatConsistent'
  BY <1>16, <1>17, <1>18 DEF RatConsistent
<1> PICK freed : freed = {rob[i].phys_rd : i \in SquashedWriters(b)}
  OBVIOUS
<1>20. /\ freelist' = [regs  |-> freelist.regs \cup freed,
                       count |-> freelist.count + Cardinality(SquashedWriters(b))]
       /\ freed \in SUBSET PhysRegs
       /\ Cardinality(freelist.regs \cup freed)
            = freelist.count + Cardinality(SquashedWriters(b))
  BY <1>14, WriterFacts DEF FlushRename, FlushCounts
<1>21. freelist'.regs = freelist.regs \cup freed /\ freelist'.regs \in SUBSET PhysRegs
       /\ freelist'.count = Cardinality(freelist'.regs)
  BY <1>1, <1>20 DEF TypeOK
<1>22. freelist' \in [regs : SUBSET PhysRegs, count : 0 .. NUM_PHYS_REGS]
  BY SMT, <1>20, <1>21 DEF SetLaws
<1>23. RegPartition'
  <2> DEFINE C == {rrat[r] : r \in ArchRegs}
  <2> DEFINE I == {rob[i].phys_rd : i \in Writers}
  <2>1. /\ PhysRegs = freelist.regs \cup C \cup I
        /\ freelist.regs \cap C = {} /\ freelist.regs \cap I = {} /\ C \cap I = {}
    BY DEF IInv, RegPartition
  <2>2. {rrat'[r] : r \in ArchRegs} = C
    OBVIOUS
  <2>3. {rob'[i].phys_rd : i \in Writers'} = I \ freed
    <3>1. \A i \in Writers : rob[i].phys_rd \in freed <=> i \in SquashedWriters(b)
      BY SMT, <1>14 DEF IInv, RegPartition
    <3> QED BY SMT, <1>10, <1>11, <3>1
  <2>4. freed \subseteq I
    BY <1>14
  <2>5. \A q, r \in ArchRegs : rrat'[q] = rrat'[r] => q = r
    BY DEF IInv, RegPartition
  <2>6. \A i, j \in Writers' : rob'[i].phys_rd = rob'[j].phys_rd => i = j
    BY SMT, <1>10, <1>11 DEF IInv, RegPartition
  <2> HIDE DEF C, I
  <2>7. /\ PhysRegs = freelist'.regs \cup C \cup (I \ freed)
        /\ freelist'.regs \cap C = {} /\ freelist'.regs \cap (I \ freed) = {}
        /\ C \cap (I \ freed) = {}
    BY <1>21, <2>1, <2>4
  <2> QED BY <1>21, <2>2, <2>3, <2>5, <2>6, <2>7 DEF RegPartition
<1>24. rat' \in [ArchRegs -> PhysRegs]
  <2>1. \A r \in ArchRegs : rat'[r] \in PhysRegs
    <3> SUFFICES ASSUME NEW r \in ArchRegs PROVE rat'[r] \in PhysRegs
      OBVIOUS
    <3>1. MapsTo(r, rob_count, rat[r])'
      BY <1>16
    <3>2. CASE \E j \in RobIdx : Writer(j, r)' /\ rat'[r] = rob'[j].phys_rd
      <4>1. PICK j \in RobIdx : Writer(j, r)' /\ rat'[r] = rob'[j].phys_rd
        BY <3>2
      <4>2. j \in Writers'
        BY <4>1 DEF Writer, Writers
      <4> QED BY <1>23, <4>1, <4>2 DEF RegPartition
    <3>3. CASE rat'[r] = rrat'[r]
      BY <1>1, <3>3 DEF TypeOK
    <3> QED BY <3>1, <3>2, <3>3 DEF MapsTo
  <2> QED BY <2>1 DEF FlushRename, RatUndone
<1> QED BY <1>5, <1>6, <1>7, <1>19, <1>22, <1>23, <1>24

(* A misprediction keeps the invariant. *)
LEMMA MispredictStep ==
    ASSUME SetLaws, FlushCounts, IInv, NEW s \in IntSlots, IntMispredict(s)
    PROVE  IInv'
<1> USE Zenon
<1> DEFINE Prfs == [PhysRegs -> [value : Words, ready : BOOLEAN]]
<1> PICK l : l = latch_int[s]
  OBVIOUS
<1> PICK b : b = l.rob_idx
  OBVIOUS
<1> PICK ir : ir = LatchIr(l)
  OBVIOUS
<1>1. TypeOK /\ l \in Latches /\ b \in RobIdx /\ l.phys_rd \in MaybePhys
  BY DEF IInv, TypeOK, Latches
<1>2. ir \in IrType
  BY <1>1, LatchIrType
<1>3. ir.result \in Words /\ ir.dnpc \in Pcs /\ ir.fault \in BOOLEAN
  BY <1>2 DEF IrType
<1>4. /\ rob[b].valid
      /\ FlushRename(b, PrfAfter(l.phys_rd, ir.result))
      /\ FlushRob(b, Executed(b, ir))
      /\ FlushRs(b, RsAfter(l.phys_rd, ir.result), MaskAfter(l.phys_rd, ir.result))
      /\ latch_int' = FlushLatch([latch_int EXCEPT ![s] = NoLatch], b)
      /\ latch_mul' = FlushLatch(latch_mul, b)
      /\ latch_if_id' = <<>> /\ latch_id_rn' = <<>>
      /\ fetch_pc' = ir.dnpc
      /\ UNCHANGED <<prog, csr, state, archVars, rrat, rob_head>>
  BY DEF IntMispredict
<1>5. PICK prf1 : prf1 = PrfAfter(l.phys_rd, ir.result)
  OBVIOUS
<1>6. PICK rs1 : rs1 = RsAfter(l.phys_rd, ir.result)
  OBVIOUS
<1>7. PICK mask1 : mask1 = MaskAfter(l.phys_rd, ir.result)
  OBVIOUS
<1>8. PICK rob1 : rob1 = Executed(b, ir)
  OBVIOUS
<1>9. prf1 \in Prfs /\ rs1 \in [RsIdx -> RsEntries] /\ mask1 \in [EuTypes -> SUBSET RsIdx]
  BY <1>1, <1>3, <1>5, <1>6, <1>7, WritebackType
<1>10. /\ rob1 \in [RobIdx -> RobEntries]
       /\ \A j \in RobIdx : /\ rob1[j].valid = rob[j].valid
                             /\ rob1[j].arch_rd = rob[j].arch_rd
                             /\ rob1[j].phys_rd = rob[j].phys_rd
                             /\ rob1[j].old_phys = rob[j].old_phys
  BY SMT, <1>1, <1>3, <1>8, ExecutedType
<1>11. /\ RobContiguous' /\ RegPartition' /\ RatConsistent'
       /\ rat' \in [ArchRegs -> PhysRegs]
       /\ freelist' \in [regs : SUBSET PhysRegs, count : 0 .. NUM_PHYS_REGS]
       /\ rob' \in [RobIdx -> RobEntries] /\ rob_tail' \in RobIdx
       /\ rob_count' \in 0 .. ROB_SIZE
  <2>1. FlushRename(b, prf1) /\ FlushRob(b, rob1) /\ UNCHANGED <<rrat, rob_head>> /\ rob[b].valid
    BY <1>4, <1>5, <1>8
  <2> QED BY <1>1, <1>10, <2>1, FlushStep
<1>12. prf' \in Prfs
  <2> DEFINE freed == {rob[i].phys_rd : i \in SquashedWriters(b)}
  <2>1. prf' = [p \in PhysRegs |-> IF p \in freed THEN [prf1[p] EXCEPT !.ready = FALSE]
                                  ELSE prf1[p]]
    BY <1>4, <1>5 DEF FlushRename
  <2> HIDE DEF freed
  <2>2. \A p \in PhysRegs : /\ prf1[p] \in [value : Words, ready : BOOLEAN]
                            /\ [prf1[p] EXCEPT !.ready = FALSE] \in [value : Words, ready : BOOLEAN]
    BY <1>9
  <2> QED BY <2>1, <2>2
<1>13. /\ rs' \in [RsIdx -> RsEntries] /\ rs_free_mask' \in SUBSET RsIdx
       /\ rs_ready_mask' \in [EuTypes -> SUBSET RsIdx]
  <2> DEFINE gone == {k \in RsIdx : rs1[k].valid /\ rob_newer_than(rs1[k].rob_idx, b)}
  <2>1. /\ rs' = [k \in RsIdx |-> IF k \in gone THEN NoRs ELSE rs1[k]]
        /\ rs_free_mask' = rs_free_mask \cup gone
        /\ rs_ready_mask' = [eu \in EuTypes |-> mask1[eu] \ gone]
    BY <1>4, <1>6, <1>7 DEF FlushRs
  <2>2. gone \subseteq RsIdx /\ rs_free_mask \subseteq RsIdx
    BY <1>1 DEF TypeOK
  <2> HIDE DEF gone
  <2> QED BY <1>9, <2>1, <2>2, EmptyTypes
<1>14. latch_int' \in [IntSlots -> Latches] /\ latch_mul' \in [MulSlots -> Latches]
  <2>1. latch_int \in [IntSlots -> Latches] /\ latch_mul \in [MulSlots -> Latches]
    BY <1>1 DEF TypeOK
  <2>2. [latch_int EXCEPT ![s] = NoLatch] \in [IntSlots -> Latches]
    BY <2>1, EmptyTypes
  <2> QED BY <1>4, <2>1, <2>2, EmptyTypes DEF FlushLatch
<1>15. /\ latch_if_id' \in Seq(Fetched) /\ Len(latch_if_id') <= FETCH_WIDTH
       /\ latch_id_rn' \in Seq(Fetched) /\ Len(latch_id_rn') <= FETCH_WIDTH
       /\ fetch_pc' \in Pcs
  <2>1. <<>> \in Seq(Fetched) /\ Len(<<>>) = 0 /\ 0 <= FETCH_WIDTH
    BY SMT, OooAssumption
  <2> QED BY <1>3, <1>4, <2>1
<1>16. TypeOK'
  BY <1>1, <1>4, <1>11, <1>12, <1>13, <1>14, <1>15 DEF TypeOK, archVars
<1> QED BY <1>11, <1>16 DEF IInv

(* Completion of an instruction touches no renaming field. *)
LEMMA CompleteStep ==
    ASSUME IInv, NEW l \in Latches, NEW ir, ir.dnpc \in Pcs, ir.fault \in BOOLEAN,
           rob' = Executed(l.rob_idx, ir),
           UNCHANGED <<renameVars, rob_head, rob_tail, rob_count>>
    PROVE  RobContiguous' /\ RegPartition' /\ RatConsistent'
<1>1. TypeOK /\ l.rob_idx \in RobIdx
  BY Zenon DEF IInv, Latches
<1>2. \A j \in RobIdx : /\ rob'[j].valid = rob[j].valid
                         /\ rob'[j].arch_rd = rob[j].arch_rd
                         /\ rob'[j].phys_rd = rob[j].phys_rd
                         /\ rob'[j].old_phys = rob[j].old_phys
  BY <1>1, ExecutedType
<1> QED BY Zenon, <1>2, Frame

(* Commit keeps the invariant: the head's old_phys is rrat of its register, so
   freeing it and moving rrat to phys_rd is an exchange. *)
LEMMA CommitStep == ASSUME SetLaws, IInv, ooo_stage_commit PROVE IInv'
<1> USE Zenon
<1>1. /\ TypeOK /\ rob_head \in RobIdx /\ rob_count \in 0 .. ROB_SIZE /\ rob_count > 0
      /\ rob[rob_head] \in RobEntries
  BY DEF IInv, TypeOK, ooo_stage_commit, HeadReady
<1> PICK h \in RobIdx : h = rob_head
  BY <1>1
<1> DEFINE e == rob[h]
<1>2. /\ CommitDest(e) /\ pc' = e.dnpc
      /\ rob' = [rob EXCEPT ![h] = NoEntry]
      /\ rob_head' = Inc(h) /\ rob_count' = rob_count - 1
      /\ csr_committed' = csr /\ e.valid
      /\ UNCHANGED <<prog, csr, state, rat, rob_tail, rsVars, latch_int, latch_mul, frontVars>>
  BY DEF ooo_stage_commit, HeadReady
<1>3. Age(h) = 0 /\ \A i \in RobIdx : Age(i) \in 0 .. ROB_SIZE - 1 /\ (Age(i) = 0 => i = h)
  BY SMT, <1>1, AgeBijective, OooAssumption DEF Age, RobIdx
<1>4. /\ Age(h)' = ROB_SIZE - 1
      /\ \A i \in RobIdx \ {h} : Age(i)' = Age(i) - 1
  BY SMT, <1>2, OooAssumption DEF Age, RobIdx, Inc
<1>5. ~rob'[h].valid /\ \A i \in RobIdx \ {h} : rob'[i] = rob[i]
  BY <1>1, <1>2 DEF NoEntry, TypeOK
<1>6. RobContiguous'
  <2>1. \A i \in RobIdx : rob'[i].valid <=> Age(i)' < rob_count'
    <3> SUFFICES ASSUME NEW i \in RobIdx PROVE rob'[i].valid <=> Age(i)' < rob_count - 1
      BY <1>2
    <3>1. CASE i = h  BY SMT, <3>1, <1>1, <1>4, <1>5, OooAssumption
    <3>2. CASE i # h  BY SMTT(20), <3>2, <1>1, <1>3, <1>4, <1>5 DEF IInv, RobContiguous
    <3> QED BY <3>1, <3>2
  <2>2. rob_tail' = IF rob_head' + rob_count' < ROB_SIZE THEN rob_head' + rob_count'
                    ELSE rob_head' + rob_count' - ROB_SIZE
    BY SMT, <1>1, <1>2, OooAssumption DEF IInv, RobContiguous, Inc, RobIdx
  <2> QED BY <2>1, <2>2 DEF RobContiguous
<1>7. \A r : \A k \in RobIdx : Writer(k, r)' <=> Writer(k, r) /\ k # h
  BY <1>5 DEF Writer
<1>8. Writers' = Writers \ {h} /\ \A i \in Writers' : rob'[i] = rob[i]
  BY <1>5 DEF Writers
<1>9. \A r \in ArchRegs : rrat'[r] = IF Renames(e.arch_rd) /\ r = e.arch_rd THEN e.phys_rd ELSE rrat[r]
  BY SMT, <1>1, <1>2 DEF CommitDest, TypeOK
<1>10. \A r \in ArchRegs : Writer(h, r) <=> Renames(e.arch_rd) /\ r = e.arch_rd
  BY <1>2 DEF Writer
(* What r maps to before age a >= 1 is what it maps to before age a - 1 now. *)
<1>11. ASSUME NEW r \in ArchRegs, NEW a \in 1 .. ROB_SIZE, NEW p, MapsTo(r, a, p)
       PROVE  MapsTo(r, a - 1, p)'
  <2>1. CASE \E j \in RobIdx :
               /\ Writer(j, r) /\ Age(j) < a /\ p = rob[j].phys_rd
               /\ \A k \in RobIdx : Writer(k, r) /\ Age(k) < a => Age(k) <= Age(j)
    <3>1. PICK j \in RobIdx :
               /\ Writer(j, r) /\ Age(j) < a /\ p = rob[j].phys_rd
               /\ \A k \in RobIdx : Writer(k, r) /\ Age(k) < a => Age(k) <= Age(j)
      BY <2>1
    <3>2. CASE j = h
      <4>1. p = rrat'[r]
        BY <1>9, <1>10, <3>1, <3>2
      <4>2. \A k \in RobIdx : Writer(k, r)' => Age(k)' >= a - 1
        BY SMT, <1>3, <1>4, <1>7, <3>1, <3>2
      <4> QED BY <4>1, <4>2 DEF MapsTo
    <3>3. CASE j # h
      <4>1. Writer(j, r)' /\ Age(j)' < a - 1 /\ p = rob'[j].phys_rd
        BY SMT, <1>3, <1>4, <1>5, <1>7, <3>1, <3>3
      <4>2. \A k \in RobIdx : Writer(k, r)' /\ Age(k)' < a - 1 => Age(k)' <= Age(j)'
        BY SMT, <1>3, <1>4, <1>7, <3>1, <3>3
      <4> QED BY <4>1, <4>2 DEF MapsTo
    <3> QED BY <3>2, <3>3
  <2>2. CASE p = rrat[r] /\ \A j \in RobIdx : Writer(j, r) => Age(j) >= a
    <3>1. ~Writer(h, r)
      BY SMT, <1>3, <2>2
    <3>2. p = rrat'[r]
      BY <1>9, <1>10, <2>2, <3>1
    <3>3. \A k \in RobIdx : Writer(k, r)' => Age(k)' >= a - 1
      BY SMT, <1>3, <1>4, <1>7, <2>2
    <3> QED BY <3>2, <3>3 DEF MapsTo
  <2> QED BY <1>11, <2>1, <2>2 DEF MapsTo
<1>12. RatConsistent'
  <2>1. \A r \in ArchRegs : MapsTo(r, rob_count, rat[r])'
    <3> SUFFICES ASSUME NEW r \in ArchRegs PROVE MapsTo(r, rob_count, rat[r])'
      OBVIOUS
    <3> PICK a \in 1 .. ROB_SIZE : a = rob_count
      BY SMT, <1>1
    <3> PICK p : p = rat[r]
      OBVIOUS
    <3>1. MapsTo(r, a - 1, p)'
      BY <1>11 DEF IInv, RatConsistent
    <3>2. rob_count' = a - 1 /\ rat'[r] = p
      BY <1>2
    <3> QED BY <3>1, <3>2 DEF MapsTo
  <2>2. \A i \in Writers' : MapsTo(rob[i].arch_rd, Age(i), rob[i].old_phys)'
    <3> SUFFICES ASSUME NEW i \in Writers' PROVE MapsTo(rob[i].arch_rd, Age(i), rob[i].old_phys)'
      OBVIOUS
    <3>1. i \in Writers /\ i # h /\ rob'[i] = rob[i]
      BY <1>8
    <3>2. i \in RobIdx /\ rob[i].arch_rd \in ArchRegs /\ MapsTo(rob[i].arch_rd, Age(i), rob[i].old_phys)
      BY <3>1, WriterFacts
    <3> PICK a \in 1 .. ROB_SIZE : a = Age(i)
      BY SMT, <1>3, <3>1, <3>2, OooAssumption
    <3> PICK r \in ArchRegs : r = rob[i].arch_rd
      BY <3>2
    <3> PICK p : p = rob[i].old_phys
      OBVIOUS
    <3>3. MapsTo(r, a - 1, p)'
      BY <1>11, <3>2
    <3>4. Age(i)' = a - 1 /\ rob'[i].arch_rd = r /\ rob'[i].old_phys = p
      BY <1>4, <3>1, <3>2
    <3> QED BY <3>3, <3>4 DEF MapsTo
  <2>3. rat'[0] = 0 /\ rrat'[0] = 0
    BY SMT, <1>2, <1>9, IsaAssumption DEF IInv, RatConsistent, Renames, ArchRegs
  <2> QED BY <2>1, <2>2, <2>3 DEF RatConsistent
<1>13. /\ rob' \in [RobIdx -> RobEntries] /\ rob_head' \in RobIdx /\ rob_count' \in 0 .. ROB_SIZE
       /\ pc' \in Pcs /\ csr_committed' \in CSRs
  <2>1. rob' \in [RobIdx -> RobEntries]
    BY <1>1, <1>2, EmptyTypes DEF TypeOK
  <2>2. rob_head' \in RobIdx /\ rob_count' \in 0 .. ROB_SIZE
    BY SMT, <1>1, <1>2, OooAssumption DEF Inc, RobIdx
  <2>3. pc' \in Pcs /\ csr_committed' \in CSRs
    BY <1>1, <1>2 DEF TypeOK, RobEntries
  <2> QED BY <2>1, <2>2, <2>3
<1>14. CASE ~Renames(e.arch_rd)
  <2>1. gpr' = gpr /\ rrat' = rrat /\ prf' = prf /\ freelist' = freelist
    BY <1>2, <1>14 DEF CommitDest
  <2>2. h \notin Writers
    BY <1>14 DEF Writers
  <2>3. Writers' = Writers /\ \A i \in Writers : rob'[i] = rob[i]
    BY <1>8, <2>2
  <2>4. RegPartition'
    <3>1. {rob'[i].phys_rd : i \in Writers'} = {rob[i].phys_rd : i \in Writers}
      BY <2>3
    <3>2. \A i \in Writers : rob'[i].phys_rd = rob[i].phys_rd
      BY <2>3
    <3> QED BY SMT, <2>1, <2>3, <3>1, <3>2 DEF IInv, RegPartition
  <2>5. TypeOK'
    BY <1>1, <1>2, <1>13, <2>1 DEF TypeOK, rsVars, frontVars
  <2> QED BY <1>6, <1>12, <2>4, <2>5 DEF IInv
<1>15. CASE Renames(e.arch_rd)
  <2> PICK new : new = e.phys_rd
    OBVIOUS
  <2> PICK old : old = e.old_phys
    OBVIOUS
  <2>1. h \in Writers /\ e.arch_rd \in ArchRegs /\ new \in PhysRegs /\ MapsTo(e.arch_rd, Age(h), old)
    <3>1. h \in Writers
      BY <1>2, <1>15 DEF Writers
    <3> QED BY <3>1, WriterFacts
  <2>2. old = rrat[e.arch_rd]
    BY SMT, <1>3, <2>1 DEF MapsTo
  <2>3. old \in PhysRegs
    BY <1>1, <2>1, <2>2 DEF TypeOK
  <2>4. /\ freelist' = [regs |-> freelist.regs \cup {old}, count |-> freelist.count + 1]
        /\ gpr' = [gpr EXCEPT ![e.arch_rd] = prf[new].value]
        /\ rrat' = [rrat EXCEPT ![e.arch_rd] = new]
        /\ prf' = [prf EXCEPT ![old].ready = FALSE]
    BY <1>2, <1>15 DEF CommitDest
  <2>5. freelist'.regs = freelist.regs \cup {old} /\ freelist'.regs \in SUBSET PhysRegs
    BY <1>1, <2>3, <2>4 DEF TypeOK
  <2>6. freelist'.count = Cardinality(freelist'.regs)
    <3>1. freelist.regs \in SUBSET PhysRegs /\ freelist.count = Cardinality(freelist.regs)
      BY <1>1 DEF TypeOK, IInv, RegPartition
    <3>2. old \notin freelist.regs
      BY SMT, <2>1, <2>2 DEF IInv, RegPartition
    <3>3. Cardinality(freelist.regs \cup {old}) = Cardinality(freelist.regs) + 1
      BY <2>3, <3>1, <3>2 DEF SetLaws
    <3> QED BY <2>4, <3>1, <3>3
  <2>7. RegPartition'
    <3> DEFINE C == {rrat[r] : r \in ArchRegs}
    <3> DEFINE I == {rob[i].phys_rd : i \in Writers}
    <3>1. /\ PhysRegs = freelist.regs \cup C \cup I
          /\ freelist.regs \cap C = {} /\ freelist.regs \cap I = {} /\ C \cap I = {}
      BY DEF IInv, RegPartition
    <3> PICK q0 \in ArchRegs : q0 = e.arch_rd
      BY <2>1
    <3>2. /\ \A q, r \in ArchRegs : rrat[q] = rrat[r] => q = r
          /\ \A i, j \in Writers : rob[i].phys_rd = rob[j].phys_rd => i = j
      BY DEF IInv, RegPartition
    <3>3. old = rrat[q0] /\ \A r \in ArchRegs : rrat'[r] = IF r = q0 THEN new ELSE rrat[r]
      BY <1>9, <1>15, <2>2
    <3>4. old \in C /\ new \in I
      BY <2>1, <3>3
    <3>5. \A r \in ArchRegs : rrat[r] # new
      BY <3>1, <3>4
    <3>6. {rrat'[r] : r \in ArchRegs} = (C \ {old}) \cup {new}
      BY SMT, <3>2, <3>3
    <3>7. {rob'[i].phys_rd : i \in Writers'} = I \ {new}
      BY SMT, <1>8, <2>1, <3>2
    <3>8. \A q, r \in ArchRegs : rrat'[q] = rrat'[r] => q = r
      BY SMT, <3>2, <3>3, <3>5
    <3>9. \A i, j \in Writers' : rob'[i].phys_rd = rob'[j].phys_rd => i = j
      <4>1. \A i \in Writers' : i \in Writers /\ rob'[i].phys_rd = rob[i].phys_rd
        BY <1>8
      <4> QED BY <3>2, <4>1
    <3> HIDE DEF C, I
    <3>10. /\ PhysRegs = freelist'.regs \cup ((C \ {old}) \cup {new}) \cup (I \ {new})
           /\ freelist'.regs \cap ((C \ {old}) \cup {new}) = {}
           /\ freelist'.regs \cap (I \ {new}) = {}
           /\ ((C \ {old}) \cup {new}) \cap (I \ {new}) = {}
      BY SMT, <2>5, <3>1, <3>4
    <3> QED BY <2>6, <3>6, <3>7, <3>8, <3>9, <3>10 DEF RegPartition
  <2>8. TypeOK'
    <3>1. freelist' \in [regs : SUBSET PhysRegs, count : 0 .. NUM_PHYS_REGS]
      BY SMT, <2>4, <2>5, <2>6 DEF SetLaws
    <3>2. gpr' \in [ArchRegs -> Words] /\ rrat' \in [ArchRegs -> PhysRegs]
      BY <1>1, <2>1, <2>4 DEF TypeOK
    <3>3. prf' \in [PhysRegs -> [value : Words, ready : BOOLEAN]]
      BY <1>1, <2>3, <2>4 DEF TypeOK
    <3> QED BY <1>1, <1>2, <1>13, <3>1, <3>2, <3>3 DEF TypeOK, rsVars, frontVars
  <2> QED BY <1>6, <1>12, <2>7, <2>8 DEF IInv
<1> QED BY <1>14, <1>15

(* Every step of the engine keeps the invariant. *)
LEMMA NextInv == ASSUME SetLaws, FlushCounts, IInv, [Next]_vars PROVE IInv'
<1> USE Zenon
<1>0. TypeOK
  BY DEF IInv
<1>1. CASE ooo_stage_commit
  BY <1>1, CommitStep
<1>2. CASE CommitPanic
  <2>1. TypeOK'
    BY <1>0, <1>2, PanicType
  <2> QED BY <1>2, <2>1, Frame DEF IInv, CommitPanic, robVars
<1>3. ASSUME NEW s \in IntSlots, IntComplete(s) PROVE IInv'
  <2>1. TypeOK'
    BY <1>0, <1>3, IntCompleteType
  <2> PICK l : l = latch_int[s]
    OBVIOUS
  <2> PICK ir : ir = [LatchIr(l) EXCEPT !.fault = @ \/ Mispredicted(l)]
    OBVIOUS
  <2>2. l \in Latches
    BY <1>0 DEF TypeOK
  <2>3. ir.dnpc \in Pcs /\ ir.fault \in BOOLEAN
    BY <1>0, <2>2, LatchIrType DEF IrType
  <2>4. rob' = Executed(l.rob_idx, ir) /\ UNCHANGED <<renameVars, rob_head, rob_tail, rob_count>>
    BY <1>3 DEF IntComplete
  <2> QED BY <2>1, <2>2, <2>3, <2>4, CompleteStep DEF IInv
<1>4. ASSUME NEW s \in IntSlots, IntMispredict(s) PROVE IInv'
  BY <1>4, MispredictStep
<1>5. ASSUME NEW s \in IntSlots, IssueInt(s) PROVE IInv'
  <2>1. TypeOK'
    BY <1>0, <1>5, IssueIntType
  <2> QED BY <1>5, <2>1, Frame DEF IInv, IssueInt, robVars
<1>6. ASSUME NEW s \in MulSlots, MulComplete(s) PROVE IInv'
  <2>1. TypeOK'
    BY <1>0, <1>6, MulCompleteType
  <2> PICK l : l = latch_mul[s]
    OBVIOUS
  <2> PICK ir : ir = LatchIr(l)
    OBVIOUS
  <2>2. l \in Latches
    BY <1>0 DEF TypeOK
  <2>3. ir.dnpc \in Pcs /\ ir.fault \in BOOLEAN
    BY <1>0, <2>2, LatchIrType DEF IrType
  <2>4. rob' = Executed(l.rob_idx, ir) /\ UNCHANGED <<renameVars, rob_head, rob_tail, rob_count>>
    BY <1>6 DEF MulComplete
  <2> QED BY <2>1, <2>2, <2>3, <2>4, CompleteStep DEF IInv
<1>7. ASSUME NEW s \in MulSlots, IssueMul(s) PROVE IInv'
  <2>1. TypeOK'
    BY <1>0, <1>7, IssueMulType
  <2> QED BY <1>7, <2>1, Frame DEF IInv, IssueMul, robVars
<1>8. CASE ooo_stage_rn
  BY <1>8, RenameStep
<1>9. CASE ooo_stage_id
  <2>1. TypeOK'
    BY <1>0, <1>9, DecodeType
  <2> QED BY <1>9, <2>1, Frame DEF IInv, ooo_stage_id, robVars
<1>10. CASE ooo_stage_if
  <2>1. TypeOK'
    BY <1>0, <1>10, FetchType
  <2> QED BY <1>10, <2>1, Frame DEF IInv, ooo_stage_if, robVars
<1>11. CASE UNCHANGED vars
  <2>1. TypeOK'
    BY <1>0, <1>11 DEF TypeOK, vars, archVars, renameVars, robVars, rsVars, frontVars
  <2> QED BY <1>11, <2>1, Frame DEF IInv, vars, robVars
<1> QED
  BY <1>1, <1>2, <1>3, <1>4, <1>5, <1>6, <1>7, <1>8, <1>9, <1>10, <1>11 DEF Next
=============================================================================
