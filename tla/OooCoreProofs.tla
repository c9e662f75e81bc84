--------------------------- MODULE OooCoreProofs ----------------------------
(***************************************************************************)
(* The out-of-order engine is correct, for every program and every size of *)
(* the structures: no physical register is lost or given out twice, the    *)
(* maps are those of the instructions in flight, each of them is in one    *)
(* place, and no operand waits for a broadcast that will not come.  For    *)
(* programs without ecall and mret it implements the functional simulator. *)
(***************************************************************************)
EXTENDS OooCoreWakeup, OooCoreRefine, FiniteSetTheorems, FunctionTheorems, WellFoundedInduction

(* A non-empty set of naturals has a least element. *)
LEMMA LeastNatural ==
    ASSUME NEW S \in SUBSET Nat, S # {}
    PROVE  \E m \in S : \A x \in S : m <= x
<1> USE Zenon
<1> DEFINE R == {ss \in Nat \X Nat : ss[1] < ss[2]}
<1>1. IsWellFoundedOn(R, Nat)
  BY NatLessThanWellFounded DEF OpToRel
<1> HIDE DEF R
<1>2. PICK m \in S : \A y \in S : ~ (<<y, m>> \in R)
  BY <1>1, WFMin
<1>3. \A x \in S : ~ (x < m)
  BY <1>2 DEF R
<1> QED BY SMT, <1>3

(* A set of physical registers has at most NUM_PHYS_REGS members. *)
LEMMA PhysCardinality ==
    ASSUME NEW S \in SUBSET PhysRegs
    PROVE  IsFiniteSet(S) /\ Cardinality(S) \in 0 .. NUM_PHYS_REGS
<1>1. 0 \in Int /\ NUM_PHYS_REGS - 1 \in Int /\ NUM_PHYS_REGS \in Nat /\ NUM_PHYS_REGS > 0
  BY IsaAssumption, OooAssumption
<1>2. IsFiniteSet(PhysRegs) /\ Cardinality(PhysRegs) =
        IF 0 > NUM_PHYS_REGS - 1 THEN 0 ELSE (NUM_PHYS_REGS - 1) - 0 + 1
  BY Zenon, <1>1, FS_Interval DEF PhysRegs
<1>3. IsFiniteSet(S) /\ Cardinality(S) <= Cardinality(PhysRegs) /\ Cardinality(S) \in Nat
  BY <1>2, FS_Subset, FS_CardinalityType
<1> QED BY <1>1, <1>2, <1>3

(* The live entries newer than a live b are as many as their ages. *)
LEMMA SquashedCount ==
    ASSUME TypeOK, RobContiguous, NEW b \in RobIdx, rob[b].valid
    PROVE  /\ IsFiniteSet(Squashed(b))
           /\ Cardinality(Squashed(b)) = rob_count - Age(b) - 1
           /\ Age(b) < rob_count
           /\ \A i \in RobIdx : i \in Squashed(b) <=> Age(b) < Age(i) /\ Age(i) < rob_count
<1> USE Zenon
<1> DEFINE I == (Age(b) + 1) .. (rob_count - 1)
<1> DEFINE f == [i \in Squashed(b) |-> Age(i)]
<1>1. rob_head \in RobIdx /\ rob_count \in 0 .. ROB_SIZE
  BY DEF TypeOK
<1>2. Age(b) \in 0 .. ROB_SIZE - 1 /\ Age(b) < rob_count
  BY <1>1, AgeBijective DEF RobContiguous
<1>3. \A i \in RobIdx : i \in Squashed(b) <=> Age(b) < Age(i) /\ Age(i) < rob_count
  BY DEF Squashed, RobContiguous, rob_newer_than
<1>4. IsFiniteSet(I) /\ Cardinality(I) = rob_count - Age(b) - 1
  <2>1. Age(b) + 1 \in Int /\ rob_count - 1 \in Int
    BY SMT, <1>1, <1>2, OooAssumption
  <2>2. IsFiniteSet(I) /\ Cardinality(I) = IF Age(b) + 1 > rob_count - 1 THEN 0
                                            ELSE (rob_count - 1) - (Age(b) + 1) + 1
    BY <2>1, FS_Interval
  <2> HIDE DEF I
  <2> QED BY SMT, <2>2, <1>1, <1>2, OooAssumption
<1>5. Squashed(b) \subseteq RobIdx
  BY DEF Squashed
<1>6. f \in Bijection(Squashed(b), I)
  <2>1. f \in [Squashed(b) -> I]
    BY SMTT(20), <1>1, <1>2, <1>3, <1>5, AgeBijective, OooAssumption
  <2>2. \A i, j \in Squashed(b) : f[i] = f[j] => i = j
    BY SMT, <1>1, <1>5, AgeBijective
  <2>3. \A a \in I : \E i \in Squashed(b) : f[i] = a
    <3> SUFFICES ASSUME NEW a \in I PROVE \E i \in Squashed(b) : f[i] = a
      OBVIOUS
    <3>1. a \in 0 .. ROB_SIZE - 1 /\ Age(b) < a /\ a < rob_count
      BY SMT, <1>1, <1>2, OooAssumption
    <3>2. AtAge(a) \in RobIdx /\ Age(AtAge(a)) = a
      BY SMT, <3>1, <1>1, AgeBijective
    <3>3. AtAge(a) \in Squashed(b)
      BY SMT, <3>1, <3>2, <1>3
    <3> QED BY <3>2, <3>3
  <2> QED BY SMT, <2>1, <2>2, <2>3 DEF Bijection, Injection, Surjection, IsInjective
<1>7. ExistsBijection(Squashed(b), I)
  BY <1>6 DEF ExistsBijection
<1>8. ExistsBijection(I, Squashed(b))
  BY <1>7, Fun_ExistsBijSymmetric
<1>9. IsFiniteSet(Squashed(b)) /\ Cardinality(Squashed(b)) = Cardinality(I)
  BY <1>4, <1>8, FS_Bijection
<1> QED BY SMT, <1>2, <1>3, <1>4, <1>9

(* The registers a flush returns are as many as the writers it undoes, and none
   of them was free: the free list counts right. *)
LEMMA FreedCount ==
    ASSUME IInv, NEW b \in RobIdx, NEW freed, freed = {rob[i].phys_rd : i \in SquashedWriters(b)}
    PROVE  /\ freed \in SUBSET PhysRegs
           /\ Cardinality(freelist.regs \cup freed)
                = freelist.count + Cardinality(SquashedWriters(b))
<1> USE Zenon
<1> DEFINE W == SquashedWriters(b)
<1> DEFINE g == [i \in W |-> rob[i].phys_rd]
<1>1. W \subseteq Writers
  BY DEF SquashedWriters, Squashed, Writers
<1>2. freed \in SUBSET PhysRegs
  BY SMT, <1>1, WriterFacts
<1>3. freelist.regs \in SUBSET PhysRegs /\ freelist.count = Cardinality(freelist.regs)
  BY DEF IInv, TypeOK, RegPartition
<1>4. freelist.regs \cap freed = {}
  BY SMT, <1>1 DEF IInv, RegPartition
<1>5. IsFiniteSet(freelist.regs) /\ IsFiniteSet(freed) /\ Cardinality(freed) \in Nat
      /\ Cardinality(freelist.regs) \in Nat
  BY SMT, <1>2, <1>3, PhysCardinality
<1>6. g \in Bijection(W, freed)
  <2>1. g \in [W -> freed]
    OBVIOUS
  <2>2. \A i, j \in W : g[i] = g[j] => i = j
    BY <1>1 DEF IInv, RegPartition
  <2>3. \A q \in freed : \E i \in W : g[i] = q
    OBVIOUS
  <2> HIDE DEF W, g
  <2> QED BY <2>1, <2>2, <2>3 DEF Bijection, Injection, Surjection, IsInjective
<1> HIDE DEF W, g
<1>7. ExistsBijection(freed, W)
  BY <1>6, Fun_ExistsBijSymmetric DEF ExistsBijection
<1>8. Cardinality(W) = Cardinality(freed)
  BY SMT, <1>5, <1>7, FS_Bijection
<1>9. Cardinality(freelist.regs \cup freed)
        = Cardinality(freelist.regs) + Cardinality(freed) - Cardinality(freelist.regs \cap freed)
  BY <1>5, FS_Union
<1>10. Cardinality(freelist.regs \cap freed) = 0
  BY <1>4, FS_EmptySet
<1> QED BY SMT, <1>2, <1>3, <1>5, <1>8, <1>9, <1>10 DEF W

(* The laws the other modules assume hold. *)
LEMMA SetLawsHold == SetLaws
<1> USE Zenon
<1>1. \A S \in SUBSET Nat : S # {} => \E m \in S : \A x \in S : m <= x
  BY LeastNatural
<1>2. ASSUME NEW S \in SUBSET PhysRegs
      PROVE  /\ Cardinality(S) \in 0 .. NUM_PHYS_REGS
             /\ \A x \in PhysRegs \ S : Cardinality(S \cup {x}) = Cardinality(S) + 1
             /\ \A x \in S : Cardinality(S \ {x}) = Cardinality(S) - 1
  <2>1. IsFiniteSet(S) /\ Cardinality(S) \in 0 .. NUM_PHYS_REGS
    BY PhysCardinality
  <2> QED BY SMT, <2>1, FS_AddElement, FS_RemoveElement
<1> QED BY <1>1, <1>2 DEF SetLaws

(* The counts a flush relies on are right. *)
LEMMA FlushCountsHold == ASSUME IInv PROVE FlushCounts
BY Zenon, SquashedCount, FreedCount DEF FlushCounts, IInv

(* The invariant holds initially. *)
LEMMA InitInv == Init => IInv
<1> SUFFICES ASSUME Init PROVE IInv
  BY Zenon
<1>1. TypeOK
  BY Zenon, InitType
<1>2. \A i \in RobIdx : ~rob[i].valid
  BY Zenon DEF Init, NoEntry
<1>3. Writers = {} /\ \A r : \A i \in RobIdx : ~Writer(i, r)
  BY Zenon, <1>2 DEF Writers, Writer
<1>4. RobContiguous
  <2>1. rob_head = 0 /\ rob_tail = 0 /\ rob_count = 0 /\ ROB_SIZE \in Nat /\ ROB_SIZE > 1
    BY Zenon, OooAssumption DEF Init
  <2>2. \A i \in RobIdx : ~(Age(i) < rob_count)
    BY <2>1 DEF Age, RobIdx
  <2>3. rob_tail = IF rob_head + rob_count < ROB_SIZE THEN rob_head + rob_count
                   ELSE rob_head + rob_count - ROB_SIZE
    BY <2>1
  <2> QED BY <1>2, <2>2, <2>3 DEF RobContiguous
<1>5. RegPartition
  <2>1. {rrat[r] : r \in ArchRegs} = ArchRegs /\ {rob[i].phys_rd : i \in Writers} = {}
    BY Zenon, <1>3 DEF Init
  <2>2. freelist.count = Cardinality(freelist.regs)
    <3>1. NREG \in Int /\ NUM_PHYS_REGS - 1 \in Int /\ NREG < NUM_PHYS_REGS /\ NUM_PHYS_REGS \in Nat
      BY IsaAssumption, OooAssumption
    <3>2. Cardinality(NREG .. NUM_PHYS_REGS - 1) =
            IF NREG > NUM_PHYS_REGS - 1 THEN 0 ELSE (NUM_PHYS_REGS - 1) - NREG + 1
      BY Zenon, <3>1, FS_Interval
    <3>3. Cardinality(NREG .. NUM_PHYS_REGS - 1) = NUM_PHYS_REGS - NREG
      BY <3>1, <3>2
    <3> QED BY Zenon, <3>3 DEF Init
  <2>3. /\ PhysRegs = freelist.regs \cup ArchRegs \cup {}
        /\ freelist.regs \cap ArchRegs = {}
    BY IsaAssumption, OooAssumption DEF Init, PhysRegs, ArchRegs
  <2>4. \A q, r \in ArchRegs : rrat[q] = rrat[r] => q = r
    BY Zenon DEF Init
  <2> QED BY <1>3, <2>1, <2>2, <2>3, <2>4 DEF RegPartition
<1>6. RatConsistent
  BY <1>3, IsaAssumption DEF Init, RatConsistent, MapsTo, ArchRegs
<1> QED BY <1>1, <1>4, <1>5, <1>6 DEF IInv

-----------------------------------------------------------------------------
(* IInv is an invariant of the engine. *)
THEOREM Invariance == Spec => []IInv
<1> USE Zenon
<1>1. Init => IInv
  BY InitInv
<1>2. IInv /\ [Next]_vars => IInv'
  BY SetLawsHold, FlushCountsHold, NextInv
<1> QED BY <1>1, <1>2, PTL DEF Spec

(* The engine is type correct: no index of ooo.c leaves its array, the free
   list never overflows, and the ROB never holds more than ROB_SIZE entries. *)
THEOREM TypeCorrect == Spec => []TypeOK
<1>1. IInv => TypeOK
  BY DEF IInv
<1> QED BY <1>1, Invariance, PTL

(* Every physical register is free, committed or in flight, and only one of
   these, whatever is renamed, flushed and committed. *)
THEOREM RegistersPartitioned == Spec => []RegPartition
<1>1. IInv => RegPartition
  BY DEF IInv
<1> QED BY <1>1, Invariance, PTL

(* The rat is the rrat updated by the live instructions, so a flush of any
   suffix of the ROB restores the mapping at the branch. *)
THEOREM MapsConsistent == Spec => []RatConsistent
<1>1. IInv => RatConsistent
  BY DEF IInv
<1> QED BY <1>1, Invariance, PTL

(* The live entries of the ROB are the rob_count slots from rob_head on. *)
THEOREM RobIsARing == Spec => []RobContiguous
<1>1. IInv => RobContiguous
  BY Zenon DEF IInv
<1> QED BY <1>1, Invariance, PTL

-----------------------------------------------------------------------------
(* WInv is an invariant of the engine: with IInv it is inductive. *)
THEOREM WakeupInvariant == Spec => []WInv
<1> USE Zenon
<1>1. Init => WInv
  BY InitW
<1>2. IInv /\ WInv /\ [Next]_vars => WInv'
  BY SetLawsHold, WakeupStep
<1> QED BY <1>1, <1>2, Invariance, PTL DEF Spec

(* The bitmasks of free and ready stations agree with the stations, through
   dispatch, wakeup, issue and flush. *)
THEOREM MasksSummarise == Spec => []MasksExact
<1>1. WInv => MasksExact
  BY Zenon DEF WInv, MasksOk, MasksExact
<1> QED BY <1>1, WakeupInvariant, PTL

(* Every operand that waits in a station waits for the destination of an older
   live instruction that has not executed: cdb_broadcast will still wake it,
   whatever was flushed, committed or renamed meanwhile. *)
THEOREM WakeupsNotLost == Spec => []NoLostWakeup
<1> USE Zenon
<1>1. WInv => NoLostWakeup
  <2> SUFFICES ASSUME WInv PROVE NoLostWakeup
    OBVIOUS
  <2>1. WritersOf(rob) = Writers
    BY DEF WritersOf, Writers
  <2> QED BY <2>1 DEF WInv, WaitsOk, Waits, Produces, NoLostWakeup, WaitsForLiveProducer,
             rob_newer_than
<1> QED BY <1>1, WakeupInvariant, PTL

(* Each live instruction that has not executed is in exactly one station or
   unit slot, and those hold nothing else: nothing executes twice, is
   forgotten, or survives its flush. *)
THEOREM ExecutesOnce == Spec => []InFlightOnce
<1> USE Zenon
<1>1. ASSUME TypeOK, WInv, NEW i \in RobIdx
      PROVE  Holders(i) = IF rob[i].valid /\ ~rob[i].ready THEN 1 ELSE 0
  <2>1. Cardinality({}) = 0 /\ \A x : Cardinality({x}) = 1
    BY FS_EmptySet, FS_Singleton
  <2>2. Holders(i) = Cardinality(RsOf(i)) + Cardinality(IntOf(i)) + Cardinality(MulOf(i))
    BY DEF Holders, RsOf, IntOf, MulOf
  <2>3. i \in Pending(rob) <=> rob[i].valid /\ ~rob[i].ready
    BY DEF Pending
  <2>4. CASE i \in Pending(rob)
    <3>1. \/ (\E k : RsOf(i) = {k}) /\ IntOf(i) = {} /\ MulOf(i) = {}
          \/ RsOf(i) = {} /\ (\E k : IntOf(i) = {k}) /\ MulOf(i) = {}
          \/ RsOf(i) = {} /\ IntOf(i) = {} /\ (\E k : MulOf(i) = {k})
      BY <1>1, <2>4, HoldersOf
    <3>2. \/ Cardinality(RsOf(i)) = 1 /\ Cardinality(IntOf(i)) = 0 /\ Cardinality(MulOf(i)) = 0
          \/ Cardinality(RsOf(i)) = 0 /\ Cardinality(IntOf(i)) = 1 /\ Cardinality(MulOf(i)) = 0
          \/ Cardinality(RsOf(i)) = 0 /\ Cardinality(IntOf(i)) = 0 /\ Cardinality(MulOf(i)) = 1
      BY <2>1, <3>1
    <3>3. Holders(i) = 1
      BY SMT, <2>2, <3>2
    <3> QED BY <2>3, <2>4, <3>3
  <2>5. CASE i \notin Pending(rob)
    <3>1. RsOf(i) = {} /\ IntOf(i) = {} /\ MulOf(i) = {}
      BY SMT, <1>1, <2>5, HoldersOf
    <3>2. Cardinality(RsOf(i)) = 0 /\ Cardinality(IntOf(i)) = 0 /\ Cardinality(MulOf(i)) = 0
      BY <2>1, <3>1
    <3>3. Holders(i) = 0
      BY SMT, <2>2, <3>2
    <3> QED BY <2>3, <2>5, <3>3
  <2> QED BY <2>4, <2>5
<1>2. TypeOK /\ WInv => InFlightOnce
  BY <1>1 DEF InFlightOnce
<1> QED BY <1>2, TypeCorrect, WakeupInvariant, PTL

-----------------------------------------------------------------------------
(* The invariants of renaming and scheduling give what the proofs about values
   and control flow use. *)
LEMMA KnownHolds == ASSUME IInv, WInv PROVE Known
<1> USE Zenon
<1>0. TypeOK
  BY DEF IInv
<1>1. MasksExact
  BY DEF WInv, MasksOk, MasksExact
<1>2. WritersOf(rob) = Writers
  BY DEF WritersOf, Writers
<1>3. PrfReady
  BY <1>2 DEF WInv, PrfOk, PrfReady
<1>4. \A i \in RobIdx : rob[i].valid /\ ~Renames(rob[i].arch_rd) => rob[i].phys_rd \in {0, NoReg}
  BY DEF WInv, PlainOk
<1>5. \A i \in Pending(rob) : rob[i].valid /\ ~rob[i].ready
  BY DEF Pending
<1>6. \A k \in RsIdx : InPlace(rs[k])
  BY <1>0, <1>5, HeldPending DEF InPlace, WInv, TagsOk
<1>7. \A s \in IntSlots : InPlace(latch_int[s])
  BY <1>0, <1>5, HeldPending DEF InPlace, WInv, TagsOk
<1>8. \A s \in MulSlots : InPlace(latch_mul[s])
  BY <1>0, <1>5, HeldPending DEF InPlace, WInv, TagsOk
<1> QED BY <1>1, <1>3, <1>4, <1>6, <1>7, <1>8 DEF Known

(* Every step of the engine keeps DInv. *)
LEMMA DataStep ==
    ASSUME SetLaws, Known, IInv', DInv, [Next]_vars
    PROVE  DInv'
<1> USE Zenon
<1>0. TypeOK /\ Values /\ Chain /\ Serial /\ PanicIsGenuine /\ TypeOK' /\ RobContiguous' /\ Ordered
  BY DEF Known, IInv, DInv, Chain
<1> SUFFICES Values' /\ Chain' /\ Serial' /\ PanicIsGenuine'
  BY DEF DInv
<1>1. CASE ooo_stage_commit
  <2>1. state' # "PANIC"
    BY <1>1 DEF ooo_stage_commit
  <2> QED BY <1>0, <1>1, <2>1, CommitValues, CommitChain, CommitSerial, NoPanic
<1>2. CASE CommitPanic
  <2>1. /\ Still /\ UNCHANGED <<rob_count, pc, latch_if_id, latch_id_rn, fetch_pc>>
        /\ UNCHANGED <<rs, latch_int, latch_mul>> /\ state = "RUNNING"
    BY <1>2 DEF CommitPanic, Still, archVars, renameVars, robVars, rsVars, frontVars
  <2>2. Values' /\ Chain' /\ Serial'
    BY <1>0, <2>1, StillValues, StillChain, StillSerial
  <2> QED BY <1>0, <1>2, <2>2, PanicStep
<1>3. ASSUME NEW s \in IntSlots, IntComplete(s) PROVE Values' /\ Chain' /\ Serial' /\ PanicIsGenuine'
  <2>1. Completes(latch_int[s], RobIdx, LatchIr(latch_int[s]).fault \/ Mispredicted(latch_int[s]))
    BY <1>0, <1>3, IntCompletes
  <2>2. Values' /\ Serial' /\ state' # "PANIC"
    BY <1>0, <2>1, CompletionKeeps, CompletionSerial, CompletionState
  <2> QED BY <1>0, <1>3, <2>2, IntCompleteChain, NoPanic
<1>4. ASSUME NEW s \in IntSlots, IntMispredict(s) PROVE Values' /\ Chain' /\ Serial' /\ PanicIsGenuine'
  <2>1. Completes(latch_int[s], Upto(latch_int[s].rob_idx), LatchIr(latch_int[s]).fault)
    BY <1>0, <1>4, MispredictCompletes
  <2>2. Values' /\ Serial' /\ state' # "PANIC"
    BY <1>0, <2>1, CompletionKeeps, CompletionSerial, CompletionState
  <2> QED BY <1>0, <1>4, <2>2, MispredictChain, NoPanic
<1>5. ASSUME NEW s \in IntSlots, IssueInt(s) PROVE Values' /\ Chain' /\ Serial' /\ PanicIsGenuine'
  <2>1. /\ Still /\ UNCHANGED <<rob_count, pc, latch_if_id, latch_id_rn, fetch_pc>>
        /\ state = "RUNNING" /\ state' = state
    BY <1>5 DEF IssueInt, Still, archVars, renameVars, robVars, frontVars
  <2>2. state' # "PANIC"
    BY SMT, <2>1
  <2> QED BY <1>0, <1>5, <2>1, <2>2, IssueIntValues, StillChain, StillSerial, NoPanic
<1>6. ASSUME NEW s \in MulSlots, MulComplete(s) PROVE Values' /\ Chain' /\ Serial' /\ PanicIsGenuine'
  <2>1. Completes(latch_mul[s], RobIdx, LatchIr(latch_mul[s]).fault)
    BY <1>0, <1>6, MulCompletes
  <2>2. Values' /\ Serial' /\ state' # "PANIC"
    BY <1>0, <2>1, CompletionKeeps, CompletionSerial, CompletionState
  <2> QED BY <1>0, <1>6, <2>2, MulCompleteChain, NoPanic
<1>7. ASSUME NEW s \in MulSlots, IssueMul(s) PROVE Values' /\ Chain' /\ Serial' /\ PanicIsGenuine'
  <2>1. /\ Still /\ UNCHANGED <<rob_count, pc, latch_if_id, latch_id_rn, fetch_pc>>
        /\ state = "RUNNING" /\ state' = state
    BY <1>7 DEF IssueMul, Still, archVars, renameVars, robVars, frontVars
  <2>2. state' # "PANIC"
    BY <2>1
  <2> QED BY <1>0, <1>7, <2>1, <2>2, IssueMulValues, StillChain, StillSerial, NoPanic
<1>8. CASE ooo_stage_rn
  <2>1. state' # "PANIC"
    BY <1>8 DEF ooo_stage_rn
  <2> QED BY <1>0, <1>8, <2>1, RenameValues, RenameChain, RenameSerial, NoPanic
<1>9. CASE ooo_stage_id
  <2>1. Still /\ UNCHANGED <<rs, latch_int, latch_mul>> /\ state = "RUNNING" /\ state' = state
    BY <1>9 DEF ooo_stage_id, Still, archVars, renameVars, robVars, rsVars
  <2>2. state' # "PANIC"
    BY SMT, <2>1
  <2> QED BY <1>0, <1>9, <2>1, <2>2, StillValues, DecodeChain, StillSerial, NoPanic
<1>10. CASE ooo_stage_if
  <2>1. Still /\ UNCHANGED <<rs, latch_int, latch_mul>> /\ state = "RUNNING" /\ state' = state
    BY <1>10 DEF ooo_stage_if, Still, archVars, renameVars, robVars, rsVars
  <2>2. state' # "PANIC"
    BY <2>1
  <2> QED BY <1>0, <1>10, <2>1, <2>2, StillValues, FetchChain, StillSerial, NoPanic
<1>11. CASE UNCHANGED vars
  <2>1. /\ Still /\ UNCHANGED <<rob_count, pc, latch_if_id, latch_id_rn, fetch_pc>>
        /\ UNCHANGED <<rs, latch_int, latch_mul>> /\ state' = state
    BY <1>11 DEF vars, Still, archVars, renameVars, robVars, rsVars, frontVars
  <2>2. Values' /\ Chain' /\ Serial'
    BY <1>0, <2>1, StillValues, StillChain, StillSerial
  <2>3. PanicIsGenuine'
    BY <1>0, <2>1 DEF PanicIsGenuine, StepOf, Committed, Still
  <2> QED BY <2>2, <2>3
<1> QED
  BY <1>1, <1>2, <1>3, <1>4, <1>5, <1>6, <1>7, <1>8, <1>9, <1>10, <1>11 DEF Next

(* The programs that are run have neither ecall nor mret. *)
TrapFree == \A q \in Programs : Untrapped(q)

(* DInv is an invariant of the engine: what has executed holds the values that
   the functional simulator computes, what is in flight is the path it takes up
   to the first misprediction, and what changes the CSRs is alone. *)
THEOREM DataInvariant == TrapFree => (Spec => []DInv)
<1> USE Zenon
<1> SUFFICES ASSUME TrapFree PROVE Spec => []DInv
  OBVIOUS
<1>1. Init => DInv
  BY DataInit DEF TrapFree
<1>2. IInv /\ WInv /\ IInv' /\ DInv /\ [Next]_vars => DInv'
  BY SetLawsHold, KnownHolds, DataStep
<1> QED BY <1>1, <1>2, Invariance, WakeupInvariant, PTL DEF Spec

(* The panic of ooo_stage_commit reports a fault of the program, never one of a
   wrong path or of a value the engine got wrong. *)
THEOREM PanicsGenuine == TrapFree => (Spec => []PanicIsGenuine)
<1> USE Zenon
<1> SUFFICES ASSUME TrapFree PROVE Spec => []PanicIsGenuine
  OBVIOUS
<1>1. DInv => PanicIsGenuine
  BY DEF DInv
<1>2. Spec => []DInv
  BY DataInvariant
<1> QED BY <1>1, <1>2, PTL

(* The out-of-order engine implements the functional simulator: through
   renaming, out-of-order issue, prediction and flush, its commits are the steps
   of exec_once, in the order and with the registers, pc and CSRs of exec_once. *)
THEOREM EngineImplementsIsa == TrapFree => (Spec => ImplementsIsa)
<1> USE Zenon
<1> SUFFICES ASSUME TrapFree PROVE Spec => ImplementsIsa
  OBVIOUS
<1>1. Init => Ref!IsaInit
  BY RefInit
<1>2. IInv /\ WInv /\ DInv /\ [Next]_vars => [Ref!exec_once]_(Ref!isaVars)
  BY KnownHolds, RefNext
<1>3. Spec => []DInv
  BY DataInvariant
<1> QED BY <1>1, <1>2, <1>3, Invariance, WakeupInvariant, PTL DEF Spec, ImplementsIsa, Ref!IsaSpec

(* The CSRs change and the run ends, at execute, only for the instruction at the
   head of the ROB, which is the one at cpu.pc: no wrong path has an effect. *)
THEOREM EffectsByHead == TrapFree => (Spec => EffectsNotSpeculative)
<1> USE Zenon
<1> SUFFICES ASSUME TrapFree PROVE Spec => EffectsNotSpeculative
  OBVIOUS
<1>1. IInv /\ WInv /\ DInv /\ [Next]_vars => (Effect => ByHead)
  BY KnownHolds, EffectsStep
<1>2. IInv /\ WInv /\ DInv /\ [Next]_vars =>
        [csr' # csr \/ (state' # state /\ state' = "END") =>
           \E s \in IntSlots : /\ latch_int[s].valid /\ ~latch_int'[s].valid
                                /\ latch_int[s].rob_idx = rob_head
                                /\ rob[rob_head].pc = pc]_vars
  BY <1>1 DEF Effect, ByHead
<1>3. Spec => []DInv
  BY DataInvariant
<1> QED BY <1>2, <1>3, Invariance, WakeupInvariant, PTL DEF Spec, EffectsNotSpeculative
=============================================================================
