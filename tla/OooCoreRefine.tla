--------------------------- MODULE OooCoreRefine ----------------------------
(***************************************************************************)
(* The rest of the invariant of OooCore about values and control flow, and *)
(* the steps of the engine as steps of the functional simulator.           *)
(***************************************************************************)
EXTENDS OooCoreValues

(***************************************************************************)
(* The completion of an instruction in its unit, with and without a        *)
(* misprediction: what it writes is what the functional simulator          *)
(* computes, and what is left in flight is the path it takes.              *)
(***************************************************************************)
(* What completing the instruction in latch l does, where ir is what its
   executor returns, flt its fault flag, and K the slots that stay: all of
   them, or those up to a mispredicted branch. *)
Freed(K) == {rob[j].phys_rd : j \in Writers \ K}

RobCompleted(i, ir, flt, K) ==
    /\ i \in K
    /\ \A j \in RobIdx : rob'[j].valid => j \in K /\ rob[j].valid
    /\ \A j \in K : j # i => rob'[j] = rob[j]
    /\ rob'[i] = [rob[i] EXCEPT !.ready = TRUE, !.dnpc = ir.dnpc, !.fault = flt]
    /\ \A j \in K, m \in RobIdx : Age(m) < Age(j) => m \in K

PrfCompleted(p, v, K) ==
    \A q \in PhysRegs \ Freed(K) :
        prf'[q] = IF q = p THEN [value |-> v, ready |-> TRUE] ELSE prf[q]

PlacesCompleted(p, v, K) ==
    /\ \A k \in RsIdx : rs'[k].valid => /\ rs[k].valid /\ rs[k].rob_idx \in K
                                        /\ rs'[k] = RsAfter(p, v)[k]
    /\ \A s \in IntSlots : latch_int'[s].valid => /\ latch_int'[s] = latch_int[s]
                                                  /\ latch_int[s].rob_idx \in K
    /\ \A s \in MulSlots : latch_mul'[s].valid => /\ latch_mul'[s] = latch_mul[s]
                                                  /\ latch_mul[s].rob_idx \in K

Completes(l, K, flt) ==
    /\ state = "RUNNING"
    /\ l \in Latches /\ l.valid /\ InPlace(l) /\ Loaded(l)
    /\ K \subseteq RobIdx
    /\ RobCompleted(l.rob_idx, LatchIr(l), flt, K)
    /\ PrfCompleted(l.phys_rd, LatchIr(l).result, K)
    /\ PlacesCompleted(l.phys_rd, LatchIr(l).result, K)
    /\ csr' = LatchIr(l).csr /\ state' = LatchIr(l).state
    /\ flt => LatchIr(l).fault \/ LatchIr(l).dnpc = BadPc
    /\ UNCHANGED <<prog, rob_head, rrat, gpr, csr_committed>>

(* Its register is written for the first time. *)
LEMMA FirstWrite ==
    ASSUME Known, NEW l \in Latches, l.valid, InPlace(l), NEW q \in PhysRegs, q # 0, prf[q].ready
    PROVE  q # l.phys_rd
<1> USE Zenon
<1>1. PICK i \in RobIdx : i = l.rob_idx
  BY DEF Latches
<1>2. rob[i].valid /\ ~rob[i].ready /\ l.phys_rd = rob[i].phys_rd
  BY <1>1 DEF InPlace
<1>3. CASE Renames(rob[i].arch_rd)
  <2>1. i \in Writers
    BY <1>2, <1>3 DEF Writers
  <2>2. ~prf[rob[i].phys_rd].ready
    BY <1>2, <2>1 DEF Known, PrfReady
  <2> QED BY <1>2, <2>2
<1>4. CASE ~Renames(rob[i].arch_rd)
  <2>1. rob[i].phys_rd \in {0, NoReg}
    BY <1>2, <1>4 DEF Known
  <2> QED BY SMT, <1>2, <2>1, OooAssumption DEF PhysRegs, NoReg
<1> QED BY <1>3, <1>4

(* What stays reads what it read. *)
LEMMA CompletionArgs ==
    ASSUME Known, NEW l \in Latches, l.valid, InPlace(l), NEW K \in SUBSET RobIdx, NEW ir, NEW flt,
           RobCompleted(l.rob_idx, ir, flt, K), NEW v, PrfCompleted(l.phys_rd, v, K),
           rob_head' = rob_head, rrat' = rrat, NEW j \in K
    PROVE  ArgsKept(j)
<1> USE Zenon
<1>0. IInv /\ TypeOK
  BY DEF Known, IInv
<1> SUFFICES ASSUME NEW r \in ArchRegs \ {0}, NEW p \in PhysRegs, MapsTo(r, Age(j), p)
             PROVE  MapsTo(r, Age(j), p)' /\ (prf[p].ready => prf'[p] = prf[p])
  BY DEF ArgsKept
<1>1. PICK i \in RobIdx : i = l.rob_idx
  BY DEF Latches
<1>2. PICK a \in Int : a = Age(j) /\ a = Age(j)'
  <2>1. Age(j) \in Int /\ Age(j)' = Age(j)
    BY SMT, <1>0, OooAssumption DEF Age, TypeOK, RobIdx
  <2> QED BY <2>1
<1>3. MapsTo(r, a, p)
  BY <1>2
<1>4. rob[i] \in RobEntries
  BY <1>0 DEF TypeOK
<1>5. ASSUME NEW k \in RobIdx, Age(k) < a PROVE SameWriter(k)
  <2>1. k \in K
    BY <1>2, <1>5 DEF RobCompleted
  <2>2. CASE k = i
    <3>1. rob'[i] = [rob[i] EXCEPT !.ready = TRUE, !.dnpc = ir.dnpc, !.fault = flt]
      BY <1>1 DEF RobCompleted
    <3> QED BY SMT, <1>4, <2>2, <3>1 DEF SameWriter, RobEntries
  <2>3. CASE k # i
    BY <1>1, <2>1, <2>3 DEF RobCompleted, SameWriter
  <2> QED BY <2>2, <2>3
<1>6. MapsTo(r, a, p)'
  BY <1>0, <1>3, <1>5, MapsKept
<1>7. ASSUME prf[p].ready PROVE prf'[p] = prf[p]
  <2>1. p # 0 /\ ((\E w \in Writers : Age(w) < a /\ p = rob[w].phys_rd) \/ p = rrat[r])
    BY SMT, <1>0, <1>3, Mapped
  <2>2. p \notin Freed(K)
    <3> SUFFICES ASSUME NEW m \in Writers \ K, p = rob[m].phys_rd PROVE FALSE
      BY DEF Freed
    <3>1. p # rrat[r]
      BY <1>0, Dests
    <3>2. PICK w \in Writers : Age(w) < a /\ p = rob[w].phys_rd
      BY <2>1, <3>1
    <3>3. w \in RobIdx
      BY DEF Writers
    <3>4. w \in K
      BY <1>2, <3>2, <3>3 DEF RobCompleted
    <3>5. w = m
      BY <1>0, <3>2, Dests
    <3> QED BY <3>4, <3>5
  <2>3. p # l.phys_rd
    BY <1>7, <2>1, FirstWrite
  <2> QED BY <2>2, <2>3 DEF PrfCompleted
<1> QED BY <1>2, <1>6, <1>7

(* The values of what stays, and the value that is written. *)
LEMMA CompletionValues ==
    ASSUME Known, NEW l \in Latches, l.valid, InPlace(l), NEW K \in SUBSET RobIdx, NEW ir, NEW flt,
           RobCompleted(l.rob_idx, ir, flt, K), NEW v, PrfCompleted(l.phys_rd, v, K)
    PROVE  /\ \A r \in ArchRegs \ {0} : prf'[rrat[r]] = prf[rrat[r]]
           /\ \A j \in Writers \cap K : j # l.rob_idx => prf'[rob[j].phys_rd] = prf[rob[j].phys_rd]
           /\ l.rob_idx \in Writers => prf'[l.phys_rd] = [value |-> v, ready |-> TRUE]
<1> USE Zenon
<1>0. IInv
  BY DEF Known
<1>1. PICK i \in RobIdx : i = l.rob_idx
  BY DEF Latches
<1>2. rob[i].valid /\ ~rob[i].ready /\ l.phys_rd = rob[i].phys_rd /\ i \in K
  BY <1>1 DEF InPlace, RobCompleted
<1>3. ASSUME NEW r \in ArchRegs \ {0} PROVE prf'[rrat[r]] = prf[rrat[r]]
  <2>1. PICK q \in PhysRegs : q = rrat[r] /\ q # 0
    BY <1>0, Dests
  <2>2. q \notin Freed(K)
    BY <1>0, <2>1, Dests DEF Freed
  <2>3. prf[q].ready
    BY <2>1 DEF Known, PrfReady
  <2>4. q # l.phys_rd
    BY <2>1, <2>3, FirstWrite
  <2> QED BY <2>1, <2>2, <2>4 DEF PrfCompleted
<1>4. ASSUME NEW j \in Writers \cap K PROVE rob[j].phys_rd \in PhysRegs \ Freed(K)
  <2>1. rob[j].phys_rd \in PhysRegs
    BY <1>0, Dests
  <2>2. ASSUME NEW m \in Writers \ K, rob[j].phys_rd = rob[m].phys_rd PROVE FALSE
    <3>1. j = m
      BY <1>0, <2>2, Dests
    <3> QED BY <3>1
  <2> QED BY <2>1, <2>2 DEF Freed
<1>5. ASSUME NEW j \in Writers \cap K, j # i PROVE prf'[rob[j].phys_rd] = prf[rob[j].phys_rd]
  <2>1. rob[j].phys_rd # l.phys_rd
    <3>1. CASE i \in Writers
      BY <1>0, <1>2, <1>5, <3>1, Dests
    <3>2. CASE i \notin Writers
      <4>1. rob[i].phys_rd \in {0, NoReg}
        BY <1>2, <3>2 DEF Known, Writers
      <4>2. rob[j].phys_rd # 0 /\ rob[j].phys_rd \in PhysRegs
        BY <1>0, Dests
      <4> QED BY SMT, <1>2, <4>1, <4>2, OooAssumption DEF PhysRegs, NoReg
    <3> QED BY <3>1, <3>2
  <2>2. rob[j].phys_rd \in PhysRegs \ Freed(K)
    BY <1>4
  <2> QED BY <2>1, <2>2 DEF PrfCompleted
<1>6. ASSUME i \in Writers PROVE prf'[l.phys_rd] = [value |-> v, ready |-> TRUE]
  <2>1. l.phys_rd \in PhysRegs \ Freed(K)
    BY <1>2, <1>4, <1>6
  <2> QED BY <2>1 DEF PrfCompleted
<1> QED BY <1>1, <1>3, <1>5, <1>6

(* A result that is broadcast: a source takes it or stays as it is. *)
TakesOrStays(src, src2, p, v) ==
    src2 = src \/ (~src.ready /\ src.ptag = p /\ src2 = [src EXCEPT !.ready = TRUE, !.val = v])

(* A source takes the value broadcast, or stays as it is. *)
LEMMA Broadcasted ==
    ASSUME TypeOK, NEW p, NEW v, NEW k \in RsIdx, NEW e, e = RsAfter(p, v)[k]
    PROVE  /\ e.valid = rs[k].valid /\ e.rob_idx = rs[k].rob_idx /\ e.eu_type = rs[k].eu_type
           /\ TakesOrStays(rs[k].src1, e.src1, p, v) /\ TakesOrStays(rs[k].src2, e.src2, p, v)
<1> USE Zenon
<1>1. rs[k] \in RsEntries
  BY DEF TypeOK
<1>2. CASE e = rs[k]
  BY <1>2 DEF TakesOrStays
<1>3. CASE e = [rs[k] EXCEPT !.src1 = Wake(@, p, v), !.src2 = Wake(@, p, v)]
  <2>1. /\ e.valid = rs[k].valid /\ e.rob_idx = rs[k].rob_idx /\ e.eu_type = rs[k].eu_type
        /\ e.src1 = Wake(rs[k].src1, p, v) /\ e.src2 = Wake(rs[k].src2, p, v)
    BY <1>1, <1>3 DEF RsEntries
  <2> QED BY <2>1 DEF TakesOrStays, Wake
<1> QED BY <1>2, <1>3 DEF RsAfter, Woken

(* The entry of what stays is of the same instruction. *)
LEMMA SameInst ==
    ASSUME TypeOK, NEW i \in RobIdx, NEW ir, NEW flt, NEW K \in SUBSET RobIdx,
           RobCompleted(i, ir, flt, K), prog' = prog, NEW j \in K
    PROVE  /\ Inst(j)' = Inst(j) /\ rob'[j].pc = rob[j].pc /\ rob'[j].bp = rob[j].bp
           /\ SameWriter(j)
<1> USE Zenon
<1>1. rob[j] \in RobEntries
  BY DEF TypeOK
<1>2. CASE j = i
  <2>1. rob'[j] = [rob[j] EXCEPT !.ready = TRUE, !.dnpc = ir.dnpc, !.fault = flt]
    BY <1>2 DEF RobCompleted
  <2>2. rob'[j].pc = rob[j].pc /\ rob'[j].bp = rob[j].bp /\ SameWriter(j)
    BY <1>1, <2>1 DEF RobEntries, SameWriter
  <2> QED BY <2>2 DEF Inst
<1>3. CASE j # i
  <2>1. rob'[j] = rob[j]
    BY <1>3 DEF RobCompleted
  <2> QED BY <2>1 DEF Inst, SameWriter
<1> QED BY <1>2, <1>3

(* The instruction that completes is done. *)
LEMMA CompletedDone ==
    ASSUME Known, Serial, NEW l, NEW K, NEW flt, Completes(l, K, flt)
    PROVE  LET i == l.rob_idx IN Done(i)'
<1> USE Zenon
<1>0. TypeOK /\ state = "RUNNING"
  BY DEF Known, IInv, Completes
<1>1. l \in Latches /\ l.valid /\ InPlace(l) /\ Loaded(l) /\ K \in SUBSET RobIdx
  BY DEF Completes
<1>2. PICK i \in RobIdx : i = l.rob_idx
  BY <1>1 DEF Latches
<1>3. PICK v1 \in Words, v2 \in Words : v1 = l.v1 /\ v2 = l.v2
  BY <1>1 DEF Latches
<1>4. PICK ir : ir = LatchIr(l)
  OBVIOUS
<1>5. /\ RobCompleted(i, ir, flt, K) /\ PrfCompleted(l.phys_rd, ir.result, K)
      /\ csr' = ir.csr /\ (flt => ir.fault \/ ir.dnpc = BadPc) /\ i \in K
      /\ prog' = prog /\ rob_head' = rob_head /\ rrat' = rrat /\ csr_committed' = csr_committed
  BY <1>2, <1>4 DEF Completes, RobCompleted
<1>6. /\ Inst(i)' = Inst(i) /\ rob'[i].pc = rob[i].pc /\ SameWriter(i)
  BY <1>0, <1>1, <1>5, SameInst
<1>7. ArgsKept(i)
  BY <1>1, <1>2, <1>5, CompletionArgs
<1>8. HasArgs(i, v1, v2)'
  <2>1. HasArgs(i, v1, v2)
    BY <1>1, <1>2, <1>3 DEF Loaded
  <2> QED BY <1>0, <1>5, <1>6, <1>7, <2>1, HasArgsKept
<1>9. PICK x : x = Reference(i, v1, v2)
  OBVIOUS
<1>10. Reference(i, v1, v2)' = x
  BY <1>5, <1>6, <1>9 DEF Reference
<1>11. /\ ir.result = x.result /\ ir.dnpc = x.dnpc
       /\ Serializing(Inst(i)) => ir.csr = x.csr
       /\ ir.fault => Inst(i).op = "inv"
  BY <1>0, <1>1, <1>2, <1>3, <1>4, <1>9, UnitAgrees
<1>12. rob'[i].dnpc = ir.dnpc /\ rob'[i].fault = flt
  <2>1. rob[i] \in RobEntries
    BY <1>0 DEF TypeOK
  <2>2. rob'[i] = [rob[i] EXCEPT !.ready = TRUE, !.dnpc = ir.dnpc, !.fault = flt]
    BY <1>5 DEF RobCompleted
  <2> QED BY <2>1, <2>2 DEF RobEntries
<1>13. Renames(rob'[i].arch_rd) => prf'[rob'[i].phys_rd].value = ir.result
  <2> SUFFICES ASSUME Renames(rob[i].arch_rd) PROVE prf'[rob[i].phys_rd].value = ir.result
    BY <1>6 DEF SameWriter
  <2>1. i \in Writers /\ l.phys_rd = rob[i].phys_rd
    BY <1>1, <1>2 DEF InPlace, Writers
  <2>2. PICK v : v = ir.result
    OBVIOUS
  <2>3. PrfCompleted(l.phys_rd, v, K)
    BY <1>5, <2>2
  <2>4. prf'[l.phys_rd] = [value |-> v, ready |-> TRUE]
    <3>1. RobCompleted(l.rob_idx, ir, flt, K) /\ l.rob_idx \in Writers
      BY <1>2, <1>5, <2>1
    <3> QED BY <1>1, <2>3, <3>1, CompletionValues
  <2>5. [value |-> v, ready |-> TRUE].value = v
    OBVIOUS
  <2> QED BY <2>1, <2>2, <2>4, <2>5
<1>14. Holds(i, x)'
  BY <1>5, <1>6, <1>11, <1>12, <1>13 DEF Holds
<1>15. Holds(i, Reference(i, v1, v2))'
  BY <1>10, <1>14
<1>16. Done(i)'
  BY <1>8, <1>15 DEF Done
<1> QED BY <1>2, <1>16

(* The others that were done stay so. *)
LEMMA CompletedOthers ==
    ASSUME Known, Serial, NEW l, NEW K, NEW flt, Completes(l, K, flt),
           NEW j \in RobIdx, j # l.rob_idx, rob'[j].valid, rob'[j].ready,
           rob[j].valid /\ rob[j].ready => Done(j)
    PROVE  Done(j)'
<1> USE Zenon
<1>0. TypeOK /\ Untrapped(prog) /\ state = "RUNNING"
  BY DEF Known, IInv, Completes, Serial
<1>1. l \in Latches /\ l.valid /\ InPlace(l) /\ K \in SUBSET RobIdx
  BY DEF Completes
<1>2. PICK i \in RobIdx : i = l.rob_idx
  BY <1>1 DEF Latches
<1>3. PICK ir, v : ir = LatchIr(l) /\ v = ir.result
  OBVIOUS
<1>4. /\ RobCompleted(i, ir, flt, K) /\ PrfCompleted(l.phys_rd, v, K)
      /\ csr' = ir.csr /\ csr_committed' = csr_committed
      /\ prog' = prog /\ rob_head' = rob_head /\ rrat' = rrat
  BY <1>2, <1>3 DEF Completes
<1>5. j \in K /\ rob'[j] = rob[j] /\ rob[j].valid /\ rob[j].ready
  BY <1>2, <1>4 DEF RobCompleted
<1>6. ArgsKept(j)
  BY <1>1, <1>2, <1>4, <1>5, CompletionArgs
<1>7. Renames(rob[j].arch_rd) => prf'[rob[j].phys_rd].value = prf[rob[j].phys_rd].value
  <2> SUFFICES ASSUME Renames(rob[j].arch_rd)
               PROVE  prf'[rob[j].phys_rd] = prf[rob[j].phys_rd]
    OBVIOUS
  <2>1. j \in Writers \cap K
    BY <1>5 DEF Writers
  <2> QED BY <1>1, <1>2, <1>4, <2>1, CompletionValues
<1>8. Serializing(Inst(j)) => csr' = csr /\ csr_committed' = csr_committed
  <2> SUFFICES ASSUME Serializing(Inst(j)) PROVE ir.csr = csr
    BY <1>4
  <2>1. rob[i].valid /\ ~rob[i].ready
    BY <1>1, <1>2 DEF InPlace
  <2>2. ~Serializing(Inst(i))
    BY <1>2, <1>5, <2>1, SerialFacts
  <2> QED BY <1>0, <1>1, <1>2, <1>3, <2>2, UnitAgrees
<1>9. Done(j)
  BY <1>5
<1> QED BY <1>0, <1>4, <1>5, <1>6, <1>7, <1>8, <1>9, DoneKept

(* A source that takes the broadcast takes the value it waits for. *)
LEMMA TaggedWoken ==
    ASSUME Known, NEW l \in Latches, l.valid, InPlace(l), NEW K \in SUBSET RobIdx, NEW ir, NEW flt,
           RobCompleted(l.rob_idx, ir, flt, K), NEW v, PrfCompleted(l.phys_rd, v, K), prog' = prog,
           NEW j \in K, ArgsKept(j), rob'[j].pc = rob[j].pc,
           NEW r \in ArchRegs \cup {NoReg}, NEW src \in Sources, Tagged(j, r, src),
           NEW src2, TakesOrStays(src, src2, l.phys_rd, v)
    PROVE  Tagged(j, r, src2)'
<1> USE Zenon
<1>1. CASE src2 = src
  BY <1>1, TaggedKept
<1>2. CASE src2 # src
  <2>1. ~src.ready /\ src.ptag = l.phys_rd /\ src2 = [src EXCEPT !.ready = TRUE, !.val = v]
    BY <1>2 DEF TakesOrStays
  <2>2. PICK p \in PhysRegs : p = src.ptag
    BY DEF Sources
  <2>3. src2.ptag = p /\ src2.val = v
    BY <2>1, <2>2 DEF Sources
  <2>4. r \notin {NoReg, 0} /\ MapsTo(r, Age(j), p)
    BY <2>1, <2>2 DEF Tagged
  <2>5. MapsTo(r, Age(j), p)'
    BY <2>4 DEF ArgsKept
  <2>6. p # 0
    <3>1. IInv
      BY DEF Known
    <3> QED BY <2>4, <3>1, Mapped
  <2>7. PICK i \in RobIdx : i = l.rob_idx
    BY DEF Latches
  <2>8. rob[i].valid /\ p = rob[i].phys_rd
    BY <2>1, <2>2, <2>7 DEF InPlace
  <2>9. i \in Writers
    <3> SUFFICES ASSUME ~Renames(rob[i].arch_rd) PROVE FALSE
      BY <2>8 DEF Writers
    <3>1. p \in {0, NoReg}
      BY <2>8 DEF Known
    <3> QED BY SMT, <2>6, <3>1, OooAssumption DEF PhysRegs, NoReg
  <2>10. prf'[l.phys_rd] = [value |-> v, ready |-> TRUE]
    BY <2>7, <2>9, CompletionValues
  <2>11. prf'[p].ready /\ src2.val = prf'[p].value
    BY SMT, <2>1, <2>2, <2>3, <2>10
  <2> QED BY <2>3, <2>4, <2>5, <2>11 DEF Tagged
<1> QED BY <1>1, <1>2

(* After a completion the stations that are left have the right sources. *)
LEMMA CompletedStations ==
    ASSUME Known, NEW l, NEW K, NEW flt, Completes(l, K, flt), NEW k \in RsIdx, Fed(rs[k])
    PROVE  Fed(rs[k])'
<1> USE Zenon
<1>5. PICK e : e = rs'[k]
  OBVIOUS
<1> SUFFICES ASSUME e.valid PROVE Fed(e)'
  <2>1. Fed(e)'
    BY DEF Fed
  <2> QED BY <1>5, <2>1
<1>0. TypeOK
  BY DEF Known, IInv
<1>1. l \in Latches /\ l.valid /\ InPlace(l) /\ K \in SUBSET RobIdx
  BY DEF Completes
<1>2. PICK i \in RobIdx : i = l.rob_idx
  BY <1>1 DEF Latches
<1>3. PICK ir, v, p : ir = LatchIr(l) /\ v = ir.result /\ p = l.phys_rd
  OBVIOUS
<1>4. /\ RobCompleted(i, ir, flt, K) /\ PrfCompleted(p, v, K) /\ PlacesCompleted(p, v, K)
      /\ prog' = prog /\ rob_head' = rob_head /\ rrat' = rrat
  BY <1>2, <1>3 DEF Completes
<1>6. rs[k].valid /\ rs[k].rob_idx \in K /\ e = RsAfter(p, v)[k]
  BY <1>4, <1>5 DEF PlacesCompleted
<1>7. PICK j \in K : j = rs[k].rob_idx
  BY <1>6
<1>8. /\ e.rob_idx = j /\ e.eu_type = rs[k].eu_type
      /\ TakesOrStays(rs[k].src1, e.src1, p, v) /\ TakesOrStays(rs[k].src2, e.src2, p, v)
  BY SMT, <1>0, <1>6, <1>7, Broadcasted
<1>9. /\ rs[k].eu_type = EuType(Inst(j))
      /\ Tagged(j, Inst(j).rs1, rs[k].src1) /\ Tagged(j, Inst(j).rs2, rs[k].src2)
  BY <1>6, <1>7 DEF Fed
<1>10. Inst(j)' = Inst(j) /\ rob'[j].pc = rob[j].pc
  BY <1>0, <1>1, <1>4, SameInst
<1>11. ArgsKept(j)
  BY <1>1, <1>2, <1>3, <1>4, CompletionArgs
<1>12. j \in RobIdx /\ rs[k].src1 \in Sources /\ rs[k].src2 \in Sources
  <2>1. rs[k] \in RsEntries
    BY <1>0 DEF TypeOK
  <2> QED BY <1>1, <2>1 DEF RsEntries
<1>13. PICK r1 \in ArchRegs \cup {NoReg}, r2 \in ArchRegs \cup {NoReg} :
          r1 = Inst(j).rs1 /\ r2 = Inst(j).rs2
  BY <1>0, <1>12, InstType
<1>14. PICK s1 \in Sources, s2 \in Sources : s1 = rs[k].src1 /\ s2 = rs[k].src2
  BY <1>12
<1>15. PICK t1, t2 : t1 = e.src1 /\ t2 = e.src2
  OBVIOUS
<1>16. /\ Tagged(j, r1, s1) /\ TakesOrStays(s1, t1, p, v)
       /\ Tagged(j, r2, s2) /\ TakesOrStays(s2, t2, p, v)
  BY <1>8, <1>9, <1>13, <1>14, <1>15
<1>17. Tagged(j, r1, t1)'
  BY <1>1, <1>2, <1>3, <1>4, <1>10, <1>11, <1>16, TaggedWoken
<1>18. Tagged(j, r2, t2)'
  BY <1>1, <1>2, <1>3, <1>4, <1>10, <1>11, <1>16, TaggedWoken
<1>19. r1 = Inst(j)'.rs1 /\ r2 = Inst(j)'.rs2 /\ e.eu_type = EuType(Inst(j)')
  BY <1>8, <1>9, <1>10, <1>13
<1> QED BY <1>8, <1>15, <1>17, <1>18, <1>19 DEF Fed

(* After a completion the latches that are left have the right arguments. *)
LEMMA CompletedLatch ==
    ASSUME Known, NEW l, NEW K, NEW flt, Completes(l, K, flt), NEW e \in Latches,
           e.rob_idx \in K, e.valid, HasArgs(e.rob_idx, e.v1, e.v2)
    PROVE  HasArgs(e.rob_idx, e.v1, e.v2)' /\ Inst(e.rob_idx)' = Inst(e.rob_idx)
<1> USE Zenon
<1>0. TypeOK
  BY DEF Known, IInv
<1>1. l \in Latches /\ l.valid /\ InPlace(l) /\ K \in SUBSET RobIdx
  BY DEF Completes
<1>2. PICK i \in RobIdx : i = l.rob_idx
  BY <1>1 DEF Latches
<1>3. PICK ir, v : ir = LatchIr(l) /\ v = ir.result
  OBVIOUS
<1>4. /\ RobCompleted(i, ir, flt, K) /\ PrfCompleted(l.phys_rd, v, K)
      /\ prog' = prog /\ rob_head' = rob_head /\ rrat' = rrat
  BY <1>2, <1>3 DEF Completes
<1>5. PICK j \in K : j = e.rob_idx
  OBVIOUS
<1>6. PICK v1, v2 : v1 = e.v1 /\ v2 = e.v2
  OBVIOUS
<1>7. Inst(j)' = Inst(j) /\ rob'[j].pc = rob[j].pc /\ j \in RobIdx
  BY <1>0, <1>1, <1>4, SameInst
<1>8. ArgsKept(j)
  BY <1>1, <1>2, <1>4, CompletionArgs
<1>9. HasArgs(j, v1, v2)
  BY <1>5, <1>6
<1>10. HasArgs(j, v1, v2)'
  BY <1>0, <1>4, <1>7, <1>8, <1>9, HasArgsKept
<1> QED BY <1>5, <1>6, <1>7, <1>10

(* A completion keeps Values: what it writes is what the reference computes. *)
LEMMA CompletionKeeps ==
    ASSUME Known, Values, Serial, NEW l, NEW K, NEW flt, Completes(l, K, flt)
    PROVE  Values'
<1> USE Zenon
<1>0. TypeOK
  BY DEF Known, IInv
<1>1. l \in Latches /\ l.valid /\ InPlace(l) /\ K \in SUBSET RobIdx
  BY DEF Completes
<1>2. PICK ir, v : ir = LatchIr(l) /\ v = ir.result
  OBVIOUS
<1>3. /\ RobCompleted(l.rob_idx, ir, flt, K) /\ PrfCompleted(l.phys_rd, v, K)
      /\ PlacesCompleted(l.phys_rd, v, K) /\ rrat' = rrat /\ gpr' = gpr
  BY <1>2 DEF Completes
<1>4. CommittedValues'
  <2>1. \A r \in ArchRegs \ {0} : prf'[rrat[r]] = prf[rrat[r]]
    BY <1>1, <1>3, CompletionValues
  <2> QED BY <1>3, <2>1 DEF Values, CommittedValues
<1>5. ASSUME NEW j \in RobIdx, rob'[j].valid, rob'[j].ready PROVE Done(j)'
  <2>1. CASE j = l.rob_idx
    BY <2>1, CompletedDone
  <2>2. CASE j # l.rob_idx
    <3>1. rob[j].valid /\ rob[j].ready => Done(j)
      BY DEF Values
    <3> QED BY <1>5, <2>2, <3>1, CompletedOthers
  <2> QED BY <2>1, <2>2
<1>6. ASSUME NEW k \in RsIdx PROVE Fed(rs[k])'
  <2>1. Fed(rs[k])
    BY DEF Values
  <2> QED BY <2>1, CompletedStations
<1>7. ASSUME NEW s \in IntSlots PROVE Loaded(latch_int[s])'
  <2>1. CASE ~latch_int'[s].valid
    BY <2>1 DEF Loaded
  <2>2. CASE latch_int'[s].valid
    <3>1. PICK e \in Latches : e = latch_int[s]
      BY <1>0 DEF TypeOK
    <3>2. e = latch_int'[s] /\ e.rob_idx \in K /\ e.valid
      BY <1>3, <2>2, <3>1 DEF PlacesCompleted
    <3>3. HasArgs(e.rob_idx, e.v1, e.v2)
      BY <3>1, <3>2 DEF Values, Loaded
    <3>4. HasArgs(e.rob_idx, e.v1, e.v2)'
      BY <3>2, <3>3, CompletedLatch
    <3>5. Loaded(e)'
      BY <3>4 DEF Loaded
    <3> QED BY <3>2, <3>5
  <2> QED BY <2>1, <2>2
<1>8. ASSUME NEW s \in MulSlots
      PROVE  (Loaded(latch_mul[s]) /\ (latch_mul[s].valid => Inst(latch_mul[s].rob_idx).op = "mul"))'
  <2>1. CASE ~latch_mul'[s].valid
    BY <2>1 DEF Loaded
  <2>2. CASE latch_mul'[s].valid
    <3>1. PICK e \in Latches : e = latch_mul[s]
      BY <1>0 DEF TypeOK
    <3>2. e = latch_mul'[s] /\ e.rob_idx \in K /\ e.valid
      BY <1>3, <2>2, <3>1 DEF PlacesCompleted
    <3>3. HasArgs(e.rob_idx, e.v1, e.v2) /\ Inst(e.rob_idx).op = "mul"
      BY <3>1, <3>2 DEF Values, Loaded
    <3>4. HasArgs(e.rob_idx, e.v1, e.v2)' /\ Inst(e.rob_idx)' = Inst(e.rob_idx)
      BY <3>2, <3>3, CompletedLatch
    <3>5. Loaded(e)' /\ (e.valid => Inst(e.rob_idx).op = "mul")'
      BY <3>3, <3>4 DEF Loaded
    <3> QED BY <3>2, <3>5
  <2> QED BY <2>1, <2>2
<1> QED BY <1>4, <1>5, <1>6, <1>7, <1>8 DEF Values

(* Marking an entry executed. *)
Marked(i, rob1, d, flt) ==
    /\ rob1[i] = [rob[i] EXCEPT !.ready = TRUE, !.dnpc = d, !.fault = flt]
    /\ \A j \in RobIdx : j # i => rob1[j] = rob[j]
    /\ \A j \in RobIdx : rob1[j].valid = rob[j].valid

(* What a completion notes in the ROB. *)
LEMMA ExecutedEntry ==
    ASSUME TypeOK, NEW i \in RobIdx, NEW ir, NEW d, NEW flt, d = ir.dnpc, flt = ir.fault,
           NEW rob1, rob1 = Executed(i, ir)
    PROVE  Marked(i, rob1, d, flt)
<1> USE Zenon
<1> DEFINE e == [rob[i] EXCEPT !.ready = TRUE, !.dnpc = d, !.fault = flt]
<1>1. rob \in [RobIdx -> RobEntries] /\ rob[i] \in RobEntries
  BY DEF TypeOK
<1>2. Executed(i, ir) = [rob EXCEPT ![i] = e]
  BY <1>1 DEF Executed, RobEntries
<1>3. e.valid = rob[i].valid
  BY <1>1 DEF RobEntries
<1> HIDE DEF e
<1>4. rob1[i] = e /\ \A j \in RobIdx : j # i => rob1[j] = rob[j]
  BY <1>1, <1>2
<1>5. \A j \in RobIdx : rob1[j].valid = rob[j].valid
  BY <1>3, <1>4
<1> QED BY <1>4, <1>5 DEF e, Marked

(* What a completion writes to the registers. *)
LEMMA WrittenPrf ==
    ASSUME TypeOK, NEW p \in MaybePhys, NEW v, NEW prf1, prf1 = PrfAfter(p, v), NEW q \in PhysRegs
    PROVE  prf1[q] = IF q = p THEN [value |-> v, ready |-> TRUE] ELSE prf[q]
BY OooAssumption DEF PrfAfter, TypeOK, MaybePhys, NoReg, PhysRegs

(* The completions that flush nothing. *)
LEMMA PlainCompletes ==
    ASSUME Known, NEW l \in Latches, l.valid, Loaded(l), InPlace(l), state = "RUNNING",
           NEW flt \in BOOLEAN, NEW ir2, ir2.dnpc = LatchIr(l).dnpc, ir2.fault = flt,
           flt => LatchIr(l).fault \/ LatchIr(l).dnpc = BadPc,
           rob' = Executed(l.rob_idx, ir2), prf' = PrfAfter(l.phys_rd, LatchIr(l).result),
           rs' = RsAfter(l.phys_rd, LatchIr(l).result), csr' = LatchIr(l).csr,
           state' = LatchIr(l).state,
           \A s \in IntSlots : latch_int'[s].valid => latch_int'[s] = latch_int[s],
           \A s \in MulSlots : latch_mul'[s].valid => latch_mul'[s] = latch_mul[s],
           UNCHANGED <<prog, rob_head, rrat, gpr, csr_committed>>
    PROVE  Completes(l, RobIdx, flt)
<1> USE Zenon
<1>0. TypeOK
  BY DEF Known, IInv
<1>1. PICK i \in RobIdx, p \in MaybePhys : i = l.rob_idx /\ p = l.phys_rd
  BY DEF Latches
<1>2. PICK ir, v, d : ir = LatchIr(l) /\ v = ir.result /\ d = ir.dnpc
  OBVIOUS
<1>3. RobCompleted(i, ir, flt, RobIdx)
  <2>1. PICK rob1 : rob1 = Executed(i, ir2) /\ rob1 = rob'
    BY <1>1
  <2>2. d = ir2.dnpc /\ flt = ir2.fault
    BY <1>2
  <2>3. Marked(i, rob1, d, flt)
    BY <1>0, <2>1, <2>2, ExecutedEntry
  <2> QED BY <1>2, <2>1, <2>3 DEF RobCompleted, Marked
<1>4. PrfCompleted(p, v, RobIdx)
  <2>1. PICK prf1 : prf1 = prf'
    OBVIOUS
  <2>2. prf1 = PrfAfter(p, v)
    BY <1>1, <1>2, <2>1
  <2>3. \A q \in PhysRegs : prf1[q] = IF q = p THEN [value |-> v, ready |-> TRUE] ELSE prf[q]
    BY SMT, <1>0, <2>2, WrittenPrf
  <2> QED BY <2>1, <2>3 DEF PrfCompleted
<1>5. PlacesCompleted(p, v, RobIdx)
  <2>1. ASSUME NEW k \in RsIdx, rs'[k].valid
        PROVE  rs[k].valid /\ rs[k].rob_idx \in RobIdx /\ rs'[k] = RsAfter(p, v)[k]
    <3>1. PICK e : e = rs'[k]
      OBVIOUS
    <3>2. e = RsAfter(p, v)[k]
      BY <1>1, <1>2, <3>1
    <3>3. e.valid = rs[k].valid
      BY SMT, <1>0, <3>2, Broadcasted
    <3>4. rs[k].rob_idx \in RobIdx
      BY <1>0 DEF TypeOK, RsEntries
    <3> QED BY <2>1, <3>1, <3>2, <3>3, <3>4
  <2>2. /\ \A s \in IntSlots : latch_int[s].rob_idx \in RobIdx
        /\ \A s \in MulSlots : latch_mul[s].rob_idx \in RobIdx
    BY <1>0 DEF TypeOK, Latches
  <2> QED BY <2>1, <2>2 DEF PlacesCompleted
<1> QED BY <1>1, <1>2, <1>3, <1>4, <1>5 DEF Completes

(* A completion in an INT unit that flushes nothing is one of these. *)
LEMMA IntCompletes ==
    ASSUME Known, Values, NEW s \in IntSlots, IntComplete(s)
    PROVE  Completes(latch_int[s], RobIdx, LatchIr(latch_int[s]).fault \/ Mispredicted(latch_int[s]))
<1> USE Zenon
<1>0. TypeOK
  BY DEF Known, IInv
<1>1. PICK l \in Latches : l = latch_int[s]
  BY <1>0 DEF TypeOK
<1>2. l.valid /\ Loaded(l) /\ InPlace(l) /\ state = "RUNNING" /\ ~Redirects(l)
  BY <1>1 DEF Values, Known, IntComplete
<1>3. LatchIr(l) \in IrType
  BY <1>0, LatchIrType
<1>4. PICK ir2 : ir2 = [LatchIr(l) EXCEPT !.fault = @ \/ Mispredicted(l)]
  OBVIOUS
<1>5. PICK flt \in BOOLEAN : flt = (LatchIr(l).fault \/ Mispredicted(l))
  OBVIOUS
<1>6. ir2.dnpc = LatchIr(l).dnpc /\ ir2.fault = flt
  BY <1>3, <1>4, <1>5 DEF IrType
<1>7. flt => LatchIr(l).fault \/ LatchIr(l).dnpc = BadPc
  BY <1>2, <1>5 DEF Redirects
<1>8. /\ rob' = Executed(l.rob_idx, ir2) /\ prf' = PrfAfter(l.phys_rd, LatchIr(l).result)
      /\ rs' = RsAfter(l.phys_rd, LatchIr(l).result) /\ csr' = LatchIr(l).csr
      /\ state' = LatchIr(l).state
      /\ latch_int' = [latch_int EXCEPT ![s] = NoLatch] /\ latch_mul' = latch_mul
      /\ UNCHANGED <<prog, rob_head, rrat, gpr, csr_committed>>
  BY <1>1, <1>4 DEF IntComplete, archVars, renameVars
<1>9. \A t \in IntSlots : latch_int'[t].valid => latch_int'[t] = latch_int[t]
  BY <1>0, <1>8 DEF TypeOK, NoLatch
<1>10. Completes(l, RobIdx, flt)
  BY <1>2, <1>6, <1>7, <1>8, <1>9, PlainCompletes
<1> QED BY <1>1, <1>5, <1>10

(* So is a completion in the MUL unit. *)
LEMMA MulCompletes ==
    ASSUME Known, Values, Serial, NEW s \in MulSlots, MulComplete(s)
    PROVE  Completes(latch_mul[s], RobIdx, LatchIr(latch_mul[s]).fault)
<1> USE Zenon
<1>0. TypeOK
  BY DEF Known, IInv
<1>1. PICK l \in Latches : l = latch_mul[s]
  BY <1>0 DEF TypeOK
<1>2. l.valid /\ Loaded(l) /\ InPlace(l) /\ state = "RUNNING" /\ Inst(l.rob_idx).op = "mul"
  BY <1>1 DEF Values, Known, MulComplete
<1>3. LatchIr(l).csr = csr /\ LatchIr(l).state = state
  <2>1. ~Serializing(Inst(l.rob_idx)) /\ Inst(l.rob_idx).op # "ebreak"
    BY <1>2 DEF Serializing
  <2> QED BY <1>2, <2>1, UnitAgrees
<1>4. PICK ir : ir = LatchIr(l)
  OBVIOUS
<1>5. PICK flt \in BOOLEAN : flt = LatchIr(l).fault
  BY <1>0, LatchIrType DEF IrType
<1>6. ir.dnpc = LatchIr(l).dnpc /\ ir.fault = flt
  BY <1>4, <1>5
<1>8. /\ rob' = Executed(l.rob_idx, ir) /\ prf' = PrfAfter(l.phys_rd, LatchIr(l).result)
      /\ rs' = RsAfter(l.phys_rd, LatchIr(l).result) /\ csr' = csr
      /\ state' = state /\ latch_mul' = [latch_mul EXCEPT ![s] = NoLatch] /\ latch_int' = latch_int
      /\ UNCHANGED <<prog, rob_head, rrat, gpr, csr_committed>>
  BY <1>1, <1>4 DEF MulComplete, archVars, renameVars
<1>9. \A t \in MulSlots : latch_mul'[t].valid => latch_mul'[t] = latch_mul[t]
  BY <1>0, <1>8 DEF TypeOK, NoLatch
<1>10. Completes(l, RobIdx, flt)
  BY <1>2, <1>3, <1>5, <1>6, <1>8, <1>9, PlainCompletes
<1> QED BY <1>1, <1>5, <1>10

(* A misprediction completes its branch and keeps what is not newer. *)
Upto(b) == {j \in RobIdx : ~rob_newer_than(j, b)}

(* So is a misprediction, which keeps the slots up to the branch. *)
LEMMA MispredictCompletes ==
    ASSUME Known, Values, Serial, NEW s \in IntSlots, IntMispredict(s)
    PROVE  Completes(latch_int[s], Upto(latch_int[s].rob_idx), LatchIr(latch_int[s]).fault)
<1> USE Zenon
<1>0. TypeOK
  BY DEF Known, IInv
<1>1. PICK l \in Latches : l = latch_int[s]
  BY <1>0 DEF TypeOK
<1>2. l.valid /\ Loaded(l) /\ InPlace(l) /\ state = "RUNNING" /\ Redirects(l)
  BY <1>1 DEF Values, Known, IntMispredict
<1>3. PICK b \in RobIdx, p \in MaybePhys : b = l.rob_idx /\ p = l.phys_rd
  BY DEF Latches
<1>4. PICK ir, v, d : ir = LatchIr(l) /\ v = ir.result /\ d = ir.dnpc
  OBVIOUS
<1>5. PICK flt \in BOOLEAN : flt = LatchIr(l).fault
  BY <1>0, LatchIrType DEF IrType
<1>6. LatchIr(l).csr = csr /\ LatchIr(l).state = state
  <2>1. ~Serializing(Inst(l.rob_idx)) /\ Inst(l.rob_idx).op # "ebreak"
    BY <1>2 DEF Redirects, Mispredicted, Serializing, ControlFlow
  <2> QED BY <1>2, <2>1, UnitAgrees
<1>7. PICK rob1, prf1, rs1 : rob1 = Executed(b, ir) /\ prf1 = PrfAfter(p, v) /\ rs1 = RsAfter(p, v)
  OBVIOUS
<1>8. /\ FlushRename(b, prf1) /\ FlushRob(b, rob1)
      /\ rs' = [k \in RsIdx |-> IF rs1[k].valid /\ rob_newer_than(rs1[k].rob_idx, b) THEN NoRs
                                ELSE rs1[k]]
      /\ latch_int' = FlushLatch([latch_int EXCEPT ![s] = NoLatch], b)
      /\ latch_mul' = FlushLatch(latch_mul, b)
      /\ UNCHANGED <<prog, csr, state, rob_head, rrat, gpr, csr_committed>>
  <2>1. /\ FlushRename(b, prf1) /\ FlushRob(b, rob1)
        /\ FlushRs(b, rs1, MaskAfter(p, v))
        /\ latch_int' = FlushLatch([latch_int EXCEPT ![s] = NoLatch], b)
        /\ latch_mul' = FlushLatch(latch_mul, b)
        /\ UNCHANGED <<prog, csr, state, rob_head, rrat, gpr, csr_committed>>
    BY <1>1, <1>3, <1>4, <1>7 DEF IntMispredict, archVars
  <2>2. rs' = [k \in RsIdx |-> IF rs1[k].valid /\ rob_newer_than(rs1[k].rob_idx, b) THEN NoRs
                               ELSE rs1[k]]
    BY <2>1 DEF FlushRs
  <2> QED BY <2>1, <2>2
<1>9. PICK K \in SUBSET RobIdx : K = Upto(b)
  BY DEF Upto
<1>10. \A j \in RobIdx : Age(j) \in Int
  BY SMT, <1>0, AgeBijective DEF TypeOK
<1>11. \A j \in RobIdx : j \in K <=> Age(j) <= Age(b)
  BY SMT, <1>9, <1>10 DEF Upto, rob_newer_than
<1>12. RobCompleted(b, ir, flt, K)
  <2>1. d = ir.dnpc /\ flt = ir.fault
    BY <1>4, <1>5
  <2>2. Marked(b, rob1, d, flt)
    BY <1>0, <1>7, <2>1, ExecutedEntry
  <2>3. \A j \in RobIdx : rob'[j] = IF rob[j].valid /\ j \notin K THEN NoEntry ELSE rob1[j]
    BY <1>8, <1>9 DEF FlushRob, Squashed, Upto
  <2>4. b \in K
    BY SMT, <1>10, <1>11
  <2>5. \A j \in RobIdx : rob'[j].valid => j \in K /\ rob[j].valid
    <3>1. \A j \in RobIdx : rob1[j].valid = rob[j].valid
      BY <2>2 DEF Marked
    <3>2. ~NoEntry.valid
      BY DEF NoEntry
    <3> QED BY <2>3, <3>1, <3>2
  <2>6. \A j \in K, m \in RobIdx : Age(m) < Age(j) => m \in K
    BY SMT, <1>10, <1>11
  <2>7. \A j \in K : j # b => rob'[j] = rob[j]
    BY <2>2, <2>3 DEF Marked
  <2>8. rob'[b] = [rob[b] EXCEPT !.ready = TRUE, !.dnpc = ir.dnpc, !.fault = flt]
    BY <2>1, <2>2, <2>3, <2>4 DEF Marked
  <2> QED BY <2>4, <2>5, <2>6, <2>7, <2>8 DEF RobCompleted
<1>13. PrfCompleted(p, v, K)
  <2>1. \A q \in PhysRegs : prf1[q] = IF q = p THEN [value |-> v, ready |-> TRUE] ELSE prf[q]
    BY SMT, <1>0, <1>7, WrittenPrf
  <2>2. {rob[i].phys_rd : i \in SquashedWriters(b)} \subseteq Freed(K)
    BY <1>9 DEF Freed, SquashedWriters, Squashed, Upto, Writers
  <2>3. \A q \in PhysRegs \ Freed(K) : prf'[q] = prf1[q]
    BY <1>8, <2>2 DEF FlushRename
  <2> QED BY <2>1, <2>3 DEF PrfCompleted
<1>14. PlacesCompleted(p, v, K)
  <2>1. ASSUME NEW k \in RsIdx, rs'[k].valid
        PROVE  rs[k].valid /\ rs[k].rob_idx \in K /\ rs'[k] = RsAfter(p, v)[k]
    <3>1. PICK e : e = RsAfter(p, v)[k]
      OBVIOUS
    <3>2. rs'[k] = IF e.valid /\ rob_newer_than(e.rob_idx, b) THEN NoRs ELSE e
      BY <1>7, <1>8, <3>1
    <3>3. rs'[k] = e /\ e.valid /\ ~rob_newer_than(e.rob_idx, b)
      BY SMT, <2>1, <3>2 DEF NoRs
    <3>4. e.valid = rs[k].valid /\ e.rob_idx = rs[k].rob_idx
      BY SMT, <1>0, <3>1, Broadcasted
    <3>5. rs[k].rob_idx \in RobIdx
      BY <1>0 DEF TypeOK, RsEntries
    <3> QED BY <1>9, <3>1, <3>3, <3>4, <3>5 DEF Upto
  <2>2. /\ \A t \in IntSlots : latch_int[t].rob_idx \in RobIdx
        /\ \A t \in MulSlots : latch_mul[t].rob_idx \in RobIdx
    BY <1>0 DEF TypeOK, Latches
  <2>3. PICK li : li = [latch_int EXCEPT ![s] = NoLatch]
    OBVIOUS
  <2>4. DOMAIN li = IntSlots /\ \A t \in IntSlots : li[t] = IF t = s THEN NoLatch ELSE latch_int[t]
    BY <1>0, <2>3 DEF TypeOK
  <2>5. ASSUME NEW t \in IntSlots, latch_int'[t].valid
        PROVE  latch_int'[t] = latch_int[t] /\ latch_int[t].rob_idx \in K
    <3>1. latch_int'[t] = IF li[t].valid /\ rob_newer_than(li[t].rob_idx, b) THEN NoLatch ELSE li[t]
      BY <1>8, <2>3, <2>4 DEF FlushLatch
    <3>2. latch_int'[t] = latch_int[t] /\ ~rob_newer_than(latch_int[t].rob_idx, b)
      BY SMT, <2>4, <2>5, <3>1 DEF NoLatch
    <3> QED BY <1>9, <2>2, <3>2 DEF Upto
  <2>6. ASSUME NEW t \in MulSlots, latch_mul'[t].valid
        PROVE  latch_mul'[t] = latch_mul[t] /\ latch_mul[t].rob_idx \in K
    <3>1. DOMAIN latch_mul = MulSlots
      BY <1>0 DEF TypeOK
    <3>2. latch_mul'[t] = IF latch_mul[t].valid /\ rob_newer_than(latch_mul[t].rob_idx, b)
                          THEN NoLatch ELSE latch_mul[t]
      BY <1>8, <3>1 DEF FlushLatch
    <3>3. latch_mul'[t] = latch_mul[t] /\ ~rob_newer_than(latch_mul[t].rob_idx, b)
      BY SMT, <2>6, <3>2 DEF NoLatch
    <3> QED BY <1>9, <2>2, <3>3 DEF Upto
  <2> QED BY <2>1, <2>5, <2>6 DEF PlacesCompleted
<1>15. Completes(l, K, flt)
  <2>1. /\ RobCompleted(l.rob_idx, LatchIr(l), flt, K)
        /\ PrfCompleted(l.phys_rd, LatchIr(l).result, K)
        /\ PlacesCompleted(l.phys_rd, LatchIr(l).result, K)
    BY <1>3, <1>4, <1>12, <1>13, <1>14
  <2>2. csr' = LatchIr(l).csr /\ state' = LatchIr(l).state /\ (flt => LatchIr(l).fault \/ LatchIr(l).dnpc = BadPc)
    BY <1>5, <1>6, <1>8
  <2> QED BY <1>2, <1>8, <1>9, <2>1, <2>2 DEF Completes
<1> QED BY <1>1, <1>3, <1>5, <1>9, <1>15

-----------------------------------------------------------------------------
(***************************************************************************)
(* Serialisation and control flow.                                         *)
(***************************************************************************)
LEMMA CompletionSerial ==
    ASSUME Known, Serial, NEW l, NEW K, NEW flt, Completes(l, K, flt)
    PROVE  Serial'
<1> USE Zenon
<1>0. TypeOK /\ state = "RUNNING"
  BY DEF Known, IInv, Completes
<1>1. l \in Latches /\ l.valid /\ InPlace(l) /\ K \in SUBSET RobIdx
  BY DEF Completes
<1>2. PICK i \in RobIdx, ir \in {LatchIr(l)} : i = l.rob_idx /\ ir = LatchIr(l)
  BY <1>1 DEF Latches
<1>3. /\ RobCompleted(i, ir, flt, K) /\ csr' = ir.csr /\ state' = ir.state
      /\ prog' = prog /\ rob_head' = rob_head /\ csr_committed' = csr_committed
  BY <1>2 DEF Completes
<1>4. \A j \in RobIdx : rob'[j].valid => j \in K /\ rob[j].valid
  BY <1>3 DEF RobCompleted
<1>5. /\ \A j \in K : j # i => rob'[j] = rob[j]
      /\ i \in K /\ rob'[i] = [rob[i] EXCEPT !.ready = TRUE, !.dnpc = ir.dnpc, !.fault = flt]
  BY <1>3 DEF RobCompleted
<1>6. rob'[i].ready /\ rob'[i].valid /\ rob'[i].pc = rob[i].pc /\ rob'[i].arch_rd = rob[i].arch_rd
  <2>1. rob[i] \in RobEntries /\ rob[i].valid
    BY <1>0, <1>1, <1>2 DEF TypeOK, InPlace
  <2> QED BY SMT, <1>5, <2>1 DEF RobEntries
<1>7. \A j \in K : Inst(j)' = Inst(j) /\ rob'[j].arch_rd = rob[j].arch_rd
  BY <1>3, <1>5, <1>6 DEF Inst
<1>8. /\ ~Serializing(Inst(i)) => ir.csr = csr
      /\ ir.state = IF Inst(i).op = "ebreak" THEN "END" ELSE "RUNNING"
  BY <1>0, <1>1, <1>2, UnitAgrees
<1>9. (\A j \in RobIdx : rob[j].valid => rob[j].arch_rd = Inst(j).rd)'
  BY <1>4, <1>7 DEF Serial
<1>10. (\A j \in RobIdx : rob[j].valid /\ Serializing(Inst(j)) => j = rob_head)'
  BY <1>3, <1>4, <1>7 DEF Serial
<1>11. (csr = csr_committed \/ \E j \in RobIdx : rob[j].valid /\ rob[j].ready /\ Serializing(Inst(j)))'
  <2>1. CASE Serializing(Inst(i))
    BY <1>5, <1>6, <1>7, <2>1
  <2>2. CASE ~Serializing(Inst(i)) /\ csr = csr_committed
    BY <1>3, <1>8, <2>2
  <2>3. CASE ~Serializing(Inst(i)) /\ csr # csr_committed
    <3>1. PICK j \in RobIdx : rob[j].valid /\ rob[j].ready /\ Serializing(Inst(j))
      BY <2>3 DEF Serial
    <3>2. j = rob_head /\ j # i
      BY <2>3, <3>1 DEF Serial
    <3>3. j \in K
      <4>1. rob_head \in RobIdx
        BY <1>0 DEF TypeOK
      <4>2. Age(j) < Age(i)
        BY SMT, <3>2, <4>1, OooAssumption DEF Age, RobIdx
      <4> QED BY <1>3, <1>5, <4>2 DEF RobCompleted
    <3>4. rob'[j] = rob[j] /\ Inst(j)' = Inst(j)
      BY <1>5, <1>7, <3>2, <3>3
    <3> QED BY <3>1, <3>4
  <2> QED BY <2>1, <2>2, <2>3
<1>12. (\A j \in RobIdx : rob[j].valid /\ rob[j].ready /\ Inst(j).op = "ebreak" => state = "END")'
  <2> SUFFICES ASSUME NEW j \in RobIdx, rob'[j].valid, rob'[j].ready, Inst(j)'.op = "ebreak"
               PROVE  state' = "END"
    OBVIOUS
  <2>1. CASE j = i
    BY <1>3, <1>5, <1>7, <1>8, <2>1
  <2>2. CASE j # i
    <3>1. rob'[j] = rob[j] /\ Inst(j)' = Inst(j)
      BY <1>4, <1>5, <1>7, <2>2
    <3>2. state = "END"
      BY <3>1 DEF Serial
    <3> QED BY <1>0, <3>2
  <2> QED BY <2>1, <2>2
<1>13. Untrapped(prog)'
  BY <1>3 DEF Serial, Untrapped
<1> QED BY <1>9, <1>10, <1>11, <1>12, <1>13 DEF Serial

(* A unit does not panic. *)
LEMMA CompletionState ==
    ASSUME Known, Serial, NEW l, NEW K, NEW flt, Completes(l, K, flt)
    PROVE  state' # "PANIC"
<1> USE Zenon
<1>1. l \in Latches /\ l.valid /\ InPlace(l) /\ state = "RUNNING" /\ state' = LatchIr(l).state
  BY DEF Completes
<1>2. LatchIr(l).state = IF Inst(l.rob_idx).op = "ebreak" THEN "END" ELSE "RUNNING"
  BY <1>1, UnitAgrees
<1> QED BY <1>1, <1>2

(* A completion that does not flush: the next address is the predicted one, or
   that of a fault. *)
LEMMA CompletionNext ==
    ASSUME Known, Serial, NEW l, NEW K, NEW flt, Completes(l, K, flt),
           ~Mispredicted(l) \/ flt, NEW j \in K
    PROVE  SameNext(j)
<1> USE Zenon
<1>0. TypeOK /\ state = "RUNNING"
  BY DEF Known, IInv, Completes
<1>1. l \in Latches /\ l.valid /\ InPlace(l) /\ K \in SUBSET RobIdx
  BY DEF Completes
<1>2. PICK i \in RobIdx, ir \in {LatchIr(l)} : i = l.rob_idx /\ ir = LatchIr(l)
  BY <1>1 DEF Latches
<1>3. RobCompleted(i, ir, flt, K) /\ prog' = prog
  BY <1>2 DEF Completes
<1>4. CASE j # i
  BY <1>3, <1>4 DEF RobCompleted, SameNext, NextPc, Inst
<1>5. CASE j = i
  <2>1. rob[i] \in RobEntries /\ rob[i].valid /\ ~rob[i].ready
    BY <1>0, <1>1, <1>2 DEF TypeOK, InPlace
  <2>2. rob'[i] = [rob[i] EXCEPT !.ready = TRUE, !.dnpc = ir.dnpc, !.fault = flt]
    BY <1>3 DEF RobCompleted
  <2>3. /\ rob'[i].valid = rob[i].valid /\ rob'[i].pc = rob[i].pc /\ rob'[i].bp = rob[i].bp
        /\ rob'[i].dnpc = ir.dnpc /\ rob'[i].fault = flt
    BY <2>1, <2>2 DEF RobEntries
  <2>4. Inst(i)' = Inst(i)
    BY <1>3, <2>3 DEF Inst
  <2>5. NextPc(i) = rob[i].bp
    BY <2>1 DEF NextPc
  <2>6. ControlFlow(Inst(i)) /\ ~flt => ir.dnpc = rob[i].bp
    BY <1>2 DEF Mispredicted
  <2>7. NextPc(i)' = rob[i].bp
    BY <2>3, <2>4, <2>6 DEF NextPc
  <2> QED BY <1>5, <2>3, <2>5, <2>7 DEF SameNext
<1> QED BY <1>4, <1>5

(* An INT completion without a misprediction leads where it was predicted. *)
LEMMA IntCompleteChain ==
    ASSUME Known, Values, Serial, Chain, NEW s \in IntSlots, IntComplete(s)
    PROVE  Chain'
<1> USE Zenon
<1>1. PICK l, flt : l = latch_int[s] /\ flt = (LatchIr(l).fault \/ Mispredicted(l))
  OBVIOUS
<1>2. Completes(l, RobIdx, flt)
  BY <1>1, IntCompletes
<1>3. ~Mispredicted(l) \/ flt
  BY <1>1
<1>4. \A j \in RobIdx : SameNext(j)
  BY <1>2, <1>3, CompletionNext
<1>5. /\ pc' = pc /\ rob_head' = rob_head /\ prog' = prog /\ rob_count' = rob_count
      /\ UNCHANGED <<latch_if_id, latch_id_rn, fetch_pc>>
  BY DEF IntComplete, archVars, frontVars
<1>6. TypeOK
  BY DEF Known, IInv
<1> QED BY <1>4, <1>5, <1>6, FrontKept

(* A multiplication leads to the next instruction. *)
LEMMA MulCompleteChain ==
    ASSUME Known, Values, Serial, Chain, NEW s \in MulSlots, MulComplete(s)
    PROVE  Chain'
<1> USE Zenon
<1>1. PICK l, flt : l = latch_mul[s] /\ flt = LatchIr(l).fault
  OBVIOUS
<1>2. Completes(l, RobIdx, flt)
  BY <1>1, MulCompletes
<1>3. ~Mispredicted(l)
  <2>1. l.valid
    BY <1>1 DEF MulComplete
  <2>2. Inst(l.rob_idx).op = "mul"
    BY <1>1, <2>1 DEF Values
  <2>3. ~ControlFlow(Inst(l.rob_idx))
    BY <2>2 DEF ControlFlow
  <2> QED BY <2>3 DEF Mispredicted
<1>4. \A j \in RobIdx : SameNext(j)
  BY <1>2, <1>3, CompletionNext
<1>5. /\ pc' = pc /\ rob_head' = rob_head /\ prog' = prog /\ rob_count' = rob_count
      /\ UNCHANGED <<latch_if_id, latch_id_rn, fetch_pc>>
  BY DEF MulComplete, archVars, frontVars
<1>6. TypeOK
  BY DEF Known, IInv
<1> QED BY <1>4, <1>5, <1>6, FrontKept

(* A misprediction: what is left of the ROB ends with the branch, and fetch
   goes on at its target. *)
LEMMA MispredictChain ==
    ASSUME Known, Values, Serial, Chain, NEW s \in IntSlots, IntMispredict(s),
           TypeOK', RobContiguous'
    PROVE  Chain'
<1> USE Zenon
<1>0. TypeOK /\ Ordered
  BY DEF Known, IInv, Chain
<1>1. PICK l \in Latches : l = latch_int[s]
  BY <1>0 DEF TypeOK
<1>2. PICK b \in RobIdx, ir \in {LatchIr(l)} : b = l.rob_idx /\ ir = LatchIr(l)
  BY DEF Latches
<1>3. Completes(l, Upto(b), ir.fault)
  BY <1>1, <1>2, MispredictCompletes
<1>4. /\ l.valid /\ InPlace(l) /\ state = "RUNNING" /\ Redirects(l)
      /\ latch_if_id' = <<>> /\ latch_id_rn' = <<>> /\ fetch_pc' = ir.dnpc
      /\ prog' = prog /\ rob_head' = rob_head /\ pc' = pc
  BY <1>1, <1>2, <1>3 DEF IntMispredict, Completes, archVars
<1>5. ControlFlow(Inst(b)) /\ ~ir.fault
  <2>1. ControlFlow(Inst(b))
    BY <1>2, <1>4 DEF Redirects, Mispredicted
  <2>2. ir.fault => Inst(b).op = "inv"
    BY <1>2, <1>4, UnitAgrees
  <2> QED BY <2>1, <2>2 DEF ControlFlow
<1>6. PICK K \in SUBSET RobIdx : K = Upto(b)
  BY DEF Upto
<1>7. /\ \A j \in RobIdx : rob'[j].valid => j \in K /\ rob[j].valid
      /\ \A j \in K : j # b => rob'[j] = rob[j]
      /\ b \in K /\ rob'[b] = [rob[b] EXCEPT !.ready = TRUE, !.dnpc = ir.dnpc, !.fault = ir.fault]
  BY <1>2, <1>3, <1>6 DEF Completes, RobCompleted
<1>8. /\ rob'[b].valid /\ rob'[b].ready /\ rob'[b].pc = rob[b].pc /\ rob'[b].bp = rob[b].bp
      /\ rob'[b].dnpc = ir.dnpc /\ ~rob'[b].fault
  <2>1. rob[b] \in RobEntries /\ rob[b].valid
    BY <1>0, <1>2, <1>4 DEF TypeOK, InPlace
  <2>2. ir.fault = FALSE
    <3>1. ir.fault \in BOOLEAN
      BY <1>0, <1>2, LatchIrType DEF IrType
    <3> QED BY <1>5, <3>1
  <2> QED BY SMT, <1>7, <2>1, <2>2 DEF RobEntries
<1>9. \A j \in RobIdx : Age(j)' = Age(j) /\ Age(j) \in 0 .. ROB_SIZE - 1
  BY SMT, <1>0, <1>4, OooAssumption DEF Age, TypeOK, RobIdx
<1>10. \A j \in RobIdx : j \in K <=> Age(j) <= Age(b)
  BY SMT, <1>6, <1>9, OooAssumption DEF Upto, rob_newer_than
<1>11. rob_count' = Age(b) + 1
  <2>1. PICK n \in 0 .. ROB_SIZE, a \in 0 .. ROB_SIZE - 1 : n = rob_count' /\ a = Age(b)
    BY <1>9 DEF TypeOK
  <2>2. \A j \in RobIdx : rob'[j].valid <=> Age(j)' < n
    BY <2>1 DEF RobContiguous
  <2>3. a < n
    BY <1>8, <1>9, <2>1, <2>2
  <2>4. ASSUME a + 1 < n PROVE FALSE
    <3>1. a + 1 \in 0 .. ROB_SIZE - 1 /\ rob_head \in RobIdx
      BY SMT, <1>0, <2>1, <2>4, OooAssumption DEF TypeOK
    <3>2. PICK j \in RobIdx : Age(j) = a + 1
      BY <3>1, AgeBijective
    <3>3. rob'[j].valid
      BY <1>9, <2>2, <2>4, <3>2
    <3>4. Age(j) <= a
      BY <1>7, <1>10, <2>1, <3>3
    <3> QED BY SMT, <2>1, <3>2, <3>4
  <2> QED BY SMT, <2>1, <2>3, <2>4, OooAssumption
<1>12. Inst(b)' = Inst(b)
  BY <1>4, <1>8 DEF Inst
<1>13. PICK d \in Pcs : d = ir.dnpc
  BY <1>0, <1>2, LatchIrType DEF IrType
<1>14. NextPc(b)' = d
  BY <1>5, <1>8, <1>12, <1>13 DEF NextPc
<1>15. Expect(rob_count, d)'
  <2>1. Age(b)' = rob_count' - 1
    BY SMT, <1>9, <1>11
  <2> QED BY <1>8, <1>14, <2>1 DEF Expect
<1>16. Fetching'
  BY <1>4, <1>13, <1>15 DEF Fetching, Follows
<1>17. Predicted(latch_id_rn)' /\ Predicted(latch_if_id)'
  <2>1. Len(<<>>) = 0 /\ 1 .. 0 = {}
    BY SMT
  <2> QED BY <1>4, <2>1 DEF Predicted
<1>18. ASSUME NEW i \in RobIdx, rob'[i].valid
       PROVE  Expect(Age(i), rob[i].pc)' /\ (rob[i].bp \in Predict(rob[i].pc))'
  <2>1. rob[i].valid /\ i \in K
    BY <1>7, <1>18
  <2>2. rob'[i].pc = rob[i].pc /\ rob'[i].bp = rob[i].bp
    BY <1>7, <1>8, <2>1
  <2>3. ASSUME NEW j \in RobIdx, rob[j].valid, Age(j) = Age(i) - 1 PROVE SameNext(j)
    <3>1. Age(j) < Age(b)
      BY SMT, <1>9, <1>10, <2>1, <2>3
    <3>2. j \in K /\ j # b
      BY SMT, <1>9, <1>10, <3>1
    <3>3. rob'[j] = rob[j]
      BY <1>7, <3>2
    <3> QED BY <1>4, <3>3 DEF SameNext, NextPc, Inst
  <2> QED BY <1>0, <1>4, <2>1, <2>2, <2>3, OrderKept
<1> QED BY <1>16, <1>17, <1>18 DEF Chain, Ordered

-----------------------------------------------------------------------------
(***************************************************************************)
(* The steps other than a completion.                                      *)
(***************************************************************************)
(* A serialising instruction is renamed into an empty ROB. *)
LEMMA RenameSerial == ASSUME SetLaws, Known, Serial, ooo_stage_rn PROVE Serial'
<1> USE Zenon
<1>0. IInv /\ TypeOK
  BY DEF Known, IInv
<1>1. PICK f \in Fetched, q \in MaybePhys, t \in RobIdx, k \in RsIdx : Enters(f, q, t, k)
  BY <1>0, Dispatches
<1>2. /\ rob'[t].valid /\ ~rob'[t].ready /\ rob'[t].pc = f.pc /\ rob'[t].arch_rd = prog[f.pc].rd
      /\ \A j \in RobIdx : j # t => rob'[j] = rob[j]
  BY SMT, <1>0, <1>1, DispatchFacts
<1>3. /\ prog' = prog /\ csr' = csr /\ rob_head' = rob_head /\ csr_committed' = csr_committed
      /\ state' = state /\ Age(t) = rob_count /\ ~rob[t].valid
      /\ Serializing(prog[f.pc]) => rob_count = 0
  BY <1>1 DEF Enters
<1>4. Inst(t)' = prog[f.pc] /\ \A j \in RobIdx : j # t => Inst(j)' = Inst(j)
  BY <1>2, <1>3 DEF Inst
<1>5. (\A j \in RobIdx : rob[j].valid => rob[j].arch_rd = Inst(j).rd)'
  BY <1>2, <1>4 DEF Serial
<1>6. Serializing(prog[f.pc]) => t = rob_head
  <2>1. Age(t) = 0 => t = rob_head
    BY SMT, <1>0, OooAssumption DEF Age, TypeOK, RobIdx
  <2> QED BY <1>3, <2>1
<1>7. (\A j \in RobIdx : rob[j].valid /\ Serializing(Inst(j)) => j = rob_head)'
  BY <1>2, <1>3, <1>4, <1>6 DEF Serial
<1>8. (csr = csr_committed \/ \E j \in RobIdx : rob[j].valid /\ rob[j].ready /\ Serializing(Inst(j)))'
  BY <1>2, <1>3, <1>4 DEF Serial
<1>9. (\A j \in RobIdx : rob[j].valid /\ rob[j].ready /\ Inst(j).op = "ebreak" => state = "END")'
  BY <1>2, <1>3, <1>4 DEF Serial
<1>10. Untrapped(prog)'
  BY <1>3 DEF Serial, Untrapped
<1> QED BY <1>5, <1>7, <1>8, <1>9, <1>10 DEF Serial

(* The commit of a serialising instruction commits its CSRs. *)
LEMMA CommitSerial == ASSUME Known, Serial, ooo_stage_commit PROVE Serial'
<1> USE Zenon
<1>0. TypeOK
  BY DEF Known, IInv
<1>1. PICK h \in RobIdx : h = rob_head
  BY <1>0 DEF TypeOK
<1>2. /\ rob' = [rob EXCEPT ![h] = NoEntry]
      /\ prog' = prog /\ csr' = csr /\ csr_committed' = csr /\ state' = state
  BY <1>1 DEF ooo_stage_commit
<1>3. ~rob'[h].valid /\ \A j \in RobIdx : j # h => rob'[j] = rob[j]
  BY <1>0, <1>2 DEF NoEntry, TypeOK
<1>4. \A j \in RobIdx : rob'[j].valid => j # h /\ rob'[j] = rob[j] /\ Inst(j)' = Inst(j)
  BY <1>2, <1>3 DEF Inst
<1>5. (\A j \in RobIdx : rob[j].valid => rob[j].arch_rd = Inst(j).rd)'
  BY <1>4 DEF Serial
<1>6. (\A j \in RobIdx : rob[j].valid /\ Serializing(Inst(j)) => j = rob_head)'
  BY <1>1, <1>4 DEF Serial
<1>7. (csr = csr_committed)'
  BY <1>2
<1>8. (\A j \in RobIdx : rob[j].valid /\ rob[j].ready /\ Inst(j).op = "ebreak" => state = "END")'
  BY <1>2, <1>4 DEF Serial
<1>9. Untrapped(prog)'
  BY <1>2 DEF Serial, Untrapped
<1> QED BY <1>5, <1>6, <1>7, <1>8, <1>9 DEF Serial

(* Steps that leave the ROB and the CSRs alone keep Serial. *)
LEMMA StillSerial ==
    ASSUME Serial, Still, state = "RUNNING" \/ state' = state
    PROVE  Serial'
<1> USE Zenon
<1>1. \A j \in RobIdx : Inst(j)' = Inst(j) /\ rob'[j] = rob[j]
  BY DEF Still, Inst
<1>2. /\ prog' = prog /\ csr' = csr /\ csr_committed' = csr_committed /\ rob_head' = rob_head
  BY DEF Still
<1>3. ASSUME NEW j \in RobIdx, rob[j].valid, rob[j].ready, Inst(j).op = "ebreak" PROVE state' = "END"
  <2>1. state = "END"
    BY <1>3 DEF Serial
  <2> QED BY <2>1
<1>4. Untrapped(prog)'
  BY <1>2 DEF Serial, Untrapped
<1> QED BY <1>1, <1>2, <1>3, <1>4 DEF Serial

(* Sequences of fetched instructions. *)
LEMMA HeadTail ==
    ASSUME NEW f \in Seq(Fetched), f # <<>>
    PROVE  /\ Len(f) \in Nat \ {0} /\ Head(f) = f[1] /\ Head(f) \in Fetched
           /\ Tail(f) \in Seq(Fetched) /\ Len(Tail(f)) = Len(f) - 1
           /\ \A j \in 1 .. Len(f) - 1 : Tail(f)[j] = f[j + 1]
           /\ Len(f) = 1 <=> Tail(f) = <<>>
<1>1. Len(f) \in Nat \ {0} /\ Head(f) = f[1]
  OBVIOUS
<1>2. Head(f) \in Fetched
  OBVIOUS
<1>3. Tail(f) \in Seq(Fetched) /\ Len(Tail(f)) = Len(f) - 1
  OBVIOUS
<1>4. \A j \in 1 .. Len(f) - 1 : Tail(f)[j] = f[j + 1]
  OBVIOUS
<1>5. Len(f) = 1 <=> Tail(f) = <<>>
  <2>1. \A g \in Seq(Fetched) : Len(g) = 0 <=> g = <<>>
    OBVIOUS
  <2>2. Len(f) = 1 <=> Len(Tail(f)) = 0
    BY <1>1, <1>3
  <2> QED BY Zenon, <1>3, <2>1, <2>2
<1> QED BY Zenon, <1>1, <1>2, <1>3, <1>4, <1>5

(* Taking the first fetched instruction leaves a path from its successor. *)
LEMMA FollowsTail ==
    ASSUME NEW f \in Seq(Fetched), f # <<>>, NEW p, NEW m, Follows(p, f, m)
    PROVE  Head(f).pc = p /\ Follows(Head(f).bp, Tail(f), m)
<1> USE Zenon
<1>1. PICK g, n : g = Tail(f) /\ n = Len(f)
  OBVIOUS
<1>2. /\ n \in Nat \ {0} /\ Head(f) = f[1] /\ Len(g) = n - 1
      /\ \A j \in 1 .. n - 1 : g[j] = f[j + 1]
      /\ n = 1 <=> g = <<>>
  BY <1>1, HeadTail
<1>3. /\ f[1].pc = p /\ f[n].bp = m
      /\ \A j \in 1 .. n - 1 : f[j + 1].pc = f[j].bp
  BY <1>1 DEF Follows
<1>4. CASE n = 1
  BY <1>1, <1>2, <1>3, <1>4 DEF Follows
<1>5. CASE n # 1
  <2>1. g[1].pc = f[1].bp /\ g[Len(g)].bp = m
    BY SMT, <1>2, <1>3, <1>5
  <2>2. \A j \in 1 .. Len(g) - 1 : g[j + 1].pc = g[j].bp
    BY SMT, <1>2, <1>3
  <2> QED BY <1>1, <1>2, <1>3, <1>5, <2>1, <2>2 DEF Follows
<1> QED BY <1>4, <1>5

(* The fetched instructions behind the first are predicted too. *)
LEMMA PredictedTail ==
    ASSUME NEW f \in Seq(Fetched), f # <<>>, Predicted(f)
    PROVE  Head(f).bp \in Predict(Head(f).pc) /\ Predicted(Tail(f))
<1> USE Zenon
<1>1. PICK g, n : g = Tail(f) /\ n = Len(f)
  OBVIOUS
<1>2. /\ n \in Nat \ {0} /\ Head(f) = f[1] /\ Len(g) = n - 1
      /\ \A j \in 1 .. n - 1 : g[j] = f[j + 1]
  BY <1>1, HeadTail
<1>3. \A j \in 1 .. n : f[j].bp \in Predict(f[j].pc)
  BY <1>1 DEF Predicted
<1>4. 1 \in 1 .. n /\ \A j \in 1 .. n - 1 : j + 1 \in 1 .. n
  BY SMT, <1>2
<1>5. \A j \in 1 .. Len(g) : g[j].bp \in Predict(g[j].pc)
  BY <1>2, <1>3, <1>4
<1> QED BY <1>1, <1>2, <1>3, <1>4, <1>5 DEF Predicted

(* Steps that leave the ROB alone keep where its instructions lead. *)
LEMMA StillNext == ASSUME Still, NEW i \in RobIdx PROVE SameNext(i)
BY Zenon DEF Still, SameNext, NextPc, Inst

(* The engine moves on without a change to the control flow of the ROB. *)
LEMMA StillChain ==
    ASSUME TypeOK, Chain, Still, UNCHANGED <<rob_count, pc, latch_if_id, latch_id_rn, fetch_pc>>
    PROVE  Chain'
<1> USE Zenon
<1>1. \A i \in RobIdx : SameNext(i)
  BY StillNext
<1>2. pc' = pc /\ rob_head' = rob_head /\ prog' = prog /\ rob_count' = rob_count
  BY DEF Still
<1> QED BY <1>1, <1>2, FrontKept

(* The front end. *)
LEMMA DecodeChain == ASSUME TypeOK, Chain, ooo_stage_id PROVE Chain'
<1> USE Zenon
<1>1. /\ Still /\ pc' = pc /\ rob_count' = rob_count /\ fetch_pc' = fetch_pc
      /\ latch_id_rn = <<>> /\ latch_id_rn' = latch_if_id /\ latch_if_id' = <<>>
  BY DEF ooo_stage_id, Still, archVars, renameVars, robVars
<1>2. pc' = pc /\ rob_head' = rob_head /\ prog' = prog /\ Ordered /\ fetch_pc \in Pcs
  BY <1>1 DEF Still, Chain, TypeOK
<1>3. \A i \in RobIdx : SameNext(i)
  BY <1>1, StillNext
<1>4. Ordered' /\ \A p : Expect(rob_count, p) => Expect(rob_count, p)'
  BY <1>1, <1>2, <1>3, AllKept
<1>5. PICK p \in Pcs, m \in Pcs : /\ Expect(rob_count, p)
                      /\ Follows(p, latch_id_rn, m) /\ Follows(m, latch_if_id, fetch_pc)
  BY DEF Chain, Fetching
<1>6. p = m
  BY <1>1, <1>5 DEF Follows
<1>7. Follows(p, latch_id_rn', fetch_pc') /\ Follows(fetch_pc', latch_if_id', fetch_pc')
  BY <1>1, <1>5, <1>6 DEF Follows
<1>8. Fetching'
  BY <1>1, <1>2, <1>4, <1>5, <1>7 DEF Fetching, Follows
<1>9. Predicted(latch_id_rn)'
  BY <1>1, <1>2 DEF Predicted, Predict, Chain
<1>10. Predicted(latch_if_id)'
  <2>1. Len(<<>>) = 0 /\ 1 .. 0 = {}
    BY SMT
  <2> QED BY <1>1, <2>1 DEF Predicted
<1> QED BY <1>4, <1>8, <1>9, <1>10 DEF Chain

(* Fetch goes on from fetch_pc along a prediction. *)
LEMMA FetchChain == ASSUME TypeOK, Chain, ooo_stage_if PROVE Chain'
<1> USE Zenon
<1>1. /\ Still /\ pc' = pc /\ rob_count' = rob_count /\ latch_id_rn' = latch_id_rn
      /\ latch_if_id = <<>>
  BY DEF ooo_stage_if, Still, archVars, renameVars, robVars
<1>2. pc' = pc /\ rob_head' = rob_head /\ prog' = prog /\ Ordered
  BY <1>1 DEF Still, Chain, TypeOK
<1>3. \A i \in RobIdx : SameNext(i)
  BY <1>1, StillNext
<1>4. Ordered' /\ \A p : Expect(rob_count, p) => Expect(rob_count, p)'
  BY <1>1, <1>2, <1>3, AllKept
<1>5. PICK p \in Pcs, m \in Pcs : /\ Expect(rob_count, p)
                      /\ Follows(p, latch_id_rn, m) /\ Follows(m, latch_if_id, fetch_pc)
  BY DEF Chain, Fetching
<1>6. m = fetch_pc /\ Follows(p, latch_id_rn', m)
  BY <1>1, <1>5 DEF Follows
<1>7. PICK g, c : g = latch_if_id' /\ c = fetch_pc'
  OBVIOUS
<1>8. PICK k \in 1 .. FETCH_WIDTH : \E bp \in Predict(m + k - 1) :
        /\ m \in ValidPc /\ m + k - 1 \in ValidPc
        /\ g = [j \in 1 .. k |-> [pc |-> m + j - 1, bp |-> IF j = k THEN bp ELSE m + j]]
        /\ c = bp
  BY <1>6, <1>7 DEF ooo_stage_if
<1>9. PICK bp \in Predict(m + k - 1) :
        /\ m \in ValidPc /\ m + k - 1 \in ValidPc
        /\ g = [j \in 1 .. k |-> [pc |-> m + j - 1, bp |-> IF j = k THEN bp ELSE m + j]]
        /\ c = bp
  BY <1>8
<1>10. k \in Nat /\ k > 0 /\ m \in Nat
  BY SMT, <1>9, OooAssumption, IsaAssumption DEF ValidPc
<1>11. Len(g) = k /\ g # <<>>
  <2>1. PICK S : S = {g[j] : j \in 1 .. k}
    OBVIOUS
  <2>2. g \in [1 .. k -> S]
    BY <1>9, <2>1
  <2>3. g \in Seq(S) /\ Len(g) = k
    BY <1>10, <2>2, FunctionIsSequence
  <2> QED BY SMT, <1>10, <2>3
<1>12. \A j \in 1 .. k : g[j].pc = m + j - 1 /\ g[j].bp = IF j = k THEN c ELSE m + j
  BY <1>9
<1>13. Follows(m, g, c)
  <2>1. g[1].pc = m /\ g[k].bp = c
    BY SMT, <1>10, <1>12
  <2>2. \A j \in 1 .. k - 1 : g[j + 1].pc = g[j].bp
    BY SMT, <1>10, <1>12
  <2> QED BY <1>11, <2>1, <2>2 DEF Follows
<1>14. Fetching'
  BY <1>4, <1>5, <1>6, <1>7, <1>13 DEF Fetching
<1>15. \A j \in 1 .. k : g[j].bp \in Predict(g[j].pc)
  <2> SUFFICES ASSUME NEW j \in 1 .. k PROVE g[j].bp \in Predict(g[j].pc)
    OBVIOUS
  <2>1. CASE j = k
    BY <1>9, <1>12, <2>1
  <2>2. CASE j # k
    <3>1. g[j].bp = Snpc(g[j].pc)
      BY SMT, <1>9, <1>10, <1>12, <2>2, IsaAssumption DEF Snpc, BadPc, ValidPc
    <3> QED BY <3>1 DEF Predict
  <2> QED BY <2>1, <2>2
<1>16. Predicted(latch_if_id)'
  BY <1>2, <1>7, <1>11, <1>15 DEF Predicted, Predict
<1>17. Predicted(latch_id_rn)'
  BY <1>1, <1>2 DEF Predicted, Predict, Chain
<1> QED BY <1>4, <1>14, <1>16, <1>17 DEF Chain

(* Rename takes the first fetched instruction, which the youngest leads to. *)
LEMMA RenameChain == ASSUME SetLaws, Known, Chain, ooo_stage_rn PROVE Chain'
<1> USE Zenon
<1>0. IInv /\ TypeOK /\ Ordered
  BY DEF Known, IInv, Chain
<1>1. PICK f \in Fetched, q \in MaybePhys, t \in RobIdx, k \in RsIdx : Enters(f, q, t, k)
  BY <1>0, Dispatches
<1>2. /\ rob'[t].valid /\ ~rob'[t].ready /\ rob'[t].pc = f.pc /\ rob'[t].bp = f.bp
      /\ \A j \in RobIdx : j # t => rob'[j] = rob[j]
  BY SMT, <1>0, <1>1, DispatchFacts
<1>3. /\ prog' = prog /\ rob_head' = rob_head /\ pc' = pc /\ rob_count' = rob_count + 1
      /\ Age(t) = rob_count /\ ~rob[t].valid /\ latch_if_id' = latch_if_id /\ fetch_pc' = fetch_pc
      /\ f = Head(latch_id_rn) /\ latch_id_rn # <<>> /\ latch_id_rn' = Tail(latch_id_rn)
  BY <1>1 DEF Enters
<1>4. PICK p \in Pcs, m \in Pcs : /\ Expect(rob_count, p)
                      /\ Follows(p, latch_id_rn, m) /\ Follows(m, latch_if_id, fetch_pc)
  BY DEF Chain, Fetching
<1>5. latch_id_rn \in Seq(Fetched) /\ rob_count \in Nat
  BY SMT, <1>0, OooAssumption DEF TypeOK
<1>6. f.pc = p /\ Follows(f.bp, latch_id_rn', m) /\ f.bp \in Pcs
  <2>1. f.pc = p /\ Follows(f.bp, latch_id_rn', m)
    BY <1>3, <1>4, <1>5, FollowsTail
  <2> QED BY <2>1 DEF Fetched
<1>7. f.bp \in Predict(f.pc) /\ Predicted(Tail(latch_id_rn))
  BY <1>3, <1>5, PredictedTail DEF Chain
<1>8. \A j \in RobIdx : rob[j].valid => SameNext(j)
  BY <1>2, <1>3 DEF SameNext, NextPc, Inst
<1>9. \A j \in RobIdx : Age(j)' = Age(j)
  BY <1>3 DEF Age
<1>10. PICK n \in Nat : n = rob_count
  BY <1>5
<1>11. Expect(n, p)'
  <2>1. Expect(n, p)
    BY <1>4, <1>10
  <2> QED BY <1>3, <1>8, <1>9, <2>1, ExpectKept DEF SameNext
<1>12. Expect(n + 1, f.bp)'
  <2>1. rob'[t].valid /\ Age(t)' = (n + 1) - 1
    BY SMT, <1>2, <1>3, <1>9, <1>10
  <2>2. f.bp = NextPc(t)'
    BY <1>2 DEF NextPc
  <2> QED BY <2>1, <2>2 DEF Expect
<1>13. Fetching'
  <2>1. rob_count' = n + 1
    BY <1>3, <1>10
  <2> QED BY <1>3, <1>4, <1>6, <1>12, <2>1 DEF Fetching
<1>14. ASSUME NEW j \in RobIdx, rob'[j].valid
       PROVE  Expect(Age(j), rob[j].pc)' /\ (rob[j].bp \in Predict(rob[j].pc))'
  <2>1. CASE j = t
    <3>1. Age(j)' = n /\ rob'[j].pc = p
      BY <1>2, <1>3, <1>6, <1>9, <1>10, <2>1
    <3>2. Expect(Age(j), rob[j].pc)'
      BY <1>11, <3>1
    <3>3. (rob[j].bp \in Predict(rob[j].pc))'
      BY <1>2, <1>3, <1>7, <2>1 DEF Predict
    <3> QED BY <3>2, <3>3
  <2>2. CASE j # t
    <3>1. rob[j].valid /\ rob'[j].pc = rob[j].pc /\ rob'[j].bp = rob[j].bp
      BY <1>2, <1>14, <2>2
    <3> QED BY <1>0, <1>3, <1>8, <3>1, OrderKept
  <2> QED BY <2>1, <2>2
<1>15. Predicted(latch_id_rn)' /\ Predicted(latch_if_id)'
  BY <1>3, <1>7 DEF Predicted, Predict, Chain
<1> QED BY <1>13, <1>14, <1>15 DEF Chain, Ordered

(* The instruction after the head, once the head has executed. *)
LEMMA HeadNext ==
    ASSUME TypeOK, Values, Serial, Ordered, NEW h \in RobIdx, rob[h].valid, rob[h].ready, ~rob[h].fault
    PROVE  NextPc(h) = rob[h].dnpc
<1> USE Zenon
<1>1. CASE ControlFlow(Inst(h))
  BY <1>1 DEF NextPc
<1>2. CASE ~ControlFlow(Inst(h))
  <2>1. Done(h)
    BY DEF Values
  <2>2. PICK v1 \in Words, v2 \in Words : Holds(h, Reference(h, v1, v2))
    BY <2>1 DEF Done
  <2>3. Inst(h) \in Insts /\ Inst(h).op \notin {"ecall", "mret"} /\ rob[h].pc \in ValidPc
    BY InstType DEF Serial, Untrapped, Inst
  <2>4. Reference(h, v1, v2).dnpc = Snpc(rob[h].pc)
    <3>1. PICK inst \in Insts, p \in ValidPc : inst = Inst(h) /\ p = rob[h].pc
      BY <2>3
    <3>2. inst.op \notin {"ecall", "mret"} /\ ~ControlFlow(inst)
      BY <1>2, <2>3, <3>1
    <3>3. Execute(inst, p, v1, v2, csr_committed, "RUNNING").dnpc = Snpc(p)
      BY SMT, <3>2, ExecuteFacts
    <3> QED BY <3>1, <3>3 DEF Reference
  <2>5. rob[h].dnpc = Snpc(rob[h].pc)
    BY <2>2, <2>4 DEF Holds
  <2>6. PICK p : p = rob[h].pc /\ rob[h].bp \in Predict(p) /\ prog[p] = Inst(h)
    BY DEF Ordered, Inst
  <2>7. Predict(p) = {Snpc(p)}
    BY <1>2, <2>6 DEF Predict, ControlFlow
  <2> QED BY <1>2, <2>5, <2>6, <2>7 DEF NextPc
<1> QED BY <1>1, <1>2

(* Commit moves cpu.pc to where the oldest instruction leads. *)
LEMMA CommitChain == ASSUME Known, Values, Serial, Chain, ooo_stage_commit PROVE Chain'
<1> USE Zenon
<1>0. TypeOK /\ Ordered
  BY DEF Known, IInv, Chain
<1>1. PICK h \in RobIdx : h = rob_head
  BY <1>0 DEF TypeOK
<1>2. /\ rob' = [rob EXCEPT ![h] = NoEntry] /\ rob_head' = Inc(h) /\ rob_count' = rob_count - 1
      /\ rob[h].valid /\ rob[h].ready /\ ~rob[h].fault /\ pc' = rob[h].dnpc /\ prog' = prog
      /\ UNCHANGED <<latch_if_id, latch_id_rn, fetch_pc>> /\ rob_count > 0
  BY <1>1 DEF ooo_stage_commit, HeadReady, frontVars
<1>3. ~rob'[h].valid /\ \A j \in RobIdx : j # h => rob'[j] = rob[j]
  BY <1>0, <1>2 DEF NoEntry, TypeOK
<1>4. Age(h) = 0 /\ \A j \in RobIdx : j # h => Age(j) \in Nat \ {0} /\ Age(j)' = Age(j) - 1
  BY SMT, <1>1, <1>2, OooAssumption DEF Age, RobIdx, Inc
<1>5. NextPc(h) = pc'
  BY <1>0, <1>2, HeadNext
<1>6. \A j \in RobIdx : j # h => NextPc(j)' = NextPc(j)
  <2>1. \A j \in RobIdx : j # h => Inst(j)' = Inst(j)
    BY <1>2, <1>3 DEF Inst
  <2> QED BY <1>3, <2>1 DEF NextPc
<1>7. ASSUME NEW a \in Nat \ {0}, NEW p, Expect(a, p) PROVE Expect(a - 1, p)'
  <2>1. PICK i \in RobIdx : rob[i].valid /\ Age(i) = a - 1 /\ p = NextPc(i)
    <3>1. ~(a = 0)
      OBVIOUS
    <3> QED BY <1>7, <3>1 DEF Expect
  <2>2. CASE i = h
    <3>1. a - 1 = 0 /\ p = pc'
      BY <1>4, <1>5, <2>1, <2>2
    <3> QED BY <3>1 DEF Expect
  <2>3. CASE i # h
    <3>1. rob'[i].valid /\ Age(i)' = (a - 1) - 1 /\ p = NextPc(i)'
      BY <1>3, <1>4, <1>6, <2>1, <2>3
    <3> QED BY <3>1 DEF Expect
  <2> QED BY <2>2, <2>3
<1>8. PICK n \in Nat \ {0} : n = rob_count /\ rob_count' = n - 1
  BY SMT, <1>0, <1>2 DEF TypeOK
<1>9. Fetching'
  BY <1>2, <1>7, <1>8 DEF Chain, Fetching
<1>10. ASSUME NEW i \in RobIdx, rob'[i].valid
       PROVE  Expect(Age(i), rob[i].pc)' /\ (rob[i].bp \in Predict(rob[i].pc))'
  <2>1. i # h /\ rob'[i] = rob[i] /\ rob[i].valid
    BY <1>3, <1>10
  <2>2. PICK a \in Nat \ {0} : a = Age(i) /\ Age(i)' = a - 1
    BY <1>4, <2>1
  <2>3. PICK p : p = rob[i].pc /\ p = rob'[i].pc
    BY <2>1
  <2>4. Expect(a - 1, p)'
    BY <1>0, <1>7, <2>1, <2>2, <2>3 DEF Ordered
  <2>5. Expect(Age(i), rob[i].pc)'
    BY <2>2, <2>3, <2>4
  <2>6. (rob[i].bp \in Predict(rob[i].pc))'
    BY <1>0, <1>2, <2>1 DEF Ordered, Predict
  <2> QED BY <2>5, <2>6
<1>11. Predicted(latch_id_rn)' /\ Predicted(latch_if_id)'
  BY <1>2 DEF Chain, Predicted, Predict
<1> QED BY <1>9, <1>10, <1>11 DEF Chain, Ordered

(***************************************************************************)
(* The head of the ROB and the functional simulator.                       *)
(*                                                                         *)
(* What the functional simulator executes next from the committed state.   *)
(***************************************************************************)
NextIr == Execute(prog[pc], pc, Operand(gpr, prog[pc].rs1, prog[pc].imm),
                  Operand(gpr, prog[pc].rs2, prog[pc].imm), csr_committed, "RUNNING")

(* The oldest instruction is the one at cpu.pc. *)
LEMMA HeadPc ==
    ASSUME TypeOK, Ordered, NEW h \in RobIdx, h = rob_head, rob[h].valid
    PROVE  /\ rob[h].pc = pc /\ pc \in ValidPc /\ Inst(h) = prog[pc] /\ Age(h) = 0
           /\ \A i \in RobIdx : ~(Age(i) < 0)
<1> USE Zenon
<1>1. Age(h) = 0 /\ \A i \in RobIdx : Age(i) \in 0 .. ROB_SIZE - 1
  BY SMT, OooAssumption DEF Age, RobIdx
<1>2. PICK p : p = rob[h].pc /\ Expect(0, p)
  BY <1>1 DEF Ordered
<1>3. \A i \in RobIdx : Age(i) # 0 - 1 /\ ~(Age(i) < 0)
  BY SMT, <1>1, OooAssumption
<1>4. p = pc
  BY <1>2, <1>3 DEF Expect
<1>5. rob[h].pc \in ValidPc
  BY InstType
<1> QED BY <1>1, <1>2, <1>3, <1>4, <1>5 DEF Inst

(* The head reads the committed registers. *)
LEMMA HeadArg ==
    ASSUME TypeOK, CommittedValues, NEW h \in RobIdx, Age(h) = 0, \A i \in RobIdx : ~(Age(i) < 0),
           NEW r \in ArchRegs \cup {NoReg}, NEW v, Arg(h, r, v)
    PROVE  v = Operand(gpr, r, Inst(h).imm)
<1> USE Zenon
<1>1. CASE r = NoReg
  BY <1>1 DEF Arg, Operand
<1>2. CASE r = 0
  <2>1. r # NoReg
    BY SMT, <1>2 DEF NoReg
  <2> QED BY <1>2, <2>1 DEF Arg, Operand, CommittedValues
<1>3. CASE r # NoReg /\ r # 0
  <2>1. PICK p \in PhysRegs : MapsTo(r, Age(h), p) /\ v = prf[p].value
    BY <1>3 DEF Arg
  <2>2. p = rrat[r]
    BY <2>1 DEF MapsTo
  <2>3. r \in ArchRegs \ {0}
    BY <1>3
  <2> QED BY <1>3, <2>1, <2>2, <2>3 DEF Operand, CommittedValues
<1> QED BY <1>1, <1>2, <1>3

(* Once executed it holds what the reference computes from the committed state. *)
LEMMA HeadHolds ==
    ASSUME TypeOK, Values, Ordered, NEW h \in RobIdx, h = rob_head, rob[h].valid, rob[h].ready
    PROVE  Holds(h, NextIr)
<1> USE Zenon
<1>1. /\ rob[h].pc = pc /\ pc \in ValidPc /\ Inst(h) = prog[pc] /\ Age(h) = 0
      /\ \A i \in RobIdx : ~(Age(i) < 0)
  BY HeadPc
<1>2. Done(h) /\ CommittedValues
  BY DEF Values
<1>3. PICK v1 \in Words, v2 \in Words : HasArgs(h, v1, v2) /\ Holds(h, Reference(h, v1, v2))
  BY <1>2 DEF Done
<1>4. Inst(h).rs1 \in ArchRegs \cup {NoReg} /\ Inst(h).rs2 \in ArchRegs \cup {NoReg}
  BY InstType
<1>5. v1 = Operand(gpr, Inst(h).rs1, Inst(h).imm)
  BY <1>1, <1>2, <1>3, <1>4, HeadArg DEF HasArgs
<1>6. v2 = Operand(gpr, Inst(h).rs2, Inst(h).imm)
  BY <1>1, <1>2, <1>3, <1>4, HeadArg DEF HasArgs
<1>7. Reference(h, v1, v2) = NextIr
  BY <1>1, <1>5, <1>6 DEF Reference, NextIr
<1> QED BY <1>3, <1>7

(* A step of the functional simulator, by what its executor returns. *)
LEMMA StepIs ==
    StepOf(prog, Committed) = [gpr |-> Writeback(gpr, prog[pc].rd, NextIr.result), pc |-> NextIr.dnpc,
                               csr |-> NextIr.csr, state |-> NextIr.state]
BY Zenon DEF StepOf, Committed, NextIr

(* A panic is that of the instruction at cpu.pc. *)
LEMMA PanicStep ==
    ASSUME TypeOK, Values, Ordered, CommitPanic PROVE PanicIsGenuine'
<1> USE Zenon
<1>1. PICK h \in RobIdx : h = rob_head
  BY DEF TypeOK
<1>2. /\ rob[h].valid /\ rob[h].ready /\ rob[h].fault
      /\ prog' = prog /\ gpr' = gpr /\ pc' = pc /\ csr_committed' = csr_committed
  BY <1>1 DEF CommitPanic, HeadReady, archVars
<1>3. Holds(h, NextIr) /\ Inst(h) = prog[pc]
  BY <1>1, <1>2, HeadHolds, HeadPc
<1>4. prog[pc].op = "inv" \/ NextIr.dnpc = BadPc
  BY <1>2, <1>3 DEF Holds
<1>5. NextIr.dnpc = StepOf(prog, Committed).pc
  BY SMT, StepIs
<1>6. StepOf(prog, Committed)' = StepOf(prog, Committed)
  BY <1>2 DEF StepOf, Committed
<1> QED BY <1>2, <1>4, <1>5, <1>6 DEF PanicIsGenuine

-----------------------------------------------------------------------------
(***************************************************************************)
(* The steps of the engine as steps of the functional simulator.           *)
(***************************************************************************)
LEMMA RefExecute ==
    ASSUME NEW inst, NEW p, NEW v1, NEW v2, NEW c, NEW st
    PROVE  Ref!Execute(inst, p, v1, v2, c, st) = Execute(inst, p, v1, v2, c, st)
BY Zenon DEF Ref!Execute, Execute, Ref!Snpc, Snpc, Ref!ToPc, ToPc, Ref!BadPc, BadPc, Ref!ValidPc,
   ValidPc, Ref!read_csr, read_csr, Ref!set_csr, set_csr, Ref!CsrNos, CsrNos, Ref!MSCRATCH,
   MSCRATCH, Ref!MTVEC, MTVEC, Ref!MEPC, MEPC, Ref!BADBEEF, BADBEEF

(* The reference instance has the executors of Isa. *)
LEMMA RefStep ==
    ASSUME NEW m
    PROVE  Ref!StepOf(prog, m) = StepOf(prog, m)
BY Zenon, RefExecute DEF Ref!StepOf, StepOf, Ref!Operand, Operand, Ref!Writeback, Writeback,
   Ref!NoReg, NoReg, Ref!ArchRegs, ArchRegs

(* What one step of the functional simulator is, under the refinement mapping. *)
LEMMA RefOnce ==
    ASSUME state = "RUNNING", pc \in ValidPc, prog' = prog,
           gpr' = Writeback(gpr, prog[pc].rd, NextIr.result), csr_committed' = NextIr.csr,
           (IF state = "END" THEN Snpc(pc) ELSE pc)' = NextIr.dnpc,
           (IF state = "END" THEN "END" ELSE "RUNNING")' = NextIr.state
    PROVE  Ref!exec_once
<1> USE Zenon
<1>1. PICK m : m = Committed
  OBVIOUS
<1>2. Ref!Machine = m
  BY <1>1 DEF Ref!Machine, Committed, Ref!Snpc, Snpc
<1>3. m.pc = pc /\ m.state = "RUNNING"
  BY <1>1 DEF Committed
<1>4. Ref!CanStep(m)
  BY <1>3 DEF Ref!CanStep, Ref!ValidPc, ValidPc
<1>5. PICK n : n = StepOf(prog, m)
  OBVIOUS
<1>6. n = Ref!StepOf(prog, m)
  BY <1>5, RefStep
<1>7. /\ n.gpr = Writeback(gpr, prog[pc].rd, NextIr.result) /\ n.pc = NextIr.dnpc
      /\ n.csr = NextIr.csr /\ n.state = NextIr.state
  BY SMT, <1>1, <1>5, StepIs
<1> QED BY <1>2, <1>4, <1>6, <1>7 DEF Ref!exec_once, Snpc, BadPc

(* Register rd gets v and x0 stays zero. *)
Wrote(new, regs, rd, v) == new = IF Renames(rd) THEN [regs EXCEPT ![rd] = v] ELSE regs

(* What commit leaves in the registers is what ir_writeback leaves there. *)
LEMMA WritebackFacts ==
    ASSUME NEW regs \in [ArchRegs -> Words], regs[0] = 0, NEW rd \in ArchRegs \cup {NoReg}, NEW v,
           NEW new, Wrote(new, regs, rd, v)
    PROVE  new = Writeback(regs, rd, v)
<1> USE Zenon
<1>1. 0 \in ArchRegs /\ NoReg \notin ArchRegs
  BY SMT, IsaAssumption DEF ArchRegs, NoReg
<1>2. new = [r \in ArchRegs |-> new[r]]
  <2>1. CASE Renames(rd)
    <3>1. new = [regs EXCEPT ![rd] = v]
      BY <2>1 DEF Wrote
    <3>2. PICK S : S = Words \cup {v}
      OBVIOUS
    <3>3. regs \in [ArchRegs -> S] /\ v \in S
      BY <3>2
    <3>4. rd \in ArchRegs
      BY <2>1 DEF Renames
    <3>5. new \in [ArchRegs -> S]
      BY <3>1, <3>3, <3>4
    <3> QED BY <3>5
  <2>2. CASE ~Renames(rd)
    <3>1. new = regs
      BY <2>2 DEF Wrote
    <3> QED BY <3>1
  <2> QED BY <2>1, <2>2
<1>3. \A r \in ArchRegs : new[r] = IF r = 0 THEN 0 ELSE IF r = rd THEN v ELSE regs[r]
  BY <1>1 DEF Renames, Wrote
<1> QED BY <1>2, <1>3 DEF Writeback

(* A commit is a step of the functional simulator. *)
LEMMA CommitRefines ==
    ASSUME TypeOK, Values, Serial, Ordered, ooo_stage_commit PROVE Ref!exec_once
<1> USE Zenon
<1>1. PICK h \in RobIdx : h = rob_head
  BY DEF TypeOK
<1>2. /\ rob[h].valid /\ rob[h].ready /\ CommitDest(rob[h]) /\ pc' = rob[h].dnpc
      /\ prog' = prog /\ csr_committed' = csr /\ state = "RUNNING" /\ state' = state
  BY <1>1 DEF ooo_stage_commit, HeadReady
<1>3. Holds(h, NextIr)
  BY <1>1, <1>2, HeadHolds
<1>4. Inst(h) = prog[pc] /\ pc \in ValidPc
  BY <1>1, <1>2, HeadPc
<1>5. PICK inst \in Insts : inst = Inst(h) /\ inst = prog[pc]
  BY <1>4, InstType
<1>6. inst.op \notin {"ecall", "mret"} /\ rob[h].arch_rd = inst.rd
  BY <1>2, <1>4, <1>5 DEF Serial, Untrapped
<1>7. inst.op # "ebreak"
  <2>1. inst.op = "ebreak" => state = "END"
    BY <1>2, <1>5 DEF Serial
  <2> QED BY <1>2, <2>1
<1>8. NextIr.state = "RUNNING" /\ (~Serializing(inst) => NextIr.csr = csr_committed)
  <2>1. PICK v1, v2 : NextIr = Execute(inst, pc, v1, v2, csr_committed, "RUNNING")
    BY <1>5 DEF NextIr
  <2>2. /\ ~Serializing(inst) => Execute(inst, pc, v1, v2, csr_committed, "RUNNING").csr = csr_committed
        /\ Execute(inst, pc, v1, v2, csr_committed, "RUNNING").state = "RUNNING"
    BY SMT, <1>6, <1>7, ExecuteFacts
  <2> QED BY <2>1, <2>2
<1>9. csr = NextIr.csr
  <2>1. CASE Serializing(inst)
    BY <1>3, <1>5, <2>1 DEF Holds
  <2>2. CASE ~Serializing(inst)
    <3>1. csr = csr_committed
      BY <1>1, <1>5, <2>2 DEF Serial
    <3> QED BY <1>8, <2>2, <3>1
  <2> QED BY <2>1, <2>2
<1>10. NextIr.dnpc = pc'
  BY <1>2, <1>3 DEF Holds
<1>11. gpr' = Writeback(gpr, prog[pc].rd, NextIr.result)
  <2>1. gpr[0] = 0 /\ gpr \in [ArchRegs -> Words] /\ inst.rd \in ArchRegs \cup {NoReg}
    BY <1>5, InstType DEF Values, CommittedValues, TypeOK
  <2>2. Wrote(gpr', gpr, inst.rd, NextIr.result)
    BY <1>2, <1>3, <1>6 DEF CommitDest, Holds, Wrote
  <2>3. gpr' = Writeback(gpr, inst.rd, NextIr.result)
    BY <2>1, <2>2, WritebackFacts
  <2> QED BY <1>5, <2>3
<1>12. /\ (IF state = "END" THEN Snpc(pc) ELSE pc)' = NextIr.dnpc
       /\ (IF state = "END" THEN "END" ELSE "RUNNING")' = NextIr.state
  BY <1>2, <1>8, <1>10
<1> QED BY <1>2, <1>4, <1>9, <1>11, <1>12, RefOnce

(* What the executor of ebreak returns. *)
LEMMA EbreakFacts ==
    ASSUME NEW inst \in Insts, inst.op = "ebreak", NEW p, NEW v1, NEW v2, NEW c, NEW st,
           NEW x, x = Execute(inst, p, v1, v2, c, st)
    PROVE  x.dnpc = Snpc(p) /\ x.csr = c /\ x.state = "END"
BY Zenon DEF Execute, Insts

(* An ebreak that executes is the last step of the functional simulator. *)
LEMMA EbreakRefines ==
    ASSUME TypeOK, Values, Serial, Ordered, state = "RUNNING", NEW h \in RobIdx, h = rob_head,
           rob[h].valid, Inst(h).op = "ebreak", state' = "END", UNCHANGED <<prog, gpr, pc, csr_committed>>
    PROVE  Ref!exec_once
<1> USE Zenon
<1>1. Inst(h) = prog[pc] /\ pc \in ValidPc
  BY HeadPc
<1>2. PICK inst \in Insts : inst = prog[pc] /\ inst.op = "ebreak"
  BY <1>1, InstType
<1>3. ~Renames(inst.rd)
  BY <1>1, <1>2 DEF Serial, Untrapped
<1>4. PICK v1, v2 : NextIr = Execute(inst, pc, v1, v2, csr_committed, "RUNNING")
  BY <1>2 DEF NextIr
<1>6. gpr' = Writeback(gpr, prog[pc].rd, NextIr.result)
  <2>1. gpr[0] = 0 /\ gpr \in [ArchRegs -> Words] /\ inst.rd \in ArchRegs \cup {NoReg}
    BY <1>1, <1>2, InstType DEF Values, CommittedValues, TypeOK
  <2>2. Wrote(gpr', gpr, inst.rd, NextIr.result)
    BY <1>3 DEF Wrote
  <2>3. gpr' = Writeback(gpr, inst.rd, NextIr.result)
    BY <2>1, <2>2, WritebackFacts
  <2> QED BY <1>2, <2>3
<1>7. /\ NextIr.dnpc = Snpc(pc) /\ NextIr.csr = csr_committed /\ NextIr.state = "END"
  BY SMT, <1>2, <1>4, EbreakFacts
<1>8. /\ (IF state = "END" THEN Snpc(pc) ELSE pc)' = NextIr.dnpc
      /\ (IF state = "END" THEN "END" ELSE "RUNNING")' = NextIr.state
  BY <1>7 DEF Snpc, BadPc
<1> QED BY <1>1, <1>6, <1>7, <1>8, RefOnce

(* Only an INT unit ends the run or writes the CSRs, and only for the head. *)
LEMMA EffectStep ==
    ASSUME Known, Values, Serial, Ordered, NEW s \in IntSlots, IntComplete(s),
           csr' # csr \/ state' # state
    PROVE  /\ latch_int[s].valid /\ ~latch_int'[s].valid /\ latch_int[s].rob_idx = rob_head
           /\ rob[rob_head].pc = pc
           /\ state' # state => state' = "END" /\ Inst(rob_head).op = "ebreak" /\ rob[rob_head].valid
<1> USE Zenon
<1>0. TypeOK
  BY DEF Known, IInv
<1>1. PICK l \in Latches : l = latch_int[s]
  BY <1>0 DEF TypeOK
<1>2. /\ l.valid /\ InPlace(l) /\ state = "RUNNING" /\ csr' = LatchIr(l).csr
      /\ state' = LatchIr(l).state /\ latch_int' = [latch_int EXCEPT ![s] = NoLatch]
  BY <1>1 DEF IntComplete, Known
<1>3. PICK i \in RobIdx : i = l.rob_idx /\ rob[i].valid
  BY <1>2 DEF Latches, InPlace
<1>4. /\ ~Serializing(Inst(i)) => LatchIr(l).csr = csr
      /\ LatchIr(l).state = IF Inst(i).op = "ebreak" THEN "END" ELSE "RUNNING"
  BY <1>2, <1>3, UnitAgrees
<1>5. Serializing(Inst(i))
  BY <1>2, <1>4 DEF Serializing
<1>6. i = rob_head
  BY <1>3, <1>5 DEF Serial
<1>7. rob[i].pc = pc
  BY <1>0, <1>3, <1>6, HeadPc
<1>8. ~latch_int'[s].valid
  BY <1>0, <1>2 DEF TypeOK, NoLatch
<1>9. state' # state => state' = "END" /\ Inst(i).op = "ebreak"
  BY <1>2, <1>4
<1> QED BY <1>1, <1>2, <1>3, <1>6, <1>7, <1>8, <1>9

RefStutters == UNCHANGED <<prog, gpr, pc, csr_committed>> /\ (state' = "END" <=> state = "END")

(* Steps that commit nothing change nothing the reference has. *)
LEMMA StuttersRef == ASSUME RefStutters PROVE UNCHANGED Ref!isaVars
BY Zenon DEF RefStutters, Ref!isaVars, Snpc, BadPc

(* The reference starts where the engine does. *)
LEMMA RefInit == ASSUME Init PROVE Ref!IsaInit
<1> USE Zenon
<1>1. state = "RUNNING" /\ csr_committed = csr /\ IsaInit
  BY DEF Init, IsaInit
<1>2. state # "END"
  BY <1>1
<1> QED BY <1>1, <1>2 DEF Ref!IsaInit, IsaInit, Ref!ArchRegs, ArchRegs, Ref!CsrNos, CsrNos,
           Ref!MSCRATCH, MSCRATCH, Ref!MTVEC, MTVEC, Ref!MEPC, MEPC

(* Every step of the engine is a step of the reference, or none. *)
LEMMA RefNext ==
    ASSUME Known, DInv, [Next]_vars
    PROVE  [Ref!exec_once]_(Ref!isaVars)
<1> USE Zenon
<1>0. TypeOK /\ Values /\ Serial /\ Ordered
  BY DEF Known, IInv, DInv, Chain
<1>1. CASE ooo_stage_commit
  BY <1>0, <1>1, CommitRefines
<1>2. CASE CommitPanic
  <2>1. RefStutters
    BY <1>2 DEF CommitPanic, archVars, RefStutters
  <2> QED BY <2>1, StuttersRef
<1>3. ASSUME NEW s \in IntSlots, IntComplete(s) PROVE [Ref!exec_once]_(Ref!isaVars)
  <2>1. UNCHANGED <<prog, gpr, pc, csr_committed>> /\ state = "RUNNING"
    BY <1>3 DEF IntComplete, archVars
  <2>2. CASE state' = state
    <3>1. RefStutters
      BY <2>1, <2>2 DEF RefStutters
    <3> QED BY <3>1, StuttersRef
  <2>3. CASE state' # state
    <3>1. PICK h \in RobIdx : h = rob_head
      BY <1>0 DEF TypeOK
    <3>2. state' = "END" /\ Inst(h).op = "ebreak" /\ rob[h].valid
      BY <1>0, <1>3, <2>3, <3>1, EffectStep
    <3> QED BY <1>0, <2>1, <3>1, <3>2, EbreakRefines
  <2> QED BY <2>2, <2>3
<1>4. ASSUME NEW s \in IntSlots, IntMispredict(s) PROVE [Ref!exec_once]_(Ref!isaVars)
  <2>1. RefStutters
    BY <1>4 DEF IntMispredict, archVars, RefStutters
  <2> QED BY <2>1, StuttersRef
<1>5. ASSUME NEW s \in IntSlots, IssueInt(s) PROVE [Ref!exec_once]_(Ref!isaVars)
  <2>1. RefStutters
    BY <1>5 DEF IssueInt, archVars, RefStutters
  <2> QED BY <2>1, StuttersRef
<1>6. ASSUME NEW s \in MulSlots, MulComplete(s) \/ IssueMul(s) PROVE [Ref!exec_once]_(Ref!isaVars)
  <2>1. RefStutters
    BY <1>6 DEF MulComplete, IssueMul, archVars, RefStutters
  <2> QED BY <2>1, StuttersRef
<1>7. CASE ooo_stage_rn \/ ooo_stage_id \/ ooo_stage_if
  <2>1. RefStutters
    BY <1>7 DEF ooo_stage_rn, ooo_stage_id, ooo_stage_if, archVars, RefStutters
  <2> QED BY <2>1, StuttersRef
<1>8. CASE UNCHANGED vars
  <2>1. RefStutters
    BY <1>8 DEF vars, archVars, RefStutters
  <2> QED BY <2>1, StuttersRef
<1> QED BY <1>1, <1>2, <1>3, <1>4, <1>5, <1>6, <1>7, <1>8 DEF Next

(* The action of EffectsNotSpeculative. *)
Effect == csr' # csr \/ (state' # state /\ state' = "END")

ByHead == \E s \in IntSlots : /\ latch_int[s].valid /\ ~latch_int'[s].valid
                              /\ latch_int[s].rob_idx = rob_head
                              /\ rob[rob_head].pc = pc

(* A CSR, ebreak or stop takes effect for the oldest instruction only. *)
LEMMA EffectsStep == ASSUME Known, DInv, [Next]_vars, Effect PROVE ByHead
<1> USE Zenon
<1>0. TypeOK /\ Values /\ Serial /\ Ordered
  BY DEF Known, IInv, DInv, Chain
<1>1. ASSUME csr' = csr, state' = state \/ state' = "PANIC" PROVE FALSE
  <2>1. state' = "END" /\ state' # state
    BY <1>1 DEF Effect
  <2> QED BY <1>1, <2>1
<1>2. ASSUME ~\E s \in IntSlots : IntComplete(s) PROVE csr' = csr /\ (state' = state \/ state' = "PANIC")
  <2>1. CASE ooo_stage_commit \/ CommitPanic
    BY <2>1 DEF ooo_stage_commit, CommitPanic
  <2>2. CASE \E s \in IntSlots : IntMispredict(s) \/ IssueInt(s)
    BY <2>2 DEF IntMispredict, IssueInt
  <2>3. CASE \E s \in MulSlots : MulComplete(s) \/ IssueMul(s)
    BY <2>3 DEF MulComplete, IssueMul
  <2>4. CASE ooo_stage_rn \/ ooo_stage_id \/ ooo_stage_if
    BY <2>4 DEF ooo_stage_rn, ooo_stage_id, ooo_stage_if
  <2>5. CASE UNCHANGED vars
    BY <2>5 DEF vars
  <2> QED BY <1>2, <2>1, <2>2, <2>3, <2>4, <2>5 DEF Next
<1>3. PICK s \in IntSlots : IntComplete(s)
  BY <1>1, <1>2
<1>4. csr' # csr \/ state' # state
  BY DEF Effect
<1> QED BY <1>0, <1>3, <1>4, EffectStep DEF ByHead

(* The engine starts with the committed values and nothing in flight. *)
LEMMA DataInit ==
    ASSUME Init, \A q \in Programs : Untrapped(q)
    PROVE  DInv
<1> USE Zenon
<1>1. /\ \A i \in RobIdx : ~rob[i].valid
      /\ \A k \in RsIdx : ~rs[k].valid
      /\ \A s \in IntSlots : ~latch_int[s].valid
      /\ \A s \in MulSlots : ~latch_mul[s].valid
  BY DEF Init, NoEntry, NoRs, NoLatch
<1>2. /\ latch_if_id = <<>> /\ latch_id_rn = <<>> /\ fetch_pc = pc /\ rob_count = 0
      /\ csr = csr_committed /\ prog \in Programs /\ pc = 0 /\ state = "RUNNING"
  BY DEF Init, IsaInit
<1>3. CommittedValues
  <2>1. /\ gpr = [r \in ArchRegs |-> 0] /\ rrat = [r \in ArchRegs |-> r]
        /\ prf = [p \in PhysRegs |-> [value |-> IF p \in ArchRegs THEN gpr[p] ELSE 0, ready |-> TRUE]]
    BY DEF Init, IsaInit
  <2>2. 0 \in ArchRegs /\ \A r \in ArchRegs : r \in PhysRegs
    BY SMT, IsaAssumption, OooAssumption DEF ArchRegs, PhysRegs
  <2>3. \A r \in ArchRegs : rrat[r] = r /\ gpr[r] = 0 /\ prf[r].value = gpr[r]
    BY <2>1, <2>2
  <2> QED BY <2>2, <2>3 DEF CommittedValues
<1>4. Values
  BY <1>1, <1>3 DEF Values, Fed, Loaded
<1>5. Chain
  <2>1. Len(<<>>) = 0 /\ 1 .. 0 = {}
    BY SMT
  <2>2. pc \in Pcs
    BY SMT, <1>2, IsaAssumption DEF Pcs, ValidPc
  <2>3. Ordered
    BY <1>1 DEF Ordered
  <2>4. Fetching
    BY <1>2, <2>2 DEF Fetching, Follows, Expect
  <2> QED BY <1>2, <2>1, <2>3, <2>4 DEF Chain, Predicted
<1>6. Serial
  BY <1>1, <1>2 DEF Serial
<1>7. PanicIsGenuine
  BY <1>2 DEF PanicIsGenuine
<1> QED BY <1>4, <1>5, <1>6, <1>7 DEF DInv

(* PanicIsGenuine says nothing of steps that do not panic. *)
LEMMA NoPanic == ASSUME state' # "PANIC" PROVE PanicIsGenuine'
BY Zenon DEF PanicIsGenuine
=============================================================================
