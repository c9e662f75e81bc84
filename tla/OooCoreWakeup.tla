--------------------------- MODULE OooCoreWakeup ----------------------------
(***************************************************************************)
(* The invariant of the scheduler of OooCore, and how every step of the    *)
(* engine keeps it.                                                        *)
(*                                                                         *)
(* A misprediction writes its result back before it flushes, so the parts  *)
(* of the invariant take the structures they speak of as arguments: they   *)
(* are used of the state between the two as well.                          *)
(***************************************************************************)
EXTENDS OooCoreRenaming

WritersOf(R) == {i \in RobIdx : R[i].valid /\ Renames(R[i].arch_rd)}

(* The bitmasks agree with the stations. *)
MasksOk(S, free, mask) ==
    /\ free = {k \in RsIdx : ~S[k].valid}
    /\ \A eu \in EuTypes :
         mask[eu] = {k \in RsIdx : /\ S[k].valid /\ S[k].eu_type = eu
                                   /\ S[k].src1.ready /\ S[k].src2.ready}

(* An instruction that renames nothing writes p0 or no register. *)
PlainOk(R) ==
    \A i \in RobIdx : R[i].valid /\ ~Renames(R[i].arch_rd) => R[i].phys_rd \in {0, NoReg}

(* Committed registers are ready, and the destination of a live instruction
   is ready when the instruction is. *)
PrfOk(f, R) ==
    /\ \A r \in ArchRegs : f[rrat[r]].ready
    /\ \A i \in WritersOf(R) : f[R[i].phys_rd].ready <=> R[i].ready

(* NoLostWakeup, of stations S, register file f and ROB R. *)
Produces(i, e, src, R) == /\ R[i].phys_rd = src.ptag
                          /\ ~R[i].ready
                          /\ Age(e.rob_idx) > Age(i)

Waits(e, src, f, R) ==
    e.valid /\ ~src.ready => /\ ~f[src.ptag].ready
                             /\ \E i \in WritersOf(R) : Produces(i, e, src, R)

WaitsOk(S, f, R) == \A k \in RsIdx : Waits(S[k], S[k].src1, f, R) /\ Waits(S[k], S[k].src2, f, R)

(* Stations and latches know the destination of their instruction. *)
TagsOk(S, D, R) == \A k \in D : S[k].valid => S[k].phys_rd = R[S[k].rob_idx].phys_rd

(* Where the instructions in flight are: the ROB slot of the instruction in
   each station and each slot of a unit, and what is to execute. *)
Empty == -1
Places == ({"rs"} \X RsIdx) \cup ({"int"} \X IntSlots) \cup ({"mul"} \X MulSlots)

SlotOf(e) == IF e.valid THEN e.rob_idx ELSE Empty

Where(S, L, M) ==
    [h \in Places |-> IF h[1] = "rs" THEN SlotOf(S[h[2]])
                      ELSE IF h[1] = "int" THEN SlotOf(L[h[2]]) ELSE SlotOf(M[h[2]])]

Pending(R) == {i \in RobIdx : R[i].valid /\ ~R[i].ready}

(* Each slot to execute is in exactly one place, and no other slot in any. *)
Matched(w, P) ==
    /\ \A h \in Places : w[h] # Empty => w[h] \in P
    /\ \A h, g \in Places : w[h] # Empty /\ w[h] = w[g] => h = g
    /\ \A i \in P : \E h \in Places : w[h] = i

WInv ==
    /\ MasksOk(rs, rs_free_mask, rs_ready_mask)
    /\ PlainOk(rob)
    /\ PrfOk(prf, rob)
    /\ WaitsOk(rs, prf, rob)
    /\ TagsOk(rs, RsIdx, rob)
    /\ TagsOk(latch_int, IntSlots, rob)
    /\ TagsOk(latch_mul, MulSlots, rob)
    /\ Matched(Where(rs, latch_int, latch_mul), Pending(rob))

(* WInv, of the structures a step leaves. *)
Scheduled(S, free, mask, R, f, L, M) ==
    /\ MasksOk(S, free, mask)
    /\ PlainOk(R)
    /\ PrfOk(f, R)
    /\ WaitsOk(S, f, R)
    /\ TagsOk(S, RsIdx, R) /\ TagsOk(L, IntSlots, R) /\ TagsOk(M, MulSlots, R)
    /\ Matched(Where(S, L, M), Pending(R))

-----------------------------------------------------------------------------
(* Issue: an instruction moves from one place to an empty one. *)
LEMMA MatchedMove ==
    ASSUME NEW w, NEW w2, NEW P, Matched(w, P), NEW g \in Places, NEW h \in Places,
           w[g] # Empty, w[h] = Empty, w2[h] = w[g], w2[g] = Empty,
           \A j \in Places \ {g, h} : w2[j] = w[j]
    PROVE  Matched(w2, P)
<1> USE Zenon
<1>0. g # h
  OBVIOUS
<1>1. ASSUME NEW j \in Places, w2[j] # Empty
      PROVE  w2[j] = (IF j = h THEN w[g] ELSE w[j]) /\ j # g
  BY <1>0, <1>1
<1>2. \A j \in Places : w2[j] # Empty => w2[j] \in P
  BY <1>1 DEF Matched
<1>3. ASSUME NEW i \in Places, NEW j \in Places, w2[i] # Empty, w2[i] = w2[j] PROVE i = j
  <2>1. CASE i = h
    BY SMT, <1>1, <1>3, <2>1 DEF Matched
  <2>2. CASE i # h
    BY SMT, <1>1, <1>3, <2>2 DEF Matched
  <2> QED BY <2>1, <2>2
<1>4. ASSUME NEW i \in P PROVE \E j \in Places : w2[j] = i
  <2>1. PICK j \in Places : w[j] = i
    BY DEF Matched
  <2>2. CASE j = g
    BY <2>1, <2>2
  <2>3. CASE j = h
    BY <2>1, <2>3
  <2> QED BY <2>1, <2>2, <2>3
<1> QED BY <1>2, <1>3, <1>4 DEF Matched

(* Rename: a slot that is not to execute is put in an empty place. *)
LEMMA MatchedAdd ==
    ASSUME NEW w, NEW w2, NEW P, Matched(w, P), NEW h \in Places, NEW t, t \notin P, Empty \notin P,
           w[h] = Empty, w2[h] = t, \A j \in Places \ {h} : w2[j] = w[j]
    PROVE  Matched(w2, P \cup {t})
<1> USE Zenon
<1>1. \A j \in Places : w2[j] # Empty => w2[j] \in P \cup {t}
  BY DEF Matched
<1>2. ASSUME NEW i \in Places, NEW j \in Places, w2[i] # Empty, w2[i] = w2[j] PROVE i = j
  BY <1>2 DEF Matched
<1>3. ASSUME NEW i \in P \cup {t} PROVE \E j \in Places : w2[j] = i
  <2>1. CASE i = t
    BY <2>1
  <2>2. CASE i \in P
    <3>1. PICK j \in Places : w[j] = i
      BY <2>2 DEF Matched
    <3>2. CASE j = h
      BY <3>1, <3>2
    <3> QED BY <3>1, <3>2
  <2> QED BY <2>1, <2>2
<1> QED BY <1>1, <1>2, <1>3 DEF Matched

(* Completion: an instruction leaves its place and has executed. *)
LEMMA MatchedRemove ==
    ASSUME NEW w, NEW w2, NEW P, Matched(w, P), NEW h \in Places,
           w[h] # Empty, w2[h] = Empty, \A j \in Places \ {h} : w2[j] = w[j]
    PROVE  Matched(w2, P \ {w[h]})
BY DEF Matched

(* A flush empties the places of the slots it squashes. *)
LEMMA MatchedDrop ==
    ASSUME NEW w, NEW w2, NEW P, Matched(w, P), NEW G,
           \A j \in Places : w2[j] = IF w[j] \in G THEN Empty ELSE w[j]
    PROVE  Matched(w2, P \ G)
BY Zenon DEF Matched

(* What Where says of each kind of place. *)
LEMMA WhereAt ==
    ASSUME NEW S, NEW L, NEW M
    PROVE  /\ \A k \in RsIdx : <<"rs", k>> \in Places /\ Where(S, L, M)[<<"rs", k>>] = SlotOf(S[k])
           /\ \A k \in IntSlots : <<"int", k>> \in Places /\ Where(S, L, M)[<<"int", k>>] = SlotOf(L[k])
           /\ \A k \in MulSlots : <<"mul", k>> \in Places /\ Where(S, L, M)[<<"mul", k>>] = SlotOf(M[k])
           /\ \A h \in Places : \/ \E k \in RsIdx : h = <<"rs", k>>
                                \/ \E k \in IntSlots : h = <<"int", k>>
                                \/ \E k \in MulSlots : h = <<"mul", k>>
BY DEF Where, Places

(* A place that holds the same slot in both. *)
SameAt(h, S, L, M, S2, L2, M2) ==
    /\ \A k \in RsIdx : h = <<"rs", k>> => SlotOf(S2[k]) = SlotOf(S[k])
    /\ \A k \in IntSlots : h = <<"int", k>> => SlotOf(L2[k]) = SlotOf(L[k])
    /\ \A k \in MulSlots : h = <<"mul", k>> => SlotOf(M2[k]) = SlotOf(M[k])

(* A place whose entry has the same slot counts as before. *)
LEMMA WhereSame ==
    ASSUME NEW S, NEW L, NEW M, NEW S2, NEW L2, NEW M2, NEW h \in Places,
           SameAt(h, S, L, M, S2, L2, M2)
    PROVE  Where(S2, L2, M2)[h] = Where(S, L, M)[h]
<1>1. CASE \E k \in RsIdx : h = <<"rs", k>>
  <2>1. PICK k \in RsIdx : h = <<"rs", k>>
    BY Zenon, <1>1
  <2>2. Where(S, L, M)[h] = SlotOf(S[k])
    BY <2>1, WhereAt
  <2>3. Where(S2, L2, M2)[h] = SlotOf(S2[k])
    BY <2>1, WhereAt
  <2> QED BY Zenon, <2>1, <2>2, <2>3 DEF SameAt
<1>2. CASE \E k \in IntSlots : h = <<"int", k>>
  <2>1. PICK k \in IntSlots : h = <<"int", k>>
    BY Zenon, <1>2
  <2>2. Where(S, L, M)[h] = SlotOf(L[k])
    BY <2>1, WhereAt
  <2>3. Where(S2, L2, M2)[h] = SlotOf(L2[k])
    BY <2>1, WhereAt
  <2> QED BY Zenon, <2>1, <2>2, <2>3 DEF SameAt
<1>3. CASE \E k \in MulSlots : h = <<"mul", k>>
  <2>1. PICK k \in MulSlots : h = <<"mul", k>>
    BY Zenon, <1>3
  <2>2. Where(S, L, M)[h] = SlotOf(M[k])
    BY <2>1, WhereAt
  <2>3. Where(S2, L2, M2)[h] = SlotOf(M2[k])
    BY <2>1, WhereAt
  <2> QED BY Zenon, <2>1, <2>2, <2>3 DEF SameAt
<1> QED BY Zenon, <1>1, <1>2, <1>3, WhereAt

(* The slots of G are taken out of the places D. *)
SlotsDropped(S, S2, D, G) ==
    \A k \in D : SlotOf(S2[k]) = IF SlotOf(S[k]) \in G THEN Empty ELSE SlotOf(S[k])

(* A place whose slot is taken out when it is in G. *)
LEMMA WhereDrop ==
    ASSUME NEW S, NEW L, NEW M, NEW S2, NEW L2, NEW M2, NEW G, NEW h \in Places,
           SlotsDropped(S, S2, RsIdx, G), SlotsDropped(L, L2, IntSlots, G), SlotsDropped(M, M2, MulSlots, G)
    PROVE  Where(S2, L2, M2)[h] = IF Where(S, L, M)[h] \in G THEN Empty ELSE Where(S, L, M)[h]
<1>1. CASE \E k \in RsIdx : h = <<"rs", k>>
  <2>1. PICK k \in RsIdx : h = <<"rs", k>>
    BY Zenon, <1>1
  <2>2. Where(S, L, M)[h] = SlotOf(S[k])
    BY <2>1, WhereAt
  <2>3. Where(S2, L2, M2)[h] = SlotOf(S2[k])
    BY <2>1, WhereAt
  <2> QED BY Zenon, <2>2, <2>3 DEF SlotsDropped
<1>2. CASE \E k \in IntSlots : h = <<"int", k>>
  <2>1. PICK k \in IntSlots : h = <<"int", k>>
    BY Zenon, <1>2
  <2>2. Where(S, L, M)[h] = SlotOf(L[k])
    BY <2>1, WhereAt
  <2>3. Where(S2, L2, M2)[h] = SlotOf(L2[k])
    BY <2>1, WhereAt
  <2> QED BY Zenon, <2>2, <2>3 DEF SlotsDropped
<1>3. CASE \E k \in MulSlots : h = <<"mul", k>>
  <2>1. PICK k \in MulSlots : h = <<"mul", k>>
    BY Zenon, <1>3
  <2>2. Where(S, L, M)[h] = SlotOf(M[k])
    BY <2>1, WhereAt
  <2>3. Where(S2, L2, M2)[h] = SlotOf(M2[k])
    BY <2>1, WhereAt
  <2> QED BY Zenon, <2>2, <2>3 DEF SlotsDropped
<1> QED BY Zenon, <1>1, <1>2, <1>3, WhereAt

(* The destination of a writer is a register of its own, and not p0. *)
LEMMA WriterDest ==
    ASSUME IInv, NEW i \in Writers
    PROVE  /\ rob[i].phys_rd \in PhysRegs /\ rob[i].phys_rd > 0
           /\ \A r \in ArchRegs : rrat[r] # rob[i].phys_rd
           /\ \A j \in Writers : rob[j].phys_rd = rob[i].phys_rd => j = i
<1>1. rob[i].phys_rd \in PhysRegs
  BY Zenon, WriterFacts
<1>2. \A r \in ArchRegs : rrat[r] # rob[i].phys_rd
  BY DEF IInv, RegPartition
<1>3. rrat[0] = 0 /\ 0 \in ArchRegs
  BY IsaAssumption DEF IInv, RatConsistent, ArchRegs
<1>4. rob[i].phys_rd # 0
  BY Zenon, <1>2, <1>3
<1>5. rob[i].phys_rd > 0
  BY <1>1, <1>4, OooAssumption DEF PhysRegs
<1> QED BY Zenon, <1>1, <1>2, <1>5 DEF IInv, RegPartition

(* A slot of the ROB is not Empty, and what stations and latches hold is a
   slot of the ROB. *)
LEMMA HeldSlots ==
    ASSUME TypeOK
    PROVE  /\ Empty \notin RobIdx
           /\ \A k \in RsIdx : rs[k].rob_idx \in RobIdx /\ (rs[k].valid <=> SlotOf(rs[k]) # Empty)
           /\ \A k \in IntSlots : /\ latch_int[k].rob_idx \in RobIdx
                                  /\ latch_int[k].valid <=> SlotOf(latch_int[k]) # Empty
           /\ \A k \in MulSlots : /\ latch_mul[k].rob_idx \in RobIdx
                                  /\ latch_mul[k].valid <=> SlotOf(latch_mul[k]) # Empty
<1> USE Zenon
<1>1. Empty \notin RobIdx
  BY SMT, OooAssumption DEF Empty, RobIdx
<1>2. \A k \in RsIdx : rs[k].rob_idx \in RobIdx
  BY DEF TypeOK, RsEntries
<1>3. \A k \in IntSlots : latch_int[k].rob_idx \in RobIdx
  BY DEF TypeOK, Latches
<1>4. \A k \in MulSlots : latch_mul[k].rob_idx \in RobIdx
  BY DEF TypeOK, Latches
<1> QED BY <1>1, <1>2, <1>3, <1>4 DEF SlotOf

-----------------------------------------------------------------------------
(* The flush at branch b, of a station or latch e: none is what an empty one
   holds. *)
Dropped(e, b, none) == IF e.valid /\ rob_newer_than(e.rob_idx, b) THEN none ELSE e

(* What a flush leaves in a place: nothing, or the entry it held. *)
LEMMA DroppedSlot ==
    ASSUME NEW e, NEW b, NEW none, ~none.valid,
           e.valid => e.rob_idx \in RobIdx /\ rob[e.rob_idx].valid, Empty \notin RobIdx
    PROVE  /\ SlotOf(Dropped(e, b, none)) = IF SlotOf(e) \in Squashed(b) THEN Empty ELSE SlotOf(e)
           /\ Dropped(e, b, none).valid => /\ Dropped(e, b, none) = e /\ e.valid
                                           /\ e.rob_idx \notin Squashed(b)
<1> USE Zenon
<1>1. Empty \notin Squashed(b)
  BY DEF Squashed
<1>2. CASE ~e.valid
  <2>1. Dropped(e, b, none) = e /\ SlotOf(e) = Empty
    BY <1>2 DEF Dropped, SlotOf
  <2> QED BY <1>1, <1>2, <2>1
<1>3. CASE e.valid
  <2>1. SlotOf(e) = e.rob_idx /\ e.rob_idx \in RobIdx /\ rob[e.rob_idx].valid
    BY <1>3 DEF SlotOf
  <2>2. e.rob_idx \in Squashed(b) <=> rob_newer_than(e.rob_idx, b)
    BY <2>1 DEF Squashed
  <2>3. CASE rob_newer_than(e.rob_idx, b)
    <3>1. Dropped(e, b, none) = none /\ SlotOf(none) = Empty
      BY <1>3, <2>3 DEF Dropped, SlotOf
    <3> QED BY <2>1, <2>2, <2>3, <3>1
  <2>4. CASE ~rob_newer_than(e.rob_idx, b)
    <3>1. Dropped(e, b, none) = e
      BY <2>4 DEF Dropped
    <3> QED BY <1>3, <2>1, <2>2, <2>4, <3>1
  <2> QED BY <2>3, <2>4
<1> QED BY <1>2, <1>3

(* What a flush does to the structures: gone are the stations it empties. *)
FlushedTo(b, S, free, mask, R, f, L, M, S2, free2, mask2, R2, f2, L2, M2) ==
    LET gone  == {k \in RsIdx : S[k].valid /\ rob_newer_than(S[k].rob_idx, b)}
        freed == {rob[i].phys_rd : i \in SquashedWriters(b)}
    IN  /\ \A k \in RsIdx : S2[k] = Dropped(S[k], b, NoRs)
        /\ free2 = free \cup gone
        /\ \A eu \in EuTypes : mask2[eu] = mask[eu] \ gone
        /\ \A i \in RobIdx : R2[i] = IF i \in Squashed(b) THEN NoEntry ELSE R[i]
        /\ \A p \in PhysRegs : p \notin freed => f2[p] = f[p]
        /\ \A p \in PhysRegs : f2[p].ready => p \notin freed /\ f[p].ready
        /\ \A s \in IntSlots : L2[s] = Dropped(L[s], b, NoLatch)
        /\ \A s \in MulSlots : M2[s] = Dropped(M[s], b, NoLatch)

(* The structures a flush starts from: those of the state, except that some
   results are written back. *)
BeforeFlush(S, R, L, M) ==
    /\ \A i \in RobIdx : /\ R[i].valid = rob[i].valid /\ R[i].arch_rd = rob[i].arch_rd
                         /\ R[i].phys_rd = rob[i].phys_rd
    /\ \A k \in RsIdx : S[k].rob_idx \in RobIdx /\ S[k].src1.ptag \in PhysRegs /\ S[k].src2.ptag \in PhysRegs
    /\ \A s \in IntSlots : L[s].rob_idx \in RobIdx
    /\ \A s \in MulSlots : M[s].rob_idx \in RobIdx

(* Whatever is held anywhere is live. *)
LEMMA HeldLive ==
    ASSUME Empty \notin RobIdx, NEW S, NEW R, NEW L, NEW M, BeforeFlush(S, R, L, M),
           Matched(Where(S, L, M), Pending(R))
    PROVE  /\ \A k \in RsIdx : S[k].valid => rob[S[k].rob_idx].valid
           /\ \A s \in IntSlots : L[s].valid => rob[L[s].rob_idx].valid
           /\ \A s \in MulSlots : M[s].valid => rob[M[s].rob_idx].valid
<1> USE Zenon
<1> DEFINE w == Where(S, L, M)
<1>1. ASSUME NEW h \in Places, NEW e, w[h] = SlotOf(e), e.valid, e.rob_idx \in RobIdx
      PROVE  rob[e.rob_idx].valid
  <2>1. w[h] = e.rob_idx /\ w[h] # Empty
    BY <1>1 DEF SlotOf
  <2>2. e.rob_idx \in Pending(R)
    BY <2>1 DEF Matched
  <2> QED BY <1>1, <2>2 DEF Pending, BeforeFlush
<1>2. /\ \A k \in RsIdx : <<"rs", k>> \in Places /\ w[<<"rs", k>>] = SlotOf(S[k])
      /\ \A k \in IntSlots : <<"int", k>> \in Places /\ w[<<"int", k>>] = SlotOf(L[k])
      /\ \A k \in MulSlots : <<"mul", k>> \in Places /\ w[<<"mul", k>>] = SlotOf(M[k])
  BY SMT, WhereAt
<1> HIDE DEF w
<1>3. \A k \in RsIdx : S[k].valid => rob[S[k].rob_idx].valid
  BY <1>1, <1>2 DEF BeforeFlush
<1>4. \A k \in IntSlots : L[k].valid => rob[L[k].rob_idx].valid
  BY <1>1, <1>2 DEF BeforeFlush
<1>5. \A k \in MulSlots : M[k].valid => rob[M[k].rob_idx].valid
  BY <1>1, <1>2 DEF BeforeFlush
<1> QED BY <1>3, <1>4, <1>5

(* A flush of whole entries leaves the tags right, and takes the squashed
   instructions out of their places. *)
EntriesDropped(S, S2, D, R, R2, b, none) ==
    /\ \A k \in D : S2[k] = Dropped(S[k], b, none)
    /\ \A k \in D : S[k].valid => S[k].rob_idx \in RobIdx /\ rob[S[k].rob_idx].valid
    /\ \A i \in RobIdx : R2[i] = IF i \in Squashed(b) THEN NoEntry ELSE R[i]

(* A flush keeps the tags of a kind of place right, and empties those of
   the squashed instructions. *)
LEMMA DroppedTags ==
    ASSUME NEW b, NEW D, NEW S, NEW S2, NEW R, NEW R2, NEW none, ~none.valid, Empty \notin RobIdx,
           TagsOk(S, D, R), EntriesDropped(S, S2, D, R, R2, b, none)
    PROVE  TagsOk(S2, D, R2) /\ SlotsDropped(S, S2, D, Squashed(b))
<1> USE Zenon
<1> SUFFICES ASSUME NEW k \in D
             PROVE  /\ S2[k].valid => S2[k].phys_rd = R2[S2[k].rob_idx].phys_rd
                    /\ SlotOf(S2[k]) = IF SlotOf(S[k]) \in Squashed(b) THEN Empty ELSE SlotOf(S[k])
  BY DEF TagsOk, SlotsDropped
<1> PICK e : e = S[k]
  OBVIOUS
<1> PICK d : d = Dropped(e, b, none)
  OBVIOUS
<1>1. /\ d = S2[k] /\ (e.valid => e.rob_idx \in RobIdx /\ rob[e.rob_idx].valid)
      /\ \A i \in RobIdx : R2[i] = IF i \in Squashed(b) THEN NoEntry ELSE R[i]
  BY DEF EntriesDropped
<1>2. SlotOf(d) = IF SlotOf(e) \in Squashed(b) THEN Empty ELSE SlotOf(e)
  <2>1. e.valid => e.rob_idx \in RobIdx /\ rob[e.rob_idx].valid
    BY <1>1
  <2>2. SlotOf(Dropped(e, b, none)) = IF SlotOf(e) \in Squashed(b) THEN Empty ELSE SlotOf(e)
    BY SMT, <2>1, DroppedSlot
  <2> QED BY <2>2
<1>3. ASSUME d.valid PROVE d.phys_rd = R2[d.rob_idx].phys_rd
  <2>1. d # none
    BY <1>3
  <2>2. d = e /\ ~(e.valid /\ rob_newer_than(e.rob_idx, b))
    BY <2>1 DEF Dropped
  <2>3. e.valid /\ e.rob_idx \notin Squashed(b)
    BY <1>3, <2>2 DEF Squashed
  <2>4. e.rob_idx \in RobIdx /\ R2[e.rob_idx] = R[e.rob_idx]
    BY <1>1, <2>3
  <2>5. e.phys_rd = R[e.rob_idx].phys_rd
    BY <2>3 DEF TagsOk
  <2> QED BY <2>2, <2>4, <2>5
<1> QED BY <1>1, <1>2, <1>3

(* A flush keeps every part of the invariant. *)
LEMMA FlushKeeps ==
    ASSUME IInv, NEW b \in RobIdx, NEW S, NEW free, NEW mask, NEW R, NEW f, NEW L, NEW M,
           NEW S2, NEW free2, NEW mask2, NEW R2, NEW f2, NEW L2, NEW M2,
           Scheduled(S, free, mask, R, f, L, M), BeforeFlush(S, R, L, M),
           FlushedTo(b, S, free, mask, R, f, L, M, S2, free2, mask2, R2, f2, L2, M2)
    PROVE  Scheduled(S2, free2, mask2, R2, f2, L2, M2)
<1> USE Zenon
<1> DEFINE gone  == {k \in RsIdx : S[k].valid /\ rob_newer_than(S[k].rob_idx, b)}
           freed == {rob[i].phys_rd : i \in SquashedWriters(b)}
<1>1. TypeOK /\ Empty \notin RobIdx /\ ~NoRs.valid /\ ~NoLatch.valid /\ ~NoEntry.valid
  BY HeldSlots DEF IInv, NoRs, NoLatch, NoEntry
<1>2. /\ MasksOk(S, free, mask) /\ PlainOk(R) /\ PrfOk(f, R) /\ WaitsOk(S, f, R)
      /\ TagsOk(S, RsIdx, R) /\ TagsOk(L, IntSlots, R) /\ TagsOk(M, MulSlots, R)
      /\ Matched(Where(S, L, M), Pending(R))
  BY DEF Scheduled
<1>3. /\ \A k \in RsIdx : S2[k] = Dropped(S[k], b, NoRs)
      /\ free2 = free \cup gone
      /\ \A eu \in EuTypes : mask2[eu] = mask[eu] \ gone
      /\ \A i \in RobIdx : R2[i] = IF i \in Squashed(b) THEN NoEntry ELSE R[i]
      /\ \A p \in PhysRegs : p \notin freed => f2[p] = f[p]
      /\ \A p \in PhysRegs : f2[p].ready => p \notin freed /\ f[p].ready
      /\ \A s \in IntSlots : L2[s] = Dropped(L[s], b, NoLatch)
      /\ \A s \in MulSlots : M2[s] = Dropped(M[s], b, NoLatch)
  BY DEF FlushedTo
<1>4. /\ \A k \in RsIdx : S[k].valid => S[k].rob_idx \in RobIdx /\ rob[S[k].rob_idx].valid
      /\ \A s \in IntSlots : L[s].valid => L[s].rob_idx \in RobIdx /\ rob[L[s].rob_idx].valid
      /\ \A s \in MulSlots : M[s].valid => M[s].rob_idx \in RobIdx /\ rob[M[s].rob_idx].valid
  <2>1. /\ \A k \in RsIdx : S[k].valid => rob[S[k].rob_idx].valid
        /\ \A s \in IntSlots : L[s].valid => rob[L[s].rob_idx].valid
        /\ \A s \in MulSlots : M[s].valid => rob[M[s].rob_idx].valid
    BY <1>1, <1>2, HeldLive
  <2> QED BY <2>1 DEF BeforeFlush
<1>5. \A k \in RsIdx : IF k \in gone THEN S2[k] = NoRs ELSE S2[k] = S[k]
  BY <1>3 DEF Dropped
<1>6. \A i \in RobIdx : R2[i].valid => R2[i] = R[i] /\ R[i].valid /\ i \notin Squashed(b)
  BY <1>1, <1>3
<1>7. \A i \in RobIdx \ Squashed(b) : R2[i] = R[i]
  BY <1>3
<1> HIDE DEF gone, freed
<1>8. MasksOk(S2, free2, mask2)
  <2>1. free2 = {k \in RsIdx : ~S2[k].valid}
    <3>1. gone \subseteq RsIdx /\ free \subseteq RsIdx
      BY <1>2 DEF gone, MasksOk
    <3>2. \A k \in RsIdx : k \in free2 <=> ~S2[k].valid
      BY <1>1, <1>2, <1>3, <1>5 DEF MasksOk
    <3>3. free2 \subseteq RsIdx
      BY <1>3, <3>1
    <3> QED BY <3>2, <3>3
  <2>2. ASSUME NEW eu \in EuTypes
        PROVE  mask2[eu] = {k \in RsIdx : /\ S2[k].valid /\ S2[k].eu_type = eu
                                          /\ S2[k].src1.ready /\ S2[k].src2.ready}
    <3>1. mask[eu] = {k \in RsIdx : /\ S[k].valid /\ S[k].eu_type = eu
                                    /\ S[k].src1.ready /\ S[k].src2.ready}
      BY <1>2 DEF MasksOk
    <3>2. mask2[eu] = mask[eu] \ gone
      BY <1>3
    <3>3. \A k \in RsIdx : k \in mask2[eu] <=> /\ S2[k].valid /\ S2[k].eu_type = eu
                                               /\ S2[k].src1.ready /\ S2[k].src2.ready
      BY <1>1, <1>5, <3>1, <3>2
    <3>4. mask2[eu] \subseteq RsIdx
      BY <3>1, <3>2
    <3> QED BY <3>3, <3>4
  <2> QED BY <2>1, <2>2 DEF MasksOk
<1>9. PlainOk(R2)
  BY <1>2, <1>6 DEF PlainOk
<1>10. WritersOf(R) = Writers
  BY DEF WritersOf, Writers, BeforeFlush
<1>11. WritersOf(R2) = Writers \ Squashed(b)
  <2>1. \A i \in RobIdx : i \in WritersOf(R2) <=> i \in WritersOf(R) /\ i \notin Squashed(b)
    BY <1>6, <1>7 DEF WritersOf
  <2> QED BY <1>10, <2>1 DEF WritersOf, Writers
<1>12. PrfOk(f2, R2)
  <2>1. ASSUME NEW r \in ArchRegs PROVE f2[rrat[r]].ready
    <3>1. rrat[r] \in PhysRegs /\ f[rrat[r]].ready
      BY <1>1, <1>2 DEF PrfOk, TypeOK
    <3>2. rrat[r] \notin freed
      <4>1. \A i \in SquashedWriters(b) : i \in Writers
        BY DEF SquashedWriters, Squashed, Writers
      <4> QED BY <4>1, WriterDest DEF freed
    <3> QED BY <1>3, <3>1, <3>2
  <2>2. ASSUME NEW i \in WritersOf(R2) PROVE f2[R2[i].phys_rd].ready <=> R2[i].ready
    <3>1. i \in Writers /\ i \notin Squashed(b) /\ i \in RobIdx
      BY <1>11 DEF Writers
    <3>2. R2[i] = R[i] /\ R[i].phys_rd = rob[i].phys_rd
      BY <1>7, <3>1 DEF BeforeFlush
    <3>3. f[R[i].phys_rd].ready <=> R[i].ready
      BY <1>2, <1>10, <3>1 DEF PrfOk
    <3>4. rob[i].phys_rd \in PhysRegs
      BY <3>1, WriterDest
    <3>5. rob[i].phys_rd \notin freed
      <4>1. \A j \in SquashedWriters(b) : j \in Writers /\ j \in Squashed(b)
        BY DEF SquashedWriters, Squashed, Writers
      <4> QED BY <3>1, <4>1, WriterDest DEF freed
    <3>6. f2[rob[i].phys_rd] = f[rob[i].phys_rd]
      BY <1>3, <3>4, <3>5
    <3> QED BY <3>2, <3>3, <3>6
  <2> QED BY <2>1, <2>2 DEF PrfOk
<1>13. WaitsOk(S2, f2, R2)
  <2>1. ASSUME NEW k \in RsIdx, NEW src, src.ptag \in PhysRegs, Waits(S[k], src, f, R),
               k \notin gone, S[k].valid, ~src.ready
        PROVE  Waits(S[k], src, f2, R2)
    <3>1. ~f[src.ptag].ready
      BY <2>1 DEF Waits
    <3>2. PICK i \in WritersOf(R) : Produces(i, S[k], src, R)
      BY <2>1 DEF Waits
    <3>3. i \in RobIdx /\ S[k].rob_idx \in RobIdx /\ Age(S[k].rob_idx) > Age(i)
      BY <1>4, <2>1, <3>2 DEF WritersOf, Produces
    <3>4. ~(Age(S[k].rob_idx) > Age(b))
      BY <2>1 DEF gone, rob_newer_than
    <3>5. rob_head \in RobIdx
      BY <1>1 DEF TypeOK
    <3>6. Age(i) \in Int /\ Age(b) \in Int /\ Age(S[k].rob_idx) \in Int
      BY SMT, <3>3, <3>5, AgeBijective
    <3>7. ~(Age(i) > Age(b))
      BY SMT, <3>3, <3>4, <3>6
    <3>8. i \notin Squashed(b)
      BY <3>7 DEF Squashed, rob_newer_than
    <3>9. i \in WritersOf(R2) /\ R2[i] = R[i]
      BY <1>7, <1>10, <1>11, <3>2, <3>3, <3>8
    <3>10. Produces(i, S[k], src, R2)
      BY <3>2, <3>9 DEF Produces
    <3>11. ~f2[src.ptag].ready
      BY <1>3, <2>1, <3>1
    <3> QED BY <3>9, <3>10, <3>11 DEF Waits
  <2>2. ASSUME NEW k \in RsIdx PROVE Waits(S2[k], S2[k].src1, f2, R2) /\ Waits(S2[k], S2[k].src2, f2, R2)
    <3>1. CASE k \in gone
      <4>1. ~S2[k].valid
        BY <1>1, <1>5, <3>1
      <4> QED BY <4>1 DEF Waits
    <3>2. CASE k \notin gone
      <4>1. S2[k] = S[k]
        BY <1>5, <3>2
      <4>2. Waits(S[k], S[k].src1, f, R) /\ Waits(S[k], S[k].src2, f, R)
        BY <1>2 DEF WaitsOk
      <4>3. S[k].src1.ptag \in PhysRegs /\ S[k].src2.ptag \in PhysRegs
        BY DEF BeforeFlush
      <4>4. Waits(S[k], S[k].src1, f2, R2)
        <5>1. CASE S[k].valid /\ ~S[k].src1.ready
          BY <2>1, <3>2, <4>2, <4>3, <5>1
        <5>2. CASE ~(S[k].valid /\ ~S[k].src1.ready)
          BY <5>2 DEF Waits
        <5> QED BY <5>1, <5>2
      <4>5. Waits(S[k], S[k].src2, f2, R2)
        <5>1. CASE S[k].valid /\ ~S[k].src2.ready
          BY <2>1, <3>2, <4>2, <4>3, <5>1
        <5>2. CASE ~(S[k].valid /\ ~S[k].src2.ready)
          BY <5>2 DEF Waits
        <5> QED BY <5>1, <5>2
      <4> QED BY <4>1, <4>4, <4>5
    <3> QED BY <3>1, <3>2
  <2> QED BY <2>2 DEF WaitsOk
<1>14. TagsOk(S2, RsIdx, R2) /\ SlotsDropped(S, S2, RsIdx, Squashed(b))
  <2>1. TagsOk(S, RsIdx, R) /\ ~NoRs.valid /\ Empty \notin RobIdx
    BY <1>1, <1>2
  <2>2. EntriesDropped(S, S2, RsIdx, R, R2, b, NoRs)
    BY <1>3, <1>4 DEF EntriesDropped
  <2> QED BY <2>1, <2>2, DroppedTags
<1>15. TagsOk(L2, IntSlots, R2) /\ SlotsDropped(L, L2, IntSlots, Squashed(b))
  <2>1. TagsOk(L, IntSlots, R) /\ ~NoLatch.valid /\ Empty \notin RobIdx
    BY <1>1, <1>2
  <2>2. EntriesDropped(L, L2, IntSlots, R, R2, b, NoLatch)
    BY <1>3, <1>4 DEF EntriesDropped
  <2> QED BY <2>1, <2>2, DroppedTags
<1>16. TagsOk(M2, MulSlots, R2) /\ SlotsDropped(M, M2, MulSlots, Squashed(b))
  <2>1. TagsOk(M, MulSlots, R) /\ ~NoLatch.valid /\ Empty \notin RobIdx
    BY <1>1, <1>2
  <2>2. EntriesDropped(M, M2, MulSlots, R, R2, b, NoLatch)
    BY <1>3, <1>4 DEF EntriesDropped
  <2> QED BY <2>1, <2>2, DroppedTags
<1>17. Matched(Where(S2, L2, M2), Pending(R2))
  <2> DEFINE w  == Where(S, L, M)
             w2 == Where(S2, L2, M2)
             G  == Squashed(b)
  <2>1. SlotsDropped(S, S2, RsIdx, G) /\ SlotsDropped(L, L2, IntSlots, G) /\ SlotsDropped(M, M2, MulSlots, G)
    BY <1>14, <1>15, <1>16
  <2>2. ASSUME NEW j \in Places PROVE w2[j] = IF w[j] \in G THEN Empty ELSE w[j]
    BY SMT, <2>1, WhereDrop
  <2> HIDE DEF w, w2, G
  <2>3. Matched(w2, Pending(R) \ G)
    <3>1. Matched(w, Pending(R))
      BY <1>2 DEF w
    <3> QED BY <2>2, <3>1, MatchedDrop
  <2>4. Pending(R2) = Pending(R) \ G
    <3>1. \A i \in RobIdx : i \in Pending(R2) <=> i \in Pending(R) /\ i \notin G
      BY <1>6, <1>7 DEF Pending, G
    <3> QED BY <3>1 DEF Pending
  <2> QED BY <2>3, <2>4 DEF w2
<1> QED BY <1>8, <1>9, <1>12, <1>13, <1>14, <1>15, <1>16, <1>17 DEF Scheduled

-----------------------------------------------------------------------------
(* What writing a result back does to a station: the sources that wait for
   the tag become ready, and nothing else changes. *)
Heard(src, p) == ~src.ready /\ src.ptag = p

(* What a broadcast changes in a station: the sources that wait for p. *)
LEMMA Broadcast ==
    ASSUME TypeOK, NEW p \in MaybePhys, NEW v \in Words, NEW k \in RsIdx
    PROVE  /\ RsAfter(p, v)[k].valid = rs[k].valid
           /\ RsAfter(p, v)[k].rob_idx = rs[k].rob_idx
           /\ RsAfter(p, v)[k].phys_rd = rs[k].phys_rd
           /\ RsAfter(p, v)[k].eu_type = rs[k].eu_type
           /\ RsAfter(p, v)[k].src1.ptag = rs[k].src1.ptag
           /\ RsAfter(p, v)[k].src2.ptag = rs[k].src2.ptag
           /\ p > 0 /\ k \notin rs_free_mask
                => /\ RsAfter(p, v)[k].src1.ready <=> rs[k].src1.ready \/ Heard(rs[k].src1, p)
                   /\ RsAfter(p, v)[k].src2.ready <=> rs[k].src2.ready \/ Heard(rs[k].src2, p)
           /\ ~(p > 0 /\ k \notin rs_free_mask) => RsAfter(p, v)[k] = rs[k]
<1> USE Zenon
<1>1. rs \in [RsIdx -> RsEntries] /\ rs[k] \in RsEntries
  BY DEF TypeOK
<1>2. rs[k].src1 \in Sources /\ rs[k].src2 \in Sources
  BY <1>1 DEF RsEntries
<1>3. ASSUME NEW src \in Sources
      PROVE  /\ Wake(src, p, v).ptag = src.ptag
             /\ Wake(src, p, v).ready <=> src.ready \/ Heard(src, p)
  <2>1. CASE Heard(src, p)
    <3>1. Wake(src, p, v) = [src EXCEPT !.ready = TRUE, !.val = v]
      BY <2>1 DEF Wake, Heard
    <3>2. Wake(src, p, v).ptag = src.ptag /\ Wake(src, p, v).ready = TRUE
      BY <3>1 DEF Sources
    <3> QED BY <2>1, <3>2
  <2>2. CASE ~Heard(src, p)
    BY <2>2 DEF Wake, Heard
  <2> QED BY <2>1, <2>2
<1>4. CASE p > 0 /\ k \notin rs_free_mask
  <2> PICK w1 : w1 = Wake(rs[k].src1, p, v)
    OBVIOUS
  <2> PICK w2 : w2 = Wake(rs[k].src2, p, v)
    OBVIOUS
  <2>1. RsAfter(p, v)[k] = [rs[k] EXCEPT !.src1 = w1, !.src2 = w2]
    BY <1>4 DEF RsAfter, Woken
  <2>2. /\ RsAfter(p, v)[k].valid = rs[k].valid /\ RsAfter(p, v)[k].rob_idx = rs[k].rob_idx
        /\ RsAfter(p, v)[k].phys_rd = rs[k].phys_rd /\ RsAfter(p, v)[k].eu_type = rs[k].eu_type
        /\ RsAfter(p, v)[k].src1 = w1 /\ RsAfter(p, v)[k].src2 = w2
    BY <1>1, <2>1 DEF RsEntries
  <2>3. w1.ptag = rs[k].src1.ptag /\ (w1.ready <=> rs[k].src1.ready \/ Heard(rs[k].src1, p))
    BY <1>2, <1>3
  <2>4. w2.ptag = rs[k].src2.ptag /\ (w2.ready <=> rs[k].src2.ready \/ Heard(rs[k].src2, p))
    BY <1>2, <1>3
  <2> QED BY <1>4, <2>2, <2>3, <2>4
<1>5. CASE ~(p > 0 /\ k \notin rs_free_mask)
  <2>1. RsAfter(p, v)[k] = rs[k]
    BY <1>5 DEF RsAfter, Woken
  <2> QED BY <1>5, <2>1
<1> QED BY <1>4, <1>5

(* The masks after a writeback: a station enters the ready mask when its last
   source is heard. *)
LEMMA BroadcastMasks ==
    ASSUME TypeOK, NEW p \in MaybePhys, NEW v \in Words,
           MasksOk(rs, rs_free_mask, rs_ready_mask)
    PROVE  MasksOk(RsAfter(p, v), rs_free_mask, MaskAfter(p, v))
<1> USE Zenon
<1> DEFINE S == RsAfter(p, v)
<1>1. rs_free_mask = {k \in RsIdx : ~S[k].valid}
  BY SMT, Broadcast DEF MasksOk
<1>2. ASSUME NEW eu \in EuTypes, NEW k \in RsIdx
      PROVE  k \in MaskAfter(p, v)[eu] <=> /\ S[k].valid /\ S[k].eu_type = eu
                                           /\ S[k].src1.ready /\ S[k].src2.ready
  <2>1. k \in rs_ready_mask[eu] <=> /\ rs[k].valid /\ rs[k].eu_type = eu
                                    /\ rs[k].src1.ready /\ rs[k].src2.ready
    BY DEF MasksOk
  <2>2. k \in rs_free_mask <=> ~rs[k].valid
    BY DEF MasksOk
  <2>3. CASE ~(p > 0)
    <3>1. S[k] = rs[k] /\ MaskAfter(p, v) = rs_ready_mask
      BY <2>3, Broadcast DEF MaskAfter
    <3> QED BY <2>1, <3>1
  <2>4. CASE p > 0 /\ k \in rs_free_mask
    <3>1. S[k] = rs[k]
      BY <2>4, Broadcast
    <3>2. k \in MaskAfter(p, v)[eu] <=> k \in rs_ready_mask[eu]
      BY <2>4 DEF MaskAfter, ReadyAfter
    <3> QED BY <2>1, <3>1, <3>2
  <2>5. CASE p > 0 /\ k \notin rs_free_mask
    <3>1. S[k] = Woken(p, v)[k]
      BY <2>5 DEF RsAfter
    <3>2. k \in MaskAfter(p, v)[eu] <=>
            \/ k \in rs_ready_mask[eu]
            \/ rs[k].eu_type = eu /\ S[k] # rs[k] /\ S[k].src1.ready /\ S[k].src2.ready
      BY <2>5, <3>1 DEF MaskAfter, ReadyAfter
    <3>3. /\ S[k].valid = rs[k].valid /\ S[k].eu_type = rs[k].eu_type
          /\ rs[k].src1.ready => S[k].src1.ready
          /\ rs[k].src2.ready => S[k].src2.ready
      BY <2>5, Broadcast
    <3>4. CASE S[k] = rs[k]
      BY <2>1, <2>2, <2>5, <3>2, <3>4
    <3>5. CASE S[k] # rs[k]
      BY <2>1, <2>2, <2>5, <3>2, <3>3, <3>5
    <3> QED BY <3>4, <3>5
  <2> QED BY <2>3, <2>4, <2>5
<1>3. MaskAfter(p, v) \in [EuTypes -> SUBSET RsIdx]
  BY WritebackType
<1> HIDE DEF S
<1>4. ASSUME NEW eu \in EuTypes
      PROVE  MaskAfter(p, v)[eu] = {k \in RsIdx : /\ S[k].valid /\ S[k].eu_type = eu
                                                  /\ S[k].src1.ready /\ S[k].src2.ready}
  <2>1. MaskAfter(p, v)[eu] \subseteq RsIdx
    BY <1>3
  <2> QED BY <1>2, <2>1
<1> QED BY <1>1, <1>4 DEF MasksOk, S

(* An executed entry is ready; the others are as they were. *)
LEMMA ExecutedReady ==
    ASSUME TypeOK, NEW i \in RobIdx, NEW ir
    PROVE  /\ Executed(i, ir)[i].ready
           /\ \A j \in RobIdx \ {i} : Executed(i, ir)[j] = rob[j]
<1> USE Zenon
<1>1. rob \in [RobIdx -> RobEntries] /\ rob[i] \in RobEntries
  BY DEF TypeOK
<1>2. Executed(i, ir)[i] = [rob[i] EXCEPT !.ready = TRUE, !.dnpc = ir.dnpc, !.fault = ir.fault]
  BY <1>1 DEF Executed
<1>3. Executed(i, ir)[i].ready = TRUE
  BY <1>1, <1>2 DEF RobEntries
<1>4. \A j \in RobIdx \ {i} : Executed(i, ir)[j] = rob[j]
  BY <1>1 DEF Executed
<1> QED BY <1>3, <1>4

(* The ROB, the register file and the stations between the writeback of the
   instruction in slot i and the flush that may follow. *)
WrittenBack(i, p, v, ir) ==
    LET R == Executed(i, ir)
        f == PrfAfter(p, v)
        S == RsAfter(p, v)
    IN  /\ MasksOk(S, rs_free_mask, MaskAfter(p, v))
        /\ PlainOk(R)
        /\ PrfOk(f, R)
        /\ WaitsOk(S, f, R)
        /\ TagsOk(S, RsIdx, R)
        /\ TagsOk(latch_int, IntSlots, R)
        /\ TagsOk(latch_mul, MulSlots, R)
        /\ Pending(R) = Pending(rob) \ {i}
        /\ \A k \in RsIdx : SlotOf(S[k]) = SlotOf(rs[k])

(* A writeback keeps every part of the invariant: whoever waited for the
   register hears it, and whoever waits still waits for another. *)
LEMMA WriteBack ==
    ASSUME IInv, WInv, NEW i \in RobIdx, rob[i].valid, ~rob[i].ready,
           NEW p, p = rob[i].phys_rd, NEW v \in Words,
           NEW ir, ir.dnpc \in Pcs, ir.fault \in BOOLEAN
    PROVE  WrittenBack(i, p, v, ir)
<1> USE Zenon
<1> DEFINE R == Executed(i, ir)
           f == PrfAfter(p, v)
           S == RsAfter(p, v)
<1>1. TypeOK /\ prf \in [PhysRegs -> [value : Words, ready : BOOLEAN]] /\ rob[i] \in RobEntries
  BY DEF IInv, TypeOK
<1>2. p \in MaybePhys
  BY <1>1 DEF RobEntries
<1>3. \A j \in RobIdx : /\ R[j].valid = rob[j].valid
                        /\ R[j].arch_rd = rob[j].arch_rd
                        /\ R[j].phys_rd = rob[j].phys_rd
  BY SMT, <1>1, ExecutedType
<1>4. R[i].ready /\ \A j \in RobIdx \ {i} : R[j] = rob[j]
  BY <1>1, ExecutedReady
<1> HIDE DEF R
<1>5. WritersOf(R) = Writers
  BY <1>3 DEF WritersOf, Writers
<1>6. i \notin Writers => p \in {0, NoReg}
  BY DEF WInv, PlainOk, Writers
<1>7. \A q \in PhysRegs : f[q] = IF q = p THEN [value |-> v, ready |-> TRUE] ELSE prf[q]
  BY SMT, <1>1, <1>2 DEF PrfAfter, MaybePhys, NoReg, PhysRegs
<1> HIDE DEF f
<1>8. PlainOk(R)
  BY <1>3 DEF WInv, PlainOk
<1>9. PrfOk(f, R)
  <2>1. ASSUME NEW r \in ArchRegs PROVE f[rrat[r]].ready
    <3>1. rrat[r] \in PhysRegs /\ prf[rrat[r]].ready
      BY DEF WInv, PrfOk, IInv, TypeOK
    <3>2. CASE rrat[r] = p
      BY SMT, <1>7, <3>1, <3>2
    <3>3. CASE rrat[r] # p
      BY <1>7, <3>1, <3>3
    <3> QED BY <3>2, <3>3
  <2>2. ASSUME NEW j \in Writers PROVE f[R[j].phys_rd].ready <=> R[j].ready
    <3>1. j \in RobIdx /\ rob[j].phys_rd \in PhysRegs /\ R[j].phys_rd = rob[j].phys_rd
      BY <1>3, WriterFacts
    <3>2. CASE j = i
      <4>1. f[R[j].phys_rd].ready = TRUE
        BY SMT, <1>7, <3>1, <3>2
      <4> QED BY <1>4, <3>2, <4>1
    <3>3. CASE j # i
      <4>1. rob[j].phys_rd # p
        <5>1. CASE i \in Writers
          BY <3>3, <5>1, WriterDest
        <5>2. CASE i \notin Writers
          <6>1. rob[j].phys_rd > 0 /\ rob[j].phys_rd \in Nat
            BY SMT, WriterDest, OooAssumption DEF PhysRegs
          <6> QED BY SMT, <1>6, <5>2, <6>1 DEF NoReg
        <5> QED BY <5>1, <5>2
      <4>2. f[R[j].phys_rd] = prf[rob[j].phys_rd]
        BY <1>7, <3>1, <4>1
      <4>3. prf[rob[j].phys_rd].ready <=> rob[j].ready
        BY DEF WInv, PrfOk, WritersOf, Writers
      <4> QED BY <1>4, <3>1, <3>3, <4>2, <4>3
    <3> QED BY <3>2, <3>3
  <2> QED BY <1>5, <2>1, <2>2 DEF PrfOk
<1>10. MasksOk(S, rs_free_mask, MaskAfter(p, v))
  BY <1>1, <1>2, BroadcastMasks DEF WInv
<1>11. ASSUME NEW k \in RsIdx PROVE S[k].valid = rs[k].valid /\ S[k].rob_idx = rs[k].rob_idx
                                    /\ S[k].phys_rd = rs[k].phys_rd
  BY SMT, <1>1, <1>2, Broadcast
<1>12. WaitsOk(S, f, R)
  <2> SUFFICES ASSUME NEW k \in RsIdx
               PROVE  Waits(S[k], S[k].src1, f, R) /\ Waits(S[k], S[k].src2, f, R)
    BY DEF WaitsOk
  <2>1. ASSUME NEW src \in Sources, NEW src1, Waits(rs[k], src, prf, rob), rs[k].valid,
               ~src1.ready, src1.ptag = src.ptag, ~src.ready, p > 0 => src.ptag # p
        PROVE  Waits(S[k], src1, f, R)
    <3>1. ~prf[src.ptag].ready /\ \E j \in Writers : Produces(j, rs[k], src, rob)
      BY <2>1 DEF Waits, WritersOf, Writers
    <3>2. PICK j \in Writers : Produces(j, rs[k], src, rob)
      BY <3>1
    <3>3. rob[j].phys_rd = src.ptag /\ ~rob[j].ready /\ Age(rs[k].rob_idx) > Age(j)
      BY <3>2 DEF Produces
    <3>4. j \in RobIdx /\ src.ptag \in PhysRegs /\ src.ptag > 0
      BY <3>3, WriterFacts, WriterDest
    <3>5. src.ptag # p
      <4>1. CASE p > 0
        BY <2>1, <4>1
      <4>2. CASE ~(p > 0)
        BY <3>4, <4>2
      <4> QED BY <4>1, <4>2
    <3>6. j # i
      BY <3>3, <3>5
    <3>7. R[j] = rob[j]
      BY <1>4, <3>4, <3>6
    <3>8. ~f[src1.ptag].ready
      BY <1>7, <2>1, <3>1, <3>4, <3>5
    <3>9. Produces(j, S[k], src1, R)
      BY <1>11, <2>1, <3>3, <3>7 DEF Produces
    <3> QED BY <1>5, <3>8, <3>9 DEF Waits
  <2>2. rs[k] \in RsEntries /\ rs[k].src1 \in Sources /\ rs[k].src2 \in Sources
    BY DEF IInv, TypeOK, RsEntries
  <2>3. Waits(rs[k], rs[k].src1, prf, rob) /\ Waits(rs[k], rs[k].src2, prf, rob)
    BY DEF WInv, WaitsOk
  <2>4. k \in rs_free_mask <=> ~rs[k].valid
    BY DEF WInv, MasksOk
  <2>5. Waits(S[k], S[k].src1, f, R)
    <3> SUFFICES ASSUME S[k].valid, ~S[k].src1.ready PROVE Waits(S[k], S[k].src1, f, R)
      BY DEF Waits
    <3>1. rs[k].valid /\ k \notin rs_free_mask
      BY <1>11, <2>4
    <3>2. ~rs[k].src1.ready /\ S[k].src1.ptag = rs[k].src1.ptag /\ (p > 0 => rs[k].src1.ptag # p)
      <4>1. S[k].src1.ptag = rs[k].src1.ptag
        BY <1>1, <1>2, Broadcast
      <4>2. CASE p > 0
        <5>1. S[k].src1.ready <=> rs[k].src1.ready \/ Heard(rs[k].src1, p)
          BY <1>1, <1>2, <3>1, <4>2, Broadcast
        <5> QED BY <4>1, <5>1 DEF Heard
      <4>3. CASE ~(p > 0)
        <5>1. S[k] = rs[k]
          BY SMT, <1>1, <1>2, <4>3, Broadcast
        <5> QED BY <4>1, <4>3, <5>1
      <4> QED BY <4>2, <4>3
    <3> HIDE DEF S
    <3> QED BY <2>1, <2>2, <2>3, <3>1, <3>2
  <2>6. Waits(S[k], S[k].src2, f, R)
    <3> SUFFICES ASSUME S[k].valid, ~S[k].src2.ready PROVE Waits(S[k], S[k].src2, f, R)
      BY DEF Waits
    <3>1. rs[k].valid /\ k \notin rs_free_mask
      BY <1>11, <2>4
    <3>2. ~rs[k].src2.ready /\ S[k].src2.ptag = rs[k].src2.ptag /\ (p > 0 => rs[k].src2.ptag # p)
      <4>1. S[k].src2.ptag = rs[k].src2.ptag
        BY <1>1, <1>2, Broadcast
      <4>2. CASE p > 0
        <5>1. S[k].src2.ready <=> rs[k].src2.ready \/ Heard(rs[k].src2, p)
          BY <1>1, <1>2, <3>1, <4>2, Broadcast
        <5> QED BY <4>1, <5>1 DEF Heard
      <4>3. CASE ~(p > 0)
        <5>1. S[k] = rs[k]
          BY SMT, <1>1, <1>2, <4>3, Broadcast
        <5> QED BY <4>1, <4>3, <5>1
      <4> QED BY <4>2, <4>3
    <3> HIDE DEF S
    <3> QED BY <2>1, <2>2, <2>3, <3>1, <3>2
  <2> QED BY <2>5, <2>6
<1>13. TagsOk(S, RsIdx, R)
  <2>1. \A k \in RsIdx : rs[k].rob_idx \in RobIdx
    BY DEF IInv, TypeOK, RsEntries
  <2> HIDE DEF S
  <2> QED BY SMT, <1>3, <1>11, <2>1 DEF WInv, TagsOk
<1>14. TagsOk(latch_int, IntSlots, R)
  <2>1. \A k \in IntSlots : latch_int[k].rob_idx \in RobIdx
    BY DEF IInv, TypeOK, Latches
  <2> QED BY <1>3, <2>1 DEF WInv, TagsOk
<1>15. TagsOk(latch_mul, MulSlots, R)
  <2>1. \A k \in MulSlots : latch_mul[k].rob_idx \in RobIdx
    BY DEF IInv, TypeOK, Latches
  <2> QED BY <1>3, <2>1 DEF WInv, TagsOk
<1>16. Pending(R) = Pending(rob) \ {i}
  BY <1>3, <1>4 DEF Pending
<1>17. \A k \in RsIdx : SlotOf(S[k]) = SlotOf(rs[k])
  BY <1>11 DEF SlotOf
<1> HIDE DEF S
<1> QED BY <1>8, <1>9, <1>10, <1>12, <1>13, <1>14, <1>15, <1>16, <1>17 DEF WrittenBack, R, f, S

-----------------------------------------------------------------------------
(* A station or latch holds an instruction that has not executed. *)
LEMMA HeldPending ==
    ASSUME TypeOK, WInv
    PROVE  /\ \A k \in RsIdx : rs[k].valid => rs[k].rob_idx \in Pending(rob)
           /\ \A k \in IntSlots : latch_int[k].valid => latch_int[k].rob_idx \in Pending(rob)
           /\ \A k \in MulSlots : latch_mul[k].valid => latch_mul[k].rob_idx \in Pending(rob)
<1> USE Zenon
<1> DEFINE w == Where(rs, latch_int, latch_mul)
<1>1. \A h \in Places : w[h] # Empty => w[h] \in Pending(rob)
  BY DEF WInv, Matched
<1>2. ASSUME NEW k \in RsIdx, rs[k].valid PROVE rs[k].rob_idx \in Pending(rob)
  <2>1. <<"rs", k>> \in Places /\ w[<<"rs", k>>] = rs[k].rob_idx
    BY SMT, <1>2, WhereAt DEF SlotOf
  <2> QED BY <1>1, <2>1, HeldSlots
<1>3. ASSUME NEW k \in IntSlots, latch_int[k].valid PROVE latch_int[k].rob_idx \in Pending(rob)
  <2>1. <<"int", k>> \in Places /\ w[<<"int", k>>] = latch_int[k].rob_idx
    BY SMT, <1>3, WhereAt DEF SlotOf
  <2> QED BY <1>1, <2>1, HeldSlots
<1>4. ASSUME NEW k \in MulSlots, latch_mul[k].valid PROVE latch_mul[k].rob_idx \in Pending(rob)
  <2>1. <<"mul", k>> \in Places /\ w[<<"mul", k>>] = latch_mul[k].rob_idx
    BY SMT, <1>4, WhereAt DEF SlotOf
  <2> QED BY <1>1, <2>1, HeldSlots
<1> QED BY <1>2, <1>3, <1>4

(* The parts of the invariant read these variables only. *)
LEMMA WFrame ==
    ASSUME WInv, UNCHANGED <<rs, rs_free_mask, rs_ready_mask, rob, rob_head, prf, rrat,
                             latch_int, latch_mul>>
    PROVE  WInv'
<1> USE Zenon
<1>1. \A i : Age(i)' = Age(i)
  BY DEF Age
<1>2. WaitsOk(rs, prf, rob)'
  BY <1>1 DEF WInv, WaitsOk, Waits, Produces, WritersOf
<1>3. PrfOk(prf, rob)' /\ PlainOk(rob)' /\ MasksOk(rs, rs_free_mask, rs_ready_mask)'
  BY DEF WInv, PrfOk, PlainOk, MasksOk, WritersOf
<1>4. TagsOk(rs, RsIdx, rob)' /\ TagsOk(latch_int, IntSlots, rob)' /\ TagsOk(latch_mul, MulSlots, rob)'
  BY DEF WInv, TagsOk
<1>5. Matched(Where(rs, latch_int, latch_mul), Pending(rob))'
  BY DEF WInv
<1> QED BY <1>2, <1>3, <1>4, <1>5 DEF WInv

(* Freeing a station keeps what is said of the stations. *)
LEMMA StationFreed ==
    ASSUME IInv, WInv, NEW k \in RsIdx, rs[k].valid, FreeStation(k),
           UNCHANGED <<rob, rob_head, prf, rrat>>
    PROVE  /\ MasksOk(rs, rs_free_mask, rs_ready_mask)'
           /\ WaitsOk(rs, prf, rob)'
           /\ TagsOk(rs, RsIdx, rob)'
           /\ PlainOk(rob)' /\ PrfOk(prf, rob)'
           /\ rs'[k] = NoRs /\ \A l \in RsIdx \ {k} : rs'[l] = rs[l]
<1> USE Zenon
<1>1. TypeOK
  BY DEF IInv
<1>2. rs'[k] = NoRs /\ \A l \in RsIdx \ {k} : rs'[l] = rs[l]
  BY <1>1 DEF TypeOK, FreeStation
<1>3. ~NoRs.valid
  BY DEF NoRs
<1>4. rs_free_mask' = {l \in RsIdx : ~rs'[l].valid}
  BY <1>2, <1>3 DEF WInv, MasksOk, FreeStation
<1>5. ASSUME NEW eu \in EuTypes
      PROVE  rs_ready_mask'[eu] = {l \in RsIdx : /\ rs'[l].valid /\ rs'[l].eu_type = eu
                                                 /\ rs'[l].src1.ready /\ rs'[l].src2.ready}
  <2>1. rs_ready_mask[eu] = {l \in RsIdx : /\ rs[l].valid /\ rs[l].eu_type = eu
                                           /\ rs[l].src1.ready /\ rs[l].src2.ready}
    BY DEF WInv, MasksOk
  <2>2. rs_ready_mask'[eu] = rs_ready_mask[eu] \ {k}
    <3>1. rs_ready_mask \in [EuTypes -> SUBSET RsIdx] /\ rs[k].eu_type \in EuTypes
      BY <1>1 DEF TypeOK, RsEntries
    <3>2. CASE eu = rs[k].eu_type
      BY <3>1, <3>2 DEF FreeStation
    <3>3. CASE eu # rs[k].eu_type
      <4>1. rs_ready_mask'[eu] = rs_ready_mask[eu]
        BY <3>1, <3>3 DEF FreeStation
      <4>2. k \notin rs_ready_mask[eu]
        BY <2>1, <3>3
      <4> QED BY <4>1, <4>2
    <3> QED BY <3>2, <3>3
  <2>3. ASSUME NEW l \in RsIdx
        PROVE  l \in rs_ready_mask'[eu] <=> /\ rs'[l].valid /\ rs'[l].eu_type = eu
                                            /\ rs'[l].src1.ready /\ rs'[l].src2.ready
    <3>1. CASE l = k
      BY <1>2, <1>3, <2>2, <3>1
    <3>2. CASE l # k
      <4>1. rs'[l] = rs[l]
        BY <1>2, <3>2
      <4> QED BY <2>1, <2>2, <3>2, <4>1
    <3> QED BY <3>1, <3>2
  <2>4. rs_ready_mask'[eu] \subseteq RsIdx
    BY <2>1, <2>2
  <2> QED BY <2>3, <2>4
<1>6. MasksOk(rs, rs_free_mask, rs_ready_mask)'
  BY <1>4, <1>5 DEF MasksOk
<1>7. WaitsOk(rs, prf, rob)'
  <2>1. \A i : Age(i)' = Age(i)
    BY DEF Age
  <2>2. ASSUME NEW l \in RsIdx
        PROVE  Waits(rs[l], rs[l].src1, prf, rob)' /\ Waits(rs[l], rs[l].src2, prf, rob)'
    <3>1. CASE l = k
      BY <1>2, <1>3, <3>1 DEF Waits
    <3>2. CASE l # k
      <4>1. rs'[l] = rs[l]
        BY <1>2, <3>2
      <4>2. Waits(rs[l], rs[l].src1, prf, rob) /\ Waits(rs[l], rs[l].src2, prf, rob)
        BY DEF WInv, WaitsOk
      <4> QED BY <2>1, <4>1, <4>2 DEF Waits, Produces, WritersOf
    <3> QED BY <3>1, <3>2
  <2> QED BY <2>2 DEF WaitsOk
<1>8. TagsOk(rs, RsIdx, rob)'
  BY SMT, <1>2, <1>3 DEF WInv, TagsOk
<1>9. PlainOk(rob)' /\ PrfOk(prf, rob)'
  BY DEF WInv, PlainOk, PrfOk, WritersOf
<1> QED BY <1>2, <1>6, <1>7, <1>8, <1>9

(* What is in a slot that is empty. *)
LEMMA EmptySlots == SlotOf(NoRs) = Empty /\ SlotOf(NoLatch) = Empty
BY Zenon DEF SlotOf, NoRs, NoLatch

(* Issue moves an instruction from its station to a free slot of a unit. *)
Issued(k, l) == /\ l.valid /\ l.rob_idx = rs[k].rob_idx /\ l.phys_rd = rs[k].phys_rd
                /\ SlotOf(l) = SlotOf(rs[k]) /\ SlotOf(rs[k]) # Empty

(* A latch is filled with the slot and the register of its station. *)
LEMMA LatchIssued == ASSUME TypeOK, NEW k \in RsIdx, rs[k].valid PROVE Issued(k, LatchFrom(k))
<1> USE Zenon
<1>1. LatchFrom(k).valid /\ LatchFrom(k).rob_idx = rs[k].rob_idx /\ LatchFrom(k).phys_rd = rs[k].phys_rd
  BY DEF LatchFrom
<1>2. SlotOf(LatchFrom(k)) = rs[k].rob_idx
  BY <1>1 DEF SlotOf
<1>3. SlotOf(rs[k]) = rs[k].rob_idx
  BY DEF SlotOf
<1>4. SlotOf(rs[k]) # Empty
  BY HeldSlots
<1> QED BY <1>1, <1>2, <1>3, <1>4 DEF Issued

(* Issue to the INT units: the instruction changes its place. *)
LEMMA IssueIntW == ASSUME IInv, WInv, NEW s \in IntSlots, IssueInt(s) PROVE WInv'
<1> USE Zenon
<1>1. PICK k \in RsIdx : /\ k \in rs_ready_mask["INT"]
                         /\ latch_int' = [latch_int EXCEPT ![s] = LatchFrom(k)]
                         /\ FreeStation(k)
  BY DEF IssueInt, OldestReady
<1>2. ~latch_int[s].valid /\ UNCHANGED <<rob, rob_head, prf, rrat, latch_mul>>
  BY DEF IssueInt, robVars, renameVars
<1>3. TypeOK /\ latch_int \in [IntSlots -> Latches]
  BY DEF IInv, TypeOK
<1>4. rs[k].valid
  BY <1>1 DEF WInv, MasksOk, EuTypes
<1>5. /\ MasksOk(rs, rs_free_mask, rs_ready_mask)' /\ WaitsOk(rs, prf, rob)'
      /\ TagsOk(rs, RsIdx, rob)' /\ PlainOk(rob)' /\ PrfOk(prf, rob)'
      /\ rs'[k] = NoRs /\ \A l \in RsIdx \ {k} : rs'[l] = rs[l]
  <2>1. FreeStation(k) /\ UNCHANGED <<rob, rob_head, prf, rrat>>
    BY <1>1, <1>2
  <2> QED BY <1>4, <2>1, StationFreed
<1> PICK S2 : S2 = rs'
  OBVIOUS
<1> PICK L2 : L2 = latch_int'
  OBVIOUS
<1> PICK l : l = LatchFrom(k)
  OBVIOUS
<1>6. L2[s] = l /\ \A t \in IntSlots \ {s} : L2[t] = latch_int[t]
  BY <1>1, <1>3
<1>7. Issued(k, l)
  BY <1>3, <1>4, LatchIssued
<1>8. TagsOk(latch_int, IntSlots, rob)'
  <2>1. l.phys_rd = rob[l.rob_idx].phys_rd
    BY <1>4, <1>7 DEF WInv, TagsOk, Issued
  <2>2. \A t \in IntSlots : L2[t].valid => L2[t].phys_rd = rob[L2[t].rob_idx].phys_rd
    BY <1>6, <2>1 DEF WInv, TagsOk
  <2> QED BY <1>2, <2>2 DEF TagsOk
<1>9. TagsOk(latch_mul, MulSlots, rob)'
  BY <1>2 DEF WInv, TagsOk
<1> DEFINE w == Where(rs, latch_int, latch_mul)
           w2 == Where(S2, L2, latch_mul)
           g == <<"rs", k>>
           h == <<"int", s>>
<1>10. Matched(w2, Pending(rob))
  <2>1. g \in Places /\ h \in Places /\ w[g] = SlotOf(rs[k]) /\ w[h] = SlotOf(latch_int[s])
    BY SMT, WhereAt
  <2>2. w2[g] = SlotOf(S2[k]) /\ w2[h] = SlotOf(L2[s])
    BY SMT, WhereAt
  <2>3. w[g] # Empty /\ w[h] = Empty
    BY <1>2, <1>3, <1>4, <2>1, HeldSlots
  <2>4. w2[g] = Empty
    BY <1>5, <2>2, EmptySlots
  <2>5. w2[h] = w[g]
    BY <1>6, <1>7, <2>1, <2>2 DEF Issued
  <2>6. ASSUME NEW j \in Places \ {g, h} PROVE w2[j] = w[j]
    <3>1. \A i \in RsIdx : j = <<"rs", i>> => SlotOf(S2[i]) = SlotOf(rs[i])
      BY <1>5, <2>6
    <3>2. \A i \in IntSlots : j = <<"int", i>> => SlotOf(L2[i]) = SlotOf(latch_int[i])
      BY <1>6, <2>6
    <3>3. SameAt(j, rs, latch_int, latch_mul, S2, L2, latch_mul)
      BY <3>1, <3>2 DEF SameAt
    <3>4. j \in Places
      BY <2>6
    <3> HIDE DEF g, h
    <3> QED BY SMT, <3>3, <3>4, WhereSame
  <2>7. Matched(w, Pending(rob))
    BY DEF WInv
  <2> HIDE DEF w, w2, g, h
  <2> QED BY <2>1, <2>3, <2>4, <2>5, <2>6, <2>7, MatchedMove
<1>11. Pending(rob)' = Pending(rob)
  BY <1>2 DEF Pending
<1>12. Matched(Where(rs, latch_int, latch_mul), Pending(rob))'
  <2>1. Matched(Where(rs', latch_int', latch_mul'), Pending(rob)')
    BY <1>2, <1>10, <1>11
  <2> QED BY <2>1 DEF Matched
<1> QED BY <1>5, <1>8, <1>9, <1>12 DEF WInv

(* The same for the MUL unit. *)
LEMMA IssueMulW == ASSUME IInv, WInv, NEW s \in MulSlots, IssueMul(s) PROVE WInv'
<1> USE Zenon
<1>1. PICK k \in RsIdx : /\ k \in rs_ready_mask["MUL"]
                         /\ latch_mul' = [latch_mul EXCEPT ![s] = LatchFrom(k)]
                         /\ FreeStation(k)
  BY DEF IssueMul, OldestReady
<1>2. ~latch_mul[s].valid /\ UNCHANGED <<rob, rob_head, prf, rrat, latch_int>>
  BY DEF IssueMul, robVars, renameVars
<1>3. TypeOK /\ latch_mul \in [MulSlots -> Latches]
  BY DEF IInv, TypeOK
<1>4. rs[k].valid
  BY <1>1 DEF WInv, MasksOk, EuTypes
<1>5. /\ MasksOk(rs, rs_free_mask, rs_ready_mask)' /\ WaitsOk(rs, prf, rob)'
      /\ TagsOk(rs, RsIdx, rob)' /\ PlainOk(rob)' /\ PrfOk(prf, rob)'
      /\ rs'[k] = NoRs /\ \A l \in RsIdx \ {k} : rs'[l] = rs[l]
  <2>1. FreeStation(k) /\ UNCHANGED <<rob, rob_head, prf, rrat>>
    BY <1>1, <1>2
  <2> QED BY <1>4, <2>1, StationFreed
<1> PICK S2 : S2 = rs'
  OBVIOUS
<1> PICK L2 : L2 = latch_mul'
  OBVIOUS
<1> PICK l : l = LatchFrom(k)
  OBVIOUS
<1>6. L2[s] = l /\ \A t \in MulSlots \ {s} : L2[t] = latch_mul[t]
  BY <1>1, <1>3
<1>7. Issued(k, l)
  BY <1>3, <1>4, LatchIssued
<1>8. TagsOk(latch_mul, MulSlots, rob)'
  <2>1. l.phys_rd = rob[l.rob_idx].phys_rd
    BY <1>4, <1>7 DEF WInv, TagsOk, Issued
  <2>2. \A t \in MulSlots : L2[t].valid => L2[t].phys_rd = rob[L2[t].rob_idx].phys_rd
    BY <1>6, <2>1 DEF WInv, TagsOk
  <2> QED BY <1>2, <2>2 DEF TagsOk
<1>9. TagsOk(latch_int, IntSlots, rob)'
  BY <1>2 DEF WInv, TagsOk
<1> DEFINE w == Where(rs, latch_int, latch_mul)
           w2 == Where(S2, latch_int, L2)
           g == <<"rs", k>>
           h == <<"mul", s>>
<1>10. Matched(w2, Pending(rob))
  <2>1. g \in Places /\ h \in Places /\ w[g] = SlotOf(rs[k]) /\ w[h] = SlotOf(latch_mul[s])
    BY SMT, WhereAt
  <2>2. w2[g] = SlotOf(S2[k]) /\ w2[h] = SlotOf(L2[s])
    BY SMT, WhereAt
  <2>3. w[g] # Empty /\ w[h] = Empty
    BY <1>2, <1>3, <1>4, <2>1, HeldSlots
  <2>4. w2[g] = Empty
    BY <1>5, <2>2, EmptySlots
  <2>5. w2[h] = w[g]
    BY <1>6, <1>7, <2>1, <2>2 DEF Issued
  <2>6. ASSUME NEW j \in Places \ {g, h} PROVE w2[j] = w[j]
    <3>1. \A i \in RsIdx : j = <<"rs", i>> => SlotOf(S2[i]) = SlotOf(rs[i])
      BY <1>5, <2>6
    <3>2. \A i \in MulSlots : j = <<"mul", i>> => SlotOf(L2[i]) = SlotOf(latch_mul[i])
      BY <1>6, <2>6
    <3>3. SameAt(j, rs, latch_int, latch_mul, S2, latch_int, L2)
      BY <3>1, <3>2 DEF SameAt
    <3>4. j \in Places
      BY <2>6
    <3> HIDE DEF g, h
    <3> QED BY SMT, <3>3, <3>4, WhereSame
  <2>7. Matched(w, Pending(rob))
    BY DEF WInv
  <2> HIDE DEF w, w2, g, h
  <2> QED BY <2>1, <2>3, <2>4, <2>5, <2>6, <2>7, MatchedMove
<1>11. Pending(rob)' = Pending(rob)
  BY <1>2 DEF Pending
<1>12. Matched(Where(rs, latch_int, latch_mul), Pending(rob))'
  <2>1. Matched(Where(rs', latch_int', latch_mul'), Pending(rob)')
    BY <1>2, <1>10, <1>11
  <2> QED BY <2>1 DEF Matched
<1> QED BY <1>5, <1>8, <1>9, <1>12 DEF WInv

(* They are the next state of a step that moves neither rob_head nor the rrat. *)
LEMMA WNext ==
    ASSUME NEW S, NEW free, NEW mask, NEW R, NEW f, NEW L, NEW M,
           rs' = S, rs_free_mask' = free, rs_ready_mask' = mask, rob' = R, prf' = f,
           latch_int' = L, latch_mul' = M, UNCHANGED <<rrat, rob_head>>,
           Scheduled(S, free, mask, R, f, L, M)
    PROVE  WInv'
<1> USE Zenon
<1>0. /\ MasksOk(S, free, mask) /\ PlainOk(R) /\ PrfOk(f, R) /\ WaitsOk(S, f, R)
      /\ TagsOk(S, RsIdx, R) /\ TagsOk(L, IntSlots, R) /\ TagsOk(M, MulSlots, R)
      /\ Matched(Where(S, L, M), Pending(R))
  BY DEF Scheduled
<1>1. \A i : Age(i)' = Age(i)
  BY DEF Age
<1>2. WaitsOk(rs, prf, rob)'
  BY <1>0, <1>1 DEF WaitsOk, Waits, Produces, WritersOf
<1>3. PrfOk(prf, rob)'
  BY <1>0 DEF PrfOk, WritersOf
<1>4. PlainOk(rob)' /\ MasksOk(rs, rs_free_mask, rs_ready_mask)'
  BY <1>0 DEF PlainOk, MasksOk
<1>5. TagsOk(rs, RsIdx, rob)' /\ TagsOk(latch_int, IntSlots, rob)' /\ TagsOk(latch_mul, MulSlots, rob)'
  BY <1>0 DEF TagsOk
<1>6. Matched(Where(rs, latch_int, latch_mul), Pending(rob))'
  <2>1. Matched(Where(rs', latch_int', latch_mul'), Pending(rob'))
    BY <1>0
  <2> QED BY <2>1 DEF Matched, Pending
<1> QED BY <1>2, <1>3, <1>4, <1>5, <1>6 DEF WInv

-----------------------------------------------------------------------------
(* Commit retires an instruction that has executed, so none that anything
   waits for. *)
LEMMA CommitW == ASSUME IInv, WInv, ooo_stage_commit PROVE WInv'
<1> USE Zenon
<1> PICK h : h = rob_head
  OBVIOUS
<1> PICK e : e = rob[h]
  OBVIOUS
<1>1. TypeOK /\ h \in RobIdx /\ e \in RobEntries
  BY DEF IInv, TypeOK
<1>2. /\ e.valid /\ e.ready /\ CommitDest(e)
      /\ rob' = [rob EXCEPT ![h] = NoEntry] /\ rob_head' = Inc(h)
      /\ UNCHANGED <<rs, rs_free_mask, rs_ready_mask, latch_int, latch_mul>>
  BY DEF ooo_stage_commit, HeadReady, rsVars
<1>3. /\ \A i \in RobIdx : Age(i) \in 0 .. ROB_SIZE - 1
      /\ \A i \in RobIdx \ {h} : Age(i)' = Age(i) - 1
  BY SMT, <1>1, <1>2, AgeBijective, OooAssumption DEF Age, RobIdx, Inc
<1>4. ~rob'[h].valid /\ \A i \in RobIdx \ {h} : rob'[i] = rob[i]
  BY <1>1, <1>2 DEF NoEntry, TypeOK
<1>5. WritersOf(rob)' = Writers \ {h} /\ WritersOf(rob) = Writers
  BY <1>4 DEF Writers, WritersOf
<1>6. Pending(rob)' = Pending(rob) /\ Pending(rob) \subseteq RobIdx \ {h}
  BY <1>2, <1>4 DEF Pending
<1>7. /\ \A r \in ArchRegs : prf'[rrat'[r]].ready
      /\ \A i \in Writers \ {h} : prf'[rob[i].phys_rd].ready <=> prf[rob[i].phys_rd].ready
      /\ \A p \in PhysRegs : prf'[p].ready => prf[p].ready
  <2>1. CASE ~Renames(e.arch_rd)
    <3>1. prf' = prf /\ rrat' = rrat
      BY <1>2, <2>1 DEF CommitDest
    <3> QED BY <3>1 DEF WInv, PrfOk
  <2>2. CASE Renames(e.arch_rd)
    <3> PICK new : new = e.phys_rd
      OBVIOUS
    <3> PICK old : old = e.old_phys
      OBVIOUS
    <3> PICK a : a = e.arch_rd
      OBVIOUS
    <3>1. h \in Writers
      BY <1>1, <1>2, <2>2 DEF Writers
    <3>2. a \in ArchRegs /\ MapsTo(a, Age(h), old) /\ new \in PhysRegs
      BY <3>1, WriterFacts
    <3>3. old = rrat[a]
      <4>1. Age(h) = 0
        BY SMT, <1>1, OooAssumption DEF Age, RobIdx
      <4> QED BY SMT, <1>3, <3>2, <4>1 DEF MapsTo
    <3>4. /\ rrat \in [ArchRegs -> PhysRegs] /\ old \in PhysRegs
          /\ prf \in [PhysRegs -> [value : Words, ready : BOOLEAN]]
      BY <1>1, <3>2, <3>3 DEF TypeOK
    <3>5. rrat' = [rrat EXCEPT ![a] = new] /\ prf' = [prf EXCEPT ![old].ready = FALSE]
      BY <1>2, <2>2 DEF CommitDest
    <3>6. ~prf'[old].ready /\ \A p \in PhysRegs \ {old} : prf'[p] = prf[p]
      BY <3>4, <3>5
    <3>7. rrat'[a] = new /\ \A r \in ArchRegs \ {a} : rrat'[r] = rrat[r]
      BY <3>2, <3>4, <3>5
    <3>8. new # old /\ prf[new].ready
      <4>1. new # old
        BY <3>1, <3>2, <3>3, WriterDest
      <4>2. prf[rob[h].phys_rd].ready <=> rob[h].ready
        BY <1>5, <3>1 DEF WInv, PrfOk
      <4> QED BY <1>2, <4>1, <4>2
    <3>9. \A r \in ArchRegs \ {a} : rrat[r] # old /\ rrat[r] \in PhysRegs /\ prf[rrat[r]].ready
      <4>1. \A q, r \in ArchRegs : rrat[q] = rrat[r] => q = r
        BY DEF IInv, RegPartition
      <4>2. \A r \in ArchRegs : prf[rrat[r]].ready
        BY DEF WInv, PrfOk
      <4> QED BY <3>2, <3>3, <3>4, <4>1, <4>2
    <3>10. \A i \in Writers : rob[i].phys_rd # old /\ rob[i].phys_rd \in PhysRegs
      BY <3>2, <3>3, WriterDest
    <3>11. \A r \in ArchRegs : prf'[rrat'[r]].ready
      BY SMT, <3>2, <3>6, <3>7, <3>8, <3>9
    <3>12. \A i \in Writers : prf'[rob[i].phys_rd] = prf[rob[i].phys_rd]
      BY <3>6, <3>10
    <3> QED BY <3>6, <3>11, <3>12
  <2> QED BY <2>1, <2>2
<1>8. MasksOk(rs, rs_free_mask, rs_ready_mask)'
  BY <1>2 DEF WInv, MasksOk
<1>9. PlainOk(rob)'
  BY <1>4 DEF WInv, PlainOk
<1>10. PrfOk(prf, rob)'
  <2>1. ASSUME NEW i \in Writers \ {h} PROVE prf'[rob'[i].phys_rd].ready <=> rob'[i].ready
    <3>1. i \in RobIdx \ {h} /\ i \in WritersOf(rob)
      BY <1>5 DEF Writers
    <3>2. rob'[i] = rob[i] /\ (prf[rob[i].phys_rd].ready <=> rob[i].ready)
      BY <1>4, <3>1 DEF WInv, PrfOk
    <3> QED BY <1>7, <2>1, <3>2
  <2> QED BY <1>5, <1>7, <2>1 DEF PrfOk
<1>11. /\ \A k \in RsIdx : rs[k].valid => rs[k].rob_idx \in RobIdx \ {h}
       /\ \A k \in IntSlots : latch_int[k].valid => latch_int[k].rob_idx \in RobIdx \ {h}
       /\ \A k \in MulSlots : latch_mul[k].valid => latch_mul[k].rob_idx \in RobIdx \ {h}
  BY <1>1, <1>6, HeldPending
<1>12. WaitsOk(rs, prf, rob)'
  <2>1. ASSUME NEW k \in RsIdx, NEW src, src.ptag \in PhysRegs, Waits(rs[k], src, prf, rob),
               rs[k].valid, ~src.ready
        PROVE  ~prf'[src.ptag].ready /\ \E i \in Writers \ {h} : Produces(i, rs[k], src, rob)'
    <3>1. ~prf[src.ptag].ready
      BY <2>1 DEF Waits
    <3>2. PICK i \in Writers : Produces(i, rs[k], src, rob)
      BY <1>5, <2>1 DEF Waits
    <3>3. i \in RobIdx /\ i # h
      BY <1>2, <3>2 DEF Writers, Produces
    <3>4. rob'[i] = rob[i] /\ rs'[k] = rs[k]
      BY <1>2, <1>4, <3>3
    <3>5. Age(rs[k].rob_idx)' = Age(rs[k].rob_idx) - 1 /\ Age(i)' = Age(i) - 1
      BY <1>2, <1>3, <1>11, <2>1, <3>3
    <3>6. Age(rs[k].rob_idx) > Age(i) /\ Age(rs[k].rob_idx) \in Int /\ Age(i) \in Int
      BY SMT, <1>3, <1>11, <2>1, <3>2, <3>3 DEF Produces
    <3>7. Age(rs[k].rob_idx)' > Age(i)'
      BY SMT, <3>5, <3>6
    <3>8. Produces(i, rs[k], src, rob)'
      BY <3>2, <3>4, <3>7 DEF Produces
    <3> QED BY <1>7, <2>1, <3>1, <3>3, <3>8
  <2>2. ASSUME NEW k \in RsIdx, NEW src, src.ptag \in PhysRegs, Waits(rs[k], src, prf, rob)
        PROVE  Waits(rs[k], src, prf, rob)'
    <3>1. rs'[k] = rs[k]
      BY <1>2
    <3>2. CASE rs[k].valid /\ ~src.ready
      BY <1>5, <2>1, <2>2, <3>2 DEF Waits
    <3>3. CASE ~(rs[k].valid /\ ~src.ready)
      BY <3>1, <3>3 DEF Waits
    <3> QED BY <3>2, <3>3
  <2>3. ASSUME NEW k \in RsIdx PROVE Waits(rs[k], rs[k].src1, prf, rob)' /\ Waits(rs[k], rs[k].src2, prf, rob)'
    <3> PICK s1 : s1 = rs[k].src1
      OBVIOUS
    <3> PICK s2 : s2 = rs[k].src2
      OBVIOUS
    <3>1. Waits(rs[k], s1, prf, rob) /\ Waits(rs[k], s2, prf, rob)
      BY DEF WInv, WaitsOk
    <3>2. s1.ptag \in PhysRegs /\ s2.ptag \in PhysRegs
      BY <1>1 DEF TypeOK, RsEntries, Sources
    <3>3. Waits(rs[k], s1, prf, rob)' /\ Waits(rs[k], s2, prf, rob)'
      BY <2>2, <3>1, <3>2
    <3>4. rs'[k].src1 = s1 /\ rs'[k].src2 = s2
      BY <1>2
    <3> QED BY <3>3, <3>4
  <2> QED BY <2>3 DEF WaitsOk
<1>13. TagsOk(rs, RsIdx, rob)' /\ TagsOk(latch_int, IntSlots, rob)' /\ TagsOk(latch_mul, MulSlots, rob)'
  <2>1. TagsOk(rs, RsIdx, rob) /\ TagsOk(latch_int, IntSlots, rob) /\ TagsOk(latch_mul, MulSlots, rob)
    BY DEF WInv
  <2>2. TagsOk(rs, RsIdx, rob)'
    BY SMTT(20), <1>2, <1>4, <1>11, <2>1 DEF TagsOk
  <2>3. TagsOk(latch_int, IntSlots, rob)'
    BY SMT, <1>2, <1>4, <1>11, <2>1 DEF TagsOk
  <2>4. TagsOk(latch_mul, MulSlots, rob)'
    BY SMT, <1>2, <1>4, <1>11, <2>1 DEF TagsOk
  <2> QED BY <2>2, <2>3, <2>4
<1>14. Matched(Where(rs, latch_int, latch_mul), Pending(rob))'
  BY <1>2, <1>6 DEF WInv
<1> QED BY <1>8, <1>9, <1>10, <1>12, <1>13, <1>14 DEF WInv

(* The scheduler starts empty. *)
LEMMA InitW == ASSUME Init PROVE WInv
<1> USE Zenon
<1>1. /\ \A k \in RsIdx : rs[k] = NoRs
      /\ \A s \in IntSlots : latch_int[s] = NoLatch
      /\ \A s \in MulSlots : latch_mul[s] = NoLatch
      /\ \A i \in RobIdx : rob[i] = NoEntry
  BY DEF Init
<1>2. ~NoRs.valid /\ ~NoLatch.valid /\ ~NoEntry.valid
  BY DEF NoRs, NoLatch, NoEntry
<1>3. MasksOk(rs, rs_free_mask, rs_ready_mask)
  <2>1. rs_free_mask = {k \in RsIdx : ~rs[k].valid}
    BY <1>1, <1>2 DEF Init
  <2>2. \A eu \in EuTypes : rs_ready_mask[eu] = {}
    BY DEF Init
  <2> QED BY <1>1, <1>2, <2>1, <2>2 DEF MasksOk
<1>4. PlainOk(rob) /\ WritersOf(rob) = {} /\ Pending(rob) = {}
  BY <1>1, <1>2 DEF PlainOk, WritersOf, Pending
<1>5. PrfOk(prf, rob)
  <2>1. \A r \in ArchRegs : rrat[r] = r /\ r \in PhysRegs
    BY SMT, IsaAssumption, OooAssumption DEF Init, ArchRegs, PhysRegs
  <2>2. \A p \in PhysRegs : prf[p].ready
    BY DEF Init
  <2> QED BY <1>4, <2>1, <2>2 DEF PrfOk
<1>6. WaitsOk(rs, prf, rob)
  BY <1>1, <1>2 DEF WaitsOk, Waits
<1>7. TagsOk(rs, RsIdx, rob) /\ TagsOk(latch_int, IntSlots, rob) /\ TagsOk(latch_mul, MulSlots, rob)
  BY <1>1, <1>2 DEF TagsOk
<1>8. \A h \in Places : Where(rs, latch_int, latch_mul)[h] = Empty
  BY SMT, <1>1, WhereAt, EmptySlots
<1>9. Matched(Where(rs, latch_int, latch_mul), Pending(rob))
  <2> DEFINE w == Where(rs, latch_int, latch_mul)
  <2>1. \A h \in Places : w[h] = Empty
    BY <1>8
  <2> HIDE DEF w
  <2>2. Matched(w, {})
    BY <2>1 DEF Matched
  <2> QED BY <1>4, <2>2 DEF w
<1> QED BY <1>3, <1>4, <1>5, <1>6, <1>7, <1>9 DEF WInv

-----------------------------------------------------------------------------
(* The instruction at place h leaves its unit. *)
Leaves(h, L, M) ==
    /\ \A k \in RsIdx : h # <<"rs", k>>
    /\ \A t \in IntSlots : L[t] = IF h = <<"int", t>> THEN NoLatch ELSE latch_int[t]
    /\ \A t \in MulSlots : M[t] = IF h = <<"mul", t>> THEN NoLatch ELSE latch_mul[t]

(* What the latches hold then: everything else stays where it is. *)
LEMMA LeavesWhere ==
    ASSUME NEW S, NEW L, NEW M, NEW h \in Places, Leaves(h, L, M),
           \A k \in RsIdx : SlotOf(S[k]) = SlotOf(rs[k])
    PROVE  /\ Where(S, L, M)[h] = Empty
           /\ \A j \in Places \ {h} : Where(S, L, M)[j] = Where(rs, latch_int, latch_mul)[j]
<1> USE Zenon
<1>1. Where(S, L, M)[h] = Empty
  <2>1. CASE \E t \in IntSlots : h = <<"int", t>>
    <3>1. PICK t \in IntSlots : h = <<"int", t>>
      BY <2>1
    <3>2. L[t] = NoLatch
      BY <3>1 DEF Leaves
    <3> QED BY SMT, <3>1, <3>2, WhereAt, EmptySlots
  <2>2. CASE \E t \in MulSlots : h = <<"mul", t>>
    <3>1. PICK t \in MulSlots : h = <<"mul", t>>
      BY <2>2
    <3>2. M[t] = NoLatch
      BY <3>1 DEF Leaves
    <3> QED BY SMT, <3>1, <3>2, WhereAt, EmptySlots
  <2> QED BY <2>1, <2>2, WhereAt DEF Leaves
<1>2. ASSUME NEW j \in Places \ {h}
      PROVE  Where(S, L, M)[j] = Where(rs, latch_int, latch_mul)[j]
  <2>1. j \in Places /\ j # h
    BY <1>2
  <2>2. \A t \in IntSlots : j = <<"int", t>> => SlotOf(L[t]) = SlotOf(latch_int[t])
    BY <2>1 DEF Leaves
  <2>3. \A t \in MulSlots : j = <<"mul", t>> => SlotOf(M[t]) = SlotOf(latch_mul[t])
    BY <2>1 DEF Leaves
  <2>4. SameAt(j, rs, latch_int, latch_mul, S, L, M)
    BY <2>2, <2>3 DEF SameAt
  <2> QED BY SMT, <2>1, <2>4, WhereSame
<1> QED BY <1>1, <1>2

(* Latches that lost an instruction still know their destinations. *)
LEMMA LeavesTags ==
    ASSUME NEW L, NEW M, NEW h, NEW R, Leaves(h, L, M),
           TagsOk(latch_int, IntSlots, R), TagsOk(latch_mul, MulSlots, R)
    PROVE  TagsOk(L, IntSlots, R) /\ TagsOk(M, MulSlots, R)
<1> USE Zenon
<1>1. ~NoLatch.valid
  BY DEF NoLatch
<1>2. TagsOk(L, IntSlots, R)
  BY <1>1 DEF Leaves, TagsOk
<1>3. TagsOk(M, MulSlots, R)
  BY <1>1 DEF Leaves, TagsOk
<1> QED BY <1>2, <1>3

(* An instruction leaves its unit with its result written back. *)
LEMMA Completed ==
    ASSUME IInv, WInv, NEW i \in Pending(rob), NEW p, p = rob[i].phys_rd, NEW v \in Words,
           NEW ir, ir.dnpc \in Pcs, ir.fault \in BOOLEAN,
           NEW h \in Places, Where(rs, latch_int, latch_mul)[h] = i,
           NEW L, NEW M, Leaves(h, L, M)
    PROVE  Scheduled(RsAfter(p, v), rs_free_mask, MaskAfter(p, v), Executed(i, ir),
                     PrfAfter(p, v), L, M)
<1> USE Zenon
<1>1. i \in RobIdx /\ rob[i].valid /\ ~rob[i].ready /\ i # Empty
  <2>1. TypeOK
    BY DEF IInv
  <2> QED BY <2>1, HeldSlots DEF Pending
<1>2. WrittenBack(i, p, v, ir)
  BY <1>1, WriteBack
<1> PICK S : S = RsAfter(p, v)
  OBVIOUS
<1> PICK R : R = Executed(i, ir)
  OBVIOUS
<1> PICK f : f = PrfAfter(p, v)
  OBVIOUS
<1> PICK mask : mask = MaskAfter(p, v)
  OBVIOUS
<1>3. /\ MasksOk(S, rs_free_mask, mask) /\ PlainOk(R) /\ PrfOk(f, R) /\ WaitsOk(S, f, R)
      /\ TagsOk(S, RsIdx, R) /\ TagsOk(latch_int, IntSlots, R) /\ TagsOk(latch_mul, MulSlots, R)
      /\ Pending(R) = Pending(rob) \ {i}
      /\ \A k \in RsIdx : SlotOf(S[k]) = SlotOf(rs[k])
  BY <1>2 DEF WrittenBack
<1>4. TagsOk(L, IntSlots, R) /\ TagsOk(M, MulSlots, R)
  BY <1>3, LeavesTags
<1> DEFINE w == Where(rs, latch_int, latch_mul)
           w2 == Where(S, L, M)
<1>5. Matched(w2, Pending(R))
  <2>1. w2[h] = Empty /\ \A j \in Places \ {h} : w2[j] = w[j]
    BY SMT, <1>3, LeavesWhere
  <2>2. Matched(w, Pending(rob)) /\ w[h] = i
    BY DEF WInv
  <2> HIDE DEF w, w2
  <2>3. Matched(w2, Pending(rob) \ {w[h]})
    BY <1>1, <2>1, <2>2, MatchedRemove
  <2>4. Pending(rob) \ {w[h]} = Pending(R)
    BY <1>3, <2>2
  <2> QED BY <2>3, <2>4
<1> QED BY <1>3, <1>4, <1>5 DEF Scheduled

(* That is what completion does, when there is no flush. *)
LEMMA CompleteW ==
    ASSUME IInv, WInv, NEW i \in Pending(rob), NEW p, p = rob[i].phys_rd, NEW v \in Words,
           NEW ir, ir.dnpc \in Pcs, ir.fault \in BOOLEAN,
           NEW h \in Places, Where(rs, latch_int, latch_mul)[h] = i,
           Leaves(h, latch_int', latch_mul'),
           rs' = RsAfter(p, v), prf' = PrfAfter(p, v), rs_ready_mask' = MaskAfter(p, v),
           rob' = Executed(i, ir), UNCHANGED <<rs_free_mask, rob_head, rrat>>
    PROVE  WInv'
<1> USE Zenon
<1> PICK L : L = latch_int'
  OBVIOUS
<1> PICK M : M = latch_mul'
  OBVIOUS
<1> PICK free : free = rs_free_mask
  OBVIOUS
<1> PICK S : S = RsAfter(p, v)
  OBVIOUS
<1> PICK R : R = Executed(i, ir)
  OBVIOUS
<1> PICK f : f = PrfAfter(p, v)
  OBVIOUS
<1> PICK mask : mask = MaskAfter(p, v)
  OBVIOUS
<1>1. Leaves(h, L, M)
  OBVIOUS
<1>2. Scheduled(S, free, mask, R, f, L, M)
  BY <1>1, Completed
<1>3. /\ rs' = S /\ rs_free_mask' = free /\ rs_ready_mask' = mask /\ rob' = R /\ prf' = f
      /\ latch_int' = L /\ latch_mul' = M /\ UNCHANGED <<rrat, rob_head>>
  OBVIOUS
<1> QED BY <1>2, <1>3, WNext

(* A completion in an INT unit that flushes nothing. *)
LEMMA IntCompleteW == ASSUME IInv, WInv, NEW s \in IntSlots, IntComplete(s) PROVE WInv'
<1> USE Zenon
<1> PICK l : l = latch_int[s]
  OBVIOUS
<1> PICK i : i = l.rob_idx
  OBVIOUS
<1> PICK p : p = l.phys_rd
  OBVIOUS
<1> PICK v : v = LatchIr(l).result
  OBVIOUS
<1> PICK ir : ir = [LatchIr(l) EXCEPT !.fault = @ \/ Mispredicted(l)]
  OBVIOUS
<1> DEFINE h == <<"int", s>>
<1>1. TypeOK /\ l \in Latches /\ latch_int \in [IntSlots -> Latches] /\ l.valid
  BY DEF IInv, TypeOK, IntComplete
<1>2. LatchIr(l) \in IrType
  BY <1>1, LatchIrType
<1>3. v \in Words /\ ir.dnpc \in Pcs /\ ir.fault \in BOOLEAN
  BY <1>2 DEF IrType
<1>4. i \in Pending(rob) /\ p = rob[i].phys_rd
  <2>1. i \in Pending(rob)
    BY <1>1, HeldPending
  <2> QED BY <1>1, <2>1 DEF WInv, TagsOk
<1>5. /\ rs' = RsAfter(p, v) /\ prf' = PrfAfter(p, v) /\ rs_ready_mask' = MaskAfter(p, v)
      /\ rob' = Executed(i, ir) /\ UNCHANGED <<rs_free_mask, rob_head, rrat, latch_mul>>
      /\ latch_int' = [latch_int EXCEPT ![s] = NoLatch]
  BY DEF IntComplete, renameVars
<1>6. h \in Places /\ Where(rs, latch_int, latch_mul)[h] = i
  <2>1. h \in Places /\ Where(rs, latch_int, latch_mul)[h] = SlotOf(l)
    BY SMT, WhereAt
  <2> QED BY <1>1, <2>1 DEF SlotOf
<1>7. \A t \in IntSlots : latch_int'[t] = IF h = <<"int", t>> THEN NoLatch ELSE latch_int[t]
  BY <1>1, <1>5
<1>8. \A t \in MulSlots : h # <<"mul", t>>
  OBVIOUS
<1>9. \A k \in RsIdx : h # <<"rs", k>>
  OBVIOUS
<1> HIDE DEF h
<1>10. \A t \in MulSlots : latch_mul'[t] = IF h = <<"mul", t>> THEN NoLatch ELSE latch_mul[t]
  BY <1>5, <1>8
<1>11. Leaves(h, latch_int', latch_mul')
  BY <1>7, <1>9, <1>10 DEF Leaves
<1> QED BY <1>3, <1>4, <1>5, <1>6, <1>11, CompleteW

(* A completion in the MUL unit. *)
LEMMA MulCompleteW == ASSUME IInv, WInv, NEW s \in MulSlots, MulComplete(s) PROVE WInv'
<1> USE Zenon
<1> PICK l : l = latch_mul[s]
  OBVIOUS
<1> PICK i : i = l.rob_idx
  OBVIOUS
<1> PICK p : p = l.phys_rd
  OBVIOUS
<1> PICK v : v = LatchIr(l).result
  OBVIOUS
<1> PICK ir : ir = LatchIr(l)
  OBVIOUS
<1> DEFINE h == <<"mul", s>>
<1>1. TypeOK /\ l \in Latches /\ latch_mul \in [MulSlots -> Latches] /\ l.valid
  BY DEF IInv, TypeOK, MulComplete
<1>2. LatchIr(l) \in IrType
  BY <1>1, LatchIrType
<1>3. v \in Words /\ ir.dnpc \in Pcs /\ ir.fault \in BOOLEAN
  BY <1>2 DEF IrType
<1>4. i \in Pending(rob) /\ p = rob[i].phys_rd
  <2>1. i \in Pending(rob)
    BY <1>1, HeldPending
  <2> QED BY <1>1, <2>1 DEF WInv, TagsOk
<1>5. /\ rs' = RsAfter(p, v) /\ prf' = PrfAfter(p, v) /\ rs_ready_mask' = MaskAfter(p, v)
      /\ rob' = Executed(i, ir) /\ UNCHANGED <<rs_free_mask, rob_head, rrat, latch_int>>
      /\ latch_mul' = [latch_mul EXCEPT ![s] = NoLatch]
  BY DEF MulComplete, renameVars
<1>6. h \in Places /\ Where(rs, latch_int, latch_mul)[h] = i
  <2>1. h \in Places /\ Where(rs, latch_int, latch_mul)[h] = SlotOf(l)
    BY SMT, WhereAt
  <2> QED BY <1>1, <2>1 DEF SlotOf
<1>7. \A t \in MulSlots : latch_mul'[t] = IF h = <<"mul", t>> THEN NoLatch ELSE latch_mul[t]
  BY <1>1, <1>5
<1>8. \A t \in IntSlots : h # <<"int", t>>
  OBVIOUS
<1>9. \A k \in RsIdx : h # <<"rs", k>>
  OBVIOUS
<1> HIDE DEF h
<1>10. \A t \in IntSlots : latch_int'[t] = IF h = <<"int", t>> THEN NoLatch ELSE latch_int[t]
  BY <1>5, <1>8
<1>11. Leaves(h, latch_int', latch_mul')
  BY <1>7, <1>9, <1>10 DEF Leaves
<1> QED BY <1>3, <1>4, <1>5, <1>6, <1>11, CompleteW

(* A misprediction is a completion followed by a flush. *)
LEMMA MispredictW == ASSUME IInv, WInv, NEW s \in IntSlots, IntMispredict(s) PROVE WInv'
<1> USE Zenon
<1> PICK l : l = latch_int[s]
  OBVIOUS
<1> PICK b : b = l.rob_idx
  OBVIOUS
<1> PICK p : p = l.phys_rd
  OBVIOUS
<1> PICK ir : ir = LatchIr(l)
  OBVIOUS
<1> PICK v : v = ir.result
  OBVIOUS
<1> DEFINE h == <<"int", s>>
<1>1. TypeOK /\ l \in Latches /\ latch_int \in [IntSlots -> Latches] /\ l.valid
      /\ latch_mul \in [MulSlots -> Latches]
  BY DEF IInv, TypeOK, IntMispredict
<1>2. ir \in IrType
  BY <1>1, LatchIrType
<1>3. v \in Words /\ ir.dnpc \in Pcs /\ ir.fault \in BOOLEAN
  BY <1>2 DEF IrType
<1>4. b \in Pending(rob) /\ p = rob[b].phys_rd /\ p \in MaybePhys
  <2>1. b \in Pending(rob)
    BY <1>1, HeldPending
  <2> QED BY <1>1, <2>1 DEF WInv, TagsOk, Latches
<1>5. b \in RobIdx
  BY <1>4 DEF Pending
<1>6. h \in Places /\ Where(rs, latch_int, latch_mul)[h] = b
  <2>1. h \in Places /\ Where(rs, latch_int, latch_mul)[h] = SlotOf(l)
    BY SMT, WhereAt
  <2> QED BY <1>1, <2>1 DEF SlotOf
<1> PICK free : free = rs_free_mask
  OBVIOUS
<1> PICK L : L = [latch_int EXCEPT ![s] = NoLatch]
  OBVIOUS
<1> PICK M : M = latch_mul
  OBVIOUS
<1> PICK S : S = RsAfter(p, v)
  OBVIOUS
<1> PICK mask : mask = MaskAfter(p, v)
  OBVIOUS
<1> PICK R : R = Executed(b, ir)
  OBVIOUS
<1> PICK f : f = PrfAfter(p, v)
  OBVIOUS
<1>7. /\ FlushRename(b, f) /\ FlushRob(b, R) /\ FlushRs(b, S, mask)
      /\ latch_int' = FlushLatch(L, b) /\ latch_mul' = FlushLatch(M, b)
      /\ UNCHANGED <<rrat, rob_head>>
  BY DEF IntMispredict
<1>8. Leaves(h, L, M)
  <2>1. \A t \in IntSlots : L[t] = IF h = <<"int", t>> THEN NoLatch ELSE latch_int[t]
    BY <1>1
  <2>2. \A t \in MulSlots : h # <<"mul", t>>
    OBVIOUS
  <2>3. \A k \in RsIdx : h # <<"rs", k>>
    OBVIOUS
  <2> HIDE DEF h
  <2>4. \A t \in MulSlots : M[t] = IF h = <<"mul", t>> THEN NoLatch ELSE latch_mul[t]
    BY <2>2
  <2> QED BY <2>1, <2>3, <2>4 DEF Leaves
<1> HIDE DEF h
<1>9. Scheduled(S, free, mask, R, f, L, M)
  BY <1>3, <1>4, <1>6, <1>8, Completed
<1>10. f \in [PhysRegs -> [value : Words, ready : BOOLEAN]] /\ S \in [RsIdx -> RsEntries]
  BY <1>1, <1>3, <1>4, WritebackType
<1>11. L \in [IntSlots -> Latches] /\ M \in [MulSlots -> Latches]
  BY <1>1, EmptyTypes
<1>12. BeforeFlush(S, R, L, M)
  <2>1. \A i \in RobIdx : /\ R[i].valid = rob[i].valid /\ R[i].arch_rd = rob[i].arch_rd
                          /\ R[i].phys_rd = rob[i].phys_rd
    BY SMT, <1>1, <1>3, <1>5, ExecutedType
  <2>2. \A k \in RsIdx : S[k].rob_idx \in RobIdx /\ S[k].src1.ptag \in PhysRegs /\ S[k].src2.ptag \in PhysRegs
    BY <1>10 DEF RsEntries, Sources
  <2>3. \A t \in IntSlots : L[t].rob_idx \in RobIdx
    BY <1>11 DEF Latches
  <2>4. \A t \in MulSlots : M[t].rob_idx \in RobIdx
    BY <1>11 DEF Latches
  <2> QED BY <2>1, <2>2, <2>3, <2>4 DEF BeforeFlush
<1> PICK S2 : S2 = rs'
  OBVIOUS
<1> PICK free2 : free2 = rs_free_mask'
  OBVIOUS
<1> PICK mask2 : mask2 = rs_ready_mask'
  OBVIOUS
<1> PICK R2 : R2 = rob'
  OBVIOUS
<1> PICK f2 : f2 = prf'
  OBVIOUS
<1> PICK L2 : L2 = latch_int'
  OBVIOUS
<1> PICK M2 : M2 = latch_mul'
  OBVIOUS
<1>13. FlushedTo(b, S, free, mask, R, f, L, M, S2, free2, mask2, R2, f2, L2, M2)
  <2> DEFINE gone  == {k \in RsIdx : S[k].valid /\ rob_newer_than(S[k].rob_idx, b)}
             freed == {rob[i].phys_rd : i \in SquashedWriters(b)}
  <2>1. /\ S2 = [k \in RsIdx |-> IF k \in gone THEN NoRs ELSE S[k]]
        /\ free2 = free \cup gone
        /\ mask2 = [eu \in EuTypes |-> mask[eu] \ gone]
    BY <1>7 DEF FlushRs
  <2>2. f2 = [q \in PhysRegs |-> IF q \in freed THEN [f[q] EXCEPT !.ready = FALSE] ELSE f[q]]
    BY <1>7 DEF FlushRename
  <2>3. R2 = [i \in RobIdx |-> IF i \in Squashed(b) THEN NoEntry ELSE R[i]]
    BY <1>7 DEF FlushRob
  <2>4. ASSUME NEW k \in RsIdx PROVE S2[k] = Dropped(S[k], b, NoRs)
    <3>1. k \in gone <=> S[k].valid /\ rob_newer_than(S[k].rob_idx, b)
      OBVIOUS
    <3> HIDE DEF gone
    <3>2. S2[k] = IF k \in gone THEN NoRs ELSE S[k]
      BY <2>1
    <3> QED BY <3>1, <3>2 DEF Dropped
  <2>5. DOMAIN L = IntSlots /\ DOMAIN M = MulSlots
    BY <1>11
  <2>6. \A t \in IntSlots : L2[t] = Dropped(L[t], b, NoLatch)
    BY <1>7, <2>5 DEF Dropped, FlushLatch
  <2>7. \A t \in MulSlots : M2[t] = Dropped(M[t], b, NoLatch)
    BY <1>7, <2>5 DEF Dropped, FlushLatch
  <2>8. /\ \A q \in PhysRegs : q \notin freed => f2[q] = f[q]
        /\ \A q \in PhysRegs : f2[q].ready => q \notin freed /\ f[q].ready
    <3> HIDE DEF freed
    <3>1. ASSUME NEW q \in PhysRegs, q \notin freed PROVE f2[q] = f[q]
      BY <2>2, <3>1
    <3>2. ASSUME NEW q \in PhysRegs, q \in freed PROVE ~f2[q].ready
      <4>1. f2[q] = [f[q] EXCEPT !.ready = FALSE] /\ f[q] \in [value : Words, ready : BOOLEAN]
        BY <1>10, <2>2, <3>2
      <4> QED BY <4>1
    <3> QED BY <3>1, <3>2
  <2>9. \A eu \in EuTypes : mask2[eu] = mask[eu] \ gone
    BY <2>1
  <2>10. \A i \in RobIdx : R2[i] = IF i \in Squashed(b) THEN NoEntry ELSE R[i]
    BY <2>3
  <2> QED BY <2>1, <2>4, <2>6, <2>7, <2>8, <2>9, <2>10 DEF FlushedTo
<1>14. Scheduled(S2, free2, mask2, R2, f2, L2, M2)
  BY SMT, <1>5, <1>9, <1>12, <1>13, FlushKeeps
<1> QED BY <1>7, <1>14, WNext

-----------------------------------------------------------------------------
(* An operand read at rename: ready, or the register that the rat gives and
   that is not ready. *)
ReadFrom(src) == src.ready \/ \E r \in ArchRegs : src.ptag = rat[r] /\ ~prf[rat[r]].ready

(* What one iteration of ooo_stage_rn does: station k gets e and ROB slot t
   gets n. *)
Dispatched(k, t, e, n, S2, free2, mask2, R2, f2) ==
    /\ k \in rs_free_mask /\ t = rob_tail /\ rob_count < ROB_SIZE
    /\ S2 = [rs EXCEPT ![k] = e]
    /\ e.valid /\ e.rob_idx = t /\ e.phys_rd = n.phys_rd /\ e.eu_type \in EuTypes
    /\ ReadFrom(e.src1) /\ ReadFrom(e.src2)
    /\ R2 = [rob EXCEPT ![t] = n]
    /\ n.valid /\ ~n.ready
    /\ free2 = rs_free_mask \ {k}
    /\ mask2 = [rs_ready_mask EXCEPT ![e.eu_type] =
                  IF e.src1.ready /\ e.src2.ready THEN @ \cup {k} ELSE @ \ {k}]
    /\ Renames(n.arch_rd) => /\ n.phys_rd \in freelist.regs
                             /\ f2 = [prf EXCEPT ![n.phys_rd] = [value |-> 0, ready |-> FALSE]]
    /\ ~Renames(n.arch_rd) => f2 = prf /\ n.phys_rd \in {0, NoReg}

(* A register that is not ready now is the destination of a live instruction
   that has not executed. *)
LEMMA UnreadyHasWriter ==
    ASSUME IInv, WInv, NEW r \in ArchRegs, ~prf[rat[r]].ready
    PROVE  \E j \in Writers : rob[j].phys_rd = rat[r] /\ ~rob[j].ready
<1> USE Zenon
<1>1. MapsTo(r, rob_count, rat[r])
  BY DEF IInv, RatConsistent
<1>2. rat[r] # rrat[r]
  BY DEF WInv, PrfOk
<1>3. PICK j \in RobIdx : Writer(j, r) /\ rat[r] = rob[j].phys_rd
  BY <1>1, <1>2 DEF MapsTo
<1>4. j \in Writers /\ j \in WritersOf(rob)
  BY <1>3 DEF Writer, Writers, WritersOf
<1>5. prf[rob[j].phys_rd].ready <=> rob[j].ready
  BY <1>4 DEF WInv, PrfOk
<1> QED BY <1>3, <1>4, <1>5

(* Rename keeps every part of the invariant. *)
LEMMA DispatchKeeps ==
    ASSUME IInv, WInv, NEW k, NEW t, NEW e, NEW n, NEW S2, NEW free2, NEW mask2, NEW R2, NEW f2,
           NEW L, NEW M, L = latch_int, M = latch_mul,
           Dispatched(k, t, e, n, S2, free2, mask2, R2, f2)
    PROVE  Scheduled(S2, free2, mask2, R2, f2, L, M)
<1> USE Zenon
<1>1. TypeOK /\ Empty \notin RobIdx
  BY HeldSlots DEF IInv
<1>2. k \in RsIdx /\ ~rs[k].valid /\ k \in rs_free_mask
  BY DEF Dispatched, WInv, MasksOk
<1>3. /\ t \in RobIdx /\ ~rob[t].valid /\ Age(t) = rob_count
      /\ \A i \in RobIdx : rob[i].valid => Age(i) < rob_count /\ i # t
  <2>1. /\ rob_tail \in RobIdx /\ rob_head \in RobIdx /\ rob_count \in 0 .. ROB_SIZE
        /\ rob_count < ROB_SIZE /\ t = rob_tail
    BY <1>1 DEF TypeOK, Dispatched
  <2>2. Age(t) = rob_count /\ ~rob[t].valid
    BY SMT, <2>1, OooAssumption DEF IInv, RobContiguous, Age, RobIdx
  <2> QED BY <2>1, <2>2 DEF IInv, RobContiguous
<1>4. S2[k] = e /\ \A l \in RsIdx \ {k} : S2[l] = rs[l]
  BY <1>1, <1>2 DEF TypeOK, Dispatched
<1>5. R2[t] = n /\ \A i \in RobIdx \ {t} : R2[i] = rob[i]
  BY <1>1, <1>3 DEF TypeOK, Dispatched
<1>6. /\ e.valid /\ e.rob_idx = t /\ e.phys_rd = n.phys_rd /\ e.eu_type \in EuTypes
      /\ n.valid /\ ~n.ready /\ ReadFrom(e.src1) /\ ReadFrom(e.src2)
  BY DEF Dispatched
<1>7. MasksOk(S2, free2, mask2)
  <2>1. free2 = {l \in RsIdx : ~S2[l].valid}
    <3>1. free2 = rs_free_mask \ {k} /\ rs_free_mask = {l \in RsIdx : ~rs[l].valid}
      BY DEF Dispatched, WInv, MasksOk
    <3> QED BY <1>2, <1>4, <1>6, <3>1
  <2>2. ASSUME NEW eu \in EuTypes
        PROVE  mask2[eu] = {l \in RsIdx : /\ S2[l].valid /\ S2[l].eu_type = eu
                                          /\ S2[l].src1.ready /\ S2[l].src2.ready}
    <3>1. rs_ready_mask[eu] = {l \in RsIdx : /\ rs[l].valid /\ rs[l].eu_type = eu
                                             /\ rs[l].src1.ready /\ rs[l].src2.ready}
      BY DEF WInv, MasksOk
    <3>2. rs_ready_mask \in [EuTypes -> SUBSET RsIdx]
      BY <1>1 DEF TypeOK
    <3>3. mask2 = [rs_ready_mask EXCEPT ![e.eu_type] =
                     IF e.src1.ready /\ e.src2.ready THEN @ \cup {k} ELSE @ \ {k}]
      BY DEF Dispatched
    <3>4. mask2[eu] = IF e.eu_type # eu THEN rs_ready_mask[eu]
                      ELSE IF e.src1.ready /\ e.src2.ready THEN rs_ready_mask[eu] \cup {k}
                      ELSE rs_ready_mask[eu] \ {k}
      BY <3>2, <3>3
    <3>5. mask2[eu] \subseteq RsIdx
      BY <1>2, <3>2, <3>4
    <3>6. ASSUME NEW l \in RsIdx \ {k}
          PROVE  l \in mask2[eu] <=> /\ S2[l].valid /\ S2[l].eu_type = eu
                                     /\ S2[l].src1.ready /\ S2[l].src2.ready
      <4>1. l \in mask2[eu] <=> l \in rs_ready_mask[eu]
        BY <3>4
      <4> QED BY <1>4, <3>1, <4>1
    <3>7. k \in mask2[eu] <=> e.eu_type = eu /\ e.src1.ready /\ e.src2.ready
      <4>1. k \notin rs_ready_mask[eu]
        BY <1>2, <3>1
      <4> QED BY <3>4, <4>1
    <3> QED BY <1>2, <1>4, <1>6, <3>5, <3>6, <3>7
  <2> QED BY <2>1, <2>2 DEF MasksOk
<1>8. PlainOk(R2)
  BY <1>5 DEF PlainOk, WInv, Dispatched
<1>9. WritersOf(R2) \subseteq Writers \cup {t} /\ Writers \subseteq WritersOf(R2) /\ t \notin Writers
      /\ (t \in WritersOf(R2) => Renames(n.arch_rd))
  BY <1>3, <1>5 DEF Writers, WritersOf
(* The register rename takes was free: nothing else depends on it. *)
<1>10. /\ \A r \in ArchRegs : f2[rrat[r]].ready <=> prf[rrat[r]].ready
       /\ \A i \in Writers : f2[rob[i].phys_rd].ready <=> prf[rob[i].phys_rd].ready
       /\ \A p \in PhysRegs : f2[p].ready => prf[p].ready
       /\ Renames(n.arch_rd) => ~f2[n.phys_rd].ready
  <2>1. CASE ~Renames(n.arch_rd)
    BY <2>1 DEF Dispatched
  <2>2. CASE Renames(n.arch_rd)
    <3> PICK q : q = n.phys_rd
      OBVIOUS
    <3>1. /\ q \in freelist.regs /\ freelist.regs \subseteq PhysRegs
          /\ prf \in [PhysRegs -> [value : Words, ready : BOOLEAN]]
      BY <1>1, <2>2 DEF Dispatched, TypeOK
    <3>2. f2 = [prf EXCEPT ![q] = [value |-> 0, ready |-> FALSE]]
      BY <2>2 DEF Dispatched
    <3>3. ~f2[q].ready /\ \A p \in PhysRegs : p # q => f2[p] = prf[p]
      BY <3>1, <3>2
    <3>4. /\ \A r \in ArchRegs : rrat[r] \in PhysRegs /\ rrat[r] # q
          /\ \A i \in Writers : rob[i].phys_rd \in PhysRegs /\ rob[i].phys_rd # q
      <4>1. /\ \A r \in ArchRegs : rrat[r] # q
            /\ \A i \in Writers : rob[i].phys_rd # q
        BY SMT, <3>1 DEF IInv, RegPartition
      <4> QED BY <1>1, <4>1, WriterDest DEF TypeOK
    <3> QED BY <3>3, <3>4
  <2> QED BY <2>1, <2>2
<1>11. PrfOk(f2, R2)
  <2>1. \A r \in ArchRegs : f2[rrat[r]].ready
    BY <1>10 DEF WInv, PrfOk
  <2>2. ASSUME NEW i \in WritersOf(R2) PROVE f2[R2[i].phys_rd].ready <=> R2[i].ready
    <3>1. CASE i = t
      BY <1>5, <1>6, <1>9, <1>10, <3>1
    <3>2. CASE i # t
      <4>1. i \in Writers /\ i \in RobIdx /\ R2[i] = rob[i] /\ i \in WritersOf(rob)
        BY <1>5, <1>9, <3>2 DEF Writers, WritersOf
      <4>2. prf[rob[i].phys_rd].ready <=> rob[i].ready
        BY <4>1 DEF WInv, PrfOk
      <4> QED BY <1>10, <4>1, <4>2
    <3> QED BY <3>1, <3>2
  <2> QED BY <2>1, <2>2 DEF PrfOk
<1>12. WaitsOk(S2, f2, R2)
  <2>1. ASSUME NEW l \in RsIdx \ {k}, NEW src, src.ptag \in PhysRegs, Waits(rs[l], src, prf, rob)
        PROVE  Waits(rs[l], src, f2, R2)
    <3> SUFFICES ASSUME rs[l].valid, ~src.ready
                 PROVE  ~f2[src.ptag].ready /\ \E i \in WritersOf(R2) : Produces(i, rs[l], src, R2)
      BY DEF Waits
    <3>1. ~prf[src.ptag].ready
      BY <2>1 DEF Waits
    <3>2. PICK i \in WritersOf(rob) : Produces(i, rs[l], src, rob)
      BY <2>1 DEF Waits
    <3>3. i \in WritersOf(R2) /\ R2[i] = rob[i]
      BY <1>3, <1>5 DEF WritersOf
    <3>4. Produces(i, rs[l], src, R2)
      BY <3>2, <3>3 DEF Produces
    <3> QED BY <1>10, <2>1, <3>1, <3>3, <3>4
  <2>2. ASSUME NEW src, ReadFrom(src) PROVE Waits(e, src, f2, R2)
    <3> SUFFICES ASSUME ~src.ready
                 PROVE  ~f2[src.ptag].ready /\ \E i \in WritersOf(R2) : Produces(i, e, src, R2)
      BY DEF Waits
    <3>1. PICK r \in ArchRegs : src.ptag = rat[r] /\ ~prf[rat[r]].ready
      BY <2>2 DEF ReadFrom
    <3>2. PICK j \in Writers : rob[j].phys_rd = rat[r] /\ ~rob[j].ready
      BY <3>1, UnreadyHasWriter
    <3>3. j \in RobIdx /\ j \in WritersOf(R2) /\ j # t /\ R2[j] = rob[j] /\ Age(j) < rob_count
      BY <1>3, <1>5, <1>9 DEF Writers
    <3>4. Age(e.rob_idx) > Age(j)
      <4>1. rob_head \in RobIdx /\ rob_count \in Int
        BY SMT, <1>1, OooAssumption DEF TypeOK
      <4>2. Age(j) \in Int
        BY SMT, <3>3, <4>1, AgeBijective
      <4> QED BY <1>3, <1>6, <3>3, <4>1, <4>2
    <3>5. Produces(j, e, src, R2)
      BY <3>1, <3>2, <3>3, <3>4 DEF Produces
    <3>6. rat[r] \in PhysRegs
      BY <1>1 DEF TypeOK
    <3> QED BY <1>10, <3>1, <3>3, <3>5, <3>6
  <2>3. ASSUME NEW l \in RsIdx PROVE Waits(S2[l], S2[l].src1, f2, R2) /\ Waits(S2[l], S2[l].src2, f2, R2)
    <3>1. CASE l = k
      BY <1>4, <1>6, <2>2, <3>1
    <3>2. CASE l # k
      <4>1. S2[l] = rs[l] /\ l \in RsIdx \ {k}
        BY <1>4, <3>2
      <4>2. Waits(rs[l], rs[l].src1, prf, rob) /\ Waits(rs[l], rs[l].src2, prf, rob)
        BY DEF WInv, WaitsOk
      <4>3. rs[l].src1.ptag \in PhysRegs /\ rs[l].src2.ptag \in PhysRegs
        BY <1>1 DEF TypeOK, RsEntries, Sources
      <4> QED BY <2>1, <4>1, <4>2, <4>3
    <3> QED BY <3>1, <3>2
  <2> QED BY <2>3 DEF WaitsOk
<1>13. /\ \A l \in RsIdx : rs[l].valid => rs[l].rob_idx \in RobIdx \ {t}
       /\ \A l \in IntSlots : L[l].valid => L[l].rob_idx \in RobIdx \ {t}
       /\ \A l \in MulSlots : M[l].valid => M[l].rob_idx \in RobIdx \ {t}
  <2>1. Pending(rob) \subseteq RobIdx \ {t}
    BY <1>3 DEF Pending
  <2> QED BY <1>1, <2>1, HeldPending
<1>14. TagsOk(S2, RsIdx, R2)
  <2>1. ASSUME NEW l \in RsIdx, S2[l].valid PROVE S2[l].phys_rd = R2[S2[l].rob_idx].phys_rd
    <3>1. CASE l = k
      BY <1>4, <1>5, <1>6, <3>1
    <3>2. CASE l # k
      <4>1. S2[l] = rs[l] /\ rs[l].rob_idx \in RobIdx \ {t}
        BY <1>4, <1>13, <2>1, <3>2
      <4>2. rs[l].phys_rd = rob[rs[l].rob_idx].phys_rd
        BY <2>1, <4>1 DEF WInv, TagsOk
      <4> QED BY <1>5, <4>1, <4>2
    <3> QED BY <3>1, <3>2
  <2> QED BY <2>1 DEF TagsOk
<1>15. TagsOk(L, IntSlots, R2) /\ TagsOk(M, MulSlots, R2)
  <2>1. TagsOk(L, IntSlots, rob) /\ TagsOk(M, MulSlots, rob)
    BY DEF WInv
  <2> QED BY <1>5, <1>13, <2>1 DEF TagsOk
<1>16. Matched(Where(S2, L, M), Pending(R2))
  <2> DEFINE w  == Where(rs, latch_int, latch_mul)
             w2 == Where(S2, L, M)
             h  == <<"rs", k>>
  <2>1. h \in Places /\ w[h] = SlotOf(rs[k]) /\ w2[h] = SlotOf(S2[k])
    BY SMT, <1>2, WhereAt
  <2>2. w[h] = Empty /\ w2[h] = t
    BY <1>2, <1>4, <1>6, <2>1 DEF SlotOf
  <2>3. ASSUME NEW j \in Places \ {h} PROVE w2[j] = w[j]
    <3>1. \A l \in RsIdx : j = <<"rs", l>> => SlotOf(S2[l]) = SlotOf(rs[l])
      BY <1>4, <2>3
    <3>2. SameAt(j, rs, latch_int, latch_mul, S2, L, M)
      BY <3>1 DEF SameAt
    <3>3. j \in Places
      BY <2>3
    <3> HIDE DEF h
    <3> QED BY SMT, <3>2, <3>3, WhereSame
  <2>4. Matched(w, Pending(rob)) /\ t \notin Pending(rob) /\ Empty \notin Pending(rob)
    BY <1>1, <1>3 DEF WInv, Pending
  <2>5. Pending(R2) = Pending(rob) \cup {t}
    BY <1>3, <1>5, <1>6 DEF Pending
  <2> HIDE DEF w, w2, h
  <2>6. Matched(w2, Pending(rob) \cup {t})
    BY <2>1, <2>2, <2>3, <2>4, MatchedAdd
  <2> QED BY <2>5, <2>6 DEF w2
<1> QED BY <1>7, <1>8, <1>11, <1>12, <1>14, <1>15, <1>16 DEF Scheduled

(* Rename: the instruction takes a station, and a register nobody waits for. *)
LEMMA RenameW == ASSUME SetLaws, IInv, WInv, ooo_stage_rn PROVE WInv'
<1> USE Zenon
<1> PICK fe : fe = Head(latch_id_rn)
  OBVIOUS
<1> PICK inst : inst = prog[fe.pc]
  OBVIOUS
<1> PICK k : k = LowestFreeRs
  OBVIOUS
<1> PICK t : t = rob_tail
  OBVIOUS
<1>1. TypeOK /\ inst.rs1 \in ArchRegs \cup {NoReg} /\ inst.rs2 \in ArchRegs \cup {NoReg}
  <2>1. TypeOK /\ latch_id_rn \in Seq(Fetched) /\ latch_id_rn # <<>>
    BY DEF IInv, ooo_stage_rn, TypeOK
  <2>2. fe \in Fetched
    BY SMT, <2>1
  <2>3. inst \in Insts
    BY <2>1, <2>2 DEF Fetched, TypeOK
  <2> QED BY <2>1, <2>3 DEF Insts
<1>2. /\ CanRename(inst)
      /\ \E p \in DestChoices(inst) : /\ rob' = [rob EXCEPT ![t] = RobEntryFor(fe, p)]
                                      /\ RenameDest(inst, p)
                                      /\ rs' = [rs EXCEPT ![k] = RsEntryFor(fe, p)]
      /\ rs_free_mask' = rs_free_mask \ {k}
      /\ rs_ready_mask' =
           [rs_ready_mask EXCEPT ![EuType(inst)] =
              IF Source(inst.rs1, inst.imm).ready /\ Source(inst.rs2, inst.imm).ready
              THEN @ \cup {k} ELSE @ \ {k}]
      /\ UNCHANGED <<rrat, rob_head, latch_int, latch_mul>>
  BY DEF ooo_stage_rn
<1>3. PICK p \in DestChoices(inst) : /\ rob' = [rob EXCEPT ![t] = RobEntryFor(fe, p)]
                                     /\ RenameDest(inst, p)
                                     /\ rs' = [rs EXCEPT ![k] = RsEntryFor(fe, p)]
  BY <1>2
<1> PICK e : e = RsEntryFor(fe, p)
  OBVIOUS
<1> PICK n : n = RobEntryFor(fe, p)
  OBVIOUS
<1>4. k \in rs_free_mask /\ rob_count < ROB_SIZE
  BY <1>1, <1>2, LowestFreeRsType DEF CanRename
<1>5. /\ e.valid /\ e.rob_idx = t /\ e.phys_rd = p /\ e.eu_type = EuType(inst)
      /\ e.src1 = Source(inst.rs1, inst.imm) /\ e.src2 = Source(inst.rs2, inst.imm)
  BY DEF RsEntryFor
<1>6. n.valid /\ ~n.ready /\ n.phys_rd = p /\ n.arch_rd = inst.rd
  BY DEF RobEntryFor, NoEntry
<1>7. ASSUME NEW r \in ArchRegs \cup {NoReg}, NEW imm PROVE ReadFrom(Source(r, imm))
  <2>1. CASE r \in {NoReg, 0}
    <3>1. Source(r, imm).ready
      BY <2>1 DEF Source
    <3> QED BY <3>1 DEF ReadFrom
  <2>2. CASE r \notin {NoReg, 0}
    <3>1. Source(r, imm).ready = prf[rat[r]].ready /\ Source(r, imm).ptag = rat[r] /\ r \in ArchRegs
      BY <2>2 DEF Source
    <3> QED BY <3>1 DEF ReadFrom
  <2> QED BY <2>1, <2>2
<1>8. EuType(inst) \in EuTypes
  BY DEF EuType, EuTypes
<1> PICK S2 : S2 = rs'
  OBVIOUS
<1> PICK free2 : free2 = rs_free_mask'
  OBVIOUS
<1> PICK mask2 : mask2 = rs_ready_mask'
  OBVIOUS
<1> PICK R2 : R2 = rob'
  OBVIOUS
<1> PICK f2 : f2 = prf'
  OBVIOUS
<1> PICK L : L = latch_int
  OBVIOUS
<1> PICK M : M = latch_mul
  OBVIOUS
<1>9. Dispatched(k, t, e, n, S2, free2, mask2, R2, f2)
  <2>1. /\ Renames(n.arch_rd) => /\ n.phys_rd \in freelist.regs
                                 /\ f2 = [prf EXCEPT ![n.phys_rd] = [value |-> 0, ready |-> FALSE]]
        /\ ~Renames(n.arch_rd) => f2 = prf /\ n.phys_rd \in {0, NoReg}
    <3>1. CASE Renames(inst.rd)
      BY <1>3, <1>6, <3>1 DEF RenameDest, DestChoices
    <3>2. CASE ~Renames(inst.rd)
      <4>1. prf' = prf /\ p \in {0, NoReg}
        BY <1>3, <3>2 DEF RenameDest, DestChoices
      <4> QED BY <1>6, <3>2, <4>1
    <3> QED BY <3>1, <3>2
  <2>2. ReadFrom(e.src1) /\ ReadFrom(e.src2)
    BY <1>1, <1>5, <1>7
  <2>3. mask2 = [rs_ready_mask EXCEPT ![e.eu_type] =
                   IF e.src1.ready /\ e.src2.ready THEN @ \cup {k} ELSE @ \ {k}]
    BY <1>2, <1>5
  <2> QED BY <1>2, <1>3, <1>4, <1>5, <1>6, <1>8, <2>1, <2>2, <2>3 DEF Dispatched
<1>10. Scheduled(S2, free2, mask2, R2, f2, L, M)
  BY <1>9, DispatchKeeps
<1>11. latch_int' = L /\ latch_mul' = M /\ UNCHANGED <<rrat, rob_head>>
  BY <1>2
<1> QED BY <1>10, <1>11, WNext

-----------------------------------------------------------------------------
(* Every step of the engine keeps the invariant of the scheduler. *)
LEMMA WakeupStep == ASSUME SetLaws, IInv, WInv, [Next]_vars PROVE WInv'
<1> USE Zenon
<1>1. CASE ooo_stage_commit
  BY <1>1, CommitW
<1>2. CASE CommitPanic
  BY <1>2, WFrame DEF CommitPanic, robVars, rsVars, renameVars
<1>3. ASSUME NEW s \in IntSlots, IntComplete(s) PROVE WInv'
  BY <1>3, IntCompleteW
<1>4. ASSUME NEW s \in IntSlots, IntMispredict(s) PROVE WInv'
  BY <1>4, MispredictW
<1>5. ASSUME NEW s \in IntSlots, IssueInt(s) PROVE WInv'
  BY <1>5, IssueIntW
<1>6. ASSUME NEW s \in MulSlots, MulComplete(s) PROVE WInv'
  BY <1>6, MulCompleteW
<1>7. ASSUME NEW s \in MulSlots, IssueMul(s) PROVE WInv'
  BY <1>7, IssueMulW
<1>8. CASE ooo_stage_rn
  BY <1>8, RenameW
<1>9. CASE ooo_stage_id
  BY <1>9, WFrame DEF ooo_stage_id, robVars, rsVars, renameVars
<1>10. CASE ooo_stage_if
  BY <1>10, WFrame DEF ooo_stage_if, robVars, rsVars, renameVars
<1>11. CASE UNCHANGED vars
  BY <1>11, WFrame DEF vars, robVars, rsVars, renameVars
<1> QED BY <1>1, <1>2, <1>3, <1>4, <1>5, <1>6, <1>7, <1>8, <1>9, <1>10, <1>11 DEF Next

(* The stations and slots that hold entry i. *)
RsOf(i)  == {k \in RsIdx : rs[k].valid /\ rs[k].rob_idx = i}
IntOf(i) == {s \in IntSlots : latch_int[s].valid /\ latch_int[s].rob_idx = i}
MulOf(i) == {s \in MulSlots : latch_mul[s].valid /\ latch_mul[s].rob_idx = i}

(* They are one when i is still to execute, and none otherwise. *)
LEMMA HoldersOf ==
    ASSUME TypeOK, WInv, NEW i \in RobIdx
    PROVE  /\ i \in Pending(rob) =>
                \/ (\E k : RsOf(i) = {k}) /\ IntOf(i) = {} /\ MulOf(i) = {}
                \/ RsOf(i) = {} /\ (\E k : IntOf(i) = {k}) /\ MulOf(i) = {}
                \/ RsOf(i) = {} /\ IntOf(i) = {} /\ (\E k : MulOf(i) = {k})
           /\ i \notin Pending(rob) => RsOf(i) = {} /\ IntOf(i) = {} /\ MulOf(i) = {}
<1> USE Zenon
<1> DEFINE w == Where(rs, latch_int, latch_mul)
<1>1. i # Empty /\ Matched(w, Pending(rob))
  BY HeldSlots DEF WInv
<1>2. /\ \A k \in RsIdx : k \in RsOf(i) <=> w[<<"rs", k>>] = i
      /\ \A k \in IntSlots : k \in IntOf(i) <=> w[<<"int", k>>] = i
      /\ \A k \in MulSlots : k \in MulOf(i) <=> w[<<"mul", k>>] = i
  <2>1. /\ \A k \in RsIdx : w[<<"rs", k>>] = SlotOf(rs[k])
        /\ \A k \in IntSlots : w[<<"int", k>>] = SlotOf(latch_int[k])
        /\ \A k \in MulSlots : w[<<"mul", k>>] = SlotOf(latch_mul[k])
    BY SMT, WhereAt
  <2> HIDE DEF w
  <2>2. ASSUME NEW e PROVE SlotOf(e) = i <=> e.valid /\ e.rob_idx = i
    <3>1. CASE e.valid
      BY <3>1 DEF SlotOf
    <3>2. CASE ~e.valid
      BY <1>1, <3>2 DEF SlotOf
    <3> QED BY <3>1, <3>2
  <2> QED BY <2>1, <2>2 DEF RsOf, IntOf, MulOf
<1>3. /\ RsOf(i) \subseteq RsIdx /\ IntOf(i) \subseteq IntSlots /\ MulOf(i) \subseteq MulSlots
      /\ \A k \in RsIdx : <<"rs", k>> \in Places
      /\ \A k \in IntSlots : <<"int", k>> \in Places
      /\ \A k \in MulSlots : <<"mul", k>> \in Places
      /\ \A h \in Places : \/ \E k \in RsIdx : h = <<"rs", k>>
                           \/ \E k \in IntSlots : h = <<"int", k>>
                           \/ \E k \in MulSlots : h = <<"mul", k>>
  BY SMT DEF RsOf, IntOf, MulOf, Places
<1> HIDE DEF w
<1>4. ASSUME i \notin Pending(rob) PROVE RsOf(i) = {} /\ IntOf(i) = {} /\ MulOf(i) = {}
  <2>1. \A h \in Places : w[h] # i
    BY <1>1, <1>4 DEF Matched
  <2> QED BY <1>2, <1>3, <2>1
<1>5. ASSUME i \in Pending(rob)
      PROVE  \/ (\E k : RsOf(i) = {k}) /\ IntOf(i) = {} /\ MulOf(i) = {}
             \/ RsOf(i) = {} /\ (\E k : IntOf(i) = {k}) /\ MulOf(i) = {}
             \/ RsOf(i) = {} /\ IntOf(i) = {} /\ (\E k : MulOf(i) = {k})
  <2>1. PICK h \in Places : w[h] = i /\ \A g \in Places : w[g] = i => g = h
    BY SMT, <1>1, <1>5 DEF Matched
  <2>2. ASSUME NEW k \in RsIdx, h = <<"rs", k>> PROVE RsOf(i) = {k} /\ IntOf(i) = {} /\ MulOf(i) = {}
    BY <1>2, <1>3, <2>1, <2>2
  <2>3. ASSUME NEW k \in IntSlots, h = <<"int", k>> PROVE RsOf(i) = {} /\ IntOf(i) = {k} /\ MulOf(i) = {}
    BY <1>2, <1>3, <2>1, <2>3
  <2>4. ASSUME NEW k \in MulSlots, h = <<"mul", k>> PROVE RsOf(i) = {} /\ IntOf(i) = {} /\ MulOf(i) = {k}
    BY <1>2, <1>3, <2>1, <2>4
  <2> QED BY <1>3, <2>1, <2>2, <2>3, <2>4
<1> QED BY <1>4, <1>5
=============================================================================
