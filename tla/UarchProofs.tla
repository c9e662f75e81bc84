---------------------------- MODULE UarchProofs -----------------------------
(***************************************************************************)
(* The state that the pipelines keep beside the architectural one.         *)
(*                                                                         *)
(* The caches are coherent and implement an atomic memory, and code that   *)
(* is not stored to is fetched as it was loaded, for any number of blocks, *)
(* words and ways and for one or two harts.  The predictors name addresses *)
(* that the instruction can go to, for tables of every size, every program *)
(* and every number of branches in flight.                                 *)
(***************************************************************************)
EXTENDS ICache, FrontEnd, TLAPS

(***************************************************************************)
(* The L2 and memory as one value, the value they give a block, and the    *)
(* agreement of clean lines with memory.                                   *)
(***************************************************************************)
Hiers == [l2 : [Blocks -> Lines], mem : [Blocks -> Data]]

Under(m, b) == IF m.l2[b].valid THEN m.l2[b].data ELSE m.mem[b]

Sound(m) == \A b \in Blocks : m.l2[b].valid /\ ~m.l2[b].dirty => m.l2[b].data = m.mem[b]

(***************************************************************************)
(* The lines that the model builds are lines.                              *)
(***************************************************************************)
LEMMA LineTypes ==
    /\ NoLine \in Lines
    /\ \A d \in Data : Clean(d) \in Lines /\ Dirty(d) \in Lines
BY Zenon, CachesAssumption DEF NoLine, Clean, Dirty, Lines, Zero, Data

(***************************************************************************)
(* Evicting a block from the L2 changes the value of no block.             *)
(***************************************************************************)
LEMMA EvictFacts ==
    ASSUME NEW m \in Hiers, Sound(m), NEW v \in Blocks
    PROVE  /\ EvictL2(m, v) \in Hiers
           /\ Sound(EvictL2(m, v))
           /\ \A c \in Blocks : Under(EvictL2(m, v), c) = Under(m, c)
<1> USE Zenon
<1> DEFINE e == EvictL2(m, v)
<1>1. m.l2 \in [Blocks -> Lines] /\ m.mem \in [Blocks -> Data]
  BY DEF Hiers
<1>2. m.l2[v].data \in Data /\ m.mem[v] \in Data
  BY <1>1 DEF Lines
<1>3. e.l2 = [m.l2 EXCEPT ![v] = NoLine]
  BY DEF EvictL2
<1>4. e.mem = [m.mem EXCEPT ![v] = IF m.l2[v].valid /\ m.l2[v].dirty THEN m.l2[v].data ELSE m.mem[v]]
  BY <1>1 DEF EvictL2
<1>5. e \in Hiers
  <2>1. e.l2 \in [Blocks -> Lines]
    BY <1>1, <1>3, LineTypes
  <2>2. e.mem \in [Blocks -> Data]
    BY <1>1, <1>2, <1>4
  <2> QED BY <2>1, <2>2 DEF EvictL2, Hiers
<1> HIDE DEF e
<1>6. Sound(e)
  BY SMT, <1>1, <1>3, <1>4 DEF Sound, NoLine
<1>7. ASSUME NEW c \in Blocks PROVE Under(e, c) = Under(m, c)
  <2>1. CASE c = v
    <3>1. ~e.l2[c].valid
      BY SMT, <1>1, <1>3, <2>1 DEF NoLine
    <3>2. Under(e, c) = e.mem[c]
      BY <3>1 DEF Under
    <3>3. e.mem[c] = Under(m, c)
      BY SMT, <1>1, <1>4, <2>1 DEF Under, Sound, Lines
    <3> QED BY <3>2, <3>3
  <2>2. CASE c # v
    BY <1>1, <1>3, <1>4, <2>2 DEF Under
  <2> QED BY <2>1, <2>2
<1> QED BY <1>5, <1>6, <1>7 DEF e

(***************************************************************************)
(* find_line only replaces blocks.                                         *)
(***************************************************************************)
LEMMA VictimsAreBlocks ==
    ASSUME NEW cache, NEW sets, NEW ways, NEW b \in Blocks,
           NEW v \in Victims(cache, sets, ways, b)
    PROVE  v \in Blocks
BY Zenon DEF Victims

(***************************************************************************)
(* A write-back gives one block its value and leaves the others alone.     *)
(***************************************************************************)
LEMMA L2WriteFacts ==
    ASSUME NEW m \in Hiers, Sound(m), NEW b \in Blocks, NEW d \in Data,
           NEW r \in access_l2_write(m, b, d)
    PROVE  /\ r \in Hiers /\ Sound(r)
           /\ Under(r, b) = d
           /\ \A c \in Blocks : c # b => Under(r, c) = Under(m, c)
<1> USE Zenon
<1>1. PICK e \in Hiers : /\ Sound(e)
                         /\ \A c \in Blocks : Under(e, c) = Under(m, c)
                         /\ r = [e EXCEPT !.l2 = [e.l2 EXCEPT ![b] = Dirty(d)]]
  <2>1. CASE m.l2[b].valid
    BY <2>1 DEF access_l2_write
  <2>2. CASE ~m.l2[b].valid
    <3>1. PICK v \in Victims(m.l2, L2_SETS, L2_WAYS, b) :
             r = LET e == EvictL2(m, v) IN [e EXCEPT !.l2 = [@ EXCEPT ![b] = Dirty(d)]]
      BY <2>2 DEF access_l2_write
    <3>2. v \in Blocks
      BY VictimsAreBlocks
    <3> QED BY <3>1, <3>2, EvictFacts
  <2> QED BY <2>1, <2>2
<1>2. e.l2 \in [Blocks -> Lines] /\ e.mem \in [Blocks -> Data]
  BY DEF Hiers
<1>3. r.l2 = [e.l2 EXCEPT ![b] = Dirty(d)] /\ r.mem = e.mem
  BY <1>1 DEF Hiers
<1>4. r \in Hiers
  <2>1. r.l2 \in [Blocks -> Lines]
    BY <1>2, <1>3, LineTypes
  <2> QED BY <1>1, <1>2, <1>3, <2>1 DEF Hiers
<1>5. Sound(r)
  BY SMT, <1>1, <1>2, <1>3 DEF Sound, Dirty
<1>6. Under(r, b) = d
  BY SMT, <1>2, <1>3 DEF Under, Dirty
<1>7. \A c \in Blocks : c # b => Under(r, c) = Under(m, c)
  BY SMT, <1>1, <1>2, <1>3 DEF Under
<1> QED BY <1>4, <1>5, <1>6, <1>7

(***************************************************************************)
(* A fill from the L2 changes no value, and leaves the block in the L2.    *)
(***************************************************************************)
LEMMA L2ReadFacts ==
    ASSUME NEW m \in Hiers, Sound(m), NEW b \in Blocks, NEW r \in access_l2_read(m, b)
    PROVE  /\ r \in Hiers /\ Sound(r)
           /\ r.l2[b].valid
           /\ \A c \in Blocks : Under(r, c) = Under(m, c)
<1> USE Zenon
<1>1. CASE m.l2[b].valid
  BY <1>1 DEF access_l2_read
<1>2. CASE ~m.l2[b].valid
  <2>1. PICK v \in Victims(m.l2, L2_SETS, L2_WAYS, b) :
           r = LET e == EvictL2(m, v) IN [e EXCEPT !.l2 = [@ EXCEPT ![b] = Clean(e.mem[b])]]
    BY <1>2 DEF access_l2_read
  <2>2. v \in Blocks
    BY VictimsAreBlocks
  <2>3. PICK e : e = EvictL2(m, v)
    OBVIOUS
  <2>4. /\ e \in Hiers /\ Sound(e)
        /\ \A c \in Blocks : Under(e, c) = Under(m, c)
    BY <2>2, <2>3, EvictFacts
  <2>5. e.l2 \in [Blocks -> Lines] /\ e.mem \in [Blocks -> Data]
    BY <2>4 DEF Hiers
  <2>6. ~e.l2[b].valid
    BY <1>2, <2>2, <2>3 DEF EvictL2, NoLine, Hiers
  <2>7. r = [e EXCEPT !.l2 = [e.l2 EXCEPT ![b] = Clean(e.mem[b])]]
    BY <2>1, <2>3
  <2>8. r.l2 = [e.l2 EXCEPT ![b] = Clean(e.mem[b])] /\ r.mem = e.mem
    BY <2>4, <2>7 DEF Hiers
  <2>9. r \in Hiers
    <3>1. r.l2 \in [Blocks -> Lines]
      BY SMT, <2>5, <2>8, LineTypes
    <3> QED BY <2>4, <2>5, <2>7, <2>8, <3>1 DEF Hiers
  <2>10. Sound(r)
    BY SMT, <2>4, <2>5, <2>8 DEF Sound, Clean
  <2>11. r.l2[b].valid
    BY SMT, <2>5, <2>8 DEF Clean
  <2>12. \A c \in Blocks : Under(r, c) = Under(e, c)
    BY SMT, <2>5, <2>6, <2>8 DEF Under, Clean
  <2> QED BY <2>4, <2>9, <2>10, <2>11, <2>12
<1> QED BY <1>1, <1>2

(***************************************************************************)
(* One L1 above the L2: a dirty line, the agreement of clean lines with    *)
(* the levels below, and the value the L1 and the levels below give c.     *)
(***************************************************************************)
IsDirty(line) == line.valid /\ line.dirty

CleanAgrees(l1, m) ==
    \A c \in Blocks : l1[c].valid /\ ~l1[c].dirty => l1[c].data = Under(m, c)

ValueIn(l1, m, c) == IF IsDirty(l1[c]) THEN l1[c].data ELSE Under(m, c)

Lower(r) == [l2 |-> r.l2, mem |-> r.mem]

(***************************************************************************)
(* Writing back an L1 victim moves its value down and no other.            *)
(***************************************************************************)
LEMMA WriteBackFacts ==
    ASSUME NEW l1 \in [Blocks -> Lines], NEW m \in Hiers, Sound(m), NEW v \in Blocks,
           NEW w \in WriteBack(l1, m, v)
    PROVE  /\ w \in Hiers /\ Sound(w)
           /\ IsDirty(l1[v]) => Under(w, v) = l1[v].data
           /\ ~IsDirty(l1[v]) => w = m
           /\ \A c \in Blocks : c # v => Under(w, c) = Under(m, c)
<1> USE Zenon
<1>1. l1[v].data \in Data
  BY DEF Lines
<1>2. CASE IsDirty(l1[v])
  <2>1. w \in access_l2_write(m, v, l1[v].data)
    BY <1>2 DEF WriteBack, IsDirty
  <2> QED BY SMT, <1>1, <1>2, <2>1, L2WriteFacts
<1>3. CASE ~IsDirty(l1[v])
  <2>1. w = m
    BY <1>3 DEF WriteBack, IsDirty
  <2> QED BY <1>3, <2>1
<1> QED BY <1>2, <1>3

(***************************************************************************)
(* A fill of block b into an L1 that misses on it.                         *)
(***************************************************************************)
LEMMA FetchFacts ==
    ASSUME NEW l1 \in [Blocks -> Lines], NEW m \in Hiers, Sound(m), CleanAgrees(l1, m),
           NEW b \in Blocks, ~l1[b].valid, NEW r \in fetch_block(l1, m, b)
    PROVE  /\ r.l1 \in [Blocks -> Lines] /\ Lower(r) \in Hiers /\ Sound(Lower(r))
           /\ CleanAgrees(r.l1, Lower(r))
           /\ r.l1[b].valid
           /\ \A c \in Blocks : ValueIn(r.l1, Lower(r), c) = ValueIn(l1, m, c)
           /\ \A c \in Blocks : IsDirty(r.l1[c]) => IsDirty(l1[c])
           /\ \A c \in Blocks : Under(Lower(r), c) = Under(m, c) \/ IsDirty(l1[c])
           /\ \A c \in Blocks : c # b /\ r.l1[c].valid => l1[c].valid
<1> USE Zenon
<1>1. PICK v \in Victims(l1, L1_SETS, L1_WAYS, b) :
        \E w \in WriteBack(l1, m, v) : \E q \in access_l2_read(w, b) :
          r = [l1  |-> [[l1 EXCEPT ![v] = NoLine] EXCEPT ![b] = Clean(q.l2[b].data)],
               l2  |-> q.l2, mem |-> q.mem]
  BY SMT DEF fetch_block
<1>2. v \in Blocks
  BY VictimsAreBlocks
<1>3. PICK w \in WriteBack(l1, m, v) : \E q \in access_l2_read(w, b) :
          r = [l1  |-> [[l1 EXCEPT ![v] = NoLine] EXCEPT ![b] = Clean(q.l2[b].data)],
               l2  |-> q.l2, mem |-> q.mem]
  BY <1>1
<1>4. PICK q \in access_l2_read(w, b) :
          r = [l1  |-> [[l1 EXCEPT ![v] = NoLine] EXCEPT ![b] = Clean(q.l2[b].data)],
               l2  |-> q.l2, mem |-> q.mem]
  BY <1>3
<1>5. /\ w \in Hiers /\ Sound(w)
      /\ IsDirty(l1[v]) => Under(w, v) = l1[v].data
      /\ ~IsDirty(l1[v]) => w = m
      /\ \A c \in Blocks : c # v => Under(w, c) = Under(m, c)
  BY SMT, <1>2, WriteBackFacts
<1>6. /\ q \in Hiers /\ Sound(q)
      /\ q.l2[b].valid
      /\ \A c \in Blocks : Under(q, c) = Under(w, c)
  BY <1>5, L2ReadFacts
<1>7. Lower(r) = q
  BY <1>4, <1>6 DEF Lower, Hiers
<1>8. q.l2[b].data = Under(q, b) /\ q.l2[b].data \in Data
  BY <1>6 DEF Under, Hiers, Lines
<1>9. /\ r.l1 \in [Blocks -> Lines]
      /\ r.l1[b] = Clean(Under(q, b))
      /\ \A c \in Blocks : c # b => r.l1[c] = IF c = v THEN NoLine ELSE l1[c]
  <2>1. r.l1 = [[l1 EXCEPT ![v] = NoLine] EXCEPT ![b] = Clean(Under(q, b))]
    BY <1>4, <1>8
  <2>2. Clean(Under(q, b)) \in Lines
    BY <1>8, LineTypes
  <2> QED BY <1>2, <2>1, <2>2, LineTypes
<1>10. \A c \in Blocks : Under(q, c) = ValueIn(l1, m, c) \/ (c # v /\ IsDirty(l1[c]))
  BY <1>2, <1>5, <1>6 DEF ValueIn
<1>11. \A c \in Blocks : c # v => Under(q, c) = Under(m, c)
  BY <1>5, <1>6
<1>12. ~IsDirty(l1[v]) => Under(q, v) = Under(m, v)
  BY <1>2, <1>5, <1>6
<1>13. \A c \in Blocks : Under(q, c) = Under(m, c) \/ IsDirty(l1[c])
  BY <1>11, <1>12
<1>14. CleanAgrees(r.l1, q)
  BY SMT, <1>9, <1>11 DEF CleanAgrees, Clean, NoLine
<1>15. \A c \in Blocks : ValueIn(r.l1, q, c) = ValueIn(l1, m, c)
  <2> TAKE c \in Blocks
  <2>1. CASE c = b
    <3>1. ~IsDirty(r.l1[c]) /\ ~IsDirty(l1[c])
      BY SMT, <1>9, <2>1 DEF IsDirty, Clean
    <3> QED BY <3>1, <1>13 DEF ValueIn
  <2>2. CASE c # b /\ c = v
    <3>1. ~IsDirty(r.l1[c])
      BY SMT, <1>9, <2>2 DEF IsDirty, NoLine
    <3> QED BY <3>1, <1>10, <2>2 DEF ValueIn
  <2>3. CASE c # b /\ c # v
    BY <1>9, <1>11, <2>3 DEF ValueIn
  <2> QED BY <2>1, <2>2, <2>3
<1>16. /\ r.l1[b].valid
       /\ \A c \in Blocks : IsDirty(r.l1[c]) => IsDirty(l1[c])
       /\ \A c \in Blocks : c # b /\ r.l1[c].valid => l1[c].valid
  BY SMT, <1>9 DEF IsDirty, Clean, NoLine
<1> QED BY <1>6, <1>7, <1>9, <1>13, <1>14, <1>15, <1>16

(***************************************************************************)
(* The same when the L1 may hit.                                           *)
(***************************************************************************)
LEMMA CachedFacts ==
    ASSUME NEW l1 \in [Blocks -> Lines], NEW m \in Hiers, Sound(m), CleanAgrees(l1, m),
           NEW b \in Blocks, NEW r \in Cached(l1, m, b)
    PROVE  /\ r.l1 \in [Blocks -> Lines] /\ Lower(r) \in Hiers /\ Sound(Lower(r))
           /\ CleanAgrees(r.l1, Lower(r))
           /\ r.l1[b].valid
           /\ \A c \in Blocks : ValueIn(r.l1, Lower(r), c) = ValueIn(l1, m, c)
           /\ \A c \in Blocks : IsDirty(r.l1[c]) => IsDirty(l1[c])
           /\ \A c \in Blocks : Under(Lower(r), c) = Under(m, c) \/ IsDirty(l1[c])
           /\ \A c \in Blocks : c # b /\ r.l1[c].valid => l1[c].valid
<1> USE Zenon
<1>1. CASE l1[b].valid
  <2>1. r = [l1 |-> l1, l2 |-> m.l2, mem |-> m.mem]
    BY <1>1 DEF Cached
  <2>2. r.l1 = l1 /\ Lower(r) = m
    BY <2>1 DEF Lower, Hiers
  <2> QED BY <1>1, <2>2
<1>2. CASE ~l1[b].valid
  BY <1>2, FetchFacts DEF Cached
<1> QED BY <1>1, <1>2

(***************************************************************************)
(* All L1Ds together: coherence of L1Ds L above levels m, the value d they *)
(* give block c, and that K has no dirty line that L has not.              *)
(***************************************************************************)
L1ds == [Harts -> [Blocks -> Lines]]

Coh(L, m) ==
    /\ Sound(m)
    /\ \A h \in Harts : CleanAgrees(L[h], m)
    /\ \A h, g \in Harts, c \in Blocks : h # g /\ IsDirty(L[h][c]) => ~L[g][c].valid

IsValue(L, m, c, d) ==
    /\ \A h \in Harts : IsDirty(L[h][c]) => d = L[h][c].data
    /\ (\A h \in Harts : ~IsDirty(L[h][c])) => d = Under(m, c)

NoNewDirty(L, K) == \A h \in Harts, c \in Blocks : IsDirty(K[h][c]) => IsDirty(L[h][c])

(***************************************************************************)
(* A hart brings block b into its L1D while no other L1D has it dirty.     *)
(***************************************************************************)
LEMMA AccessFacts ==
    ASSUME NEW L \in L1ds, NEW m \in Hiers, Coh(L, m), NEW h \in Harts, NEW b \in Blocks,
           \A g \in Harts : g # h => ~IsDirty(L[g][b]),
           NEW r \in Cached(L[h], m, b)
    PROVE  /\ r.l1 \in [Blocks -> Lines] /\ r.l1[b].valid
           /\ Lower(r) \in Hiers
           /\ [L EXCEPT ![h] = r.l1] \in L1ds
           /\ Coh([L EXCEPT ![h] = r.l1], Lower(r))
           /\ \A c \in Blocks : \A d :
                IsValue(L, m, c, d) => IsValue([L EXCEPT ![h] = r.l1], Lower(r), c, d)
           /\ IsValue([L EXCEPT ![h] = r.l1], Lower(r), b, r.l1[b].data)
           /\ NoNewDirty(L, [L EXCEPT ![h] = r.l1])
<1> USE Zenon
<1> DEFINE K == [L EXCEPT ![h] = r.l1]
           k == Lower(r)
<1>1. L[h] \in [Blocks -> Lines] /\ Sound(m) /\ CleanAgrees(L[h], m)
  BY DEF L1ds, Coh
<1>2. /\ r.l1 \in [Blocks -> Lines] /\ k \in Hiers /\ Sound(k)
      /\ CleanAgrees(r.l1, k)
      /\ r.l1[b].valid
      /\ \A c \in Blocks : ValueIn(r.l1, k, c) = ValueIn(L[h], m, c)
      /\ \A c \in Blocks : IsDirty(r.l1[c]) => IsDirty(L[h][c])
      /\ \A c \in Blocks : Under(k, c) = Under(m, c) \/ IsDirty(L[h][c])
      /\ \A c \in Blocks : c # b /\ r.l1[c].valid => L[h][c].valid
  BY <1>1, CachedFacts
<1>3. K \in L1ds /\ K[h] = r.l1 /\ \A g \in Harts : g # h => K[g] = L[g]
  BY <1>2 DEF L1ds
<1> HIDE DEF K, k
<1>4. \A g \in Harts : CleanAgrees(K[g], k)
  <2> TAKE g \in Harts
  <2>1. CASE g = h
    BY <1>2, <1>3, <2>1
  <2>2. CASE g # h
    <3>1. CleanAgrees(L[g], m)
      BY DEF Coh
    <3>2. \A c \in Blocks : L[g][c].valid => ~IsDirty(L[h][c])
      BY <2>2 DEF Coh
    <3> QED BY <1>2, <1>3, <2>2, <3>1, <3>2 DEF CleanAgrees
  <2> QED BY <2>1, <2>2
<1>5. \A f, g \in Harts, c \in Blocks : f # g /\ IsDirty(K[f][c]) => ~K[g][c].valid
  <2> SUFFICES ASSUME NEW f \in Harts, NEW g \in Harts, NEW c \in Blocks,
                      f # g, IsDirty(K[f][c])
               PROVE  ~K[g][c].valid
    OBVIOUS
  <2>1. IsDirty(L[f][c])
    BY <1>2, <1>3
  <2>2. ~L[g][c].valid
    BY <2>1 DEF Coh
  <2>3. c # b \/ g # h
    BY <2>1
  <2> QED BY <1>2, <1>3, <2>2, <2>3
<1>6. Coh(K, k)
  BY <1>2, <1>4, <1>5 DEF Coh
<1>7. \A c \in Blocks : \A d : IsValue(L, m, c, d) => IsValue(K, k, c, d)
  <2> SUFFICES ASSUME NEW c \in Blocks, NEW d, IsValue(L, m, c, d)
               PROVE  IsValue(K, k, c, d)
    OBVIOUS
  <2>1. ValueIn(r.l1, k, c) = ValueIn(L[h], m, c)
    BY <1>2
  <2>2. CASE \E g \in Harts : g # h /\ IsDirty(L[g][c])
    <3>1. PICK g \in Harts : g # h /\ IsDirty(L[g][c])
      BY <2>2
    <3>2. d = K[g][c].data /\ IsDirty(K[g][c])
      BY <1>3, <3>1 DEF IsValue
    <3>3. \A f \in Harts : f # g => ~IsDirty(K[f][c])
      BY <1>5, <3>2 DEF IsDirty
    <3> QED BY <3>2, <3>3 DEF IsValue
  <2>3. CASE \A g \in Harts : g # h => ~IsDirty(L[g][c])
    <3>1. d = ValueIn(L[h], m, c)
      <4>1. CASE IsDirty(L[h][c])
        BY <4>1 DEF IsValue, ValueIn
      <4>2. CASE ~IsDirty(L[h][c])
        <5>1. \A g \in Harts : ~IsDirty(L[g][c])
          BY <2>3, <4>2
        <5> QED BY <4>2, <5>1 DEF IsValue, ValueIn
      <4> QED BY <4>1, <4>2
    <3>2. \A g \in Harts : g # h => ~IsDirty(K[g][c])
      BY <1>3, <2>3
    <3>3. d = ValueIn(K[h], k, c)
      BY <1>3, <2>1, <3>1
    <3> QED BY <3>2, <3>3 DEF IsValue, ValueIn
  <2> QED BY <2>2, <2>3
<1>8. IsValue(K, k, b, r.l1[b].data)
  <2>1. \A g \in Harts : g # h => ~IsDirty(K[g][b])
    BY <1>3
  <2>2. ~IsDirty(r.l1[b]) => r.l1[b].data = Under(k, b)
    BY <1>2 DEF CleanAgrees, IsDirty
  <2> QED BY <1>3, <2>1, <2>2 DEF IsValue
<1>9. NoNewDirty(L, K)
  BY <1>2, <1>3 DEF NoNewDirty
<1> QED BY <1>2, <1>3, <1>6, <1>7, <1>8, <1>9 DEF K, k

(***************************************************************************)
(* The state, and the part of its type that the proofs use.                *)
(***************************************************************************)
Low == [l2 |-> l2, mem |-> mem]

LinesOK == l1d \in L1ds /\ Low \in Hiers

(***************************************************************************)
(* The property Coherent is Coh of the state.                              *)
(***************************************************************************)
LEMMA CoherentIsCoh ==
    Coherent <=> Coh(l1d, Low)
BY Zenon DEF Coherent, Coh, Low, Sound, CleanAgrees, DirtyIn, IsDirty, Below, Under

(***************************************************************************)
(* There are at most two harts, and 1 - h is the other one.                *)
(***************************************************************************)
LEMMA HartsFacts ==
    /\ \A h, g \in Harts : g # h => g = 1 - h
    /\ NUM_CORES # 1 => \A h \in Harts : 1 - h \in Harts /\ 1 - h # h
    /\ NUM_CORES = 1 => \A h, g \in Harts : g = h
BY CachesAssumption DEF Harts

(***************************************************************************)
(* What the snoops have in common: the other hart's line of b becomes a    *)
(* clean or an invalid one, its data is written back if it was dirty, and  *)
(* coherence and every value are kept.                                     *)
(***************************************************************************)
LEMMA SnoopedFacts ==
    ASSUME LinesOK, Coh(l1d, Low), NEW h \in Harts, NUM_CORES # 1, NEW b \in Blocks,
           NEW line \in Lines, ~IsDirty(line),
           line.valid => l1d[1 - h][b].valid /\ line.data = l1d[1 - h][b].data,
           NEW s \in Snooped(line, h, b, IsDirty(l1d[1 - h][b]))
    PROVE  /\ s.l1d \in L1ds /\ Lower(s) \in Hiers
           /\ Coh(s.l1d, Lower(s))
           /\ \A c \in Blocks : \A d :
                IsValue(l1d, Low, c, d) => IsValue(s.l1d, Lower(s), c, d)
           /\ s.l1d[1 - h][b] = line
           /\ NoNewDirty(l1d, s.l1d)
<1> USE Zenon
<1> DEFINE o == 1 - h
           K == s.l1d
           k == Lower(s)
           wb == IsDirty(l1d[o][b])
<1>1. o \in Harts /\ o # h /\ \A g \in Harts : g # h => g = o
  BY HartsFacts
<1>2. l1d[o] \in [Blocks -> Lines] /\ l1d[o][b].data \in Data
  BY <1>1 DEF LinesOK, L1ds, Lines
<1>3. PICK w \in IF wb THEN access_l2_write(Low, b, l1d[o][b].data) ELSE {Low} :
         s = [l1d |-> [l1d EXCEPT ![o] = [@ EXCEPT ![b] = line]], l2 |-> w.l2, mem |-> w.mem]
  BY DEF Snooped, Low
<1>4. /\ w \in Hiers /\ Sound(w)
      /\ wb => Under(w, b) = l1d[o][b].data
      /\ ~wb => w = Low
      /\ \A c \in Blocks : c # b => Under(w, c) = Under(Low, c)
  <2>0. Low \in Hiers /\ Sound(Low)
    BY DEF LinesOK, Coh
  <2>1. CASE wb
    BY SMT, <1>2, <1>3, <2>0, <2>1, L2WriteFacts
  <2>2. CASE ~wb
    BY <1>3, <2>0, <2>2
  <2> QED BY <2>1, <2>2
<1>5. k = w
  BY <1>3, <1>4 DEF Lower, Hiers
<1>6. /\ K \in L1ds
      /\ \A g \in Harts : g # o => K[g] = l1d[g]
      /\ K[o][b] = line
      /\ \A c \in Blocks : c # b => K[o][c] = l1d[o][c]
  <2>1. K = [l1d EXCEPT ![o] = [l1d[o] EXCEPT ![b] = line]]
    BY <1>1, <1>3 DEF LinesOK, L1ds
  <2> QED BY SMT, <1>1, <1>2, <2>1 DEF LinesOK, L1ds
<1> HIDE DEF o, K, k
<1>7. \A f \in Harts, c \in Blocks : IsDirty(K[f][c]) => IsDirty(l1d[f][c]) /\ (f # o \/ c # b)
  BY <1>6
<1>8. \A f \in Harts, c \in Blocks : K[f][c].valid => l1d[f][c].valid /\ K[f][c].data = l1d[f][c].data
  BY <1>6 DEF o
<1>9. \A c \in Blocks : c # b => Under(k, c) = Under(Low, c)
  BY <1>4, <1>5
<1>10. \A f, g \in Harts, c \in Blocks : f # g /\ IsDirty(K[f][c]) => ~K[g][c].valid
  BY <1>7, <1>8 DEF Coh
<1>11. ASSUME NEW f \in Harts PROVE CleanAgrees(K[f], k)
  <2> SUFFICES ASSUME NEW c \in Blocks, K[f][c].valid, ~K[f][c].dirty
               PROVE  K[f][c].data = Under(k, c)
    BY DEF CleanAgrees
  <2>1. CASE c # b
    <3>1. K[f][c] = l1d[f][c]
      BY <1>6, <2>1
    <3> QED BY SMT, <1>9, <2>1, <3>1 DEF Coh, CleanAgrees
  <2>2. CASE c = b /\ wb
    <3>1. IsDirty(l1d[o][b])
      BY <2>2 DEF o
    <3>2. f = o
      BY <1>1, <1>8, <2>2, <3>1 DEF Coh
    <3> QED BY <1>4, <1>5, <1>8, <2>2, <3>2
  <2>3. CASE c = b /\ ~wb
    <3>1. ~IsDirty(l1d[f][c])
      <4>1. CASE f = o
        BY <2>3, <4>1 DEF o
      <4>2. CASE f # o
        BY <1>6, <4>2 DEF IsDirty
      <4> QED BY <4>1, <4>2
    <3>2. l1d[f][c].valid /\ ~l1d[f][c].dirty /\ K[f][c].data = l1d[f][c].data
      BY <1>8, <3>1 DEF IsDirty
    <3> QED BY <1>4, <1>5, <2>3, <3>2 DEF Coh, CleanAgrees
  <2> QED BY <2>1, <2>2, <2>3
<1>12. Coh(K, k)
  BY <1>4, <1>5, <1>10, <1>11 DEF Coh
<1>13. ASSUME NEW c \in Blocks, NEW d, IsValue(l1d, Low, c, d)
       PROVE  IsValue(K, k, c, d)
  <2>1. CASE c # b
    <3>1. \A f \in Harts : K[f][c] = l1d[f][c]
      BY <1>6, <2>1
    <3> QED BY <1>9, <1>13, <2>1, <3>1 DEF IsValue
  <2>2. CASE c = b /\ wb
    <3>1. IsDirty(l1d[o][b])
      BY <2>2 DEF o
    <3>2. d = Under(k, b)
      BY <1>1, <1>4, <1>5, <1>13, <2>2, <3>1 DEF IsValue
    <3>3. \A f \in Harts : f # o => ~IsDirty(l1d[f][b])
      BY <1>1, <3>1 DEF Coh, IsDirty
    <3>4. \A f \in Harts : ~IsDirty(K[f][b])
      BY <1>7, <3>3
    <3> QED BY <2>2, <3>2, <3>4 DEF IsValue
  <2>3. CASE c = b /\ ~wb
    <3>1. ~IsDirty(l1d[o][b])
      BY <2>3 DEF o
    <3>2. \A f \in Harts : f # o => K[f][b] = l1d[f][b]
      BY <1>6
    <3>3. ~IsDirty(K[o][b])
      BY <1>6
    <3> QED BY <1>4, <1>5, <1>13, <2>3, <3>1, <3>2, <3>3 DEF IsValue
  <2> QED BY <2>1, <2>2, <2>3
<1>14. NoNewDirty(l1d, K)
  BY <1>7 DEF NoNewDirty
<1> QED BY <1>4, <1>5, <1>6, <1>12, <1>13, <1>14 DEF o, K, k

(***************************************************************************)
(* cache_snoop_flush_dirty leaves no dirty copy in another L1D.            *)
(***************************************************************************)
LEMMA FlushFacts ==
    ASSUME LinesOK, Coh(l1d, Low), NEW h \in Harts, NEW b \in Blocks,
           NEW s \in cache_snoop_flush_dirty(h, b)
    PROVE  /\ s.l1d \in L1ds /\ Lower(s) \in Hiers
           /\ Coh(s.l1d, Lower(s))
           /\ \A c \in Blocks : \A d :
                IsValue(l1d, Low, c, d) => IsValue(s.l1d, Lower(s), c, d)
           /\ \A g \in Harts : g # h => ~IsDirty(s.l1d[g][b])
           /\ NoNewDirty(l1d, s.l1d)
<1> USE Zenon
<1>1. CASE NUM_CORES = 1 \/ ~IsDirty(l1d[1 - h][b])
  <2>1. s = [l1d |-> l1d, l2 |-> l2, mem |-> mem]
    BY <1>1 DEF cache_snoop_flush_dirty, IsDirty
  <2>2. s.l1d = l1d /\ Lower(s) = Low
    BY <2>1 DEF Lower, Low
  <2>3. \A g \in Harts : g # h => ~IsDirty(l1d[g][b])
    BY <1>1, HartsFacts
  <2>4. NoNewDirty(l1d, s.l1d)
    BY <2>2 DEF NoNewDirty
  <2> QED BY <2>2, <2>3, <2>4 DEF LinesOK
<1>2. CASE NUM_CORES # 1 /\ IsDirty(l1d[1 - h][b])
  <2>1. 1 - h \in Harts
    BY <1>2, HartsFacts
  <2>2. l1d[1 - h][b].data \in Data
    BY <2>1 DEF LinesOK, L1ds, Lines
  <2>3. PICK line \in Lines : line = Clean(l1d[1 - h][b].data)
    BY <2>2, LineTypes
  <2>4. s \in Snooped(line, h, b, IsDirty(l1d[1 - h][b]))
    <3>1. s \in Snooped(line, h, b, TRUE)
      BY <1>2, <2>3 DEF cache_snoop_flush_dirty, IsDirty
    <3>2. IsDirty(l1d[1 - h][b]) = TRUE
      BY <1>2 DEF IsDirty
    <3> QED BY <3>1, <3>2
  <2>5. /\ ~IsDirty(line)
        /\ l1d[1 - h][b].valid /\ line.data = l1d[1 - h][b].data
    BY <1>2, <2>3 DEF Clean, IsDirty
  <2>6. /\ s.l1d \in L1ds /\ Lower(s) \in Hiers
        /\ Coh(s.l1d, Lower(s))
        /\ \A c \in Blocks : \A d :
             IsValue(l1d, Low, c, d) => IsValue(s.l1d, Lower(s), c, d)
        /\ s.l1d[1 - h][b] = line
        /\ NoNewDirty(l1d, s.l1d)
    <3>1. NUM_CORES # 1
      BY <1>2
    <3>2. line.valid => l1d[1 - h][b].valid /\ line.data = l1d[1 - h][b].data
      BY <2>5
    <3>3. ~IsDirty(line)
      BY <2>5
    <3> QED BY <2>4, <3>1, <3>2, <3>3, SnoopedFacts
  <2> QED BY <2>5, <2>6, HartsFacts
<1> QED BY <1>1, <1>2

(***************************************************************************)
(* cache_snoop_invalidate leaves no copy in another L1D.                   *)
(***************************************************************************)
LEMMA InvalidateFacts ==
    ASSUME LinesOK, Coh(l1d, Low), NEW h \in Harts, NEW b \in Blocks,
           NEW s \in cache_snoop_invalidate(h, b)
    PROVE  /\ s.l1d \in L1ds /\ Lower(s) \in Hiers
           /\ Coh(s.l1d, Lower(s))
           /\ \A c \in Blocks : \A d :
                IsValue(l1d, Low, c, d) => IsValue(s.l1d, Lower(s), c, d)
           /\ \A g \in Harts : g # h => ~s.l1d[g][b].valid
           /\ NoNewDirty(l1d, s.l1d)
<1> USE Zenon
<1>1. CASE NUM_CORES = 1 \/ ~l1d[1 - h][b].valid
  <2>1. s = [l1d |-> l1d, l2 |-> l2, mem |-> mem]
    BY <1>1 DEF cache_snoop_invalidate
  <2>2. s.l1d = l1d /\ Lower(s) = Low
    BY <2>1 DEF Lower, Low
  <2>3. \A g \in Harts : g # h => ~l1d[g][b].valid
    BY <1>1, HartsFacts
  <2>4. NoNewDirty(l1d, s.l1d)
    BY <2>2 DEF NoNewDirty
  <2> QED BY <2>2, <2>3, <2>4 DEF LinesOK
<1>2. CASE NUM_CORES # 1 /\ l1d[1 - h][b].valid
  <2>1. s \in Snooped(NoLine, h, b, l1d[1 - h][b].dirty)
    BY <1>2 DEF cache_snoop_invalidate
  <2>2. 1 - h \in Harts
    BY <1>2, HartsFacts
  <2>3. l1d[1 - h][b].dirty = IsDirty(l1d[1 - h][b])
    BY <1>2, <2>2 DEF LinesOK, L1ds, Lines, IsDirty
  <2>4. NoLine \in Lines /\ ~IsDirty(NoLine) /\ ~NoLine.valid
    BY LineTypes DEF NoLine, IsDirty
  <2>5. /\ s.l1d \in L1ds /\ Lower(s) \in Hiers
        /\ Coh(s.l1d, Lower(s))
        /\ \A c \in Blocks : \A d :
             IsValue(l1d, Low, c, d) => IsValue(s.l1d, Lower(s), c, d)
        /\ s.l1d[1 - h][b] = NoLine
        /\ NoNewDirty(l1d, s.l1d)
    BY <1>2, <2>1, <2>3, <2>4, SnoopedFacts
  <2> QED BY <2>4, <2>5, HartsFacts
<1> QED BY <1>1, <1>2

-----------------------------------------------------------------------------
(***************************************************************************)
(* The steps.  CInv is inductive: what a fill from the L2 brings in is the *)
(* value of the block only because no other L1D has it dirty, and that no  *)
(* clean line is stale needs the agreement of every level with the next.   *)
(***************************************************************************)
CInv == LinesOK /\ Coherent

(***************************************************************************)
(* A read keeps every value and returns the one of the block it reads.     *)
(***************************************************************************)
LEMMA ReadStep ==
    ASSUME CInv, NEW h \in Harts, NEW b \in Blocks, NEW o \in Offsets, vaddr_read(h, b, o)
    PROVE  /\ CInv'
           /\ \A c \in Blocks : \A d : IsValue(l1d, Low, c, d) => IsValue(l1d', Low', c, d)
           /\ \E x : /\ IsValue(l1d', Low', b, x)
                     /\ reply' = [hart |-> h, block |-> b, offset |-> o, value |-> x[o]]
           /\ NoNewDirty(l1d, l1d')
<1> USE Zenon
<1>0. LinesOK /\ Coh(l1d, Low)
  BY CoherentIsCoh DEF CInv
<1>1. PICK s \in cache_snoop_flush_dirty(h, b) :
        \E r \in Cached(s.l1d[h], [l2 |-> s.l2, mem |-> s.mem], b) :
          /\ l1d' = [s.l1d EXCEPT ![h] = r.l1]
          /\ l2' = r.l2 /\ mem' = r.mem
          /\ reply' = [hart |-> h, block |-> b, offset |-> o, value |-> r.l1[b].data[o]]
  BY DEF vaddr_read
<1>2. PICK r \in Cached(s.l1d[h], Lower(s), b) :
          /\ l1d' = [s.l1d EXCEPT ![h] = r.l1]
          /\ l2' = r.l2 /\ mem' = r.mem
          /\ reply' = [hart |-> h, block |-> b, offset |-> o, value |-> r.l1[b].data[o]]
  BY <1>1 DEF Lower
<1>3. /\ s.l1d \in L1ds /\ Lower(s) \in Hiers
      /\ Coh(s.l1d, Lower(s))
      /\ \A c \in Blocks : \A d :
           IsValue(l1d, Low, c, d) => IsValue(s.l1d, Lower(s), c, d)
      /\ \A g \in Harts : g # h => ~IsDirty(s.l1d[g][b])
      /\ NoNewDirty(l1d, s.l1d)
  BY <1>0, FlushFacts
<1>4. /\ Lower(r) \in Hiers
      /\ l1d' \in L1ds
      /\ Coh(l1d', Lower(r))
      /\ \A c \in Blocks : \A d :
           IsValue(s.l1d, Lower(s), c, d) => IsValue(l1d', Lower(r), c, d)
      /\ IsValue(l1d', Lower(r), b, r.l1[b].data)
      /\ NoNewDirty(s.l1d, l1d')
  BY <1>2, <1>3, AccessFacts
<1>5. Low' = Lower(r)
  BY <1>2 DEF Low, Lower
<1>6. LinesOK' /\ Coh(l1d', Low')
  BY <1>4, <1>5 DEF LinesOK
<1>7. Coherent'
  BY SMT, <1>6, CoherentIsCoh DEF Coherent, Coh, Low, Sound, CleanAgrees, DirtyIn, IsDirty, Below,
     Under
<1>8. \A c \in Blocks : \A d : IsValue(l1d, Low, c, d) => IsValue(l1d', Low', c, d)
  BY <1>3, <1>4, <1>5
<1>9. \E x : /\ IsValue(l1d', Low', b, x)
            /\ reply' = [hart |-> h, block |-> b, offset |-> o, value |-> x[o]]
  BY <1>2, <1>4, <1>5
<1>10. NoNewDirty(l1d, l1d')
  BY <1>3, <1>4 DEF NoNewDirty
<1> QED BY <1>6, <1>7, <1>8, <1>9, <1>10 DEF CInv

(***************************************************************************)
(* A store into a block that no other L1D holds.                           *)
(***************************************************************************)
LEMMA StoreFacts ==
    ASSUME NEW K \in L1ds, NEW k \in Hiers, Coh(K, k), NEW h \in Harts, NEW b \in Blocks,
           \A g \in Harts : g # h => ~K[g][b].valid,
           NEW d \in Data, NEW S \in L1ds, S[h][b] = Dirty(d),
           \A g \in Harts, c \in Blocks : g # h \/ c # b => S[g][c] = K[g][c]
    PROVE  /\ Coh(S, k)
           /\ IsValue(S, k, b, d)
           /\ \A c \in Blocks : \A e : c # b /\ IsValue(K, k, c, e) => IsValue(S, k, c, e)
<1> USE Zenon
<1>1. S[h][b] = Dirty(d)
  OBVIOUS
<1>2. \A g \in Harts, c \in Blocks : c # b => S[g][c] = K[g][c]
  OBVIOUS
<1>3. IsDirty(Dirty(d)) /\ Dirty(d).data = d
  BY DEF IsDirty, Dirty
<1>4. \A g \in Harts : g # h => ~S[g][b].valid
  OBVIOUS
<1>5. \A g \in Harts : CleanAgrees(S[g], k)
  <2> SUFFICES ASSUME NEW g \in Harts, NEW c \in Blocks, S[g][c].valid, ~S[g][c].dirty
               PROVE  S[g][c].data = Under(k, c)
    BY DEF CleanAgrees
  <2>1. c # b
    BY <1>1, <1>3, <1>4 DEF IsDirty
  <2> QED BY SMT, <1>2, <2>1 DEF Coh, CleanAgrees
<1>6. \A f, g \in Harts, c \in Blocks : f # g /\ IsDirty(S[f][c]) => ~S[g][c].valid
  <2> SUFFICES ASSUME NEW f \in Harts, NEW g \in Harts, NEW c \in Blocks, f # g, IsDirty(S[f][c])
               PROVE  ~S[g][c].valid
    OBVIOUS
  <2>1. CASE c = b
    BY <1>4, <2>1 DEF IsDirty
  <2>2. CASE c # b
    BY <1>2, <2>2 DEF Coh
  <2> QED BY <2>1, <2>2
<1>7. Coh(S, k)
  BY <1>5, <1>6 DEF Coh
<1>8. IsValue(S, k, b, d)
  BY <1>1, <1>3, <1>4 DEF IsValue, IsDirty
<1>9. \A c \in Blocks : \A e : c # b /\ IsValue(K, k, c, e) => IsValue(S, k, c, e)
  BY <1>2 DEF IsValue
<1> QED BY <1>1, <1>7, <1>8, <1>9

(***************************************************************************)
(* A write changes one word of one block.                                  *)
(***************************************************************************)
LEMMA WriteStep ==
    ASSUME CInv, NEW h \in Harts, NEW b \in Blocks, NEW o \in Offsets, NEW v \in Values,
           vaddr_write(h, b, o, v)
    PROVE  /\ CInv'
           /\ \A c \in Blocks : \A d : c # b /\ IsValue(l1d, Low, c, d) => IsValue(l1d', Low', c, d)
           /\ \A d : IsValue(l1d, Low, b, d) => IsValue(l1d', Low', b, [d EXCEPT ![o] = v])
           /\ reply' = NoReply
           /\ \A g \in Harts, c \in Blocks : c # b /\ IsDirty(l1d'[g][c]) => IsDirty(l1d[g][c])
<1> USE Zenon
<1>0. LinesOK /\ Coh(l1d, Low)
  BY CoherentIsCoh DEF CInv
<1>1. PICK s \in cache_snoop_invalidate(h, b) :
         \E r \in Cached(s.l1d[h], [l2 |-> s.l2, mem |-> s.mem], b) :
           /\ l1d' = [s.l1d EXCEPT ![h] =
                        [r.l1 EXCEPT ![b] = Dirty([r.l1[b].data EXCEPT ![o] = v])]]
           /\ l2' = r.l2 /\ mem' = r.mem
  BY DEF vaddr_write
<1>2. PICK r \in Cached(s.l1d[h], Lower(s), b) :
           /\ l1d' = [s.l1d EXCEPT ![h] =
                        [r.l1 EXCEPT ![b] = Dirty([r.l1[b].data EXCEPT ![o] = v])]]
           /\ l2' = r.l2 /\ mem' = r.mem
  BY <1>1 DEF Lower
<1>3. /\ s.l1d \in L1ds /\ Lower(s) \in Hiers
      /\ Coh(s.l1d, Lower(s))
      /\ \A c \in Blocks : \A d :
           IsValue(l1d, Low, c, d) => IsValue(s.l1d, Lower(s), c, d)
      /\ \A g \in Harts : g # h => ~s.l1d[g][b].valid
      /\ NoNewDirty(l1d, s.l1d)
  BY <1>0, InvalidateFacts
<1>4. \A g \in Harts : g # h => ~IsDirty(s.l1d[g][b])
  BY <1>3 DEF IsDirty
<1>5. PICK K : K = [s.l1d EXCEPT ![h] = r.l1]
  OBVIOUS
<1>6. /\ r.l1 \in [Blocks -> Lines] /\ r.l1[b].valid
      /\ Lower(r) \in Hiers
      /\ K \in L1ds
      /\ Coh(K, Lower(r))
      /\ \A c \in Blocks : \A d :
           IsValue(s.l1d, Lower(s), c, d) => IsValue(K, Lower(r), c, d)
      /\ IsValue(K, Lower(r), b, r.l1[b].data)
      /\ NoNewDirty(s.l1d, K)
  BY <1>2, <1>3, <1>4, <1>5, AccessFacts
<1>7. /\ K[h] = r.l1
      /\ \A g \in Harts : g # h => ~K[g][b].valid
  BY <1>3, <1>5 DEF L1ds
<1>8. PICK d \in Data : d = [r.l1[b].data EXCEPT ![o] = v]
  BY <1>6 DEF Lines, Data
<1>9. l1d' = [K EXCEPT ![h] = [K[h] EXCEPT ![b] = Dirty(d)]]
  BY <1>2, <1>3, <1>5, <1>7, <1>8 DEF L1ds
<1>10. /\ l1d' \in L1ds
       /\ Coh(l1d', Lower(r))
       /\ IsValue(l1d', Lower(r), b, d)
       /\ \A c \in Blocks : \A e : c # b /\ IsValue(K, Lower(r), c, e) => IsValue(l1d', Lower(r), c, e)
       /\ \A g \in Harts, c \in Blocks : c # b => l1d'[g][c] = K[g][c]
  <2>1. PICK k \in Hiers : k = Lower(r)
    BY <1>6
  <2>2. K[h] \in [Blocks -> Lines] /\ Dirty(d) \in Lines
    BY <1>6, LineTypes DEF L1ds
  <2>3. /\ l1d' \in L1ds
        /\ l1d'[h][b] = Dirty(d)
        /\ \A g \in Harts, c \in Blocks : g # h \/ c # b => l1d'[g][c] = K[g][c]
    BY <1>6, <1>9, <2>2 DEF L1ds
  <2>4. PICK S \in L1ds : S = l1d'
    BY <2>3
  <2>5. S[h][b] = Dirty(d)
    BY <2>3, <2>4
  <2>6. \A g \in Harts, c \in Blocks : g # h \/ c # b => S[g][c] = K[g][c]
    BY <2>3, <2>4
  <2>7. K \in L1ds /\ Coh(K, k)
    BY <1>6, <2>1
  <2>8. \A g \in Harts : g # h => ~K[g][b].valid
    BY <1>7
  <2>9. /\ Coh(S, k)
        /\ IsValue(S, k, b, d)
        /\ \A c \in Blocks : \A e : c # b /\ IsValue(K, k, c, e) => IsValue(S, k, c, e)
    BY SMT, <2>5, <2>6, <2>7, <2>8, StoreFacts
  <2> QED BY <2>1, <2>3, <2>4, <2>9
<1>11. Low' = Lower(r)
  BY <1>2 DEF Low, Lower
<1>12. LinesOK' /\ Coh(l1d', Low')
  BY <1>6, <1>10, <1>11 DEF LinesOK
<1>13. Coherent'
  BY <1>12 DEF Coherent, Coh, Low, Sound, CleanAgrees, DirtyIn, IsDirty, Below, Under
<1>14. \A c \in Blocks : \A e : c # b /\ IsValue(l1d, Low, c, e) => IsValue(l1d', Low', c, e)
  BY <1>3, <1>6, <1>10, <1>11
<1>15. ASSUME NEW e, IsValue(l1d, Low, b, e)
       PROVE  IsValue(l1d', Low', b, [e EXCEPT ![o] = v])
  <2>1. IsValue(K, Lower(r), b, e)
    BY <1>3, <1>6, <1>15
  <2>2. e = r.l1[b].data
    BY <1>6, <2>1 DEF IsValue
  <2> QED BY <1>8, <1>10, <1>11, <2>2
<1>16. reply' = NoReply
  BY DEF vaddr_write
<1>17. \A g \in Harts, c \in Blocks : c # b /\ IsDirty(l1d'[g][c]) => IsDirty(l1d[g][c])
  BY <1>3, <1>6, <1>10 DEF NoNewDirty
<1> QED BY <1>12, <1>13, <1>14, <1>15, <1>16, <1>17 DEF CInv

(***************************************************************************)
(* A miss of the L1I moves blocks between the L2 and memory only.          *)
(***************************************************************************)
LEMMA IfetchStep ==
    ASSUME CInv, NEW b \in Blocks, ifetch_miss(b)
    PROVE  /\ CInv'
           /\ \A c \in Blocks : \A d : IsValue(l1d, Low, c, d) => IsValue(l1d', Low', c, d)
           /\ reply' = reply
<1> USE Zenon
<1>0. LinesOK /\ Coh(l1d, Low)
  BY CoherentIsCoh DEF CInv
<1>1. PICK r \in access_l2_read(Low, b) : l2' = r.l2 /\ mem' = r.mem
  BY DEF ifetch_miss, Low
<1>2. l1d' = l1d /\ reply' = reply
  BY DEF ifetch_miss
<1>3. /\ r \in Hiers /\ Sound(r)
      /\ \A c \in Blocks : Under(r, c) = Under(Low, c)
  BY SMT, <1>0, L2ReadFacts DEF LinesOK, Coh
<1>4. Low' = r
  BY <1>1, <1>3 DEF Low, Hiers
<1>5. Coh(l1d', Low')
  BY <1>0, <1>2, <1>3, <1>4 DEF Coh, CleanAgrees
<1>6. LinesOK'
  BY <1>0, <1>2, <1>3, <1>4 DEF LinesOK
<1>7. Coherent'
  BY <1>5 DEF Coherent, Coh, Low, Sound, CleanAgrees, DirtyIn, IsDirty, Below, Under
<1>8. \A c \in Blocks : \A d : IsValue(l1d, Low, c, d) => IsValue(l1d', Low', c, d)
  BY <1>2, <1>3, <1>4 DEF IsValue
<1> QED BY <1>2, <1>6, <1>7, <1>8 DEF CInv

(***************************************************************************)
(* Empty caches are coherent.                                              *)
(***************************************************************************)
LEMMA InitCoherent ==
    ASSUME Init
    PROVE  CInv
<1> USE Zenon
<1>1. LinesOK
  BY ImageAssumption, LineTypes DEF Init, LinesOK, L1ds, Low, Hiers
<1>2. Coherent
  BY DEF Init, Coherent, DirtyIn, NoLine
<1> QED BY <1>1, <1>2 DEF CInv

(***************************************************************************)
(* Every step keeps the inductive invariant.                               *)
(***************************************************************************)
LEMMA NextCoherent ==
    ASSUME CInv, [Next]_vars
    PROVE  CInv'
<1> USE Zenon
<1>1. CASE UNCHANGED vars
  BY <1>1 DEF vars, CInv, LinesOK, Low, Coherent, DirtyIn, Below
<1>2. CASE Next
  BY <1>2, ReadStep, WriteStep, IfetchStep DEF Next
<1> QED BY <1>1, <1>2

(***************************************************************************)
(* The L1Ds, the shared L2 and memory stay coherent, however many blocks,  *)
(* sets and ways there are and whichever way a miss replaces.              *)
(***************************************************************************)
THEOREM Coherence ==
    Spec => []Coherent
<1> USE Zenon
<1>1. Init => CInv
  BY InitCoherent
<1>2. CInv /\ [Next]_vars => CInv'
  BY NextCoherent
<1>3. CInv => Coherent
  BY DEF CInv
<1> QED BY <1>1, <1>2, <1>3, PTL DEF Spec

-----------------------------------------------------------------------------
(***************************************************************************)
(* Current, of L1Ds L and lower levels m.                                  *)
(***************************************************************************)
CurrentOf(L, m, c) ==
    IF \E h \in Harts : IsDirty(L[h][c])
    THEN L[CHOOSE h \in Harts : IsDirty(L[h][c])][c].data ELSE Under(m, c)

(***************************************************************************)
(* Under coherence the value of a block is unique.                         *)
(***************************************************************************)
LEMMA CurrentIsValue ==
    ASSUME NEW L \in L1ds, NEW m \in Hiers, Coh(L, m), NEW c \in Blocks
    PROVE  /\ IsValue(L, m, c, CurrentOf(L, m, c))
           /\ \A d : IsValue(L, m, c, d) => d = CurrentOf(L, m, c)
           /\ CurrentOf(L, m, c) \in Data
<1> USE Zenon
<1>1. CASE \E h \in Harts : IsDirty(L[h][c])
  <2>1. PICK h : h = CHOOSE g \in Harts : IsDirty(L[g][c])
    OBVIOUS
  <2>2. h \in Harts /\ IsDirty(L[h][c])
    BY <1>1, <2>1
  <2>3. CurrentOf(L, m, c) = L[h][c].data
    BY <1>1, <2>1 DEF CurrentOf
  <2>4. \A g \in Harts : IsDirty(L[g][c]) => g = h
    BY <2>2 DEF Coh, IsDirty
  <2>5. L[h][c].data \in Data
    BY <2>2 DEF L1ds, Lines
  <2> QED BY <2>2, <2>3, <2>4, <2>5 DEF IsValue
<1>2. CASE ~\E h \in Harts : IsDirty(L[h][c])
  <2>1. CurrentOf(L, m, c) = Under(m, c)
    BY <1>2 DEF CurrentOf
  <2>2. Under(m, c) \in Data
    BY DEF Under, Hiers, Lines
  <2> QED BY <1>2, <2>1, <2>2 DEF IsValue
<1> QED BY <1>1, <1>2

(***************************************************************************)
(* The same for the state, and for the next state.                         *)
(***************************************************************************)
LEMMA CurrentFacts ==
    ASSUME CInv, NEW c \in Blocks
    PROVE  /\ IsValue(l1d, Low, c, Current(c))
           /\ \A d : IsValue(l1d, Low, c, d) => d = Current(c)
           /\ Current(c) \in Data
<1> USE Zenon
<1>1. l1d \in L1ds /\ Low \in Hiers /\ Coh(l1d, Low)
  BY CoherentIsCoh DEF CInv, LinesOK
<1>2. Current(c) = CurrentOf(l1d, Low, c)
  BY DEF Current, CurrentOf, DirtyIn, IsDirty, Below, Under, Low
<1> QED BY <1>1, <1>2, CurrentIsValue

(***************************************************************************)
(* The value of a block after a step.                                      *)
(***************************************************************************)
LEMMA CurrentFactsPrime ==
    ASSUME CInv', NEW c \in Blocks
    PROVE  \A d : IsValue(l1d', Low', c, d) => d = Current(c)'
<1> USE Zenon
<1>1. l1d' \in L1ds /\ Low' \in Hiers
  BY DEF CInv, LinesOK
<1>2. Coh(l1d', Low')
  BY DEF CInv, Coherent, Coh, Low, Sound, CleanAgrees, DirtyIn, IsDirty, Below, Under
<1>3. Current(c)' = CurrentOf(l1d', Low', c)
  BY DEF Current, CurrentOf, DirtyIn, IsDirty, Below, Under, Low
<1>4. \A d : IsValue(l1d', Low', c, d) => d = CurrentOf(l1d', Low', c)
  BY <1>1, <1>2, CurrentIsValue
<1> QED BY <1>3, <1>4

(***************************************************************************)
(* Every step keeps the value of every block, but a write, which changes   *)
(* the word it writes.                                                     *)
(***************************************************************************)
LEMMA StepsMap ==
    ASSUME CInv, Next
    PROVE  Mem!MemoryNext \/ UNCHANGED Mem!memoryVars
<1> USE Zenon
<1> DEFINE st == [b \in Blocks |-> Current(b)]
<1>0. PICK b \in Blocks :
        \/ ifetch_miss(b)
        \/ \E h \in Harts, o \in Offsets :
             vaddr_read(h, b, o) \/ \E v \in Values : vaddr_write(h, b, o, v)
  BY DEF Next
<1>1. CASE ifetch_miss(b)
  <2>1. \A c \in Blocks : Current(c)' = Current(c)
    BY <1>1, IfetchStep, CurrentFacts, CurrentFactsPrime
  <2>2. reply' = reply
    BY <1>1, IfetchStep
  <2>3. st' = st
    BY <2>1
  <2> QED BY <2>2, <2>3 DEF Mem!memoryVars
<1>2. CASE \E h \in Harts, o \in Offsets : vaddr_read(h, b, o)
  <2>1. PICK h \in Harts, o \in Offsets : vaddr_read(h, b, o)
    BY <1>2
  <2>2. /\ CInv'
        /\ \A c \in Blocks : \A d : IsValue(l1d, Low, c, d) => IsValue(l1d', Low', c, d)
        /\ \E x : /\ IsValue(l1d', Low', b, x)
                  /\ reply' = [hart |-> h, block |-> b, offset |-> o, value |-> x[o]]
    BY <2>1, ReadStep
  <2>3. \A c \in Blocks : Current(c)' = Current(c)
    BY <2>2, CurrentFacts, CurrentFactsPrime
  <2>4. reply' = [hart |-> h, block |-> b, offset |-> o, value |-> Current(b)'[o]]
    BY <2>2, CurrentFactsPrime
  <2>5. reply' = [hart |-> h, block |-> b, offset |-> o, value |-> Current(b)[o]]
    BY <2>3, <2>4
  <2>6. st' = st /\ st[b] = Current(b)
    BY <2>3
  <2>7. Mem!Read(h, b, o)
    BY <2>5, <2>6 DEF Mem!Read
  <2> QED BY <2>7 DEF Mem!MemoryNext
<1>3. CASE \E h \in Harts, o \in Offsets, v \in Values : vaddr_write(h, b, o, v)
  <2>1. PICK h \in Harts, o \in Offsets, v \in Values : vaddr_write(h, b, o, v)
    BY <1>3
  <2>2. /\ CInv'
        /\ \A c \in Blocks : \A d : c # b /\ IsValue(l1d, Low, c, d) => IsValue(l1d', Low', c, d)
        /\ \A d : IsValue(l1d, Low, b, d) => IsValue(l1d', Low', b, [d EXCEPT ![o] = v])
        /\ reply' = NoReply
    BY <2>1, WriteStep
  <2>3. \A c \in Blocks : c # b => Current(c)' = Current(c)
    BY <2>2, CurrentFacts, CurrentFactsPrime
  <2>4. Current(b)' = [Current(b) EXCEPT ![o] = v]
    BY <2>2, CurrentFacts, CurrentFactsPrime
  <2>5. st' = [st EXCEPT ![b] = [st[b] EXCEPT ![o] = v]]
    BY <2>3, <2>4
  <2>6. Mem!Write(h, b, o, v)
    BY <2>2, <2>5 DEF Mem!Write, Mem!NoReply, NoReply
  <2> QED BY <2>6 DEF Mem!MemoryNext
<1> QED BY <1>0, <1>1, <1>2, <1>3

(***************************************************************************)
(* The hierarchy with its snoops implements the memory of atomic reads and *)
(* writes: with any caches, what a hart reads is the last value either     *)
(* hart wrote there.                                                       *)
(***************************************************************************)
THEOREM Refinement ==
    Spec => ImplementsMemory
<1> USE Zenon
<1>1. Init => CInv
  BY InitCoherent
<1>2. Init => Mem!MemoryInit
  <2> SUFFICES ASSUME Init PROVE Mem!MemoryInit
    OBVIOUS
  <2>1. \A c \in Blocks : Current(c) \in Data
    BY InitCoherent, CurrentFacts
  <2>2. reply = NoReply
    BY DEF Init
  <2> QED BY <2>1, <2>2 DEF Mem!MemoryInit, Mem!Data, Data, Mem!NoReply, NoReply
<1>3. CInv /\ [Next]_vars => CInv'
  BY NextCoherent
<1>4. CInv /\ [Next]_vars => [Mem!MemoryNext]_(Mem!memoryVars)
  <2> SUFFICES ASSUME CInv, [Next]_vars PROVE Mem!MemoryNext \/ UNCHANGED Mem!memoryVars
    OBVIOUS
  <2>1. CASE UNCHANGED vars
    BY <2>1 DEF vars, Mem!memoryVars, Current, DirtyIn, Below
  <2>2. CASE Next
    BY <2>2, StepsMap
  <2> QED BY <2>1, <2>2
<1> QED BY <1>1, <1>2, <1>3, <1>4, PTL DEF Spec, ImplementsMemory, Mem!MemorySpec

-----------------------------------------------------------------------------
(***************************************************************************)
(* The L1Is on top: their fetches only add lines to the L2, so the data    *)
(* side of ICSpec behaves as Spec, and is coherent and refines the memory. *)
(***************************************************************************)
THEOREM DataSide ==
    ICSpec => Spec /\ []Coherent /\ ImplementsMemory
<1> USE Zenon
<1>1. ICInit => Init
  BY DEF ICInit
<1>2. [ICNext]_icVars => [Next]_vars
  <2>1. ASSUME NEW h \in FetchHarts, NEW b \in Blocks, vaddr_ifetch(h, b) PROVE Next
    <3>1. ifetch_miss(b)
      BY <2>1 DEF vaddr_ifetch
    <3> QED BY <3>1 DEF Next
  <2>2. ASSUME NEW h \in Harts, NEW b \in Blocks, NEW o \in Offsets, Load(h, b, o) PROVE Next
    <3>1. vaddr_read(h, b, o)
      BY <2>2 DEF Load
    <3> QED BY <3>1 DEF Next
  <2>3. ASSUME NEW h \in Harts, NEW b \in Blocks, NEW o \in Offsets, NEW v \in Values,
               Store(h, b, o, v)
        PROVE  Next
    <3>1. vaddr_write(h, b, o, v)
      BY <2>3 DEF Store
    <3> QED BY <3>1 DEF Next
  <2>4. UNCHANGED icVars => UNCHANGED vars
    BY DEF icVars
  <2> QED BY <2>1, <2>2, <2>3, <2>4 DEF ICNext
<1>3. ICSpec => Spec
  BY <1>1, <1>2, PTL DEF ICSpec, Spec
<1> QED BY <1>3, Coherence, Refinement, PTL

(***************************************************************************)
(* What FetchIntact needs to be inductive: only blocks stored to are dirty *)
(* in an L1D, so no write-back touches the others; below the L1s the       *)
(* others have the value they were loaded with; and so have the lines that *)
(* the L1Is hold of them.                                                  *)
(***************************************************************************)
OnlyWrittenDirty == \A h \in Harts, c \in Blocks \ written : ~IsDirty(l1d[h][c])

BelowIntact == \A c \in Blocks \ written : Under(Low, c) = Image[c]

L1iIntact ==
    \A h \in FetchHarts, c \in Blocks \ written : l1i[h][c].valid => l1i[h][c].data = Image[c]

FInv ==
    /\ CInv /\ l1i \in [FetchHarts -> [Blocks -> Lines]]
    /\ OnlyWrittenDirty /\ BelowIntact /\ L1iIntact

(***************************************************************************)
(* A block that is dirty nowhere before and after a step that keeps its    *)
(* value is the same below the L1s.                                        *)
(***************************************************************************)
LEMMA BelowKept ==
    ASSUME NEW c \in Blocks, NEW d, Under(Low, c) = d,
           \A h \in Harts : ~IsDirty(l1d[h][c]), \A h \in Harts : ~IsDirty(l1d'[h][c]),
           IsValue(l1d, Low, c, d) => IsValue(l1d', Low', c, d)
    PROVE  Under(Low', c) = d
<1> USE Zenon
<1>1. IsValue(l1d, Low, c, d)
  BY DEF IsValue
<1>2. IsValue(l1d', Low', c, d)
  BY <1>1
<1> QED BY <1>2 DEF IsValue

(***************************************************************************)
(* A data read keeps the invariant.                                        *)
(***************************************************************************)
LEMMA LoadIntact ==
    ASSUME FInv, NEW h \in Harts, NEW b \in Blocks, NEW o \in Offsets, Load(h, b, o)
    PROVE  FInv'
<1> USE Zenon
<1>1. CInv /\ OnlyWrittenDirty /\ BelowIntact /\ L1iIntact
  BY DEF FInv
<1>2. vaddr_read(h, b, o) /\ l1i' = l1i /\ written' = written
  BY DEF Load
<1>3. /\ CInv'
      /\ \A c \in Blocks : \A d : IsValue(l1d, Low, c, d) => IsValue(l1d', Low', c, d)
      /\ NoNewDirty(l1d, l1d')
  BY <1>1, <1>2, ReadStep
<1>4. OnlyWrittenDirty'
  BY <1>1, <1>2, <1>3 DEF OnlyWrittenDirty, NoNewDirty
<1>5. BelowIntact'
  <2> SUFFICES ASSUME NEW c \in Blocks \ written PROVE Under(Low', c) = Image[c]
    BY <1>2 DEF BelowIntact
  <2>1. \A g \in Harts : ~IsDirty(l1d[g][c]) /\ ~IsDirty(l1d'[g][c])
    BY <1>1, <1>2, <1>4 DEF OnlyWrittenDirty
  <2>2. Under(Low, c) = Image[c]
    BY <1>1 DEF BelowIntact
  <2> QED BY <1>3, <2>1, <2>2, BelowKept
<1>6. L1iIntact' /\ l1i' \in [FetchHarts -> [Blocks -> Lines]]
  BY <1>1, <1>2 DEF L1iIntact, FInv
<1> QED BY <1>3, <1>4, <1>5, <1>6 DEF FInv

(***************************************************************************)
(* A store makes only its own block dirty, which is written from then on.  *)
(***************************************************************************)
LEMMA StoreIntact ==
    ASSUME FInv, NEW h \in Harts, NEW b \in Blocks, NEW o \in Offsets, NEW v \in Values,
           Store(h, b, o, v)
    PROVE  FInv'
<1> USE Zenon
<1>1. CInv /\ OnlyWrittenDirty /\ BelowIntact /\ L1iIntact
  BY DEF FInv
<1>2. vaddr_write(h, b, o, v) /\ l1i' = l1i /\ written' = written \cup {b}
  BY DEF Store
<1>3. /\ CInv'
      /\ \A c \in Blocks : \A d : c # b /\ IsValue(l1d, Low, c, d) => IsValue(l1d', Low', c, d)
      /\ \A g \in Harts, c \in Blocks : c # b /\ IsDirty(l1d'[g][c]) => IsDirty(l1d[g][c])
  BY <1>1, <1>2, WriteStep
<1>4. OnlyWrittenDirty'
  BY <1>1, <1>2, <1>3 DEF OnlyWrittenDirty
<1>5. BelowIntact'
  <2> SUFFICES ASSUME NEW c \in Blocks \ written, c # b PROVE Under(Low', c) = Image[c]
    BY <1>2 DEF BelowIntact
  <2>1. \A g \in Harts : ~IsDirty(l1d[g][c]) /\ ~IsDirty(l1d'[g][c])
    BY <1>1, <1>2, <1>4 DEF OnlyWrittenDirty
  <2>2. Under(Low, c) = Image[c]
    BY <1>1 DEF BelowIntact
  <2> QED BY <1>3, <2>1, <2>2, BelowKept
<1>6. L1iIntact' /\ l1i' \in [FetchHarts -> [Blocks -> Lines]]
  BY <1>1, <1>2 DEF L1iIntact, FInv
<1> QED BY <1>3, <1>4, <1>5, <1>6 DEF FInv

(***************************************************************************)
(* An instruction fetch puts in the L1I what the L2 then holds.            *)
(***************************************************************************)
LEMMA FetchKeeps ==
    ASSUME FInv, NEW h \in FetchHarts, NEW b \in Blocks, vaddr_ifetch(h, b)
    PROVE  FInv'
<1> USE Zenon
<1>1. CInv /\ OnlyWrittenDirty /\ BelowIntact /\ L1iIntact
  BY DEF FInv
<1>2. ifetch_miss(b) /\ written' = written /\ l1d' = l1d
  BY DEF vaddr_ifetch, ifetch_miss
<1>3. /\ CInv'
      /\ \A c \in Blocks : \A d : IsValue(l1d, Low, c, d) => IsValue(l1d', Low', c, d)
  BY <1>1, <1>2, IfetchStep
<1>4. OnlyWrittenDirty'
  BY <1>1, <1>2 DEF OnlyWrittenDirty
<1>5. BelowIntact'
  <2> SUFFICES ASSUME NEW c \in Blocks \ written PROVE Under(Low', c) = Image[c]
    BY <1>2 DEF BelowIntact
  <2>1. \A g \in Harts : ~IsDirty(l1d[g][c]) /\ ~IsDirty(l1d'[g][c])
    BY <1>1, <1>2, <1>4 DEF OnlyWrittenDirty
  <2>2. Under(Low, c) = Image[c]
    BY <1>1 DEF BelowIntact
  <2> QED BY <1>3, <2>1, <2>2, BelowKept
<1>6. l2'[b].valid /\ l2'[b].data \in Data
  <2>1. PICK r \in access_l2_read(Low, b) : l2' = r.l2
    BY <1>2 DEF ifetch_miss, Low
  <2>2. r \in Hiers /\ r.l2[b].valid
    <3>1. LinesOK /\ Coh(l1d, Low)
      BY <1>1, CoherentIsCoh DEF CInv
    <3> QED BY <3>1, L2ReadFacts DEF LinesOK, Coh
  <2> QED BY <2>1, <2>2 DEF Hiers, Lines
<1>7. PICK line \in Lines : line = Clean(l2'[b].data)
  BY <1>6, LineTypes
<1>8. PICK v \in Victims(l1i[h], L1_SETS, L1_WAYS, b) :
         l1i' = [l1i EXCEPT ![h] = [[@ EXCEPT ![v] = NoLine] EXCEPT ![b] = line]]
  BY <1>7 DEF vaddr_ifetch
<1>9. /\ l1i' \in [FetchHarts -> [Blocks -> Lines]]
      /\ \A g \in FetchHarts, c \in Blocks :
           l1i'[g][c] = l1i[g][c] \/ l1i'[g][c] = NoLine \/ (c = b /\ l1i'[g][c] = line)
  <2>1. l1i \in [FetchHarts -> [Blocks -> Lines]] /\ NoLine \in Lines
    BY LineTypes DEF FInv
  <2> QED BY <1>8, <2>1
<1>10. line.data = Under(Low', b)
  BY <1>6, <1>7 DEF Clean, Under, Low
<1>11. L1iIntact'
  <2> SUFFICES ASSUME NEW g \in FetchHarts, NEW c \in Blocks \ written, l1i'[g][c].valid
               PROVE  l1i'[g][c].data = Image[c]
    BY <1>2 DEF L1iIntact
  <2>1. CASE l1i'[g][c] = l1i[g][c]
    BY <1>1, <2>1 DEF L1iIntact
  <2>2. CASE c = b /\ l1i'[g][c] = line
    BY <1>2, <1>5, <1>10, <2>2 DEF BelowIntact
  <2>3. l1i'[g][c] # NoLine
    BY SMT DEF NoLine
  <2> QED BY <1>9, <2>1, <2>2, <2>3
<1> QED BY <1>3, <1>4, <1>5, <1>9, <1>11 DEF FInv

(***************************************************************************)
(* Code that is not stored to is fetched as it was loaded, for every       *)
(* image, every geometry of the caches and every choice of victims.        *)
(***************************************************************************)
THEOREM CodeIntact ==
    ICSpec => []FetchIntact
<1> USE Zenon
<1>1. ICInit => FInv
  <2> SUFFICES ASSUME ICInit PROVE FInv
    OBVIOUS
  <2>1. CInv
    BY InitCoherent DEF ICInit
  <2>2. l1i \in [FetchHarts -> [Blocks -> Lines]]
    BY LineTypes DEF ICInit
  <2>3. OnlyWrittenDirty
    BY DEF ICInit, Init, OnlyWrittenDirty, IsDirty, NoLine
  <2>4. BelowIntact
    BY DEF ICInit, Init, BelowIntact, Under, Low, NoLine
  <2>5. L1iIntact
    BY DEF ICInit, L1iIntact, NoLine
  <2> QED BY <2>1, <2>2, <2>3, <2>4, <2>5 DEF FInv
<1>2. FInv /\ [ICNext]_icVars => FInv'
  <2> SUFFICES ASSUME FInv, [ICNext]_icVars PROVE FInv'
    OBVIOUS
  <2>1. CASE UNCHANGED icVars
    <3>1. l1d' = l1d /\ Low' = Low /\ l1i' = l1i /\ written' = written
      BY <2>1 DEF icVars, vars, Low
    <3>2. CInv'
      BY <2>1, NextCoherent DEF FInv, icVars
    <3> QED BY <3>1, <3>2 DEF FInv, OnlyWrittenDirty, BelowIntact, L1iIntact
  <2>2. CASE ICNext
    BY <2>2, LoadIntact, StoreIntact, FetchKeeps DEF ICNext
  <2> QED BY <2>1, <2>2
<1>3. FInv => FetchIntact
  BY DEF FInv, FetchIntact, Fetched, BelowIntact, L1iIntact, Below, Under, Low
<1> QED BY <1>1, <1>2, <1>3, PTL DEF ICSpec

-----------------------------------------------------------------------------
(***************************************************************************)
(* The predictors.  The inductive invariant says of the index pairs that   *)
(* branches in flight would put back what RasHoldsCalls says of the        *)
(* current one, and of every BTB entry that it holds an outcome of the     *)
(* branch whose index and tag it has.                                      *)
(***************************************************************************)
Slots == 0..(RAS_SIZE - 1)
Live(top, count) == {(top - i + RAS_SIZE) % RAS_SIZE : i \in 0..(count - 1)}

Controls == {p \in Pcs : IsControl(Code[p])}

BtbEntry == [valid : BOOLEAN, tag : Int, target : Int]
Predictor ==
  [btb : [0..(2^BTB_BITS - 1) -> BtbEntry],
   lht : [0..(2^LHT_INDEX - 1) -> 0..(2^LHT_BITS - 1)],
   lpht : [0..(2^LHT_BITS - 1) -> Int], ghr : Int,
   gpht : [0..(2^GHR_BITS - 1) -> Int], meta : [0..(2^GHR_BITS - 1) -> Int],
   ras : [Slots -> Int], ras_top : Slots, ras_count : 0..RAS_SIZE]

EntryType ==
  [pc : Controls, predicted : Int, resolved : BOOLEAN, fault : BOOLEAN,
   ras_top_snap : Slots, ras_cnt_snap : 0..RAS_SIZE]

\* What popping from these indices may return was pushed by calls.
Safe(ras, top, count) == \A i \in Live(top, count) : ras[i] \in ReturnAddresses

BtbSound(btb) ==
  \A p \in Controls :
    btb[BtbIndex(p)].valid /\ btb[BtbIndex(p)].tag = BtbTag(p)
      => btb[BtbIndex(p)].target \in Outcomes(p)

Plausible(e) == \/ e.predicted = e.pc + 4
                \/ e.predicted \in Outcomes(e.pc)
                \/ is_ret(Code[e.pc]) /\ e.predicted \in ReturnAddresses

EntryOk(e, ras) == Safe(ras, e.ras_top_snap, e.ras_cnt_snap) /\ Plausible(e)

FrontInv == /\ bp \in Predictor
        /\ fetch_pc \in Pcs \cup {Wild}
        /\ queue \in Seq(EntryType)
        /\ Safe(bp.ras, bp.ras_top, bp.ras_count)
        /\ BtbSound(bp.btb)
        /\ \A k \in 1..Len(queue) : EntryOk(queue[k], bp.ras)

(***************************************************************************)
(* Arithmetic of the stack's indices and of the BTB's.                     *)
(***************************************************************************)

(* A number below twice the modulus wraps at most once: what % RAS_SIZE does
   to every index the predictor computes. *)
LEMMA Wraps == ASSUME NEW n \in Nat \ {0}, NEW a \in 0..(2 * n - 1)
               PROVE  a % n = IF a < n THEN a ELSE a - n
OBVIOUS

(* Only one multiple of n lies in a window of length n. *)
LEMMA QuotientUnique ==
  ASSUME NEW n \in Nat \ {0}, NEW d \in Int, NEW t \in Int, NEW r \in 0..(n - 1),
         n * t <= n * d + r, n * d + r < n * (t + 1)
  PROVE  t = d
<1>1. ~(t >= d + 1)
  <2> SUFFICES ASSUME t >= d + 1 PROVE FALSE BY Zenon
  <2>1. PICK k \in Nat : t = d + 1 + k  BY t - d - 1 \in Nat
  <2>2. n * t = n * d + n + n * k  BY <2>1
  <2>3. n * k >= 0  BY <2>1
  <2> QED BY <2>2, <2>3
<1>2. ~(d >= t + 1)
  <2> SUFFICES ASSUME d >= t + 1 PROVE FALSE BY Zenon
  <2>1. PICK k \in Nat : d = t + 1 + k  BY d - t - 1 \in Nat
  <2>2. n * d = n * (t + 1) + n * k  BY <2>1
  <2>3. n * k >= 0  BY <2>1
  <2> QED BY <2>2, <2>3
<1> QED BY <1>1, <1>2

(* Index and tag together determine the branch: two branches that share a
   BTB entry have different tags. *)
LEMMA TagsTell ==
  ASSUME NEW p \in Pcs, NEW q \in Pcs, BtbIndex(p) = BtbIndex(q), BtbTag(p) = BtbTag(q)
  PROVE  p = q
<1>1. PICK n \in Nat \ {0} : n = 2^BTB_BITS  BY Zenon, TablesAssumption
<1>2. PICK a \in Nat : p = 4 * a /\ p \div 4 = a  BY CodeAssumption
<1>3. PICK b \in Nat : q = 4 * b /\ q \div 4 = b  BY CodeAssumption
<1>4. PICK t \in Int : t = (4 * a) \div (4 * n) /\ t = (4 * b) \div (4 * n)
  BY <1>1, <1>2, <1>3, TablesAssumption DEF BtbTag
<1>5. PICK r \in 0..(n - 1) : r = a % n /\ r = b % n
  BY <1>1, <1>2, <1>3 DEF BtbIndex
<1>6. PICK c \in Int : a = n * c + r
  <2>1. a \div n \in Int /\ a = n * (a \div n) + (a % n)  OBVIOUS
  <2> QED BY Zenon, <1>5, <2>1
<1>7. PICK d \in Int : b = n * d + r
  <2>1. b \div n \in Int /\ b = n * (b \div n) + (b % n)  OBVIOUS
  <2> QED BY Zenon, <1>5, <2>1
<1>8. (4 * n) * t <= 4 * a /\ 4 * a < (4 * n) * (t + 1)  BY <1>4
<1>9. (4 * n) * t <= 4 * b /\ 4 * b < (4 * n) * (t + 1)  BY <1>4
<1>10. n * t <= n * c + r /\ n * c + r < n * (t + 1)  BY <1>6, <1>8
<1>11. n * t <= n * d + r /\ n * d + r < n * (t + 1)  BY <1>7, <1>9
<1>12. t = c  BY Zenon, <1>10, QuotientUnique
<1>13. t = d  BY Zenon, <1>11, QuotientUnique
<1> QED BY Zenon, <1>2, <1>3, <1>6, <1>7, <1>12, <1>13

(* RasPush makes at most the slot it writes newly poppable. *)
LEMMA PushLive ==
  ASSUME NEW top \in Slots, NEW count \in 0..RAS_SIZE, NEW c2 \in 0..RAS_SIZE, c2 <= count + 1
  PROVE  /\ (top + 1) % RAS_SIZE \in Slots
         /\ Live((top + 1) % RAS_SIZE, c2) \subseteq {(top + 1) % RAS_SIZE} \cup Live(top, count)
<1>0. RAS_SIZE \in Nat \ {0}  BY Zenon, BpredAssumption
<1>1. PICK t2 \in Int : t2 = (top + 1) % RAS_SIZE  BY <1>0 DEF Slots
<1>2. t2 = IF top + 1 < RAS_SIZE THEN top + 1 ELSE 0
  <2>1. PICK x \in 0..(2 * RAS_SIZE - 1) : x = top + 1  BY <1>0 DEF Slots
  <2>2. x % RAS_SIZE = IF x < RAS_SIZE THEN x ELSE x - RAS_SIZE  BY Zenon, <1>0, Wraps
  <2> QED BY <1>0, <1>1, <2>1, <2>2 DEF Slots
<1>3. t2 \in Slots  BY <1>0, <1>2 DEF Slots
<1>4. ASSUME NEW i \in 0..(c2 - 1)
      PROVE  (t2 - i + RAS_SIZE) % RAS_SIZE \in {t2} \cup Live(top, count)
  <2>1. CASE i = 0
    <3>1. t2 - i + RAS_SIZE \in 0..(2 * RAS_SIZE - 1)  BY <1>0, <1>3, <2>1 DEF Slots
    <3>2. (t2 - i + RAS_SIZE) % RAS_SIZE = t2  BY <1>0, <1>3, <2>1, <3>1, Wraps DEF Slots
    <3> QED BY Zenon, <3>2
  <2>2. CASE i > 0
    <3>1. t2 - i + RAS_SIZE \in 0..(2 * RAS_SIZE - 1)  BY <1>0, <1>3, <2>2 DEF Slots
    <3>2. top - (i - 1) + RAS_SIZE \in 0..(2 * RAS_SIZE - 1)  BY <1>0, <2>2 DEF Slots
    <3>3. (t2 - i + RAS_SIZE) % RAS_SIZE = (top - (i - 1) + RAS_SIZE) % RAS_SIZE
      <4> DEFINE x == t2 - i + RAS_SIZE
                 y == top - (i - 1) + RAS_SIZE
      <4>1. x % RAS_SIZE = IF x < RAS_SIZE THEN x ELSE x - RAS_SIZE
        BY Zenon, <1>0, <3>1, Wraps
      <4>2. y % RAS_SIZE = IF y < RAS_SIZE THEN y ELSE y - RAS_SIZE
        BY Zenon, <1>0, <3>2, Wraps
      <4>3. x = y \/ (x + RAS_SIZE = y /\ x < RAS_SIZE)
        BY <1>0, <1>2, <2>2 DEF Slots
      <4> QED BY <1>0, <3>1, <3>2, <4>1, <4>2, <4>3
    <3>4. i - 1 \in 0..(count - 1)  BY <1>0, <2>2
    <3> QED BY Zenon, <3>3, <3>4 DEF Live
  <2> QED BY <2>1, <2>2
<1> QED BY Zenon, <1>1, <1>3, <1>4 DEF Live

(* RasPop makes nothing newly poppable. *)
LEMMA PopLive ==
  ASSUME NEW top \in Slots, NEW count \in 1..RAS_SIZE
  PROVE  /\ (top - 1 + RAS_SIZE) % RAS_SIZE \in Slots
         /\ Live((top - 1 + RAS_SIZE) % RAS_SIZE, count - 1) \subseteq Live(top, count)
         /\ top \in Live(top, count)
<1>0. RAS_SIZE \in Nat \ {0}  BY Zenon, BpredAssumption
<1>1. PICK t2 \in Int : t2 = (top - 1 + RAS_SIZE) % RAS_SIZE  BY <1>0 DEF Slots
<1>2. t2 = IF top = 0 THEN RAS_SIZE - 1 ELSE top - 1
  <2>1. PICK x \in 0..(2 * RAS_SIZE - 1) : x = top - 1 + RAS_SIZE  BY <1>0 DEF Slots
  <2>2. x % RAS_SIZE = IF x < RAS_SIZE THEN x ELSE x - RAS_SIZE  BY Zenon, <1>0, Wraps
  <2> QED BY <1>0, <1>1, <2>1, <2>2 DEF Slots
<1>3. t2 \in Slots  BY <1>0, <1>2 DEF Slots
<1>4. ASSUME NEW i \in 0..(count - 1 - 1)
      PROVE  (t2 - i + RAS_SIZE) % RAS_SIZE \in Live(top, count)
  <2>1. t2 - i + RAS_SIZE \in 0..(2 * RAS_SIZE - 1)  BY <1>0, <1>3 DEF Slots
  <2>2. top - (i + 1) + RAS_SIZE \in 0..(2 * RAS_SIZE - 1)  BY <1>0 DEF Slots
  <2>3. (t2 - i + RAS_SIZE) % RAS_SIZE = (top - (i + 1) + RAS_SIZE) % RAS_SIZE
    <3> DEFINE x == t2 - i + RAS_SIZE
               y == top - (i + 1) + RAS_SIZE
    <3>1. x % RAS_SIZE = IF x < RAS_SIZE THEN x ELSE x - RAS_SIZE
      BY Zenon, <1>0, <2>1, Wraps
    <3>2. y % RAS_SIZE = IF y < RAS_SIZE THEN y ELSE y - RAS_SIZE
      BY Zenon, <1>0, <2>2, Wraps
    <3>3. x = y \/ (x = y + RAS_SIZE /\ y < RAS_SIZE)
      BY <1>0, <1>2 DEF Slots
    <3> QED BY <1>0, <2>1, <2>2, <3>1, <3>2, <3>3
  <2>4. i + 1 \in 0..(count - 1)  BY <1>0
  <2> QED BY Zenon, <2>3, <2>4 DEF Live
<1>5. top \in Live(top, count)
  <2>1. top - 0 + RAS_SIZE \in 0..(2 * RAS_SIZE - 1)  BY <1>0 DEF Slots
  <2>2. (top - 0 + RAS_SIZE) % RAS_SIZE = top  BY <1>0, <2>1, Wraps DEF Slots
  <2>3. 0 \in 0..(count - 1)  BY <1>0
  <2> QED BY Zenon, <2>2, <2>3 DEF Live
<1> QED BY Zenon, <1>1, <1>3, <1>4, <1>5 DEF Live

(* Every poppable slot is one of the stack's. *)
LEMMA LiveSlots ==
  ASSUME NEW top \in Slots, NEW count \in 0..RAS_SIZE
  PROVE  Live(top, count) \subseteq Slots
<1>0. RAS_SIZE \in Nat \ {0}  BY Zenon, BpredAssumption
<1>1. ASSUME NEW i \in 0..(count - 1) PROVE (top - i + RAS_SIZE) % RAS_SIZE \in Slots
  <2>1. top - i + RAS_SIZE \in 0..(2 * RAS_SIZE - 1)  BY <1>0 DEF Slots
  <2> QED BY <1>0, <2>1, Wraps DEF Slots
<1> QED BY Zenon, <1>1 DEF Live

(***************************************************************************)
(* What the predictor's operations do to a predictor.                      *)
(***************************************************************************)

(* The tables' indices are in range, and so are a branch's address, its
   successor and whatever it resolves to. *)
LEMMA Ranges ==
  ASSUME NEW pc \in Controls
  PROVE  /\ pc \in Pcs /\ pc \in Nat \ {0} /\ pc + 4 \in Int
         /\ BtbIndex(pc) \in 0..(2^BTB_BITS - 1) /\ BtbTag(pc) \in Int
         /\ LhtIndex(pc) \in 0..(2^LHT_INDEX - 1)
         /\ Outcomes(pc) \subseteq Pcs \cup {Wild}
         /\ Outcomes(pc) \subseteq Int
<1>1. pc \in Pcs /\ pc \in Nat \ {0} /\ Outcomes(pc) \subseteq Pcs \cup {Wild}
  BY Zenon, CodeAssumption DEF Controls
<1>2. Pcs \cup {Wild} \subseteq Int  BY CodeAssumption DEF Wild
<1>3. PICK m \in Nat : m = pc \div 4  BY <1>1
<1>4. PICK n \in Nat \ {0} : n = 2^BTB_BITS  BY Zenon, TablesAssumption
<1>5. PICK l \in Nat \ {0} : l = 2^LHT_INDEX  BY Zenon, TablesAssumption
<1>6. m % n \in 0..(n - 1) /\ m % l \in 0..(l - 1)  OBVIOUS
<1>7. BtbTag(pc) \in Int
  <2>1. PICK q \in Nat \ {0} : q = 2^(BTB_BITS + 2)  BY <1>4, TablesAssumption
  <2>2. pc \div q \in Int  BY <1>1
  <2> QED BY Zenon, <2>1, <2>2 DEF BtbTag
<1> QED BY <1>1, <1>2, <1>3, <1>4, <1>5, <1>6, <1>7 DEF BtbIndex, LhtIndex

(* Learn writes an outcome of the branch under the branch's own tag, and
   leaves the other tables and the stack alone. *)
LEMMA LearnOk ==
  ASSUME NEW b \in Predictor, NEW pc \in Controls, NEW dnpc \in Outcomes(pc), BtbSound(b.btb)
  PROVE  /\ Learn(b, pc, dnpc) \in Predictor
         /\ BtbSound(Learn(b, pc, dnpc).btb)
         /\ Learn(b, pc, dnpc) = [b EXCEPT !.btb = Learn(b, pc, dnpc).btb]
<1> USE Zenon
<1> DEFINE new == [valid |-> TRUE, tag |-> BtbTag(pc), target |-> dnpc]
<1>1. new \in BtbEntry /\ BtbIndex(pc) \in 0..(2^BTB_BITS - 1) /\ pc \in Pcs
  BY Ranges DEF BtbEntry
<1>2. CASE dnpc = pc + 4
  <2>1. Learn(b, pc, dnpc) = b  BY <1>2 DEF Learn
  <2>2. b = [b EXCEPT !.btb = b.btb]  BY DEF Predictor
  <2> QED BY <2>1, <2>2
<1>3. CASE dnpc # pc + 4
  <2> DEFINE t == [b.btb EXCEPT ![BtbIndex(pc)] = new]
  <2>1. Learn(b, pc, dnpc) = [b EXCEPT !.btb = t]  BY <1>3 DEF Learn
  <2>2. b.btb \in [0..(2^BTB_BITS - 1) -> BtbEntry]  BY DEF Predictor
  <2>3. t \in [0..(2^BTB_BITS - 1) -> BtbEntry]  BY <1>1, <2>2
  <2>4. BtbSound(t)
    <3> SUFFICES ASSUME NEW p \in Controls,
                        t[BtbIndex(p)].valid, t[BtbIndex(p)].tag = BtbTag(p)
                 PROVE  t[BtbIndex(p)].target \in Outcomes(p)
      BY DEF BtbSound
    <3>1. p \in Pcs /\ BtbIndex(p) \in 0..(2^BTB_BITS - 1)  BY Ranges
    <3>2. CASE BtbIndex(p) = BtbIndex(pc)
      <4>1. t[BtbIndex(p)] = new  BY <1>1, <2>2, <3>2
      <4>2. BtbTag(p) = BtbTag(pc)  BY SMT, <4>1
      <4>3. p = pc  BY <1>1, <3>1, <3>2, <4>2, TagsTell
      <4> QED BY SMT, <4>1, <4>3
    <3>3. CASE BtbIndex(p) # BtbIndex(pc)
      <4>1. t[BtbIndex(p)] = b.btb[BtbIndex(p)]  BY <1>1, <2>2, <3>1, <3>3
      <4> QED BY <4>1 DEF BtbSound
    <3> QED BY <3>2, <3>3
  <2> HIDE DEF t
  <2>5. [b EXCEPT !.btb = t].btb = t /\ [b EXCEPT !.btb = t] \in Predictor
    BY <2>3 DEF Predictor
  <2> QED BY <2>1, <2>4, <2>5
<1> QED BY <1>2, <1>3

(* What training does to the parts of the predictor the invariant is about:
   the stack and its indices are untouched. *)
Trains(b, u) == /\ u \in Predictor
                /\ BtbSound(u.btb)
                /\ u.ras = b.ras /\ u.ras_top = b.ras_top /\ u.ras_count = b.ras_count

(* A counter stays a number whichever way it is counted. *)
LEMMA CountType == ASSUME NEW c \in Int, NEW up \in BOOLEAN PROVE Count(c, up) \in Int
<1>1. CASE up = TRUE  BY <1>1 DEF Count
<1>2. CASE up = FALSE  BY <1>2 DEF Count
<1> QED BY Zenon, <1>1, <1>2

(* Counting one entry of a table of counters leaves it one. *)
LEMMA TableType ==
  ASSUME NEW S, NEW f \in [S -> Int], NEW x, NEW v, x \in S => v \in Int
  PROVE  [f EXCEPT ![x] = v] \in [S -> Int]
BY Zenon

(* Shifting an outcome into a history of n values leaves it in range. *)
LEMMA ShiftRange ==
  ASSUME NEW n \in Nat \ {0}, NEW h \in Int, NEW bit \in {0, 1}
  PROVE  (2 * h + bit) % n \in 0..(n - 1)
<1>1. PICK x \in Int : x = 2 * h + bit  OBVIOUS
<1>2. x % n \in 0..(n - 1)  OBVIOUS
<1> QED BY Zenon, <1>1, <1>2

(* bpred_update, whatever the branch resolved to. *)
LEMMA UpdateOk ==
  ASSUME NEW b \in Predictor, NEW pc \in Controls, NEW dnpc \in Outcomes(pc), BtbSound(b.btb)
  PROVE  Trains(b, bpred_update(b, pc, dnpc))
<1> USE Zenon
<1> DEFINE L == Learn(b, pc, dnpc)
           actual == dnpc # pc + 4
           bit == IF actual THEN 1 ELSE 0
           hist == b.lht[LhtIndex(pc)]
           gi == GphtIndex(b, pc)
           global_pred == b.gpht[gi] >= 2
           local_pred == b.lpht[hist] >= 2
           lpht2 == [L.lpht EXCEPT ![hist] = Count(L.lpht[hist], actual)]
           lht2 == [L.lht EXCEPT ![LhtIndex(pc)] = (2 * hist + bit) % 2^LHT_BITS]
           gpht2 == [L.gpht EXCEPT ![gi] = Count(L.gpht[gi], actual)]
           meta2 == [L.meta EXCEPT ![gi] = IF local_pred = global_pred THEN L.meta[gi]
                                           ELSE Count(L.meta[gi], actual = global_pred)]
           ghr2 == (2 * L.ghr + bit) % 2^GHR_BITS
           u == [L EXCEPT !.lpht = lpht2, !.lht = lht2, !.gpht = gpht2, !.meta = meta2,
                          !.ghr = ghr2]
<1>1. L \in Predictor /\ BtbSound(L.btb) /\ L = [b EXCEPT !.btb = L.btb]  BY LearnOk
<1>2. L.ras = b.ras /\ L.ras_top = b.ras_top /\ L.ras_count = b.ras_count
  BY <1>1 DEF Predictor
<1> HIDE DEF L
<1>3. bpred_update(b, pc, dnpc) = u  BY <1>1 DEF bpred_update, Predictor, L
<1>4. hist \in 0..(2^LHT_BITS - 1) /\ LhtIndex(pc) \in 0..(2^LHT_INDEX - 1)
  BY Ranges DEF Predictor
<1>5. bit \in {0, 1}  OBVIOUS
<1> HIDE DEF bit, hist, gi
<1>6. lpht2 \in [0..(2^LHT_BITS - 1) -> Int]
  <2>1. L.lpht \in [0..(2^LHT_BITS - 1) -> Int]  BY <1>1 DEF Predictor
  <2>2. L.lpht[hist] \in Int  BY <1>4, <2>1
  <2>3. Count(L.lpht[hist], actual) \in Int  BY <2>2, CountType
  <2> QED BY <2>1, <2>3, TableType
<1>7. lht2 \in [0..(2^LHT_INDEX - 1) -> 0..(2^LHT_BITS - 1)]
  <2>1. L.lht \in [0..(2^LHT_INDEX - 1) -> 0..(2^LHT_BITS - 1)]  BY <1>1 DEF Predictor
  <2>2. PICK n \in Nat \ {0} : n = 2^LHT_BITS  BY TablesAssumption
  <2>3. (2 * hist + bit) % n \in 0..(n - 1)  BY SMT, <1>4, <1>5, <2>2, ShiftRange
  <2> QED BY <1>4, <2>1, <2>2, <2>3
<1>8. gpht2 \in [0..(2^GHR_BITS - 1) -> Int]
  <2>1. L.gpht \in [0..(2^GHR_BITS - 1) -> Int]  BY <1>1 DEF Predictor
  <2>2. ASSUME gi \in 0..(2^GHR_BITS - 1) PROVE Count(L.gpht[gi], actual) \in Int
    <3>1. L.gpht[gi] \in Int  BY <2>1, <2>2
    <3> QED BY <3>1, CountType
  <2> QED BY <2>1, <2>2, TableType
<1>9. meta2 \in [0..(2^GHR_BITS - 1) -> Int]
  <2>1. L.meta \in [0..(2^GHR_BITS - 1) -> Int]  BY <1>1 DEF Predictor
  <2>2. ASSUME gi \in 0..(2^GHR_BITS - 1)
        PROVE  (IF local_pred = global_pred THEN L.meta[gi]
                ELSE Count(L.meta[gi], actual = global_pred)) \in Int
    <3>1. L.meta[gi] \in Int  BY <2>1, <2>2
    <3>2. Count(L.meta[gi], actual = global_pred) \in Int  BY <3>1, CountType
    <3> QED BY <3>1, <3>2
  <2> QED BY <2>1, <2>2, TableType
<1>10. ghr2 \in Int
  <2>1. PICK n \in Nat \ {0} : n = 2^GHR_BITS  BY TablesAssumption
  <2>2. L.ghr \in Int  BY <1>1 DEF Predictor
  <2>3. (2 * L.ghr + bit) % n \in 0..(n - 1)  BY <1>5, <2>2, ShiftRange
  <2> QED BY SMT, <2>1, <2>3
<1> HIDE DEF lpht2, lht2, gpht2, meta2, ghr2
<1>11. u \in Predictor /\ u.btb = L.btb /\ u.ras = L.ras /\ u.ras_top = L.ras_top
       /\ u.ras_count = L.ras_count
  BY <1>1, <1>6, <1>7, <1>8, <1>9, <1>10 DEF Predictor
<1> QED BY <1>1, <1>2, <1>3, <1>11 DEF Trains

(* bpred2_update likewise. *)
LEMMA Update2Ok ==
  ASSUME NEW b \in Predictor, NEW pc \in Controls, NEW dnpc \in Outcomes(pc), BtbSound(b.btb)
  PROVE  Trains(b, bpred2_update(b, pc, dnpc))
<1> USE Zenon
<1> DEFINE L == Learn(b, pc, dnpc)
           actual == dnpc # pc + 4
           bit == IF actual THEN 1 ELSE 0
           hist == b.lht[LhtIndex(pc)]
           lpht2 == [L.lpht EXCEPT ![hist] = Count(L.lpht[hist], actual)]
           lht2 == [L.lht EXCEPT ![LhtIndex(pc)] = (2 * hist + bit) % 2^LHT_BITS]
           ghr2 == (2 * L.ghr + bit) % 2^GHR_BITS
           u == [L EXCEPT !.lpht = lpht2, !.lht = lht2, !.ghr = ghr2]
<1>1. L \in Predictor /\ BtbSound(L.btb) /\ L = [b EXCEPT !.btb = L.btb]  BY LearnOk
<1>2. L.ras = b.ras /\ L.ras_top = b.ras_top /\ L.ras_count = b.ras_count
  BY <1>1 DEF Predictor
<1> HIDE DEF L
<1>3. bpred2_update(b, pc, dnpc) = u  BY <1>1 DEF bpred2_update, Predictor, L
<1>4. hist \in 0..(2^LHT_BITS - 1) /\ LhtIndex(pc) \in 0..(2^LHT_INDEX - 1)
  BY Ranges DEF Predictor
<1>5. bit \in {0, 1}  OBVIOUS
<1> HIDE DEF bit, hist
<1>6. lpht2 \in [0..(2^LHT_BITS - 1) -> Int]
  <2>1. L.lpht \in [0..(2^LHT_BITS - 1) -> Int]  BY <1>1 DEF Predictor
  <2>2. L.lpht[hist] \in Int  BY <1>4, <2>1
  <2>3. Count(L.lpht[hist], actual) \in Int  BY <2>2, CountType
  <2> QED BY <2>1, <2>3, TableType
<1>7. lht2 \in [0..(2^LHT_INDEX - 1) -> 0..(2^LHT_BITS - 1)]
  <2>1. L.lht \in [0..(2^LHT_INDEX - 1) -> 0..(2^LHT_BITS - 1)]  BY <1>1 DEF Predictor
  <2>2. PICK n \in Nat \ {0} : n = 2^LHT_BITS  BY TablesAssumption
  <2>3. (2 * hist + bit) % n \in 0..(n - 1)  BY SMT, <1>4, <1>5, <2>2, ShiftRange
  <2> QED BY <1>4, <2>1, <2>2, <2>3
<1>8. ghr2 \in Int
  <2>1. PICK n \in Nat \ {0} : n = 2^GHR_BITS  BY TablesAssumption
  <2>2. L.ghr \in Int  BY <1>1 DEF Predictor
  <2>3. (2 * L.ghr + bit) % n \in 0..(n - 1)  BY <1>5, <2>2, ShiftRange
  <2> QED BY SMT, <2>1, <2>3
<1> HIDE DEF lpht2, lht2, ghr2
<1>9. u \in Predictor /\ u.btb = L.btb /\ u.ras = L.ras /\ u.ras_top = L.ras_top
      /\ u.ras_count = L.ras_count
  BY <1>1, <1>6, <1>7, <1>8 DEF Predictor
<1> QED BY <1>1, <1>2, <1>3, <1>9 DEF Trains

(* Slots that hold an address after a call still do. *)
Grows(ras, ras2) ==
  \A i \in Slots : ras[i] \in ReturnAddresses => ras2[i] \in ReturnAddresses

(* What indices that are put back may pop survives such a change. *)
LEMMA SafeGrows ==
  ASSUME NEW ras, NEW ras2, NEW top \in Slots, NEW count \in 0..RAS_SIZE,
         Safe(ras, top, count), Grows(ras, ras2)
  PROVE  Safe(ras2, top, count)
BY Zenon, LiveSlots DEF Safe, Grows

(* What a prediction does: the BTB is untouched, calls stay in the stack, and
   the predicted address is a plausible one. *)
Predicts(b, pc, q, t) ==
  /\ q \in Predictor
  /\ q.btb = b.btb
  /\ Grows(b.ras, q.ras)
  /\ Safe(q.ras, q.ras_top, q.ras_count)
  /\ t \in Int
  /\ \/ t = pc + 4
     \/ t \in Outcomes(pc)
     \/ is_ret(Code[pc]) /\ t \in ReturnAddresses

(* A call pushes the address after it. *)
LEMMA PushOk ==
  ASSUME NEW b \in Predictor, NEW pc \in Controls, is_call(Code[pc]),
         Safe(b.ras, b.ras_top, b.ras_count)
  PROVE  LET q == RasPush(b, pc)
         IN q \in Predictor /\ q.btb = b.btb /\ Grows(b.ras, q.ras)
            /\ Safe(q.ras, q.ras_top, q.ras_count)
<1> USE Zenon
<1>1. b.ras \in [Slots -> Int] /\ b.ras_top \in Slots /\ b.ras_count \in 0..RAS_SIZE
  BY DEF Predictor
<1>2. RAS_SIZE \in Nat \ {0}  BY BpredAssumption
<1> DEFINE top == (b.ras_top + 1) % RAS_SIZE
           c2 == IF b.ras_count < RAS_SIZE THEN b.ras_count + 1 ELSE b.ras_count
           ras2 == [b.ras EXCEPT ![top] = pc + 4]
           q == [b EXCEPT !.ras = ras2, !.ras_top = top, !.ras_count = c2]
<1>3. RasPush(b, pc) = q  BY DEF RasPush, Predictor
<1>4. c2 \in 0..RAS_SIZE /\ c2 <= b.ras_count + 1  BY SMT, <1>1, <1>2
<1> HIDE DEF c2
<1>5. top \in Slots /\ Live(top, c2) \subseteq {top} \cup Live(b.ras_top, b.ras_count)
  BY <1>1, <1>4, PushLive
<1> HIDE DEF top
<1>6. pc + 4 \in ReturnAddresses /\ pc + 4 \in Int
  BY Ranges DEF ReturnAddresses, Controls
<1>7. ras2 \in [Slots -> Int] /\ ras2[top] = pc + 4
      /\ \A i \in Slots : i # top => ras2[i] = b.ras[i]
  BY <1>1, <1>5, <1>6
<1> HIDE DEF ras2
<1>8. Grows(b.ras, ras2)  BY <1>6, <1>7 DEF Grows
<1>9. Safe(ras2, top, c2)
  <2>1. Live(b.ras_top, b.ras_count) \subseteq Slots  BY <1>1, LiveSlots
  <2> QED BY <1>5, <1>6, <1>7, <1>8, <2>1 DEF Safe, Grows
<1>10. q \in Predictor /\ q.btb = b.btb /\ q.ras = ras2 /\ q.ras_top = top /\ q.ras_count = c2
  BY <1>4, <1>5, <1>7 DEF Predictor
<1> QED BY <1>3, <1>8, <1>9, <1>10

(* A return pops the address after a call. *)
LEMMA PopOk ==
  ASSUME NEW b \in Predictor, b.ras_count > 0, Safe(b.ras, b.ras_top, b.ras_count)
  PROVE  LET q == RasPop(b)
         IN /\ q \in Predictor /\ q.btb = b.btb /\ q.ras = b.ras
            /\ Safe(q.ras, q.ras_top, q.ras_count)
            /\ b.ras[b.ras_top] \in ReturnAddresses /\ b.ras[b.ras_top] \in Int
<1> USE Zenon
<1>1. b.ras \in [Slots -> Int] /\ b.ras_top \in Slots /\ b.ras_count \in 1..RAS_SIZE
  <2>1. b.ras \in [Slots -> Int] /\ b.ras_top \in Slots /\ b.ras_count \in 0..RAS_SIZE
    BY DEF Predictor
  <2> QED BY SMT, <2>1, BpredAssumption
<1> DEFINE top == (b.ras_top - 1 + RAS_SIZE) % RAS_SIZE
           c2 == b.ras_count - 1
           q == [b EXCEPT !.ras_top = top, !.ras_count = c2]
<1>2. RasPop(b) = q  BY DEF RasPop, Predictor
<1>3. top \in Slots /\ Live(top, c2) \subseteq Live(b.ras_top, b.ras_count)
      /\ b.ras_top \in Live(b.ras_top, b.ras_count)
  BY <1>1, PopLive
<1>4. c2 \in 0..RAS_SIZE  BY SMT, <1>1, BpredAssumption
<1> HIDE DEF top, c2
<1>5. q \in Predictor /\ q.btb = b.btb /\ q.ras = b.ras /\ q.ras_top = top /\ q.ras_count = c2
  BY <1>3, <1>4 DEF Predictor
<1>6. Safe(b.ras, top, c2) /\ b.ras[b.ras_top] \in ReturnAddresses  BY <1>3 DEF Safe
<1> QED BY <1>1, <1>2, <1>5, <1>6

(* A target that comes from the BTB on a hit is an outcome of the branch. *)
LEMMA HitOk ==
  ASSUME NEW b \in Predictor, NEW pc \in Controls, BtbSound(b.btb), BtbHit(b, pc)
  PROVE  b.btb[BtbIndex(pc)].target \in Outcomes(pc) /\ b.btb[BtbIndex(pc)].target \in Int
<1> USE Zenon
<1>1. b.btb[BtbIndex(pc)].target \in Outcomes(pc)  BY DEF BtbSound, BtbHit
<1> QED BY <1>1, Ranges

(* bpred_predict, for every control instruction. *)
LEMMA PredictOk ==
  ASSUME NEW b \in Predictor, NEW pc \in Controls, BtbSound(b.btb),
         Safe(b.ras, b.ras_top, b.ras_count)
  PROVE  LET r == bpred_predict(b, pc, Code[pc]) IN Predicts(b, pc, r[1], r[2])
<1> USE Zenon
<1>1. CASE is_ret(Code[pc]) /\ b.ras_count > 0
  <2>1. bpred_predict(b, pc, Code[pc]) = <<RasPop(b), b.ras[b.ras_top]>>
    BY <1>1 DEF bpred_predict
  <2>2. /\ RasPop(b) \in Predictor /\ RasPop(b).btb = b.btb /\ RasPop(b).ras = b.ras
        /\ Safe(RasPop(b).ras, RasPop(b).ras_top, RasPop(b).ras_count)
        /\ b.ras[b.ras_top] \in ReturnAddresses /\ b.ras[b.ras_top] \in Int
    BY <1>1, PopOk
  <2>3. Grows(b.ras, RasPop(b).ras)  BY <2>2 DEF Grows
  <2> QED BY SMT, <1>1, <2>1, <2>2, <2>3 DEF Predicts
<1>2. CASE ~(is_ret(Code[pc]) /\ b.ras_count > 0)
  <2> DEFINE q == IF is_call(Code[pc]) THEN RasPush(b, pc) ELSE b
             t == IF TournamentTaken(q, pc) /\ BtbHit(q, pc)
                  THEN q.btb[BtbIndex(pc)].target ELSE pc + 4
  <2>1. bpred_predict(b, pc, Code[pc]) = <<q, t>>  BY <1>2 DEF bpred_predict
  <2>2. /\ q \in Predictor /\ q.btb = b.btb /\ Grows(b.ras, q.ras)
        /\ Safe(q.ras, q.ras_top, q.ras_count)
    <3>1. CASE is_call(Code[pc])  BY <3>1, PushOk
    <3>2. CASE ~is_call(Code[pc])  BY <3>2 DEF Grows
    <3> QED BY <3>1, <3>2
  <2> HIDE DEF q
  <2>3. t \in Int /\ (t = pc + 4 \/ t \in Outcomes(pc))
    <3>1. CASE TournamentTaken(q, pc) /\ BtbHit(q, pc)  BY <2>2, <3>1, HitOk
    <3>2. CASE ~(TournamentTaken(q, pc) /\ BtbHit(q, pc))  BY <3>2, Ranges
    <3> QED BY <3>1, <3>2
  <2> HIDE DEF t
  <2> QED BY SMT, <2>1, <2>2, <2>3 DEF Predicts
<1> QED BY <1>1, <1>2

(* bpred2_predict, which changes nothing. *)
LEMMA Predict2Ok ==
  ASSUME NEW b \in Predictor, NEW pc \in Controls, BtbSound(b.btb),
         Safe(b.ras, b.ras_top, b.ras_count)
  PROVE  LET r == bpred2_predict(b, pc) IN Predicts(b, pc, r[1], r[2])
<1> USE Zenon
<1> DEFINE t == IF b.lpht[spec_lht(pc)] >= 2 /\ BtbHit(b, pc)
                THEN b.btb[BtbIndex(pc)].target ELSE pc + 4
<1>1. bpred2_predict(b, pc) = <<b, t>>  BY DEF bpred2_predict
<1>2. t \in Int /\ (t = pc + 4 \/ t \in Outcomes(pc))
  <2>1. CASE BtbHit(b, pc)
    <3>1. b.btb[BtbIndex(pc)].target \in Outcomes(pc) /\ b.btb[BtbIndex(pc)].target \in Int
      BY <2>1, HitOk
    <3> QED BY <3>1, Ranges
  <2>2. CASE ~BtbHit(b, pc)  BY <2>2, Ranges
  <2> QED BY <2>1, <2>2
<1> HIDE DEF t
<1> QED BY SMT, <1>1, <1>2 DEF Predicts, Grows

(***************************************************************************)
(* The invariant is inductive.                                             *)
(***************************************************************************)

(* bpred_init: an empty stack and no valid entry. *)
LEMMA InitInv == FInit => FrontInv
<1> SUFFICES ASSUME FInit PROVE FrontInv  BY Zenon
<1>1. bp \in Predictor
  <2>1. 0 \in Slots /\ 0 \in 0..RAS_SIZE  BY BpredAssumption DEF Slots
  <2>2. 0 \in 0..(2^LHT_BITS - 1)
    <3>1. PICK n \in Nat \ {0} : n = 2^LHT_BITS  BY Zenon, TablesAssumption
    <3>2. 0 \in 0..(n - 1)  OBVIOUS
    <3> QED BY Zenon, <3>1, <3>2
  <2>3. [valid |-> FALSE, tag |-> 0, target |-> 0] \in BtbEntry  BY DEF BtbEntry
  <2> QED BY <2>1, <2>2, <2>3 DEF FInit, bpred_init, Predictor, Slots
<1>2. Safe(bp.ras, bp.ras_top, bp.ras_count)
  <2>1. bp.ras_count = 0  BY Zenon DEF FInit, bpred_init
  <2>2. 0..(0 - 1) = {}  OBVIOUS
  <2> QED BY Zenon, <2>1, <2>2 DEF Safe, Live
<1>3. BtbSound(bp.btb)
  <2>1. bp.btb = [i \in 0..(2^BTB_BITS - 1) |-> [valid |-> FALSE, tag |-> 0, target |-> 0]]
    BY Zenon DEF FInit, bpred_init
  <2>2. \A p \in Controls : BtbIndex(p) \in 0..(2^BTB_BITS - 1)  BY Zenon, Ranges
  <2>3. \A p \in Controls : ~bp.btb[BtbIndex(p)].valid  BY <2>1, <2>2
  <2> QED BY Zenon, <2>3 DEF BtbSound
<1>4. queue \in Seq(EntryType) /\ Len(queue) = 0 /\ fetch_pc \in Pcs  BY DEF FInit
<1> QED BY <1>1, <1>2, <1>3, <1>4 DEF FrontInv

(* Fetching, predicted or not. *)
LEMMA FetchInv == ASSUME FrontInv, Fetch PROVE FrontInv'
<1> USE Zenon
<1>1. fetch_pc \in Pcs  BY DEF FrontInv, Fetch
<1>2. CASE ~IsControl(Code[fetch_pc])
  <2>1. fetch_pc' \in Pcs \cup {Wild} /\ bp' = bp /\ queue' = queue
    BY <1>2 DEF Fetch, Fetchable
  <2> QED BY <2>1 DEF FrontInv
<1>3. CASE IsControl(Code[fetch_pc])
  <2> DEFINE r == IF g_bpred2_mode THEN bpred2_predict(bp, fetch_pc)
                  ELSE bpred_predict(bp, fetch_pc, Code[fetch_pc])
  <2>1. bp' = r[1] /\ fetch_pc' = Fetchable(r[2]) /\ queue' = Append(queue, Entry(fetch_pc, r[2]))
    BY <1>3 DEF Fetch
  <2>2. fetch_pc \in Controls  BY <1>1, <1>3 DEF Controls
  <2>3. Predicts(bp, fetch_pc, r[1], r[2])
    <3>1. Predicts(bp, fetch_pc, bpred2_predict(bp, fetch_pc)[1], bpred2_predict(bp, fetch_pc)[2])
      BY <2>2, Predict2Ok DEF FrontInv
    <3>2. Predicts(bp, fetch_pc, bpred_predict(bp, fetch_pc, Code[fetch_pc])[1],
                                 bpred_predict(bp, fetch_pc, Code[fetch_pc])[2])
      BY <2>2, PredictOk DEF FrontInv
    <3>3. CASE g_bpred2_mode  BY <3>1, <3>3
    <3>4. CASE ~g_bpred2_mode  BY <3>2, <3>4
    <3> QED BY <3>3, <3>4
  <2> HIDE DEF r
  <2> DEFINE e == Entry(fetch_pc, r[2])
  <2>4. e \in EntryType
    BY <2>2, <2>3 DEF Entry, EntryType, Predicts, FrontInv, Predictor
  <2>5. EntryOk(e, bp'.ras)
    <3>1. Safe(bp'.ras, bp.ras_top, bp.ras_count)
      <4>1. bp.ras_top \in Slots /\ bp.ras_count \in 0..RAS_SIZE  BY DEF FrontInv, Predictor
      <4>2. Safe(bp.ras, bp.ras_top, bp.ras_count) /\ Grows(bp.ras, bp'.ras)
        BY <2>1, <2>3 DEF FrontInv, Predicts
      <4> QED BY <4>1, <4>2, SafeGrows
    <3>2. Plausible(e)  BY <2>3 DEF Predicts, Plausible, Entry
    <3>3. e.ras_top_snap = bp.ras_top /\ e.ras_cnt_snap = bp.ras_count  BY DEF Entry
    <3> QED BY <3>1, <3>2, <3>3 DEF EntryOk
  <2>6. \A k \in 1..Len(queue) : EntryOk(queue[k], bp'.ras)
    <3> SUFFICES ASSUME NEW k \in 1..Len(queue) PROVE EntryOk(queue[k], bp'.ras)  OBVIOUS
    <3>1. queue[k] \in EntryType /\ EntryOk(queue[k], bp.ras)  BY SMT DEF FrontInv
    <3>2. queue[k].ras_top_snap \in Slots /\ queue[k].ras_cnt_snap \in 0..RAS_SIZE
      BY <3>1 DEF EntryType
    <3>3. Grows(bp.ras, bp'.ras)  BY <2>1, <2>3 DEF Predicts
    <3>4. Safe(bp.ras, queue[k].ras_top_snap, queue[k].ras_cnt_snap)  BY <3>1 DEF EntryOk
    <3>5. Safe(bp'.ras, queue[k].ras_top_snap, queue[k].ras_cnt_snap)
      BY <3>2, <3>3, <3>4, SafeGrows
    <3> QED BY <3>1, <3>5 DEF EntryOk
  <2> HIDE DEF e
  <2>7. queue \in Seq(EntryType)  BY DEF FrontInv
  <2>8. /\ queue' \in Seq(EntryType) /\ Len(queue') = Len(queue) + 1
        /\ \A k \in 1..Len(queue) : queue'[k] = queue[k]
        /\ queue'[Len(queue) + 1] = e
    BY SMT, <2>1, <2>4, <2>7 DEF e
  <2>9. \A k \in 1..Len(queue') : EntryOk(queue'[k], bp'.ras)
    <3>1. ASSUME NEW k \in 1..Len(queue') PROVE k \in 1..Len(queue) \/ k = Len(queue) + 1
      BY SMT, <2>7, <2>8
    <3> QED BY <2>5, <2>6, <2>8, <3>1
  <2>10. fetch_pc' \in Pcs \cup {Wild}  BY <2>1 DEF Fetchable
  <2>11. bp' \in Predictor /\ Safe(bp'.ras, bp'.ras_top, bp'.ras_count) /\ BtbSound(bp'.btb)
    BY <2>1, <2>3 DEF Predicts, FrontInv
  <2> QED BY <2>8, <2>9, <2>10, <2>11 DEF FrontInv
<1> QED BY <1>2, <1>3

(* Retiring the oldest branch. *)
LEMMA RetireInv == ASSUME FrontInv, Retire PROVE FrontInv'
<1>1. queue \in Seq(EntryType) /\ queue # <<>> /\ queue' = Tail(queue)  BY Zenon DEF FrontInv,
                                                                           Retire
<1>2. /\ queue' \in Seq(EntryType) /\ Len(queue') = Len(queue) - 1
      /\ \A k \in 1..Len(queue') : queue'[k] = queue[k + 1]
  BY <1>1
<1>3. \A k \in 1..Len(queue') : k + 1 \in 1..Len(queue)  BY <1>1, <1>2
<1>4. \A k \in 1..Len(queue') : EntryOk(queue'[k], bp.ras)  BY Zenon, <1>2, <1>3 DEF FrontInv
<1> QED BY Zenon, <1>2, <1>4 DEF FrontInv, Retire

(* Resolving any branch in flight, in any order: a right prediction, a target
   outside memory, or a misprediction that puts the indices back. *)
LEMMA ResolveInv ==
  ASSUME FrontInv, NEW k \in DOMAIN queue, NEW dnpc \in Outcomes(queue[k].pc), Resolve(k, dnpc)
  PROVE  FrontInv'
<1> USE Zenon
<1> DEFINE e == queue[k]
           trained == Train(e, dnpc)
           done == [e EXCEPT !.resolved = TRUE, !.fault = dnpc = Wild /\ e.predicted # Wild]
<1>1. queue \in Seq(EntryType) /\ k \in 1..Len(queue)  BY SMT DEF FrontInv
<1>2. e \in EntryType /\ EntryOk(e, bp.ras)  BY SMT, <1>1 DEF FrontInv
<1>3. e.pc \in Controls  BY <1>2 DEF EntryType
<1>4. Trains(bp, trained)
  <2>1. bp \in Predictor /\ BtbSound(bp.btb)  BY DEF FrontInv
  <2>2. Trains(bp, bpred2_update(bp, e.pc, dnpc))  BY <1>3, <2>1, Update2Ok
  <2>3. Trains(bp, bpred_update(bp, e.pc, dnpc))  BY <1>3, <2>1, UpdateOk
  <2>4. CASE g_bpred2_mode  BY <2>2, <2>4 DEF Train
  <2>5. CASE ~g_bpred2_mode  BY <2>3, <2>5 DEF Train
  <2> QED BY <2>4, <2>5
<1>5. /\ done \in EntryType /\ done.pc = e.pc /\ done.predicted = e.predicted
      /\ done.ras_top_snap = e.ras_top_snap /\ done.ras_cnt_snap = e.ras_cnt_snap
  BY <1>2 DEF EntryType
<1>6. EntryOk(done, bp.ras)  BY <1>2, <1>5 DEF EntryOk, Plausible
<1>7. CASE dnpc \in {e.predicted, Wild}
  <2>1. bp' = trained /\ queue' = [queue EXCEPT ![k] = done] /\ fetch_pc' = fetch_pc
    BY <1>7 DEF Resolve
  <2> HIDE DEF trained, done
  <2>2. /\ queue' \in Seq(EntryType) /\ Len(queue') = Len(queue)
        /\ \A j \in 1..Len(queue) : queue'[j] = IF j = k THEN done ELSE queue[j]
    BY SMT, <1>1, <1>5, <2>1
  <2>3. \A j \in 1..Len(queue') : EntryOk(queue'[j], bp.ras)  BY <1>6, <2>2 DEF FrontInv
  <2>4. bp'.ras = bp.ras  BY <1>4, <2>1 DEF Trains
  <2>5. bp' \in Predictor /\ Safe(bp'.ras, bp'.ras_top, bp'.ras_count) /\ BtbSound(bp'.btb)
    BY <1>4, <2>1 DEF Trains, FrontInv
  <2> QED BY <2>1, <2>2, <2>3, <2>4, <2>5 DEF FrontInv
<1>8. CASE dnpc \notin {e.predicted, Wild}
  <2>1. /\ bp' = RestoreRas(trained, e)
        /\ queue' = Append(SubSeq(queue, 1, k - 1), done) /\ fetch_pc' = dnpc
    BY <1>8 DEF Resolve
  <2>2. dnpc \in Pcs  BY <1>3, <1>8, Ranges
  <2>3. /\ bp' \in Predictor /\ bp'.ras = bp.ras /\ BtbSound(bp'.btb)
        /\ Safe(bp'.ras, bp'.ras_top, bp'.ras_count)
    <3> HIDE DEF trained
    <3>1. CASE g_bpred2_mode
      <4>1. bp' = trained  BY <2>1, <3>1 DEF RestoreRas
      <4> QED BY <1>4, <4>1 DEF Trains, FrontInv
    <3>2. CASE ~g_bpred2_mode
      <4>1. bp' = [trained EXCEPT !.ras_top = e.ras_top_snap, !.ras_count = e.ras_cnt_snap]
        BY <2>1, <3>2 DEF RestoreRas
      <4>2. e.ras_top_snap \in Slots /\ e.ras_cnt_snap \in 0..RAS_SIZE  BY <1>2 DEF EntryType
      <4>3. /\ bp' \in Predictor /\ bp'.btb = trained.btb /\ bp'.ras = trained.ras
            /\ bp'.ras_top = e.ras_top_snap /\ bp'.ras_count = e.ras_cnt_snap
        BY <1>4, <4>1, <4>2 DEF Trains, Predictor
      <4> QED BY <1>2, <1>4, <4>3 DEF Trains, EntryOk
    <3> QED BY <3>1, <3>2
  <2> HIDE DEF trained, done
  <2> DEFINE older == SubSeq(queue, 1, k - 1)
  <2>4. /\ older \in Seq(EntryType) /\ Len(older) = k - 1
        /\ \A j \in 1..(k - 1) : older[j] = queue[j]
    BY SMT, <1>1
  <2>5. queue' = Append(older, done)  BY <2>1
  <2> HIDE DEF older
  <2>6. /\ queue' \in Seq(EntryType) /\ Len(queue') = k
        /\ \A j \in 1..(k - 1) : queue'[j] = queue[j]
        /\ queue'[k] = done
    BY SMT, <1>1, <1>5, <2>4, <2>5
  <2>7. \A j \in 1..Len(queue') : EntryOk(queue'[j], bp.ras)
    <3> SUFFICES ASSUME NEW j \in 1..Len(queue') PROVE EntryOk(queue'[j], bp.ras)  OBVIOUS
    <3>1. CASE j = k  BY <1>6, <2>6, <3>1
    <3>2. CASE j # k
      <4>1. j \in 1..(k - 1) /\ j \in 1..Len(queue)  BY SMT, <1>1, <2>6, <3>2
      <4> QED BY <2>6, <4>1 DEF FrontInv
    <3> QED BY <3>1, <3>2
  <2> QED BY <2>1, <2>2, <2>3, <2>6, <2>7 DEF FrontInv
<1> QED BY <1>7, <1>8

(* The invariant holds in every reachable state: Init, one step per action,
   and stuttering. *)
THEOREM FrontEndInvariant == FSpec => []FrontInv
<1> USE Zenon
<1>1. FInit => FrontInv  BY InitInv
<1>2. FrontInv /\ [FNext]_fvars => FrontInv'
  <2> SUFFICES ASSUME FrontInv, [FNext]_fvars PROVE FrontInv'  OBVIOUS
  <2>1. CASE Fetch  BY <2>1, FetchInv
  <2>2. CASE \E k \in DOMAIN queue : \E dnpc \in Outcomes(queue[k].pc) : Resolve(k, dnpc)
    BY <2>2, ResolveInv
  <2>3. CASE Retire  BY <2>3, RetireInv
  <2>4. CASE UNCHANGED fvars  BY <2>4 DEF fvars, FrontInv
  <2> QED BY <2>1, <2>2, <2>3, <2>4 DEF FNext
<1> QED BY <1>1, <1>2, PTL DEF FSpec

(* RasHoldsCalls for every program, stack size and number of branches in
   flight: ooo.c puts back only ras_top and ras_count, never the slots, and
   still a return is only ever predicted to go to the address after a call. *)
THEOREM RasHolds == FSpec => []RasHoldsCalls
<1>1. FrontInv => RasHoldsCalls  BY Zenon DEF FrontInv, Safe, Live, RasHoldsCalls, LiveRas
<1> QED BY <1>1, FrontEndInvariant, PTL

(* PredictionIsPlausible for every program and table size: the partial index
   of bpred.c's BTB with its tag never gives a branch the target of another. *)
THEOREM PredictionsPlausible == FSpec => []PredictionIsPlausible
<1>1. FrontInv => PredictionIsPlausible
  <2> SUFFICES ASSUME FrontInv, NEW k \in DOMAIN queue PROVE Plausible(queue[k])
    BY Zenon DEF PredictionIsPlausible, Plausible
  <2>1. k \in 1..Len(queue)  BY DEF FrontInv
  <2> QED BY Zenon, <2>1 DEF FrontInv, EntryOk
<1> QED BY <1>1, FrontEndInvariant, PTL
=============================================================================
