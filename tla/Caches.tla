------------------------------- MODULE Caches -------------------------------
(***************************************************************************)
(* The data side of the cache hierarchy and its coherence (src/memory/     *)
(* cache.c and vmem.c): an L1D per hart, a shared L2 that is neither       *)
(* inclusive nor exclusive, physical memory, and the snooping of the other *)
(* hart's L1D that vaddr_read and vaddr_write do first when there are two  *)
(* harts.  The simulator runs one hart at a time, so each access is one    *)
(* step.  The L1I is in module ICache; here it only fills from the L2.     *)
(*                                                                         *)
(* Abstractions.  A cache line is named by the block it holds, since a     *)
(* block is filled only on a miss and so is in one way at most.  The       *)
(* victim of a miss is any way of the set (the code takes the least        *)
(* recently used one).  Fields of an invalid line are never read and have  *)
(* one value.  prefetch_hint returns 0, so nothing is prefetched.          *)
(***************************************************************************)
EXTENDS Integers, FiniteSets

CONSTANTS
    NUM_CORES,          \* g_num_cores
    NBLOCK,             \* blocks of DRAM
    Offsets, Values,    \* words of a block and what they hold
    L1_SETS, L1_WAYS, L2_SETS, L2_WAYS,
    Image               \* what load_img puts in memory

ASSUME CachesAssumption ==
    /\ NUM_CORES \in {1, 2}
    /\ NBLOCK \in Nat \ {0}
    /\ Offsets # {} /\ 0 \in Values
    /\ L1_SETS \in Nat \ {0} /\ L1_WAYS \in Nat \ {0}
    /\ L2_SETS \in Nat \ {0} /\ L2_WAYS \in Nat \ {0}

VARIABLES
    l1d,        \* per hart, the lines of its L1D
    l2, mem,    \* the shared L2 and physical memory
    reply       \* the last data read and its value

vars == <<l1d, l2, mem, reply>>

Harts  == 0 .. NUM_CORES - 1
Blocks == 0 .. NBLOCK - 1
Data   == [Offsets -> Values]
Zero   == [o \in Offsets |-> 0]
Lines  == [valid : BOOLEAN, dirty : BOOLEAN, data : Data]
NoLine == [valid |-> FALSE, dirty |-> FALSE, data |-> Zero]
NoReply == [hart |-> -1]

ASSUME ImageAssumption == Image \in [Blocks -> Data]

Clean(d) == [valid |-> TRUE, dirty |-> FALSE, data |-> d]
Dirty(d) == [valid |-> TRUE, dirty |-> TRUE, data |-> d]

(***************************************************************************)
(* init_cache_system and core_create: the caches are empty.                *)
(***************************************************************************)
Init ==
    /\ l1d = [h \in Harts |-> [b \in Blocks |-> NoLine]]
    /\ l2 = [b \in Blocks |-> NoLine]
    /\ mem = Image
    /\ reply = NoReply

-----------------------------------------------------------------------------
(***************************************************************************)
(* find_line: the blocks that a miss on b may replace in a cache.  b       *)
(* itself stands for a way that holds no block.                            *)
(***************************************************************************)
Victims(cache, sets, ways, b) ==
    LET same == {c \in Blocks \ {b} : cache[c].valid /\ c % sets = b % sets}
    IN  same \cup (IF Cardinality(same) < ways THEN {b} ELSE {})

(***************************************************************************)
(* The L2 and memory, as m = [l2, mem].  EvictL2 replaces victim v, whose  *)
(* data goes to memory if it is dirty.                                     *)
(***************************************************************************)
EvictL2(m, v) ==
    [l2  |-> [m.l2 EXCEPT ![v] = NoLine],
     mem |-> [m.mem EXCEPT ![v] = IF m.l2[v].valid /\ m.l2[v].dirty THEN m.l2[v].data ELSE @]]

(***************************************************************************)
(* access_l2 with is_write: the L1 writes block b back.  The results that  *)
(* the choice of a victim allows.                                          *)
(***************************************************************************)
access_l2_write(m, b, data) ==
    IF m.l2[b].valid THEN {[m EXCEPT !.l2 = [@ EXCEPT ![b] = Dirty(data)]]}
    ELSE {LET e == EvictL2(m, v) IN [e EXCEPT !.l2 = [@ EXCEPT ![b] = Dirty(data)]] :
            v \in Victims(m.l2, L2_SETS, L2_WAYS, b)}

(***************************************************************************)
(* access_l2 without is_write: block b is in the L2 afterwards.            *)
(***************************************************************************)
access_l2_read(m, b) ==
    IF m.l2[b].valid THEN {m}
    ELSE {LET e == EvictL2(m, v) IN [e EXCEPT !.l2 = [@ EXCEPT ![b] = Clean(e.mem[b])]] :
            v \in Victims(m.l2, L2_SETS, L2_WAYS, b)}

(***************************************************************************)
(* fetch_block: write back a dirty L1 victim, then fill from the L2.  The  *)
(* results are records of the L1, the L2 and memory.                       *)
(***************************************************************************)
WriteBack(l1, m, v) ==
    IF l1[v].valid /\ l1[v].dirty THEN access_l2_write(m, v, l1[v].data) ELSE {m}

\* Mutant: the victim is written back to the address of the miss.
fetch_block_WrongAddr(l1, m, b) ==
    UNION {UNION {{[l1  |-> [[l1 EXCEPT ![v] = NoLine] EXCEPT ![b] = Clean(r.l2[b].data)],
                    l2  |-> r.l2, mem |-> r.mem] : r \in access_l2_read(w, b)} :
             w \in IF l1[v].valid /\ l1[v].dirty THEN access_l2_write(m, b, l1[v].data)
                   ELSE {m}} :
       v \in Victims(l1, L1_SETS, L1_WAYS, b)}

fetch_block(l1, m, b) ==
    UNION {UNION {{[l1  |-> [[l1 EXCEPT ![v] = NoLine] EXCEPT ![b] = Clean(r.l2[b].data)],
                    l2  |-> r.l2, mem |-> r.mem] : r \in access_l2_read(w, b)} :
             w \in WriteBack(l1, m, v)} :
       v \in Victims(l1, L1_SETS, L1_WAYS, b)}

(***************************************************************************)
(* cache_read, cache_read_level and cache_fill_and_read, and the first     *)
(* half of cache_write: block b is in the L1 afterwards.                   *)
(***************************************************************************)
Cached(l1, m, b) ==
    IF l1[b].valid THEN {[l1 |-> l1, l2 |-> m.l2, mem |-> m.mem]} ELSE fetch_block(l1, m, b)

-----------------------------------------------------------------------------
(***************************************************************************)
(* The snoops of the other hart's L1D.  Without a second hart they do      *)
(* nothing.  The results are records of all L1Ds, the L2 and memory.       *)
(***************************************************************************)
Snooped(line, h, b, writeBack) ==
    LET o == 1 - h
    IN  {[l1d |-> [l1d EXCEPT ![o] = [@ EXCEPT ![b] = line]], l2 |-> w.l2, mem |-> w.mem] :
           w \in IF writeBack THEN access_l2_write([l2 |-> l2, mem |-> mem], b, l1d[o][b].data)
                 ELSE {[l2 |-> l2, mem |-> mem]}}

\* Mutant: the line is dropped without writing it back.
snoop_invalidate_Drops(h, b) ==
    IF NUM_CORES = 1 \/ ~l1d[1 - h][b].valid THEN {[l1d |-> l1d, l2 |-> l2, mem |-> mem]}
    ELSE Snooped(NoLine, h, b, FALSE)

cache_snoop_invalidate(h, b) ==
    IF NUM_CORES = 1 \/ ~l1d[1 - h][b].valid THEN {[l1d |-> l1d, l2 |-> l2, mem |-> mem]}
    ELSE Snooped(NoLine, h, b, l1d[1 - h][b].dirty)

\* Mutant: the line is written back and stays dirty.
snoop_flush_KeepsDirty(h, b) ==
    IF NUM_CORES = 1 \/ ~(l1d[1 - h][b].valid /\ l1d[1 - h][b].dirty)
    THEN {[l1d |-> l1d, l2 |-> l2, mem |-> mem]}
    ELSE Snooped(l1d[1 - h][b], h, b, TRUE)

cache_snoop_flush_dirty(h, b) ==
    IF NUM_CORES = 1 \/ ~(l1d[1 - h][b].valid /\ l1d[1 - h][b].dirty)
    THEN {[l1d |-> l1d, l2 |-> l2, mem |-> mem]}
    ELSE Snooped(Clean(l1d[1 - h][b].data), h, b, TRUE)

-----------------------------------------------------------------------------
(***************************************************************************)
(* vaddr_read, vaddr_read_level and vaddr_fill_and_read on DRAM.           *)
(***************************************************************************)
vaddr_read(h, b, o) ==
    \E s \in cache_snoop_flush_dirty(h, b) :
       \E r \in Cached(s.l1d[h], [l2 |-> s.l2, mem |-> s.mem], b) :
         /\ l1d' = [s.l1d EXCEPT ![h] = r.l1]
         /\ l2' = r.l2 /\ mem' = r.mem
         /\ reply' = [hart |-> h, block |-> b, offset |-> o, value |-> r.l1[b].data[o]]

(***************************************************************************)
(* vaddr_write on DRAM: write-allocate and write-back.                     *)
(***************************************************************************)
vaddr_write(h, b, o, v) ==
    /\ \E s \in cache_snoop_invalidate(h, b) :
         \E r \in Cached(s.l1d[h], [l2 |-> s.l2, mem |-> s.mem], b) :
           /\ l1d' = [s.l1d EXCEPT ![h] =
                        [r.l1 EXCEPT ![b] = Dirty([r.l1[b].data EXCEPT ![o] = v])]]
           /\ l2' = r.l2 /\ mem' = r.mem
    /\ reply' = NoReply

(***************************************************************************)
(* What vaddr_ifetch on DRAM does to the L2 when it misses in the L1I.     *)
(* There is no snoop, and lines of the L1I are never dirty.                *)
(***************************************************************************)
ifetch_miss(b) ==
    /\ \E r \in access_l2_read([l2 |-> l2, mem |-> mem], b) : l2' = r.l2 /\ mem' = r.mem
    /\ UNCHANGED <<l1d, reply>>

Next ==
    \E b \in Blocks :
      \/ ifetch_miss(b)
      \/ \E h \in Harts, o \in Offsets :
           vaddr_read(h, b, o) \/ \E v \in Values : vaddr_write(h, b, o, v)

Spec == Init /\ [][Next]_vars

-----------------------------------------------------------------------------
(***************************************************************************)
(* Every variable has its type, and no set holds more blocks than it has   *)
(* ways.                                                                   *)
(***************************************************************************)
Fits(cache, sets, ways) ==
    \A i \in 0 .. sets - 1 :
        Cardinality({b \in Blocks : cache[b].valid /\ b % sets = i}) <= ways

TypeOK ==
    /\ l1d \in [Harts -> [Blocks -> Lines]]
    /\ l2 \in [Blocks -> Lines] /\ mem \in [Blocks -> Data]
    /\ Fits(l2, L2_SETS, L2_WAYS)
    /\ \A h \in Harts : Fits(l1d[h], L1_SETS, L1_WAYS)

(***************************************************************************)
(* The value of a block: the dirty copy if an L1D has one, else the L2's,  *)
(* else memory's.                                                          *)
(***************************************************************************)
Below(b) == IF l2[b].valid THEN l2[b].data ELSE mem[b]

DirtyIn(h, b) == l1d[h][b].valid /\ l1d[h][b].dirty

Current(b) ==
    IF \E h \in Harts : DirtyIn(h, b)
    THEN l1d[CHOOSE h \in Harts : DirtyIn(h, b)][b].data ELSE Below(b)

(***************************************************************************)
(* Coherence (README.md:33, "Write-invalidate cache coherence protocol"):  *)
(* a dirty line in one L1D excludes every copy in the other, a clean line  *)
(* agrees with the L2 or, when the L2 has evicted the block, with memory,  *)
(* and the L2's clean lines agree with memory.                             *)
(***************************************************************************)
Coherent ==
    /\ \A h, g \in Harts, b \in Blocks : h # g /\ DirtyIn(h, b) => ~l1d[g][b].valid
    /\ \A h \in Harts, b \in Blocks :
         l1d[h][b].valid /\ ~l1d[h][b].dirty => l1d[h][b].data = Below(b)
    /\ \A b \in Blocks : l2[b].valid /\ ~l2[b].dirty => l2[b].data = mem[b]

(***************************************************************************)
(* The hierarchy implements a memory of atomic reads and writes: evictions *)
(* at any level, write-backs and snoops never change what a read returns.  *)
(***************************************************************************)
Mem == INSTANCE Memory WITH store <- [b \in Blocks |-> Current(b)]

ImplementsMemory == Mem!MemorySpec
=============================================================================
