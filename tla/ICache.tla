------------------------------- MODULE ICache -------------------------------
(***************************************************************************)
(* The instruction side of the cache hierarchy (vaddr_ifetch in src/       *)
(* memory/vmem.c): an L1I per hart that fills from the shared L2, beside   *)
(* the data side of module Caches.                                         *)
(***************************************************************************)
EXTENDS Caches

CONSTANT
    FetchHarts  \* bound: the harts whose instruction fetches are followed

ASSUME FetchAssumption == FetchHarts \subseteq Harts

VARIABLES
    l1i,        \* per hart, the lines of its L1I
    written     \* history: blocks stored to

icVars == <<vars, l1i, written>>

ICInit ==
    /\ Init
    /\ l1i = [h \in FetchHarts |-> [b \in Blocks |-> NoLine]]
    /\ written = {}

(***************************************************************************)
(* vaddr_ifetch on DRAM: cache_read through the L1I, without a snoop.  A   *)
(* hit changes nothing.                                                    *)
(***************************************************************************)
vaddr_ifetch(h, b) ==
    /\ ~l1i[h][b].valid
    /\ ifetch_miss(b)
    /\ \E v \in Victims(l1i[h], L1_SETS, L1_WAYS, b) :
         l1i' = [l1i EXCEPT ![h] = [[@ EXCEPT ![v] = NoLine] EXCEPT ![b] = Clean(l2'[b].data)]]
    /\ UNCHANGED written

(***************************************************************************)
(* The data accesses.                                                      *)
(***************************************************************************)
Load(h, b, o) ==
    /\ vaddr_read(h, b, o)
    /\ UNCHANGED <<l1i, written>>

Store(h, b, o, v) ==
    /\ vaddr_write(h, b, o, v)
    /\ written' = written \cup {b}
    /\ UNCHANGED l1i

ICNext ==
    \/ \E h \in FetchHarts, b \in Blocks : vaddr_ifetch(h, b)
    \/ \E h \in Harts, b \in Blocks, o \in Offsets :
         Load(h, b, o) \/ \E v \in Values : Store(h, b, o, v)

ICSpec == ICInit /\ [][ICNext]_icVars

\* An image whose blocks differ.
TwoWords == [b \in Blocks |-> [o \in Offsets |-> b % 2]]

-----------------------------------------------------------------------------
(***************************************************************************)
(* What an instruction fetch by h in block b reads.                        *)
(***************************************************************************)
Fetched(h, b) == IF l1i[h][b].valid THEN l1i[h][b].data ELSE Below(b)

(***************************************************************************)
(* Code that is not stored to is fetched as it was loaded, whatever the    *)
(* data accesses evict and write back around it (fetch_block and access_l2 *)
(* in cache.c compute the address of a victim from the set of the miss).   *)
(***************************************************************************)
FetchIntact ==
    \A h \in FetchHarts, b \in Blocks \ written : Fetched(h, b) = Image[b]

(***************************************************************************)
(* "No real I-cache invalidation needed in this simulator" (ir.c:999): an  *)
(* instruction fetch after fence.i returns what the stores before it put   *)
(* in memory.  ir_exec_fence_i leaves the caches as they are, so the fetch *)
(* after it returns what Fetched says at that point, wherever it comes.    *)
(* MCICacheFence.cfg refutes it.                                           *)
(***************************************************************************)
FetchSeesStores ==
    \A h \in FetchHarts, b \in Blocks : Fetched(h, b) = Current(b)
=============================================================================
