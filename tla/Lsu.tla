-------------------------------- MODULE Lsu --------------------------------
(***************************************************************************)
(* The memory side of the out-of-order engine (src/cpu/ooo.c): the load    *)
(* and store unit, its MSHRs, store-to-load forwarding, the store buffer,  *)
(* fences and accesses to devices, on one hart or on two that take turns   *)
(* cycle by cycle (exec.c).  Each stage of ooo_cycle is an action; hart    *)
(* and at say which one is next.                                           *)
(*                                                                         *)
(* Abstractions.  Registers are in module OooCore: here an operand is      *)
(* ready when the instructions it depends on are.  The reservation         *)
(* stations are the ROB entries that wait.  rob_tail follows from rob_head *)
(* and rob_count (OooCoreProofs, RobIsARing).  Memory is atomic (module    *)
(* Caches), and how deep a probe of the caches has to go is any of         *)
(* Latencies.  unready_store_count is never read and is left out.          *)
(***************************************************************************)
EXTENDS Integers, Sequences, FiniteSets

CONSTANTS
    DRAM_SIZE, MMIO_BASE,       \* the address map, as in WeakMemory
    Programs,                   \* functions from the harts to their programs
    ROB_SIZE, RS_SIZE, MSHR_SIZE, STORE_BUF_SIZE,
    Latencies,                  \* level_to_lat; 1 is a hit in the L1
    LAT_L2_HIT, LAT_INT_MUL,
    LINE                        \* bytes of a cache line

ASSUME LsuAssumption ==
    /\ DRAM_SIZE \in Nat /\ MMIO_BASE \in Nat /\ DRAM_SIZE < MMIO_BASE
    /\ {ROB_SIZE, RS_SIZE, MSHR_SIZE, STORE_BUF_SIZE, LINE} \subseteq Nat \ {0}
    /\ Latencies \subseteq Nat \ {0}
    /\ LAT_L2_HIT \in Nat \ {0} /\ LAT_INT_MUL \in Nat \ {0, 1}
    /\ \A P \in Programs :
         /\ DOMAIN P \in {{0}, {0, 1}}
         /\ \A h \in DOMAIN P : \A k \in 1 .. Len(P[h]) :
              P[h][k].op = "br" => P[h][k].tgt > k + 1

VARIABLES
    prog,   \* the programs in memory
    ooo,    \* per hart, its OOOState and what it has committed
    mem,    \* DRAM
    hart,   \* g_current_hartid
    at      \* the stage of ooo_cycle to run next

vars == <<prog, ooo, mem, hart, at>>

g_num_cores == Cardinality(DOMAIN prog)

Harts   == DOMAIN prog
Dram    == 0 .. DRAM_SIZE - 1
RobIdx  == 0 .. ROB_SIZE - 1
MshrIdx == 0 .. MSHR_SIZE - 1
Slots   == 0 .. 1                       \* NUM_LSU_UNITS, FETCH_WIDTH and COMMIT_WIDTH are 2
NoMshr  == -1
Stages  == <<"drain", "commit", "commit", "mshr_tick", "int", "mul", "lsu", "lsu",
             "is", "rn", "id", "if">>

IsDram(a) == a < DRAM_SIZE
IsMmio(a) == a >= MMIO_BASE
Bytes(i)  == i.addr .. i.addr + i.width - 1
Store(m, st) == [a \in Dram |-> IF a \in Bytes(st) THEN st.data ELSE m[a]]
Load(m, i)   == [n \in 1 .. i.width |-> m[i.addr + n - 1]]

\* The instruction after k, and the unit that executes an instruction.
NextPc(i, k) == IF i.op = "br" /\ i.taken THEN i.tgt ELSE k + 1
EuType(i) == IF i.op \in {"load", "store"} THEN "LSU" ELSE IF i.op = "mul" THEN "MUL" ELSE "INT"

(***************************************************************************)
(* The records.  A ROB entry that waits is in a reservation station.  pred *)
(* is bp_predicted_pc, val what a load read.  A latch waits for its first  *)
(* visit, for the head of the ROB or for an MSHR (cycles_rem -1, -2, 0).   *)
(***************************************************************************)
NoEntry == [valid |-> FALSE, k |-> 0, pred |-> 0, waiting |-> FALSE,
            ready |-> FALSE, fault |-> FALSE, val |-> << >>]
NoLatch == [valid |-> FALSE, rob_idx |-> 0, wait |-> "first", mshr_idx |-> NoMshr,
            flushed |-> FALSE]
NoMul   == [valid |-> FALSE, rob_idx |-> 0, cycles_rem |-> -1]
FreeMshr == [valid |-> FALSE, line |-> 0, cycles_rem |-> 0]

(***************************************************************************)
(* ooo_init, and core_create.                                              *)
(***************************************************************************)
Init ==
    /\ prog \in Programs
    /\ ooo = [h \in Harts |->
         [rob |-> [i \in RobIdx |-> NoEntry], rob_head |-> 0, rob_count |-> 0,
          latch_int |-> << >>, latch_mul |-> NoMul, latch_lsu |-> [s \in Slots |-> NoLatch],
          mshr |-> [m \in MshrIdx |-> FreeMshr],
          sbuf |-> << >>, sbuf_drain_tick |-> 0,
          latch_id_rn |-> << >>, latch_if_id |-> << >>, fetch_pc |-> 1,
          pc |-> 1, gpr |-> [k \in DOMAIN prog[h] |-> << >>], io |-> << >>, panic |-> FALSE]]
    /\ mem = [a \in Dram |-> 0]
    /\ hart = 0 /\ at = 1

-----------------------------------------------------------------------------
(***************************************************************************)
(* Places in the ROB of engine c: the distance from the head, and the      *)
(* entries older than i.                                                   *)
(***************************************************************************)
Age(c, i) == (i - c.rob_head + ROB_SIZE) % ROB_SIZE

rob_newer_than(c, a, b) == Age(c, a) > Age(c, b)

Older(c, i) == {j \in RobIdx : c.rob[j].valid /\ Age(c, j) < Age(c, i)}

RobTail(c) == (c.rob_head + c.rob_count) % ROB_SIZE

Oldest(c, S) == CHOOSE i \in S : \A j \in S : Age(c, i) <= Age(c, j)
Newest(c, S) == CHOOSE i \in S : \A j \in S : Age(c, j) <= Age(c, i)

(***************************************************************************)
(* ooo_drain_store_buf: one store, every cycle with one hart, every        *)
(* LAT_L2_HIT cycles with two.                                             *)
(***************************************************************************)
Drains(c) == c.sbuf # << >> /\ (g_num_cores > 1 => c.sbuf_drain_tick = 0)

ooo_drain_store_buf(c) ==
    IF Drains(c)
    THEN [c EXCEPT !.sbuf = Tail(@),
                   !.sbuf_drain_tick = IF g_num_cores > 1 THEN LAT_L2_HIT - 1 ELSE @]
    ELSE [c EXCEPT !.sbuf_drain_tick = IF c.sbuf # << >> THEN @ - 1 ELSE @]

(***************************************************************************)
(* One round of the loop of ooo_stage_commit.  A round that breaks changes *)
(* nothing, so that the next one breaks as well.                           *)
(***************************************************************************)
CommitStalls(p, c) ==
    LET e == c.rob[c.rob_head]
        i == p[e.k]
    IN  \/ c.rob_count = 0 \/ ~e.valid \/ ~e.ready
        \/ i.op = "fence" /\ c.sbuf # << >>
        \/ ~e.fault /\ i.op = "store" /\ IsDram(i.addr) /\ Len(c.sbuf) >= STORE_BUF_SIZE

ooo_stage_commit(p, c) ==
    LET e == c.rob[c.rob_head]
        i == p[e.k]
    IN  IF CommitStalls(p, c) THEN c
        ELSE IF e.fault THEN [c EXCEPT !.panic = TRUE]
        ELSE [c EXCEPT
               !.sbuf = IF i.op = "store" /\ IsDram(i.addr) THEN Append(@, e.k) ELSE @,
               !.io   = IF i.op = "store" /\ ~IsDram(i.addr) THEN Append(@, e.k) ELSE @,
               !.gpr  = IF i.op = "load" THEN [@ EXCEPT ![e.k] = e.val] ELSE @,
               !.pc   = NextPc(i, e.k),
               !.rob  = [@ EXCEPT ![c.rob_head] = NoEntry],
               !.rob_head  = (@ + 1) % ROB_SIZE,
               !.rob_count = @ - 1]

mshr_tick(c) ==
    [c EXCEPT !.mshr = [m \in MshrIdx |->
        IF @[m].valid /\ @[m].cycles_rem > 0 THEN [@[m] EXCEPT !.cycles_rem = @ - 1] ELSE @[m]]]

-----------------------------------------------------------------------------
(***************************************************************************)
(* ooo_flush_after: the instructions after the one in ROB slot b go, from  *)
(* the ROB, the units and the front end.  An LSU latch that waits for an   *)
(* MSHR stays, to fill the cache.                                          *)
(***************************************************************************)
FlushLsu(c, b, l) ==
    IF ~(l.valid /\ rob_newer_than(c, l.rob_idx, b)) THEN l
    ELSE IF l.mshr_idx # NoMshr THEN [l EXCEPT !.flushed = TRUE] ELSE NoLatch

\* Mutant: only the front end is flushed.
flush_FrontEndOnly(c, b) == [c EXCEPT !.latch_if_id = << >>, !.latch_id_rn = << >>]

ooo_flush_after(c, b) ==
    [c EXCEPT
      !.rob = [i \in RobIdx |-> IF rob_newer_than(c, i, b) THEN NoEntry ELSE @[i]],
      !.rob_count = Age(c, b) + 1,
      !.latch_mul = IF @.valid /\ rob_newer_than(c, @.rob_idx, b) THEN NoMul ELSE @,
      !.latch_lsu = [s \in Slots |-> FlushLsu(c, b, @[s])],
      !.latch_if_id = << >>, !.latch_id_rn = << >>]

(***************************************************************************)
(* ooo_unit_int on the instruction in ROB slot i, and on both slots.       *)
(***************************************************************************)
ExecInt(p, c, i) ==
    LET e == c.rob[i]
        d == [c EXCEPT !.rob = [@ EXCEPT ![i] = [@ EXCEPT !.ready = TRUE]]]
        next == NextPc(p[e.k], e.k)
    IN  IF ~e.valid THEN c
        ELSE IF p[e.k].op = "br" /\ next # e.pred
             THEN [ooo_flush_after(d, i) EXCEPT !.fetch_pc = next]
        ELSE d

ooo_unit_int(p, c) ==
    LET q == c.latch_int
        c0 == [c EXCEPT !.latch_int = << >>]
        c1 == IF Len(q) >= 1 THEN ExecInt(p, c0, q[1]) ELSE c0
    IN  IF Len(q) = 2 THEN ExecInt(p, c1, q[2]) ELSE c1

ooo_unit_mul(c) ==
    LET l == c.latch_mul
    IN  IF ~l.valid THEN c
        ELSE IF l.cycles_rem = -1
             THEN [c EXCEPT !.latch_mul = [@ EXCEPT !.cycles_rem = LAT_INT_MUL - 1]]
        ELSE IF l.cycles_rem > 0
             THEN [c EXCEPT !.latch_mul = [@ EXCEPT !.cycles_rem = @ - 1]]
        ELSE [c EXCEPT !.latch_mul = NoMul,
                       !.rob = [@ EXCEPT ![l.rob_idx] = [@ EXCEPT !.ready = TRUE]]]

-----------------------------------------------------------------------------
(***************************************************************************)
(* mshr_find_or_alloc: the MSHR of a line if it has one, else the first    *)
(* free one; NoMshr when all are taken by other lines.                     *)
(***************************************************************************)
FindMshr(c, line) ==
    LET same == {m \in MshrIdx : c.mshr[m].valid /\ c.mshr[m].line = line}
        free == {m \in MshrIdx : ~c.mshr[m].valid}
        S    == IF same # {} THEN same ELSE free
    IN  IF S = {} THEN NoMshr ELSE CHOOSE m \in S : \A n \in S : m <= n

mshr_find_or_alloc(c, s, line, lat) ==
    LET m == FindMshr(c, line)
    IN  IF m = NoMshr THEN c
        ELSE [c EXCEPT
               !.latch_lsu = [@ EXCEPT ![s] = [@ EXCEPT !.mshr_idx = m, !.wait = "mshr"]],
               !.mshr = [@ EXCEPT ![m] = IF @.valid THEN @
                           ELSE [valid |-> TRUE, line |-> line, cycles_rem |-> lat - 1]]]

(***************************************************************************)
(* The end of an access: slot s is free, and its MSHR too unless another   *)
(* slot waits for it.                                                      *)
(***************************************************************************)
still_used(c, s, m) ==
    \E t \in Slots \ {s} : c.latch_lsu[t].valid /\ c.latch_lsu[t].mshr_idx = m

\* Mutant: an MSHR is never freed.
Release_KeepsMshr(c, s) == [c EXCEPT !.latch_lsu = [@ EXCEPT ![s] = NoLatch]]

Release(c, s) ==
    LET m == c.latch_lsu[s].mshr_idx
    IN  [c EXCEPT !.latch_lsu = [@ EXCEPT ![s] = NoLatch],
                  !.mshr = IF m = NoMshr \/ still_used(c, s, m) THEN @
                           ELSE [@ EXCEPT ![m] = FreeMshr]]

(***************************************************************************)
(* STLF_TRY: a store is forwarded only if it contains all the load's       *)
(* bytes.  The newest such store in the ROB, else in the store buffer.     *)
(***************************************************************************)
Covers(st, i) == st.addr <= i.addr /\ st.addr + st.width >= i.addr + i.width

\* Mutant: the store buffer is not searched.
ForwardingBuf_None(p, c, i) == {}

ForwardingBuf(p, c, i) == {n \in 1 .. Len(c.sbuf) : Covers(p[c.sbuf[n]], i)}

LoadValue(p, c, r, m) ==
    LET i    == p[c.rob[r].k]
        robs == {j \in Older(c, r) : /\ c.rob[j].ready /\ p[c.rob[j].k].op = "store"
                                     /\ Covers(p[c.rob[j].k], i)}
        buf  == ForwardingBuf(p, c, i)
        all(st) == [n \in 1 .. i.width |-> st.data]
    IN  IF robs # {} THEN all(p[c.rob[Newest(c, robs)].k])
        ELSE IF buf # {} THEN all(p[c.sbuf[CHOOSE n \in buf : \A x \in buf : x <= n]])
        ELSE IF IsDram(i.addr) THEN Load(m, i) ELSE [n \in 1 .. i.width |-> 0]

(***************************************************************************)
(* lsu_do_fill: the load in slot s gets its value and its entry is ready.  *)
(* A load outside DRAM and devices gets none and is faulted.               *)
(***************************************************************************)
lsu_do_fill(p, c, s, m) ==
    LET r == c.latch_lsu[s].rob_idx
        i == p[c.rob[r].k]
        bad == ~IsDram(i.addr) /\ ~IsMmio(i.addr)
    IN  [Release(c, s) EXCEPT
           !.rob = [@ EXCEPT ![r] = [@ EXCEPT !.ready = TRUE, !.fault = bad,
                                              !.val = IF bad THEN @ ELSE LoadValue(p, c, r, m)]],
           !.io = IF IsMmio(i.addr) THEN Append(@, c.rob[r].k) ELSE @]

(***************************************************************************)
(* ooo_unit_lsu on slot s; lat is the latency of a probe.                  *)
(***************************************************************************)
MmioWaits(c, i, r) == IsMmio(i.addr) /\ r # c.rob_head

FirstVisit(p, c, s, lat, m) ==
    LET r == c.latch_lsu[s].rob_idx
        i == p[c.rob[r].k]
    IN  IF i.op = "store"
        THEN [c EXCEPT !.rob = [@ EXCEPT ![r] = [@ EXCEPT !.ready = TRUE]],
                       !.latch_lsu = [@ EXCEPT ![s] = NoLatch]]
        ELSE IF MmioWaits(c, i, r)
        THEN [c EXCEPT !.latch_lsu = [@ EXCEPT ![s] = [@ EXCEPT !.wait = "head"]]]
        ELSE IF ~IsDram(i.addr) \/ lat = 1 THEN lsu_do_fill(p, c, s, m)
        ELSE mshr_find_or_alloc(c, s, i.addr \div LINE, lat)

ooo_unit_lsu(p, c, s, lat, m) ==
    LET l == c.latch_lsu[s]
        waits == \/ l.wait = "head" /\ l.rob_idx # c.rob_head
                 \/ l.wait = "mshr" /\ c.mshr[l.mshr_idx].cycles_rem > 0
    IN  IF ~l.valid THEN c
        ELSE IF ~c.rob[l.rob_idx].valid \/ l.flushed
             THEN IF l.wait = "mshr" /\ waits THEN c ELSE Release(c, s)
        ELSE IF l.wait = "first" THEN FirstVisit(p, c, s, lat, m)
        ELSE IF waits THEN c ELSE lsu_do_fill(p, c, s, m)

-----------------------------------------------------------------------------
(***************************************************************************)
(* ISSUE_UNIT.  A load waits for the older stores to execute, and for the  *)
(* store buffer to drain when a fence that has executed (only then is      *)
(* ir.type ITYPE_FENCE) is older.                                          *)
(***************************************************************************)
\* Mutant: a load overtakes a store without an address.
Blocked_NotByStores(p, c, r) ==
    /\ p[c.rob[r].k].op = "load" /\ c.sbuf # << >>
    /\ \E j \in Older(c, r) : c.rob[j].ready /\ p[c.rob[j].k].op = "fence"

\* Mutant: a load overtakes a fence.
Blocked_NotByFences(p, c, r) ==
    /\ p[c.rob[r].k].op = "load"
    /\ \E j \in Older(c, r) : ~c.rob[j].ready /\ p[c.rob[j].k].op = "store"

Blocked(p, c, r) ==
    /\ p[c.rob[r].k].op = "load"
    /\ \E j \in Older(c, r) :
         \/ ~c.rob[j].ready /\ p[c.rob[j].k].op = "store"
         \/ c.rob[j].ready /\ p[c.rob[j].k].op = "fence" /\ c.sbuf # << >>

\* Mutant: an instruction issues before its operands are ready.
Operands_Unchecked(p, c, r) == TRUE

Operands(p, c, r) ==
    \A j \in Older(c, r) : c.rob[j].k \in p[c.rob[r].k].dep => c.rob[j].ready

Issuable(p, c, eu) ==
    {r \in RobIdx : /\ c.rob[r].valid /\ c.rob[r].waiting /\ EuType(p[c.rob[r].k]) = eu
                    /\ Operands(p, c, r) /\ (eu = "LSU" => ~Blocked(p, c, r))}

Leave(c, r) == [c EXCEPT !.rob = [@ EXCEPT ![r] = [@ EXCEPT !.waiting = FALSE]]]

IssueInt(p, c) ==
    LET S == Issuable(p, c, "INT")
    IN  IF S = {} THEN c
        ELSE [Leave(c, Oldest(c, S)) EXCEPT !.latch_int = Append(@, Oldest(c, S))]

IssueMul(p, c) ==
    LET S == Issuable(p, c, "MUL")
    IN  IF S = {} \/ c.latch_mul.valid THEN c
        ELSE [Leave(c, Oldest(c, S)) EXCEPT
                !.latch_mul = [NoMul EXCEPT !.valid = TRUE, !.rob_idx = Oldest(c, S)]]

IssueLsu(p, c, s) ==
    LET S == Issuable(p, c, "LSU")
    IN  IF S = {} \/ c.latch_lsu[s].valid THEN c
        ELSE [Leave(c, Oldest(c, S)) EXCEPT
                !.latch_lsu = [@ EXCEPT ![s] = [NoLatch EXCEPT !.valid = TRUE,
                                                               !.rob_idx = Oldest(c, S)]]]

ooo_stage_is(p, c) ==
    IssueLsu(p, IssueLsu(p, IssueMul(p, IssueInt(p, IssueInt(p, c))), 0), 1)

(***************************************************************************)
(* Round n of the loop of ooo_stage_rn.  The only serialising instruction  *)
(* here is the fence.  A round that breaks leaves its instruction first in *)
(* the latch, where the compaction of the code puts it.                    *)
(***************************************************************************)
Rename(p, c, n) ==
    LET f == Head(c.latch_id_rn)
    IN  IF \/ c.latch_id_rn = << >>
           \/ p[f.k].op = "fence" /\ (c.rob_count > 0 \/ n > 0)
           \/ c.rob_count >= ROB_SIZE
           \/ Cardinality({r \in RobIdx : c.rob[r].valid /\ c.rob[r].waiting}) >= RS_SIZE
        THEN c
        ELSE [c EXCEPT
               !.rob = [@ EXCEPT ![RobTail(c)] = [NoEntry EXCEPT !.valid = TRUE, !.waiting = TRUE,
                                                              !.k = f.k, !.pred = f.pred]],
               !.rob_count = @ + 1,
               !.latch_id_rn = Tail(@)]

ooo_stage_rn(p, c) == Rename(p, Rename(p, c, 0), 1)

ooo_stage_id(c) ==
    IF c.latch_if_id = << >> \/ c.latch_id_rn # << >> THEN c
    ELSE [c EXCEPT !.latch_id_rn = c.latch_if_id, !.latch_if_id = << >>]

(***************************************************************************)
(* ooo_stage_if: two instructions, one if it is a branch predicted taken.  *)
(* Nothing is fetched after the last instruction.                          *)
(***************************************************************************)
Fetch(p, c, taken) ==
    LET k == c.fetch_pc
        redirect == k <= Len(p) /\ p[k].op = "br" /\ taken
        next == IF redirect THEN p[k].tgt ELSE k + 1
    IN  IF k > Len(p) THEN c
        ELSE [c EXCEPT !.latch_if_id = Append(@, [k |-> k, pred |-> next]), !.fetch_pc = next]

ooo_stage_if(p, c, taken) ==
    IF c.latch_if_id # << >> THEN c
    ELSE LET c1 == Fetch(p, c, taken)
         IN  IF c1.fetch_pc = c.fetch_pc + 1 THEN Fetch(p, c1, taken) ELSE c1

-----------------------------------------------------------------------------
(***************************************************************************)
(* ooo_cycle_core, stage by stage, and the loop of exec() over the harts.  *)
(* panic() ends the run.                                                   *)
(***************************************************************************)
Advance ==
    /\ \A h \in Harts : ~ooo[h].panic
    /\ at' = IF at = Len(Stages) THEN 1 ELSE at + 1
    /\ hart' = IF at = Len(Stages) THEN (hart + 1) % g_num_cores ELSE hart

Run(stage, c) ==
    /\ Stages[at] = stage
    /\ Advance
    /\ ooo' = [ooo EXCEPT ![hart] = c]
    /\ UNCHANGED prog

Drain ==
    /\ Run("drain", ooo_drain_store_buf(ooo[hart]))
    /\ mem' = IF Drains(ooo[hart]) THEN Store(mem, prog[hart][Head(ooo[hart].sbuf)]) ELSE mem

Commit == Run("commit", ooo_stage_commit(prog[hart], ooo[hart])) /\ UNCHANGED mem

MshrTick == Run("mshr_tick", mshr_tick(ooo[hart])) /\ UNCHANGED mem

UnitInt == Run("int", ooo_unit_int(prog[hart], ooo[hart])) /\ UNCHANGED mem

UnitMul == Run("mul", ooo_unit_mul(ooo[hart])) /\ UNCHANGED mem

UnitLsu ==
    /\ \E lat \in Latencies :
         Run("lsu", ooo_unit_lsu(prog[hart], ooo[hart], at - 7, lat, mem))
    /\ UNCHANGED mem

StageIs == Run("is", ooo_stage_is(prog[hart], ooo[hart])) /\ UNCHANGED mem

StageRn == Run("rn", ooo_stage_rn(prog[hart], ooo[hart])) /\ UNCHANGED mem

StageId == Run("id", ooo_stage_id(ooo[hart])) /\ UNCHANGED mem

StageIf ==
    /\ \E taken \in BOOLEAN : Run("if", ooo_stage_if(prog[hart], ooo[hart], taken))
    /\ UNCHANGED mem

Next ==
    \/ Drain \/ Commit \/ MshrTick \/ UnitInt \/ UnitMul \/ UnitLsu
    \/ StageIs \/ StageRn \/ StageId \/ StageIf

(***************************************************************************)
(* The loop of exec() runs stage after stage until a panic.                *)
(***************************************************************************)
Spec == Init /\ [][Next]_vars /\ WF_at(Advance)

-----------------------------------------------------------------------------
(***************************************************************************)
(* What the programs see.  A load of the right path, one with no           *)
(* mispredicted branch before it, has its value when its entry is ready.   *)
(***************************************************************************)
RightPath(h, r) ==
    \A j \in Older(ooo[h], r) : LET e == ooo[h].rob[j] IN e.pred = NextPc(prog[h][e.k], e.k)

Val(h, k) ==
    LET c == ooo[h]
        S == {r \in RobIdx : /\ c.rob[r].valid /\ c.rob[r].k = k /\ c.rob[r].ready
                             /\ RightPath(h, r)}
    IN  IF S # {} THEN c.rob[CHOOSE r \in S : TRUE].val ELSE c.gpr[k]

Weak == INSTANCE WeakMemory WITH
    buf <- [h \in Harts |-> ooo[h].sbuf],
    pc  <- [h \in Harts |-> ooo[h].pc],
    val <- [h \in Harts |-> [k \in DOMAIN prog[h] |-> Val(h, k)]],
    io  <- [h \in Harts |-> ooo[h].io]

\* The instructions of hart h of one kind, on the path its program takes.
Of(h, op) == {k \in Weak!OnPath(prog[h]) : prog[h][k].op = op}

(***************************************************************************)
(* With misses, forwarding from the ROB and the buffer, flushes and two    *)
(* harts, the memory the programs see is that of WeakMemory: stores become *)
(* visible in order, and a load reads the newest older store of its hart   *)
(* or memory, once.                                                        *)
(***************************************************************************)
ImplementsWeak == Weak!WeakInit /\ [][Weak!WeakNext]_(Weak!weakVars)

(***************************************************************************)
(* With one hart a load reads what running its program in order would (the *)
(* comparison of difftest_check, ooo.c:67 "any mismatch is a bug"; and     *)
(* ooo.c:1260 "every-cycle drain to avoid STLF width-mismatch stale        *)
(* reads").                                                                *)
(***************************************************************************)
LoadsSeeStores ==
    g_num_cores = 1 =>
      \A k \in Of(0, "load") :
         IsDram(prog[0][k].addr) /\ Val(0, k) # << >> =>
           Val(0, k) = Load([a \in Dram |->
                               LET S == {j \in Of(0, "store") : j < k /\ a \in Bytes(prog[0][j])}
                               IN  IF S = {} THEN 0
                                   ELSE prog[0][CHOOSE j \in S : \A x \in S : x <= j].data],
                            prog[0][k])

(***************************************************************************)
(* A load of a wrong path that hits no memory is flushed before it commits *)
(* (ooo.c:757-761 "If this somehow reaches commit it is a real bug").      *)
(***************************************************************************)
NoWrongPathPanic ==
    \A h \in Harts : ooo[h].panic =>
      \E k \in Of(h, "load") : LET a == prog[h][k].addr IN ~IsDram(a) /\ ~IsMmio(a)

(***************************************************************************)
(* Where two harts run, a load after a fence takes its value when all the  *)
(* stores before the fence are in memory.  StoresBefore(h, f, k): it is so *)
(* for load k and fence f of hart h.                                       *)
(***************************************************************************)
StoresBefore(h, f, k) ==
    \A j \in Of(h, "store") : j < f /\ Val(h, k) # << >> =>
       j < ooo[h].pc /\ \A n \in 1 .. Len(ooo[h].sbuf) : ooo[h].sbuf[n] # j

(***************************************************************************)
(* It is so for every load after the fence (ir.c:1014-1017, "ensuring all  *)
(* preceding stores have committed (and been snooped to other L1Ds) before *)
(* any instruction after the FENCE can issue"; test/tso/tso.c:13 "fence    *)
(* between store and load, no violations").  The code breaks this.         *)
(***************************************************************************)
FenceOrders ==
    g_num_cores > 1 =>
      \A h \in Harts : \A f \in Of(h, "fence"), k \in Of(h, "load") :
        f < k => StoresBefore(h, f, k)

(***************************************************************************)
(* It is so for the loads that do not follow the fence directly, whatever  *)
(* the groups in which they were fetched: only the instruction after a     *)
(* fence can be renamed in its cycle (ooo_stage_rn), and issue before the  *)
(* fence has executed and ISSUE_UNIT sees it.                              *)
(***************************************************************************)
FenceOrdersOthers ==
    g_num_cores > 1 =>
      \A h \in Harts : \A f \in Of(h, "fence"), k \in Of(h, "load") :
        f + 1 < k => StoresBefore(h, f, k)

(***************************************************************************)
(* Message passing, as TSO has it (labs/order_lab/lab.md:18 "TSO model"):  *)
(* of two loads, if the older reads what another hart stored second, the   *)
(* younger reads what it stored first.  For programs that store once to an *)
(* address, and not to the same ones.                                      *)
(***************************************************************************)
MessagePassing ==
    \A h, g \in Harts : h # g =>
      \A x, y \in Of(g, "store"), j, k \in Of(h, "load") :
        /\ x < y /\ j < k /\ Val(h, k) # << >>
        /\ prog[h][j].addr = prog[g][y].addr /\ prog[h][k].addr = prog[g][x].addr
        /\ Val(h, j) = << prog[g][y].data >>
        => Val(h, k) = << prog[g][x].data >>

(***************************************************************************)
(* Stores reach memory and devices in program order (lab.md:18             *)
(* "Store-Store order is preserved").                                      *)
(***************************************************************************)
StoresInOrder ==
    \A h \in Harts : \A n \in 1 .. Len(ooo[h].io), m \in 1 .. Len(ooo[h].sbuf) :
      prog[h][ooo[h].io[n]].op = "store" => ooo[h].io[n] < ooo[h].sbuf[m]

(***************************************************************************)
(* Every program runs to its end: no instruction waits forever for a slot, *)
(* an MSHR, room in the store buffer, a fence or the head of the ROB       *)
(* (ooo.c:707, a load from a device may "stall until ROB head").           *)
(***************************************************************************)
RunsToEnd ==
    <>(\A h \in Harts : ooo[h].panic \/ (ooo[h].pc > Len(prog[h]) /\ ooo[h].sbuf = << >>))
=============================================================================
