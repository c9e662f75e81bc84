------------------------------- MODULE Bpred -------------------------------
(***************************************************************************)
(* The branch predictors (src/src/cpu/bpred.c, bpred2.c and their headers),*)
(* as functions of a predictor bp: branch target buffer, local history     *)
(* with its counters, global history with its counters, the meta selector  *)
(* and the return address stack.  Table sizes are parameters; statistics   *)
(* are left out.  An instruction word is the record of its fields, as in   *)
(* Exec.                                                                   *)
(***************************************************************************)
EXTENDS Integers

CONSTANTS BTB_BITS,     \* log2 BTB_SIZE (9 in the code)
          LHT_INDEX,    \* log2 LHT_SIZE (10 in the code)
          LHT_BITS,     \* bits of local history (10 in the code)
          GHR_BITS,     \* bits of global history (12 in the code)
          RAS_SIZE      \* entries of the return address stack (16 in the code)

ASSUME BpredAssumption == /\ {BTB_BITS, LHT_INDEX, LHT_BITS, GHR_BITS} \subseteq Nat
                          /\ RAS_SIZE \in Nat \ {0}
\* What the provers have to be told of powers.
ASSUME TablesAssumption ==
  /\ {2^BTB_BITS, 2^LHT_INDEX, 2^LHT_BITS, 2^GHR_BITS} \subseteq Nat \ {0}
  /\ 2^(BTB_BITS + 2) = 4 * 2^BTB_BITS

bpred_init ==
  [btb  |-> [i \in 0..(2^BTB_BITS - 1) |-> [valid |-> FALSE, tag |-> 0, target |-> 0]],
   lht  |-> [i \in 0..(2^LHT_INDEX - 1) |-> 0],
   lpht |-> [i \in 0..(2^LHT_BITS - 1) |-> 0],
   ghr  |-> 0,
   gpht |-> [i \in 0..(2^GHR_BITS - 1) |-> 0],
   meta |-> [i \in 0..(2^GHR_BITS - 1) |-> 0],
   ras  |-> [i \in 0..(RAS_SIZE - 1) |-> 0], ras_top |-> 0, ras_count |-> 0]

\* jal, or jalr with funct3 0, linking to ra or t0; jalr not of its own link.
is_call(i) ==
  /\ i.rd \in {1, 5}
  /\ i.lo = 3
  /\ i.op = 27 \/ (i.op = 25 /\ i.f3 = 0 /\ i.rs1 # i.rd)

is_ret(i) == i.op = 25 /\ i.lo = 3 /\ i.f3 = 0 /\ i.rd = 0 /\ i.rs1 \in {1, 5}

\* Only branch, jal and jalr words are predicted and learnt from.
IsControl(i) == i.op \in {24, 27, 25}

BtbIndex(pc) == (pc \div 4) % 2^BTB_BITS
BtbTag(pc) == pc \div 2^(BTB_BITS + 2)
LhtIndex(pc) == (pc \div 4) % 2^LHT_INDEX

\* The low n bits of the exclusive or of a and b.
XorBits(a, b, n) ==
  LET bits[i \in 0..n] == IF i = 0 THEN 0
                          ELSE LET w == 2^(i - 1)
                               IN bits[i - 1] + w * ((a \div w + b \div w) % 2)
  IN bits[n]
GphtIndex(bp, pc) == XorBits(bp.ghr, pc \div 4, GHR_BITS)

BtbHitUntagged(bp, pc) == bp.btb[BtbIndex(pc)].valid

BtbHit(bp, pc) == bp.btb[BtbIndex(pc)].valid /\ bp.btb[BtbIndex(pc)].tag = BtbTag(pc)

RasPush(bp, pc) ==
  LET top == (bp.ras_top + 1) % RAS_SIZE IN
  [bp EXCEPT !.ras[top] = pc + 4, !.ras_top = top,
             !.ras_count = IF @ < RAS_SIZE THEN @ + 1 ELSE @]

RasPop(bp) == [bp EXCEPT !.ras_top = (@ - 1 + RAS_SIZE) % RAS_SIZE, !.ras_count = @ - 1]

\* The direction the tournament chooses.
TournamentTaken(bp, pc) ==
  LET gi == GphtIndex(bp, pc) IN
  IF bp.meta[gi] >= 2 THEN bp.gpht[gi] >= 2 ELSE bp.lpht[bp.lht[LhtIndex(pc)]] >= 2

\* <<predictor after, next pc>>: a target needs the direction and a BTB hit.
bpred_predict(bp, pc, i) ==
  IF is_ret(i) /\ bp.ras_count > 0
  THEN <<RasPop(bp), bp.ras[bp.ras_top]>>
  ELSE LET q == IF is_call(i) THEN RasPush(bp, pc) ELSE bp
       IN <<q, IF TournamentTaken(q, pc) /\ BtbHit(q, pc)
               THEN q.btb[BtbIndex(pc)].target ELSE pc + 4>>

\* Saturating two-bit counters.
Count(c, up) == CASE up /\ c < 3 -> c + 1 [] ~up /\ c > 0 -> c - 1 [] OTHER -> c

Learn(bp, pc, dnpc) ==
  IF dnpc = pc + 4 THEN bp
  ELSE [bp EXCEPT !.btb[BtbIndex(pc)] = [valid |-> TRUE, tag |-> BtbTag(pc), target |-> dnpc]]

\* bpred_update: the outcome of the control instruction at pc.
bpred_update(bp, pc, dnpc) ==
  LET actual == dnpc # pc + 4
      bit == IF actual THEN 1 ELSE 0
      hist == bp.lht[LhtIndex(pc)]
      gi == GphtIndex(bp, pc)
      local_pred == bp.lpht[hist] >= 2
      global_pred == bp.gpht[gi] >= 2
  IN [Learn(bp, pc, dnpc) EXCEPT
        !.lpht[hist] = Count(@, actual),
        !.lht[LhtIndex(pc)] = (2 * hist + bit) % 2^LHT_BITS,
        !.gpht[gi] = Count(@, actual),
        !.meta[gi] = IF local_pred = global_pred THEN @ ELSE Count(@, actual = global_pred),
        !.ghr = (2 * @ + bit) % 2^GHR_BITS]

(***************************************************************************)
(* bpred2, the predictor of the lab: it reads the speculative history      *)
(* table, which nothing writes, and has no return address stack.           *)
(***************************************************************************)
spec_lht(pc) == 0

bpred2_predict(bp, pc) ==
  <<bp, IF bp.lpht[spec_lht(pc)] >= 2 /\ BtbHit(bp, pc)
        THEN bp.btb[BtbIndex(pc)].target ELSE pc + 4>>

bpred2_update(bp, pc, dnpc) ==
  LET actual == dnpc # pc + 4
      bit == IF actual THEN 1 ELSE 0
      hist == bp.lht[LhtIndex(pc)]
  IN [Learn(bp, pc, dnpc) EXCEPT
        !.lpht[hist] = Count(@, actual),
        !.lht[LhtIndex(pc)] = (2 * hist + bit) % 2^LHT_BITS,
        !.ghr = (2 * @ + bit) % 2^GHR_BITS]

=============================================================================
