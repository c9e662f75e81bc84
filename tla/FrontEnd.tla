------------------------------ MODULE FrontEnd ------------------------------
(***************************************************************************)
(* Fetch and branch resolution of the out-of-order core around the         *)
(* predictor (ooo.c, ooo_stage_if and the branch part of ooo_unit_int):    *)
(* fetch predicts in order and pushes and pops the return address stack at *)
(* once; branches resolve in any order, wrong-path ones included, and each *)
(* trains the predictor; a misprediction puts ras_top and ras_count back   *)
(* to what they were before the branch was predicted and refetches.        *)
(* Where a jalr goes depends on register values and is left open.          *)
(***************************************************************************)
EXTENDS Bpred, Sequences

CONSTANTS Code,         \* address -> instruction word (with its branch offset)
          Width,        \* control instructions between fetch and commit
          MaxFetch      \* bound on the control instructions fetched in all

ASSUME FrontEndAssumption == /\ Width \in Nat \ {0}
                             /\ MaxFetch \in Nat

Pcs == DOMAIN Code

\* Every address outside memory: nothing is fetched there.
Wild == 0
Fetchable(pc) == IF pc \in Pcs THEN pc ELSE Wild

VARIABLES g_bpred2_mode,  \* bpred2 replaces bpred (a command line flag)
          bp,        \* bpred, or bpred2_state
          fetch_pc,
          queue,     \* control instructions in flight, oldest first
          fetched    \* how many were fetched

fvars == <<g_bpred2_mode, bp, fetch_pc, queue, fetched>>

\* What a control instruction at pc can turn out to do.
Outcomes(pc) ==
  CASE Code[pc].op = 24 -> {pc + 4, pc + Code[pc].imm}
    [] Code[pc].op = 27 -> {pc + Code[pc].imm}
    [] OTHER -> Pcs \cup {Wild}

\* Branches and jal stay in the code; a jalr may leave it.
ASSUME CodeAssumption ==
  \A pc \in Pcs : /\ pc \in Nat \ {0} /\ pc % 4 = 0
                  /\ IsControl(Code[pc]) => Outcomes(pc) \subseteq Pcs \cup {Wild}

FInit == /\ g_bpred2_mode \in BOOLEAN
         /\ bp = bpred_init
         /\ fetch_pc \in Pcs
         /\ queue = <<>>
         /\ fetched = 0

Entry(pc, predicted) ==
  [pc |-> pc, predicted |-> predicted, resolved |-> FALSE, fault |-> FALSE,
   ras_top_snap |-> bp.ras_top, ras_cnt_snap |-> bp.ras_count]

\* One slot of ooo_stage_if.
Fetch ==
  /\ fetch_pc # Wild
  /\ IF ~IsControl(Code[fetch_pc])
     THEN fetch_pc' = Fetchable(fetch_pc + 4) /\ UNCHANGED <<bp, queue, fetched>>
     ELSE /\ Len(queue) < Width
          /\ fetched < MaxFetch
          /\ LET r == IF g_bpred2_mode THEN bpred2_predict(bp, fetch_pc)
                      ELSE bpred_predict(bp, fetch_pc, Code[fetch_pc])
             IN /\ bp' = r[1]
                /\ fetch_pc' = Fetchable(r[2])
                /\ queue' = Append(queue, Entry(fetch_pc, r[2]))
          /\ fetched' = fetched + 1

Train(e, dnpc) == IF g_bpred2_mode THEN bpred2_update(bp, e.pc, dnpc)
                  ELSE bpred_update(bp, e.pc, dnpc)

\* Only the two indices come back, and only for bpred.
RestoreTop(q, e) == [q EXCEPT !.ras_top = e.ras_top_snap]

RestoreRas(q, e) ==
  IF g_bpred2_mode THEN q
  ELSE [q EXCEPT !.ras_top = e.ras_top_snap, !.ras_count = e.ras_cnt_snap]

\* The branch part of ooo_unit_int, ooo_flush_after included: a target outside
\* memory that was not predicted marks the branch and redirects nothing.
Resolve(k, dnpc) ==
  LET e == queue[k]
      trained == Train(e, dnpc)
      done == [e EXCEPT !.resolved = TRUE, !.fault = dnpc = Wild /\ e.predicted # Wild]
  IN /\ ~e.resolved
     /\ IF dnpc \in {e.predicted, Wild}
        THEN bp' = trained /\ queue' = [queue EXCEPT ![k] = done] /\ UNCHANGED fetch_pc
        ELSE /\ bp' = RestoreRas(trained, e)
             /\ queue' = Append(SubSeq(queue, 1, k - 1), done)
             /\ fetch_pc' = dnpc
     /\ UNCHANGED fetched

\* A resolved branch at the head leaves with its commit; a marked one aborts.
Retire == /\ queue # <<>>
          /\ Head(queue).resolved
          /\ ~Head(queue).fault
          /\ queue' = Tail(queue)
          /\ UNCHANGED <<bp, fetch_pc, fetched>>

FNext == /\ \/ Fetch
            \/ \E k \in DOMAIN queue : \E dnpc \in Outcomes(queue[k].pc) : Resolve(k, dnpc)
            \/ Retire
         /\ UNCHANGED g_bpred2_mode

FSpec == FInit /\ [][FNext]_fvars

(***************************************************************************)
(* Properties.                                                             *)
(***************************************************************************)
ReturnAddresses == {pc + 4 : pc \in {p \in Pcs : is_call(Code[p])}}

\* The entries of the stack a return may still pop.
LiveRas == {(bp.ras_top - i + RAS_SIZE) % RAS_SIZE : i \in 0..(bp.ras_count - 1)}

\* A return is only ever sent to the address after some call: whatever order
\* branches resolve in and however many calls the circular stack has dropped,
\* the entries between ras_top and ras_count were all pushed by calls (no slot
\* that was never written becomes poppable when the indices are put back).
RasHoldsCalls == \A i \in LiveRas : bp.ras[i] \in ReturnAddresses

\* Fetch is only ever redirected to where the program can go from the branch:
\* past it, to a target it resolved to earlier, or for a return to the address
\* after a call.  Two branches that share a BTB entry never get each other's
\* target.
PredictionIsPlausible ==
  \A k \in DOMAIN queue :
    LET e == queue[k] IN
    \/ e.predicted = e.pc + 4
    \/ e.predicted \in Outcomes(e.pc)
    \/ is_ret(Code[e.pc]) /\ e.predicted \in ReturnAddresses

(***************************************************************************)
(* Values for TLC: a function with a loop that is called directly and      *)
(* through a register, and returns.  Every kind of control instruction,    *)
(* and more calls in flight than the return address stack holds.           *)
(***************************************************************************)
MCInst(op, rd, rs1, imm) == [op |-> op, rd |-> rd, rs1 |-> rs1, imm |-> imm, f3 |-> 0, lo |-> 3]

MCCode == [pc \in {4, 8, 12, 16, 20} |->
             CASE pc = 4 -> MCInst(27, 1, 0, 8)        \* jal ra, 12
               [] pc = 8 -> MCInst(25, 5, 6, 0)        \* jalr t0, t1
               [] pc = 12 -> MCInst(24, 0, 0, -8)      \* beq 4
               [] pc = 16 -> MCInst(25, 0, 1, 0)       \* ret
               [] pc = 20 -> MCInst(4, 1, 1, 0)]       \* addi

=============================================================================
