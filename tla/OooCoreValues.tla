--------------------------- MODULE OooCoreValues ----------------------------
(***************************************************************************)
(* What the instructions in flight of OooCore have computed, and where     *)
(* they come from: the invariant that relates both to the functional       *)
(* simulator, and its part about values through rename, issue and commit.  *)
(*                                                                         *)
(* The renaming and scheduling invariants are used here through Known,     *)
(* which module OooCoreProofs derives from them.                           *)
(***************************************************************************)
EXTENDS OooCoreRenaming

(***************************************************************************)
(* The engine does not look again at what it fetched behind an ecall or an *)
(* mret (ooo_unit_int redirects for branches and jumps only), so it runs   *)
(* programs without them as the functional simulator does.  The decoder    *)
(* gives ebreak no destination.                                            *)
(***************************************************************************)
Untrapped(q) ==
    \A p \in ValidPc : /\ q[p].op \notin {"ecall", "mret"}
                       /\ q[p].op = "ebreak" => ~Renames(q[p].rd)

(***************************************************************************)
(* What is known of the scheduler: which registers are ready, that what is *)
(* in a station or a latch is still to execute, and its destination.       *)
(***************************************************************************)
PrfReady ==
    /\ \A r \in ArchRegs : prf[rrat[r]].ready
    /\ \A i \in Writers : prf[rob[i].phys_rd].ready <=> rob[i].ready

InPlace(e) == e.valid => /\ rob[e.rob_idx].valid /\ ~rob[e.rob_idx].ready
                         /\ e.phys_rd = rob[e.rob_idx].phys_rd

Known ==
    /\ IInv /\ MasksExact /\ PrfReady
    /\ \A i \in RobIdx : rob[i].valid /\ ~Renames(rob[i].arch_rd) => rob[i].phys_rd \in {0, NoReg}
    /\ \A k \in RsIdx : InPlace(rs[k])
    /\ \A s \in IntSlots : InPlace(latch_int[s])
    /\ \A s \in MulSlots : InPlace(latch_mul[s])

-----------------------------------------------------------------------------
(***************************************************************************)
(* Values.  Arg: register r, as the instruction in slot i reads it, is     *)
(* available and holds v.  Tagged: the same of a source of a station,      *)
(* which may still wait.                                                   *)
(***************************************************************************)
Arg(i, r, v) ==
    IF r = NoReg THEN v = Inst(i).imm
    ELSE IF r = 0 THEN v = 0
    ELSE \E p \in PhysRegs : MapsTo(r, Age(i), p) /\ prf[p].ready /\ v = prf[p].value

Tagged(i, r, src) ==
    IF r = NoReg THEN src.ready /\ src.val = Inst(i).imm
    ELSE IF r = 0 THEN src.ready /\ src.val = 0
    ELSE /\ MapsTo(r, Age(i), src.ptag)
         /\ src.ready => prf[src.ptag].ready /\ src.val = prf[src.ptag].value

HasArgs(i, v1, v2) == Arg(i, Inst(i).rs1, v1) /\ Arg(i, Inst(i).rs2, v2)

(***************************************************************************)
(* Slot i holds what the reference executor ir computes.                   *)
(***************************************************************************)
Holds(i, ir) ==
    /\ rob[i].dnpc = ir.dnpc
    /\ Renames(rob[i].arch_rd) => prf[rob[i].phys_rd].value = ir.result
    /\ Serializing(Inst(i)) => csr = ir.csr
    /\ rob[i].fault => Inst(i).op = "inv" \/ ir.dnpc = BadPc

Reference(i, v1, v2) == Execute(Inst(i), rob[i].pc, v1, v2, csr_committed, "RUNNING")

Done(i) == \E v1, v2 \in Words : HasArgs(i, v1, v2) /\ Holds(i, Reference(i, v1, v2))

Fed(e) == e.valid => /\ e.eu_type = EuType(Inst(e.rob_idx))
                     /\ Tagged(e.rob_idx, Inst(e.rob_idx).rs1, e.src1)
                     /\ Tagged(e.rob_idx, Inst(e.rob_idx).rs2, e.src2)

Loaded(l) == l.valid => HasArgs(l.rob_idx, l.v1, l.v2)

CommittedValues == gpr[0] = 0 /\ \A r \in ArchRegs \ {0} : prf[rrat[r]].value = gpr[r]

Values ==
    /\ CommittedValues
    /\ \A i \in RobIdx : rob[i].valid /\ rob[i].ready => Done(i)
    /\ \A k \in RsIdx : Fed(rs[k])
    /\ \A s \in IntSlots : Loaded(latch_int[s])
    /\ \A s \in MulSlots : /\ Loaded(latch_mul[s])
                           /\ latch_mul[s].valid => Inst(latch_mul[s].rob_idx).op = "mul"

-----------------------------------------------------------------------------
(***************************************************************************)
(* Control flow.  Expect: the instruction at age a is to come from address *)
(* p, as far as is known.  Follows: the fetched instructions f lead from   *)
(* address p to address q.                                                 *)
(***************************************************************************)
NextPc(i) == IF rob[i].ready /\ ControlFlow(Inst(i)) /\ ~rob[i].fault
             THEN rob[i].dnpc ELSE rob[i].bp

Expect(a, p) == \/ a = 0 /\ p = pc
                \/ \E i \in RobIdx : rob[i].valid /\ Age(i) = a - 1 /\ p = NextPc(i)

Follows(p, f, q) ==
    IF f = <<>> THEN p = q
    ELSE /\ f[1].pc = p /\ f[Len(f)].bp = q
         /\ \A j \in 1 .. Len(f) - 1 : f[j + 1].pc = f[j].bp

Predicted(f) == \A j \in 1 .. Len(f) : f[j].bp \in Predict(f[j].pc)

Ordered ==
    \A i \in RobIdx : rob[i].valid => /\ Expect(Age(i), rob[i].pc)
                                      /\ rob[i].bp \in Predict(rob[i].pc)

Fetching ==
    \E p, m \in Pcs : /\ Expect(rob_count, p)
                      /\ Follows(p, latch_id_rn, m) /\ Follows(m, latch_if_id, fetch_pc)

Chain == Ordered /\ Fetching /\ Predicted(latch_id_rn) /\ Predicted(latch_if_id)

(***************************************************************************)
(* Serialisation: only the oldest instruction touches the CSRs or ends the *)
(* run.                                                                    *)
(***************************************************************************)
Serial ==
    /\ Untrapped(prog)
    /\ \A i \in RobIdx : rob[i].valid => rob[i].arch_rd = Inst(i).rd
    /\ \A i \in RobIdx : rob[i].valid /\ Serializing(Inst(i)) => i = rob_head
    /\ \/ csr = csr_committed
       \/ \E i \in RobIdx : rob[i].valid /\ rob[i].ready /\ Serializing(Inst(i))
    /\ \A i \in RobIdx : rob[i].valid /\ rob[i].ready /\ Inst(i).op = "ebreak" => state = "END"

DInv == Values /\ Chain /\ Serial /\ PanicIsGenuine

-----------------------------------------------------------------------------
(***************************************************************************)
(* The executors.                                                          *)
(***************************************************************************)
(* Outside CSR instructions and ebreak the CSRs and the state are passed on
   and not looked at, and only branches and jumps choose where to go. *)
LEMMA ExecuteFacts ==
    ASSUME NEW inst \in Insts, inst.op \notin {"ecall", "mret"}, NEW p, NEW v1, NEW v2,
           NEW c, NEW st
    PROVE  /\ Execute(inst, p, v1, v2, c, st).fault => inst.op = "inv"
           /\ ~ControlFlow(inst) => Execute(inst, p, v1, v2, c, st).dnpc = Snpc(p)
           /\ ~Serializing(inst) => Execute(inst, p, v1, v2, c, st).csr = c
           /\ inst.op # "ebreak" => Execute(inst, p, v1, v2, c, st).state = st
           /\ inst.op = "ebreak" =>
                Execute(inst, p, v1, v2, c, st) =
                  [result |-> 0, dnpc |-> Snpc(p), fault |-> FALSE, csr |-> c, state |-> "END"]
<1> USE Zenon
<1>1. inst.op \in Ops
  BY DEF Insts
<1> USE DEF Execute, ControlFlow, Serializing
<1>2. CASE inst.op = "add"    BY <1>2
<1>3. CASE inst.op = "mul"    BY <1>3
<1>4. CASE inst.op = "beq"    BY <1>4
<1>5. CASE inst.op = "jal"    BY <1>5
<1>6. CASE inst.op = "jalr"   BY <1>6
<1>7. CASE inst.op = "csrrw"  BY <1>7
<1>8. CASE inst.op = "ebreak" BY <1>8
<1>9. CASE inst.op = "inv"    BY <1>9
<1> QED BY <1>1, <1>2, <1>3, <1>4, <1>5, <1>6, <1>7, <1>8, <1>9 DEF Ops

(* The CSRs make no difference to what the other instructions compute. *)
LEMMA ExecuteSame ==
    ASSUME NEW inst \in Insts, inst.op \notin {"ecall", "mret"}, ~Serializing(inst),
           NEW p, NEW v1, NEW v2, NEW c, NEW d, NEW st
    PROVE  /\ Execute(inst, p, v1, v2, c, st).result = Execute(inst, p, v1, v2, d, st).result
           /\ Execute(inst, p, v1, v2, c, st).dnpc = Execute(inst, p, v1, v2, d, st).dnpc
<1> USE Zenon
<1>1. inst.op \in Ops
  BY DEF Insts
<1> USE DEF Execute, Serializing
<1>2. CASE inst.op = "add"    BY <1>2
<1>3. CASE inst.op = "mul"    BY <1>3
<1>4. CASE inst.op = "beq"    BY <1>4
<1>5. CASE inst.op = "jal"    BY <1>5
<1>6. CASE inst.op = "jalr"   BY <1>6
<1>7. CASE inst.op = "inv"    BY <1>7
<1> QED BY <1>1, <1>2, <1>3, <1>4, <1>5, <1>6, <1>7 DEF Ops

-----------------------------------------------------------------------------
(***************************************************************************)
(* Mappings, and what is read through them.                                *)
(***************************************************************************)
(* A register other than x0 maps to the destination of an older live writer or
   to its committed copy: never to p0, and never to a free register. *)
LEMMA Mapped ==
    ASSUME IInv, NEW r \in ArchRegs \ {0}, NEW a, NEW p, MapsTo(r, a, p)
    PROVE  /\ p \in PhysRegs /\ p # 0 /\ p \notin freelist.regs
           /\ \/ \E j \in Writers : Age(j) < a /\ p = rob[j].phys_rd
              \/ p = rrat[r]
<1> USE Zenon
<1>1. rrat[0] = 0 /\ 0 \in ArchRegs /\ rrat \in [ArchRegs -> PhysRegs]
  BY SMT, IsaAssumption DEF IInv, RatConsistent, ArchRegs, TypeOK
<1>2. CASE \E j \in Writers : Age(j) < a /\ p = rob[j].phys_rd
  <2>1. PICK j \in Writers : p = rob[j].phys_rd
    BY <1>2
  <2>2. p \in {rob[i].phys_rd : i \in Writers} /\ 0 \in {rrat[q] : q \in ArchRegs}
    BY <1>1, <2>1
  <2>3. p \in PhysRegs /\ p # 0 /\ p \notin freelist.regs
    BY <2>2 DEF IInv, RegPartition
  <2> QED BY <1>2, <2>3
<1>3. CASE p = rrat[r]
  <2>1. p \in {rrat[q] : q \in ArchRegs} /\ p \in PhysRegs
    BY <1>1, <1>3
  <2>2. p # 0
    BY <1>1, <1>3 DEF IInv, RegPartition
  <2>3. p \notin freelist.regs
    BY <2>1 DEF IInv, RegPartition
  <2> QED BY <1>3, <2>1, <2>2, <2>3
<1>4. (\E j \in Writers : Age(j) < a /\ p = rob[j].phys_rd) \/ p = rrat[r]
  BY DEF MapsTo, Writer, Writers
<1> QED BY <1>2, <1>3, <1>4

(* MapsTo reads only the older entries, and of those who renames what. *)
SameWriter(k) == /\ rob'[k].valid = rob[k].valid
                 /\ rob'[k].arch_rd = rob[k].arch_rd
                 /\ rob'[k].phys_rd = rob[k].phys_rd

(* A mapping depends on the older writers only. *)
LEMMA MapsKept ==
    ASSUME TypeOK, NEW r, NEW a \in Int, NEW p, MapsTo(r, a, p), rob_head' = rob_head,
           rrat' = rrat, \A k \in RobIdx : Age(k) < a => SameWriter(k)
    PROVE  MapsTo(r, a, p)'
<1> USE Zenon
<1>1. \A k \in RobIdx : Age(k) \in Int /\ Age(k)' = Age(k)
  BY SMT, OooAssumption DEF Age, TypeOK, RobIdx
<1>2. \A k \in RobIdx : Writer(k, r)' /\ Age(k) < a <=> Writer(k, r) /\ Age(k) < a
  BY DEF Writer, SameWriter
<1>3. \A k \in RobIdx : Writer(k, r) /\ Age(k) < a => rob'[k].phys_rd = rob[k].phys_rd
  BY DEF SameWriter
<1> QED BY <1>1, <1>2, <1>3, MapsToTransfer

(***************************************************************************)
(* What slot i reads is as before: the mappings of its sources, and the    *)
(* registers they lead to as far as these were ready.                      *)
(***************************************************************************)
ArgsKept(i) ==
    \A r \in ArchRegs \ {0}, p \in PhysRegs :
        MapsTo(r, Age(i), p) => /\ MapsTo(r, Age(i), p)'
                                /\ prf[p].ready => prf'[p] = prf[p]

(* An argument that was available stays so, and keeps its value. *)
LEMMA ArgKept ==
    ASSUME NEW i, ArgsKept(i), prog' = prog, rob'[i].pc = rob[i].pc,
           NEW r \in ArchRegs \cup {NoReg}, NEW v, Arg(i, r, v)
    PROVE  Arg(i, r, v)'
<1> USE Zenon
<1>1. Inst(i)' = Inst(i)
  BY DEF Inst
<1>2. CASE r \in {NoReg, 0}
  BY <1>1, <1>2 DEF Arg, NoReg
<1>3. CASE r \notin {NoReg, 0}
  <2>1. PICK p \in PhysRegs : MapsTo(r, Age(i), p) /\ prf[p].ready /\ v = prf[p].value
    BY <1>3 DEF Arg
  <2>2. MapsTo(r, Age(i), p)' /\ prf'[p] = prf[p]
    BY <1>3, <2>1 DEF ArgsKept
  <2>3. PICK q \in PhysRegs : q = p
    OBVIOUS
  <2>4. MapsTo(r, Age(i), q)' /\ prf'[q].ready /\ v = prf'[q].value
    BY <2>1, <2>2, <2>3
  <2> QED BY <1>3, <2>4 DEF Arg
<1> QED BY <1>2, <1>3

(* A source of a station stays right. *)
LEMMA TaggedKept ==
    ASSUME NEW i, ArgsKept(i), prog' = prog, rob'[i].pc = rob[i].pc,
           NEW r \in ArchRegs \cup {NoReg}, NEW src \in Sources, Tagged(i, r, src)
    PROVE  Tagged(i, r, src)'
<1> USE Zenon
<1>1. Inst(i)' = Inst(i)
  BY DEF Inst
<1>2. CASE r \in {NoReg, 0}
  BY <1>1, <1>2 DEF Tagged, NoReg
<1>3. CASE r \notin {NoReg, 0}
  <2>1. /\ src.ptag \in PhysRegs /\ MapsTo(r, Age(i), src.ptag)
        /\ src.ready => prf[src.ptag].ready /\ src.val = prf[src.ptag].value
    BY <1>3 DEF Tagged, Sources
  <2>2. PICK t \in PhysRegs : t = src.ptag
    BY <2>1
  <2>3. MapsTo(r, Age(i), t)' /\ (prf[t].ready => prf'[t] = prf[t])
    BY <1>3, <2>1, <2>2 DEF ArgsKept
  <2>4. src.ready => prf'[t].ready /\ src.val = prf'[t].value
    BY <2>1, <2>2, <2>3
  <2> QED BY <1>3, <2>2, <2>3, <2>4 DEF Tagged
<1> QED BY <1>2, <1>3

(* The sources of an instruction of the program. *)
LEMMA InstType ==
    ASSUME TypeOK, NEW i \in RobIdx
    PROVE  /\ Inst(i) \in Insts /\ rob[i].pc \in ValidPc /\ rob[i].bp \in Pcs
           /\ Inst(i).rs1 \in ArchRegs \cup {NoReg} /\ Inst(i).rs2 \in ArchRegs \cup {NoReg}
           /\ Inst(i).rd \in ArchRegs \cup {NoReg} /\ Inst(i).imm \in Words
<1> USE Zenon
<1>1. rob[i] \in RobEntries /\ prog \in [ValidPc -> Insts]
  BY DEF TypeOK
<1>2. rob[i].pc \in ValidPc /\ rob[i].bp \in Pcs
  BY <1>1 DEF RobEntries
<1>3. Inst(i) \in Insts
  BY <1>1, <1>2 DEF Inst
<1> QED BY <1>2, <1>3 DEF Insts

(* Both arguments of an instruction stay available. *)
LEMMA HasArgsKept ==
    ASSUME TypeOK, NEW i \in RobIdx, ArgsKept(i), prog' = prog, rob'[i].pc = rob[i].pc,
           NEW v1, NEW v2, HasArgs(i, v1, v2)
    PROVE  HasArgs(i, v1, v2)'
<1> USE Zenon
<1>1. Inst(i)' = Inst(i)
  BY DEF Inst
<1>2. Arg(i, Inst(i).rs1, v1) /\ Arg(i, Inst(i).rs2, v2)
  BY DEF HasArgs
<1>3. PICK r1 \in ArchRegs \cup {NoReg} : r1 = Inst(i).rs1
  BY InstType
<1>4. PICK r2 \in ArchRegs \cup {NoReg} : r2 = Inst(i).rs2
  BY InstType
<1>5. Arg(i, r1, v1)'
  BY <1>2, <1>3, ArgKept
<1>6. Arg(i, r2, v2)'
  BY <1>2, <1>4, ArgKept
<1> QED BY <1>1, <1>3, <1>4, <1>5, <1>6 DEF HasArgs

(* An executed instruction stays right as long as its entry, its operands and
   its result do; the CSRs matter only to those that serialise. *)
LEMMA DoneKept ==
    ASSUME TypeOK, Untrapped(prog), NEW i \in RobIdx, Done(i), ArgsKept(i), prog' = prog,
           rob'[i] = rob[i],
           Renames(rob[i].arch_rd) => prf'[rob[i].phys_rd].value = prf[rob[i].phys_rd].value,
           Serializing(Inst(i)) => csr' = csr /\ csr_committed' = csr_committed
    PROVE  Done(i)'
<1> USE Zenon
<1>1. PICK v1 \in Words, v2 \in Words : HasArgs(i, v1, v2) /\ Holds(i, Reference(i, v1, v2))
  BY DEF Done
<1>2. HasArgs(i, v1, v2)'
  BY <1>1, HasArgsKept
<1>3. Inst(i)' = Inst(i) /\ Inst(i) \in Insts /\ Inst(i).op \notin {"ecall", "mret"}
  BY InstType DEF Inst, Untrapped
<1>4. PICK x : x = Reference(i, v1, v2)
  OBVIOUS
<1>5. PICK y : y = Reference(i, v1, v2)'
  OBVIOUS
<1>6. PICK c : c = csr_committed' /\ y = Execute(Inst(i), rob[i].pc, v1, v2, c, "RUNNING")
  BY <1>3, <1>5 DEF Reference
<1>7. PICK d : d = csr_committed /\ x = Execute(Inst(i), rob[i].pc, v1, v2, d, "RUNNING")
  BY <1>4 DEF Reference
<1>8. y.dnpc = x.dnpc /\ y.result = x.result /\ (Serializing(Inst(i)) => y = x)
  <2>1. CASE Serializing(Inst(i))
    BY <2>1, <1>6, <1>7
  <2>2. CASE ~Serializing(Inst(i))
    <3>1. PICK inst \in Insts : inst = Inst(i)
      BY <1>3
    <3>2. inst.op \notin {"ecall", "mret"} /\ ~Serializing(inst)
      BY <1>3, <2>2, <3>1
    <3>3. PICK p : p = rob[i].pc
      OBVIOUS
    <3>4. /\ y = Execute(inst, p, v1, v2, c, "RUNNING")
          /\ x = Execute(inst, p, v1, v2, d, "RUNNING")
      BY <1>6, <1>7, <3>1, <3>3
    <3>5. y.dnpc = x.dnpc /\ y.result = x.result
      BY SMT, <3>2, <3>4, ExecuteSame
    <3> QED BY <2>2, <3>5
  <2> QED BY <2>1, <2>2
<1>9. Holds(i, x)
  BY <1>1, <1>4
<1>10. Holds(i, y)'
  BY <1>3, <1>8, <1>9 DEF Holds
<1>11. Holds(i, Reference(i, v1, v2))'
  BY <1>5, <1>10
<1> QED BY <1>2, <1>11 DEF Done

(* The partition of the physical registers, member by member. *)
LEMMA Dests ==
    ASSUME IInv
    PROVE  /\ \A j \in Writers : /\ rob[j].phys_rd \in PhysRegs /\ rob[j].phys_rd # 0
                                 /\ rob[j].phys_rd \notin freelist.regs
           /\ \A i, j \in Writers : rob[i].phys_rd = rob[j].phys_rd => i = j
           /\ \A j \in Writers, r \in ArchRegs : rob[j].phys_rd # rrat[r]
           /\ \A r \in ArchRegs \ {0} : /\ rrat[r] \in PhysRegs /\ rrat[r] # 0
                                        /\ rrat[r] \notin freelist.regs
           /\ \A q, r \in ArchRegs : rrat[q] = rrat[r] => q = r
<1> USE Zenon
<1>1. rrat[0] = 0 /\ 0 \in ArchRegs /\ rrat \in [ArchRegs -> PhysRegs]
  BY SMT, IsaAssumption DEF IInv, RatConsistent, ArchRegs, TypeOK
<1>2. PICK C : C = {rrat[r] : r \in ArchRegs}
  OBVIOUS
<1>3. PICK F : F = {rob[i].phys_rd : i \in Writers}
  OBVIOUS
<1>4. /\ PhysRegs = freelist.regs \cup C \cup F
      /\ freelist.regs \cap C = {} /\ freelist.regs \cap F = {} /\ C \cap F = {}
      /\ \A q, r \in ArchRegs : rrat[q] = rrat[r] => q = r
      /\ \A i, j \in Writers : rob[i].phys_rd = rob[j].phys_rd => i = j
  BY <1>2, <1>3 DEF IInv, RegPartition
<1>5. \A j \in Writers : rob[j].phys_rd \in F
  BY <1>3
<1>6. \A r \in ArchRegs : rrat[r] \in C
  BY <1>2
<1> QED BY <1>1, <1>4, <1>5, <1>6

(* When an instruction that serialises executes, the CSRs are the committed
   ones; and when another one executes, none has been executed. *)
LEMMA SerialFacts ==
    ASSUME Serial, NEW i \in RobIdx, rob[i].valid, ~rob[i].ready
    PROVE  /\ Serializing(Inst(i)) => csr = csr_committed
           /\ \A j \in RobIdx : rob[j].valid /\ Serializing(Inst(j)) /\ j # i => ~Serializing(Inst(i))
BY Zenon DEF Serial

(* What a unit computes is what the reference does. *)
LEMMA UnitAgrees ==
    ASSUME Known, Serial, state = "RUNNING", NEW l \in Latches, l.valid, InPlace(l)
    PROVE  LET i == l.rob_idx  x == Reference(i, l.v1, l.v2)  ir == LatchIr(l)
           IN  /\ ir.result = x.result /\ ir.dnpc = x.dnpc
               /\ Serializing(Inst(i)) => ir.csr = x.csr
               /\ ~Serializing(Inst(i)) => ir.csr = csr
               /\ ir.fault => Inst(i).op = "inv"
               /\ ~ControlFlow(Inst(i)) => ir.dnpc = Snpc(rob[i].pc)
               /\ ir.state = IF Inst(i).op = "ebreak" THEN "END" ELSE "RUNNING"
<1> USE Zenon
<1>1. PICK i \in RobIdx : i = l.rob_idx
  BY DEF Latches
<1>2. rob[i].valid /\ ~rob[i].ready
  BY <1>1 DEF InPlace
<1>3. PICK inst \in Insts : inst = Inst(i)
  BY InstType DEF Known, IInv
<1>4. inst.op \notin {"ecall", "mret"}
  <2>1. rob[i].pc \in ValidPc
    BY InstType DEF Known, IInv
  <2> QED BY <1>3, <2>1 DEF Serial, Untrapped, Inst
<1>5. PICK p, v1, v2, c, d : p = rob[i].pc /\ v1 = l.v1 /\ v2 = l.v2 /\ c = csr /\ d = csr_committed
  OBVIOUS
<1>6. /\ LatchIr(l) = Execute(inst, p, v1, v2, c, "RUNNING")
      /\ Reference(i, l.v1, l.v2) = Execute(inst, p, v1, v2, d, "RUNNING")
  BY <1>1, <1>3, <1>5 DEF LatchIr, Reference
<1>7. PICK ir, x : /\ ir = Execute(inst, p, v1, v2, c, "RUNNING")
                   /\ x = Execute(inst, p, v1, v2, d, "RUNNING")
  OBVIOUS
<1>8. /\ ir.fault => inst.op = "inv"
      /\ ~ControlFlow(inst) => ir.dnpc = Snpc(p)
      /\ ~Serializing(inst) => ir.csr = c
      /\ ir.state = IF inst.op = "ebreak" THEN "END" ELSE "RUNNING"
  BY SMT, <1>4, <1>7, ExecuteFacts
<1>9. ir.result = x.result /\ ir.dnpc = x.dnpc /\ (Serializing(inst) => ir.csr = x.csr)
  <2>1. CASE Serializing(inst)
    <3>1. c = d
      BY <1>2, <1>3, <1>5, <2>1, SerialFacts
    <3> QED BY <1>7, <3>1
  <2>2. CASE ~Serializing(inst)
    BY <1>4, <1>7, <2>2, ExecuteSame
  <2> QED BY <2>1, <2>2
<1> QED BY <1>1, <1>3, <1>5, <1>6, <1>7, <1>8, <1>9

-----------------------------------------------------------------------------
(***************************************************************************)
(* The path that is in flight.                                             *)
(***************************************************************************)
LEMMA ExpectKept ==
    ASSUME NEW a, NEW p, Expect(a, p), pc' = pc,
           \A i \in RobIdx : rob[i].valid /\ Age(i) = a - 1 =>
             rob'[i].valid /\ Age(i)' = Age(i) /\ NextPc(i)' = NextPc(i)
    PROVE  Expect(a, p)'
<1> USE Zenon
<1>1. CASE a = 0 /\ p = pc
  BY <1>1 DEF Expect
<1>2. CASE \E i \in RobIdx : rob[i].valid /\ Age(i) = a - 1 /\ p = NextPc(i)
  <2>1. PICK i \in RobIdx : rob[i].valid /\ Age(i) = a - 1 /\ p = NextPc(i)
    BY <1>2
  <2>2. rob'[i].valid /\ Age(i)' = a - 1 /\ p = NextPc(i)'
    BY <2>1
  <2> QED BY <2>2 DEF Expect
<1> QED BY <1>1, <1>2 DEF Expect

(* The slots K, which are the oldest ones, stay in order. *)
SameNext(i) == /\ rob'[i].valid = rob[i].valid /\ rob'[i].pc = rob[i].pc /\ rob'[i].bp = rob[i].bp
               /\ NextPc(i)' = NextPc(i)

(* An instruction stays where its predecessor leads. *)
LEMMA OrderKept ==
    ASSUME TypeOK, Ordered, pc' = pc, rob_head' = rob_head, prog' = prog, NEW i \in RobIdx,
           rob[i].valid, rob'[i].pc = rob[i].pc, rob'[i].bp = rob[i].bp,
           \A j \in RobIdx : rob[j].valid /\ Age(j) = Age(i) - 1 => SameNext(j)
    PROVE  Expect(Age(i), rob[i].pc)' /\ (rob[i].bp \in Predict(rob[i].pc))'
<1> USE Zenon
<1>1. \A j \in RobIdx : Age(j)' = Age(j)
  BY DEF Age
<1>2. PICK a, p : a = Age(i) /\ p = rob[i].pc
  OBVIOUS
<1>3. Expect(a, p)
  BY <1>2 DEF Ordered
<1>4. Expect(a, p)'
  BY <1>1, <1>2, <1>3, ExpectKept DEF SameNext
<1>5. a = Age(i)' /\ p = rob'[i].pc
  BY <1>1, <1>2
<1>6. Expect(Age(i), rob[i].pc)'
  BY <1>4, <1>5
<1>7. (rob[i].bp \in Predict(rob[i].pc))'
  BY DEF Ordered, Predict
<1> QED BY <1>6, <1>7

(* The instructions that wait in the front end, when the ROB stays as it is. *)
LEMMA AllKept ==
    ASSUME TypeOK, Ordered, pc' = pc, rob_head' = rob_head, prog' = prog, rob_count' = rob_count,
           \A i \in RobIdx : SameNext(i)
    PROVE  Ordered' /\ \A p : Expect(rob_count, p) => Expect(rob_count, p)'
<1> USE Zenon
<1>1. \A j \in RobIdx : Age(j)' = Age(j)
  BY DEF Age
<1>2. ASSUME NEW i \in RobIdx, rob'[i].valid
      PROVE  Expect(Age(i), rob[i].pc)' /\ (rob[i].bp \in Predict(rob[i].pc))'
  <2>1. rob[i].valid /\ rob'[i].pc = rob[i].pc /\ rob'[i].bp = rob[i].bp
    BY <1>2 DEF SameNext
  <2> QED BY <2>1, OrderKept
<1>3. Ordered'
  BY <1>2 DEF Ordered
<1>4. ASSUME NEW p, Expect(rob_count, p) PROVE Expect(rob_count, p)'
  <2>1. PICK a : a = rob_count
    OBVIOUS
  <2>2. Expect(a, p)
    BY <1>4, <2>1
  <2>3. Expect(a, p)'
    BY <1>1, <2>2, ExpectKept DEF SameNext
  <2> QED BY <2>1, <2>3
<1> QED BY <1>3, <1>4

(* The control flow is kept when no instruction changes where it leads. *)
LEMMA FrontKept ==
    ASSUME TypeOK, Chain, pc' = pc, rob_head' = rob_head, prog' = prog, rob_count' = rob_count,
           \A i \in RobIdx : SameNext(i), UNCHANGED <<latch_if_id, latch_id_rn, fetch_pc>>
    PROVE  Chain'
<1> USE Zenon
<1>1. Ordered' /\ \A p : Expect(rob_count, p) => Expect(rob_count, p)'
  <2>1. Ordered
    BY DEF Chain
  <2> QED BY <2>1, AllKept
<1>2. Fetching'
  BY <1>1 DEF Chain, Fetching
<1>3. Predicted(latch_id_rn)' /\ Predicted(latch_if_id)'
  BY DEF Chain, Predicted, Predict
<1> QED BY <1>1, <1>2, <1>3 DEF Chain

-----------------------------------------------------------------------------
(***************************************************************************)
(* Rename, commit and issue.                                               *)
(***************************************************************************)
(***************************************************************************)
(* The other steps: the slots L stay as they are, with what they read.     *)
(***************************************************************************)
Stays(j) ==
    /\ rob'[j] = rob[j] /\ ArgsKept(j)
    /\ Renames(rob[j].arch_rd) => prf'[rob[j].phys_rd].value = prf[rob[j].phys_rd].value
    /\ Serializing(Inst(j)) => csr_committed' = csr_committed

(* A station of an instruction that stays keeps the right sources. *)
LEMMA FedStays ==
    ASSUME TypeOK, prog' = prog, NEW e \in RsEntries, Stays(e.rob_idx), Fed(e)
    PROVE  Fed(e)'
<1> USE Zenon
<1> SUFFICES ASSUME e.valid PROVE Fed(e)'
  <2>1. Fed(e)'
    BY DEF Fed
  <2> QED BY <2>1
<1>1. PICK j \in RobIdx, s1 \in Sources, s2 \in Sources : j = e.rob_idx /\ s1 = e.src1 /\ s2 = e.src2
  BY DEF RsEntries
<1>2. ArgsKept(j) /\ rob'[j].pc = rob[j].pc /\ Inst(j)' = Inst(j)
  BY <1>1 DEF Stays, Inst
<1>3. PICK r1 \in ArchRegs \cup {NoReg}, r2 \in ArchRegs \cup {NoReg} :
          r1 = Inst(j).rs1 /\ r2 = Inst(j).rs2
  BY InstType
<1>4. Tagged(j, r1, s1) /\ Tagged(j, r2, s2) /\ e.eu_type = EuType(Inst(j))
  BY <1>1, <1>3 DEF Fed
<1>5. Tagged(j, r1, s1)'
  BY <1>2, <1>4, TaggedKept
<1>6. Tagged(j, r2, s2)'
  BY <1>2, <1>4, TaggedKept
<1> QED BY <1>1, <1>2, <1>3, <1>4, <1>5, <1>6 DEF Fed

(* A latch of an instruction that stays keeps the right arguments. *)
LEMMA LoadedStays ==
    ASSUME TypeOK, prog' = prog, NEW e \in Latches, Stays(e.rob_idx), Loaded(e)
    PROVE  Loaded(e)' /\ Inst(e.rob_idx)' = Inst(e.rob_idx)
<1> USE Zenon
<1>1. PICK j \in RobIdx, v1 \in Words, v2 \in Words : j = e.rob_idx /\ v1 = e.v1 /\ v2 = e.v2
  BY DEF Latches
<1>2. ArgsKept(j) /\ rob'[j].pc = rob[j].pc /\ Inst(j)' = Inst(j)
  BY <1>1 DEF Stays, Inst
<1>3. HasArgs(j, v1, v2) => HasArgs(j, v1, v2)'
  BY <1>2, HasArgsKept
<1> QED BY <1>1, <1>2, <1>3 DEF Loaded

(* Values is kept when the instructions L stay as they are and what is new
   in a station or a latch is right. *)
LEMMA ValuesStay ==
    ASSUME TypeOK, Values, Serial, prog' = prog, csr' = csr, CommittedValues', NEW L \in SUBSET RobIdx,
           \A j \in L : Stays(j),
           \A j \in RobIdx : rob'[j].valid /\ rob'[j].ready => j \in L,
           \A k \in RsIdx : Fed(rs[k])' \/ (rs'[k] = rs[k] /\ (rs[k].valid => rs[k].rob_idx \in L)),
           \A s \in IntSlots : \/ Loaded(latch_int[s])'
                               \/ /\ latch_int'[s] = latch_int[s]
                                  /\ latch_int[s].valid => latch_int[s].rob_idx \in L,
           \A s \in MulSlots : \/ (/\ Loaded(latch_mul[s])
                                   /\ latch_mul[s].valid => Inst(latch_mul[s].rob_idx).op = "mul")'
                               \/ /\ latch_mul'[s] = latch_mul[s]
                                  /\ latch_mul[s].valid => latch_mul[s].rob_idx \in L
    PROVE  Values'
<1> USE Zenon
<1>1. ASSUME NEW j \in RobIdx, rob'[j].valid, rob'[j].ready PROVE Done(j)'
  <2>1. Stays(j)
    BY <1>1
  <2>2. /\ rob'[j] = rob[j] /\ ArgsKept(j)
        /\ Renames(rob[j].arch_rd) => prf'[rob[j].phys_rd].value = prf[rob[j].phys_rd].value
        /\ Serializing(Inst(j)) => csr' = csr /\ csr_committed' = csr_committed
    BY <2>1 DEF Stays
  <2>3. Done(j)
    BY <1>1, <2>2 DEF Values
  <2>4. Untrapped(prog)
    BY DEF Serial
  <2> QED BY <2>2, <2>3, <2>4, DoneKept
<1>2. ASSUME NEW k \in RsIdx PROVE Fed(rs[k])'
  <2> SUFFICES ASSUME rs'[k] = rs[k], rs[k].valid => rs[k].rob_idx \in L PROVE Fed(rs[k])'
    OBVIOUS
  <2>1. PICK e \in RsEntries : e = rs[k]
    BY DEF TypeOK
  <2>2. Fed(e)
    BY <2>1 DEF Values
  <2>3. Fed(e)'
    <3>1. CASE e.valid
      BY <2>1, <2>2, <3>1, FedStays
    <3>2. CASE ~e.valid
      BY <3>2 DEF Fed
    <3> QED BY <3>1, <3>2
  <2> QED BY <2>1, <2>3
<1>3. ASSUME NEW s \in IntSlots PROVE Loaded(latch_int[s])'
  <2> SUFFICES ASSUME latch_int'[s] = latch_int[s], latch_int[s].valid => latch_int[s].rob_idx \in L
               PROVE  Loaded(latch_int[s])'
    OBVIOUS
  <2>1. PICK e \in Latches : e = latch_int[s]
    BY DEF TypeOK
  <2>2. Loaded(e)
    BY <2>1 DEF Values
  <2>3. Loaded(e)'
    <3>1. CASE e.valid
      BY <2>1, <2>2, <3>1, LoadedStays
    <3>2. CASE ~e.valid
      BY <3>2 DEF Loaded
    <3> QED BY <3>1, <3>2
  <2> QED BY <2>1, <2>3
<1>4. ASSUME NEW s \in MulSlots
      PROVE  (Loaded(latch_mul[s]) /\ (latch_mul[s].valid => Inst(latch_mul[s].rob_idx).op = "mul"))'
  <2> SUFFICES ASSUME latch_mul'[s] = latch_mul[s], latch_mul[s].valid => latch_mul[s].rob_idx \in L
               PROVE  (/\ Loaded(latch_mul[s])
                       /\ latch_mul[s].valid => Inst(latch_mul[s].rob_idx).op = "mul")'
    OBVIOUS
  <2>1. PICK e \in Latches : e = latch_mul[s]
    BY DEF TypeOK
  <2>2. Loaded(e) /\ (e.valid => Inst(e.rob_idx).op = "mul")
    BY <2>1 DEF Values
  <2>3. (Loaded(e) /\ (e.valid => Inst(e.rob_idx).op = "mul"))'
    <3>1. CASE e.valid
      BY <2>1, <2>2, <3>1, LoadedStays
    <3>2. CASE ~e.valid
      BY <3>2 DEF Loaded
    <3> QED BY <3>1, <3>2
  <2> QED BY <2>1, <2>3
<1> QED BY <1>1, <1>2, <1>3, <1>4 DEF Values

(* What one iteration of ooo_stage_rn does. *)
Enters(f, q, t, k) ==
    /\ f = Head(latch_id_rn) /\ latch_id_rn # <<>> /\ latch_id_rn' = Tail(latch_id_rn)
    /\ t = rob_tail /\ ~rob[t].valid /\ Age(t) = rob_count
    /\ rob' = [rob EXCEPT ![t] = RobEntryFor(f, q)]
    /\ rob_count' = rob_count + 1 /\ rob_head' = rob_head /\ rrat' = rrat
    /\ rs' = [rs EXCEPT ![k] = RsEntryFor(f, q)]
    /\ prf' # prf => q \in freelist.regs /\ prf' = [prf EXCEPT ![q] = [value |-> 0, ready |-> FALSE]]
    /\ Serializing(prog[f.pc]) => rob_count = 0
    /\ state = "RUNNING"
    /\ UNCHANGED <<prog, csr, state, gpr, pc, csr_committed, latch_int, latch_mul,
                   latch_if_id, fetch_pc>>

(* What rename does, as the entry it makes. *)
LEMMA Dispatches ==
    ASSUME SetLaws, IInv, ooo_stage_rn
    PROVE  \E f \in Fetched, q \in MaybePhys, t \in RobIdx, k \in RsIdx : Enters(f, q, t, k)
<1> USE Zenon
<1>0. TypeOK
  BY DEF IInv
<1>1. PICK f : f = Head(latch_id_rn)
  OBVIOUS
<1>2. f \in Fetched
  <2>1. latch_id_rn \in Seq(Fetched) /\ latch_id_rn # <<>>
    BY <1>0 DEF ooo_stage_rn, TypeOK
  <2> QED BY SMT, <1>1, <2>1
<1>3. PICK k : k = LowestFreeRs
  OBVIOUS
<1>4. PICK t \in RobIdx : t = rob_tail
  BY <1>0 DEF TypeOK
<1>5. CanRename(prog[f.pc])
  BY <1>1 DEF ooo_stage_rn
<1>6. PICK q \in DestChoices(prog[f.pc]) : /\ rob' = [rob EXCEPT ![t] = RobEntryFor(f, q)]
                                           /\ RenameDest(prog[f.pc], q)
                                           /\ rs' = [rs EXCEPT ![k] = RsEntryFor(f, q)]
  BY <1>1, <1>3, <1>4 DEF ooo_stage_rn
<1>7. /\ rob_count' = rob_count + 1 /\ rob_head' = rob_head /\ rrat' = rrat
      /\ latch_id_rn # <<>> /\ latch_id_rn' = Tail(latch_id_rn) /\ state = "RUNNING"
      /\ UNCHANGED <<prog, csr, state, gpr, pc, csr_committed, latch_int, latch_mul,
                     latch_if_id, fetch_pc>>
  BY DEF ooo_stage_rn, archVars
<1>8. k \in RsIdx
  BY <1>0, <1>3, <1>5, LowestFreeRsType DEF CanRename
<1>9. q \in MaybePhys
  BY SMT, <1>0, <1>6, OooAssumption, IsaAssumption DEF DestChoices, MaybePhys, TypeOK, PhysRegs
<1>10. Age(t) = rob_count /\ ~rob[t].valid
  <2>1. /\ rob_head \in RobIdx /\ rob_count \in 0 .. ROB_SIZE /\ rob_count < ROB_SIZE
    BY <1>0, <1>5 DEF TypeOK, CanRename
  <2> QED BY SMT, <1>4, <2>1, OooAssumption DEF IInv, RobContiguous, Age, RobIdx
<1>11. prf' # prf => q \in freelist.regs /\ prf' = [prf EXCEPT ![q] = [value |-> 0, ready |-> FALSE]]
  BY <1>6 DEF RenameDest, DestChoices
<1>12. Serializing(prog[f.pc]) => rob_count = 0
  BY <1>5 DEF CanRename
<1>13. Enters(f, q, t, k)
  BY <1>1, <1>4, <1>6, <1>7, <1>10, <1>11, <1>12 DEF Enters
<1> QED BY <1>2, <1>8, <1>9, <1>13

(* The entry and the register file after it. *)
LEMMA DispatchFacts ==
    ASSUME IInv, NEW f \in Fetched, NEW q \in MaybePhys, NEW t \in RobIdx, NEW k \in RsIdx,
           Enters(f, q, t, k)
    PROVE  /\ rob'[t].valid /\ ~rob'[t].ready /\ rob'[t].pc = f.pc /\ rob'[t].bp = f.bp
           /\ rob'[t].arch_rd = prog[f.pc].rd
           /\ \A j \in RobIdx : j # t => rob'[j] = rob[j]
           /\ \A j \in RobIdx : rob[j].valid <=> Age(j) < rob_count
           /\ \A p \in PhysRegs : p \notin freelist.regs => prf'[p] = prf[p]
<1> USE Zenon
<1>1. rob \in [RobIdx -> RobEntries] /\ prf \in [PhysRegs -> [value : Words, ready : BOOLEAN]]
  BY DEF IInv, TypeOK
<1>2. rob' = [rob EXCEPT ![t] = RobEntryFor(f, q)]
  BY DEF Enters
<1>3. prf' # prf => q \in freelist.regs /\ prf' = [prf EXCEPT ![q] = [value |-> 0, ready |-> FALSE]]
  BY DEF Enters
<1>4. PICK e : e = RobEntryFor(f, q)
  OBVIOUS
<1>5. e.valid /\ ~e.ready /\ e.pc = f.pc /\ e.bp = f.bp /\ e.arch_rd = prog[f.pc].rd
  BY <1>4 DEF RobEntryFor, NoEntry
<1>6. rob'[t] = e /\ \A j \in RobIdx : j # t => rob'[j] = rob[j]
  BY <1>1, <1>2, <1>4
<1>7. \A p \in PhysRegs : p \notin freelist.regs => prf'[p] = prf[p]
  BY <1>1, <1>3
<1>8. \A j \in RobIdx : rob[j].valid <=> Age(j) < rob_count
  BY DEF IInv, RobContiguous
<1> QED BY <1>5, <1>6, <1>7, <1>8

(* The mappings before an age are not touched by what is dispatched at it. *)
LEMMA DispatchMaps ==
    ASSUME IInv, NEW f \in Fetched, NEW q \in MaybePhys, NEW t \in RobIdx, NEW k \in RsIdx,
           Enters(f, q, t, k), NEW r \in ArchRegs \ {0}, NEW a \in Int, a <= rob_count,
           NEW p, MapsTo(r, a, p)
    PROVE  MapsTo(r, a, p)' /\ p \in PhysRegs /\ prf'[p] = prf[p]
<1> USE Zenon
<1>0. TypeOK /\ rob_head' = rob_head /\ rrat' = rrat /\ Age(t) = rob_count
  BY DEF IInv, Enters
<1>1. \A j \in RobIdx : j # t => rob'[j] = rob[j]
  BY DispatchFacts
<1>2. \A j \in RobIdx : Age(j) < a => SameWriter(j)
  <2> SUFFICES ASSUME NEW j \in RobIdx, Age(j) < a PROVE SameWriter(j)
    OBVIOUS
  <2>1. j # t
    <3>1. rob_count \in Int /\ Age(j) \in Int
      BY SMT, <1>0, AgeBijective DEF TypeOK
    <3> QED BY SMT, <1>0, <3>1
  <2> QED BY <1>1, <2>1 DEF SameWriter
<1>3. MapsTo(r, a, p)'
  BY <1>0, <1>2, MapsKept
<1>4. p \in PhysRegs /\ p \notin freelist.regs
  BY Mapped
<1>5. prf'[p] = prf[p]
  BY <1>4, DispatchFacts
<1> QED BY <1>3, <1>4, <1>5

(* The operands of the new instruction. *)
LEMMA DispatchedSource ==
    ASSUME IInv, NEW f \in Fetched, NEW q \in MaybePhys, NEW t \in RobIdx, NEW k \in RsIdx,
           Enters(f, q, t, k), NEW r \in ArchRegs \cup {NoReg}, NEW src,
           src = Source(r, prog[f.pc].imm)
    PROVE  Tagged(t, r, src)'
<1> USE Zenon
<1>1. Inst(t)' = prog[f.pc]
  <2>1. rob'[t].pc = f.pc
    BY SMT, DispatchFacts
  <2>2. prog' = prog
    BY DEF Enters
  <2> QED BY <2>1, <2>2 DEF Inst
<1>2. CASE r \in {NoReg, 0}
  <2>1. src.ready /\ src.val = IF r = NoReg THEN prog[f.pc].imm ELSE 0
    BY <1>2 DEF Source
  <2> QED BY <1>1, <1>2, <2>1 DEF Tagged, NoReg
<1>3. CASE r \notin {NoReg, 0}
  <2>1. PICK p : p = rat[r]
    OBVIOUS
  <2>2. src.ptag = p /\ (src.ready => prf[p].ready /\ src.val = prf[p].value)
    BY <1>3, <2>1 DEF Source
  <2>3. PICK a \in Int : a = rob_count /\ a = Age(t)'
    <3>1. rob_count \in Int /\ Age(t) = rob_count /\ rob_head' = rob_head
      BY SMT DEF IInv, TypeOK, Enters
    <3>2. Age(t)' = Age(t)
      BY <3>1 DEF Age
    <3> QED BY <3>1, <3>2
  <2>4. MapsTo(r, a, p)
    BY <1>3, <2>1, <2>3 DEF IInv, RatConsistent
  <2>5. MapsTo(r, a, p)' /\ prf'[p] = prf[p]
    BY SMT, <1>3, <2>3, <2>4, DispatchMaps
  <2>6. MapsTo(r, Age(t), p)'
    BY <2>3, <2>5
  <2>7. src.ready => prf'[p].ready /\ src.val = prf'[p].value
    BY <2>2, <2>5
  <2> QED BY <1>3, <2>2, <2>6, <2>7 DEF Tagged
<1> QED BY <1>2, <1>3

(* Rename reads mapped registers, and overwrites none that is read. *)
LEMMA RenameValues == ASSUME SetLaws, Known, Values, Serial, ooo_stage_rn PROVE Values'
<1> USE Zenon
<1>0. IInv /\ TypeOK
  BY DEF Known, IInv
<1>1. PICK f \in Fetched, q \in MaybePhys, t \in RobIdx, k \in RsIdx : Enters(f, q, t, k)
  BY <1>0, Dispatches
<1>2. /\ rob'[t].valid /\ ~rob'[t].ready /\ rob'[t].pc = f.pc
      /\ \A j \in RobIdx : j # t => rob'[j] = rob[j]
      /\ \A j \in RobIdx : rob[j].valid <=> Age(j) < rob_count
      /\ \A p \in PhysRegs : p \notin freelist.regs => prf'[p] = prf[p]
  BY SMT, <1>0, <1>1, DispatchFacts
<1>3. /\ prog' = prog /\ csr' = csr /\ rob_head' = rob_head /\ rrat' = rrat /\ gpr' = gpr
      /\ csr_committed' = csr_committed /\ latch_int' = latch_int /\ latch_mul' = latch_mul
      /\ rs' = [rs EXCEPT ![k] = RsEntryFor(f, q)] /\ t = rob_tail /\ ~rob[t].valid
  BY <1>1 DEF Enters
<1>4. PICK L \in SUBSET RobIdx : L = {j \in RobIdx : rob[j].valid}
  OBVIOUS
<1>5. ASSUME NEW j \in L PROVE Stays(j)
  <2>1. j \in RobIdx /\ rob[j].valid /\ j # t /\ rob'[j] = rob[j]
    BY <1>2, <1>3, <1>4
  <2>2. ArgsKept(j)
    <3> SUFFICES ASSUME NEW r \in ArchRegs \ {0}, NEW p \in PhysRegs, MapsTo(r, Age(j), p)
                 PROVE  MapsTo(r, Age(j), p)' /\ prf'[p] = prf[p]
      BY DEF ArgsKept
    <3>1. Age(j) \in Int /\ rob_count \in Int /\ Age(j)' = Age(j) /\ Age(j) < rob_count
      BY SMT, <1>0, <1>2, <1>3, <2>1, AgeBijective DEF TypeOK, Age
    <3>2. PICK a \in Int : a = Age(j) /\ a = Age(j)' /\ a <= rob_count
      BY SMT, <3>1
    <3>3. MapsTo(r, a, p)
      BY <3>2
    <3>4. MapsTo(r, a, p)' /\ prf'[p] = prf[p]
      BY <1>0, <1>1, <3>2, <3>3, DispatchMaps
    <3> QED BY <3>2, <3>4
  <2>3. Renames(rob[j].arch_rd) => prf'[rob[j].phys_rd].value = prf[rob[j].phys_rd].value
    <3> SUFFICES ASSUME j \in Writers PROVE prf'[rob[j].phys_rd] = prf[rob[j].phys_rd]
      BY <2>1 DEF Writers
    <3>1. rob[j].phys_rd \in PhysRegs /\ rob[j].phys_rd \notin freelist.regs
      BY <1>0, Dests
    <3> QED BY <1>2, <3>1
  <2> QED BY <1>3, <2>1, <2>2, <2>3 DEF Stays
<1>6. CommittedValues'
  <2>1. \A r \in ArchRegs \ {0} : prf'[rrat[r]] = prf[rrat[r]]
    <3> SUFFICES ASSUME NEW r \in ArchRegs \ {0} PROVE prf'[rrat[r]] = prf[rrat[r]]
      OBVIOUS
    <3>1. rrat[r] \in PhysRegs /\ rrat[r] \notin freelist.regs
      BY <1>0, Dests
    <3> QED BY <1>2, <3>1
  <2> QED BY <1>3, <2>1 DEF Values, CommittedValues
<1>7. \A j \in RobIdx : rob'[j].valid /\ rob'[j].ready => j \in L
  BY <1>2, <1>4
<1>8. Fed(rs[k])'
  <2>1. PICK e : e = RsEntryFor(f, q)
    OBVIOUS
  <2>2. rs'[k] = e
    BY <1>0, <1>3, <2>1 DEF TypeOK
  <2>3. PICK r1 \in ArchRegs \cup {NoReg}, r2 \in ArchRegs \cup {NoReg} :
           r1 = prog[f.pc].rs1 /\ r2 = prog[f.pc].rs2
    <3>1. prog[f.pc] \in Insts
      BY <1>0 DEF TypeOK, Fetched
    <3> QED BY <3>1 DEF Insts
  <2>4. PICK s1, s2 : s1 = Source(r1, prog[f.pc].imm) /\ s2 = Source(r2, prog[f.pc].imm)
    OBVIOUS
  <2>5. e.rob_idx = t /\ e.eu_type = EuType(prog[f.pc]) /\ e.src1 = s1 /\ e.src2 = s2
    BY <1>3, <2>1, <2>3, <2>4 DEF RsEntryFor
  <2>6. Tagged(t, r1, s1)'
    BY <1>0, <1>1, <2>4, DispatchedSource
  <2>7. Tagged(t, r2, s2)'
    BY <1>0, <1>1, <2>4, DispatchedSource
  <2>8. Inst(t)' = prog[f.pc]
    BY <1>2, <1>3 DEF Inst
  <2>9. Fed(e)'
    BY <2>3, <2>5, <2>6, <2>7, <2>8 DEF Fed
  <2> QED BY <2>2, <2>9
<1>9. \A m \in RsIdx : Fed(rs[m])' \/ (rs'[m] = rs[m] /\ (rs[m].valid => rs[m].rob_idx \in L))
  <2> SUFFICES ASSUME NEW m \in RsIdx, m # k
               PROVE  rs'[m] = rs[m] /\ (rs[m].valid => rs[m].rob_idx \in L)
    BY <1>8
  <2>1. rs'[m] = rs[m]
    BY <1>0, <1>3 DEF TypeOK
  <2>2. rs[m].rob_idx \in RobIdx
    BY <1>0 DEF TypeOK, RsEntries
  <2> QED BY <1>4, <2>1, <2>2 DEF Known, InPlace
<1>10. \A s \in IntSlots : latch_int'[s] = latch_int[s]
                           /\ (latch_int[s].valid => latch_int[s].rob_idx \in L)
  <2>1. \A s \in IntSlots : latch_int[s].rob_idx \in RobIdx
    BY <1>0 DEF TypeOK, Latches
  <2> QED BY <1>3, <1>4, <2>1 DEF Known, InPlace
<1>11. \A s \in MulSlots : latch_mul'[s] = latch_mul[s]
                           /\ (latch_mul[s].valid => latch_mul[s].rob_idx \in L)
  <2>1. \A s \in MulSlots : latch_mul[s].rob_idx \in RobIdx
    BY <1>0 DEF TypeOK, Latches
  <2> QED BY <1>3, <1>4, <2>1 DEF Known, InPlace
<1>12. \A j \in L : Stays(j)
  BY <1>5
<1> QED BY <1>0, <1>3, <1>6, <1>7, <1>9, <1>10, <1>11, <1>12, ValuesStay

(* What the commit of the head does to the mappings: what r maps to before an
   instruction that stays is the same, and it is not the register freed. *)
LEMMA CommitMaps ==
    ASSUME IInv, NEW h \in RobIdx, h = rob_head, rob[h].valid, rob_head' = Inc(h),
           rob' = [rob EXCEPT ![h] = NoEntry], CommitDest(rob[h]),
           NEW j \in RobIdx, j # h, NEW r \in ArchRegs \ {0}, NEW p \in PhysRegs, MapsTo(r, Age(j), p)
    PROVE  MapsTo(r, Age(j), p)' /\ prf'[p] = prf[p]
<1> USE Zenon
<1>0. TypeOK /\ rob[h] \in RobEntries
  BY DEF IInv, TypeOK
<1>1. Age(h) = 0 /\ \A i \in RobIdx : Age(i) \in 0 .. ROB_SIZE - 1 /\ (Age(i) = 0 => i = h)
  BY SMT, AgeBijective, OooAssumption DEF Age, RobIdx
<1>2. Age(h)' = ROB_SIZE - 1 /\ \A i \in RobIdx \ {h} : Age(i)' = Age(i) - 1
  BY SMT, OooAssumption DEF Age, RobIdx, Inc
<1>3. ~rob'[h].valid /\ \A i \in RobIdx \ {h} : rob'[i] = rob[i]
  BY <1>0 DEF NoEntry, TypeOK
<1>4. \A i \in RobIdx : Writer(i, r)' <=> Writer(i, r) /\ i # h
  BY <1>3 DEF Writer
<1>5. rrat'[r] = IF Renames(rob[h].arch_rd) /\ r = rob[h].arch_rd THEN rob[h].phys_rd ELSE rrat[r]
  BY SMT, <1>0 DEF CommitDest, TypeOK
<1>6. Writer(h, r) <=> Renames(rob[h].arch_rd) /\ r = rob[h].arch_rd
  BY DEF Writer
<1>7. PICK a \in Int : a = Age(j) /\ a - 1 = Age(j)' /\ a > 0 /\ a - 1 \in Int
  BY SMT, <1>1, <1>2
<1>8. MapsTo(r, a - 1, p)'
  <2>1. CASE \E m \in RobIdx :
               /\ Writer(m, r) /\ Age(m) < a /\ p = rob[m].phys_rd
               /\ \A n \in RobIdx : Writer(n, r) /\ Age(n) < a => Age(n) <= Age(m)
    <3>1. PICK m \in RobIdx :
               /\ Writer(m, r) /\ Age(m) < a /\ p = rob[m].phys_rd
               /\ \A n \in RobIdx : Writer(n, r) /\ Age(n) < a => Age(n) <= Age(m)
      BY <2>1
    <3>2. CASE m = h
      <4>1. p = rrat'[r]
        BY <1>5, <1>6, <3>1, <3>2
      <4>2. \A n \in RobIdx : Writer(n, r)' => Age(n)' >= a - 1
        <5> SUFFICES ASSUME NEW n \in RobIdx, Writer(n, r), n # h PROVE Age(n) >= a
          BY SMT, <1>1, <1>2, <1>4
        <5> QED BY SMT, <1>1, <3>1, <3>2
      <4> QED BY <4>1, <4>2 DEF MapsTo
    <3>3. CASE m # h
      <4>1. Writer(m, r)' /\ Age(m)' < a - 1 /\ p = rob'[m].phys_rd
        BY SMT, <1>1, <1>2, <1>3, <1>4, <3>1, <3>3
      <4>2. \A n \in RobIdx : Writer(n, r)' /\ Age(n)' < a - 1 => Age(n)' <= Age(m)'
        BY SMT, <1>1, <1>2, <1>4, <3>1, <3>3
      <4> QED BY <4>1, <4>2 DEF MapsTo
    <3> QED BY <3>2, <3>3
  <2>2. CASE p = rrat[r] /\ \A m \in RobIdx : Writer(m, r) => Age(m) >= a
    <3>1. ~Writer(h, r)
      BY SMT, <1>1, <1>7, <2>2
    <3>2. p = rrat'[r]
      BY <1>5, <1>6, <2>2, <3>1
    <3>3. \A n \in RobIdx : Writer(n, r)' => Age(n)' >= a - 1
      BY SMT, <1>1, <1>2, <1>4, <2>2
    <3> QED BY <3>2, <3>3 DEF MapsTo
  <2>3. MapsTo(r, a, p)
    BY <1>7
  <2> QED BY <2>1, <2>2, <2>3 DEF MapsTo
<1>9. prf'[p] = prf[p]
  <2>1. CASE ~Renames(rob[h].arch_rd)
    BY <2>1 DEF CommitDest
  <2>2. CASE Renames(rob[h].arch_rd)
    <3>1. PICK rd \in ArchRegs \ {0}, o \in MaybePhys : rd = rob[h].arch_rd /\ o = rob[h].old_phys
      BY <1>0, <2>2 DEF Renames, RobEntries
    <3>2. h \in Writers /\ Writer(h, rd)
      BY <2>2, <3>1 DEF Writers, Writer
    <3>3. o = rrat[rd]
      <4>1. MapsTo(rd, Age(h), o)
        BY <3>1, <3>2 DEF IInv, RatConsistent
      <4>2. \A i \in RobIdx : ~(Age(i) < Age(h))
        BY SMT, <1>1
      <4> QED BY <4>1, <4>2 DEF MapsTo
    <3>4. p # o
      <4> SUFFICES ASSUME p = rrat[rd] PROVE FALSE
        BY <3>3
      <4>1. \A m \in RobIdx : Writer(m, r) => m \in Writers
        BY DEF Writer, Writers
      <4>2. p = rrat[r] /\ \A m \in RobIdx : Writer(m, r) => Age(m) >= Age(j)
        BY <4>1, Dests DEF MapsTo
      <4>3. r = rd
        BY <4>2, Dests
      <4> QED BY SMT, <1>1, <1>7, <3>2, <4>2, <4>3
    <3>5. prf' = [prf EXCEPT ![o].ready = FALSE]
      BY <2>2, <3>1 DEF CommitDest
    <3> QED BY <1>0, <3>4, <3>5 DEF TypeOK
  <2> QED BY <2>1, <2>2
<1> QED BY <1>7, <1>8, <1>9

(* Commit moves the oldest value to the committed registers. *)
LEMMA CommitValues == ASSUME Known, Values, Serial, ooo_stage_commit PROVE Values'
<1> USE Zenon
<1>0. IInv /\ TypeOK
  BY DEF Known, IInv
<1>1. PICK h \in RobIdx : h = rob_head
  BY <1>0 DEF TypeOK
<1>2. /\ CommitDest(rob[h]) /\ rob' = [rob EXCEPT ![h] = NoEntry] /\ rob_head' = Inc(h)
      /\ rob[h].valid /\ rob[h].ready
      /\ prog' = prog /\ csr' = csr /\ rs' = rs /\ latch_int' = latch_int /\ latch_mul' = latch_mul
  BY <1>1 DEF ooo_stage_commit, HeadReady, rsVars
<1>3. ~rob'[h].valid /\ \A j \in RobIdx : j # h => rob'[j] = rob[j]
  BY <1>0, <1>2 DEF NoEntry, TypeOK
<1>4. PICK L \in SUBSET RobIdx : L = {j \in RobIdx : rob[j].valid /\ j # h}
  OBVIOUS
<1>5. rob[h] \in RobEntries
  BY <1>0 DEF TypeOK
<1>6. \A p \in PhysRegs : prf'[p].value = prf[p].value
  <2>1. CASE ~Renames(rob[h].arch_rd)
    BY <1>2, <2>1 DEF CommitDest
  <2>2. CASE Renames(rob[h].arch_rd)
    <3>1. prf' = [prf EXCEPT ![rob[h].old_phys].ready = FALSE]
      BY <1>2, <2>2 DEF CommitDest
    <3> QED BY <1>0, <3>1 DEF TypeOK
  <2> QED BY <2>1, <2>2
<1>7. ASSUME NEW j \in L PROVE Stays(j)
  <2>1. j \in RobIdx /\ rob[j].valid /\ j # h /\ rob'[j] = rob[j]
    BY <1>3, <1>4
  <2>2. ArgsKept(j)
    <3> SUFFICES ASSUME NEW r \in ArchRegs \ {0}, NEW p \in PhysRegs, MapsTo(r, Age(j), p)
                 PROVE  MapsTo(r, Age(j), p)' /\ prf'[p] = prf[p]
      BY DEF ArgsKept
    <3> QED BY <1>0, <1>1, <1>2, <2>1, CommitMaps
  <2>3. Renames(rob[j].arch_rd) => prf'[rob[j].phys_rd].value = prf[rob[j].phys_rd].value
    <3> SUFFICES ASSUME j \in Writers PROVE prf'[rob[j].phys_rd].value = prf[rob[j].phys_rd].value
      BY <2>1 DEF Writers
    <3>1. rob[j].phys_rd \in PhysRegs
      BY <1>0, Dests
    <3> QED BY <1>6, <3>1
  <2>4. ~Serializing(Inst(j))
    BY <1>1, <2>1 DEF Serial
  <2> QED BY <2>1, <2>2, <2>3, <2>4 DEF Stays
<1>8. CommittedValues'
  <2>1. CASE ~Renames(rob[h].arch_rd)
    <3>1. UNCHANGED <<gpr, rrat, prf>>
      BY <1>2, <2>1 DEF CommitDest
    <3> QED BY <3>1 DEF Values, CommittedValues
  <2>2. CASE Renames(rob[h].arch_rd)
    <3>1. PICK rd \in ArchRegs \ {0}, q \in PhysRegs : rd = rob[h].arch_rd /\ q = rob[h].phys_rd
      <4>1. h \in Writers
        BY <1>2, <2>2 DEF Writers
      <4>2. rob[h].phys_rd \in PhysRegs
        BY <1>0, <4>1, Dests
      <4> QED BY <1>5, <2>2, <4>2 DEF Renames, RobEntries
    <3>2. gpr' = [gpr EXCEPT ![rd] = prf[q].value] /\ rrat' = [rrat EXCEPT ![rd] = q]
      BY <1>2, <2>2, <3>1 DEF CommitDest
    <3>3. gpr \in [ArchRegs -> Words] /\ rrat \in [ArchRegs -> PhysRegs] /\ 0 \in ArchRegs
      BY SMT, <1>0, IsaAssumption DEF TypeOK, ArchRegs
    <3>4. gpr[0] = 0 /\ \A r \in ArchRegs \ {0} : prf[rrat[r]].value = gpr[r]
      BY DEF Values, CommittedValues
    <3>5. gpr'[0] = 0
      BY <3>2, <3>3, <3>4
    <3>6. ASSUME NEW r \in ArchRegs \ {0} PROVE prf'[rrat'[r]].value = gpr'[r]
      <4>1. CASE r = rd
        <5>1. rrat'[r] = q /\ gpr'[r] = prf[q].value
          BY <3>2, <3>3, <4>1
        <5> QED BY <1>6, <5>1
      <4>2. CASE r # rd
        <5>1. rrat'[r] = rrat[r] /\ gpr'[r] = gpr[r] /\ rrat[r] \in PhysRegs
          BY <3>2, <3>3, <4>2
        <5> QED BY <1>6, <3>4, <5>1
      <4> QED BY <4>1, <4>2
    <3> QED BY <3>5, <3>6 DEF CommittedValues
  <2> QED BY <2>1, <2>2
<1>9. \A j \in RobIdx : rob'[j].valid /\ rob'[j].ready => j \in L
  BY <1>3, <1>4
<1>10. \A j \in RobIdx : rob[j].valid /\ ~rob[j].ready => j \in L
  BY <1>2, <1>4
<1>11. \A m \in RsIdx : rs'[m] = rs[m] /\ (rs[m].valid => rs[m].rob_idx \in L)
  <2>1. \A m \in RsIdx : rs[m].rob_idx \in RobIdx
    BY <1>0 DEF TypeOK, RsEntries
  <2> QED BY <1>2, <1>10, <2>1 DEF Known, InPlace
<1>12. \A s \in IntSlots : latch_int'[s] = latch_int[s]
                           /\ (latch_int[s].valid => latch_int[s].rob_idx \in L)
  <2>1. \A s \in IntSlots : latch_int[s].rob_idx \in RobIdx
    BY <1>0 DEF TypeOK, Latches
  <2> QED BY <1>2, <1>10, <2>1 DEF Known, InPlace
<1>13. \A s \in MulSlots : latch_mul'[s] = latch_mul[s]
                           /\ (latch_mul[s].valid => latch_mul[s].rob_idx \in L)
  <2>1. \A s \in MulSlots : latch_mul[s].rob_idx \in RobIdx
    BY <1>0 DEF TypeOK, Latches
  <2> QED BY <1>2, <1>10, <2>1 DEF Known, InPlace
<1>14. \A j \in L : Stays(j)
  BY <1>7
<1> QED BY <1>0, <1>2, <1>8, <1>9, <1>11, <1>12, <1>13, <1>14, ValuesStay

(* Steps that leave the ROB, the registers and the CSRs alone. *)
Still == UNCHANGED <<prog, csr, gpr, csr_committed, rrat, prf, rob, rob_head>>

(* Steps that touch neither the ROB nor the registers keep the arguments. *)
LEMMA StillStays ==
    ASSUME TypeOK, Still
    PROVE  (\A j \in RobIdx : Stays(j)) /\ (CommittedValues => CommittedValues')
<1> USE Zenon
<1>1. ASSUME NEW j \in RobIdx PROVE Stays(j)
  <2>1. ASSUME NEW r \in ArchRegs \ {0}, NEW p \in PhysRegs, MapsTo(r, Age(j), p)
        PROVE  MapsTo(r, Age(j), p)'
    <3>1. PICK a \in Int : a = Age(j) /\ a = Age(j)'
      <4>1. Age(j) \in Int /\ Age(j)' = Age(j)
        BY SMT, AgeBijective DEF TypeOK, Still, Age
      <4> QED BY <4>1
    <3>2. MapsTo(r, a, p)
      BY <2>1, <3>1
    <3>3. \A k \in RobIdx : Age(k) < a => SameWriter(k)
      BY DEF Still, SameWriter
    <3>4. rob_head' = rob_head /\ rrat' = rrat
      BY DEF Still
    <3>5. MapsTo(r, a, p)'
      BY <3>2, <3>3, <3>4, MapsKept
    <3> QED BY <3>1, <3>5
  <2>2. ArgsKept(j)
    BY <2>1 DEF ArgsKept, Still
  <2> QED BY <2>2 DEF Stays, Still
<1> QED BY <1>1 DEF CommittedValues, Still

(* Fetch, decode and the panic. *)
LEMMA StillValues ==
    ASSUME Known, Values, Serial, Still, UNCHANGED <<rs, latch_int, latch_mul>>
    PROVE  Values'
<1> USE Zenon
<1>0. TypeOK
  BY DEF Known, IInv
<1>1. PICK L \in SUBSET RobIdx : L = RobIdx
  OBVIOUS
<1>2. (\A j \in L : Stays(j)) /\ CommittedValues'
  BY <1>0, <1>1, StillStays DEF Values
<1>3. prog' = prog /\ csr' = csr /\ \A j \in RobIdx : rob'[j].valid /\ rob'[j].ready => j \in L
  BY <1>1 DEF Still
<1>4. /\ \A m \in RsIdx : rs'[m] = rs[m] /\ rs[m].rob_idx \in L
      /\ \A s \in IntSlots : latch_int'[s] = latch_int[s] /\ latch_int[s].rob_idx \in L
      /\ \A s \in MulSlots : latch_mul'[s] = latch_mul[s] /\ latch_mul[s].rob_idx \in L
  BY <1>0, <1>1 DEF TypeOK, RsEntries, Latches
<1> QED BY <1>0, <1>2, <1>3, <1>4, ValuesStay

(* A ready source of a station is an operand. *)
LEMMA TaggedArg ==
    ASSUME NEW i, NEW r \in ArchRegs \cup {NoReg}, NEW src \in Sources, Tagged(i, r, src), src.ready
    PROVE  Arg(i, r, src.val)
<1> USE Zenon
<1>1. CASE r \in {NoReg, 0}
  BY <1>1 DEF Tagged, Arg
<1>2. CASE r \notin {NoReg, 0}
  <2>1. PICK p \in PhysRegs : p = src.ptag
    BY DEF Sources
  <2>2. MapsTo(r, Age(i), p) /\ prf[p].ready /\ src.val = prf[p].value
    BY <1>2, <2>1 DEF Tagged
  <2> QED BY <1>2, <2>2 DEF Arg
<1> QED BY <1>1, <1>2

(* What issues is the oldest ready station of the unit, with its operands. *)
LEMMA IssueFacts ==
    ASSUME Known, Values, NEW eu \in EuTypes, NEW k \in RsIdx, OldestReady(eu, k), FreeStation(k)
    PROVE  /\ Loaded(LatchFrom(k)) /\ LatchFrom(k) \in Latches /\ rs[k].eu_type = eu
           /\ eu = "MUL" => Inst(LatchFrom(k).rob_idx).op = "mul"
           /\ \A m \in RsIdx : Fed(rs[m])' \/ rs'[m] = rs[m]
<1> USE Zenon
<1>0. TypeOK
  BY DEF Known, IInv
<1>1. rs[k].valid /\ rs[k].eu_type = eu /\ rs[k].src1.ready /\ rs[k].src2.ready
  <2>1. k \in rs_ready_mask[eu]
    BY DEF OldestReady
  <2>2. MasksExact
    BY DEF Known
  <2> QED BY <2>1, <2>2 DEF MasksExact
<1>2. PICK j \in RobIdx, s1 \in Sources, s2 \in Sources :
          j = rs[k].rob_idx /\ s1 = rs[k].src1 /\ s2 = rs[k].src2
  BY <1>0 DEF TypeOK, RsEntries
<1>3. PICK r1 \in ArchRegs \cup {NoReg}, r2 \in ArchRegs \cup {NoReg} :
          r1 = Inst(j).rs1 /\ r2 = Inst(j).rs2
  BY <1>0, InstType
<1>4. Tagged(j, r1, s1) /\ Tagged(j, r2, s2) /\ eu = EuType(Inst(j))
  BY <1>1, <1>2, <1>3 DEF Values, Fed
<1>5. Arg(j, r1, s1.val)
  BY <1>1, <1>2, <1>4, TaggedArg
<1>6. Arg(j, r2, s2.val)
  BY <1>1, <1>2, <1>4, TaggedArg
<1>7. LatchFrom(k).rob_idx = j /\ LatchFrom(k).v1 = s1.val /\ LatchFrom(k).v2 = s2.val
  BY <1>2 DEF LatchFrom
<1>8. Loaded(LatchFrom(k))
  BY <1>3, <1>5, <1>6, <1>7 DEF Loaded, HasArgs
<1>9. eu = "MUL" => Inst(LatchFrom(k).rob_idx).op = "mul"
  BY <1>4, <1>7 DEF EuType
<1>10. \A m \in RsIdx : Fed(rs[m])' \/ rs'[m] = rs[m]
  <2>1. rs' = [rs EXCEPT ![k] = NoRs]
    BY DEF FreeStation
  <2>2. rs'[k] = NoRs /\ \A m \in RsIdx : m # k => rs'[m] = rs[m]
    BY <1>0, <2>1 DEF TypeOK
  <2>3. ~rs'[k].valid
    BY SMT, <2>2 DEF NoRs
  <2>4. Fed(rs[k])'
    BY <2>3 DEF Fed
  <2> QED BY <2>2, <2>4
<1>11. LatchFrom(k) \in Latches
  BY <1>0, IssueType
<1> QED BY <1>1, <1>8, <1>9, <1>10, <1>11

(* An INT latch is loaded with the arguments of its station. *)
LEMMA IssueIntValues ==
    ASSUME Known, Values, Serial, NEW s \in IntSlots, IssueInt(s) PROVE Values'
<1> USE Zenon
<1>0. TypeOK
  BY DEF Known, IInv
<1>1. Still /\ latch_mul' = latch_mul
  BY DEF IssueInt, Still, archVars, renameVars, robVars
<1>2. PICK k \in RsIdx : /\ OldestReady("INT", k) /\ FreeStation(k)
                         /\ latch_int' = [latch_int EXCEPT ![s] = LatchFrom(k)]
  BY DEF IssueInt
<1>3. "INT" \in EuTypes
  BY DEF EuTypes
<1>4. /\ Loaded(LatchFrom(k)) /\ LatchFrom(k) \in Latches
      /\ \A m \in RsIdx : Fed(rs[m])' \/ rs'[m] = rs[m]
  BY <1>2, <1>3, IssueFacts
<1>5. PICK L \in SUBSET RobIdx : L = RobIdx
  OBVIOUS
<1>6. (\A j \in L : Stays(j)) /\ CommittedValues'
  BY <1>0, <1>1, <1>5, StillStays DEF Values
<1>7. prog' = prog /\ csr' = csr /\ \A j \in RobIdx : rob'[j].valid /\ rob'[j].ready => j \in L
  BY <1>1, <1>5 DEF Still
<1>8. /\ \A m \in RsIdx : rs[m].rob_idx \in L
      /\ \A t \in IntSlots : latch_int[t].rob_idx \in L
      /\ \A t \in MulSlots : latch_mul'[t] = latch_mul[t] /\ latch_mul[t].rob_idx \in L
  BY <1>0, <1>1, <1>5 DEF TypeOK, RsEntries, Latches
<1>9. PICK e \in Latches : e = LatchFrom(k)
  BY <1>4
<1>10. latch_int'[s] = e /\ \A t \in IntSlots : t # s => latch_int'[t] = latch_int[t]
  BY <1>0, <1>2, <1>9 DEF TypeOK
<1>11. Loaded(latch_int[s])'
  <2>1. e.rob_idx \in L
    BY <1>5 DEF Latches
  <2>2. Loaded(e) /\ Stays(e.rob_idx)
    BY <1>4, <1>6, <1>9, <2>1
  <2>3. Loaded(e)'
    BY <1>0, <1>7, <2>2, LoadedStays
  <2> QED BY <1>10, <2>3
<1>12. \A t \in IntSlots : \/ Loaded(latch_int[t])'
                           \/ /\ latch_int'[t] = latch_int[t]
                              /\ latch_int[t].valid => latch_int[t].rob_idx \in L
  BY <1>8, <1>10, <1>11
<1> QED BY <1>0, <1>4, <1>6, <1>7, <1>8, <1>12, ValuesStay

(* The MUL latch is loaded with the arguments of its station. *)
LEMMA IssueMulValues ==
    ASSUME Known, Values, Serial, NEW s \in MulSlots, IssueMul(s) PROVE Values'
<1> USE Zenon
<1>0. TypeOK
  BY DEF Known, IInv
<1>1. Still /\ latch_int' = latch_int
  BY DEF IssueMul, Still, archVars, renameVars, robVars
<1>2. PICK k \in RsIdx : /\ OldestReady("MUL", k) /\ FreeStation(k)
                         /\ latch_mul' = [latch_mul EXCEPT ![s] = LatchFrom(k)]
  BY DEF IssueMul
<1>3. PICK eu \in EuTypes : eu = "MUL"
  BY DEF EuTypes
<1>4. /\ Loaded(LatchFrom(k)) /\ LatchFrom(k) \in Latches
      /\ eu = "MUL" => Inst(LatchFrom(k).rob_idx).op = "mul"
      /\ \A m \in RsIdx : Fed(rs[m])' \/ rs'[m] = rs[m]
  BY <1>2, <1>3, IssueFacts
<1>5. PICK L \in SUBSET RobIdx : L = RobIdx
  OBVIOUS
<1>6. (\A j \in L : Stays(j)) /\ CommittedValues'
  BY <1>0, <1>1, <1>5, StillStays DEF Values
<1>7. prog' = prog /\ csr' = csr /\ \A j \in RobIdx : rob'[j].valid /\ rob'[j].ready => j \in L
  BY <1>1, <1>5 DEF Still
<1>8. /\ \A m \in RsIdx : rs[m].rob_idx \in L
      /\ \A t \in MulSlots : latch_mul[t].rob_idx \in L
      /\ \A t \in IntSlots : latch_int'[t] = latch_int[t] /\ latch_int[t].rob_idx \in L
  BY <1>0, <1>1, <1>5 DEF TypeOK, RsEntries, Latches
<1>9. PICK e \in Latches : e = LatchFrom(k)
  BY <1>4
<1>10. latch_mul'[s] = e /\ \A t \in MulSlots : t # s => latch_mul'[t] = latch_mul[t]
  BY <1>0, <1>2, <1>9 DEF TypeOK
<1>11. (Loaded(latch_mul[s]) /\ (latch_mul[s].valid => Inst(latch_mul[s].rob_idx).op = "mul"))'
  <2>1. e.rob_idx \in L
    BY <1>5 DEF Latches
  <2>2. Loaded(e) /\ Stays(e.rob_idx) /\ Inst(e.rob_idx).op = "mul"
    BY <1>3, <1>4, <1>6, <1>9, <2>1
  <2>3. Loaded(e)' /\ Inst(e.rob_idx)' = Inst(e.rob_idx)
    BY <1>0, <1>7, <2>2, LoadedStays
  <2>4. (Loaded(e) /\ (e.valid => Inst(e.rob_idx).op = "mul"))'
    BY <2>2, <2>3
  <2> QED BY <1>10, <2>4
<1>12. \A t \in MulSlots :
          \/ (Loaded(latch_mul[t]) /\ (latch_mul[t].valid => Inst(latch_mul[t].rob_idx).op = "mul"))'
          \/ /\ latch_mul'[t] = latch_mul[t]
             /\ latch_mul[t].valid => latch_mul[t].rob_idx \in L
  BY <1>8, <1>10, <1>11
<1> QED BY <1>0, <1>4, <1>6, <1>7, <1>8, <1>12, ValuesStay
=============================================================================
