----------------------------- MODULE TrapProofs -----------------------------
(***************************************************************************)
(* Proofs about Trap, for every number of harts, entries and nested traps  *)
(* and every set of values the programs write: pmp_on_count is exact, and  *)
(* a trap that completes is transparent to the code it interrupted.        *)
(***************************************************************************)
EXTENDS Trap, FiniteSetTheorems, TLAPS

Hart == [csr : [Registers -> Nat], mstatus : SUBSET (0..14), priv : {USER, MACHINE},
         pmpcfg : [Entries -> Nat], pmpaddr : [AddrEntries -> Nat]]
Sim == [pmp_on_count : 0..255, state : {"RUNNING", "ABORT", "PANIC"}, bad : BOOLEAN,
        wild : BOOLEAN]
Frame == [gpr : 0..1, mcause : Nat, mstatus : SUBSET (0..14), mepc : Nat]
Past == [gpr : 0..1, epc : Nat, mie : BOOLEAN, priv : {USER, MACHINE}]

TypeOK == /\ hart \in [Harts -> Hart]
          /\ sim \in Sim
          /\ phase \in [Harts -> {"run", "entry", "saved", "return"}]
          /\ gpr \in [Harts -> 0..1]
          /\ frames \in [Harts -> Seq(Frame)]
          /\ before \in [Harts -> Seq(Past)]

(***************************************************************************)
(* What is kept of the traps a hart has pending.  The interrupt enable of  *)
(* the innermost one is in MPIE for as long as the handler runs at MACHINE *)
(* level; after a nested mret it runs at USER level, where its write of    *)
(* mepc ends the run before its own mret.                                  *)
(***************************************************************************)
Enable(h) == LET ms == hart[h].mstatus IN
             3 \notin ms /\ (7 \in ms <=> before[h][Len(before[h])].mie)

Depth(h) ==
  Len(before[h]) = Len(frames[h]) + (IF phase[h] \in {"entry", "return"} THEN 1 ELSE 0)
Stacked(h) ==
  /\ Depth(h)
  /\ \A i \in 1..Len(frames[h]) : /\ frames[h][i].gpr = before[h][i].gpr
                                  /\ frames[h][i].mepc = before[h][i].epc

Innermost(h) ==
  LET b == before[h][Len(before[h])] IN
  /\ phase[h] = "entry" =>
       gpr[h] = b.gpr /\ hart[h].csr["mepc"] = b.epc
  /\ phase[h] = "return" /\ sim.state = "RUNNING" =>
       /\ gpr[h] = b.gpr
       /\ hart[h].csr["mepc"] \in {Wrap(b.epc), Wrap(b.epc + 4)}
       /\ Enable(h)
  /\ phase[h] # "return" /\ Len(before[h]) > 0 /\ hart[h].priv = MACHINE => Enable(h)

TrapInv == TypeOK /\ \A h \in Harts : Stacked(h) /\ Innermost(h)

-----------------------------------------------------------------------------
(***************************************************************************)
(* set_csr: a refused write ends the run or, for a register that is not in *)
(* the table, changes nothing.                                             *)
(***************************************************************************)
LEMMA Refused ==
  ASSUME NEW x \in Hart, NEW s \in Sim, NEW no, NEW is_write
  PROVE  /\ priv_check(x, s, no, is_write) \in Sim
         /\ priv_check(x, s, no, is_write).wild = s.wild
         /\ priv_check(x, s, no, is_write).pmp_on_count = s.pmp_on_count
         /\ Allowed(x, no, is_write) => priv_check(x, s, no, is_write) = s
         /\ priv_check(x, s, no, is_write).state = "RUNNING" =>
              priv_check(x, s, no, is_write) = s /\ (no \in csr_table => Allowed(x, no, is_write))
  BY Zenon DEF priv_check, set_bad_abort, Sim

(***************************************************************************)
(* set_csr: the values stay in their types, and mstatus and the privilege  *)
(* level stay as they are whatever is written (a write of mstatus too).    *)
(***************************************************************************)
LEMMA BytesAreNat ==
  ASSUME NEW x, NEW data \in Nat
  PROVE  set_pmpcfg0(x, data) \in [Entries -> Nat]
<1>1. ASSUME NEW i \in Entries PROVE ByteAt(data, i) \in Nat
  <2>1. PICK p \in Nat \ {0} : p = 256^i
    BY PowersAssumption DEF Entries
  <2>2. data \div p \in Int
    OBVIOUS
  <2> QED BY <2>1, <2>2 DEF ByteAt
<1> QED BY <1>1 DEF set_pmpcfg0

\* The register a csrw names is stored; mepc and pmpcfg change only when they are
\* the one named, and mstatus and the level never.
LEMMA StoresLeaves ==
  ASSUME NEW x \in Hart, NEW no, NEW data \in Nat
  PROVE  /\ Stores(x, no, data) \in Hart
         /\ Stores(x, no, data).mstatus = x.mstatus
         /\ Stores(x, no, data).priv = x.priv
         /\ Stores(x, no, data).csr["mepc"] = (IF no = "mepc" THEN data ELSE x.csr["mepc"])
         /\ Stores(x, no, data).pmpcfg =
              (IF no = "pmpcfg0" THEN set_pmpcfg0(x, data) ELSE x.pmpcfg)
<1>1. set_pmpcfg0(x, data) \in [Entries -> Nat]
  BY BytesAreNat
<1> QED BY Zenon, <1>1 DEF Stores, Hart, Registers, Stored, MachineStored, SupervisorStored

\* pmp_on_count stays a byte, also when several entries turn on at once.
LEMMA CountsAreBytes ==
  ASSUME NEW x \in Hart, NEW count \in 0..255, NEW no, NEW data \in Nat
  PROVE  Counts(x, count, no, data) \subseteq 0..255
<1> DEFINE cfg == set_pmpcfg0(x, data)
           on  == {i \in DOMAIN cfg : is_pmp_on(cfg[i]) /\ ~is_pmp_on(x.pmpcfg[i])}
           off == {i \in DOMAIN cfg : ~is_pmp_on(cfg[i]) /\ is_pmp_on(x.pmpcfg[i])}
<1>1. IsFiniteSet(Entries)
  BY FS_Interval, CsrAssumption DEF Entries
<1>2. on \subseteq Entries /\ off \subseteq Entries
  BY DEF set_pmpcfg0
<1>3. Cardinality(on) \in Nat /\ Cardinality(off) \in Nat
  <2>1. IsFiniteSet(on) /\ IsFiniteSet(off)
    BY <1>1, <1>2, FS_Subset
  <2> QED BY <2>1, FS_CardinalityType
<1>4. set_pmpcfg_count(x.pmpcfg, cfg, count) = (count + Cardinality(on) - Cardinality(off)) % 256
  BY DEF set_pmpcfg_count
<1>5. set_pmpcfg_count(x.pmpcfg, cfg, count) \in 0..255
  <2> HIDE DEF on, off, cfg
  <2> QED BY <1>3, <1>4
<1>6. \A d \in (-PMP_NUMBER)..PMP_NUMBER : (count + d) % 256 \in 0..255
  BY CsrAssumption
<1> QED BY Zenon, <1>5, <1>6 DEF Counts

\* set_csr as a whole, the refused writes included.
LEMMA SetCsrLeaves ==
  ASSUME NEW x \in Hart, NEW s \in Sim, NEW no, NEW data \in Nat,
         NEW r \in set_csr(x, s, no, data)
  PROVE  /\ r[1] \in Hart
         /\ r[2] \in Sim
         /\ r[1].mstatus = x.mstatus
         /\ r[1].priv = x.priv
         /\ r[2].state = "RUNNING" => s.state = "RUNNING"
         /\ no # "mepc" => r[1].csr["mepc"] = x.csr["mepc"]
         /\ no = "mepc" /\ r[2].state = "RUNNING" => /\ r[1].csr["mepc"] = data
                                                     /\ x.priv = MACHINE
<1>1. CASE ~Allowed(x, no, TRUE)
  <2>1. r = <<x, priv_check(x, s, no, TRUE)>>
    BY Zenon, <1>1 DEF set_csr
  <2>2. no = "mepc" => no \in csr_table
    BY DEF csr_table, Registers, Stored, MachineStored
  <2> QED BY Zenon, <1>1, <2>1, <2>2, Refused
<1>2. CASE Allowed(x, no, TRUE)
  <2>1. PICK n \in Counts(x, s.pmp_on_count, no, data) :
          r = <<Stores(x, no, data), [s EXCEPT !.pmp_on_count = n, !.wild = @ \/ no = "pmpcfg2"]>>
    BY Zenon, <1>2 DEF set_csr
  <2>2. n \in 0..255
    <3>1. PICK c \in 0..255 : c = s.pmp_on_count
      BY DEF Sim
    <3> QED BY Zenon, <3>1, CountsAreBytes
  <2>3. r[2] \in Sim /\ r[2].state = s.state
    BY Zenon, <2>1, <2>2 DEF Sim
  <2>4. no = "mepc" => x.priv = MACHINE
    BY <1>2 DEF Allowed, Level, Hart, MACHINE, USER, SUPERVISOR, Counters, SupervisorStored
  <2> QED BY <2>1, <2>3, <2>4, StoresLeaves
<1> QED BY Zenon, <1>1, <1>2

\* A write of mstatus is not taken, and below MACHINE it ends the run.
LEMMA MstatusKept ==
  ASSUME NEW x \in Hart, NEW s \in Sim, NEW data, NEW r \in set_csr(x, s, "mstatus", data)
  PROVE  /\ r[1] = x
         /\ r[2] \in Sim
         /\ r[2].wild = s.wild
         /\ r[2].pmp_on_count = s.pmp_on_count
         /\ r[2].state = "RUNNING" => s.state = "RUNNING" /\ x.priv = MACHINE
<1>1. CASE ~Allowed(x, "mstatus", TRUE)
  <2>1. r = <<x, priv_check(x, s, "mstatus", TRUE)>>
    BY Zenon, <1>1 DEF set_csr
  <2>2. "mstatus" \in csr_table
    BY DEF csr_table
  <2> QED BY Zenon, <1>1, <2>1, <2>2, Refused
<1>2. CASE Allowed(x, "mstatus", TRUE)
  <2>1. PICK n \in Counts(x, s.pmp_on_count, "mstatus", data) :
          r = <<Stores(x, "mstatus", data),
                [s EXCEPT !.pmp_on_count = n, !.wild = @ \/ "mstatus" = "pmpcfg2"]>>
    BY Zenon, <1>2 DEF set_csr
  <2>2. n = s.pmp_on_count
    BY DEF Counts
  <2>3. r[2] = s
    BY Zenon, <2>1, <2>2 DEF Sim
  <2>4. Stores(x, "mstatus", data) = x
    BY Zenon DEF Stores, Hart, Registers, Stored, MachineStored, SupervisorStored, PmpAddr
  <2>5. x.priv = MACHINE
    BY <1>2 DEF Allowed, Level, Hart, MACHINE, USER, SUPERVISOR, Counters, SupervisorStored
  <2> QED BY Zenon, <2>1, <2>3, <2>4, <2>5
<1> QED BY Zenon, <1>1, <1>2

\* A read of a CSR can end the run and changes nothing else.
LEMMA ReadCsrLeaves ==
  ASSUME NEW x \in Hart, NEW s \in Sim, NEW no
  PROVE  /\ read_csr(x, s, no) \in Sim
         /\ read_csr(x, s, no).wild = s.wild
         /\ read_csr(x, s, no).pmp_on_count = s.pmp_on_count
<1>1. /\ priv_check(x, s, no, FALSE) \in Sim
      /\ priv_check(x, s, no, FALSE).wild = s.wild
      /\ priv_check(x, s, no, FALSE).pmp_on_count = s.pmp_on_count
  BY Zenon DEF priv_check, set_bad_abort, Sim
<1>2. PICK p \in Sim : p = priv_check(x, s, no, FALSE)
  BY Zenon, <1>1
<1>3. read_csr(x, s, no) =
        IF Allowed(x, no, FALSE) /\ no \notin Readable
        THEN [priv_check(x, s, no, FALSE) EXCEPT !.state = "PANIC"]
        ELSE priv_check(x, s, no, FALSE)
  BY Zenon DEF read_csr
<1>4. read_csr(x, s, no) = p \/ read_csr(x, s, no) = [p EXCEPT !.state = "PANIC"]
  BY <1>2, <1>3, Zenon
<1> QED BY Zenon, <1>1, <1>2, <1>4 DEF Sim

\* A refused access ends the run and changes nothing else.
LEMMA PmpCheckLeaves ==
  ASSUME NEW x \in Hart, NEW s \in Sim, NEW a, NEW e, NEW w
  PROVE  /\ pmp_check(x, s, a, e, w) \in Sim
         /\ pmp_check(x, s, a, e, w).wild = s.wild
         /\ pmp_check(x, s, a, e, w).pmp_on_count = s.pmp_on_count
  BY Zenon DEF pmp_check, set_bad_abort, Sim

-----------------------------------------------------------------------------
(***************************************************************************)
(* The pending traps of a hart are not touched by a step that leaves its   *)
(* phase, registers, frames, mepc, mstatus and level alone; a run that has *)
(* ended is not resumed.                                                   *)
(***************************************************************************)
Running == sim'.state = "RUNNING" => sim.state = "RUNNING"
SameCsr(g) == /\ hart'[g].csr["mepc"] = hart[g].csr["mepc"]
              /\ hart'[g].mstatus = hart[g].mstatus
              /\ hart'[g].priv = hart[g].priv
SameTraps(g) == frames'[g] = frames[g] /\ before'[g] = before[g]

\* The pending traps of hart g survive a step that touches none of its state.
LEMMA Untouched ==
  ASSUME NEW g \in Harts, Stacked(g), Innermost(g), Running, SameCsr(g), SameTraps(g),
         phase'[g] = phase[g], gpr'[g] = gpr[g]
  PROVE  Stacked(g)' /\ Innermost(g)'
<1>1. Stacked(g)'
  BY Zenon DEF Stacked, Depth, SameTraps
<1>2. Enable(g) => Enable(g)'
  BY DEF Enable, SameCsr, SameTraps
<1>3. Innermost(g)'
  BY <1>2 DEF Innermost, SameTraps, SameCsr, Running
<1> QED BY <1>1, <1>3

(***************************************************************************)
(* A step of hart h that goes through core_cycle.                          *)
(***************************************************************************)
LEMMA CycleTypes ==
  ASSUME TypeOK, NEW h \in Harts, NEW r, r[1] \in Hart, r[2] \in Sim, core_cycle(h, r)
  PROVE  /\ hart' \in [Harts -> Hart] /\ sim' = r[2] /\ sim' \in Sim
         /\ hart'[h] = r[1]
         /\ \A g \in Harts \ {h} : hart'[g] = hart[g]
  BY DEF TypeOK, core_cycle

\* csrw of any register but mepc: the handler is the only code that writes mepc.
LEMMA CsrwStep ==
  ASSUME TrapInv, NEW h \in Harts, NEW no, no # "mepc", NEW data \in Nat, Csrw(h, no, data)
  PROVE  TrapInv'
<1>1. PICK r \in set_csr(hart[h], sim, no, data) : core_cycle(h, r)
  BY DEF Csrw
<1>2. hart[h] \in Hart /\ sim \in Sim
  BY DEF TrapInv, TypeOK
<1>3. /\ r[1] \in Hart /\ r[2] \in Sim
      /\ r[1].mstatus = hart[h].mstatus /\ r[1].priv = hart[h].priv
      /\ r[1].csr["mepc"] = hart[h].csr["mepc"]
      /\ r[2].state = "RUNNING" => sim.state = "RUNNING"
  BY <1>1, <1>2, SetCsrLeaves
<1>4. /\ hart' \in [Harts -> Hart] /\ sim' = r[2] /\ sim' \in Sim
      /\ hart'[h] = r[1]
      /\ \A g \in Harts \ {h} : hart'[g] = hart[g]
  BY <1>1, <1>3, CycleTypes DEF TrapInv
<1>5. TypeOK'
  BY <1>4 DEF TrapInv, TypeOK, Csrw
<1>6. ASSUME NEW g \in Harts PROVE Stacked(g)' /\ Innermost(g)'
  <2>1. SameCsr(g) /\ Running
    BY <1>3, <1>4 DEF SameCsr, Running
  <2>2. SameTraps(g) /\ phase'[g] = phase[g] /\ gpr'[g] = gpr[g]
    BY DEF Csrw, SameTraps
  <2>3. Stacked(g) /\ Innermost(g)
    BY DEF TrapInv
  <2> QED BY <2>1, <2>2, <2>3, Untouched
<1> QED BY <1>5, <1>6 DEF TrapInv

\* A read of a CSR or of memory leaves the hart alone.
LEMMA QuietStep ==
  ASSUME TrapInv, NEW h \in Harts, NEW s \in Sim, sim.state = "RUNNING",
         core_cycle(h, <<hart[h], s>>), UNCHANGED <<phase, gpr, frames, before>>
  PROVE  TrapInv'
<1>1. hart[h] \in Hart
  BY DEF TrapInv, TypeOK
<1>2. hart' = hart /\ sim' \in Sim
  BY <1>1 DEF TrapInv, TypeOK, core_cycle
<1>3. TypeOK'
  BY <1>2 DEF TrapInv, TypeOK
<1>4. ASSUME NEW g \in Harts PROVE Stacked(g)' /\ Innermost(g)'
  <2>1. SameCsr(g) /\ Running /\ SameTraps(g) /\ phase'[g] = phase[g] /\ gpr'[g] = gpr[g]
    BY <1>2 DEF SameCsr, Running, SameTraps
  <2> QED BY <2>1, Untouched DEF TrapInv
<1> QED BY <1>3, <1>4 DEF TrapInv

\* The program computes on its registers while it is not in the trap stub.
LEMMA ComputeStep ==
  ASSUME TrapInv, NEW h \in Harts, Compute(h)
  PROVE  TrapInv'
<1>1. TypeOK'
  <2>1. gpr \in [Harts -> 0..1]
    BY DEF TrapInv, TypeOK
  <2>2. gpr' \in [Harts -> 0..1]
    <3>1. 1 - gpr[h] \in 0..1
      BY <2>1
    <3> QED BY <2>1, <3>1 DEF Compute
  <2> QED BY <2>2 DEF TrapInv, TypeOK, Compute
<1>2. ASSUME NEW g \in Harts PROVE Stacked(g)' /\ Innermost(g)'
  <2>1. SameCsr(g) /\ Running /\ SameTraps(g) /\ phase'[g] = phase[g]
    BY DEF SameCsr, Running, SameTraps, Compute
  <2>2. CASE g # h
    <3>1. gpr'[g] = gpr[g]
      BY <2>2 DEF Compute, TrapInv, TypeOK
    <3> QED BY <2>1, <3>1, Untouched DEF TrapInv
  <2>3. CASE g = h
    <3>1. phase[h] = "run" /\ phase'[h] = "run"
      BY DEF Compute, At
    <3>2. Stacked(h) /\ Innermost(h)
      BY DEF TrapInv
    <3>3. Stacked(h)'
      BY <2>1, <2>3, <3>1, <3>2 DEF Stacked, Depth, SameTraps
    <3>4. Enable(h) => Enable(h)'
      BY <2>1, <2>3 DEF Enable, SameCsr, SameTraps
    <3>5. Innermost(h)'
      BY <2>1, <2>3, <3>1, <3>2, <3>4 DEF Innermost, SameCsr, SameTraps
    <3> QED BY <2>3, <3>3, <3>5
  <2> QED BY <2>2, <2>3
<1> QED BY <1>1, <1>2 DEF TrapInv

\* A trap is taken: MIE goes to MPIE, and what it interrupts is pushed.
LEMMA TransferOfTrap ==
  ASSUME NEW x \in Hart, NEW epc \in Nat, NEW y,
         y = exception_priv_transfer(raise_intr(x, SYSCALL_FROM_M, epc))
  PROVE  /\ y \in Hart
         /\ y.priv = MACHINE
         /\ y.pmpcfg = x.pmpcfg
         /\ y.csr["mepc"] = epc
         /\ 3 \notin y.mstatus
         /\ 7 \in y.mstatus <=> 3 \in x.mstatus
<1> DEFINE c == [[x.csr EXCEPT !["mepc"] = epc] EXCEPT !["mcause"] = SYSCALL_FROM_M]
           z == raise_intr(x, SYSCALL_FROM_M, epc)
<1>1. c \in [Registers -> Nat] /\ c["mepc"] = epc
  BY DEF Hart, Registers, Stored, MachineStored, SYSCALL_FROM_M
<1>2. z = [x EXCEPT !.csr = c]
  BY Zenon DEF raise_intr, Hart
<1> HIDE DEF c, z
<1>8. z \in Hart /\ z.csr = c /\ z.mstatus = x.mstatus /\ z.pmpcfg = x.pmpcfg /\ z.priv = x.priv
  BY <1>1, <1>2 DEF Hart
<1> DEFINE ms == (z.mstatus \ {15, 16}) \cup LevelBits(z.priv)
           ns == ((ms \ {7}) \cup (IF 3 \in ms THEN {7} ELSE {})) \ {3}
<1>3. y = [z EXCEPT !.priv = MACHINE, !.mstatus = ns]
  BY DEF exception_priv_transfer, z
<1>4. LevelBits(z.priv) \subseteq {11, 12}
  BY DEF LevelBits
<1>5. ms \subseteq 0..14 /\ (3 \in ms <=> 3 \in z.mstatus)
  BY <1>8, <1>4 DEF Hart
<1>6. ns \subseteq 0..14 /\ 3 \notin ns /\ (7 \in ns <=> 3 \in z.mstatus)
  BY <1>5
<1> HIDE DEF ns
<1>7. y \in Hart /\ y.priv = MACHINE /\ y.pmpcfg = z.pmpcfg /\ y.csr = z.csr /\ y.mstatus = ns
  BY Zenon, <1>8, <1>3, <1>6 DEF Hart
<1> QED BY <1>1, <1>8, <1>6, <1>7

\* ecall pushes what the trap has to give back.
LEMMA EcallStep ==
  ASSUME TrapInv, NEW h \in Harts, NEW epc \in Nat, Ecall(h, epc)
  PROVE  TrapInv'
<1> DEFINE b == [gpr |-> gpr[h], epc |-> epc, mie |-> 3 \in hart[h].mstatus,
                 priv |-> hart[h].priv]
<1>1. hart[h] \in Hart /\ sim \in Sim /\ before[h] \in Seq(Past) /\ frames[h] \in Seq(Frame)
  BY DEF TrapInv, TypeOK
<1>11. PICK x \in Hart : x = hart[h]
  BY <1>1
<1>12. PICK y : y = exception_priv_transfer(raise_intr(x, SYSCALL_FROM_M, epc))
  OBVIOUS
<1>2. /\ y \in Hart /\ y.priv = MACHINE /\ y.csr["mepc"] = epc
      /\ 3 \notin y.mstatus /\ (7 \in y.mstatus <=> 3 \in hart[h].mstatus)
  <2>1. /\ y \in Hart /\ y.priv = MACHINE /\ y.csr["mepc"] = epc
        /\ 3 \notin y.mstatus /\ (7 \in y.mstatus <=> 3 \in x.mstatus)
    BY <1>12, TransferOfTrap
  <2> QED BY <2>1, <1>11
<1>3. core_cycle(h, <<y, sim>>)
  BY <1>11, <1>12 DEF Ecall
<1>4. /\ hart' \in [Harts -> Hart] /\ sim' = sim /\ hart'[h] = y
      /\ \A g \in Harts \ {h} : hart'[g] = hart[g]
  BY <1>1, <1>2, <1>3, CycleTypes DEF TrapInv
<1>5. b \in Past
  <2>1. gpr[h] \in 0..1 /\ hart[h].priv \in {USER, MACHINE}
    BY <1>1 DEF Hart, TrapInv, TypeOK
  <2> QED BY <2>1 DEF Past
<1>6. before' = [before EXCEPT ![h] = Append(@, b)]
  BY DEF Ecall
<1> HIDE DEF b
<1>7. before'[h] = Append(before[h], b) /\ before' \in [Harts -> Seq(Past)]
  BY <1>1, <1>5, <1>6 DEF TrapInv, TypeOK
<1>8. /\ phase[h] = "run" /\ phase'[h] = "entry"
      /\ \A g \in Harts \ {h} : phase'[g] = phase[g] /\ before'[g] = before[g]
      /\ phase' \in [Harts -> {"run", "entry", "saved", "return"}]
      /\ frames' = frames /\ gpr' = gpr
  BY <1>6 DEF Ecall, At, Go, TrapInv, TypeOK
<1>9. TypeOK'
  BY <1>4, <1>7, <1>8 DEF TrapInv, TypeOK
<1>10. ASSUME NEW g \in Harts PROVE Stacked(g)' /\ Innermost(g)'
  <2>1. Stacked(g) /\ Innermost(g)
    BY DEF TrapInv
  <2>2. CASE g # h
    <3>1. SameCsr(g) /\ Running /\ SameTraps(g) /\ phase'[g] = phase[g] /\ gpr'[g] = gpr[g]
      BY <1>4, <1>8, <2>2 DEF SameCsr, Running, SameTraps
    <3> QED BY <2>1, <3>1, Untouched
  <2>3. CASE g = h
    <3>1. Len(before[h]) = Len(frames[h]) /\ Len(before[h]) \in Nat
      <4>1. Depth(h) /\ phase[h] = "run"
        BY <1>8, <2>1, <2>3 DEF Stacked
      <4>2. Len(before[h]) \in Nat /\ Len(frames[h]) \in Nat
        BY <1>1
      <4> QED BY <4>1, <4>2 DEF Depth
    <3>2. /\ Len(before'[h]) = Len(before[h]) + 1
          /\ before'[h][Len(before'[h])] = b
          /\ \A i \in 1..Len(before[h]) : before'[h][i] = before[h][i]
      BY <1>1, <1>5, <1>7
    <3>3. Stacked(h)'
      BY <1>8, <2>1, <2>3, <3>1, <3>2 DEF Stacked, Depth
    <3>4. b.gpr = gpr[h] /\ b.epc = epc /\ (b.mie <=> 3 \in hart[h].mstatus)
      BY Zenon DEF b
    <3>5. Enable(h)'
      BY <1>2, <1>4, <3>2, <3>4 DEF Enable
    <3>6. Innermost(h)'
      BY <1>2, <1>4, <1>8, <3>2, <3>4, <3>5 DEF Innermost
    <3> QED BY <2>3, <3>3, <3>6
  <2> QED BY <2>2, <2>3
<1> QED BY <1>9, <1>10 DEF TrapInv

\* __am_asm_trap pushes the frame of the trap that was just taken.
LEMMA SaveStep ==
  ASSUME TrapInv, NEW h \in Harts, Save(h)
  PROVE  TrapInv'
<1> DEFINE f == [gpr |-> gpr[h], mcause |-> hart[h].csr["mcause"],
                 mstatus |-> hart[h].mstatus, mepc |-> hart[h].csr["mepc"]]
<1>1. hart[h] \in Hart /\ before[h] \in Seq(Past) /\ frames[h] \in Seq(Frame)
  BY DEF TrapInv, TypeOK
<1>2. f \in Frame
  <2>1. gpr[h] \in 0..1
    BY DEF TrapInv, TypeOK
  <2>2. hart[h].csr["mcause"] \in Nat /\ hart[h].csr["mepc"] \in Nat
    <3>1. hart[h].csr \in [Registers -> Nat]
      BY <1>1 DEF Hart
    <3>2. "mcause" \in Registers /\ "mepc" \in Registers
      BY DEF Registers, Stored, MachineStored
    <3> QED BY <3>1, <3>2
  <2>3. hart[h].mstatus \in SUBSET (0..14)
    BY Zenon, <1>1 DEF Hart
  <2> QED BY <2>1, <2>2, <2>3 DEF Frame
<1>3. frames' = [frames EXCEPT ![h] = Append(@, f)]
  BY DEF Save
<1>4. f.gpr = gpr[h] /\ f.mepc = hart[h].csr["mepc"]
  OBVIOUS
<1> HIDE DEF f
<1>5. frames'[h] = Append(frames[h], f) /\ frames' \in [Harts -> Seq(Frame)]
  BY <1>1, <1>2, <1>3 DEF TrapInv, TypeOK
<1>6. /\ phase[h] = "entry" /\ phase'[h] = "saved"
      /\ \A g \in Harts \ {h} : phase'[g] = phase[g] /\ frames'[g] = frames[g]
      /\ phase' \in [Harts -> {"run", "entry", "saved", "return"}]
      /\ UNCHANGED <<hart, sim, gpr, before>>
  BY <1>3 DEF Save, At, Go, TrapInv, TypeOK
<1>7. TypeOK'
  BY <1>5, <1>6 DEF TrapInv, TypeOK
<1>8. ASSUME NEW g \in Harts PROVE Stacked(g)' /\ Innermost(g)'
  <2>1. Stacked(g) /\ Innermost(g)
    BY DEF TrapInv
  <2>2. CASE g # h
    <3>1. SameCsr(g) /\ Running /\ SameTraps(g) /\ phase'[g] = phase[g] /\ gpr'[g] = gpr[g]
      BY <1>6, <2>2 DEF SameCsr, Running, SameTraps
    <3> QED BY <2>1, <3>1, Untouched
  <2>3. CASE g = h
    <3>1. Len(before[h]) = Len(frames[h]) + 1 /\ Len(frames[h]) \in Nat
      <4>1. Depth(h) /\ phase[h] = "entry"
        BY <1>6, <2>1, <2>3 DEF Stacked
      <4>2. Len(before[h]) \in Nat /\ Len(frames[h]) \in Nat
        BY <1>1
      <4> QED BY <4>1, <4>2 DEF Depth
    <3>2. /\ Len(frames'[h]) = Len(frames[h]) + 1
          /\ frames'[h][Len(frames'[h])] = f
          /\ \A i \in 1..Len(frames[h]) : frames'[h][i] = frames[h][i]
      BY <1>1, <1>2, <1>5
    <3>3. /\ gpr[h] = before[h][Len(before[h])].gpr
          /\ hart[h].csr["mepc"] = before[h][Len(before[h])].epc
      BY <1>6, <2>1, <2>3 DEF Innermost
    <3>4. Stacked(h)'
      <4>1. Depth(h)'
        BY <1>6, <3>1, <3>2 DEF Depth
      <4>2. ASSUME NEW i \in 1..Len(frames'[h])
            PROVE  frames'[h][i].gpr = before[h][i].gpr /\ frames'[h][i].mepc = before[h][i].epc
        <5>1. CASE i = Len(frames'[h])
          BY <1>4, <3>1, <3>2, <3>3, <5>1
        <5>2. CASE i # Len(frames'[h])
          <6>1. i \in 1..Len(frames[h])
            BY <3>1, <3>2, <5>2
          <6> QED BY <2>1, <2>3, <3>2, <6>1 DEF Stacked
        <5> QED BY <5>1, <5>2
      <4> QED BY <1>6, <4>1, <4>2 DEF Stacked
    <3>5. Enable(h) => Enable(h)'
      BY <1>6 DEF Enable
    <3>6. Innermost(h)'
      BY <1>6, <2>1, <2>3, <3>5 DEF Innermost
    <3> QED BY <2>3, <3>4, <3>6
  <2> QED BY <2>2, <2>3
<1> QED BY <1>7, <1>8 DEF TrapInv

\* The handler is called; its write of mstatus is not taken.
LEMMA HandleStep ==
  ASSUME TrapInv, NEW h \in Harts, Handle(h)
  PROVE  TrapInv'
<1>1. hart[h] \in Hart /\ sim \in Sim
  BY DEF TrapInv, TypeOK
<1>2. PICK r \in set_csr(hart[h], sim, "mstatus", Word(hart[h].mstatus)) : core_cycle(h, r)
  BY DEF Handle
<1>3. r[1] = hart[h] /\ r[2] \in Sim /\ (r[2].state = "RUNNING" => sim.state = "RUNNING")
  BY <1>1, <1>2, MstatusKept
<1>4. hart' = hart /\ sim' = r[2]
  BY <1>2, <1>3 DEF core_cycle, TrapInv, TypeOK
<1>5. /\ phase[h] = "saved" /\ phase'[h] = "run"
      /\ \A g \in Harts \ {h} : phase'[g] = phase[g]
      /\ phase' \in [Harts -> {"run", "entry", "saved", "return"}]
      /\ UNCHANGED <<gpr, frames, before>>
  BY DEF Handle, At, Go, TrapInv, TypeOK
<1>6. TypeOK'
  BY <1>3, <1>4, <1>5 DEF TrapInv, TypeOK
<1>7. ASSUME NEW g \in Harts PROVE Stacked(g)' /\ Innermost(g)'
  <2>1. Stacked(g) /\ Innermost(g)
    BY DEF TrapInv
  <2>2. SameCsr(g) /\ Running /\ SameTraps(g) /\ gpr'[g] = gpr[g]
    BY <1>3, <1>4, <1>5 DEF SameCsr, Running, SameTraps
  <2>3. CASE g # h
    BY <1>5, <2>1, <2>2, <2>3, Untouched
  <2>4. CASE g = h
    <3>1. Stacked(h)'
      BY Zenon, <1>5, <2>1, <2>4 DEF Stacked, Depth
    <3>2. Enable(h) => Enable(h)'
      BY <1>4, <1>5 DEF Enable
    <3>3. Innermost(h)'
      BY <1>4, <1>5, <2>1, <2>4, <3>2 DEF Innermost
    <3> QED BY <2>4, <3>1, <3>3
  <2> QED BY <2>3, <2>4
<1> QED BY <1>6, <1>7 DEF TrapInv

\* An address of XLEN bits is a number.
LEMMA WrapIsNat ==
  ASSUME NEW n \in Nat
  PROVE  Wrap(n) \in Nat
<1>1. PICK m \in Nat \ {0} : m = 2^XLEN
  BY PowersAssumption
<1>2. n % m \in Nat
  OBVIOUS
<1> QED BY <1>1, <1>2 DEF Wrap

\* The handler returns: the registers of the innermost frame are popped.
LEMMA RestoreStep ==
  ASSUME TrapInv, NEW h \in Harts, Restore(h)
  PROVE  TrapInv'
<1>1. hart[h] \in Hart /\ sim \in Sim /\ before[h] \in Seq(Past) /\ frames[h] \in Seq(Frame)
  BY DEF TrapInv, TypeOK
<1>2. PICK n : n = Len(frames[h])
  BY Zenon
<1>3. n \in Nat \ {0} /\ phase[h] = "run" /\ frames[h][n] \in Frame
  <2>1. frames[h] # << >> /\ phase[h] = "run"
    BY DEF Restore, At
  <2> QED BY <1>1, <1>2, <2>1
<1>4. PICK f \in Frame : f = frames[h][n]
  BY <1>3
<1>5. PICK skip \in {0, 4} :
        \E r \in set_csr(hart[h], sim, "mstatus", Word(f.mstatus)) :
        \E q \in set_csr(r[1], r[2], "mepc", Wrap(f.mepc + skip)) :
          /\ core_cycle(h, q)
          /\ gpr' = [gpr EXCEPT ![h] = f.gpr]
          /\ frames' = [frames EXCEPT ![h] = SubSeq(@, 1, Len(@) - 1)]
  BY <1>2, <1>4 DEF Restore
<1>6. PICK r \in set_csr(hart[h], sim, "mstatus", Word(f.mstatus)) :
        \E q \in set_csr(r[1], r[2], "mepc", Wrap(f.mepc + skip)) : core_cycle(h, q)
  BY <1>5
<1>7. r[1] = hart[h] /\ r[2] \in Sim /\ (r[2].state = "RUNNING" => sim.state = "RUNNING")
  BY <1>1, <1>6, MstatusKept
<1>8. PICK q \in set_csr(r[1], r[2], "mepc", Wrap(f.mepc + skip)) : core_cycle(h, q)
  BY <1>6
<1>9. Wrap(f.mepc + skip) \in Nat
  <2>1. f.mepc \in Nat
    BY DEF Frame
  <2>2. f.mepc + skip \in Nat
    BY <2>1
  <2> QED BY <2>2, WrapIsNat
<1>10. /\ q[1] \in Hart /\ q[2] \in Sim
       /\ q[1].mstatus = hart[h].mstatus /\ q[1].priv = hart[h].priv
       /\ q[2].state = "RUNNING" => /\ sim.state = "RUNNING"
                                    /\ q[1].csr["mepc"] = Wrap(f.mepc + skip)
                                    /\ hart[h].priv = MACHINE
  <2>1. PICK x \in Hart : x = r[1]
    BY <1>1, <1>7
  <2>2. PICK s \in Sim : s = r[2]
    BY <1>7
  <2>3. PICK v \in Nat : v = Wrap(f.mepc + skip)
    BY <1>9
  <2>4. q \in set_csr(x, s, "mepc", v)
    BY <1>8, <2>1, <2>2, <2>3
  <2>5. /\ q[1] \in Hart /\ q[2] \in Sim
        /\ q[1].mstatus = x.mstatus /\ q[1].priv = x.priv
        /\ q[2].state = "RUNNING" => s.state = "RUNNING"
        /\ q[2].state = "RUNNING" => q[1].csr["mepc"] = v /\ x.priv = MACHINE
    BY <2>4, SetCsrLeaves
  <2> QED BY <1>7, <2>1, <2>2, <2>3, <2>5
<1>11. /\ hart' \in [Harts -> Hart] /\ sim' = q[2] /\ sim' \in Sim /\ hart'[h] = q[1]
       /\ \A g \in Harts \ {h} : hart'[g] = hart[g]
  BY <1>8, <1>10, CycleTypes DEF TrapInv
<1>12. frames'[h] = SubSeq(frames[h], 1, n - 1) /\ frames' \in [Harts -> Seq(Frame)]
  <2>1. SubSeq(frames[h], 1, n - 1) \in Seq(Frame)
    BY <1>1, <1>2, <1>3
  <2> QED BY <1>2, <1>5, <2>1 DEF TrapInv, TypeOK
<1>13. gpr'[h] = f.gpr /\ gpr' \in [Harts -> 0..1]
  BY <1>5 DEF Frame, TrapInv, TypeOK
<1>14. /\ phase'[h] = "return"
       /\ \A g \in Harts \ {h} : /\ phase'[g] = phase[g] /\ frames'[g] = frames[g]
                                 /\ gpr'[g] = gpr[g]
       /\ phase' \in [Harts -> {"run", "entry", "saved", "return"}]
       /\ before' = before
  BY <1>5 DEF Restore, Go, TrapInv, TypeOK
<1>15. TypeOK'
  BY <1>11, <1>12, <1>13, <1>14 DEF TrapInv, TypeOK
<1>16. ASSUME NEW g \in Harts PROVE Stacked(g)' /\ Innermost(g)'
  <2>1. Stacked(g) /\ Innermost(g)
    BY DEF TrapInv
  <2>2. CASE g # h
    <3>1. SameCsr(g) /\ Running /\ SameTraps(g) /\ phase'[g] = phase[g] /\ gpr'[g] = gpr[g]
      BY <1>10, <1>11, <1>14, <2>2 DEF SameCsr, Running, SameTraps
    <3> QED BY <2>1, <3>1, Untouched
  <2>3. CASE g = h
    <3>1. Len(before[h]) = n
      <4>1. Depth(h)
        BY <2>1, <2>3 DEF Stacked
      <4> QED BY <1>2, <1>3, <4>1 DEF Depth
    <3>2. f.gpr = before[h][n].gpr /\ f.mepc = before[h][n].epc
      BY <1>2, <1>3, <1>4, <2>1, <2>3 DEF Stacked
    <3>3. /\ Len(frames'[h]) = n - 1
          /\ \A i \in 1..(n - 1) : frames'[h][i] = frames[h][i]
      BY <1>1, <1>2, <1>3, <1>12
    <3>4. Stacked(h)'
      <4>1. Depth(h)'
        BY <1>3, <1>14, <3>1, <3>3 DEF Depth
      <4>2. \A i \in 1..(n - 1) : i \in 1..Len(frames[h])
        BY <1>2, <1>3
      <4> QED BY <1>14, <2>1, <2>3, <3>3, <4>1, <4>2 DEF Stacked
    <3>5. sim'.state = "RUNNING" => Enable(h)'
      <4>1. sim'.state = "RUNNING" => Enable(h)
        BY <1>3, <1>10, <1>11, <2>1, <2>3, <3>1 DEF Innermost
      <4> QED BY <1>10, <1>11, <1>14, <4>1 DEF Enable
    <3>6. sim'.state = "RUNNING" =>
            hart'[h].csr["mepc"] \in {Wrap(before[h][n].epc), Wrap(before[h][n].epc + 4)}
      <4>1. f.mepc \in Nat
        BY DEF Frame
      <4>2. f.mepc + skip = f.mepc \/ f.mepc + skip = f.mepc + 4
        BY <4>1
      <4> QED BY <1>10, <1>11, <3>2, <4>2
    <3>7. Innermost(h)'
      BY <1>13, <1>14, <3>1, <3>2, <3>5, <3>6 DEF Innermost
    <3> QED BY <2>3, <3>4, <3>7
  <2> QED BY <2>2, <2>3
<1> QED BY <1>15, <1>16 DEF TrapInv

\* mret: MPIE goes back to MIE; bits 15 and 16 are never set, so the level
\* becomes USER.
LEMMA TransferOfMret ==
  ASSUME NEW x \in Hart, NEW y, y = mret_priv_transfer(x)
  PROVE  /\ y \in Hart
         /\ y.priv = USER
         /\ y.pmpcfg = x.pmpcfg
         /\ y.csr = x.csr
         /\ 3 \notin x.mstatus => (3 \in y.mstatus <=> 7 \in x.mstatus)
<1> DEFINE ms == x.mstatus \ {15, 16}
           ns == (ms \ {7}) \cup (IF 7 \in ms THEN {3} ELSE {}) \cup {7}
<1>1. 15 \notin x.mstatus /\ 16 \notin x.mstatus /\ x.mstatus \subseteq 0..14
  BY DEF Hart
<1>2. y = [x EXCEPT !.priv = 0, !.mstatus = ns]
  BY <1>1 DEF mret_priv_transfer, Hart
<1>3. ns \subseteq 0..14 /\ (3 \notin x.mstatus => (3 \in ns <=> 7 \in x.mstatus))
  BY <1>1
<1> HIDE DEF ns
<1>4. /\ y \in Hart /\ y.priv = USER /\ y.pmpcfg = x.pmpcfg /\ y.csr = x.csr
      /\ y.mstatus = ns
  BY Zenon, <1>2, <1>3 DEF Hart, USER
<1> QED BY <1>3, <1>4

\* mret pops the innermost trap, and the trap below it becomes the innermost.
LEMMA MretStep ==
  ASSUME TrapInv, NEW h \in Harts, Mret(h)
  PROVE  TrapInv'
<1>1. hart[h] \in Hart /\ sim \in Sim /\ before[h] \in Seq(Past) /\ frames[h] \in Seq(Frame)
  BY DEF TrapInv, TypeOK
<1>2. PICK x \in Hart : x = hart[h]
  BY <1>1
<1>3. PICK y : y = mret_priv_transfer(x)
  OBVIOUS
<1>4. y \in Hart /\ y.priv = USER
  BY <1>3, TransferOfMret
<1>5. read_csr(hart[h], sim, "mepc") \in Sim
  BY <1>1, ReadCsrLeaves
<1>6. core_cycle(h, <<y, read_csr(hart[h], sim, "mepc")>>)
  BY <1>2, <1>3 DEF Mret
<1>7. /\ hart' \in [Harts -> Hart] /\ sim' \in Sim /\ hart'[h] = y
      /\ \A g \in Harts \ {h} : hart'[g] = hart[g]
  BY <1>4, <1>5, <1>6, CycleTypes DEF TrapInv
<1>8. /\ phase[h] = "return" /\ phase'[h] = "run" /\ sim.state = "RUNNING"
      /\ \A g \in Harts \ {h} : phase'[g] = phase[g] /\ before'[g] = before[g]
      /\ phase' \in [Harts -> {"run", "entry", "saved", "return"}]
      /\ UNCHANGED <<gpr, frames>>
      /\ before'[h] = SubSeq(before[h], 1, Len(before[h]) - 1)
  BY DEF Mret, At, Go, TrapInv, TypeOK
<1>9. Len(before[h]) = Len(frames[h]) + 1 /\ Len(frames[h]) \in Nat
  <2>1. Depth(h)
    BY DEF TrapInv, Stacked
  <2>2. Len(before[h]) \in Nat /\ Len(frames[h]) \in Nat
    BY <1>1
  <2> QED BY <1>8, <2>1, <2>2 DEF Depth
<1>10. before'[h] \in Seq(Past)
  BY <1>1, <1>8, <1>9
<1>11. before' \in [Harts -> Seq(Past)]
  BY <1>10 DEF Mret, TrapInv, TypeOK
<1>12. TypeOK'
  BY <1>7, <1>8, <1>11 DEF TrapInv, TypeOK
<1>13. ASSUME NEW g \in Harts PROVE Stacked(g)' /\ Innermost(g)'
  <2>1. Stacked(g) /\ Innermost(g)
    BY DEF TrapInv
  <2>2. CASE g # h
    <3>1. SameCsr(g) /\ Running /\ SameTraps(g) /\ phase'[g] = phase[g] /\ gpr'[g] = gpr[g]
      BY <1>7, <1>8, <2>2 DEF SameCsr, Running, SameTraps
    <3> QED BY <2>1, <3>1, Untouched
  <2>3. CASE g = h
    <3>1. /\ Len(before'[h]) = Len(frames[h])
          /\ \A i \in 1..Len(frames[h]) : before'[h][i] = before[h][i]
      BY <1>1, <1>8, <1>9
    <3>2. Stacked(h)'
      <4>1. Depth(h)'
        BY <1>8, <1>9, <3>1 DEF Depth
      <4> QED BY <1>8, <2>1, <2>3, <3>1, <4>1 DEF Stacked
    <3>3. Innermost(h)'
      BY <1>4, <1>7, <1>8 DEF Innermost, USER, MACHINE
    <3> QED BY <2>3, <3>2, <3>3
  <2> QED BY <2>2, <2>3
<1> QED BY <1>12, <1>13 DEF TrapInv

-----------------------------------------------------------------------------
(***************************************************************************)
(* The pending traps of every hart keep what they interrupted, at every    *)
(* depth of nesting.                                                       *)
(***************************************************************************)
LEMMA TrapInvInit == Init => TrapInv
<1> SUFFICES ASSUME Init PROVE TrapInv
  OBVIOUS
<1>1. CsrInit \in Hart
  BY DEF CsrInit, Hart, MACHINE
<1>2. SimInit \in Sim
  BY DEF SimInit, Sim
<1>3. TypeOK
  BY <1>1, <1>2 DEF Init, TypeOK, core_create
<1>4. ASSUME NEW h \in Harts PROVE Stacked(h) /\ Innermost(h)
  BY DEF Init, Stacked, Depth, Innermost
<1> QED BY <1>3, <1>4 DEF TrapInv

\* Every step of every hart preserves the inductive invariant.
LEMMA TrapInvStep == TrapInv /\ [Next]_vars => TrapInv'
<1> SUFFICES ASSUME TrapInv, [Next]_vars PROVE TrapInv'
  OBVIOUS
<1>1. CASE UNCHANGED vars
  <2>1. TypeOK'
    BY <1>1 DEF vars, TrapInv, TypeOK
  <2>2. ASSUME NEW g \in Harts PROVE Stacked(g)' /\ Innermost(g)'
    BY Zenon, <1>1 DEF vars, TrapInv, Stacked, Depth, Innermost, Enable
  <2> QED BY <2>1, <2>2 DEF TrapInv
<1>2. ASSUME NEW h \in Harts, NEW p \in Programs(h), Csrw(h, p.no, p.data)
      PROVE  TrapInv'
  <2>1. p.no # "mepc" /\ p.data \in Nat
    BY <1>2, TrapAssumption DEF Programs
  <2> QED BY <1>2, <2>1, CsrwStep
<1>3. ASSUME NEW h \in Harts, NEW no, Csrr(h, no)
      PROVE  TrapInv'
  <2>1. hart[h] \in Hart /\ sim \in Sim
    BY DEF TrapInv, TypeOK
  <2>2. read_csr(hart[h], sim, no) \in Sim
    BY <2>1, ReadCsrLeaves
  <2> QED BY <1>3, <2>2, QuietStep DEF Csrr, At
<1>4. ASSUME NEW h \in Harts, NEW a, NEW e, NEW w, Access(h, a, e, w)
      PROVE  TrapInv'
  <2>1. hart[h] \in Hart /\ sim \in Sim
    BY DEF TrapInv, TypeOK
  <2>2. pmp_check(hart[h], sim, a, e, w) \in Sim
    BY <2>1, PmpCheckLeaves
  <2> QED BY <1>4, <2>2, QuietStep DEF Access, At
<1>5. ASSUME NEW h \in Harts, Ecall(h, Epc(h))
      PROVE  TrapInv'
  <2>1. Epc(h) \in Nat
    BY DEF Epc, TrapInv, TypeOK
  <2>2. PICK epc \in Nat : epc = Epc(h)
    BY <2>1
  <2> QED BY <1>5, <2>2, EcallStep
<1> QED BY <1>1, <1>2, <1>3, <1>4, <1>5, ComputeStep, SaveStep, HandleStep, RestoreStep,
           MretStep DEF Next

\* On each hart the frames of __am_asm_trap, the traps pending and the enable bit MPIE
\* agree, whatever the harts do: for any number of harts and any nesting.
THEOREM TrapsStacked == Spec => []TrapInv
  BY TrapInvInit, TrapInvStep, PTL DEF Spec

(***************************************************************************)
(* A trap whose mret completes is transparent: the registers, the enable   *)
(* and the return address are those of the ecall, however deep the traps   *)
(* nest and whatever the other harts do.                                   *)
(***************************************************************************)
LEMMA OnlyMretPops == TrapInv /\ [Next]_vars => [Transparent]_vars
<1> SUFFICES ASSUME TrapInv, Next PROVE Transparent
  OBVIOUS
<1>1. SUFFICES ASSUME NEW h \in Harts, Len(before'[h]) < Len(before[h])
               PROVE  LET b == before[h][Len(before[h])] IN
                      /\ gpr'[h] = b.gpr
                      /\ 3 \in hart'[h].mstatus <=> b.mie
                      /\ hart'[h].csr["mepc"] \in {Wrap(b.epc), Wrap(b.epc + 4)}
  BY DEF Transparent
<1>2. hart[h] \in Hart /\ before[h] \in Seq(Past) /\ Len(before[h]) \in Nat
  BY DEF TrapInv, TypeOK
<1>3. before' # before
  BY <1>1, <1>2
<1>4. ASSUME NEW g \in Harts, Ecall(g, Epc(g)) PROVE FALSE
  <2>1. PICK b : before' = [before EXCEPT ![g] = Append(@, b)]
    BY Zenon, <1>4 DEF Ecall
  <2>2. before[g] \in Seq(Past) /\ Len(before[g]) \in Nat
    BY DEF TrapInv, TypeOK
  <2>3. before'[h] = before[h] \/ before'[h] = Append(before[h], b)
    BY <2>1 DEF TrapInv, TypeOK
  <2>4. Len(Append(before[h], b)) = Len(before[h]) + 1
    BY <1>2
  <2> QED BY <1>1, <1>2, <2>3, <2>4
<1>5. PICK g \in Harts : Mret(g)
  BY Zenon, <1>3, <1>4 DEF Next, Csrw, Csrr, Access, Compute, Save, Handle, Restore
<1>6. g = h
  BY <1>1, <1>2, <1>5 DEF Mret, TrapInv, TypeOK
<1>7. phase[h] = "return" /\ sim.state = "RUNNING" /\ gpr' = gpr
  BY <1>5, <1>6 DEF Mret, At
<1>8. PICK x \in Hart : x = hart[h]
  BY <1>2
<1>9. PICK y : y = mret_priv_transfer(x)
  OBVIOUS
<1>10. hart'[h] = y
  BY <1>5, <1>6, <1>8, <1>9 DEF Mret, core_cycle, TrapInv, TypeOK
<1>11. y.csr = x.csr /\ (3 \notin x.mstatus => (3 \in y.mstatus <=> 7 \in x.mstatus))
  BY <1>9, TransferOfMret
<1>12. Innermost(h)
  BY DEF TrapInv
<1> QED BY <1>7, <1>8, <1>10, <1>11, <1>12 DEF Innermost, Enable

\* A trap whose mret completes gives the registers, MIE and the return address back to
\* the code it interrupted, for any number of harts and any nesting.
THEOREM TrapsTransparent == Spec => TrapTransparent
  BY TrapsStacked, OnlyMretPops, PTL DEF Spec, TrapTransparent

-----------------------------------------------------------------------------
(***************************************************************************)
(* pmp_on_count.  A write of pmpcfg0 by one hart turns entries of that     *)
(* hart on and off; the set of active entries changes by as many.          *)
(***************************************************************************)
LEMMA FewEntries ==
  ASSUME NEW A \in SUBSET (Harts \X Entries)
  PROVE  IsFiniteSet(A) /\ Cardinality(A) \in 0..255
<1>1. IsFiniteSet(Entries) /\ Cardinality(Entries) = PMP_NUMBER
  BY FS_Interval, CsrAssumption DEF Entries
<1>2. IsFiniteSet(Harts) /\ Cardinality(Harts) * PMP_NUMBER < 256
  BY TrapAssumption
<1>3. /\ IsFiniteSet(Harts \X Entries)
      /\ Cardinality(Harts \X Entries) = Cardinality(Harts) * Cardinality(Entries)
  BY <1>1, <1>2, FS_Product
<1>4. IsFiniteSet(A) /\ Cardinality(A) <= Cardinality(Harts \X Entries)
  BY <1>3, FS_Subset
<1>5. Cardinality(A) \in Nat /\ Cardinality(Harts \X Entries) \in Nat
  BY <1>3, <1>4, FS_CardinalityType
<1>6. Cardinality(Harts \X Entries) < 256
  BY <1>1, <1>2, <1>3
<1> QED BY <1>4, <1>5, <1>6

\* The entries of one hart are as many as their indices.
LEMMA OneColumn ==
  ASSUME NEW h \in Harts, NEW S \in SUBSET Entries
  PROVE  /\ IsFiniteSet({h} \X S) /\ IsFiniteSet(S)
         /\ Cardinality({h} \X S) = Cardinality(S)
         /\ Cardinality(S) \in Nat
<1>1. IsFiniteSet(Entries)
  BY FS_Interval, CsrAssumption DEF Entries
<1>2. IsFiniteSet(S)
  BY <1>1, FS_Subset
<1>3. IsFiniteSet({h}) /\ Cardinality({h}) = 1
  BY Zenon, FS_Singleton
<1>4. IsFiniteSet({h} \X S) /\ Cardinality({h} \X S) = Cardinality({h}) * Cardinality(S)
  BY <1>2, <1>3, FS_Product
<1>5. Cardinality(S) \in Nat
  BY <1>2, FS_CardinalityType
<1> QED BY <1>2, <1>3, <1>4, <1>5

\* Turning On on and Off off changes the number of active entries by the difference.
LEMMA SwapEntries ==
  ASSUME NEW h \in Harts, NEW A \in SUBSET (Harts \X Entries),
         NEW On \in SUBSET Entries, NEW Off \in SUBSET Entries,
         \A i \in On : <<h, i>> \notin A, \A i \in Off : <<h, i>> \in A
  PROVE  Cardinality((A \ ({h} \X Off)) \cup ({h} \X On))
           = Cardinality(A) - Cardinality(Off) + Cardinality(On)
<1> DEFINE X == {h} \X Off
           Y == {h} \X On
<1>1. IsFiniteSet(A) /\ Cardinality(A) \in Nat
  BY FewEntries
<1>2. /\ Cardinality(X) = Cardinality(Off) /\ Cardinality(Off) \in Nat
      /\ IsFiniteSet(Y) /\ Cardinality(Y) = Cardinality(On) /\ Cardinality(On) \in Nat
  BY Zenon, OneColumn
<1>3. A \cap X = X /\ (A \ X) \cap Y = {}
  OBVIOUS
<1> HIDE DEF X, Y
<1>4. IsFiniteSet(A \ X) /\ Cardinality(A \ X) = Cardinality(A) - Cardinality(X)
  BY Zenon, <1>1, <1>3, FS_Difference
<1>5. Cardinality((A \ X) \cup Y) = Cardinality(A \ X) + Cardinality(Y) - Cardinality({})
  BY <1>2, <1>3, <1>4, FS_Union
<1>6. Cardinality({}) = 0
  BY FS_EmptySet
<1>7. Cardinality((A \ X) \cup Y) = Cardinality(A) - Cardinality(Off) + Cardinality(On)
  BY <1>1, <1>2, <1>4, <1>5, <1>6
<1> QED BY <1>7 DEF X, Y

CountSame(s, t) == t.wild \/ (t.wild = s.wild /\ t.pmp_on_count = s.pmp_on_count)

\* A write of any other register leaves the entries and the count alone, unless it is
\* the out-of-bounds write of pmpcfg2.
LEMMA OtherWrites ==
  ASSUME NEW x \in Hart, NEW s \in Sim, NEW no, no # "pmpcfg0", NEW data \in Nat,
         NEW r \in set_csr(x, s, no, data)
  PROVE  r[1].pmpcfg = x.pmpcfg /\ CountSame(s, r[2])
<1>1. CASE ~Allowed(x, no, TRUE)
  <2>1. r = <<x, priv_check(x, s, no, TRUE)>>
    BY Zenon, <1>1 DEF set_csr
  <2>2. /\ priv_check(x, s, no, TRUE).wild = s.wild
        /\ priv_check(x, s, no, TRUE).pmp_on_count = s.pmp_on_count
    BY DEF priv_check, set_bad_abort, Sim
  <2> QED BY Zenon, <2>1, <2>2 DEF CountSame
<1>2. CASE Allowed(x, no, TRUE)
  <2>1. PICK n \in Counts(x, s.pmp_on_count, no, data) :
          r = <<Stores(x, no, data), [s EXCEPT !.pmp_on_count = n, !.wild = @ \/ no = "pmpcfg2"]>>
    BY Zenon, <1>2 DEF set_csr
  <2>2. r[1].pmpcfg = x.pmpcfg
    BY <2>1, StoresLeaves
  <2>3. CASE no = "pmpcfg2"
    BY Zenon, <2>1, <2>2, <2>3 DEF CountSame, Sim
  <2>4. CASE no # "pmpcfg2"
    <3>1. n = s.pmp_on_count
      BY <2>4 DEF Counts
    <3>2. r[2] = s
      BY Zenon, <2>1, <2>4, <3>1 DEF Sim
    <3> QED BY <2>2, <3>2 DEF CountSame
  <2> QED BY <2>3, <2>4
<1> QED BY Zenon, <1>1, <1>2

\* Steps that change neither the entries nor the count keep it exact.
LEMMA CountKept ==
  ASSUME PmpCountExact, \A g \in Harts : hart'[g].pmpcfg = hart[g].pmpcfg,
         CountSame(sim, sim')
  PROVE  PmpCountExact'
<1>1. ActiveEntries' = ActiveEntries
  BY DEF ActiveEntries
<1> QED BY <1>1 DEF PmpCountExact, CountSame

\* The write of pmpcfg0 itself.
LEMMA CountWritten ==
  ASSUME TrapInv, PmpCountExact, ~sim.wild, NEW h \in Harts, NEW data \in Nat,
         Allowed(hart[h], "pmpcfg0", TRUE), Csrw(h, "pmpcfg0", data)
  PROVE  PmpCountExact'
<1> DEFINE old == hart[h].pmpcfg
           new == set_pmpcfg0(hart[h], data)
           On  == {i \in DOMAIN new : is_pmp_on(new[i]) /\ ~is_pmp_on(old[i])}
           Off == {i \in DOMAIN new : ~is_pmp_on(new[i]) /\ is_pmp_on(old[i])}
<1>1. hart \in [Harts -> Hart] /\ hart[h] \in Hart /\ sim \in Sim
  BY DEF TrapInv, TypeOK
<1>2. PICK n \in Counts(hart[h], sim.pmp_on_count, "pmpcfg0", data) :
        core_cycle(h, <<Stores(hart[h], "pmpcfg0", data),
                        [sim EXCEPT !.pmp_on_count = n, !.wild = @ \/ "pmpcfg0" = "pmpcfg2"]>>)
  BY Zenon DEF Csrw, set_csr
<1>3. n = set_pmpcfg_count(old, new, sim.pmp_on_count)
  BY DEF Counts
<1>4. Stores(hart[h], "pmpcfg0", data).pmpcfg = new
  BY <1>1, StoresLeaves
<1>5. sim'.pmp_on_count = n
  BY Zenon, <1>1, <1>2 DEF core_cycle, Sim
<1>6. hart'[h].pmpcfg = new /\ \A g \in Harts \ {h} : hart'[g] = hart[g]
  BY <1>1, <1>2, <1>4 DEF core_cycle
<1>7. DOMAIN new = Entries
  BY DEF set_pmpcfg0
<1>8. On \in SUBSET Entries /\ Off \in SUBSET Entries
  BY <1>7
<1>9. n = (sim.pmp_on_count + Cardinality(On) - Cardinality(Off)) % 256
  BY <1>3 DEF set_pmpcfg_count
<1>10. ActiveEntries' = (ActiveEntries \ ({h} \X Off)) \cup ({h} \X On)
  <2>1. ASSUME NEW g \in Harts, NEW i \in Entries
        PROVE  <<g, i>> \in ActiveEntries' <=>
                 <<g, i>> \in (ActiveEntries \ ({h} \X Off)) \cup ({h} \X On)
    <3>1. CASE g = h
      BY <1>6, <1>7, <3>1 DEF ActiveEntries
    <3>2. CASE g # h
      BY <1>6, <3>2 DEF ActiveEntries
    <3> QED BY <3>1, <3>2
  <2>2. ActiveEntries' \subseteq Harts \X Entries /\ ActiveEntries \subseteq Harts \X Entries
    BY DEF ActiveEntries
  <2> HIDE DEF On, Off
  <2> QED BY <1>8, <2>1, <2>2
<1>11. (\A i \in On : <<h, i>> \notin ActiveEntries) /\ (\A i \in Off : <<h, i>> \in ActiveEntries)
  BY <1>7 DEF ActiveEntries
<1>12. ActiveEntries \in SUBSET (Harts \X Entries) /\ ActiveEntries' \in SUBSET (Harts \X Entries)
  BY DEF ActiveEntries
<1> HIDE DEF On, Off
<1>13. Cardinality(ActiveEntries') = Cardinality(ActiveEntries) - Cardinality(Off) + Cardinality(On)
  <2>1. PICK A \in SUBSET (Harts \X Entries) : A = ActiveEntries
    BY <1>12
  <2>2. PICK P \in SUBSET Entries : P = On
    BY <1>8
  <2>3. PICK Q \in SUBSET Entries : Q = Off
    BY <1>8
  <2>4. (\A i \in P : <<h, i>> \notin A) /\ (\A i \in Q : <<h, i>> \in A)
    BY <1>11, <2>1, <2>2, <2>3
  <2>5. Cardinality((A \ ({h} \X Q)) \cup ({h} \X P)) = Cardinality(A) - Cardinality(Q) + Cardinality(P)
    BY <2>4, SwapEntries
  <2> QED BY <1>10, <2>1, <2>2, <2>3, <2>5
<1>14. Cardinality(ActiveEntries') \in 0..255 /\ Cardinality(ActiveEntries) \in 0..255
  BY <1>12, FewEntries
<1>15. Cardinality(On) \in Nat /\ Cardinality(Off) \in Nat
  BY Zenon, <1>8, OneColumn
<1>16. sim.pmp_on_count = Cardinality(ActiveEntries)
  BY DEF PmpCountExact
<1>17. n = Cardinality(ActiveEntries')
  <2>1. PICK c \in 0..255 : c = Cardinality(ActiveEntries)
    BY <1>14
  <2>2. PICK d \in 0..255 : d = Cardinality(ActiveEntries')
    BY <1>14
  <2>3. PICK p \in Nat : p = Cardinality(On)
    BY <1>15
  <2>4. PICK q \in Nat : q = Cardinality(Off)
    BY <1>15
  <2>5. n = (c + p - q) % 256
    BY <1>9, <1>16, <2>1, <2>3, <2>4
  <2>6. d = c - q + p
    BY <1>13, <2>1, <2>2, <2>3, <2>4
  <2>7. n = d
    BY <2>5, <2>6
  <2> QED BY <2>2, <2>7
<1> QED BY <1>5, <1>17 DEF PmpCountExact

\* Every step keeps the count exact.
LEMMA CountStep == TrapInv /\ PmpCountExact /\ [Next]_vars => PmpCountExact'
<1> SUFFICES ASSUME TrapInv, PmpCountExact, [Next]_vars PROVE PmpCountExact'
  OBVIOUS
<1> DEFINE SameCfg == \A g \in Harts : hart'[g].pmpcfg = hart[g].pmpcfg
<1>1. hart \in [Harts -> Hart] /\ sim \in Sim
  BY DEF TrapInv, TypeOK
<1>2. ASSUME UNCHANGED <<hart, sim>> PROVE PmpCountExact'
  BY <1>2, CountKept DEF CountSame
<1>3. ASSUME NEW h \in Harts, NEW r, r[1].pmpcfg = hart[h].pmpcfg, CountSame(sim, r[2]),
             core_cycle(h, r)
      PROVE  PmpCountExact'
  <2>1. SameCfg
    BY <1>1, <1>3 DEF core_cycle
  <2>2. CountSame(sim, sim')
    BY <1>3 DEF core_cycle
  <2> QED BY <2>1, <2>2, CountKept
<1>4. ASSUME NEW h \in Harts, NEW p \in Programs(h), Csrw(h, p.no, p.data)
      PROVE  PmpCountExact'
  <2>1. p.data \in Nat /\ hart[h] \in Hart /\ ~sim.wild
    BY <1>1, <1>4, TrapAssumption DEF Programs, Csrw, At
  <2>2. PICK r \in set_csr(hart[h], sim, p.no, p.data) : core_cycle(h, r)
    BY <1>4 DEF Csrw
  <2>3. CASE p.no # "pmpcfg0"
    <3>1. r[1].pmpcfg = hart[h].pmpcfg /\ CountSame(sim, r[2])
      BY <1>1, <2>1, <2>2, <2>3, OtherWrites
    <3> QED BY <1>3, <2>2, <3>1
  <2>4. CASE p.no = "pmpcfg0" /\ ~Allowed(hart[h], p.no, TRUE)
    <3>1. r = <<hart[h], priv_check(hart[h], sim, p.no, TRUE)>>
      BY Zenon, <2>2, <2>4 DEF set_csr
    <3>2. /\ priv_check(hart[h], sim, p.no, TRUE).wild = sim.wild
          /\ priv_check(hart[h], sim, p.no, TRUE).pmp_on_count = sim.pmp_on_count
      BY <1>1 DEF priv_check, set_bad_abort, Sim
    <3>3. r[1].pmpcfg = hart[h].pmpcfg /\ CountSame(sim, r[2])
      BY Zenon, <3>1, <3>2 DEF CountSame
    <3> QED BY <1>3, <2>2, <3>3
  <2>5. CASE p.no = "pmpcfg0" /\ Allowed(hart[h], p.no, TRUE)
    BY Zenon, <1>4, <2>1, <2>5, CountWritten
  <2> QED BY Zenon, <2>3, <2>4, <2>5
<1>5. ASSUME NEW h \in Harts, NEW no, Csrr(h, no) PROVE PmpCountExact'
  <2>1. CountSame(sim, read_csr(hart[h], sim, no))
    BY <1>1, ReadCsrLeaves DEF CountSame
  <2>2. PICK r : r = <<hart[h], read_csr(hart[h], sim, no)>>
    BY Zenon
  <2> QED BY <1>3, <1>5, <2>1, <2>2 DEF Csrr
<1>6. ASSUME NEW h \in Harts, NEW a, NEW e, NEW w, Access(h, a, e, w) PROVE PmpCountExact'
  <2>1. CountSame(sim, pmp_check(hart[h], sim, a, e, w))
    BY <1>1, PmpCheckLeaves DEF CountSame
  <2>2. PICK r : r = <<hart[h], pmp_check(hart[h], sim, a, e, w)>>
    BY Zenon
  <2> QED BY <1>3, <1>6, <2>1, <2>2 DEF Access
<1>7. ASSUME NEW h \in Harts, Ecall(h, Epc(h)) PROVE PmpCountExact'
  <2>1. Epc(h) \in Nat
    BY DEF Epc, TrapInv, TypeOK
  <2>2. PICK epc \in Nat : epc = Epc(h)
    BY <2>1
  <2>3. PICK x \in Hart : x = hart[h]
    BY <1>1
  <2>4. PICK y : y = exception_priv_transfer(raise_intr(x, SYSCALL_FROM_M, epc))
    OBVIOUS
  <2>5. y.pmpcfg = x.pmpcfg
    BY <2>4, TransferOfTrap
  <2>6. core_cycle(h, <<y, sim>>)
    BY <1>7, <2>2, <2>3, <2>4 DEF Ecall
  <2> QED BY <1>3, <2>3, <2>5, <2>6 DEF CountSame
<1>8. ASSUME NEW h \in Harts, Handle(h) PROVE PmpCountExact'
  <2>1. PICK r \in set_csr(hart[h], sim, "mstatus", Word(hart[h].mstatus)) : core_cycle(h, r)
    BY <1>8 DEF Handle
  <2>2. r[1] = hart[h] /\ CountSame(sim, r[2])
    BY <1>1, <2>1, MstatusKept DEF CountSame
  <2> QED BY <1>3, <2>1, <2>2
<1>9. ASSUME NEW h \in Harts, Restore(h) PROVE PmpCountExact'
  <2>1. PICK f : f = frames[h][Len(frames[h])]
    OBVIOUS
  <2>2. f.mepc \in Nat
    <3>1. frames[h] \in Seq(Frame) /\ frames[h] # << >>
      BY <1>9 DEF Restore, TrapInv, TypeOK
    <3>2. f \in Frame
      BY <2>1, <3>1
    <3> QED BY <3>2 DEF Frame
  <2>3. PICK skip \in {0, 4}, r \in set_csr(hart[h], sim, "mstatus", Word(f.mstatus)) :
          \E q \in set_csr(r[1], r[2], "mepc", Wrap(f.mepc + skip)) : core_cycle(h, q)
    BY <1>9, <2>1 DEF Restore
  <2>4. PICK q \in set_csr(r[1], r[2], "mepc", Wrap(f.mepc + skip)) : core_cycle(h, q)
    BY <2>3
  <2>5. r[1] = hart[h] /\ r[2] \in Sim /\ CountSame(sim, r[2]) /\ r[2].wild = sim.wild
    BY <1>1, <2>3, MstatusKept DEF CountSame
  <2>6. PICK v \in Nat : v = Wrap(f.mepc + skip)
    BY <2>2, WrapIsNat
  <2>7. PICK x \in Hart : x = r[1]
    BY <1>1, <2>5
  <2>8. PICK s \in Sim : s = r[2]
    BY <2>5
  <2>9. q \in set_csr(x, s, "mepc", v)
    BY <2>4, <2>6, <2>7, <2>8
  <2>10. q[1].pmpcfg = x.pmpcfg /\ CountSame(s, q[2])
    BY <2>9, OtherWrites
  <2>11. q[1].pmpcfg = hart[h].pmpcfg /\ CountSame(sim, q[2])
    BY <2>5, <2>7, <2>8, <2>10 DEF CountSame
  <2> QED BY <1>3, <2>4, <2>11
<1>10. ASSUME NEW h \in Harts, Mret(h) PROVE PmpCountExact'
  <2>1. PICK x \in Hart : x = hart[h]
    BY <1>1
  <2>2. PICK y : y = mret_priv_transfer(x)
    OBVIOUS
  <2>3. y.pmpcfg = x.pmpcfg
    BY <2>2, TransferOfMret
  <2>4. CountSame(sim, read_csr(hart[h], sim, "mepc"))
    BY <1>1, ReadCsrLeaves DEF CountSame
  <2>5. core_cycle(h, <<y, read_csr(hart[h], sim, "mepc")>>)
    BY <1>10, <2>1, <2>2 DEF Mret
  <2> QED BY <1>3, <2>1, <2>3, <2>4, <2>5
<1>11. CASE UNCHANGED vars
  BY <1>2, <1>11 DEF vars
<1>12. ASSUME NEW h \in Harts, Compute(h) \/ Save(h) PROVE PmpCountExact'
  BY <1>2, <1>12 DEF Compute, Save
<1> QED
  BY <1>4, <1>5, <1>6, <1>7, <1>8, <1>9, <1>10, <1>11, <1>12 DEF Next

(***************************************************************************)
(* pmp_on_count is the number of active entries of all the harts, for any  *)
(* number of harts and entries that fits its byte: the shortcut of         *)
(* pmp_check never skips an entry.                                         *)
(***************************************************************************)
THEOREM PmpCounted == Spec => []PmpCountExact
<1>1. Init => PmpCountExact
  <2> SUFFICES ASSUME Init PROVE sim.pmp_on_count = Cardinality(ActiveEntries)
    BY DEF PmpCountExact
  <2>1. \A g \in Harts, i \in Entries : hart[g].pmpcfg[i] = 0
    BY DEF Init, core_create, CsrInit
  <2>2. ActiveEntries = {}
    BY <2>1 DEF ActiveEntries, is_pmp_on, PMP_A, PMP_A_OFF
  <2> QED BY <2>2, FS_EmptySet DEF Init, SimInit
<1> QED BY <1>1, TrapsStacked, CountStep, PTL DEF Spec
=============================================================================
