-------------------------------- MODULE Csr --------------------------------
(***************************************************************************)
(* The control and status registers, privilege levels and physical memory  *)
(* protection of one hart (src/src/cpu/csr.c, src/include/cpu/csr.h), as   *)
(* functions of the hart's state: the globals csr, priv_level, pmpcfg,     *)
(* pmpaddr and pmp_on_count of csr.c, state and is_bad of state.c.         *)
(*                                                                         *)
(* A CSR number is its name.  The machine may be scaled: XLEN bits where   *)
(* the code has 64, and PMP_NUMBER entries in use, one per byte of a       *)
(* pmpcfg register, where the code has 8.  mstatus is the set of its bits  *)
(* that are 1.                                                             *)
(***************************************************************************)
EXTENDS Integers, FiniteSets, FiniteSetsExt

CONSTANTS XLEN,         \* bits of a register (64 in the code)
          PMP_NUMBER    \* PMP_NUMBER_IN_SUSTEMU (8 in the code)

ASSUME CsrAssumption == /\ XLEN \in Nat \ {0}
                        /\ PMP_NUMBER \in 1..8
                        /\ 8 * PMP_NUMBER <= XLEN

\* Arithmetic, stated because the provers know no exponentiation.
ASSUME PowersAssumption == /\ 2^XLEN \in Nat \ {0}
                           /\ \A i \in 0..(PMP_NUMBER - 1) : 256^i \in Nat \ {0}

USER == 0
SUPERVISOR == 1
MACHINE == 3

Entries == 0..(PMP_NUMBER - 1)
AddrEntries == 0..7               \* the array pmpaddr; no write reaches the last three

Wrap(x) == x % 2^XLEN

ByteAt(x, i) == (x \div 256^i) % 256

\* pmpcfg bits: R 0x01, W 0x02, X 0x04, A 0x18, L 0x80
PMP_R(cfg) == cfg % 2 = 1
PMP_W(cfg) == (cfg \div 2) % 2 = 1
PMP_X(cfg) == (cfg \div 4) % 2 = 1
PMP_A(cfg) == (cfg \div 8) % 4
PMP_L(cfg) == cfg \div 128 = 1
PMP_A_OFF == 0
PMP_A_TOR == 1
PMP_A_NA4 == 2
PMP_A_NAPOT == 3

\* The registers a write stores as they are.
MachineStored == {"mepc", "mcause", "mtvec", "mtval", "mip", "mie", "mideleg",
                  "medeleg", "mscratch"}
SupervisorStored == {"sstatus", "sie", "stvec", "sscratch", "stval", "sip", "satp"}
Stored == MachineStored \cup SupervisorStored
\* Registers of the table no write reaches: sepc and scause read 0.
Registers == Stored \cup {"sepc", "scause"}

PmpCfgs == {"pmpcfg0", "pmpcfg2"}
PmpCfgsIgnored == {"pmpcfg4", "pmpcfg6", "pmpcfg8", "pmpcfga", "pmpcfgc", "pmpcfge"}
\* PMPADDR0, 2, 4, 6 and 8 name entries 0 to 4.
PmpAddr == [pmpaddr0 |-> 0, pmpaddr2 |-> 1, pmpaddr4 |-> 2, pmpaddr6 |-> 3, pmpaddr8 |-> 4]
Counters == {"cycle", "instret", "l1d_hits", "l1d_misses", "l1i_hits", "l1i_misses",
             "l2_hits", "l2_misses"}

\* csr_table: the level a register needs, and whether it may be written.
Level(no) == IF no \in Counters THEN USER
             ELSE IF no \in SupervisorStored \cup {"sepc", "scause"} THEN SUPERVISOR
             ELSE MACHINE
Writable(no) == no \notin Counters \cup {"misa", "mcountern", "mhartid"}
csr_table == Registers \cup PmpCfgs \cup PmpCfgsIgnored \cup DOMAIN PmpAddr \cup Counters
             \cup {"mstatus", "misa", "mcountern", "mhartid"}

CsrInit == [csr |-> [r \in Registers |-> 0], mstatus |-> {}, priv |-> MACHINE,
            pmpcfg |-> [i \in Entries |-> 0], pmpaddr |-> [i \in AddrEntries |-> 0]]

\* The simulator's own state: shared by the harts.
SimInit == [pmp_on_count |-> 0, state |-> "RUNNING", bad |-> FALSE, wild |-> FALSE]

set_bad_abort(sim) == [sim EXCEPT !.bad = TRUE, !.state = "ABORT"]

\* A register that is not in the table is refused without ending the run.
Allowed(h, no, is_write) ==
  no \in csr_table /\ h.priv >= Level(no) /\ (is_write => Writable(no))

priv_check(h, sim, no, is_write) ==
  IF no \in csr_table /\ ~Allowed(h, no, is_write) THEN set_bad_abort(sim) ELSE sim

is_pmp_on(cfg) == PMP_A(cfg) # PMP_A_OFF

\* The entries of pmpcfg0 are stored one by one, each moving pmp_on_count by
\* the change of its A field; pmp_on_count is a uint8_t.
set_pmpcfg0(h, data) == [i \in Entries |-> ByteAt(data, i)]

set_pmpcfg_count_mut(old, new, count) ==
  (count + Cardinality({i \in DOMAIN new : is_pmp_on(new[i])})) % 256

set_pmpcfg_count(old, new, count) ==
  (count + Cardinality({i \in DOMAIN new : is_pmp_on(new[i]) /\ ~is_pmp_on(old[i])})
         - Cardinality({i \in DOMAIN new : ~is_pmp_on(new[i]) /\ is_pmp_on(old[i])})) % 256

\* What a write that is allowed stores; the other registers of the table
\* ignore it.
Stores(h, no, data) ==
  [h EXCEPT !.csr = [r \in Registers |-> IF r = no /\ r \in Stored THEN data ELSE @[r]],
            !.pmpcfg = IF no = "pmpcfg0" THEN set_pmpcfg0(h, data) ELSE @,
            !.pmpaddr = [i \in AddrEntries |-> IF no \in DOMAIN PmpAddr /\ PmpAddr[no] = i
                                                THEN data ELSE @[i]]]

\* The count it may leave.  PMPCFG2 names the entries after the last one, bytes
\* beyond the array: what they held and what they belong to is not known.
Counts(h, count, no, data) ==
  IF no = "pmpcfg0" THEN {set_pmpcfg_count(h.pmpcfg, set_pmpcfg0(h, data), count)}
  ELSE IF no = "pmpcfg2" THEN {(count + d) % 256 : d \in (-PMP_NUMBER)..PMP_NUMBER}
  ELSE {count}

\* The results of set_csr: the hart and the simulator after it.
set_csr(h, sim, no, data) ==
  IF ~Allowed(h, no, TRUE) THEN {<<h, priv_check(h, sim, no, TRUE)>>}
  ELSE {<<Stores(h, no, data), [sim EXCEPT !.pmp_on_count = n, !.wild = @ \/ no = "pmpcfg2"]>> :
          n \in Counts(h, sim.pmp_on_count, no, data)}

\* 0xbadbeef and misa's value, wrapped to XLEN bits.
BADBEEF == 48879 % 2^XLEN
MISA_VALUE == 4352 % 2^XLEN
Word(bits) == Wrap(LET w(b) == IF b \in bits THEN 2^b ELSE 0 IN
                   w(3) + w(7) + w(11) + w(12) + w(15) + w(16))
pmpcfg0(h) == MapThenSumSet(LAMBDA i : h.pmpcfg[i] * 256^i, Entries)

\* The value read_csr returns; perf gives the counters' values.  A register
\* of the table that no case names ends in the failed assertion.
Readable == (csr_table \ (PmpCfgsIgnored \cup {"satp", "pmpcfg2", "mcountern"}))
            \ {"pmpaddr4", "pmpaddr6", "pmpaddr8"}

csr_value(h, no, hartid, perf) ==
  CASE ~Allowed(h, no, FALSE) -> BADBEEF
    [] no = "mstatus" -> Word(h.mstatus)
    [] no = "misa" -> MISA_VALUE
    [] no = "mhartid" -> hartid
    [] no = "pmpcfg0" -> pmpcfg0(h)
    [] no \in {"pmpaddr0", "pmpaddr2"} -> h.pmpaddr[PmpAddr[no]]
    [] no \in Counters -> perf[no]
    [] no \in Registers -> h.csr[no]
    [] OTHER -> 0

read_csr(h, sim, no) ==
  LET s == priv_check(h, sim, no, FALSE) IN
  IF Allowed(h, no, FALSE) /\ no \notin Readable THEN [s EXCEPT !.state = "PANIC"] ELSE s

\* ecall: raise_intr saves the pc and the cause and gives the trap vector,
\* then exception_priv_transfer stacks the privilege level and MIE.
raise_intr(h, cause, epc) == [h EXCEPT !.csr["mepc"] = epc, !.csr["mcause"] = cause]

LevelBits(p) == {b \in {11, 12} : (p \div 2^(b - 11)) % 2 = 1}

exception_priv_transfer(h) ==
  LET ms == (h.mstatus \ {15, 16}) \cup LevelBits(h.priv)
  IN [h EXCEPT !.priv = MACHINE,
               !.mstatus = ((ms \ {7}) \cup (IF 3 \in ms THEN {7} ELSE {})) \ {3}]

\* mret: the level comes from bits 15 and 16, shifted right by 11.
mret_priv_transfer(h) ==
  LET ms == h.mstatus \ {15, 16}
  IN [h EXCEPT !.priv = (IF 15 \in h.mstatus THEN 16 ELSE 0)
                        + (IF 16 \in h.mstatus THEN 32 ELSE 0),
               !.mstatus = (ms \ {7}) \cup (IF 7 \in ms THEN {3} ELSE {}) \cup {7}]

(***************************************************************************)
(* Physical memory protection.                                             *)
(***************************************************************************)
\* The trailing ones of (pmpaddr << 2) | 3.
TrailingOnes(x) == Max({n \in 0..XLEN : x % 2^n = 2^n - 1})

Region(h, i) ==
  LET a == PMP_A(h.pmpcfg[i])
      base == Wrap(h.pmpaddr[i] * 4)
      size == 2^TrailingOnes(base + 3)
  IN CASE a = PMP_A_TOR -> [start |-> IF i = 0 THEN 0 ELSE Wrap(h.pmpaddr[i - 1] * 4),
                            end |-> base]
       [] a = PMP_A_NA4 -> [start |-> base, end |-> Wrap(base + 4)]
       [] a = PMP_A_NAPOT -> [start |-> base - (base % size), end |-> Wrap(base - (base % size) + size)]
       [] OTHER -> [start |-> 0, end |-> 0]

Matches(h, i, addr) == /\ is_pmp_on(h.pmpcfg[i])
                       /\ Region(h, i).start <= addr
                       /\ addr < Region(h, i).end

Permits(h, cfg, is_execute, is_write) ==
  \/ h.priv = MACHINE /\ ~PMP_L(cfg)
  \/ /\ is_execute => PMP_X(cfg)
     /\ is_write => PMP_W(cfg)
     /\ ~is_execute /\ ~is_write => PMP_R(cfg)

pmp_allows_last(h, sim, addr, is_execute, is_write) ==
  LET hits == {i \in Entries : Matches(h, i, addr)} IN
  \/ sim.pmp_on_count = 0 /\ h.priv = MACHINE
  \/ IF hits = {} THEN h.priv = MACHINE
     ELSE Permits(h, h.pmpcfg[Max(hits)], is_execute, is_write)

\* The first entry that matches decides; with none, only MACHINE may access.
pmp_allows(h, sim, addr, is_execute, is_write) ==
  LET hits == {i \in Entries : Matches(h, i, addr)} IN
  \/ sim.pmp_on_count = 0 /\ h.priv = MACHINE
  \/ IF hits = {} THEN h.priv = MACHINE
     ELSE Permits(h, h.pmpcfg[Min(hits)], is_execute, is_write)

\* Every caller ignores the result of pmp_check: a refusal only ends the run.
pmp_check(h, sim, addr, is_execute, is_write) ==
  IF pmp_allows(h, sim, addr, is_execute, is_write) THEN sim ELSE set_bad_abort(sim)

=============================================================================
