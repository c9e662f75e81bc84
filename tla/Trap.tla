-------------------------------- MODULE Trap --------------------------------
(***************************************************************************)
(* Harts taking traps: the CSR and protection state of Csr, one copy per   *)
(* core as core.c keeps it, and the guest's trap entry of the abstract     *)
(* machine (src/am/am/src/riscv/nemu/trap.S and cte.c).  The simulator's   *)
(* pmp_on_count, state and is_bad are shared by the harts: core_cycle      *)
(* installs and saves everything else.                                     *)
(***************************************************************************)
EXTENDS Csr, Sequences

CONSTANTS Harts,        \* the cores (g_num_cores <= 2)
          Addrs,        \* addresses a hart fetches from or accesses
          Yields,       \* the harts whose program calls yield
          CfgWords,     \* per hart, the values its program stores into pmpcfg0
          PmpAddrs,     \* per hart, the values its program stores into pmpaddr
          MaxNest       \* bound: traps nested in a handler

ASSUME TrapAssumption == /\ IsFiniteSet(Harts)
                         /\ Cardinality(Harts) * PMP_NUMBER < 256
                         /\ CfgWords \in [Harts -> SUBSET Nat]
                         /\ PmpAddrs \in [Harts -> SUBSET Nat]

VARIABLES hart,     \* hart[h]: the CSR state of a core
          sim,      \* pmp_on_count, state, is_bad, shared
          phase,    \* where each hart is: its program, or a step of __am_asm_trap
          gpr,      \* the callee's view of the registers a handler may clobber
          frames,   \* the contexts __am_asm_trap has pushed, innermost last
          before    \* history: what each pending trap interrupted, innermost last

vars == <<hart, sim, phase, gpr, frames, before>>

SYSCALL_FROM_M == 11

\* core_create copies the global state, still as csr.c initialises it.
core_create(h) == CsrInit

Init == /\ hart = [h \in Harts |-> core_create(h)]
        /\ sim = SimInit
        /\ phase = [h \in Harts |-> "run"]
        /\ gpr = [h \in Harts |-> 0]
        /\ frames = [h \in Harts |-> <<>>]
        /\ before = [h \in Harts |-> <<>>]

\* core_cycle: the hart's saved state is installed, a step taken, the result saved.
core_cycle(h, r) == /\ hart' = [hart EXCEPT ![h] = r[1]]
                    /\ sim' = r[2]

\* Nothing is known of the program once a write went past pmpcfg.
At(h, p) == sim.state = "RUNNING" /\ ~sim.wild /\ phase[h] = p
Go(h, p) == phase' = [phase EXCEPT ![h] = p]

\* csrw and csrr of a program (in a trap handler too).
Csrw(h, no, data) ==
  /\ At(h, "run")
  /\ \E r \in set_csr(hart[h], sim, no, data) : core_cycle(h, r)
  /\ UNCHANGED <<phase, gpr, frames, before>>

Csrr(h, no) ==
  /\ At(h, "run")
  /\ core_cycle(h, <<hart[h], read_csr(hart[h], sim, no)>>)
  /\ UNCHANGED <<phase, gpr, frames, before>>

\* exec_once checks the fetch; paddr_read and paddr_write check a device access.
Access(h, addr, is_execute, is_write) ==
  /\ At(h, "run")
  /\ core_cycle(h, <<hart[h], pmp_check(hart[h], sim, addr, is_execute, is_write)>>)
  /\ UNCHANGED <<phase, gpr, frames, before>>

\* The program computes.
Compute(h) == /\ At(h, "run")
              /\ gpr' = [gpr EXCEPT ![h] = 1 - @]
              /\ UNCHANGED <<hart, sim, phase, frames, before>>

\* yield(): an ecall of the program, or of the handler of an earlier one.
Epc(h) == 4 + 8 * Len(frames[h])

Ecall(h, epc) ==
  /\ At(h, "run")
  /\ Len(frames[h]) < MaxNest
  /\ core_cycle(h, <<exception_priv_transfer(raise_intr(hart[h], SYSCALL_FROM_M, epc)), sim>>)
  /\ Go(h, "entry")
  /\ before' = [before EXCEPT ![h] = Append(@, [gpr |-> gpr[h], epc |-> epc,
                                                 mie |-> 3 \in hart[h].mstatus,
                                                 priv |-> hart[h].priv])]
  /\ UNCHANGED <<gpr, frames>>

\* __am_asm_trap pushes the registers, mcause, mstatus and mepc.
SaveMut(h) ==
  /\ At(h, "entry")
  /\ frames' = [frames EXCEPT ![h] = Append(@, [gpr |-> 0,
                   mcause |-> hart[h].csr["mcause"], mstatus |-> hart[h].mstatus,
                   mepc |-> hart[h].csr["mepc"]])]
  /\ Go(h, "saved")
  /\ UNCHANGED <<hart, sim, gpr, before>>

Save(h) ==
  /\ At(h, "entry")
  /\ frames' = [frames EXCEPT ![h] = Append(@, [gpr |-> gpr[h],
                   mcause |-> hart[h].csr["mcause"], mstatus |-> hart[h].mstatus,
                   mepc |-> hart[h].csr["mepc"]])]
  /\ Go(h, "saved")
  /\ UNCHANGED <<hart, sim, gpr, before>>

\* csrw mstatus with MPRV set, then jal __am_irq_handle: the handler is a
\* program of its own, which may trap again.
Handle(h) ==
  /\ At(h, "saved")
  /\ \E r \in set_csr(hart[h], sim, "mstatus", Word(hart[h].mstatus)) : core_cycle(h, r)
  /\ Go(h, "run")
  /\ UNCHANGED <<gpr, frames, before>>

\* The handler returns, having moved the saved pc past the ecall or not;
\* mstatus and mepc are written back and the registers popped.
Restore(h) ==
  /\ At(h, "run")
  /\ frames[h] # <<>>
  /\ \E skip \in {0, 4} :
       LET f == frames[h][Len(frames[h])] IN
       \E r \in set_csr(hart[h], sim, "mstatus", Word(f.mstatus)) :
       \E q \in set_csr(r[1], r[2], "mepc", Wrap(f.mepc + skip)) :
         /\ core_cycle(h, q)
         /\ gpr' = [gpr EXCEPT ![h] = f.gpr]
         /\ frames' = [frames EXCEPT ![h] = SubSeq(@, 1, Len(@) - 1)]
  /\ Go(h, "return")
  /\ UNCHANGED before

\* mret, back to the code the trap interrupted.
Mret(h) ==
  /\ At(h, "return")
  /\ core_cycle(h, <<mret_priv_transfer(hart[h]), read_csr(hart[h], sim, "mepc")>>)
  /\ before' = [before EXCEPT ![h] = SubSeq(@, 1, Len(@) - 1)]
  /\ Go(h, "run")
  /\ UNCHANGED <<gpr, frames>>

Programs(h) ==
  [no : {"pmpaddr0", "pmpaddr2"}, data : PmpAddrs[h]]
  \cup [no : {"pmpcfg0"}, data : CfgWords[h]]
  \cup [no : {"pmpcfg2", "pmpaddr4", "misa", "mtvec", "stvec", "nosuchcsr"}, data : {0}]

Next == \E h \in Harts :
  \/ \E p \in Programs(h) : Csrw(h, p.no, p.data)
  \/ \E no \in {"mepc", "sepc", "pmpcfg0", "satp", "instret"} : Csrr(h, no)
  \/ \E a \in Addrs, k \in {"fetch", "load", "store"} : Access(h, a, k = "fetch", k = "store")
  \/ Compute(h)
  \/ h \in Yields /\ Ecall(h, Epc(h))
  \/ Save(h)
  \/ Handle(h)
  \/ Restore(h)
  \/ Mret(h)

Spec == Init /\ [][Next]_vars

-----------------------------------------------------------------------------

(***************************************************************************)
(* pmp_on_count is shared by the harts while pmpcfg is kept per core: it   *)
(* counts the active entries of all of them, so the shortcut of pmp_check  *)
(* (no active entry anywhere) is never taken by a hart that has one, unless*)
(* a write of PMPCFG2 went past the array.                                 *)
(***************************************************************************)
ActiveEntries == {e \in Harts \X Entries : is_pmp_on(hart[e[1]].pmpcfg[e[2]])}

PmpCountExact == sim.wild \/ sim.pmp_on_count = Cardinality(ActiveEntries)

(***************************************************************************)
(* What pmp_check decides, shortcut included, is what the architecture     *)
(* says of the hart's own entries: the lowest one that holds the address   *)
(* binds every level but MACHINE, and MACHINE too once locked.  A NAPOT    *)
(* entry holds the naturally aligned region of 2^(k+3) bytes, k being the  *)
(* number of trailing ones of its address.  csr.c:236-240 gives it the     *)
(* lower half of that region: nothing is claimed of the addresses in an    *)
(* upper half.                                                             *)
(***************************************************************************)
Holds(h, i, a) ==
  LET x == hart[h].pmpaddr[i] % 2^(XLEN - 2)
      w == a \div 4
      region == 2^(TrailingOnes(x) + 1)
  IN CASE PMP_A(hart[h].pmpcfg[i]) = PMP_A_OFF -> FALSE
       [] PMP_A(hart[h].pmpcfg[i]) = PMP_A_TOR ->
            w < x /\ (i > 0 => hart[h].pmpaddr[i - 1] % 2^(XLEN - 2) <= w)
       [] PMP_A(hart[h].pmpcfg[i]) = PMP_A_NA4 -> w = x
       [] PMP_A(hart[h].pmpcfg[i]) = PMP_A_NAPOT -> w \div region = x \div region

InUpperHalf(h, a) ==
  \E i \in Entries : /\ PMP_A(hart[h].pmpcfg[i]) = PMP_A_NAPOT /\ Holds(h, i, a)
                     /\ (a \div 4) > hart[h].pmpaddr[i] % 2^(XLEN - 2)

Verdict(h, a, bit(_)) ==
  LET e == {i \in Entries : Holds(h, i, a)} IN
  \/ hart[h].priv = MACHINE /\ \A i \in e : i = Min(e) => ~PMP_L(hart[h].pmpcfg[i])
  \/ \E i \in e : i = Min(e) /\ bit(hart[h].pmpcfg[i])

PmpVerdict ==
  sim.wild \/ \A h \in Harts, a \in Addrs : InUpperHalf(h, a) \/
     /\ pmp_allows(hart[h], sim, a, TRUE, FALSE) <=> Verdict(h, a, PMP_X)
     /\ pmp_allows(hart[h], sim, a, FALSE, FALSE) <=> Verdict(h, a, PMP_R)
     /\ pmp_allows(hart[h], sim, a, FALSE, TRUE) <=> Verdict(h, a, PMP_W)

(***************************************************************************)
(* A trap whose mret completes is transparent to the code it interrupted:  *)
(* the registers and the interrupt enable are what they were at the ecall, *)
(* and the return address is the ecall's or the instruction after it,      *)
(* whatever the other hart did meanwhile.  Only innermost traps complete:  *)
(* after a nested mret the outer handler runs at user level, and its next  *)
(* csrw ends the run.                                                      *)
(***************************************************************************)
Transparent ==
  \A h \in Harts : Len(before'[h]) < Len(before[h]) =>
    LET b == before[h][Len(before[h])] IN
    /\ gpr'[h] = b.gpr
    /\ 3 \in hart'[h].mstatus <=> b.mie
    /\ hart'[h].csr["mepc"] \in {Wrap(b.epc), Wrap(b.epc + 4)}
TrapTransparent == [][Transparent]_vars

(***************************************************************************)
(* README.md lists ECALL and MRET among the implemented instructions: a    *)
(* trap returns to the privilege level it was taken at, so outside traps a *)
(* program stays at the level it was started at.                           *)
(***************************************************************************)
MretRestoresLevel ==
  \A h \in Harts : before[h] = <<>> => hart[h].priv = core_create(h).priv

-----------------------------------------------------------------------------
\* Values for TLC.  Off; TOR readable; NAPOT locked executable over TOR writable;
\* NA4 readable and writable over NAPOT executable.  The hart that traps has fewer.
MCCfgWords == [h \in {0, 1} |-> {0, 156 + 256 * 10} \cup
                                IF h = 0 THEN {} ELSE {9, 19 + 256 * 28}]
MCPmpAddrs == [h \in {0, 1} |-> IF h = 0 THEN {3} ELSE {1, 3}]
=============================================================================
