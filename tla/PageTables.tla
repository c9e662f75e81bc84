----------------------------- MODULE PageTables -----------------------------
(***************************************************************************)
(* Address spaces of the abstract machine on x86 (am/am/src/x86/qemu/      *)
(* vme.c): page tables of PTLEVELS levels.  A virtual page is the sequence *)
(* of its indices, one per level.  The tables are t = [mem, panic]: mem    *)
(* gives every AddrSpace (a table of one entry, at level 0) and every page *)
(* in use as a table its entries.                                          *)
(***************************************************************************)
EXTENDS Integers, Sequences, TLC, FiniteSets, SequencesExt

CONSTANTS
  PTLEVELS, ENTRIES,
  Pages,         \* what pgalloc hands out: integers above 0
  Spaces,        \* the address spaces, integers below 0
  UserArea,      \* the virtual pages of vm_areas[0], uvm_area
  KernelArea     \* a sequence of the virtual pages of the kernel's areas

KERNEL == 0      \* the address space vme_init builds the kernel's tables in

NoEntry == [P |-> FALSE, U |-> FALSE, to |-> 0]
Entry(to, user) == [P |-> TRUE, U |-> user, to |-> to]
EmptyTable == [i \in 0..ENTRIES - 1 |-> NoEntry]

\* The identity mapping gives a virtual page of the kernel this frame.
Frame(va) == FoldLeft(LAMBDA x, i : x * ENTRIES + i, 0, va)

indexof(va, level) == IF level = 0 THEN 0 ELSE va[level]

Get(t, pt, va, level) == t.mem[pt][indexof(va, level)]
Put(t, pt, va, level, e) ==
  [t EXCEPT !.mem = [@ EXCEPT ![pt] = [@ EXCEPT ![indexof(va, level)] = e]]]

\* pgalloc and pgfree are the caller's; here the lowest free page comes first.
pgalloc(t) ==
  LET free == Pages \ DOMAIN t.mem
  IN IF free = {} THEN 0 ELSE CHOOSE p \in free : \A q \in free : p <= q

pgallocz(t) ==
  LET p == pgalloc(t)
  IN IF p = 0 THEN [t EXCEPT !.panic = TRUE]
     ELSE [t EXCEPT !.mem = (p :> EmptyTable) @@ @]

\* The table with the last-level entry of va, the tables on the way there
\* made if they are missing.
ptwalk(t, a, va, user) ==
  LET walk[i \in 0..PTLEVELS] ==
        IF i = 0 THEN [t |-> t, pt |-> a]
        ELSE LET w == walk[i - 1]
                 e == Get(w.t, w.pt, va, i - 1)
                 p == pgalloc(w.t)
             IN IF e.P THEN [w EXCEPT !.pt = e.to]
                ELSE [t |-> Put(pgallocz(w.t), w.pt, va, i - 1, Entry(p, user)), pt |-> p]
  IN walk[PTLEVELS]

\* The tables teardown visits and frees: at level 1 and below, through the
\* user's entries.
Visited(t, a) ==
  LET at[i \in 0..PTLEVELS] ==
        IF i = 0 THEN {a}
        ELSE {e.to : e \in {f \in UNION {{t.mem[pt][x] : x \in DOMAIN t.mem[pt]} : pt \in at[i - 1]} :
                              f.P /\ f.U}}
  IN UNION {at[i] : i \in 1..PTLEVELS}

\* Mutant: the last level is not freed.
teardown_KeepsLeaves(t, a) ==
  LET gone == {pt \in Visited(t, a) :
                 \E x \in DOMAIN t.mem[pt] : t.mem[pt][x].P /\ t.mem[pt][x].to \in Visited(t, a)}
  IN [t EXCEPT !.mem = [pt \in DOMAIN @ \ gone |-> @[pt]]]

teardown(t, a) ==
  [t EXCEPT !.mem = [pt \in DOMAIN @ \ Visited(t, a) |-> @[pt]]]

vme_init ==
  LET none == [mem |-> [a \in Spaces \cup {KERNEL} |-> [i \in {0} |-> NoEntry]], panic |-> FALSE]
      one(t, va) == LET w == ptwalk(t, KERNEL, va, FALSE)
                    IN Put(w.t, w.pt, va, PTLEVELS, Entry(Frame(va), FALSE))
  IN FoldLeft(one, none, KernelArea)

protect(t, a) ==
  LET upt == pgalloc(t)
      n == pgallocz(t)
      kpt == t.mem[KERNEL][0].to
      kernel == {KernelArea[i][1] : i \in 1..Len(KernelArea)}
  IN [n EXCEPT !.mem = [@ EXCEPT
        ![upt] = [i \in DOMAIN @ |-> IF i \in kernel THEN t.mem[kpt][i] ELSE NoEntry],
        ![a] = [i \in {0} |-> Entry(upt, TRUE)]]]

unprotect(t, a) == teardown(t, a)

\* pa = 0 stands for MMAP_NONE.
map(t, a, va, pa) ==
  LET w == ptwalk(t, a, va, TRUE)
      mapped == Get(w.t, w.pt, va, PTLEVELS).P
  IN IF va \notin UserArea \/ (pa = 0) # mapped THEN [w.t EXCEPT !.panic = TRUE]
     ELSE Put(w.t, w.pt, va, PTLEVELS, IF pa = 0 THEN NoEntry ELSE Entry(pa, TRUE))

\* What the processor makes of va: its frame, 0 for a page fault.
Translate(t, a, va) ==
  LET walk[i \in 0..PTLEVELS + 1] ==
        IF i = 0 THEN Entry(a, TRUE)
        ELSE IF walk[i - 1].P THEN Get(t, walk[i - 1].to, va, i - 1) ELSE NoEntry
  IN walk[PTLEVELS + 1].to
=============================================================================
