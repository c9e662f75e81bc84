------------------------------ MODULE NativeVm ------------------------------
(***************************************************************************)
(* Address spaces of the abstract machine on a Unix process (am/am/src/    *)
(* native/vme.c): a list of page maps per address space, which __am_switch *)
(* puts into the process with mmap.  The state is n: per space the head of *)
(* its list; per page map, one for a space and a virtual page, its fields; *)
(* the space of this cpu; the pages of the process.                        *)
(***************************************************************************)
EXTENDS Integers, FiniteSets

CONSTANTS Spaces, UserArea

NULL == << >>
NONE == 0        \* no address space; no frame

vme_init ==
  [head |-> [a \in Spaces |-> NULL],
   next |-> [pp \in Spaces \X UserArea |-> NULL],
   pa |-> [pp \in Spaces \X UserArea |-> NONE],
   is_mapped |-> [pp \in Spaces \X UserArea |-> FALSE],
   vm_head |-> NONE, process |-> [va \in UserArea |-> NONE], hangs |-> FALSE]

\* list_foreach: the page maps it comes by, and whether it comes to an end.
List(n, a) ==
  LET pos[i \in 0..Cardinality(UserArea)] ==
        IF i = 0 THEN n.head[a] ELSE IF pos[i - 1] = NULL THEN NULL ELSE n.next[pos[i - 1]]
  IN [all |-> {pos[i] : i \in DOMAIN pos} \ {NULL}, ends |-> pos[Cardinality(UserArea)] = NULL]

__am_pmem_map(n, S) ==
  [n EXCEPT !.process = [va \in UserArea |->
              IF \E pp \in S : pp[2] = va THEN n.pa[CHOOSE pp \in S : pp[2] = va] ELSE @[va]],
            !.is_mapped = [pp \in DOMAIN @ |-> pp \in S \/ @[pp]]]

__am_pmem_unmap(n, S) ==
  [n EXCEPT !.process = [va \in UserArea |-> IF \E pp \in S : pp[2] = va THEN NONE ELSE @[va]],
            !.is_mapped = [pp \in DOMAIN @ |-> pp \notin S /\ @[pp]]]

\* Leaving space now for space a; NONE is the context of a kernel thread.
__am_switch(n, a) ==
  LET now == n.vm_head
      old == IF now = NONE THEN {} ELSE {pp \in List(n, now).all : n.is_mapped[pp]}
      out == __am_pmem_unmap(n, old)
      new == IF a = NONE THEN {} ELSE List(n, a).all
      in  == __am_pmem_map(out, new)
      ends == \A s \in {now, a} \ {NONE} : List(n, s).ends
  IN IF a = now THEN n
     ELSE IF ends THEN [in EXCEPT !.vm_head = a] ELSE [n EXCEPT !.hangs = TRUE]

map(n, a, va, pa) ==
  LET pp == <<a, va>>
      linked == [n EXCEPT !.pa = [@ EXCEPT ![pp] = pa],
                          !.is_mapped = [@ EXCEPT ![pp] = FALSE],
                          !.next = [@ EXCEPT ![pp] = n.head[a]],
                          !.head = [@ EXCEPT ![a] = pp]]
  IN IF a = n.vm_head THEN __am_pmem_map(linked, {pp}) ELSE linked
=============================================================================
