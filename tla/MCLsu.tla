------------------------------- MODULE MCLsu -------------------------------
(***************************************************************************)
(* Programs for Lsu.                                                       *)
(***************************************************************************)
EXTENDS Lsu

Inst(op, addr, width, data, dep, tgt, taken) ==
    [op |-> op, addr |-> addr, width |-> width, data |-> data, dep |-> dep,
     tgt |-> tgt, taken |-> taken]
Ld(a)         == Inst("load", a, 1, 0, {}, 0, FALSE)
LdAfter(a, d) == Inst("load", a, 1, 0, {d}, 0, FALSE)
St(a, v)      == Inst("store", a, 1, v, {}, 0, FALSE)
StAfter(a, v, d) == Inst("store", a, 1, v, {d}, 0, FALSE)
Wide(op, a, v) == Inst(op, a, 2, v, {}, 0, FALSE)
Fence         == Inst("fence", 0, 0, 0, {}, 0, FALSE)
Mul           == Inst("mul", 0, 0, 0, {}, 0, FALSE)
Alu           == Inst("alu", 0, 0, 0, {}, 0, FALSE)
Br(D, t, b)   == Inst("br", 0, 0, 0, D, t, b)
Hole == DRAM_SIZE
Uart == MMIO_BASE

One(P) == {[h \in {0} |-> p] : p \in P}
Two(P, Q) == {[h \in {0, 1} |-> IF h = 0 THEN p ELSE q] : p \in P, q \in Q}

(***************************************************************************)
(* One hart: a slow instruction; a branch, a store or a load that needs    *)
(* it; then two accesses, skipped when the branch is taken, and two loads. *)
(* At most one load is from a device (see TwoDeviceLoads).                 *)
(***************************************************************************)
Second == {Br({1}, 5, TRUE), Br({1}, 5, FALSE), StAfter(0, 2, 1), LdAfter(0, 1)}

OneHart == One(
    {<<a, b, c, d, e, Ld(1)>> :
        a \in {Mul, Ld(2)}, b \in Second,
        c \in {Ld(0), Ld(2), Wide("store", 0, 3), Fence},
        d \in {Ld(Uart), Ld(1), St(Uart, 4), St(0, 5)},
        e \in {Ld(0), LdAfter(2, 1)}}
    \cup {<<Mul, Br({1}, 5, TRUE), Ld(Hole), d, Ld(0), St(Uart, 1)>> : d \in {Ld(2), Ld(Uart)}})

(***************************************************************************)
(* A load that waits for a multiplication, then two loads from a device.   *)
(***************************************************************************)
TwoDeviceLoads == One({<<Mul, LdAfter(0, 1), Ld(Uart), Ld(Uart)>>})

(***************************************************************************)
(* A store of one byte, then a load of that byte and its neighbour.        *)
(***************************************************************************)
MixedWidths == One({<<St(0, 1), Wide("load", 0, 0)>>})

(***************************************************************************)
(* A store to memory, then one to a device.                                *)
(***************************************************************************)
StoreThenDevice == One({<<St(0, 1), St(1, 2), St(Uart, 3)>>})

(***************************************************************************)
(* Two harts.  Message passing: one stores twice, the other loads in the   *)
(* other order, the second load after the first.  Store buffering, with    *)
(* the fence second in its fetch group, first with an instruction, and     *)
(* first with a load.                                                      *)
(***************************************************************************)
Writers == {<<St(0, 1), Ld(0), St(2, 2)>>, <<Mul, St(0, 1), St(2, 2)>>, <<St(0, 1), Fence, St(2, 2)>>}
Readers == {<<Ld(2), LdAfter(0, 1)>>, <<Ld(0), Ld(2), LdAfter(0, 2)>>}
Fenced(a, b) == {<<St(a, 1), Fence, Alu, Ld(b)>>,
                 <<St(a + 1, 3), St(a, 1), Fence, Alu, Ld(b)>>,
                 <<St(a, 1), Alu, Fence, Ld(b), Ld(b)>>}

TwoHarts == Two(Writers, Readers) \cup Two(Fenced(0, 2), Fenced(2, 0))

OneOrTwoHarts == OneHart \cup TwoHarts

(***************************************************************************)
(* Store buffering with the fence and the load in one fetch group.         *)
(***************************************************************************)
Grouped(a, b) == {<<St(a + 1, 3), St(a, 1), Fence, Ld(b)>>}
GroupedFence == Two(Grouped(0, 2), Grouped(2, 0))
StoreBuffering == Two(Fenced(0, 2), Fenced(2, 0)) \cup GroupedFence

(***************************************************************************)
(* Message passing to two loads that do not depend on each other.          *)
(***************************************************************************)
FreeReaders == Two({<<St(0, 1), St(2, 2)>>}, {<<Ld(2), Ld(0)>>})

\* The programs that meet what the engine does not promise.
Outside == TwoDeviceLoads \cup MixedWidths \cup StoreThenDevice \cup GroupedFence \cup FreeReaders
=============================================================================
