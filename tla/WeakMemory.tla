----------------------------- MODULE WeakMemory -----------------------------
(***************************************************************************)
(* What the memory side of the out-of-order engine promises the programs   *)
(* of the harts.  Each hart has a FIFO buffer of committed stores.  A load *)
(* takes its value once, at any moment before it commits, from the stores  *)
(* before it in its program, byte by byte, or from memory.  Two loads, or  *)
(* a load and an older fence, may do so in either order unless the address *)
(* of one depends on the other.                                            *)
(*                                                                         *)
(* The programs, which Lsu gives the engine as well.  An instruction p[k]  *)
(* is a record [op, addr, width, data, dep, tgt, taken].  A store puts its *)
(* data, one value, in each of its bytes.  dep is the set of the           *)
(* instructions that compute its operands.  Branches go forward, to tgt.   *)
(***************************************************************************)
EXTENDS Integers, Sequences

CONSTANTS
    DRAM_SIZE,  \* bytes 0 .. DRAM_SIZE-1 are DRAM
    MMIO_BASE,  \* and those from MMIO_BASE on are devices; in between, nothing
    Programs    \* functions from harts to programs

VARIABLES
    prog,   \* the programs
    mem,    \* DRAM, shared
    buf,    \* per hart, the committed stores that are not in memory yet, oldest first
    pc,     \* per hart, the next instruction to commit
    val,    \* per hart and load, the bytes it read, << >> before it has a value
    io      \* per hart, the accesses to devices so far

weakVars == <<prog, mem, buf, pc, val, io>>

Harts   == DOMAIN prog
Dram    == 0 .. DRAM_SIZE - 1
Bytes(i) == i.addr .. i.addr + i.width - 1
IsDram(a) == a < DRAM_SIZE
IsMmio(a) == a >= MMIO_BASE

NextPc(i, k) == IF i.op = "br" /\ i.taken THEN i.tgt ELSE k + 1

(***************************************************************************)
(* The instructions that program p executes: those that no branch it takes *)
(* jumps over.                                                             *)
(***************************************************************************)
OnPath(p) ==
    LET on[k \in 1 .. Len(p)] ==
          \A b \in 1 .. k - 1 : p[b].op = "br" /\ p[b].taken /\ k < p[b].tgt => ~on[b]
    IN  {k \in 1 .. Len(p) : on[k]}

(***************************************************************************)
(* Memory m after the stores q of program p, and the bytes a load reads.   *)
(***************************************************************************)
Store(m, st) == [a \in Dram |-> IF a \in Bytes(st) THEN st.data ELSE m[a]]

After(p, m, q) ==
    [a \in Dram |->
       LET S == {n \in 1 .. Len(q) : a \in Bytes(p[q[n]])}
       IN  IF S = {} THEN m[a] ELSE p[q[CHOOSE n \in S : \A x \in S : x <= n]].data]

Load(m, i) == [n \in 1 .. i.width |-> m[i.addr + n - 1]]

(***************************************************************************)
(* The DRAM stores of hart h from its next instruction to commit up to     *)
(* load k, in program order.                                               *)
(***************************************************************************)
Pending(h, k) ==
    LET st == {j \in OnPath(prog[h]) : /\ pc[h] <= j /\ prog[h][j].op = "store"
                                       /\ IsDram(prog[h][j].addr)}
    IN  SelectSeq([j \in 1 .. k - 1 |-> j], LAMBDA j : j \in st)

WeakInit ==
    /\ prog \in Programs
    /\ mem = [a \in Dram |-> 0]
    /\ buf = [h \in Harts |-> << >>]
    /\ pc = [h \in Harts |-> 1]
    /\ val = [h \in Harts |-> [k \in DOMAIN prog[h] |-> << >>]]
    /\ io = [h \in Harts |-> << >>]

(***************************************************************************)
(* A load takes its value.  The loads its address depends on have theirs;  *)
(* an access to a device waits for everything before it.                   *)
(***************************************************************************)
Bind(h, k) ==
    LET i == prog[h][k]
    IN  /\ k \in OnPath(prog[h]) /\ i.op = "load" /\ pc[h] <= k /\ val[h][k] = << >>
        /\ \A d \in i.dep : prog[h][d].op = "load" => val[h][d] # << >>
        /\ \/ /\ IsDram(i.addr)
              /\ val' = [val EXCEPT ![h] = [@ EXCEPT ![k] =
                           Load(After(prog[h], mem, buf[h] \o Pending(h, k)), i)]]
              /\ UNCHANGED io
           \/ /\ IsMmio(i.addr) /\ pc[h] = k
              /\ val' = [val EXCEPT ![h] = [@ EXCEPT ![k] = [n \in 1 .. i.width |-> 0]]]
              /\ io' = [io EXCEPT ![h] = Append(@, k)]
        /\ UNCHANGED <<prog, mem, buf, pc>>

(***************************************************************************)
(* Instructions commit in order.  A store enters the buffer, or goes to    *)
(* its device at once.  A fence waits for the buffer to be empty.          *)
(***************************************************************************)
Commit(h) ==
    LET k == pc[h]
        i == prog[h][k]
    IN  /\ k <= Len(prog[h])
        /\ i.op = "load" => val[h][k] # << >>
        /\ i.op = "fence" => buf[h] = << >>
        /\ pc' = [pc EXCEPT ![h] = NextPc(i, k)]
        /\ buf' = IF i.op = "store" /\ IsDram(i.addr)
                  THEN [buf EXCEPT ![h] = Append(@, k)] ELSE buf
        /\ io' = IF i.op = "store" /\ ~IsDram(i.addr)
                 THEN [io EXCEPT ![h] = Append(@, k)] ELSE io
        /\ UNCHANGED <<prog, mem, val>>

Drain(h) ==
    /\ buf[h] # << >>
    /\ mem' = Store(mem, prog[h][Head(buf[h])])
    /\ buf' = [buf EXCEPT ![h] = Tail(@)]
    /\ UNCHANGED <<prog, pc, val, io>>

WeakNext ==
    \E h \in Harts : Commit(h) \/ Drain(h) \/ \E k \in DOMAIN prog[h] : Bind(h, k)

WeakSpec == WeakInit /\ [][WeakNext]_weakVars
=============================================================================
