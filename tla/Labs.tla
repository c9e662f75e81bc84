-------------------------------- MODULE Labs --------------------------------
(***************************************************************************)
(* The dual-hart programs of labs/order_lab (Q1 litmus.c, Q2 counter.c, Q3 *)
(* peterson.c) and test/tso/tso.c, whose loop is that of litmus.c, in both *)
(* of their builds.  A step is one access to shared memory or one fence.   *)
(*                                                                         *)
(* They run on two in-order cores, where an access is to memory, or on two *)
(* out-of-order ones (order_lab/lab.md:16).  There a store waits in a      *)
(* buffer that drains in order, a fence for an empty buffer, and a load    *)
(* that commits may have taken its value earlier (WeakMemory): at any time *)
(* since its hart left its last fence or, for the load next to the fence,  *)
(* since its hart came to it, when the two were renamed together (Lsu,     *)
(* FenceOrders).  since keeps the values a load may have taken.  How far a *)
(* load can run ahead is bounded by the ROB in the code, not here.         *)
(***************************************************************************)
EXTENDS Integers, Sequences, SequencesExt

CONSTANTS
    N_TRIALS, N_ITER,   \* rounds of litmus.c, and of the other two
    STORE_BUF_SIZE

ASSUME LabsAssumption == {N_TRIALS, N_ITER, STORE_BUF_SIZE} \subseteq Nat \ {0}

VARIABLES
    lab, USE_FENCE, \* the program and its build
    ooo,            \* the engine is the out-of-order one
    mem, buf,       \* shared memory and, per hart, the stores on their way there
    since,          \* per hart and word, its values since the last fence (see above)
    at,             \* per hart, the statement it is at
    local,          \* per hart, its local variables, and the barrier it is in
    printed,        \* the number in hart 0's report, << >> before it
    ended           \* a hart has executed ebreak, which stops both

build == <<lab, USE_FENCE, ooo>>
vars == <<build, mem, buf, since, at, local, printed, ended>>

Harts == {0, 1}
Labs  == {"litmus", "counter", "peterson"}

\* The shared words: seq, want, done, the results r and the variables x, y of
\* the two harts; turn and the counter.
Of(name, h) == <<name, h>>
turn    == <<"turn", 2>>
counter == <<"counter", 2>>
Words   == ({"seq", "want", "done", "r", "x"} \X Harts) \cup {turn, counter}

Init ==
    /\ lab \in Labs /\ USE_FENCE \in BOOLEAN /\ ooo \in BOOLEAN
    /\ mem = [w \in Words |-> 0]
    /\ buf = [h \in Harts |-> << >>]
    /\ since = [h \in Harts |-> [came |-> [w \in Words |-> {0}], left |-> [w \in Words |-> {0}]]]
    /\ at = [h \in Harts |-> "main"]
    /\ local = [h \in Harts |-> [i |-> 0, tmp |-> 0, violations |-> 0, n |-> 0, ret |-> "main"]]
    /\ printed = << >> /\ ended = FALSE

-----------------------------------------------------------------------------
(***************************************************************************)
(* Accesses of hart h.  Value is what a load that is executed now reads.   *)
(***************************************************************************)
Value(h, w) ==
    LET S == {n \in 1 .. Len(buf[h]) : buf[h][n][1] = w}
    IN  IF S = {} THEN mem[w] ELSE buf[h][CHOOSE n \in S : \A m \in S : m <= n][2]

\* What a load that commits now may have read, and one next to a fence.
Readings(h, w)  == IF ooo THEN since[h].left[w] ELSE {mem[w]}
NextToFence(h, w) == IF ooo THEN since[h].came[w] ELSE {mem[w]}

Put(h, w, v) ==
    IF ooo THEN /\ Len(buf[h]) < STORE_BUF_SIZE
                /\ buf' = [buf EXCEPT ![h] = Append(@, <<w, v>>)]
                /\ UNCHANGED mem
    ELSE mem' = [mem EXCEPT ![w] = v] /\ UNCHANGED buf

NoStore == UNCHANGED <<mem, buf>>

Fence(h) == buf[h] = << >> /\ NoStore

Fences == {"barrier_fence", "fence", "done_fence", "wait_fence", "lock_fence1", "lock_fence2",
           "unlock_fence"}

(***************************************************************************)
(* since after a step: a fence starts afresh, and after a store of its own *)
(* to a word a hart sees no older value of it.                             *)
(***************************************************************************)
Stored(h, w) == Len(buf'[h]) > Len(buf[h]) /\ Last(buf'[h])[1] = w

Window(h, old, afresh) ==
    [w \in Words |-> (IF afresh \/ Stored(h, w) THEN {} ELSE old[w]) \cup {Value(h, w)'}]

Remember ==
    since' = [h \in Harts |-> IF ~ooo \/ UNCHANGED <<mem, buf, at[h]>> THEN since[h] ELSE
      [came |-> Window(h, since[h].came, at[h] # at'[h] /\ at'[h] \in Fences),
       left |-> Window(h, since[h].left, at[h] # at'[h] /\ at[h] \in Fences)]]

Drain(h) ==
    /\ buf[h] # << >> /\ ~ended
    /\ mem' = [mem EXCEPT ![Head(buf[h])[1]] = Head(buf[h])[2]]
    /\ buf' = [buf EXCEPT ![h] = Tail(@)]
    /\ UNCHANGED <<build, at, local, printed, ended>>
    /\ Remember

Goto(h, a) == at' = [at EXCEPT ![h] = a]

Set(h, x, v) == local' = [local EXCEPT ![h] = [@ EXCEPT ![x] = v]]

Call(h, n, ret) ==
    /\ local' = [local EXCEPT ![h] = [@ EXCEPT !.n = n, !.ret = ret]]
    /\ Goto(h, "barrier")

(***************************************************************************)
(* A build with USE_FENCE = 0 leaves its fences out.                       *)
(***************************************************************************)
GotoFence(h, fence, next) == Goto(h, IF USE_FENCE THEN fence ELSE next)

First(h, w) == IF USE_FENCE THEN NextToFence(h, w) ELSE Readings(h, w)

(***************************************************************************)
(* barrier(hartid, n), the same in all four programs.                      *)
(***************************************************************************)
\* Mutant: the wait is for the very number of this barrier.
barrier_Exactly(h) ==
    \/ /\ at[h] = "barrier" /\ Put(h, Of("seq", h), local[h].n) /\ Goto(h, "barrier_fence")
    \/ /\ at[h] = "barrier_fence" /\ Fence(h) /\ Goto(h, "barrier_wait")
    \/ /\ at[h] = "barrier_wait" /\ NoStore
       /\ \E v \in NextToFence(h, Of("seq", 1 - h)) : v = local[h].n
       /\ Goto(h, local[h].ret)

barrier(h) ==
    \/ /\ at[h] = "barrier" /\ Put(h, Of("seq", h), local[h].n) /\ Goto(h, "barrier_fence")
    \/ /\ at[h] = "barrier_fence" /\ Fence(h) /\ Goto(h, "barrier_wait")
    \/ /\ at[h] = "barrier_wait" /\ NoStore
       /\ \E v \in NextToFence(h, Of("seq", 1 - h)) : v >= local[h].n
       /\ Goto(h, local[h].ret)

Barrier(h) == barrier(h) /\ UNCHANGED <<local, printed, ended>>

(***************************************************************************)
(* The report of hart 0, and the end of every program.  The texts printed  *)
(* before the number are longer than the ROB, so that the load of the      *)
(* number is not executed early.                                           *)
(***************************************************************************)
Report(h, v, n) ==
    /\ Call(h, n, "ebreak")
    /\ printed' = IF h = 0 THEN << v >> ELSE printed
    /\ NoStore /\ UNCHANGED ended

Ebreak(h) ==
    /\ at[h] = "ebreak"
    /\ ended' = TRUE
    /\ NoStore /\ UNCHANGED <<at, local, printed>>

-----------------------------------------------------------------------------
(***************************************************************************)
(* lab_main of litmus.c.  Hart 0 resets x and y; then each hart stores to  *)
(* its own and loads the other's into its result.                          *)
(***************************************************************************)
LitmusStep(h) ==
    LET t == local[h].i IN
    \/ /\ at[h] = "main" /\ Call(h, 1, "loop") /\ NoStore
    \/ /\ at[h] = "loop" /\ t < N_TRIALS
       /\ IF h = 0 THEN Goto(h, "reset_x") /\ UNCHANGED local ELSE Call(h, 3 * t + 2, "store")
       /\ NoStore
    \/ /\ at[h] = "reset_x" /\ Put(h, Of("x", 0), 0) /\ Goto(h, "reset_y") /\ UNCHANGED local
    \/ /\ at[h] = "reset_y" /\ Put(h, Of("x", 1), 0) /\ Call(h, 3 * t + 2, "store")
    \/ /\ at[h] = "store" /\ Put(h, Of("x", h), 1) /\ GotoFence(h, "fence", "load")
       /\ UNCHANGED local
    \/ /\ at[h] = "fence" /\ Fence(h) /\ Goto(h, "load") /\ UNCHANGED local
    \/ /\ at[h] = "load" /\ \E v \in First(h, Of("x", 1 - h)) : Set(h, "tmp", v)
       /\ Goto(h, "result") /\ NoStore
    \/ /\ at[h] = "result" /\ Put(h, Of("r", h), local[h].tmp)
       /\ Call(h, 3 * t + 3, IF h = 0 THEN "look" ELSE "count")
    \/ /\ at[h] = "look" /\ \E v \in Readings(h, Of("r", 0)) : Set(h, "tmp", v)
       /\ Goto(h, "count") /\ NoStore
    \/ /\ at[h] = "count"
       /\ \E v \in Readings(h, Of("r", 1)) : local' = [local EXCEPT ![h] =
            [@ EXCEPT !.i = t + 1, !.n = 3 * t + 4, !.ret = "loop",
                      !.violations = IF h = 0 /\ local[h].tmp = 0 /\ v = 0 THEN @ + 1 ELSE @]]
       /\ Goto(h, "barrier") /\ NoStore

Litmus(h) ==
    \/ LitmusStep(h) /\ UNCHANGED <<printed, ended>>
    \/ at[h] = "loop" /\ local[h].i = N_TRIALS
       /\ Report(h, local[h].violations, 3 * N_TRIALS + 5)

(***************************************************************************)
(* counter = counter + 1, a load and a store, in counter.c and peterson.c. *)
(***************************************************************************)
Increment(h, next) ==
    \/ /\ at[h] = "read" /\ \E v \in Readings(h, counter) : Set(h, "tmp", v)
       /\ Goto(h, "write") /\ NoStore
    \/ /\ at[h] = "write" /\ Put(h, counter, local[h].tmp + 1)
       /\ Set(h, "i", local[h].i + 1) /\ Goto(h, next)

(***************************************************************************)
(* lab_main of counter.c.                                                  *)
(***************************************************************************)
CounterStep(h) ==
    \/ /\ at[h] = "main" /\ Call(h, 1, "loop") /\ NoStore
    \/ /\ at[h] = "loop" /\ Goto(h, IF local[h].i < N_ITER THEN "read" ELSE "done")
       /\ NoStore /\ UNCHANGED local
    \/ Increment(h, "loop")
    \/ /\ at[h] = "done" /\ Put(h, Of("done", h), 1) /\ Goto(h, "done_fence") /\ UNCHANGED local
    \/ /\ at[h] = "done_fence" /\ Fence(h) /\ Goto(h, IF h = 0 THEN "wait" ELSE "report")
       /\ UNCHANGED local
    \/ /\ at[h] = "wait" /\ \E v \in NextToFence(h, Of("done", 1)) : v # 0
       /\ Goto(h, "wait_fence") /\ NoStore /\ UNCHANGED local
    \/ /\ at[h] = "wait_fence" /\ Fence(h) /\ Goto(h, "report") /\ UNCHANGED local

Counter(h) ==
    \/ CounterStep(h) /\ UNCHANGED <<printed, ended>>
    \/ at[h] = "report" /\ Report(h, Value(h, counter), 2)

(***************************************************************************)
(* lock(i) and unlock(i) of peterson.c.  A round of the loop that goes on  *)
(* changes nothing, so lock_wait is its last round, with both loads.       *)
(***************************************************************************)
\* Mutant: each hart gives the turn to itself.
lock_OwnTurn(h) ==
    \/ /\ at[h] = "lock" /\ Put(h, Of("want", h), 1) /\ GotoFence(h, "lock_fence1", "lock_turn")
    \/ /\ at[h] = "lock_fence1" /\ Fence(h) /\ Goto(h, "lock_turn")
    \/ /\ at[h] = "lock_turn" /\ Put(h, turn, h) /\ GotoFence(h, "lock_fence2", "lock_wait")
    \/ /\ at[h] = "lock_fence2" /\ Fence(h) /\ Goto(h, "lock_wait")
    \/ /\ at[h] = "lock_wait" /\ NoStore
       /\ \/ \E v \in First(h, Of("want", 1 - h)) : v = 0
          \/ \E v \in Readings(h, turn) : v # 1 - h
       /\ Goto(h, "read")

lock(h) ==
    \/ /\ at[h] = "lock" /\ Put(h, Of("want", h), 1) /\ GotoFence(h, "lock_fence1", "lock_turn")
    \/ /\ at[h] = "lock_fence1" /\ Fence(h) /\ Goto(h, "lock_turn")
    \/ /\ at[h] = "lock_turn" /\ Put(h, turn, 1 - h) /\ GotoFence(h, "lock_fence2", "lock_wait")
    \/ /\ at[h] = "lock_fence2" /\ Fence(h) /\ Goto(h, "lock_wait")
    \/ /\ at[h] = "lock_wait" /\ NoStore
       /\ \/ \E v \in First(h, Of("want", 1 - h)) : v = 0
          \/ \E v \in Readings(h, turn) : v # 1 - h
       /\ Goto(h, "read")

unlock(h) ==
    \/ /\ at[h] = "unlock" /\ Put(h, Of("want", h), 0) /\ GotoFence(h, "unlock_fence", "loop")
    \/ /\ at[h] = "unlock_fence" /\ Fence(h) /\ Goto(h, "loop")

(***************************************************************************)
(* lab_main of peterson.c.                                                 *)
(***************************************************************************)
PetersonStep(h) ==
    \/ /\ at[h] = "main" /\ Call(h, 1, "loop") /\ NoStore
    \/ /\ at[h] = "loop" /\ NoStore
       /\ IF local[h].i < N_ITER THEN Goto(h, "lock") /\ UNCHANGED local ELSE Call(h, 2, "report")
    \/ (lock(h) \/ unlock(h)) /\ UNCHANGED local
    \/ Increment(h, "unlock")

Peterson(h) ==
    \/ PetersonStep(h) /\ UNCHANGED <<printed, ended>>
    \/ at[h] = "report" /\ Report(h, Value(h, counter), 3)

Step(h) ==
    /\ ~ended
    /\ \/ lab = "litmus" /\ Litmus(h)
       \/ lab = "counter" /\ Counter(h)
       \/ lab = "peterson" /\ Peterson(h)
       \/ Barrier(h)
       \/ Ebreak(h)
    /\ UNCHANGED build
    /\ Remember

Next == \E h \in Harts : Step(h) \/ Drain(h)

(***************************************************************************)
(* exec() gives every hart a cycle in turn, and a hart that waits for room *)
(* in its buffer or for a fence goes on draining it.  One that waits in a  *)
(* loop reads again and again, but may miss what was so for a moment only: *)
(* it goes on when what it waits for is so now.                            *)
(***************************************************************************)
Now(h) ==
    /\ at[h] = "barrier_wait" => Value(h, Of("seq", 1 - h)) >= local[h].n
    /\ at[h] = "wait" => Value(h, Of("done", 1)) # 0
    /\ at[h] = "lock_wait" => Value(h, Of("want", 1 - h)) = 0 \/ Value(h, turn) # 1 - h

Spec == Init /\ [][Next]_vars /\ \A h \in Harts : WF_vars(Now(h) /\ Step(h)) /\ WF_vars(Drain(h))

-----------------------------------------------------------------------------
(***************************************************************************)
(* What the programs promise.  Hart 0 has reported when the first ebreak   *)
(* stops the machine (tso.c:121-125, the final barrier keeps hart 1 from   *)
(* "terminating the simulation prematurely").  With or without fences and  *)
(* on both engines, counter.c and peterson.c report the last value of the  *)
(* counter: nothing is on its way to memory any more.  On in-order cores   *)
(* litmus.c finds no violation (lab.md:57 "the in-order pipeline produces  *)
(* zero violations") and the lock loses no update (peterson.c:15 "Under    *)
(* Sequential Consistency (SC), this algorithm is provably correct").      *)
(***************************************************************************)
ReportsRight ==
    /\ ended => printed # << >>
    /\ printed # << >> =>
         /\ ~ooo /\ lab = "litmus" => printed = << 0 >>
         /\ ~ooo /\ lab = "peterson" => printed = << 2 * N_ITER >>
         /\ lab # "litmus" =>
              printed = << mem[counter] >>
              /\ \A h \in Harts : \A n \in 1 .. Len(buf[h]) : buf[h][n][1] # counter

(***************************************************************************)
(* With its fences litmus.c finds no violation (tso.c:13 "fence between    *)
(* store and load, no violations") and the lock loses no update            *)
(* (peterson.c:28 "Fences after want[i]=1 and after turn=1-i -> correct"),  *)
(* also on out-of-order cores, which need not be so.                       *)
(***************************************************************************)
FencesEnough ==
    USE_FENCE /\ printed # << >> =>
      /\ lab = "litmus" => printed = << 0 >>
      /\ lab = "peterson" => printed = << 2 * N_ITER >>

(***************************************************************************)
(* Every program ends, in every build and on both engines: no hart waits   *)
(* forever in a barrier for a number the other has passed (tso.c:51-52     *)
(* "avoids the missed-value race"), in the lock or for a fence.            *)
(***************************************************************************)
LabsEnd == <>ended
=============================================================================
