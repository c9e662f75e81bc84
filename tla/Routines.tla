------------------------------ MODULE Routines ------------------------------
(***************************************************************************)
(* The pure routines of the simulator and of the guest's libraries, each   *)
(* beside what it has to compute: the decoder and the table it implements, *)
(* the monitor's evaluator and the value of the expression, the guest's    *)
(* 64-bit division, its strings and formatted output, the arithmetic of    *)
(* the emulated NES.  A job is a call; its answer is compared with the     *)
(* reference.  The job "heap" is a run of calls of malloc and free, the    *)
(* jobs "tables" and "native" are runs of calls that make, change and drop *)
(* address spaces on two of the abstract machine's platforms, "cores" is a *)
(* run of cycles of two in-order cores in turn, and "contexts" is a run of *)
(* three threads of the abstract machine under interrupts.                 *)
(***************************************************************************)
EXTENDS Integers, Sequences, FiniteSets, SequencesExt

CONSTANTS
  Jobs,        \* the calls
  Heap,        \* the guest's heap: [start, end]
  Sizes,       \* sizes asked of malloc
  MaxCalls,    \* bound on the calls of malloc
  Frames,      \* frames mapped into address spaces
  MaxEvents,   \* bound on the misses, flushes and stalls of the cores
  MaxTraps     \* bound on the interrupts of the threads

E == INSTANCE InstTable WITH XLEN <- 16, PMP_NUMBER <- 2, Garbage <- {0}
X == INSTANCE Expr WITH BITS <- 4, MAX_DEPTH <- 35
D == INSTANCE Int64 WITH W <- 4
K == INSTANCE Klib WITH WORD <- 4
N == INSTANCE Nes WITH SCR_W <- 8, SCR_H <- 1, VBLANK <- 2, LAST <- 3

Spaces == {-1, -2}
UserArea == {<<1, 0>>, <<1, 2>>, <<2, 1>>}
KernelArea == <<<<0, 1>>, <<0, 2>>>>
V == INSTANCE PageTables WITH PTLEVELS <- 2, ENTRIES <- 3, Pages <- 1..8
U == INSTANCE NativeVm
P == INSTANCE PipeCores
T == INSTANCE Contexts

Calls == {"heap", "tables", "native", "cores", "contexts"}

VARIABLES
  job, answer,   \* the call and, once it has returned, <<what it returned>>
  last,          \* the allocator's last block
  blocks,        \* the blocks handed out and not freed: [ptr, size]
  calls,         \* calls of malloc
  pt, vm,        \* the page tables, and the page maps on a Unix process
  want,          \* per address space in use, the frames it was told to map
  pipes,         \* the pipelines of the cores
  retired,       \* per core, the number of the next instruction to retire
  turn, events,  \* the core whose cycle is next, and the events so far
  sys,           \* the processor, the kernel stacks and the threads' contexts
  own,           \* per thread, the registers and stack words it wrote
  traps          \* interrupts so far
spaces == <<pt, vm, want>>
cores == <<pipes, retired, turn, events>>
threads == <<sys, own, traps>>
vars == <<job, answer, last, blocks, calls, spaces, cores, threads>>

-----------------------------------------------------------------------------
(***************************************************************************)
(* Expressions as trees: a number, an operator before a number or a        *)
(* bracketed tree, or an operator between two trees.  Written with the     *)
(* brackets C needs.  The last address is not one of memory.               *)
(***************************************************************************)
Num(v) == [op |-> "NUM", v |-> v]
Pre(op, t) == [op |-> op, sub |-> t]
Bin(op, l, r) == [op |-> op, l |-> l, r |-> r]
IsBin(t) == "l" \in DOMAIN t
Unary == {"!", "~", "DEREF"}
Mem == [a \in 0..14 |-> (3 * a + 5) % 16]

RECURSIVE Tokens(_)
Tokens(t) ==
  LET In(sub) == <<X!Op("(")>> \o Tokens(sub) \o <<X!Op(")")>>
      Loose(sub) == IF IsBin(sub) THEN X!find_prior(sub.op) ELSE 0
      mine == X!find_prior(t.op)
  IN IF t.op = "NUM" THEN <<X!Operand(t.v)>>
     ELSE IF t.op \in Unary
          THEN <<X!Op(IF t.op = "DEREF" THEN "*" ELSE t.op)>>
               \o (IF IsBin(t.sub) THEN In(t.sub) ELSE Tokens(t.sub))
          ELSE (IF Loose(t.l) > mine THEN In(t.l) ELSE Tokens(t.l))
               \o <<X!Op(t.op)>>
               \o (IF Loose(t.r) >= mine THEN In(t.r) ELSE Tokens(t.r))

\* The value, X!Failed when something is divided by zero, X!Dead when such a
\* quotient is dereferenced.
RECURSIVE ValueOf(_)
ValueOf(t) ==
  LET l == ValueOf(t.l)
      r == ValueOf(t.r)
  IN IF t.op = "NUM" THEN X!Value(t.v)
     ELSE IF t.op \in Unary
          THEN IF ValueOf(t.sub).success THEN X!Value(X!Apply(t.op, 0, ValueOf(t.sub).val, Mem))
               ELSE IF t.op = "DEREF" THEN X!Dead ELSE X!Failed
     ELSE IF ~l.success THEN l
     ELSE IF ~r.success THEN r
     ELSE IF t.op \in {"/", "%"} /\ r.val = 0 THEN X!Failed
     ELSE X!Value(X!Apply(t.op, l.val, r.val, Mem))

-----------------------------------------------------------------------------
(* What the routines answer *)

Signed8(x) == IF x >= 128 THEN x - 256 ELSE x
Registers(a, v, carry) ==
  [A |-> a, X |-> 0, Y |-> 0, P |-> 32 + carry, op_value |-> v]
Flags(n) == [A |-> n.A, c |-> N!Flag(n, 0), z |-> N!Flag(n, 1),
             v |-> N!Flag(n, 6), n |-> N!Flag(n, 7)]

Answer(j) ==
  CASE j.kind = "word" -> E!ir_decode(j.word)
    [] j.kind = "eval" -> X!expr(Tokens(j.tree), Mem)
    [] j.kind = "udiv" -> [quot |-> D!udivdi3(j.a, j.b), rem |-> D!umoddi3(j.a, j.b)]
    [] j.kind = "div"  -> [D!divmoddi4(j.a, j.b) EXCEPT !.rem = D!moddi3(j.a, j.b)]
    [] j.kind = "zeros" -> <<D!clzdi2(j.a), D!ctzdi2(j.a)>>
    [] j.kind = "move" -> K!memmove(j.m, j.d, j.s, j.n)
    [] j.kind = "copy" -> K!memcpy(j.m, j.d, j.s, j.n)
    [] j.kind = "fill" -> K!memset(j.m, j.d, 9, j.n)
    [] j.kind = "print" -> IF j.hex THEN K!lib_printf(<<37, 120>>, <<j.n>>, 16)
                           ELSE K!sprintf(<<37, 100, 37, 37, 37, 115>>, <<j.n, <<65>>>>)
    [] j.kind = "string" -> LET m == K!strcat(K!strcpy(j.m, 12, 0), 12, 6)
                            IN <<K!strcmp(j.m, 0, 6) < 0, K!strcmp(j.m, 0, 6) = 0,
                                 [i \in 1..K!strlen(m, 12) |-> m[11 + i]]>>
    [] j.kind = "adc" -> Flags(N!cpu_op_adc(Registers(j.a, j.v, j.c)))
    [] j.kind = "sbc" -> Flags(N!cpu_op_sbc(Registers(j.a, j.v, j.c)))

\* The digits of text in the base, as a number.
Read(text, base) ==
  FoldLeft(LAMBDA x, c : x * base + (IF c >= 97 THEN c - 87 ELSE c - 48), 0, text)

\* The string that starts at a.
StringAt(m, a) == LET n == CHOOSE n \in 0..6 : m[a + n] = 0 /\ \A k \in 0..n - 1 : m[a + k] # 0
                  IN [i \in 1..n |-> m[a + i - 1]]

\* C division truncates.
Trunc(a, b) == (IF (a < 0) = (b < 0) THEN 1 ELSE -1) * (K!abs(a) \div K!abs(b))

Sum(j) ==
  LET v == IF j.kind = "adc" THEN j.v ELSE 255 - j.v
      u == j.a + v + j.c
      s == Signed8(j.a) + Signed8(v) + j.c
  IN [A |-> u % 256, c |-> u > 255, z |-> u % 256 = 0, v |-> s \notin -128..127,
      n |-> Signed8(u % 256) < 0]

Copied(j) == [a \in DOMAIN j.m |-> IF a - j.d \in 0..j.n - 1 THEN j.m[j.s + a - j.d] ELSE j.m[a]]

(***************************************************************************)
(* What a call has to answer.  Each kind has a reference of its own that   *)
(* does not follow the routine's steps.                                    *)
(***************************************************************************)
Right(j, r) ==
  CASE j.kind = "word" -> r = j.name
    [] j.kind = "eval" -> LET v == ValueOf(j.tree)
                          IN /\ r.success = v.success /\ r.dead = v.dead
                             /\ v.success => r.val = v.val
    [] j.kind = "udiv" -> r = [quot |-> j.a \div j.b, rem |-> j.a % j.b]
    [] j.kind = "div" -> /\ r.quot = D!SignedDword(D!UnsignedDword(Trunc(j.a, j.b)))
                         /\ r.rem = j.a - Trunc(j.a, j.b) * j.b
    [] j.kind = "zeros" -> j.a \in 2^(7 - r[1])..2^(8 - r[1]) - 1 /\ j.a % 2^r[2] = 0
                             /\ (j.a \div 2^r[2]) % 2 = 1
    [] j.kind \in {"move", "copy"} -> r = Copied(j)
    [] j.kind = "fill" -> r = [a \in DOMAIN j.m |-> IF a - j.d \in 0..j.n - 1 THEN 9 ELSE j.m[a]]
    [] j.kind = "print" ->
         /\ r.ret = Len(r.out)
         /\ IF j.hex THEN Read(r.out, 16) = j.n % 2^16
            ELSE LET text == SubSeq(r.out, 1, Len(r.out) - 2)
                     digits == IF text[1] = 45 THEN Tail(text) ELSE text
                 IN /\ SubSeq(r.out, Len(r.out) - 1, Len(r.out)) = <<37, 65>>
                    /\ (IF text[1] = 45 THEN -1 ELSE 1) * Read(digits, 10) = j.n
                    /\ K!atoi(<<32>> \o digits) = K!abs(j.n)
                    /\ digits[1] = 48 => j.n = 0 /\ text = <<48>>
    [] j.kind = "string" ->
         LET s == StringAt(j.m, 0)
             t == StringAt(j.m, 6)
             first == {i \in 1..6 : j.m[i - 1] # j.m[5 + i]}
             i == CHOOSE i \in first : \A k \in first : i <= k
         IN /\ r[3] = s \o t
            /\ r[2] = (s = t)
            /\ r[1] = (s # t /\ j.m[i - 1] < j.m[5 + i])
    [] j.kind \in {"adc", "sbc"} -> r = Sum(j)

-----------------------------------------------------------------------------
Init ==
  /\ job \in Jobs /\ answer = <<>>
  /\ last = K!malloc_init /\ blocks = {} /\ calls = 0
  /\ pt = V!vme_init /\ vm = U!vme_init /\ want = [a \in {} |-> << >>]
  /\ pipes = P!CoresInit /\ retired = [c \in P!Cores |-> 0] /\ turn = 0 /\ events = 0
  /\ sys = IF job.kind = "contexts" THEN T!ContextsInit(job.p) ELSE <<>>
  /\ own = (IF job.kind = "contexts" THEN T!OwnInit(sys) ELSE <<>>) /\ traps = 0

Call ==
  /\ job.kind \notin Calls /\ answer = <<>>
  /\ answer' = <<Answer(job)>>
  /\ UNCHANGED <<job, last, blocks, calls, spaces, cores, threads>>

Malloc ==
  /\ job.kind = "heap" /\ calls < MaxCalls
  /\ \E size \in Sizes :
       LET r == K!malloc(last, size, Heap) IN
       /\ last' = r.last
       /\ blocks' = IF r.ret = K!NULL THEN blocks ELSE blocks \cup {[ptr |-> r.ret, size |-> size]}
  /\ calls' = calls + 1
  /\ UNCHANGED <<job, answer, spaces, cores, threads>>

Free ==
  /\ \E b \in blocks : last' = K!free(last, b.ptr) /\ blocks' = blocks \ {b}
  /\ UNCHANGED <<job, answer, calls, spaces, cores, threads>>

(***************************************************************************)
(* The calls on address spaces.  A caller maps a page that is not mapped   *)
(* and unmaps one that is; on a Unix process, where no call unmaps, it     *)
(* maps a page once.                                                       *)
(***************************************************************************)
OnSpaces == UNCHANGED <<job, answer, last, blocks, calls, cores, threads>>

Protect ==
  /\ job.kind \in {"tables", "native"}
  /\ \E a \in Spaces \ DOMAIN want :
       /\ want' = [b \in DOMAIN want \cup {a} |->
                     IF b = a THEN [va \in UserArea |-> 0] ELSE want[b]]
       /\ pt' = IF job.kind = "tables" THEN V!protect(pt, a) ELSE pt
  /\ UNCHANGED vm /\ OnSpaces

Map ==
  /\ \E a \in DOMAIN want : \E va \in UserArea, pa \in Frames :
       /\ want[a][va] = 0
       /\ want' = [want EXCEPT ![a] = [@ EXCEPT ![va] = pa]]
       /\ pt' = IF job.kind = "tables" THEN V!map(pt, a, va, pa) ELSE pt
       /\ vm' = IF job.kind = "native" THEN U!map(vm, a, va, pa) ELSE vm
  /\ OnSpaces

Unmap ==
  /\ job.kind = "tables"
  /\ \E a \in DOMAIN want : \E va \in UserArea :
       /\ want[a][va] # 0
       /\ want' = [want EXCEPT ![a] = [@ EXCEPT ![va] = 0]]
       /\ pt' = V!map(pt, a, va, 0)
  /\ UNCHANGED vm /\ OnSpaces

Unprotect ==
  /\ job.kind = "tables"
  /\ \E a \in DOMAIN want :
       /\ want' = [b \in DOMAIN want \ {a} |-> want[b]]
       /\ pt' = V!unprotect(pt, a)
  /\ UNCHANGED vm /\ OnSpaces

Switch ==
  /\ job.kind = "native"
  /\ \E a \in DOMAIN want \cup {U!NONE} : vm' = U!__am_switch(vm, a)
  /\ UNCHANGED <<pt, want>> /\ OnSpaces

(***************************************************************************)
(* exec() gives the cores their cycles in turn; when a watchpoint stops    *)
(* it, the next exec() begins with core 0 again.                           *)
(***************************************************************************)
Cycle ==
  /\ job.kind = "cores"
  /\ \E ev \in SUBSET {"miss", "flush", "stall"} :
       LET in == P!Installed(pipes, turn)
           live == in[P!cpu_pipe].mem_stall_rem = 0
           out == P!At(in, in[P!cpu_pipe].wb)
       IN /\ events + Cardinality(ev) <= MaxEvents
          /\ IF live THEN P!Possible(in, ev) ELSE ev = {}
          /\ pipes' = P!pipeline_cycle_core(pipes, turn, ev)
          /\ retired' = IF live /\ out # P!Bubble
                        THEN [retired EXCEPT ![turn] = (@ + 1) % P!NUMBERS] ELSE retired
          /\ events' = events + Cardinality(ev)
  /\ turn' \in {1 - turn, 0}
  /\ UNCHANGED <<job, answer, last, blocks, calls, spaces, threads>>

(***************************************************************************)
(* The threads: what they do between interrupts, the interrupts, and the   *)
(* handler, which runs with interrupts disabled.                           *)
(***************************************************************************)
OnThreads == UNCHANGED <<job, answer, last, blocks, calls, spaces, cores>>
Writes(stack, red) ==
  own' = [own EXCEPT ![sys.now] = [r |-> sys'.r, stack |-> stack, red |-> red]]

Start ==
  /\ job.kind = "contexts" /\ sys.r.pc = T!kcontext_start
  /\ sys' = T!am_kcontext_start(sys)
  /\ Writes([i \in 1..T!Top(2) - sys'.r.sp |-> sys'.mem[sys'.r.sp + i - 1]], <<>>)
  /\ UNCHANGED traps /\ OnThreads

Work ==
  /\ job.kind = "contexts" /\ T!Running(sys)
  /\ LET stack == own[sys.now].stack
         inUser == sys.now = T!User
     IN \/ /\ T!Depth(sys) < T!DEPTH
           /\ sys' = T!Enter(sys)
           /\ Writes(IF inUser THEN stack ELSE <<sys'.mem[sys'.r.sp]>> \o stack,
                     IF inUser \/ job.p # "native" THEN <<>> ELSE <<5, 6>>)
        \/ /\ T!Depth(sys) > 0
           /\ sys' = T!Leave(sys)
           /\ Writes(IF inUser THEN stack ELSE Tail(stack), <<>>)
        \/ /\ ~inUser /\ T!Depth(sys) = 0
           /\ sys' = T!iset(sys, sys.r.flags = 0)
           /\ Writes(stack, own[sys.now].red)
  /\ UNCHANGED traps /\ OnThreads

Arrive ==
  /\ job.kind = "contexts" /\ traps < MaxTraps
  /\ \E irq \in T!Arriving(sys) :
       /\ sys' = T!Arrive(sys, irq)
       /\ own' = [own EXCEPT ![sys.now] = [@ EXCEPT !.r = [@ EXCEPT !.pc = @ + T!Passed(sys, irq)]]]
  /\ traps' = traps + 1
  /\ OnThreads

Handle ==
  /\ job.kind = "contexts" /\ T!AtHandler(sys)
  /\ \E next \in T!GoesOn(sys) : sys' = T!Handle(sys, next)
  /\ UNCHANGED <<own, traps>> /\ OnThreads

Next == Call \/ Malloc \/ Free \/ Protect \/ Map \/ Unmap \/ Unprotect \/ Switch
        \/ Cycle \/ Start \/ Work \/ Arrive \/ Handle
Spec == Init /\ [][Next]_vars

(***************************************************************************)
(* The decoder finds the instruction of the pattern table (ir.c:163-164    *)
(* "The instruction pattern table from include/cpu/inst_table.inc is       *)
(* included"), for every row but srai's and fence_i's.  The evaluator      *)
(* gives an expression the value its tree has, fails when it divides by    *)
(* zero, and ends the simulator when it dereferences what failed.          *)
(* Division, zero counts, moves, strings, printed numbers and the NES's    *)
(* sums are those of the references.                                       *)
(***************************************************************************)
AnswersRight == answer # <<>> => Right(job, answer[1])

(***************************************************************************)
(* The blocks malloc has handed out and free not taken back do not meet,   *)
(* and lie in the heap, whatever was asked for, refused and freed between. *)
(***************************************************************************)
BlocksDisjoint ==
  /\ \A b \in blocks : Heap.start <= b.ptr /\ b.ptr + b.size <= Heap.end
  /\ \A b, c \in blocks : b # c => b.ptr + b.size <= c.ptr \/ c.ptr + c.size <= b.ptr

(***************************************************************************)
(* Every address space translates the user's pages to the frames it was    *)
(* told to map, and the kernel's to themselves, whatever was mapped,       *)
(* unmapped and dropped in the others; no call panics (vme.c panics on     *)
(* "remapping a mapped page" and when it "cannot allocate page"), so that  *)
(* dropping an address space gives all of its tables back and never the    *)
(* kernel's.  A Unix process has the pages of the current address space    *)
(* and no others, and, no page being mapped twice, switching comes to an   *)
(* end.                                                                    *)
(***************************************************************************)
SpacesRight ==
  /\ ~pt.panic /\ ~vm.hangs
  /\ job.kind = "tables" =>
       /\ \A a \in DOMAIN want :
            /\ \A va \in UserArea : V!Translate(pt, a, va) = want[a][va]
            /\ \A i \in 1..Len(KernelArea) :
                 V!Translate(pt, a, KernelArea[i]) = V!Frame(KernelArea[i])
       /\ DOMAIN want = {} => DOMAIN pt.mem = DOMAIN V!vme_init.mem
  /\ job.kind = "native" =>
       \A va \in UserArea :
         vm.process[va] = IF vm.vm_head = U!NONE THEN U!NONE ELSE want[vm.vm_head][va]

(***************************************************************************)
(* The four latches of a core are four different slots of cpu_pipe, where  *)
(* the stages look for them, though the pointers are copied with the       *)
(* structure in every cycle and pipeline_fix_ptrs finds none to correct;   *)
(* and from WB to ID the latches hold the core's own instructions from the *)
(* next one to retire on, in order, none twice and none missing, whatever  *)
(* the other core's misses, flushes and stalls.                            *)
(***************************************************************************)
LatchesOwn ==
  \A c \in P!Cores :
    LET in == P!Installed(pipes, c)
        g == in[P!cpu_pipe]
        order == <<g.wb, g.mem, g.ex, g.id>>
        held == SelectSeq([i \in 1..4 |-> P!At(in, order[i])], LAMBDA x : x # P!Bubble)
    IN /\ {order[i] : i \in 1..4} = {<<P!cpu_pipe, i>> : i \in 0..3}
       /\ \A i \in 1..Len(held) : held[i] = <<c, (retired[c] + i - 1) % P!NUMBERS>>

(***************************************************************************)
(* A thread that goes on after an interrupt, a yield, a system call or a   *)
(* page fault has the registers, the interrupt flag and the stack it had,  *)
(* a thread on a Unix process its red zone and a user thread its address   *)
(* space too, whichever threads ran between and though on x86 one more     *)
(* interrupt may come before the first is masked; a new kernel thread      *)
(* starts with its entry and argument though the frame it returns through  *)
(* overlaps its Context.                                                   *)
(***************************************************************************)
ContextsResume ==
  job.kind = "contexts" /\ ~T!AtHandler(sys) => T!Intact(sys, own[sys.now])
=============================================================================
