------------------------------ MODULE Contexts ------------------------------
(***************************************************************************)
(* Contexts of the abstract machine: how a thread is interrupted, what its *)
(* Context keeps and how it goes on (am/am/src/x86/qemu/cte.c, trap32.S    *)
(* and trap64.S; am/am/src/native/cte.c).  Memory is the kernel stacks, in *)
(* words.  Register names are those of the platform but for pc, sp and     *)
(* flags; cr3 is vm_head and sp0 is ksp on a Unix process, where flags is  *)
(* 0 when the interrupts' signals are blocked.                             *)
(***************************************************************************)
EXTENDS Integers, Sequences, TLC

Threads == 1..3     \* the boot thread, one made by kcontext, one by ucontext
User    == 3
STACK   == 48       \* words of a kernel stack
DEPTH   == 2        \* calls a thread may have open

KCODE == 8
KDATA == 16
UCODE == 27
UDATA == 35
FL_IF == 512
EX_PF == 14
TIMER == 32
KBD   == 33
COM1  == 36
EX_SYSCALL == 128
EX_YIELD == 129

KernelTables == 70  \* what cr3 holds before a user thread has run
UserTables   == 80
kcontext_start == 1
panic_on_return == 2
Stub(irq) == 100 + irq
irq_handle == 99
Code(t, d) == 1000 * t + 10 * d
Argument == 7
uvm_area_end == 3990
Top(t) == 100 * t   \* kstack.end

-----------------------------------------------------------------------------
(* struct Context, field by field *)

Context32 ==
  <<"cr3", "ds", "eax", "ebx", "ecx", "edx", "sp0", "esi", "edi", "ebp",
    "pc", "cs", "flags", "sp", "ss">>
Context64 ==
  <<"cr3", "rax", "rbx", "rcx", "rdx", "rbp", "rsi", "rdi", "r8", "r9", "r10", "r11",
    "r12", "r13", "r14", "r15", "pc", "cs", "flags", "sp", "ss", "sp0">>
ContextNative ==
  <<"sp0", "cr3", "rdi", "rsi", "rbx", "rax", "pc", "sp", "flags">>
Context(p) ==
  IF p = "x86" THEN Context32 ELSE IF p = "x86_64" THEN Context64 ELSE ContextNative

\* Words after the fields: on a Unix process, the red zone of the thread.
Redzone(p) == IF p = "native" THEN 2 ELSE 0

Sizeof(p) == Len(Context(p)) + Redzone(p)
Offset(p, f) == (CHOOSE i \in 1..Len(Context(p)) : Context(p)[i] = f) - 1
Get(s, c, f) == s.mem[c + Offset(s.p, f)]
Fields(p) == {Context(p)[i] : i \in 1..Len(Context(p))}
General(p) == SelectSeq(Context(p), LAMBDA f : f \notin {"cr3", "sp0", "ds", "pc", "cs", "flags", "sp", "ss"})

\* Fields of the Context at c, given as a function of their names.
PutAll(s, c, vals) ==
  LET names == Context(s.p)
      put == {i \in 1..Len(names) : names[i] \in DOMAIN vals}
  IN [s EXCEPT !.mem = [a \in DOMAIN @ |-> IF a - c + 1 \in put THEN vals[names[a - c + 1]] ELSE @[a]]]

GPR1(p) == IF p = "x86" THEN "eax" ELSE "rdi"
GPR2(p) == IF p = "x86" THEN "ebx" ELSE "rsi"

\* Fields of the Context at the end of t's kernel stack.
Made(s, t, vals) == PutAll(s, Top(t) - Sizeof(s.p), vals)

kcontext(s, t) ==
  Made(s, t, [f \in Fields(s.p) |->
                CASE f = "pc" -> kcontext_start
                  [] f = "flags" -> FL_IF
                  [] f = "sp" -> Top(t)
                  [] f = "cs" -> KCODE
                  [] f = "ds" -> KDATA
                  [] f = GPR1(s.p) -> Argument
                  [] f = GPR2(s.p) -> Code(t, 0)
                  [] OTHER -> 0])

ucontext(s, t) ==
  Made(s, t, [f \in Fields(s.p) |->
                CASE f = "pc" -> Code(t, 0)
                  [] f = "flags" -> FL_IF
                  [] f = "sp" -> uvm_area_end
                  [] f = "cs" -> UCODE
                  [] f \in {"ds", "ss"} -> UDATA
                  [] f = "sp0" -> Top(t)
                  [] f = "cr3" -> UserTables
                  [] OTHER -> 0])

\* On a Unix process; other registers are those of an example, and the ksp of
\* a kernel thread is what the memory held.
Example == [rbx |-> 0, rax |-> 0, rdi |-> 0, rsi |-> 0]
kcontext_native(s, t) ==
  Made(s, t, [Example EXCEPT !.rdi = Argument, !.rsi = Code(t, 0)]
             @@ [pc |-> kcontext_start, sp |-> Top(t), flags |-> FL_IF, cr3 |-> 0])
ucontext_native(s, t) ==
  Made(s, t, Example @@ [pc |-> Code(t, 0), sp |-> uvm_area_end, flags |-> FL_IF,
                         cr3 |-> UserTables, sp0 |-> Top(t)])

-----------------------------------------------------------------------------
(* The stack *)

Set(s, reg, v) == [s EXCEPT !.r = [@ EXCEPT ![reg] = v]]
skip(s, n) == Set(s, "sp", s.r.sp + n)
PushAll(s, vs) ==
  LET sp == s.r.sp IN
  [skip(s, -Len(vs)) EXCEPT !.mem = [a \in DOMAIN @ |->
     IF a < sp /\ sp - a <= Len(vs) THEN vs[sp - a] ELSE @[a]]]
PopAll(s, regs) ==
  [s EXCEPT !.r = [x \in DOMAIN @ |->
     IF x = "sp" THEN @[x] + Len(regs)
     ELSE IF \E i \in 1..Len(regs) : regs[i] = x
     THEN s.mem[@.sp + (CHOOSE i \in 1..Len(regs) : regs[i] = x) - 1] ELSE @[x]]]

\* What C code running on the stack below c may overwrite.
Scribble(s, c) ==
  [s EXCEPT !.mem = [a \in DOMAIN @ |-> IF a < c /\ a \div 100 = (c - 1) \div 100 THEN 0 ELSE @[a]]]

-----------------------------------------------------------------------------
(* x86 *)

InUser(s) == s.r.cs % 4 # 0

\* The processor takes an interrupt, an exception or an int instruction.
Interrupt(s, irq) ==
  LET sp == IF InUser(s) THEN s.sp0 ELSE s.r.sp
      long == s.p = "x86_64"
      frame == (IF InUser(s) \/ long THEN <<s.r.ss, s.r.sp>> ELSE <<>>)
               \o <<s.r.flags, s.r.cs, s.r.pc>> \o (IF irq = EX_PF THEN <<irq>> ELSE <<>>)
      in == PushAll(Set(s, "sp", IF long THEN sp - (sp % 2) ELSE sp), frame)
      ss == IF ~InUser(s) THEN s.r.ss ELSE IF long THEN 0 ELSE KDATA
  IN [in EXCEPT !.r = [@ EXCEPT !.cs = KCODE, !.pc = Stub(irq), !.ss = ss],
                !.service = @ \/ irq \in {TIMER, KBD}]

Irq(s) == s.r.pc - Stub(0)

\* A trap gate leaves interrupts enabled up to the stub's cli.
Vector(s) ==
  PushAll(Set(s, "flags", 0), (IF Irq(s) = EX_PF THEN <<>> ELSE <<0>>) \o <<Irq(s)>>)

\* "0" stands for pushl $0.
Pushes(s, names) ==
  PushAll(s, [i \in 1..Len(names) |-> IF names[i] = "0" THEN 0 ELSE s.r[names[i]]])

trap32(s) ==
  LET n == Pushes(skip(Vector(s), -5),
                  <<"ebp", "edi", "esi", "0", "edx", "ecx", "ebx", "eax", "ds", "0">>)
  IN Set(Set(n, "ds", KDATA), "ss", KDATA)

trap64(s) ==
  Pushes(skip(Vector(s), -6),
         <<"r15", "r14", "r13", "r12", "r11", "r10", "r9", "r8", "rdi", "rsi", "rbp", "rdx",
           "rcx", "rbx", "rax", "0">>)

\* saved_context of the trap frame at tf.
SaveContext(s, tf) ==
  LET f(i) == s.mem[tf + Sizeof(s.p) + i]
      sp == IF s.p = "x86_64" \/ f(3) % 4 # 0 THEN f(5) ELSE tf + Sizeof(s.p) + 5
      ss == IF s.p = "x86_64" THEN f(6) ELSE UDATA
  IN PutAll(s, tf, [pc |-> f(2), cs |-> f(3), flags |-> f(4), sp |-> sp, ss |-> ss,
                    sp0 |-> s.sp0, cr3 |-> s.cr3])

user_iret(s) ==
  PopAll(skip(PopAll(s, <<"eax", "ebx", "ecx", "edx">>), 1),
         <<"esi", "edi", "ebp", "pc", "cs", "flags">>)

\* Mutant: the frame is moved from its lowest word up.
MoveFrame_Up(mem, from, to) ==
  LET moved[k \in 0..6] ==
        LET m == moved[k - 1] IN
        IF k = 0 THEN mem ELSE [m EXCEPT ![to - 7 + k] = m[from + k - 1]]
  IN moved[6]

\* esi to eflags, from the Context to the stack that the thread goes on with,
\* word by word from the last.
MoveFrame(mem, from, to) ==
  LET moved[k \in 0..6] ==
        LET m == moved[k - 1] IN
        IF k = 0 THEN mem ELSE [m EXCEPT ![to - k] = m[from + 6 - k]]
  IN moved[6]

kernel_iret(s) ==
  LET n == skip(PopAll(s, <<"eax", "ebx", "ecx", "edx">>), 1)
      esp == n.mem[n.r.sp + 6]
      moved == [n EXCEPT !.mem = MoveFrame(@, n.r.sp, esp)]
  IN PopAll(Set(moved, "sp", esp - 6), <<"esi", "edi", "ebp", "pc", "cs", "flags">>)

iret32(s, c) ==
  LET n == PopAll(Set(s, "sp", c + 1), <<"ds">>)
      u == user_iret(n)
  IN IF n.mem[n.r.sp + 9] = KCODE THEN kernel_iret(n)
     ELSE [u EXCEPT !.r = [@ EXCEPT !.sp = u.mem[u.r.sp], !.ss = u.mem[u.r.sp + 1]]]

iret64(s, c) ==
  LET n == PopAll(Set(s, "sp", c + 1),
                  <<"rax", "rbx", "rcx", "rdx", "rbp", "rsi", "rdi", "r8", "r9", "r10", "r11",
                    "r12", "r13", "r14", "r15", "pc", "cs", "flags">>)
  IN [n EXCEPT !.r = [@ EXCEPT !.sp = n.mem[n.r.sp], !.ss = n.mem[n.r.sp + 1]]]

Event(irq) ==
  CASE irq = TIMER -> "IRQ_TIMER"
    [] irq \in {KBD, COM1} -> "IRQ_IODEV"
    [] irq = EX_SYSCALL -> "SYSCALL"
    [] irq = EX_YIELD -> "YIELD"
    [] irq = EX_PF -> "PAGEFAULT"
    [] OTHER -> "ERROR"

\* The stub, trap and __am_irq_handle, whose user_handler goes on with thread next.
am_irq_handle(s, next) ==
  LET in == IF s.p = "x86" THEN trap32(s) ELSE trap64(s)
      tf == in.r.sp
      saved == Scribble(SaveContext(in, tf), tf)
      ret == IF next = s.now THEN tf ELSE s.ctx[next]
      n == [saved EXCEPT !.service = @ /\ Irq(s) \notin TIMER..TIMER + 31,
                         !.ctx = [@ EXCEPT ![s.now] = tf], !.now = next]
      out == IF Get(n, ret, "cr3") = 0 THEN n
             ELSE [n EXCEPT !.cr3 = Get(n, ret, "cr3"), !.sp0 = Get(n, ret, "sp0")]
  IN IF s.p = "x86" THEN iret32(out, ret) ELSE iret64(out, ret)

-----------------------------------------------------------------------------
(* A Unix process: interrupts are signals *)

SYSCALL_INSTR_LEN == 7
Blocked == 0

am_in_userspace(s) == s.cr3 # 0 /\ s.r.pc >= Code(User, 0)

\* Code of a shared library: the innermost call of a kernel thread.
signal_safe(s) == am_in_userspace(s) \/ s.r.pc % 1000 < 10 * DEPTH

\* The thread goes on in irq_handle, on its kernel stack.
setup_stack(s, event) ==
  LET pc == IF event = "SYSCALL" THEN s.r.pc + SYSCALL_INSTR_LEN ELSE s.r.pc
      room == (IF am_in_userspace(s) THEN s.sp0 ELSE s.r.sp) - Sizeof(s.p)
      c == IF (room + 1) % 2 # 0 THEN room - 1 ELSE room
      in == PutAll(s, c, [s.r EXCEPT !.pc = pc])
  IN IF event \in {"IRQ_TIMER", "IRQ_IODEV"} /\ ~signal_safe(s) THEN s
     ELSE [in EXCEPT !.r = [@ EXCEPT !.rdi = c, !.pc = irq_handle, !.sp = c, !.flags = Blocked]]

\* A SIGSEGV is a system call at 0x100000 and a page fault in user space.
sig_handler(s, sig) ==
  LET event == CASE sig = "SIGUSR1" -> "IRQ_IODEV"
                 [] sig = "SIGUSR2" -> "YIELD"
                 [] sig = "SIGVTALRM" -> "IRQ_TIMER"
                 [] sig = "0x100000" -> "SYSCALL"
                 [] sig = "SIGSEGV" -> "PAGEFAULT"
  IN setup_stack([s EXCEPT !.ev = event], event)

\* The signal of the call of 0x100008.
iret(s, c) ==
  [s EXCEPT !.r = [x \in DOMAIN @ |-> Get(s, c, x)], !.sp0 = Get(s, c, "sp0")]

\* irq_handle, whose user_handler goes on with thread next.
HandleSignal(s, next) ==
  LET c == s.r.rdi
      saved == Scribble(PutAll(s, c, [cr3 |-> s.cr3, sp0 |-> s.sp0]), c)
      ret == IF next = s.now THEN c ELSE s.ctx[next]
  IN iret([saved EXCEPT !.ctx = [@ EXCEPT ![s.now] = c], !.now = next,
                        !.cr3 = Get(saved, ret, "cr3")], ret)

-----------------------------------------------------------------------------
(***************************************************************************)
(* The threads.  A thread that enters or leaves a call loads all general   *)
(* registers with values of its own; a kernel thread keeps a word on its   *)
(* stack, and on a Unix process words in the red zone.  What it has so     *)
(* written, and where it is, is o = [r, stack, red].                       *)
(***************************************************************************)
Loaded(p, t, d, r) ==
  [x \in DOMAIN r |-> IF x \in {General(p)[i] : i \in 1..Len(General(p))}
                      THEN 10 * Code(t, d) + (CHOOSE i \in 1..Len(General(p)) : General(p)[i] = x)
                      ELSE r[x]]
Depth(s) == (s.r.pc % 1000) \div 10
Running(s) == s.r.pc >= Code(1, 0)

Registers(p) == Fields(p) \ {"cr3", "sp0"}

Machine(p) ==
  LET r == [x \in Registers(p) |->
              CASE x = "pc" -> Code(1, 0)
                [] x = "sp" -> Top(1)
                [] x = "flags" -> 0
                [] x = "cs" -> KCODE
                [] OTHER -> KDATA]
  IN [p |-> p, r |-> Loaded(p, 1, 0, r),
      mem |-> [a \in UNION {Top(t) - STACK..Top(t) - 1 : t \in Threads} |-> 0],
      sp0 |-> 0, cr3 |-> IF p = "native" THEN 0 ELSE KernelTables,
      service |-> FALSE, ev |-> "NULL", now |-> 1,
      ctx |-> [t \in Threads |-> Top(t) - Sizeof(p)]]

ContextsInit(p) ==
  LET s == Machine(p) IN
  IF p = "native" THEN ucontext_native(kcontext_native(s, 2), 3) ELSE ucontext(kcontext(s, 2), 3)

\* What a thread not yet run expects: what its Context was made with.
Own(s, t) ==
  [r |-> IF t = s.now THEN s.r ELSE [x \in Registers(s.p) |-> Get(s, s.ctx[t], x)],
   stack |-> <<>>, red |-> <<>>]
OwnInit(s) ==
  [t \in Threads |->
     IF t = 2 /\ s.p = "x86" THEN [Own(s, t) EXCEPT !.r = [@ EXCEPT !.ss = KDATA]] ELSE Own(s, t)]

kcontext_start32(s) == Set(PushAll(s, <<s.r.eax, panic_on_return>>), "pc", s.r.ebx)
kcontext_start64(s) == Set(PushAll(s, <<panic_on_return>>), "pc", s.r.rsi)
kcontext_start_native(s) ==
  Set(PushAll(skip(s, -(s.r.sp % 2)), <<panic_on_return>>), "pc", s.r.rsi)
am_kcontext_start(s) ==
  CASE s.p = "x86" -> kcontext_start32(s)
    [] s.p = "x86_64" -> kcontext_start64(s)
    [] s.p = "native" -> kcontext_start_native(s)

\* A kernel thread's code overwrites the stack below its frame.
Enter(s) ==
  LET t == s.now
      n == IF t = User THEN s
           ELSE LET in == PushAll(s, <<Code(t, Depth(s))>>) IN Scribble(in, in.r.sp)
      at == [n EXCEPT !.r = [Loaded(s.p, t, Depth(s) + 1, @) EXCEPT !.pc = Code(t, Depth(s) + 1)]]
  IN IF s.p = "native" /\ t # User
     THEN [at EXCEPT !.mem = [@ EXCEPT ![at.r.sp - 1] = 5, ![at.r.sp - 2] = 6]] ELSE at

Leave(s) ==
  LET t == s.now
      n == IF t = User THEN s ELSE Scribble(skip(s, 1), s.r.sp + 1)
  IN [n EXCEPT !.r = [Loaded(s.p, t, Depth(s) - 1, @) EXCEPT !.pc = Code(t, Depth(s) - 1)]]

iset(s, enable) == Set(s, "flags", IF enable THEN FL_IF ELSE 0)

AtHandler(s) == s.r.pc \in irq_handle..Stub(EX_YIELD)

\* The interrupts that may come: one of a device where they are enabled, and
\* what the instruction at hand raises, once in a call.
Device(p) == IF p = "native" THEN "SIGVTALRM" ELSE IF p = "x86" THEN KBD ELSE TIMER
Raised(s) ==
  CASE s.p = "native" /\ s.now = User -> {"0x100000", "SIGSEGV"}
    [] s.p = "native" /\ s.now # User -> {"SIGUSR2"}
    [] s.p # "native" /\ s.now = User -> {EX_SYSCALL, EX_PF}
    [] s.p # "native" /\ s.now # User -> {EX_YIELD}
Arriving(s) ==
  (IF s.r.flags = FL_IF /\ ~s.service THEN {Device(s.p)} ELSE {})
  \cup (IF Running(s) /\ s.r.pc % 10 = 0 THEN Raised(s) ELSE {})

\* How far the thread's own instruction takes it: an int instruction has been
\* passed when its interrupt is taken, and the handler passes a system call.
INT_LEN == 2
Passed(s, irq) ==
  IF s.p = "native" THEN IF irq = "0x100000" THEN SYSCALL_INSTR_LEN ELSE 0
  ELSE IF irq \in {EX_SYSCALL, EX_YIELD} THEN INT_LEN ELSE 0
Arrive(s, irq) ==
  IF s.p = "native" THEN sig_handler(s, irq)
  ELSE Interrupt(Set(s, "pc", s.r.pc + Passed(s, irq)), irq)

\* The user_handler of these threads serves a system call or a page fault and
\* goes on with the thread; else it goes on with any.
GoesOn(s) ==
  LET ev == IF s.p = "native" THEN s.ev ELSE Event(Irq(s)) IN
  IF ev \in {"SYSCALL", "PAGEFAULT"} THEN {s.now} ELSE Threads
Handle(s, next) == IF s.p = "native" THEN HandleSignal(s, next) ELSE am_irq_handle(s, next)

\* The thread that runs finds what it wrote, and its own tables if a user's.
Intact(s, o) ==
  /\ \A x \in DOMAIN o.r : s.r[x] = o.r[x]
  /\ \A i \in 1..Len(o.stack) : s.mem[s.r.sp + i - 1] = o.stack[i]
  /\ \A i \in 1..Len(o.red) : s.mem[s.r.sp - i] = o.red[i]
  /\ s.now = User => s.cr3 = UserTables
  /\ ~s.service
=============================================================================
