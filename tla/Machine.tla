------------------------------ MODULE Machine ------------------------------
(***************************************************************************)
(* The simulator as a whole: main and its command line, the monitor's      *)
(* command loop (src/monitor/sdb.c), the loops of exec (src/cpu/exec.c)    *)
(* that run an engine, check the watchpoints and poll the window's events, *)
(* and the devices.  What the engines do is in the modules Exec, Pipeline, *)
(* OooCore and Lsu; here an iteration of the loop runs any instruction.    *)
(* Registers are those a watchpoint may name, with few values.             *)
(***************************************************************************)
EXTENDS Devices, Watch, FiniteSets

CONSTANTS
  Modes,        \* engines of the runs: "functional", "inorder", "ooo", "multi"
  SiCounts,     \* arguments given to si
  MaxEvents,    \* bound on the events that wait in the window
  Users         \* bounds on the user: [watches, keys], whether there are watchpoints
                \* and how many keys are pressed and released

VARIABLES
  user,         \* the bounds of this run
  mode,         \* the loop of exec that runs
  batch,        \* is_batch_mode
  at,           \* "prompt", "exec", or how the process ended: "exit", "dead"
  state, bad,   \* nemu_state and is_bad
  left,         \* instructions exec has to run yet, ALL for exec(-1)
  hart,         \* the core that runs next
  regs,         \* per core, the registers
  cpu,          \* the core whose registers are in the global cpu
  wp,           \* the watchpoints
  d,            \* the devices
  events,       \* the window's events, oldest first
  accepted,     \* history: the keys send_key let in
  got           \* history: the keys that were read
vars == <<user, mode, batch, at, state, bad, left, hart, regs, cpu, wp, d, events, accepted, got>>

ALL == -1
Values == 0..1
Regs == {"pc", "a0"}
NUM_CORES == IF mode = "multi" THEN 2 ELSE 1
KBD == (CHOOSE i \in DOMAIN maps : maps[i].name = "keyboard")
Port == maps[KBD].low
Quit == [type |-> "quit", key |-> 0, down |-> FALSE]
Events == {Quit} \cup [type : {"key"}, key : Keymap, down : BOOLEAN]
          \cup [type : {"key"}, key : {99}, down : {TRUE}]

(***************************************************************************)
(* main: options choose the engine; the process starts at the prompt, or   *)
(* in batch mode with exec(-1).  state is 0, NEMU_RUNNING, from the start. *)
(***************************************************************************)
Init ==
  /\ user \in Users /\ mode \in Modes /\ batch \in BOOLEAN
  /\ at = IF batch THEN "exec" ELSE "prompt"
  /\ state = "RUNNING" /\ bad = FALSE
  /\ left = ALL /\ hart = 0 /\ cpu = 0
  /\ regs = [c \in 0..1 |-> [r \in Regs |-> 0]]
  /\ wp = init_wp_pool /\ d = init_devices
  /\ events = << >> /\ accepted = << >> /\ got = << >>

(***************************************************************************)
(* The window: an event arrives.                                           *)
(***************************************************************************)
Keys == Cardinality({i \in DOMAIN events : events[i].type = "key"}) + Len(accepted)
Window ==
  /\ at \in {"prompt", "exec"} /\ Len(events) < MaxEvents
  /\ \E e \in Events : (e.type = "key" => Keys < user.keys) /\ events' = Append(events, e)
  /\ UNCHANGED <<user, mode, batch, at, state, bad, left, hart, regs, cpu, wp, d, accepted, got>>

-----------------------------------------------------------------------------
(***************************************************************************)
(* One iteration, as operators on a record m of the variables it changes.  *)
(***************************************************************************)
M == [state |-> state, bad |-> bad, regs |-> regs, wp |-> wp, d |-> d, events |-> events,
      accepted |-> accepted, got |-> got]

\* A read of the keyboard's register, by the guest or by the monitor.
Reads(m, addr) ==
  LET e == paddr_read(m.d, addr)
  IN [m EXCEPT !.d = e,
               !.got = IF addr = Port /\ e.space[Port] # KEY_NONE THEN Append(@, e.space[Port]) ELSE @]

\* What an instruction of core c may do, beside moving pc: write a register,
\* reach a device, end the program (ebreak) or be refused (INV, PMP).
Ops == {[op |-> "alu", addr |-> 0, val |-> v] : v \in Values}
       \cup [op : {"load", "store"}, addr : Addresses \cup {MBASE + MSIZE}, val : {0}]
       \cup {[op |-> o, addr |-> 0, val |-> 0] : o \in {"ebreak", "fault"}}

Runs(m, c, i, pc) ==
  LET r == [m EXCEPT !.regs[c].pc = pc]
  IN CASE i.op = "alu"    -> [r EXCEPT !.regs[c].a0 = i.val]
       [] i.op = "load"   -> Reads(r, i.addr)
       [] i.op = "store"  -> [r EXCEPT !.d = paddr_write(@, i.addr, i.val)]
       [] i.op = "ebreak" -> [r EXCEPT !.state = "END"]
       [] i.op = "fault"  -> [r EXCEPT !.state = "ABORT", !.bad = TRUE]

\* wp_any_active() && check_wp() && state != NEMU_ABORT
Checks(m, c) ==
  LET w == IF wp_any_active(m.wp) THEN check_wp(m.wp, m.regs[c]) ELSE m.wp
  IN [m EXCEPT !.wp = w, !.state = IF w # m.wp /\ @ # "ABORT" THEN "STOP" ELSE @]

\* The events, in the order in which they came, until none is left.
PollEvent(m, e) ==
  IF e.type = "quit" THEN [m EXCEPT !.state = "QUIT"]
  ELSE LET running == m.state = "RUNNING"
       IN [m EXCEPT !.d = send_key(@, running, e.key, e.down),
                    !.accepted = IF Accepts(running, e.key) THEN Append(@, Code(e.key, e.down)) ELSE @]
Polls(m) ==
  LET f[i \in 0..Len(m.events)] == IF i = 0 THEN m ELSE PollEvent(f[i - 1], m.events[i])
  IN [f[Len(m.events)] EXCEPT !.events = << >>]
PollsOrNot(m) == {m, Polls(m)}      \* 1/60 s may have passed or not

-----------------------------------------------------------------------------
(***************************************************************************)
(* The loops of exec.  m is what an iteration left, n what is left to run  *)
(* and next the core whose turn it is; exec goes on, or returns to the     *)
(* monitor, which leaves on NEMU_QUIT.                                     *)
(***************************************************************************)
Loop(m, n, next) ==
  /\ state' = m.state /\ bad' = m.bad /\ regs' = m.regs /\ wp' = m.wp /\ d' = m.d
  /\ events' = m.events /\ accepted' = m.accepted /\ got' = m.got
  /\ left' = n /\ hart' = next /\ cpu' = hart
  /\ at' = CASE m.d.dead -> "dead"
             [] ~m.d.dead /\ m.state = "RUNNING" /\ (n # 0 \/ next # 0) -> "exec"
             [] OTHER -> IF batch \/ m.state = "QUIT" THEN "exit" ELSE "prompt"
  /\ UNCHANGED <<user, mode, batch>>

Less(k) == IF left = ALL THEN ALL ELSE IF k > left THEN 0 ELSE left - k

\* exec_once, whose last part polls; then the watchpoints.
FunctionalStep ==
  /\ at = "exec" /\ mode = "functional"
  /\ \E i \in Ops : \E m \in PollsOrNot(Runs(M, 0, i, 1 - regs[0].pc)) :
       Loop(Checks(m, 0), Less(1), 0)

\* A cycle of the in-order pipeline or of the out-of-order engine, which may
\* finish no instruction; the watchpoints; then the events.
CycleStep ==
  /\ at = "exec" /\ mode \in {"inorder", "ooo"}
  /\ \E i \in Ops, pc \in Values, insts \in 0..(IF mode = "ooo" THEN 2 ELSE 1) :
       \E m \in PollsOrNot(Checks(Runs(M, 0, i, pc), 0)) : Loop(m, Less(insts), 0)

\* core_cycle, of each core in turn: each cycle counts, the count is looked at
\* when all the cores have had theirs, and no event is polled.
MultiStep ==
  /\ at = "exec" /\ mode = "multi"
  /\ \E i \in Ops, pc \in Values :
       Loop(Checks(Runs(M, hart, i, pc), hart), Less(1), (hart + 1) % NUM_CORES)

-----------------------------------------------------------------------------
(***************************************************************************)
(* sdbloop: before a command runs, the events that wait are thrown away.   *)
(***************************************************************************)
Prompt == at = "prompt" /\ events' = << >>

\* exec(n) up to its loop: a program that has ended is not run.
exec(n) ==
  /\ IF state \in {"END", "ABORT"} THEN UNCHANGED <<state, at>>
     ELSE state' = "RUNNING" /\ at' = IF n = 0 THEN "prompt" ELSE "exec"
  /\ left' = n /\ hart' = 0
  /\ UNCHANGED <<user, mode, batch, bad, regs, cpu, wp, d, accepted, got>>

cmd_c == Prompt /\ exec(ALL)
cmd_si == Prompt /\ \E n \in SiCounts : exec(n)

cmd_q ==
  /\ Prompt /\ state' = "QUIT" /\ at' = "exit"
  /\ UNCHANGED <<user, mode, batch, bad, left, hart, regs, cpu, wp, d, accepted, got>>

Watching(w) ==
  /\ Prompt /\ wp' = w
  /\ UNCHANGED <<user, mode, batch, at, state, bad, left, hart, regs, cpu, d, accepted, got>>
cmd_w == user.watches /\ \E x \in Regs : Watching(new_wp(wp, x, regs[cpu]))
cmd_d == \E no \in Pool : Watching(free_wp(wp, no))

\* p *addr and x 1 addr read the devices as the guest does: p eight bytes at
\* once, x four bytes one by one.
Scanned(addr, n) ==
  LET f[i \in 0..n] == IF i = 0 THEN M
                       ELSE IF f[i - 1].d.dead THEN f[i - 1]
                       ELSE Reads(f[i - 1], addr + i - 1)
  IN f[n]
cmd_x ==
  /\ Prompt
  /\ \E addr \in Addresses, n \in {1, 4} :
       LET m == Scanned(addr, n)
       IN d' = m.d /\ got' = m.got /\ at' = IF m.d.dead THEN "dead" ELSE at
  /\ UNCHANGED <<user, mode, batch, state, bad, left, hart, regs, cpu, wp, accepted>>

\* End of input.
Eof ==
  /\ at = "prompt" /\ at' = "exit"
  /\ UNCHANGED <<user, mode, batch, state, bad, left, hart, regs, cpu, wp, d, events, accepted, got>>

Next ==
  \/ Window \/ FunctionalStep \/ CycleStep \/ MultiStep
  \/ cmd_c \/ cmd_si \/ cmd_q \/ cmd_w \/ cmd_d \/ cmd_x \/ Eof
Spec == Init /\ [][Next]_vars

-----------------------------------------------------------------------------
(***************************************************************************)
(* The keys that were let in are those read so far followed by those in    *)
(* the ring: none is lost, repeated or overtaken, however polling, reading *)
(* and the ring's limit fall together, until an overflow stops everything. *)
(***************************************************************************)
KeysInOrder == at # "dead" => accepted = got \o Queued(d)

(***************************************************************************)
(* While exec goes on, every watchpoint in use holds the value its         *)
(* expression has now: a step that changed one has stopped it.  (Only      *)
(* Window adds an event.)                                                  *)
(***************************************************************************)
NoChangeMissed ==
  [][at = "exec" /\ at' = "exec" /\ Len(events') <= Len(events)
       => \A i \in DOMAIN wp'.head : LET n == wp'.head[i]
                                     IN wp'.value[n] = regs'[cpu'][wp'.expr[n]]]_vars
=============================================================================
