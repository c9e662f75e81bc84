----------------------------- MODULE PipeCores -----------------------------
(***************************************************************************)
(* The in-order pipeline of two cores (pipeline_init_core and              *)
(* pipeline_cycle_core of pipeline.c).  A Pipeline holds four slots and    *)
(* four pointers to slots; a cycle rotates the pointers.  The stages work  *)
(* on the global cpu_pipe, so every cycle copies a core's structure there  *)
(* and back, and a copied pointer still aims where it did.  A pointer is   *)
(* <<structure, slot>>, and a slot holds <<core, number>> of an            *)
(* instruction; what the instructions compute is in module Pipeline.       *)
(***************************************************************************)
EXTENDS Integers, Sequences

Cores    == {0, 1}       \* cores[c].cpu_pipe is structure c
cpu_pipe == 2
save_pipe == 3
NUMBERS  == 8            \* instructions are numbered modulo this bound
NULL     == << >>
Bubble   == << >>        \* a latch with valid = 0

Zeroed == [id |-> NULL, ex |-> NULL, mem |-> NULL, wb |-> NULL,
           slots |-> [i \in 0..3 |-> Bubble], fetch_pc |-> 0, mem_stall_rem |-> 0]

At(s, ptr) == s[ptr[1]].slots[ptr[2]]
Write(s, ptr, v) == [s EXCEPT ![ptr[1]] = [@ EXCEPT !.slots = [@ EXCEPT ![ptr[2]] = v]]]
Assign(s, dst, src) == [s EXCEPT ![dst] = s[src]]

pipeline_fix_ptrs(s, dst, src) ==
  LET Aim(f) == IF s[src][f] # NULL /\ s[src][f][1] = src THEN <<dst, s[src][f][2]>> ELSE s[dst][f]
  IN [s EXCEPT ![dst] = [@ EXCEPT !.id = Aim("id"), !.ex = Aim("ex"),
                                  !.mem = Aim("mem"), !.wb = Aim("wb")]]

Restore(s) == pipeline_fix_ptrs(Assign(s, cpu_pipe, save_pipe), cpu_pipe, save_pipe)

pipeline_init_core(s, c) ==
  LET in == [s EXCEPT ![save_pipe] = s[cpu_pipe],
                      ![cpu_pipe] = [Zeroed EXCEPT !.id = <<cpu_pipe, 0>>, !.ex = <<cpu_pipe, 1>>,
                                                   !.mem = <<cpu_pipe, 2>>, !.wb = <<cpu_pipe, 3>>]]
  IN Restore(Assign(in, c, cpu_pipe))

(***************************************************************************)
(* The five stages of core c on cpu_pipe.  The events are a load that      *)
(* misses in MEM, a wrong guess found in EX, and a load-use stall in ID.   *)
(***************************************************************************)
Possible(s, events) ==
  LET g == s[cpu_pipe] IN
  /\ "miss" \in events => At(s, g.mem) # Bubble
  /\ "flush" \in events => At(s, g.ex) # Bubble
  /\ "stall" \in events => At(s, g.ex) # Bubble /\ At(s, g.id) # Bubble /\ "flush" \notin events

Flush(s) ==
  LET g == s[cpu_pipe]
      n == Write(Write(s, g.id, Bubble), g.wb, Bubble)
  IN [n EXCEPT ![cpu_pipe] = [@ EXCEPT !.fetch_pc = (At(s, g.ex)[2] + 1) % NUMBERS]]

stage_IF(s, c) ==
  LET g == s[cpu_pipe]
      n == Write(s, g.wb, <<c, g.fetch_pc>>)
  IN [n EXCEPT ![cpu_pipe] = [@ EXCEPT !.fetch_pc = (@ + 1) % NUMBERS]]

Stages(s, c, events) ==
  LET wb == Write(s, s[cpu_pipe].wb, Bubble)
      mem == IF "miss" \in events
             THEN [wb EXCEPT ![cpu_pipe] = [@ EXCEPT !.mem_stall_rem = 1]] ELSE wb
      ex == IF "flush" \in events THEN Flush(mem) ELSE mem
  IN IF "stall" \in events THEN ex ELSE stage_IF(ex, c)

\* Mutant: a stalled cycle leaves EX in its place.
Rotate_KeepsEx(g, stalled) ==
  IF stalled THEN [g EXCEPT !.wb = g.mem, !.mem = g.ex]
  ELSE [g EXCEPT !.wb = g.mem, !.mem = g.ex, !.ex = g.id, !.id = g.wb]

\* g.wb is g_fetch_slot.
Rotate(g, stalled) ==
  IF stalled THEN [g EXCEPT !.wb = g.mem, !.mem = g.ex, !.ex = g.wb]
  ELSE [g EXCEPT !.wb = g.mem, !.mem = g.ex, !.ex = g.id, !.id = g.wb]

Installed(s, c) ==
  pipeline_fix_ptrs(Assign(Assign(s, save_pipe, cpu_pipe), cpu_pipe, c), cpu_pipe, c)

pipeline_cycle_core(s, c, events) ==
  LET in == Installed(s, c)
      ran == Stages(in, c, events)
      out == IF in[cpu_pipe].mem_stall_rem > 0
             THEN [in EXCEPT ![cpu_pipe] = [@ EXCEPT !.mem_stall_rem = @ - 1]]
             ELSE [ran EXCEPT ![cpu_pipe] = Rotate(@, "stall" \in events)]
  IN Restore(Assign(out, c, cpu_pipe))

\* core_create prepares a core's pipeline, and the first exec() does it again.
InitCores(s) == pipeline_init_core(pipeline_init_core(s, 0), 1)
CoresInit == InitCores(InitCores([x \in Cores \cup {cpu_pipe, save_pipe} |-> Zeroed]))
=============================================================================
