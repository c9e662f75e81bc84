------------------------------- MODULE Watch -------------------------------
(***************************************************************************)
(* The monitor's watchpoints (src/monitor/watchpoint.c): a pool of NR_WP,  *)
(* each in the list of those in use, head, or in the list of those that    *)
(* are free, free_.  The lists are sequences of numbers; expr and value    *)
(* are the fields of the watchpoints.                                      *)
(***************************************************************************)
EXTENDS Integers, Sequences

CONSTANTS NR_WP, NoExpr

ASSUME WatchAssumption == NR_WP \in Nat \ {0}

Pool == 0..NR_WP - 1

init_wp_pool ==
  [head |-> << >>, free |-> [i \in 1..NR_WP |-> i - 1],
   expr |-> [n \in Pool |-> NoExpr], value |-> [n \in Pool |-> 0]]

wp_any_active(w) == w.head # << >>

\* Before the head of head comes the head of free_; now gives the values of
\* the expressions.  With none free, nothing happens.
new_wp(w, x, now) ==
  IF w.free = << >> THEN w
  ELSE LET n == Head(w.free)
       IN [head |-> <<n>> \o w.head, free |-> Tail(w.free),
           expr |-> [w.expr EXCEPT ![n] = x], value |-> [w.value EXCEPT ![n] = now[x]]]

\* The fields of a free watchpoint are not read again.
free_wp(w, no) ==
  LET at == {i \in DOMAIN w.head : w.head[i] = no}
      i == CHOOSE i \in at : TRUE
  IN IF at = {} THEN w
     ELSE [w EXCEPT !.head = SubSeq(@, 1, i - 1) \o SubSeq(@, i + 1, Len(@)),
                    !.free = <<no>> \o @, !.expr[no] = NoExpr, !.value[no] = 0]

\* Mutant: only the newest watchpoint is looked at.
Changed_HeadOnly(w, now) ==
  {i \in DOMAIN w.head : i = 1 /\ now[w.expr[w.head[i]]] # w.value[w.head[i]]}

\* The places of head whose expression has a new value.
Changed(w, now) ==
  {i \in DOMAIN w.head : now[w.expr[w.head[i]]] # w.value[w.head[i]]}

\* check_wp: the first that changed is brought up to date, the rest of the list
\* is left as it is.
check_wp(w, now) ==
  LET c == Changed(w, now)
      n == w.head[CHOOSE i \in c : \A j \in c : i <= j]
  IN IF c = {} THEN w ELSE [w EXCEPT !.value[n] = now[w.expr[n]]]
=============================================================================
