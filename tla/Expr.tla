-------------------------------- MODULE Expr --------------------------------
(***************************************************************************)
(* The monitor's expression evaluator (src/src/monitor/expr.c).  The lexer *)
(* is a regular-expression library; expressions are given here as their    *)
(* tokens, records [type, val], val being what sscanf or reg_str2val makes *)
(* of the text of a number or a register.  Values have BITS bits (64 in    *)
(* the code); mem is what vaddr_read returns at the addresses it can read, *)
(* at any other it ends the simulator.                                     *)
(***************************************************************************)
EXTENDS Integers, Sequences, Bitwise

CONSTANTS BITS, MAX_DEPTH

Operand(v) == [type |-> "NUM", val |-> v]
Op(t) == [type |-> t, val |-> 0]

MAX_PRIOR == 15

\* prior_arr: the larger, the looser the operator binds; -1 for other tokens.
find_prior(type) ==
  CASE type \in {"!", "~", "DEREF"} -> 2
    [] type \in {"*", "/", "%"} -> 3
    [] type \in {"+", "-"} -> 4
    [] type \in {"<<", ">>"} -> 5
    [] type \in {"<=", ">=", "<", ">"} -> 6
    [] type \in {"==", "!="} -> 7
    [] type = "&" -> 8
    [] type = "^" -> 9
    [] type = "|" -> 10
    [] type = "&&" -> 11
    [] type = "||" -> 12
    [] OTHER -> -1

\* check_parentheses: tokens p..q are one bracketed expression.  Going right
\* to left, an opening bracket with nothing to close is passed over.
check_parentheses(ts, p, q) ==
  LET match[i \in p + 1..q] ==
        IF i = q THEN 0
        ELSE CASE ts[i].type = ")" -> match[i + 1] + 1
               [] ts[i].type = "(" /\ match[i + 1] > 0 -> match[i + 1] - 1
               [] OTHER -> match[i + 1]
  IN ts[p].type = "(" /\ ts[q].type = ")" /\ match[p + 1] = 0

\* The scan from q down to p for an operator outside brackets: what is closed
\* by the bracket at i is skipped, as long as it opens after p.
OpensAt(ts, p, i) ==
  LET depth[j \in p..i] ==
        IF j = i THEN 1
        ELSE CASE ts[j].type = ")" -> depth[j + 1] + 1
               [] ts[j].type = "(" -> depth[j + 1] - 1
               [] OTHER -> depth[j + 1]
      open == {j \in p..i - 1 : depth[j] = 0}
  IN IF open = {} THEN i ELSE CHOOSE j \in open : \A k \in open : k <= j

RECURSIVE ScanFor(_, _, _, _)
ScanFor(ts, p, i, prior) ==
  IF i < p THEN -1
  ELSE IF ts[i].type = ")" THEN ScanFor(ts, p, OpensAt(ts, p, i) - 1, prior)
       ELSE IF find_prior(ts[i].type) = prior THEN i
            ELSE ScanFor(ts, p, i - 1, prior)

\* The operator applied last: the rightmost of the loosest.
MainOperator(ts, p, q) ==
  LET found == {k \in 1..MAX_PRIOR : ScanFor(ts, p, q, k) # -1}
  IN IF found = {} THEN -1
     ELSE ScanFor(ts, p, q, CHOOSE k \in found : \A l \in found : l <= k)

\* What each operator computes from val1 and val2.
Wrap(x) == x % 2^BITS
Truth(b) == IF b THEN 1 ELSE 0
Apply(type, v1, v2, mem) ==
  CASE type = "+" -> Wrap(v1 + v2)
    [] type = "-" -> Wrap(v1 - v2)
    [] type = "*" -> Wrap(v1 * v2)
    [] type = "/" -> v1 \div v2
    [] type = "%" -> v1 % v2
    [] type = "&" -> v1 & v2
    [] type = "^" -> v1 ^^ v2
    [] type = "|" -> v1 | v2
    [] type = "~" -> 2^BITS - 1 - v2
    [] type = "!" -> Truth(v2 = 0)
    [] type = "<" -> Truth(v1 < v2)
    [] type = ">" -> Truth(v1 > v2)
    [] type = "<<" -> Wrap(v1 * 2^(v2 % BITS))
    [] type = ">>" -> v1 \div 2^(v2 % BITS)
    [] type = "<=" -> Truth(v1 <= v2)
    [] type = ">=" -> Truth(v1 >= v2)
    [] type = "==" -> Truth(v1 = v2)
    [] type = "!=" -> Truth(v1 # v2)
    [] type = "&&" -> Truth(v1 # 0 /\ v2 # 0)
    [] type = "||" -> Truth(v1 # 0 \/ v2 # 0)
    [] type = "DEREF" -> mem[v2]

\* [val, success], or dead where the code asserts: the operator is missing, or
\* what is dereferenced is no address.
Failed == [val |-> 2^BITS - 1, success |-> FALSE, dead |-> FALSE]
Dead == [Failed EXCEPT !.dead = TRUE]
Value(v) == [val |-> v, success |-> TRUE, dead |-> FALSE]

\* A failed operand has the value -1; the operator is applied all the same.
RECURSIVE eval(_, _, _, _, _)
eval(ts, p, q, mem, depth) ==
  LET op == MainOperator(ts, p, q)
      v1 == eval(ts, p, op - 1, mem, depth + 1)
      v2 == IF v1.success THEN eval(ts, op + 1, q, mem, depth + 1) ELSE Failed
      type == ts[op].type
  IN CASE depth > MAX_DEPTH -> Failed
       [] depth <= MAX_DEPTH /\ p > q -> Value(0)
       [] depth <= MAX_DEPTH /\ p = q ->
            Value(IF ts[p].type = "NUM" THEN ts[p].val ELSE 0)
       [] OTHER ->
            IF check_parentheses(ts, p, q) THEN eval(ts, p + 1, q - 1, mem, depth + 1)
            ELSE IF op = -1 \/ v1.dead \/ v2.dead THEN Dead
            ELSE IF v2.val = 0 /\ type \in {"/", "%"} THEN Failed
            ELSE IF type = "DEREF" /\ v2.val \notin DOMAIN mem THEN Dead
            ELSE [Value(Apply(type, v1.val, v2.val, mem)) EXCEPT !.success = v2.success]

\* Every token operator_judge names: not a bracket, not DEREF.
operator_judge(type) == type # "DEREF" /\ find_prior(type) # -1

\* expr: a star at the start or after an operator is a dereference, decided
\* from left to right, so that a star after a dereference is a product.
MarkDeref(ts) ==
  LET f[i \in 0..Len(ts)] ==
        IF i = 0 THEN <<>>
        ELSE Append(f[i - 1],
               IF ts[i].type = "*" /\ (i = 1 \/ operator_judge(f[i - 1][i - 1].type))
               THEN Op("DEREF") ELSE ts[i])
  IN f[Len(ts)]

expr(ts, mem) == eval(MarkDeref(ts), 1, Len(ts), mem, 0)
=============================================================================
