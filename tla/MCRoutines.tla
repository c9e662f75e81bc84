----------------------------- MODULE MCRoutines -----------------------------
(***************************************************************************)
(* The calls for Routines.                                                 *)
(***************************************************************************)
EXTENDS Routines

Regs == {0, 31}
RowJobs(rows, F7) ==
  UNION {{[kind |-> "word", name |-> row.name, word |-> w] :
            w \in E!WordsOf(row, F7, Regs)} : row \in rows}
FixedJobs == {[kind |-> "word", name |-> f.name, word |-> f.word] : f \in E!fixed_words}

\* Every word of the table but those of srai, which are decoded as srli, and of
\* fence_i: the decoder takes every word of that opcode for a fence.
WordJobs == RowJobs({row \in E!inst_table : row.name # "srai"}, {0, 1, 32, 64, 127})
            \cup {j \in FixedJobs : j.name # "fence_i"}

Leaves == {Num(0), Num(3), Pre("~", Num(6)), Pre("!", Num(0)), Pre("DEREF", Num(2))}
LeftLeaves == {Num(0), Num(3), Pre("~", Num(6))}
Quotients == {Pre(op, Bin("/", Num(5), Num(v))) : op \in Unary, v \in {0, 2}}
Ops == {"+", "-", "*", "/", "%", "<<", ">=", "==", "&", "^", "||"}
Pairs == {Bin(op, Num(5), r) : op \in Ops, r \in Leaves}
Trees == {Bin(op, l, r) : op \in Ops, l \in LeftLeaves, r \in Leaves \cup Pairs}
         \cup {Bin(op, l, r) : op \in Ops, l \in Pairs, r \in Leaves \cup Quotients}
         \cup {Bin(op, l, r) : op \in Ops, l \in Quotients, r \in Leaves}
         \cup {Bin(op, l, Bin(op2, r, Num(2))) : op \in {"-", "<<", "&"}, l \in Pairs,
                                                 op2 \in Ops, r \in {Num(7), Bin("-", Num(1), Num(4))}}
EvalJobs == {[kind |-> "eval", tree |-> t] : t \in Trees}

Dividends == {x \in 0..255 : x % 17 = 3} \cup {0, 1, 15, 16, 17, 127, 128, 240, 254, 255}
DivJobs ==
  {[kind |-> "udiv", a |-> a, b |-> b] : a \in Dividends, b \in 1..255}
  \cup {[kind |-> "div", a |-> a, b |-> b] :
          a \in {-128, -127, -16, -5, -1, 0, 7, 16, 127}, b \in (-128..127) \ {0}}
  \cup {[kind |-> "zeros", a |-> a] : a \in 1..255}

Distinct == [a \in 0..13 |-> a + 20]
MoveJobs ==
  {[kind |-> "move", m |-> Distinct, d |-> d, s |-> s, n |-> n] : d \in 0..4, s \in 0..4, n \in 0..9}
  \cup {[kind |-> "copy", m |-> Distinct, d |-> d, s |-> s, n |-> n] : d \in 0..2, s \in 8..9, n \in 0..5}
  \cup {[kind |-> "fill", m |-> Distinct, d |-> d, n |-> n] : d \in 0..4, n \in 0..9}

PrintJobs == {[kind |-> "print", hex |-> h, n |-> n] :
                h \in BOOLEAN, n \in (-12..12) \cup {-1000, -999, -100, 99, 100, 101, 4095, 12345}}

Texts == {<<>>} \cup {<<a>> : a \in {65, 66}} \cup {<<a, b>> : a \in {65, 66}, b \in {65, 66}}
StringJobs ==
  {[kind |-> "string",
    m |-> [a \in 0..20 |-> IF a < Len(s) THEN s[a + 1]
                           ELSE IF a \in 6..5 + Len(t) THEN t[a - 5]
                           ELSE IF a >= 12 THEN 88 ELSE 0]] : s \in Texts, t \in Texts}

Octets == {0, 1, 2, 63, 127, 128, 129, 200, 254, 255}
SumJobs == {[kind |-> k, a |-> a, v |-> v, c |-> c] :
              k \in {"adc", "sbc"}, a \in Octets, v \in Octets, c \in {0, 1}}

ContextJobs == {[kind |-> "contexts", p |-> p] : p \in {"x86", "x86_64", "native"}}

MCJobs == WordJobs \cup EvalJobs \cup DivJobs \cup MoveJobs \cup PrintJobs \cup StringJobs
          \cup SumJobs \cup {[kind |-> k] : k \in {"heap", "tables", "native", "cores"}}
          \cup ContextJobs

MCHeap == [start |-> 16, end |-> 40]
=============================================================================
