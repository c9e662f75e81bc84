------------------------------- MODULE Int64 --------------------------------
(***************************************************************************)
(* The double-word division and bit counting of the guest library          *)
(* (src/am/klib/src/int64.c), on words of W bits (su_int, 32 in the code)  *)
(* and double words of 2 * W (du_int).  A double word is its unsigned      *)
(* value; a signed one (di_int) is an integer in two's complement range.   *)
(***************************************************************************)
EXTENDS Integers, Sequences, TLC, Bitwise

CONSTANT W              \* bits of a word: 4 or 8

high(x) == x \div 2^W
low(x) == x % 2^W
all(h, l) == (h % 2^W) * 2^W + (l % 2^W)

SignedDword(u) == IF u >= 2^(2 * W - 1) THEN u - 2^(2 * W) ELSE u
UnsignedDword(x) == x % 2^(2 * W)

-----------------------------------------------------------------------------
(* Counting zeros: each round halves the part of x the answer depends on.  *)

\* The rounds: the widths 16, 8, 4 and 2 of the code when W is 32.
Halves == IF W = 4 THEN <<2>> ELSE <<4, 2>>

\* A round of __clzsi2 at width k: [x, r], r the zeros counted so far.
ClzRound(s, k) ==
  LET t == IF s.x \div 2^k = 0 THEN k ELSE 0
  IN [x |-> s.x \div 2^(k - t), r |-> s.r + t]

clzsi2(a) ==
  LET f[i \in 0..Len(Halves)] ==
        IF i = 0 THEN [x |-> a, r |-> 0] ELSE ClzRound(f[i - 1], Halves[i])
      s == f[Len(Halves)]
  IN s.r + (IF s.x \div 2 % 2 = 0 THEN 2 - s.x ELSE 0)

CtzRound(s, k) ==
  LET t == IF s.x % 2^k = 0 THEN k ELSE 0
  IN [x |-> s.x \div 2^t, r |-> s.r + t]

ctzsi2(a) ==
  LET f[i \in 0..Len(Halves)] ==
        IF i = 0 THEN [x |-> a, r |-> 0] ELSE CtzRound(f[i - 1], Halves[i])
      s == f[Len(Halves)]
      x == s.x % 4
  IN s.r + (IF x % 2 = 0 THEN 2 - x \div 2 ELSE 0)

ctzdi2(a) == IF low(a) = 0 THEN ctzsi2(high(a)) + W ELSE ctzsi2(low(a))
clzdi2(a) == IF high(a) = 0 THEN clzsi2(low(a)) + W ELSE clzsi2(high(a))

-----------------------------------------------------------------------------
(***************************************************************************)
(* __udivmoddi4, by shift and subtract: r:q starts as n:0 shifted right by *)
(* sr and moves left one bit a round.                                      *)
(***************************************************************************)
IsPowerOf2(x) == x & (x - 1) = 0

\* q = n << (2W - sr) and r = n >> sr, half by half, as sr compares with W.
DivStart(n, sr) ==
  LET nh == high(n)
      nl == low(n)
  IN IF sr = W THEN [q |-> all(nl, 0), r |-> all(0, nh)]
     ELSE IF sr < W
          THEN [q |-> all(nl * 2^(W - sr), 0),
                r |-> all(nh \div 2^sr, (nh * 2^(W - sr)) | (nl \div 2^sr))]
          ELSE [q |-> all((nh * 2^(2 * W - sr)) | (nl \div 2^(sr - W)),
                          nl * 2^(2 * W - sr)),
                r |-> all(0, nh \div 2^(sr - W))]

\* The off-by-one of testing d - r in place of d - r - 1.
DivRound_Strict(s, d) ==
  LET r == (2 * s.r + s.q \div 2^(2 * W - 1)) % 2^(2 * W)
      fits == (d - r) % 2^(2 * W) >= 2^(2 * W - 1)
  IN [q |-> (2 * s.q + s.carry) % 2^(2 * W),
      r |-> IF fits THEN (r - d) % 2^(2 * W) ELSE r,
      carry |-> IF fits THEN 1 ELSE 0]

\* One round: shift r:q left, the last round's carry coming in, then subtract
\* d from r when the sign of d - r - 1 says that it fits.
DivRound(s, d) ==
  LET r == (2 * s.r + s.q \div 2^(2 * W - 1)) % 2^(2 * W)
      fits == (d - r - 1) % 2^(2 * W) >= 2^(2 * W - 1)
  IN [q |-> (2 * s.q + s.carry) % 2^(2 * W),
      r |-> IF fits THEN (r - d) % 2^(2 * W) ELSE r,
      carry |-> IF fits THEN 1 ELSE 0]

DivLoop(n, d, sr) ==
  LET f[i \in 0..sr] == IF i = 0 THEN DivStart(n, sr) @@ [carry |-> 0]
                        ELSE DivRound(f[i - 1], d)
  IN [quot |-> (2 * f[sr].q + f[sr].carry) % 2^(2 * W), rem |-> f[sr].r]

\* n.high is zero: one word division, or a dividend below the divisor.
DivSmall(n, d) ==
  IF high(d) = 0 THEN [quot |-> low(n) \div low(d), rem |-> low(n) % low(d)]
                 ELSE [quot |-> 0, rem |-> low(n)]

\* d.low is zero and d.high is not.
DivByHigh(n, d) ==
  LET nh == high(n)
      dh == high(d)
      sr == clzsi2(dh) - clzsi2(nh)
  IN CASE low(n) = 0 -> [quot |-> nh \div dh, rem |-> all(nh % dh, 0)]
       [] low(n) # 0 /\ IsPowerOf2(dh) ->
            [quot |-> nh \div 2^ctzsi2(dh), rem |-> all(nh & (dh - 1), low(n))]
       [] OTHER -> IF sr \notin 0..W - 2 THEN [quot |-> 0, rem |-> n]
                                         ELSE DivLoop(n, d, sr + 1)

\* d.high is zero and d.low is not.
DivByLow(n, d) ==
  LET sr == ctzsi2(low(d)) IN
  CASE low(d) = 1 -> [quot |-> n, rem |-> 0]
    [] low(d) # 1 /\ IsPowerOf2(low(d)) ->
         [quot |-> all(high(n) \div 2^sr,
                       ((high(n) * 2^(W - sr)) % 2^W) | (low(n) \div 2^sr)),
          rem |-> low(n) & (low(d) - 1)]
    [] OTHER -> DivLoop(n, d, 1 + W + clzsi2(low(d)) - clzsi2(high(n)))

\* Both halves of d are nonzero.
DivByBoth(n, d) ==
  LET sr == clzsi2(high(d)) - clzsi2(high(n))
  IN IF sr \notin 0..W - 1 THEN [quot |-> 0, rem |-> n] ELSE DivLoop(n, d, sr + 1)

\* Quotient and remainder; d = 0, which the code passes to the machine's own
\* division, is left out.
udivmoddi4(n, d) ==
  CASE high(n) = 0 -> DivSmall(n, d)
    [] high(n) # 0 /\ low(d) = 0 -> DivByHigh(n, d)
    [] high(n) # 0 /\ low(d) # 0 /\ high(d) = 0 -> DivByLow(n, d)
    [] OTHER -> DivByBoth(n, d)

\* (x ^ s) - s for s = -1 or 0: negated or not, in 2W bits.
NegateIf(neg, x) == IF neg THEN UnsignedDword(-x) ELSE UnsignedDword(x)

udivdi3(a, b) == udivmoddi4(a, b).quot
umoddi3(a, b) == udivmoddi4(a, b).rem
divdi3(a, b) == SignedDword(NegateIf((a < 0) # (b < 0),
                  udivdi3(NegateIf(a < 0, a), NegateIf(b < 0, b))))
moddi3(a, b) == SignedDword(NegateIf(a < 0,
                  umoddi3(NegateIf(a < 0, a), NegateIf(b < 0, b))))
divmoddi4(a, b) == LET d == divdi3(a, b)
                   IN [quot |-> d, rem |-> SignedDword(UnsignedDword(a - d * b))]
=============================================================================
