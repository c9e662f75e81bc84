-------------------------------- MODULE Klib --------------------------------
(***************************************************************************)
(* The guest C library: strings and memory blocks                          *)
(* (src/am/klib/src/string.c), formatted output (klib's stdio.c and the    *)
(* bare-metal library's src/lib/stdio.c) and the bump allocator            *)
(* (klib's stdlib.c).  Memory is a function from addresses to bytes, 0 the *)
(* terminator of a string.  The word copied at a time has WORD bytes (8 in *)
(* the code).  Text is a sequence of character codes.                      *)
(***************************************************************************)
EXTENDS Integers, Sequences, SequencesExt

CONSTANT WORD           \* bytes of a uint64_t

LOCAL Least(a, b) == IF a <= b THEN a ELSE b

-----------------------------------------------------------------------------
(* string.c *)

\* Offsets from s that are memory.
Reach(m, s) == {a - s : a \in {b \in DOMAIN m : b >= s}}

strlen(m, s) == CHOOSE n \in Reach(m, s) : m[s + n] = 0 /\ \A k \in 0..n - 1 : m[s + k] # 0

\* The loops that move n units of k bytes from s to d, upwards and downwards;
\* a unit is read whole before it is written.
CopyUp(m, d, s, n, k) ==
  LET f[i \in 0..n] ==
        IF i = 0 THEN m
        ELSE [a \in DOMAIN m |-> IF a - d \in (i - 1) * k..i * k - 1
                                 THEN f[i - 1][s + a - d] ELSE f[i - 1][a]]
  IN f[n]

CopyDown(m, d, s, n) ==
  LET f[i \in 0..n] == IF i = n THEN m
                       ELSE [f[i + 1] EXCEPT ![d + i] = f[i + 1][s + i]]
  IN f[0]

strcpy(m, d, s) == CopyUp(m, d, s, strlen(m, s) + 1, 1)

strcat(m, d, s) ==
  LET n == strlen(m, d)
      copied == CopyUp(m, d + n, s, strlen(m, s), 1)
  IN [copied EXCEPT ![d + n + strlen(m, s)] = 0]

\* The last of the n bytes is always a terminator, whatever the source holds.
strncpy(m, d, s, n) ==
  LET len == CHOOSE i \in 0..n : /\ i = n \/ m[s + i] = 0
                                 /\ \A k \in 0..i - 1 : m[s + k] # 0
      copied == CopyUp(m, d, s, len, 1)
  IN [a \in DOMAIN m |-> IF a - d \in len..n - 1 \/ (n > 0 /\ a = d + n - 1)
                         THEN 0 ELSE copied[a]]

\* The first index at which the comparison loop stops, and the difference there.
strcmp(m, s1, s2) ==
  LET i == CHOOSE i \in Reach(m, s1) :
             /\ m[s1 + i] = 0 \/ m[s2 + i] = 0 \/ m[s1 + i] # m[s2 + i]
             /\ \A k \in 0..i - 1 : m[s1 + k] # 0 /\ m[s1 + k] = m[s2 + k]
  IN m[s1 + i] - m[s2 + i]

\* Past n the loop stops too, and the characters there are compared all the same.
strncmp(m, s1, s2, n) ==
  LET i == CHOOSE i \in 0..n :
             /\ i = n \/ m[s1 + i] = 0 \/ m[s2 + i] = 0 \/ m[s1 + i] # m[s2 + i]
             /\ \A k \in 0..i - 1 : m[s1 + k] # 0 /\ m[s1 + k] = m[s2 + k]
  IN m[s1 + i] - m[s2 + i]

memcmp(m, s1, s2, n) ==
  LET diff == {i \in 0..n - 1 : m[s1 + i] # m[s2 + i]}
      i == CHOOSE i \in diff : \A k \in diff : i <= k
  IN IF diff = {} THEN 0 ELSE m[s1 + i] - m[s2 + i]

\* Bytes up to the first word boundary of d, at most n.
Leading(d, n) == Least(n, (-d) % WORD)

memset(m, s, b, n) ==
  LET lead == Leading(s, n)
      words == (n - lead) \div WORD
      Fill(mm, d, k) == [a \in DOMAIN mm |-> IF a - d \in 0..k - 1 THEN b ELSE mm[a]]
  IN Fill(Fill(Fill(m, s, lead), s + lead, words * WORD),
          s + lead + words * WORD, (n - lead) % WORD)

\* Align d, copy words if s is then aligned too, copy the remaining bytes.
CopyForward(m, d, s, n) ==
  LET lead == Leading(d, n)
      words == IF (s + lead) % WORD = 0 THEN (n - lead) \div WORD ELSE 0
      done == lead + words * WORD
      m1 == CopyUp(m, d, s, lead, 1)
      m2 == CopyUp(m1, d + lead, s + lead, words, WORD)
  IN CopyUp(m2, d + done, s + done, n - done, 1)

memcpy(m, d, s, n) == CopyForward(m, d, s, n)

memmove(m, d, s, n) ==
  IF d = s \/ n = 0 THEN m
  ELSE IF d < s \/ d >= s + n THEN CopyForward(m, d, s, n)
       ELSE CopyDown(m, d, s, n)

-----------------------------------------------------------------------------
(* stdio.c of klib and of lib *)

CharZero == 48
CharMinus == 45
CharPercent == 37
CharD == 100
CharS == 115
CharX == 120
CharA == 97

\* The digits of n > 0 in the base, least significant first.
RECURSIVE DigitsUp(_, _)
DigitsUp(n, base) == IF n = 0 THEN <<>>
                     ELSE <<n % base>> \o DigitsUp(n \div base, base)

\* Swapping str[lo + j] with str[hi - j], inwards: the reversal loops.
SwapEnds(str, lo, rounds) ==
  LET hi == Len(str)
      f[j \in 0..rounds] ==
        IF j = 0 THEN str
        ELSE [f[j - 1] EXCEPT ![lo + j - 1] = f[j - 1][hi - j + 1],
                              ![hi - j + 1] = f[j - 1][lo + j - 1]]
  IN f[rounds]

Magnitude(n) == IF n < 0 THEN -n ELSE n

int2str(num) ==
  LET isNeg == IF num < 0 THEN 1 ELSE 0
      ds == DigitsUp(Magnitude(num), 10)
      str == (IF num = 0 THEN <<CharZero>> ELSE <<>>)
               \o (IF num < 0 THEN <<CharMinus>> ELSE <<>>)
               \o [i \in 1..Len(ds) |-> ds[i] + CharZero]
  IN SwapEnds(str, isNeg + 1, (Len(str) + isNeg) \div 2 - isNeg)

lib_int2str(num) == int2str(num)

\* num as an unsigned word of 2^bits values.
int2str_hex(num, bits) ==
  LET ds == DigitsUp(num % 2^bits, 16)
      str == (IF num = 0 THEN <<CharZero>> ELSE <<>>)
               \o [i \in 1..Len(ds) |-> IF ds[i] < 10 THEN ds[i] + CharZero
                                        ELSE ds[i] + CharA - 10]
  IN SwapEnds(str, 1, Len(str) \div 2)

\* The loop over the format.  args holds a number for %d and %x and a text for
\* %s; percent is what a "%%" adds to the count the function returns.
RECURSIVE Format(_, _, _, _, _)
Format(fmt, args, hex, percent, sofar) ==
  LET Emit(text, n, k, rest) ==
        Format(SubSeq(fmt, n + 1, Len(fmt)), rest, hex, percent,
               [sofar EXCEPT !.out = @ \o text, !.ret = @ + k])
      c == fmt[2]
      Text == CASE c = CharD -> int2str(Head(args))
                [] c = CharX -> int2str_hex(Head(args), hex)
                [] c = CharS -> Head(args)
  IN CASE fmt = <<>> -> sofar
       [] fmt # <<>> /\ (fmt[1] # CharPercent \/ Len(fmt) = 1) ->
            Emit(<<fmt[1]>>, 1, 1, args)
       [] OTHER ->
            CASE c = CharPercent -> Emit(<<CharPercent>>, 2, percent, args)
              [] c \in {CharD, CharS} \/ (c = CharX /\ hex > 0) ->
                   Emit(Text, 2, Len(Text), Tail(args))
              [] OTHER -> [sofar EXCEPT !.ret = -1]

NoText == [out |-> <<>>, ret |-> 0]

\* printf writes characters as it goes and does not count "%%"; sprintf does.
\* Only the printf of lib knows %x.
printf(fmt, args) == Format(fmt, args, 0, 0, NoText)
sprintf(fmt, args) == Format(fmt, args, 0, 1, NoText)
lib_printf(fmt, args, bits) == Format(fmt, args, bits, 0, NoText)
lib_sprintf(fmt, args) == Format(fmt, args, 0, 1, NoText)

-----------------------------------------------------------------------------
(* stdlib.c *)

abs(x) == IF x < 0 THEN -x ELSE x

\* Blanks, then digits up to the first other character; no sign is read.
RECURSIVE atoi(_)
atoi(text) ==
  LET ds == LongestCommonPrefix({text, SelectSeq(text, LAMBDA c : c \in 48..57)})
  IN IF text # <<>> /\ text[1] = 32 THEN atoi(Tail(text))
     ELSE FoldLeft(LAMBDA x, c : x * 10 + (c - CharZero), 0, ds)

\* The allocator: the block handed out last, ptr = NULL before the first call.
NULL == -1
malloc_init == [ptr |-> NULL, size |-> 0]

\* size is rounded up to a word; a request that does not fit still moves past
\* the last block.
malloc(last, size, heap) ==
  LET sz == ((size + WORD - 1) \div WORD) * WORD
      ptr == (IF last.ptr = NULL THEN heap.start ELSE last.ptr) + last.size
  IN IF ptr + sz >= heap.end
     THEN [last |-> [last EXCEPT !.ptr = ptr], ret |-> NULL]
     ELSE [last |-> [ptr |-> ptr, size |-> sz], ret |-> ptr]

\* Taking back the last block without looking whether it is the one given.
free_AnyBlock(last, ptr) == [last EXCEPT !.size = 0]

free(last, ptr) == IF ptr = last.ptr THEN [last EXCEPT !.size = 0] ELSE last
=============================================================================
