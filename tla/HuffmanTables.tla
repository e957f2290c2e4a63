--------------------------- MODULE HuffmanTables ---------------------------
(***************************************************************************)
(* The Huffman tables of jchuff.c and jdhuff.c: how the best code for a    *)
(* set of symbol counts is found (jpeg_gen_optimal_table), what the coder  *)
(* and the decoder derive from a table, and the decoding of one symbol,    *)
(* through the lookahead table or bit by bit.                              *)
(*                                                                         *)
(* A table is bits, the number of codes of every length, and huffval, the  *)
(* symbols in the order of their codes.  The lengths 16, 32 and 8 of the   *)
(* code and the 256 symbols are constants here.                            *)
(***************************************************************************)
EXTENDS Integers, Sequences, FiniteSets, FiniteSetsExt, SequencesExt, Functions

CONSTANTS MaxLen,      \* longest code a table may have (16)
          MaxCLen,     \* longest code the tree may have (MAX_CLEN, 32)
          Lookahead,   \* HUFF_LOOKAHEAD (8)
          Symbols,     \* 0..n; n + 1 is the pseudo-symbol (256)
          Counts       \* what a symbol may be counted

LengthsAssumption ==
  /\ MaxLen \in Nat /\ MaxCLen \in Nat /\ MaxLen < MaxCLen
  /\ Lookahead \in 1..MaxLen
  /\ 2^MaxLen > Cardinality(Symbols)

VARIABLES counted,    \* the counts the table is for
          freq, others, codesize, bits, table, at, pc
vars == << counted, freq, others, codesize, bits, table, at, pc >>

Pseudo == Cardinality(Symbols)
All == Symbols \cup {Pseudo}
NumCodes(b) == SumFunctionOnSet(b, DOMAIN b)

-----------------------------------------------------------------------------
(* From a table to codes: jpeg_make_c_derived_tbl, jpeg_make_d_derived_tbl. *)

\* Figure C.1: the length of every code, in order.
HuffSize(b) == FlattenSeq([l \in 1..Len(b) |-> [i \in 1..b[l] |-> l]])

\* Figure C.2: the codes, each one more than the one before it, shifted when
\* the length grows.
HuffCode(size) ==
  LET code[p \in 1..Len(size)] ==
        IF p = 1 THEN 0 ELSE (code[p-1] + 1) * 2^(size[p] - size[p-1])
  IN  code

\* The test that no code overflows its length or is all ones.
LegalCode(size) ==
  LET code == HuffCode(size)
  IN  \A p \in DOMAIN size :
        (p = Len(size) \/ size[p+1] # size[p]) => code[p] + 1 < 2^size[p]

\* The coder: code and length of every symbol.
Encoding(t) ==
  LET size == HuffSize(t.bits)
      code == HuffCode(size)
  IN  [s \in ToSet(t.huffval) |->
         LET p == CHOOSE i \in DOMAIN t.huffval : t.huffval[i] = s
         IN  [code |-> code[p], len |-> size[p]]]

\* The n bits of a number, most significant first.
BitsOf(x, n) == [i \in 1..n |-> (x \div 2^(n-i)) % 2]
Number(s) == FoldSeq(LAMBDA b, acc : 2 * acc + b, 0, Reverse(s))

\* The decoder: for every length the largest code (-1: none) and the offset
\* from a code to its place in huffval; the lookahead table.
Decoding(t) ==
  LET size == HuffSize(t.bits)
      code == HuffCode(size)
      n == Len(t.bits)
      last(l) == SumFunctionOnSet(t.bits, 1..l)            \* p after length l
  IN  [maxcode |-> [l \in 1..n |-> IF t.bits[l] = 0 THEN -1 ELSE code[last(l)]],
       offset |-> [l \in 1..n |-> IF t.bits[l] = 0 THEN 0
                                  ELSE last(l) - t.bits[l] + 1 - code[last(l) - t.bits[l] + 1]],
       look |-> [x \in 0..2^Lookahead-1 |->
                   { p \in DOMAIN size : /\ size[p] <= Lookahead
                                         /\ x \div 2^(Lookahead - size[p]) = code[p] }]]

\* huffval[i]; -2 is a place past its end.
SymbolAt(t, i) == IF i \in DOMAIN t.huffval THEN t.huffval[i] ELSE -2

\* HUFF_DECODE over the bits s: the lookahead table when there are bits enough
\* for it, else jpeg_huff_decode from the shortest length the code can have.
\* Symbol -1: more bits are needed; 0 past the longest code: no such code.
Decode(t, d, s) ==
  LET look == IF Len(s) >= Lookahead THEN d.look[Number(SubSeq(s, 1, Lookahead))] ELSE {}
      start == IF Len(s) >= Lookahead THEN Lookahead + 1 ELSE 1
      fits(l) == l > Len(t.bits) \/ Number(SubSeq(s, 1, l)) <= d.maxcode[l]
      l == Min({ k \in start..Len(t.bits)+1 : k > Len(s) \/ fits(k) })
  IN  IF look # {} THEN LET p == Max(look) IN [sym |-> SymbolAt(t, p), len |-> HuffSize(t.bits)[p]]
      ELSE IF l > Len(s) THEN [sym |-> -1, len |-> Len(s)]
      ELSE IF l > Len(t.bits) THEN [sym |-> 0, len |-> l]
      ELSE [sym |-> SymbolAt(t, Number(SubSeq(s, 1, l)) + d.offset[l]), len |-> l]

-----------------------------------------------------------------------------
(* jpeg_gen_optimal_table.                                                 *)

Live == { i \in All : freq[i] > 0 }

\* The least count of a set, the larger symbol in a tie.
Least(S) ==
  CHOOSE i \in S : \A j \in S : freq[i] < freq[j] \/ (freq[i] = freq[j] /\ i >= j)

\* The symbols chained behind c in its branch of the tree.
Branch(c) ==
  LET reach[n \in 0..Cardinality(All)] ==
        IF n = 0 THEN {c} ELSE reach[n-1] \cup ({ others[x] : x \in reach[n-1] } \ {-1})
  IN  reach[Cardinality(All)]
\* The last of them, to which the next branch is chained.
EndOf(c) == CHOOSE x \in Branch(c) : others[x] = -1

\* The two smallest counts become one branch of the tree.
Merge ==
  /\ pc = "merge"
  /\ Cardinality(Live) >= 2
  /\ LET c1 == Least(Live)
         c2 == Least(Live \ {c1})
     IN  /\ freq' = [freq EXCEPT ![c1] = @ + freq[c2], ![c2] = 0]
         /\ codesize' = [i \in All |-> codesize[i] +
                           (IF i \in Branch(c1) \cup Branch(c2) THEN 1 ELSE 0)]
         /\ others' = [others EXCEPT ![EndOf(c1)] = c2]
  /\ UNCHANGED << counted, bits, table, at, pc >>

\* The number of symbols of each length (JERR_HUFF_CLEN_OVERFLOW past MaxCLen).
CountLengths ==
  /\ pc = "merge"
  /\ Cardinality(Live) < 2
  /\ IF \E i \in All : codesize[i] > MaxCLen
     THEN /\ pc' = "error"
          /\ UNCHANGED bits
     ELSE /\ bits' = [l \in 1..MaxCLen |-> Cardinality({ i \in All : codesize[i] = l })]
          /\ pc' = "limit"
  /\ UNCHANGED << counted, freq, others, codesize, table, at >>

\* A faulty form of Shorten, for the checks: the prefix of the pair is not
\* taken from a shorter code.
ShortenFree ==
  /\ pc = "limit"
  /\ at > MaxLen
  /\ IF bits[at] = 0 THEN at' = at - 1 /\ UNCHANGED bits
     ELSE /\ LET j == Max({ k \in 1..at-2 : bits[k] > 0 })
             IN  bits' = [bits EXCEPT ![at] = @ - 2, ![at-1] = @ + 1, ![j+1] = @ + 1]
          /\ UNCHANGED at
  /\ UNCHANGED << counted, freq, others, codesize, table, pc >>

\* Two of the longest codes are removed: one takes their prefix, and a shorter
\* code becomes the prefix of itself and the other.
Shorten ==
  /\ pc = "limit"
  /\ at > MaxLen
  /\ IF bits[at] = 0 THEN at' = at - 1 /\ UNCHANGED bits
     ELSE /\ LET j == Max({ k \in 1..at-2 : bits[k] > 0 })
                 two == [bits EXCEPT ![at] = @ - 2]
                 one == [two EXCEPT ![at-1] = @ + 1]
             IN  bits' = [one EXCEPT ![j+1] = @ + 2, ![j] = bits[j] - 1]
          /\ UNCHANGED at
  /\ UNCHANGED << counted, freq, others, codesize, table, pc >>

\* The pseudo-symbol leaves the longest length in use; the symbols are listed
\* by the lengths the tree gave them.
Finish ==
  /\ pc = "limit"
  /\ at = MaxLen
  /\ LET longest == Max({ l \in 1..MaxLen : bits[l] > 0 })
     IN  /\ bits' = [bits EXCEPT ![longest] = @ - 1]
         /\ table' = [bits |-> [l \in 1..MaxLen |-> bits'[l]],
                      huffval |-> SetToSortSeq({ i \in Symbols : codesize[i] > 0 },
                        LAMBDA i, j : codesize[i] < codesize[j] \/ (codesize[i] = codesize[j] /\ i < j))]
  /\ pc' = "done"
  /\ UNCHANGED << counted, freq, others, codesize, at >>

Init ==
  /\ counted \in { c \in [Symbols -> Counts] : \E s \in Symbols : c[s] > 0 }
  /\ freq = [i \in All |-> IF i = Pseudo THEN 1 ELSE counted[i]]
  /\ others = [i \in All |-> -1]
  /\ codesize = [i \in All |-> 0]
  /\ bits = << >>
  /\ table = [bits |-> << >>, huffval |-> << >>]
  /\ at = MaxCLen
  /\ pc = "merge"

Next == Merge \/ CountLengths \/ Shorten \/ Finish

Spec == Init /\ [][Next]_vars

-----------------------------------------------------------------------------
(* Properties.                                                             *)

\* Type invariant.
TypeOK ==
  /\ freq \in [All -> Nat] /\ others \in [All -> {-1} \cup All]
  /\ codesize \in [All -> 0..Cardinality(All)]
  /\ pc \in {"merge", "limit", "done", "error"}
  /\ bits \in Seq(Nat) /\ table.bits \in Seq(Nat) /\ table.huffval \in Seq(Symbols)

\* Shortening keeps the tree full: the codes, the pseudo-symbol's included,
\* fill the space of codes exactly (jchuff.c:1338-1361).
TreeFull ==
  pc = "limit" =>
    MapThenSumSet(LAMBDA l : bits[l] * 2^(MaxCLen - l), DOMAIN bits) = 2^MaxCLen

\* The table is one the coder and the decoder accept (JERR_BAD_HUFF_TABLE):
\* every counted symbol has a code and only those, no code is all ones.
TableLegal ==
  pc = "done" =>
    /\ NumCodes(table.bits) = Len(table.huffval)
    /\ ToSet(table.huffval) = { s \in Symbols : counted[s] > 0 }
    /\ LegalCode(HuffSize(table.bits))

\* What the coder writes for a symbol the decoder reads as that symbol, with
\* any bits behind it, few enough for the slow path or enough for the lookahead.
RoundTrip ==
  pc = "done" =>
    LET enc == Encoding(table)
        dec == Decoding(table)
    IN  \A s \in DOMAIN enc : \A n \in {0, Lookahead} : \A tail \in [1..n -> {0, 1}] :
          Decode(table, dec, BitsOf(enc[s].code, enc[s].len) \o tail) =
            [sym |-> s, len |-> enc[s].len]

\* Any bits at all end in a symbol of the table or in the warning for a code
\* there is not; padding of ones is never taken for a code.
AnyBitsDecode ==
  pc = "done" =>
    LET dec == Decoding(table)
    IN  /\ \A s \in [1..MaxLen+1 -> {0, 1}] :
             LET r == Decode(table, dec, s) IN r.sym \in ToSet(table.huffval) \/ (r.sym = 0 /\ r.len = MaxLen + 1)
        /\ Decode(table, dec, [i \in 1..MaxLen+1 |-> 1]).len = MaxLen + 1

\* Where no length had to be cut, no other choice of lengths is shorter.  (Where
\* one had, a symbol may even get a longer code than one counted less often: the
\* symbols keep the order of the lengths before the cut, jchuff.c:1371-1385.)
Optimal ==
  pc = "done" /\ (\A i \in All : codesize[i] <= MaxLen) =>
    LET used == { i \in All : codesize[i] > 0 }
        weight(i) == IF i = Pseudo THEN 1 ELSE counted[i]
        cost(f) == MapThenSumSet(LAMBDA i : weight(i) * f[i], used)
    IN  \A f \in [used -> 1..MaxLen] :
          MapThenSumSet(LAMBDA i : 2^(MaxLen - f[i]), used) <= 2^MaxLen => cost(codesize) <= cost(f)

\* All of these: the table decodes what it encodes, and no table is better.
CodesRight == TypeOK /\ TreeFull /\ TableLegal /\ RoundTrip /\ AnyBitsDecode /\ Optimal
=============================================================================
