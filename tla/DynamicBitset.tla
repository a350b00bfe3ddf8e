------------------------------ MODULE DynamicBitset ------------------------------
(***************************************************************************)
(* itlib::dynamic_bitset: bits packed in a vector of words.  The bits of   *)
(* the last word past the size of the bitset may be anything.              *)
(*                                                                         *)
(* A word is the set of its bits that are set, so that |, & and ~ are \cup,*)
(* \cap and the complement, and a shift drops what leaves the word.  Bits  *)
(* and words are counted from 0.                                           *)
(***************************************************************************)
EXTENDS Integers, Sequences, Functions

CONSTANTS Bitsets,
          bits_per_word,
          MaxSize      \* bound: how many bits each bitset may have

VARIABLES
    m_buf, m_size,
    bits,        \* history: what a vector<bool> would hold after the same calls
    fault        \* history: copy, if it gave a bit that is not its source's:
                 \* nothing is said of a bitset after that

vars == <<m_buf, m_size, bits, fault>>

Bit == 0..bits_per_word - 1
Word == SUBSET Bit

TypeOK ==
    /\ m_buf \in [Bitsets -> Seq(Word)]
    /\ \A x \in Bitsets : m_size[x] \in 0..MaxSize[x]
    /\ bits \in [Bitsets -> Seq(BOOLEAN)]
    /\ fault \in {"none", "copy"}

Init ==
    /\ m_buf = [x \in Bitsets |-> <<>>]
    /\ m_size = [x \in Bitsets |-> 0]
    /\ bits = [x \in Bitsets |-> <<>>]
    /\ fault = "none"

word_size(n) == (n + bits_per_word - 1) \div bits_per_word
word_index(i) == i \div bits_per_word
bit_index(i) == i % bits_per_word

\* word_mask(i) - 1
Below(i) == 0..bit_index(i) - 1
ShiftLeft(w, n) == {b + n : b \in w} \cap Bit
ShiftRight(w, n) == {b - n : b \in w} \cap Bit

\* m_buf[k]
At(s, k) == s[k + 1]
With(s, k, w) == [s EXCEPT ![k + 1] = w]
Words(w, n) == [k \in 1..n |-> w]

test(x, i) == bit_index(i) \in At(m_buf[x], word_index(i))
empty(x) == m_buf[x] = <<>>

\* The words that m_size covers, and the last one if it covers a part of it.
WholeWords(x) == 1..word_index(m_size[x])
PartOfLast(x) ==
    IF word_index(m_size[x]) = Len(m_buf[x]) THEN {} ELSE {m_buf[x][Len(m_buf[x])]}

\* The operands of `*it != ~word_type(0)' are promoted: a word narrower than an
\* int is never equal to the ones of an int.
all(x, narrow) ==
    /\ ~empty(x)
    /\ \A k \in WholeWords(x) : ~narrow /\ m_buf[x][k] = Bit
    /\ \A w \in PartOfLast(x) : Below(m_size[x]) \subseteq w

any(x) ==
    /\ ~empty(x)
    /\ \/ \E k \in WholeWords(x) : m_buf[x][k] # {}
       \/ \E w \in PartOfLast(x) : w \cap Below(m_size[x]) # {}

Changes(x, s, n, b) ==
    /\ n <= MaxSize[x]
    /\ m_buf' = [m_buf EXCEPT ![x] = s]
    /\ m_size' = [m_size EXCEPT ![x] = n]
    /\ bits' = [bits EXCEPT ![x] = b]

Becomes(x, s, n, b) == Changes(x, s, n, b) /\ UNCHANGED fault
-----------------------------------------------------------------------------
Falses(n) == [i \in 1..n |-> FALSE]
FirstOf(b, n) == IF n <= Len(b) THEN SubSeq(b, 1, n) ELSE b \o Falses(n - Len(b))

\* dynamic_bitset(n, value), which fills the words.
Construct(x, n, w) ==
    Becomes(x, Words(w, word_size(n)), n, [i \in 1..n |-> bit_index(i - 1) \in w])

assign(x, s) ==
    LET n == Len(s) * bits_per_word
    IN Becomes(x, s, n, [i \in 1..n |-> bit_index(i - 1) \in At(s, word_index(i - 1))])

Copy(x, y) == Becomes(x, m_buf[y], m_size[y], bits[y])

Move(x, y) ==
    /\ x # y /\ m_size[y] <= MaxSize[x]
    /\ m_buf' = [m_buf EXCEPT ![x] = m_buf[y], ![y] = <<>>]
    /\ m_size' = [m_size EXCEPT ![x] = m_size[y], ![y] = 0]
    /\ bits' = [bits EXCEPT ![x] = bits[y], ![y] = <<>>]
    /\ UNCHANGED fault

\* set(i), reset(i) and set(i, b), also through a bitref or an iterator.
WithBit(s, i, b) ==
    LET w == At(s, word_index(i))
    IN With(s, word_index(i), IF b THEN w \cup {bit_index(i)} ELSE w \ {bit_index(i)})

set(x, i, b) == Becomes(x, WithBit(m_buf[x], i, b), m_size[x], [bits[x] EXCEPT ![i + 1] = b])

flip(x, i) ==
    Becomes(x, WithBit(m_buf[x], i, ~test(x, i)), m_size[x],
            [bits[x] EXCEPT ![i + 1] = ~@])

\* The last word as it is.
Uncleared(x) == m_buf[x]

\* The bits that remain in the last word are cleared before there is room for
\* new ones, and not when they are cut off.
Cleared(x) ==
    IF bit_index(m_size[x]) = 0 THEN m_buf[x]
    ELSE [m_buf[x] EXCEPT ![Len(m_buf[x])] = @ \cap Below(m_size[x])]

Resized(x, n) ==
    LET s == Cleared(x)
    IN IF word_size(n) <= Len(s) THEN SubSeq(s, 1, word_size(n))
       ELSE s \o Words({}, word_size(n) - Len(s))

resize(x, n) == Becomes(x, Resized(x, n), n, FirstOf(bits[x], n))

push_back(x, b) ==
    LET n == m_size[x] + 1
    IN Becomes(x, WithBit(Resized(x, n), n - 1, b), n, Append(bits[x], b))

\* The words of y, after the words of x or shifted into them: each word of x
\* from its last one on gets the low bits of a word of y, and what was left of
\* the word before it.
Shifted(x, y) ==
    LET pad == bit_index(m_size[x])
        s == Resized(x, m_size[x] + m_size[y])
        back == Len(m_buf[x])
        Low(k) == IF k \in DOMAIN m_buf[y] THEN ShiftLeft(m_buf[y][k], pad) ELSE {}
        High(k) == IF k \in DOMAIN m_buf[y] THEN ShiftRight(m_buf[y][k], bits_per_word - pad) ELSE {}
    IN [k \in DOMAIN s |->
           IF k < back THEN s[k]
           ELSE (IF k = back THEN s[k] ELSE High(k - back)) \cup Low(k - back + 1)]

append(x, y) ==
    /\ x # y /\ ~empty(y)
    /\ Becomes(x, IF bit_index(m_size[x]) = 0 THEN m_buf[x] \o m_buf[y] ELSE Shifted(x, y),
               m_size[x] + m_size[y], bits[x] \o bits[y])

-----------------------------------------------------------------------------
(* copy(from, to, source), with to - from = n.                             *)

\* Single bits go first, until the target is at the start of a word.
Lead(from, n) ==
    LET k == (bits_per_word - bit_index(from)) % bits_per_word IN IF n < k THEN n ELSE k

\* Then whole words: word k of x from the words of t that its bits are in, when
\* its first bit is bit i of t.
Spliced(t, i) ==
    LET pad == bit_index(i)
    IN ShiftRight(At(t, word_index(i)), pad)
       \cup (IF pad = 0 THEN {} ELSE ShiftLeft(At(t, word_index(i) + 1), bits_per_word - pad))

\* And the rest of the bits from one word of t, even if they are in two.
Rest(t, i, w, to) ==
    (ShiftRight(At(t, word_index(i)), bit_index(i)) \cap Below(to)) \cup (w \ Below(to))

\* The words of x after a copy from y.
Copied(x, from, n, y, source) ==
    LET s == m_buf[x]
        t == m_buf[y]
        to == from + n
        start == from + Lead(from, n)
        Source(i) == source + (i - from)
        lead == [k \in DOMAIN s |->
                    {b \in Bit : LET i == (k - 1) * bits_per_word + b IN
                        IF from <= i /\ i < start THEN test(y, Source(i)) ELSE b \in s[k]}]
    IN [k \in DOMAIN s |->
           LET i == (k - 1) * bits_per_word IN
           IF i < start \/ i >= to THEN lead[k]
           ELSE IF to - i >= bits_per_word THEN Spliced(t, Source(i))
           ELSE Rest(t, Source(i), lead[k], to)]

\* The bits that it loses, which become 0: those of the rest that are in a
\* second word.
LostBits(from, n, source) ==
    LET start == from + Lead(from, n)
        to == from + n
        rest == to - bit_index(to)
    IN {i \in rest..to - 1 : rest >= start /\ bit_index(source + (rest - from)) + (i - rest) >= bits_per_word}

copy(x, from, n, y, source) ==
    /\ x # y /\ from + n <= m_size[x] /\ source + n <= m_size[y]
    /\ Changes(x, Copied(x, from, n, y, source), m_size[x],
               [i \in DOMAIN bits[x] |->
                   IF from < i /\ i <= from + n THEN bits[y][i - from + source] ELSE bits[x][i]])
    /\ fault' = IF \E i \in LostBits(from, n, source) : test(y, source + (i - from))
                THEN "copy" ELSE fault

Next ==
    fault = "none" /\ \E x \in Bitsets :
        \/ \E n \in 0..MaxSize[x] : resize(x, n) \/ \E w \in Word : Construct(x, n, w)
        \/ \E n \in 1..MaxSize[x] \div bits_per_word : \E s \in [1..n -> Word] : assign(x, s)
        \/ \E b \in BOOLEAN : push_back(x, b) \/ \E i \in 0..m_size[x] - 1 : set(x, i, b)
        \/ \E i \in 0..m_size[x] - 1 : flip(x, i)
        \/ \E y \in Bitsets :
              \/ Copy(x, y) \/ Move(x, y) \/ append(x, y)
              \/ \E n \in 0..m_size[x] : \E from \in 0..m_size[x] - n, source \in 0..m_size[y] - n :
                    copy(x, from, n, y, source)

Spec == Init /\ [][Next]_vars

-----------------------------------------------------------------------------
(* Correctness.                                                            *)

\* Until copy() drops a bit that is set, one of the last and in a second word
\* of the source, the bitset is a vector<bool>: no bit past the size, which a
\* shrinking resize or an append leaves in the last word, ever becomes one of
\* its bits, and shifted words lose none.  any() and all() are about those bits
\* and no others, with an empty bitset having none; but all() of words narrower
\* than an int may also be false for a bitset that has a whole word of ones.
LikeVectorBool ==
    fault = "none" =>
        \A x \in Bitsets :
            /\ m_size[x] = Len(bits[x]) /\ Len(m_buf[x]) = word_size(m_size[x])
            /\ \A i \in 1..m_size[x] : bits[x][i] = test(x, i - 1)
            /\ any(x) = (TRUE \in Range(bits[x]))
            /\ \A narrow \in BOOLEAN :
                  /\ all(x, narrow) => Range(bits[x]) = {TRUE}
                  /\ Range(bits[x]) = {TRUE} /\ ~(narrow /\ m_size[x] >= bits_per_word) => all(x, narrow)
=============================================================================
