----------------------------- MODULE VectorsProofs -----------------------------
(***************************************************************************)
(* Proofs about the components of Vectors, for all values of its constants *)
(* that satisfy the assumptions named there.                               *)
(***************************************************************************)
EXTENDS Vectors, Integers, SequenceTheorems, FiniteSetTheorems, WellFoundedInduction, TLAPS

-----------------------------------------------------------------------------
(* Numbers and sequences.                                                  *)

\* A set of positive numbers has a least one.
LEMMA Least ==
    ASSUME NEW P \in SUBSET (Nat \ {0}), P # {}
    PROVE  \E i \in P : \A j \in P : i <= j
<1>1. PICK n \in P : TRUE
  OBVIOUS
<1> DEFINE T == {1..i : i \in P}
<1>2. T \subseteq FiniteSubsetsOf(Nat) /\ T # {}
  <2>1. \A i \in P : 1..i \in SUBSET Nat /\ IsFiniteSet(1..i)
    BY FS_Interval
  <2> QED  BY <1>1, <2>1 DEF FiniteSubsetsOf
<1>3. PICK U \in T : \A V \in T : <<V, U>> \notin StrictSubsetOrdering(Nat)
  <2> HIDE DEF T
  <2> QED  BY <1>2, FS_StrictSubsetOrderingWellFounded, WFMin
<1>4. PICK i \in P : U = 1..i
  OBVIOUS
<1>5. ASSUME NEW j \in P, j < i
      PROVE  FALSE
  <2>1. 1..j \in T /\ 1..j \subseteq 1..i /\ i \in 1..i /\ i \notin 1..j
    BY <1>5
  <2>2. <<1..j, U>> \in StrictSubsetOrdering(Nat)
    BY <1>4, <2>1 DEF StrictSubsetOrdering
  <2> QED  BY <1>3, <2>1, <2>2
<1> QED  BY <1>4, <1>5

\* Induction up to n.
LEMMA UpTo ==
    ASSUME NEW n \in Nat, NEW S, 0 \in S, \A k \in 0..(n - 1) : k \in S => k + 1 \in S
    PROVE  n \in S
<1> SUFFICES ASSUME n \notin S PROVE FALSE
  OBVIOUS
<1> DEFINE P == {i \in 1..n : i \notin S}
<1>1. P \in SUBSET (Nat \ {0}) /\ n \in P
  OBVIOUS
<1>2. PICK i \in P : \A j \in P : i <= j
  <2> HIDE DEF P
  <2> QED  BY <1>1, Least
<1>3. i \in 1..n /\ i \notin S /\ i - 1 \in 0..(n - 1) /\ (i - 1) + 1 = i
  OBVIOUS
<1>4. i - 1 \notin S
  BY <1>3
<1>5. i - 1 \in P
  BY <1>3, <1>4
<1> QED  BY <1>2, <1>3, <1>5

LEMMA Scaled ==
    ASSUME NEW a \in Nat, NEW b \in Nat, NEW k \in Nat
    PROVE  a * k \in Nat /\ (a + b) * k = a * k + b * k
  OBVIOUS

LEMMA ScaledMore ==
    ASSUME NEW a \in Nat, NEW b \in Nat, NEW k \in Nat, a <= b
    PROVE  a * k <= b * k /\ (b - a) * k = b * k - a * k
<1>1. PICK c \in Nat : b = a + c
  <2>1. b - a \in Nat /\ b = a + (b - a)
    OBVIOUS
  <2> QED  BY <2>1
<1>2. b * k = a * k + c * k /\ a * k \in Nat /\ c * k \in Nat
  BY <1>1, Scaled
<1>3. b - a = c
  BY <1>1
<1>4. a * k <= b * k /\ c * k = b * k - a * k
  BY <1>2
<1> QED  BY <1>3, <1>4

LEMMA Divided ==
    ASSUME NEW a \in Nat, NEW k \in Nat \ {0}
    PROVE  a \div k \in Nat /\ (a \div k) * k <= a /\ a < (a \div k) * k + k
  OBVIOUS

LEMMA DividedLess ==
    ASSUME NEW a \in Nat, NEW b \in Nat, NEW k \in Nat \ {0}, a <= b
    PROVE  a \div k <= b \div k
<1> DEFINE q == a \div k
           r == b \div k
<1>1. q \in Nat /\ r \in Nat /\ q * k <= a /\ b < r * k + k
  BY Divided
<1> HIDE DEF q, r
<1>2. SUFFICES ASSUME r + 1 <= q PROVE FALSE
  BY <1>1 DEF q, r
<1>3. (r + 1) * k <= q * k
  BY <1>1, <1>2, ScaledMore
<1>4. (r + 1) * k = r * k + k /\ r * k \in Nat /\ q * k \in Nat
  BY <1>1, Scaled
<1> QED  BY <1>1, <1>3, <1>4

LEMMA DividedExactly ==
    ASSUME NEW n \in Nat, NEW k \in Nat \ {0}
    PROVE  (n * k) \div k = n
<1> DEFINE m == n * k
           q == m \div k
<1>1. m \in Nat
  BY Scaled
<1>2. q \in Nat /\ q * k <= m /\ m < q * k + k
  <2> HIDE DEF m
  <2> QED  BY <1>1, Divided
<1> HIDE DEF q
<1>3. CASE q + 1 <= n
  <2>1. (q + 1) * k <= n * k /\ (q + 1) * k = q * k + k
    BY <1>2, <1>3, ScaledMore, Scaled
  <2>2. q * k \in Nat /\ n * k \in Nat
    BY <1>2, Scaled
  <2> QED  BY <1>2, <2>1, <2>2
<1>4. CASE n + 1 <= q
  <2>1. (n + 1) * k <= q * k /\ (n + 1) * k = n * k + k
    BY <1>2, <1>4, ScaledMore, Scaled
  <2>2. q * k \in Nat /\ n * k \in Nat
    BY <1>2, Scaled
  <2> QED  BY <1>2, <2>1, <2>2
<1>5. q = n
  BY <1>2, <1>3, <1>4
<1> QED  BY <1>5 DEF q

\* s is a sequence, of whatever elements.
Listed(s) == Len(s) \in Nat /\ s = [i \in 1..Len(s) |-> s[i]]

LEMMA ListedSeq ==
    ASSUME NEW s, Listed(s)
    PROVE  \E S : s \in Seq(S)
<1> DEFINE S == {s[i] : i \in 1..Len(s)}
<1>1. s \in [1..Len(s) -> S]
  BY DEF Listed
<1>2. s \in Seq(S)
  <2> HIDE DEF S
  <2> QED  BY <1>1 DEF Listed
<1> QED  BY <1>2

LEMMA ListedOver ==
    ASSUME NEW n \in Nat, NEW s, s = [i \in 1..n |-> s[i]]
    PROVE  Listed(s) /\ Len(s) = n
<1> DEFINE S == {s[i] : i \in 1..n}
<1>1. s \in [1..n -> S]
  OBVIOUS
<1>2. Len(s) = n
  <2> HIDE DEF S
  <2> QED  BY <1>1
<1> QED  BY <1>2 DEF Listed

LEMMA SeqListed ==
    ASSUME NEW S, NEW s \in Seq(S)
    PROVE  Listed(s)
  BY DEF Listed

-----------------------------------------------------------------------------
(* pod_vector: growing.                                                    *)

\* The capacity that follows c.
NextCapacity(c) == (3 * c + 1) \div 2

LEMMA CapacityGrows ==
    ASSUME NEW c \in Nat \ {0}
    PROVE  NextCapacity(c) \in Nat /\ NextCapacity(c) >= c + 1
  BY DEF NextCapacity

\* g grows its argument until n fits.
Grows(g, n) == g = [c \in Nat |-> IF c < n THEN g[NextCapacity(c)] ELSE c]

LEMMA SomethingGrows ==
    ASSUME NEW n \in Nat
    PROVE  \E g : Grows(g, n)
<1>0. CASE n = 0
  <2> DEFINE g == [c \in Nat |-> c]
  <2>1. \A c \in Nat : g[c] = c /\ ~(c < n)
    BY <1>0
  <2>2. g = [c \in Nat |-> IF c < n THEN g[NextCapacity(c)] ELSE c]
    BY <2>1
  <2> QED  BY <2>2 DEF Grows
<1> SUFFICES ASSUME n # 0 PROVE \E g : Grows(g, n)
  BY <1>0
<1> DEFINE Right(g, c) == g[c] = IF c < n THEN g[NextCapacity(c)] ELSE c
           S == {k \in 0..n : \E g \in [Nat -> Nat] : \A c \in Nat : c > n - k => Right(g, c)}
<1>1. 0 \in S
  <2> DEFINE g == [c \in Nat |-> c]
  <2>1. g \in [Nat -> Nat] /\ \A c \in Nat : c > n - 0 => Right(g, c)
    OBVIOUS
  <2> HIDE DEF g, Right
  <2> QED  BY <2>1
<1>2. ASSUME NEW k \in 0..(n - 1), k \in S
      PROVE  k + 1 \in S
  <2>1. PICK g \in [Nat -> Nat] : \A c \in Nat : c > n - k => Right(g, c)
    BY <1>2
  <2> DEFINE a == n - k
             h == [g EXCEPT ![a] = IF a < n THEN g[NextCapacity(a)] ELSE a]
  <2>2. a \in Nat \ {0} /\ NextCapacity(a) \in Nat /\ NextCapacity(a) > a
    <3>1. a \in Nat \ {0}
      OBVIOUS
    <3> HIDE DEF a
    <3> QED  BY <3>1, CapacityGrows
  <2>3. h \in [Nat -> Nat] /\ h[a] = (IF a < n THEN g[NextCapacity(a)] ELSE a)
        /\ \A c \in Nat : c # a => h[c] = g[c]
    <3> HIDE DEF a
    <3> QED  BY <2>2
  <2> HIDE DEF h
  <2>4. ASSUME NEW c \in Nat, c > n - (k + 1)
        PROVE  Right(h, c)
    <3>1. CASE c = a
      BY <2>2, <2>3, <3>1
    <3>2. CASE c # a
      <4>1. c > a /\ c \in Nat \ {0}
        BY <2>4, <3>2
      <4>2. NextCapacity(c) \in Nat /\ NextCapacity(c) > a
        BY <4>1, <2>2, CapacityGrows
      <4>3. Right(g, c)
        BY <2>1, <4>1
      <4>4. h[c] = g[c] /\ h[NextCapacity(c)] = g[NextCapacity(c)]
        BY <2>2, <2>3, <4>1, <4>2
      <4> QED  BY <4>3, <4>4
    <3> QED  BY <3>1, <3>2
  <2> HIDE DEF Right
  <2>5. k + 1 \in 0..n
    OBVIOUS
  <2> QED  BY <2>3, <2>4, <2>5
<1>3. n \in S
  <2> HIDE DEF S
  <2> QED  BY <1>1, <1>2, UpTo
<1>4. PICK g \in [Nat -> Nat] : \A c \in Nat : c > n - n => Right(g, c)
  BY <1>3
<1>5. Right(g, 0)
  <2>1. NextCapacity(0) = 0
    BY DEF NextCapacity
  <2> QED  BY <2>1
<1>6. \A c \in Nat : Right(g, c)
  <2>1. \A c \in Nat : c = 0 \/ c > n - n
    OBVIOUS
  <2> HIDE DEF Right
  <2> QED  BY <1>4, <1>5, <2>1
<1>7. Grows(g, n)
  BY <1>6 DEF Grows
<1> QED  BY <1>7

LEMMA NewCapacityFits ==
    ASSUME NEW v \in Pods, NEW c \in Nat, c = p_capacity[v], NEW n \in Nat \ {0}
    PROVE  Pod!get_new_capacity(v, n) \in Nat /\ Pod!get_new_capacity(v, n) >= n
<1>0. CASE c = 0
  BY <1>0 DEF Pod!get_new_capacity
<1> SUFFICES ASSUME c # 0 PROVE Pod!get_new_capacity(v, n) \in Nat /\ Pod!get_new_capacity(v, n) >= n
  BY <1>0
<1> DEFINE grow == CHOOSE g : Grows(g, n)
<1>1. Pod!get_new_capacity(v, n) = grow[c]
  BY DEF Pod!get_new_capacity, Grows, NextCapacity
<1>2. Grows(grow, n)
  BY SomethingGrows
<1> HIDE DEF grow
<1>3. \A a \in Nat : grow[a] = IF a < n THEN grow[NextCapacity(a)] ELSE a
  BY <1>2 DEF Grows
<1> DEFINE Fits(a) == grow[a] \in Nat /\ grow[a] >= n /\ grow[a] >= a
           S == {k \in 0..n : \A a \in Nat \ {0} : a >= n - k => Fits(a)}
<1>4. 0 \in S
  <2>1. \A a \in Nat \ {0} : a >= n - 0 => Fits(a)
    BY <1>3
  <2> QED  BY <2>1
<1>5. ASSUME NEW k \in 0..(n - 1), k \in S
      PROVE  k + 1 \in S
  <2>1. ASSUME NEW a \in Nat \ {0}, a >= n - (k + 1)
        PROVE  Fits(a)
    <3>1. CASE a < n
      <4>1. NextCapacity(a) \in Nat \ {0} /\ NextCapacity(a) >= a + 1
        BY CapacityGrows
      <4>2. NextCapacity(a) >= n - k
        BY <2>1, <4>1
      <4>3. Fits(NextCapacity(a))
        BY <1>5, <4>1, <4>2
      <4>4. grow[a] = grow[NextCapacity(a)]
        BY <1>3, <3>1
      <4> QED  BY <4>1, <4>3, <4>4
    <3>2. CASE ~(a < n)
      BY <1>3, <3>2
    <3> QED  BY <3>1, <3>2
  <2> HIDE DEF Fits
  <2> QED  BY <2>1
<1>6. n \in S
  <2> HIDE DEF S
  <2> QED  BY <1>4, <1>5, UpTo
<1>7. Fits(c)
  BY <1>6
<1> QED  BY <1>1, <1>7
-----------------------------------------------------------------------------
(* pod_vector: buffers.                                                    *)

\* n elements of v, in bytes.
Span(t, v, n) == n * t.sizeof[v]

LEMMA SpanAdds ==
    ASSUME NEW t \in PodTypes, NEW v \in Pods, NEW a \in Nat, NEW b \in Nat
    PROVE  /\ Span(t, v, a) \in Nat /\ Span(t, v, a + b) = Span(t, v, a) + Span(t, v, b)
           /\ a <= b => Span(t, v, a) <= Span(t, v, b) /\ Span(t, v, b - a) = Span(t, v, b) - Span(t, v, a)
<1>1. t.sizeof[v] \in Nat
  BY PodTypesAssumption
<1> QED  BY <1>1, Scaled, ScaledMore DEF Span

LEMMA SpanOne ==
    ASSUME NEW t \in PodTypes, NEW v \in Pods
    PROVE  Span(t, v, 0) = 0 /\ Span(t, v, 1) = t.sizeof[v] /\ t.sizeof[v] \in Nat \ {0}
<1>1. t.sizeof[v] \in Nat \ {0}
  BY PodTypesAssumption
<1> QED  BY <1>1 DEF Span

LEMMA SpanPositive ==
    ASSUME NEW t \in PodTypes, NEW v \in Pods, NEW a \in Nat \ {0}
    PROVE  Span(t, v, a) \in Nat \ {0}
<1>1. Span(t, v, 1) <= Span(t, v, a) /\ Span(t, v, a) \in Nat
  BY SpanAdds
<1> QED  BY <1>1, SpanOne

\* A block that elements of v begin at, or none.  If it is short of its capacity,
\* then because it was expanded as one of a type that it begins too far for.
Sound(t, v, u) ==
    /\ u = [block |-> u.block, shift |-> u.shift, capacity |-> u.capacity, bytes |-> u.bytes]
    /\ u.block \in Blocks \cup {Null} /\ u.shift \in Nat /\ u.capacity \in Nat /\ Listed(u.bytes)
    /\ IF u.block = Null THEN u.shift = 0 /\ u.capacity = 0 /\ Len(u.bytes) = 0 ELSE Len(u.bytes) > 0
    /\ u.shift \in 1..Len(u.bytes) => u.bytes[u.shift] = u.shift
    /\ t.allocator_aligned => u.shift = 0
    /\ u.shift + Span(t, v, u.capacity) > Len(u.bytes) =>
          t.has_expand /\ \E w \in Pods : u.shift > t.sizeof[w]

\* The bytes from the first element of u on are xs, as far as there are any.
HasBytes(u, xs) == \A i \in 1..Len(xs) : u.shift + i <= Len(u.bytes) => u.bytes[u.shift + i] = xs[i]

\* u contains n elements of v, whose bytes are xs.
Filled(t, v, u, n, xs) ==
    /\ n \in Nat /\ n <= u.capacity
    /\ xs \in Seq(Bytes) /\ Len(xs) = Span(t, v, n)
    /\ u.shift + Span(t, v, n) <= Len(u.bytes)
    /\ HasBytes(u, xs)

PodShape ==
    /\ p_type \in PodTypes
    /\ p_begin = [v \in Pods |-> p_begin[v]] /\ p_shift = [v \in Pods |-> p_shift[v]]
    /\ p_size = [v \in Pods |-> p_size[v]] /\ p_capacity = [v \in Pods |-> p_capacity[v]]
    /\ p_contents = [v \in Pods |-> p_contents[v]]
    /\ p_data = [b \in Blocks |-> p_data[b]]

PodFilled ==
    \A v \in Pods : /\ Sound(p_type, v, Pod!Buffer(v))
                    /\ Filled(p_type, v, Pod!Buffer(v), p_size[v], p_contents[v])

\* Blocks have one owner.
PodApart == \A v, w \in Pods : p_begin[v] = p_begin[w] /\ v # w => p_begin[v] = Null
PodOwned == \A b \in Blocks : p_data[b] # <<>> => \E v \in Pods : p_begin[v] = b

PodIndInv == PodShape /\ PodFilled /\ PodApart /\ PodOwned /\ Pod!NoOverrun

\* A buffer that v may have next.
Mine(v, u) == u.block = p_begin[v] \/ u.block = Null \/ p_data[u.block] = <<>>

LEMMA FitsSpan ==
    ASSUME NEW v \in Pods, NEW u, NEW n
    PROVE  /\ Pod!Fits(v, u, n) <=> u.shift + Span(p_type, v, n) <= Len(u.bytes)
           /\ Pod!Place(v, u, n) = u.shift + Span(p_type, v, n)
           /\ Pod!e2b(v, n) = Span(p_type, v, n)
           /\ Pod!alignof(v) = p_type.sizeof[v]
  BY DEF Pod!Fits, Pod!Place, Pod!e2b, Pod!alignof, Span

LEMMA BufferOf ==
    ASSUME PodIndInv, NEW v \in Pods
    PROVE  /\ Pod!Buffer(v).block = p_begin[v] /\ Pod!Buffer(v).shift = p_shift[v]
           /\ Pod!Buffer(v).capacity = p_capacity[v]
           /\ p_begin[v] # Null =>
                 /\ p_begin[v] \in Blocks /\ p_data[p_begin[v]] # <<>>
                 /\ Pod!Buffer(v).bytes = p_data[p_begin[v]]
           /\ p_begin[v] = Null => Pod!Buffer(v).bytes = <<>>
           /\ Sound(p_type, v, Pod!Buffer(v)) /\ Mine(v, Pod!Buffer(v))
           /\ Filled(p_type, v, Pod!Buffer(v), p_size[v], p_contents[v])
<1>1. Sound(p_type, v, Pod!Buffer(v)) /\ Filled(p_type, v, Pod!Buffer(v), p_size[v], p_contents[v])
  BY DEF PodIndInv, PodFilled
<1>2. /\ Pod!Buffer(v).block = p_begin[v] /\ Pod!Buffer(v).shift = p_shift[v]
      /\ Pod!Buffer(v).capacity = p_capacity[v]
      /\ Pod!Buffer(v).bytes = IF p_begin[v] = Null THEN <<>> ELSE p_data[p_begin[v]]
  BY DEF Pod!Buffer
<1>3. Mine(v, Pod!Buffer(v))
  BY <1>2 DEF Mine
<1>4. ASSUME p_begin[v] # Null
      PROVE  p_begin[v] \in Blocks /\ p_data[p_begin[v]] # <<>>
  BY <1>1, <1>2, <1>4 DEF Sound
<1> QED  BY <1>1, <1>2, <1>3, <1>4

-----------------------------------------------------------------------------
(* pod_vector: a vector takes another buffer, or other contents.           *)

\* What is behind the elements is forgotten.
Forgotten(t, v, u, n) == [i \in DOMAIN u.bytes |-> IF i <= u.shift + Span(t, v, n) THEN u.bytes[i] ELSE Junk]

LEMMA ForgetsNothing ==
    ASSUME NEW t \in PodTypes, NEW v \in Pods, NEW u, NEW n, NEW xs, Sound(t, v, u), Filled(t, v, u, n, xs),
           NEW e, e.block = u.block, e.shift = u.shift, e.capacity = u.capacity,
           e.bytes = Forgotten(t, v, u, n),
           e = [block |-> e.block, shift |-> e.shift, capacity |-> e.capacity, bytes |-> e.bytes]
    PROVE  Sound(t, v, e) /\ Filled(t, v, e, n, xs) /\ (u.block # Null => e.bytes # <<>>)
<1>1. DOMAIN u.bytes = 1..Len(u.bytes) /\ Len(u.bytes) \in Nat
  BY DEF Sound, Listed
<1>2. Listed(e.bytes) /\ Len(e.bytes) = Len(u.bytes)
  <2>1. e.bytes = [i \in 1..Len(u.bytes) |-> e.bytes[i]]
    BY <1>1 DEF Forgotten
  <2> QED  BY <1>1, <2>1, ListedOver
<1>3. \A i \in 1..Len(u.bytes) : i <= u.shift + Span(t, v, n) => e.bytes[i] = u.bytes[i]
  BY <1>1 DEF Forgotten
<1>4. u.shift \in Nat /\ Span(t, v, n) \in Nat
  BY SpanAdds DEF Sound, Filled
<1>5. u.shift \in 1..Len(u.bytes) => e.bytes[u.shift] = u.shift
  BY <1>3, <1>4 DEF Sound
<1>6. HasBytes(e, xs)
  <2>1. Len(xs) = Span(t, v, n) /\ HasBytes(u, xs)
    BY DEF Filled
  <2>2. ASSUME NEW i \in 1..Len(xs), e.shift + i <= Len(e.bytes)
        PROVE  e.bytes[e.shift + i] = xs[i]
    <3>1. u.shift + i \in 1..Len(u.bytes) /\ u.shift + i <= u.shift + Span(t, v, n)
      BY <1>1, <1>2, <1>4, <2>1, <2>2
    <3>2. u.bytes[u.shift + i] = xs[i]
      BY <2>1, <3>1 DEF HasBytes
    <3> QED  BY <1>3, <3>1, <3>2
  <2> QED  BY <2>2 DEF HasBytes
<1>7. Sound(t, v, e)
  BY <1>2, <1>5 DEF Sound
<1>8. u.block # Null => e.bytes # <<>>
  BY <1>2 DEF Sound
<1> QED  BY <1>2, <1>6, <1>7, <1>8 DEF Filled

\* v has buffer u, with n elements, and no other vector has a block that it had or has.
LEMMA PodBecomes ==
    ASSUME PodIndInv, NEW v \in Pods, NEW u, NEW n, NEW xs, Sound(p_type, v, u), Mine(v, u),
           Filled(p_type, v, u, n, xs), Pod!Becomes(v, u, n, xs), UNCHANGED p_fault
    PROVE  PodIndInv'
<1>1. /\ p_begin' = [p_begin EXCEPT ![v] = u.block] /\ p_shift' = [p_shift EXCEPT ![v] = u.shift]
      /\ p_size' = [p_size EXCEPT ![v] = n] /\ p_capacity' = [p_capacity EXCEPT ![v] = u.capacity]
      /\ p_contents' = [p_contents EXCEPT ![v] = xs] /\ p_type' = p_type
      /\ p_data' = [b \in Blocks |-> IF b = u.block THEN Forgotten(p_type, v, u, n)
                                     ELSE IF b = p_begin[v] THEN <<>> ELSE p_data[b]]
  BY FitsSpan DEF Pod!Becomes, Forgotten
<1>2. PodShape'
  BY <1>1 DEF PodIndInv, PodShape
<1>3. /\ p_begin'[v] = u.block /\ p_shift'[v] = u.shift /\ p_size'[v] = n /\ p_capacity'[v] = u.capacity
      /\ p_contents'[v] = xs
      /\ \A w \in Pods \ {v} :
            /\ p_begin'[w] = p_begin[w] /\ p_shift'[w] = p_shift[w] /\ p_size'[w] = p_size[w]
            /\ p_capacity'[w] = p_capacity[w] /\ p_contents'[w] = p_contents[w]
  BY <1>1 DEF PodIndInv, PodShape
<1>4. u.block # Null => u.block \in Blocks
  BY DEF Sound
<1>5. Null \notin Blocks
  BY NullAssumption
<1>6. ASSUME NEW w \in Pods \ {v}, p_begin[w] # Null
      PROVE  p_begin[w] # u.block /\ p_begin[w] # p_begin[v] /\ p_data'[p_begin[w]] = p_data[p_begin[w]]
  <2>1. p_begin[w] \in Blocks /\ p_data[p_begin[w]] # <<>>
    BY <1>6, BufferOf
  <2>2. p_begin[w] # p_begin[v]
    BY <1>6 DEF PodIndInv, PodApart
  <2>3. p_begin[w] # u.block
    BY <1>6, <2>1, <2>2 DEF Mine
  <2> QED  BY <1>1, <2>1, <2>2, <2>3
<1>7. ASSUME NEW w \in Pods \ {v}
      PROVE  /\ Sound(p_type, w, Pod!Buffer(w)') /\ Filled(p_type, w, Pod!Buffer(w)', p_size'[w], p_contents'[w])
             /\ p_begin'[w] # Null => p_begin'[w] # u.block
  <2>1. Pod!Buffer(w)' = Pod!Buffer(w)
    BY <1>3, <1>6 DEF Pod!Buffer
  <2>2. Sound(p_type, w, Pod!Buffer(w)) /\ Filled(p_type, w, Pod!Buffer(w), p_size[w], p_contents[w])
    BY BufferOf
  <2> QED  BY <1>3, <1>6, <2>1, <2>2
<1>8. ASSUME NEW e, e = Pod!Buffer(v)'
      PROVE  Sound(p_type, v, e) /\ Filled(p_type, v, e, n, xs) /\ (u.block # Null => p_data'[u.block] # <<>>)
  <2>1. /\ e.block = u.block /\ e.shift = u.shift /\ e.capacity = u.capacity
        /\ e = [block |-> e.block, shift |-> e.shift, capacity |-> e.capacity, bytes |-> e.bytes]
    BY <1>3, <1>8 DEF Pod!Buffer
  <2>2. CASE u.block = Null
    <3>1. e.bytes = <<>>
      BY <1>3, <1>8, <2>2 DEF Pod!Buffer
    <3>2. DOMAIN u.bytes = {}
      BY <2>2 DEF Sound, Listed
    <3>3. e.bytes = Forgotten(p_type, v, u, n)
      BY <3>1, <3>2 DEF Forgotten
    <3>4. p_type \in PodTypes
      BY DEF PodIndInv, PodShape
    <3> QED  BY <2>1, <2>2, <3>3, <3>4, ForgetsNothing
  <2>3. CASE u.block # Null
    <3>1. e.bytes = p_data'[u.block]
      BY <1>3, <1>8, <2>3 DEF Pod!Buffer
    <3>2. e.bytes = Forgotten(p_type, v, u, n)
      BY <1>1, <1>4, <2>3, <3>1
    <3>3. p_type \in PodTypes
      BY DEF PodIndInv, PodShape
    <3>4. Sound(p_type, v, e) /\ Filled(p_type, v, e, n, xs) /\ e.bytes # <<>>
      BY <2>1, <2>3, <3>2, <3>3, ForgetsNothing
    <3> QED  BY <3>1, <3>4
  <2> QED  BY <2>2, <2>3
<1>9. PodFilled'
  <2>1. Sound(p_type, v, Pod!Buffer(v)') /\ Filled(p_type, v, Pod!Buffer(v)', p_size'[v], p_contents'[v])
    BY <1>3, <1>8
  <2>2. \A w \in Pods : /\ Sound(p_type', w, Pod!Buffer(w)')
                        /\ Filled(p_type', w, Pod!Buffer(w)', p_size'[w], p_contents'[w])
    BY <1>1, <1>7, <2>1
  <2> QED  BY <2>2 DEF PodFilled
<1>10. PodApart'
  <2>1. \A w, x \in Pods \ {v} : p_begin[w] = p_begin[x] /\ w # x => p_begin[w] = Null
    BY DEF PodIndInv, PodApart
  <2> QED  BY <1>3, <1>7, <2>1 DEF PodApart
<1>11. PodOwned'
  <2>1. ASSUME NEW b \in Blocks, p_data'[b] # <<>>
        PROVE  \E w \in Pods : p_begin'[w] = b
    <3>1. CASE b = u.block
      BY <1>3, <3>1
    <3>2. CASE b # u.block
      <4>1. b # p_begin[v] /\ p_data[b] # <<>>
        BY <1>1, <2>1, <3>2
      <4>2. PICK w \in Pods : p_begin[w] = b
        BY <4>1 DEF PodIndInv, PodOwned
      <4> QED  BY <1>3, <4>1, <4>2
    <3> QED  BY <3>1, <3>2
  <2> QED  BY <2>1 DEF PodOwned
<1>12. Pod!NoOverrun'
  BY DEF PodIndInv, Pod!NoOverrun
<1> QED  BY <1>2, <1>9, <1>10, <1>11, <1>12 DEF PodIndInv

\* n elements of v fit in u, unless the block is one that an expand has left short.
Roomy(v, u, n) ==
    /\ n \in Nat /\ n <= u.capacity
    /\ \/ u.shift + Span(p_type, v, n) <= Len(u.bytes)
       \/ Pod!Short(v, Pod!Buffer(v)) \/ u.shift > Pod!alignof(v)

LEMMA PodFaults ==
    ASSUME PodIndInv, UNCHANGED <<p_type, p_begin, p_shift, p_size, p_capacity, p_data, p_contents>>,
           Pod!NoOverrun'
    PROVE  PodIndInv'
<1>1. PodShape' /\ PodApart' /\ PodOwned'
  BY DEF PodIndInv, PodShape, PodApart, PodOwned
<1>2. \A v \in Pods : Pod!Buffer(v)' = Pod!Buffer(v)
  BY DEF Pod!Buffer
<1>3. PodFilled'
  BY <1>2 DEF PodIndInv, PodFilled
<1> QED  BY <1>1, <1>3 DEF PodIndInv

\* A function makes buffer u ready and fills it, or faults where it may.
LEMMA PodRun ==
    ASSUME PodIndInv, NEW v \in Pods, NEW u, NEW n, NEW xs, NEW ok \in BOOLEAN, NEW name,
           Sound(p_type, v, u), Mine(v, u), Roomy(v, u, n),
           ok /\ u.shift + Span(p_type, v, n) <= Len(u.bytes) => Filled(p_type, v, u, n, xs),
           ok \/ name \in {"resize_fill", "push_back_own", "assign_own", "resize_own", "insert_own"},
           Pod!Run(v, name, ok, u, n, xs)
    PROVE  PodIndInv'
<1>1. CASE ok /\ Pod!Fits(v, u, n) /\ Pod!Becomes(v, u, n, xs) /\ UNCHANGED p_fault
  BY <1>1, FitsSpan, PodBecomes
<1>2. CASE /\ ~(ok /\ Pod!Fits(v, u, n))
           /\ p_fault' = IF ~Pod!Fits(v, u, n) /\ (Pod!Short(v, Pod!Buffer(v)) \/ u.shift > Pod!alignof(v))
                         THEN "expand" ELSE name
           /\ UNCHANGED <<p_type, p_begin, p_shift, p_size, p_capacity, p_data, p_contents>>
  <2>1. Pod!NoOverrun'
    BY <1>2, FitsSpan DEF Roomy, Pod!NoOverrun
  <2> QED  BY <1>2, <2>1, PodFaults
<1> QED  BY <1>1, <1>2 DEF Pod!Run, Pod!vector

-----------------------------------------------------------------------------
(* pod_vector: where buffers come from.                                    *)

LEMMA FreeBlockIsFree ==
    ASSUME PodIndInv
    PROVE  Pod!FreeBlock \in Blocks /\ p_data[Pod!FreeBlock] = <<>>
<1>1. p_begin \in [Pods -> Blocks \cup {Null}]
  <2>1. \A v \in Pods : p_begin[v] \in Blocks \cup {Null}
    BY BufferOf DEF Sound
  <2> QED  BY <2>1 DEF PodIndInv, PodShape
<1>2. PICK b \in Blocks : \A v \in Pods : p_begin[v] # b
  BY <1>1, PodBlocksAssumption
<1>3. p_data[b] = <<>>
  BY <1>2 DEF PodIndInv, PodOwned
<1> QED  BY <1>3 DEF Pod!FreeBlock

LEMMA FillIs ==
    ASSUME NEW k \in Nat, NEW m \in Nat, NEW x, Len(x) = m
    PROVE  Listed(Pod!Fill(x, k)) /\ Len(Pod!Fill(x, k)) = k * m
<1>1. k * m \in Nat
  BY Scaled
<1>2. Pod!Fill(x, k) = [i \in 1..k * m |-> Pod!Fill(x, k)[i]]
  BY DEF Pod!Fill
<1> QED  BY <1>1, <1>2, ListedOver

LEMMA Mallocs ==
    ASSUME PodIndInv, NEW v \in Pods, NEW n \in Nat \ {0}, NEW u \in Pod!a_malloc(v, n)
    PROVE  /\ Sound(p_type, v, u) /\ Mine(v, u) /\ u.capacity = n /\ u.block # Null
           /\ u.shift + Span(p_type, v, n) <= Len(u.bytes)
<1>1. p_type \in PodTypes /\ p_type.allocator_aligned \in BOOLEAN
  BY PodTypesAssumption DEF PodIndInv, PodShape
<1>2. Span(p_type, v, n) \in Nat \ {0} /\ p_type.sizeof[v] \in Nat \ {0}
  BY <1>1, SpanPositive, SpanOne
<1>3. Pod!FreeBlock \in Blocks /\ p_data[Pod!FreeBlock] = <<>> /\ Null \notin Blocks
  BY FreeBlockIsFree, NullAssumption
<1>4. ASSUME NEW k \in Nat
      PROVE  Listed(Pod!Fill(<<Junk>>, k)) /\ Len(Pod!Fill(<<Junk>>, k)) = k
  <2>1. Len(<<Junk>>) = 1 /\ k * 1 = k
    OBVIOUS
  <2> QED  BY <2>1, FillIs
<1>5. CASE p_type.allocator_aligned
  <2>1. u = [block |-> Pod!FreeBlock, shift |-> 0, capacity |-> n, bytes |-> Pod!Fill(<<Junk>>, Span(p_type, v, n))]
    BY <1>5, FitsSpan DEF Pod!a_malloc
  <2>2. Listed(u.bytes) /\ Len(u.bytes) = Span(p_type, v, n)
    BY <1>2, <1>4, <2>1
  <2>3. Sound(p_type, v, u)
    BY <1>2, <1>3, <1>5, <2>1, <2>2 DEF Sound
  <2> QED  BY <1>2, <1>3, <2>1, <2>2, <2>3 DEF Mine
<1>6. CASE ~p_type.allocator_aligned
  <2> DEFINE len == Span(p_type, v, n) + p_type.sizeof[v]
             f == Pod!Fill(<<Junk>>, len)
  <2>1. PICK k \in 1..p_type.sizeof[v] :
            u = [block |-> Pod!FreeBlock, shift |-> k, capacity |-> n, bytes |-> [f EXCEPT ![k] = k]]
    BY <1>6, FitsSpan DEF Pod!a_malloc
  <2>2. len \in Nat /\ k \in 1..len /\ k + Span(p_type, v, n) <= len /\ len > 0
    BY <1>2
  <2>3. Listed(f) /\ Len(f) = len
    BY <1>4, <2>2
  <2> HIDE DEF f, len
  <2>4. f = [i \in 1..len |-> f[i]]
    BY <2>3 DEF Listed
  <2>5. u.bytes = [i \in 1..len |-> u.bytes[i]] /\ u.bytes[k] = k
    BY <2>1, <2>2, <2>4
  <2>6. Listed(u.bytes) /\ Len(u.bytes) = len
    BY <2>2, <2>5, ListedOver
  <2>7. Sound(p_type, v, u)
    BY <1>2, <1>3, <1>6, <2>1, <2>2, <2>5, <2>6 DEF Sound
  <2> QED  BY <1>3, <2>1, <2>2, <2>6, <2>7 DEF Mine
<1> QED  BY <1>1, <1>5, <1>6

\* e is u with other elements.
Like(u, e) ==
    /\ e = [block |-> u.block, shift |-> u.shift, capacity |-> u.capacity, bytes |-> e.bytes]
    /\ Listed(e.bytes) /\ Len(e.bytes) = Len(u.bytes)
    /\ \A i \in 1..Len(u.bytes) : i <= u.shift => e.bytes[i] = u.bytes[i]

LEMMA LikeIsSound ==
    ASSUME NEW v \in Pods, NEW u, NEW e, Sound(p_type, v, u), Like(u, e)
    PROVE  /\ Sound(p_type, v, e)
           /\ Mine(v, u) => Mine(v, e)
           /\ \A n : Roomy(v, u, n) => Roomy(v, e, n)
           /\ e.shift = u.shift /\ e.block = u.block /\ e.capacity = u.capacity /\ Len(e.bytes) = Len(u.bytes)
<1>1. e.shift = u.shift /\ e.block = u.block /\ e.capacity = u.capacity
  BY DEF Like
<1>2. Len(e.bytes) = Len(u.bytes) /\ Listed(e.bytes) /\ e = [block |-> e.block, shift |-> e.shift, capacity |-> e.capacity, bytes |-> e.bytes]
  BY <1>1 DEF Like
<1>3. u.shift \in 1..Len(u.bytes) => e.bytes[u.shift] = u.shift
  BY DEF Like, Sound
<1>4. Sound(p_type, v, e)
  BY <1>1, <1>2, <1>3 DEF Sound
<1>5. Mine(v, u) => Mine(v, e)
  BY <1>1 DEF Mine
<1>6. \A n : Roomy(v, u, n) => Roomy(v, e, n)
  BY <1>1, <1>2 DEF Roomy
<1> QED  BY <1>1, <1>2, <1>4, <1>5, <1>6

\* xs is written over u, from byte `to' of its elements on.
Written(u, e, to, xs) ==
    /\ Like(u, e)
    /\ \A i \in 1..Len(u.bytes) :
          e.bytes[i] = IF i - u.shift > to /\ i - u.shift <= to + Len(xs) THEN xs[i - u.shift - to] ELSE u.bytes[i]

LEMMA MemsetWrites ==
    ASSUME NEW v \in Pods, NEW u, Sound(p_type, v, u), NEW to \in Nat, NEW xs, Len(xs) \in Nat, NEW e,
           e = [u EXCEPT !.bytes = Pod!memset(@, u.shift + to, xs)]
    PROVE  Written(u, e, to, xs)
<1>1. u.shift \in Nat /\ Len(u.bytes) \in Nat /\ u.bytes = [i \in 1..Len(u.bytes) |-> u.bytes[i]]
  BY DEF Sound, Listed
<1>2. e = [block |-> u.block, shift |-> u.shift, capacity |-> u.capacity,
           bytes |-> Pod!memset(u.bytes, u.shift + to, xs)]
  BY DEF Sound
<1>3. e.bytes = [i \in 1..Len(u.bytes) |->
                    IF i - 1 \in (u.shift + to)..(u.shift + to) + Len(xs) - 1 THEN xs[i - (u.shift + to)] ELSE u.bytes[i]]
  BY <1>1, <1>2 DEF Pod!memset
<1>4. e.bytes = [i \in 1..Len(u.bytes) |-> e.bytes[i]]
  BY <1>3
<1>5. Listed(e.bytes) /\ Len(e.bytes) = Len(u.bytes)
  BY <1>1, <1>4, ListedOver
<1>6. ASSUME NEW i \in 1..Len(u.bytes)
      PROVE  e.bytes[i] = IF i - u.shift > to /\ i - u.shift <= to + Len(xs) THEN xs[i - u.shift - to] ELSE u.bytes[i]
  <2>1. e.bytes[i] = IF i - 1 \in (u.shift + to)..(u.shift + to) + Len(xs) - 1 THEN xs[i - (u.shift + to)] ELSE u.bytes[i]
    BY <1>3
  <2>2. i - 1 \in (u.shift + to)..(u.shift + to) + Len(xs) - 1 <=> i - u.shift > to /\ i - u.shift <= to + Len(xs)
    BY <1>1
  <2>3. i - (u.shift + to) = i - u.shift - to
    BY <1>1
  <2> QED  BY <2>1, <2>2, <2>3
<1>7. \A i \in 1..Len(u.bytes) : i <= u.shift => ~(i - u.shift > to)
  BY <1>1
<1>8. Like(u, e)
  BY <1>2, <1>5, <1>6, <1>7 DEF Like
<1> QED  BY <1>6, <1>8 DEF Written

\* xs is the k elements of s after the first a.
IsPart(xs, s, a, k) ==
    Listed(xs) /\ Len(xs) = k /\ \A i \in 1..k : xs[i] = s[a + i]

LEMMA SubSeqIsPart ==
    ASSUME NEW s, Listed(s), NEW a \in Nat, NEW k \in Nat, a + k <= Len(s), NEW xs, xs = SubSeq(s, a + 1, a + k)
    PROVE  IsPart(xs, s, a, k)
<1>1. PICK S : s \in Seq(S)
  BY ListedSeq
<1>2. xs \in Seq(S) /\ Len(xs) = k
  BY <1>1
<1>3. ASSUME NEW i \in 1..k
      PROVE  xs[i] = s[a + i]
  BY <1>1, <1>3
<1> QED  BY <1>2, <1>3, SeqListed DEF IsPart

\* u still has the elements of v.
Keeps(v, u) == Sound(p_type, v, u) /\ Mine(v, u) /\ HasBytes(u, p_contents[v])

\* The sizes of v.
LEMMA PodFacts ==
    ASSUME PodIndInv, NEW v \in Pods
    PROVE  /\ p_type \in PodTypes /\ p_type.sizeof[v] \in Nat \ {0}
           /\ p_type.allocator_aligned \in BOOLEAN /\ p_type.has_expand \in BOOLEAN
           /\ p_size[v] \in Nat /\ p_capacity[v] \in Nat /\ p_shift[v] \in Nat /\ p_size[v] <= p_capacity[v]
           /\ p_contents[v] \in Seq(Bytes) /\ Len(p_contents[v]) = Span(p_type, v, p_size[v])
           /\ Len(Pod!Buffer(v).bytes) \in Nat
           /\ p_shift[v] + Span(p_type, v, p_size[v]) <= Len(Pod!Buffer(v).bytes)
<1>1. p_type \in PodTypes
  BY DEF PodIndInv, PodShape
<1>2. Sound(p_type, v, Pod!Buffer(v)) /\ Filled(p_type, v, Pod!Buffer(v), p_size[v], p_contents[v])
      /\ Pod!Buffer(v).shift = p_shift[v] /\ Pod!Buffer(v).capacity = p_capacity[v]
  BY BufferOf
<1>3. p_size[v] \in Nat /\ p_size[v] <= p_capacity[v] /\ p_contents[v] \in Seq(Bytes)
      /\ Len(p_contents[v]) = Span(p_type, v, p_size[v])
      /\ p_shift[v] + Span(p_type, v, p_size[v]) <= Len(Pod!Buffer(v).bytes)
  BY <1>2 DEF Filled
<1>4. p_capacity[v] \in Nat /\ p_shift[v] \in Nat /\ Len(Pod!Buffer(v).bytes) \in Nat
  BY <1>2 DEF Sound, Listed
<1> QED  BY <1>1, <1>3, <1>4, PodTypesAssumption

LEMMA OwnBuffer ==
    ASSUME PodIndInv, NEW v \in Pods
    PROVE  /\ Keeps(v, Pod!Buffer(v))
           /\ \A n \in Nat : n <= p_capacity[v] => Roomy(v, Pod!Buffer(v), n)
<1> DEFINE u == Pod!Buffer(v)
<1>1. Sound(p_type, v, u) /\ Mine(v, u) /\ Filled(p_type, v, u, p_size[v], p_contents[v])
      /\ u.capacity = p_capacity[v]
  BY BufferOf
<1>2. Keeps(v, u)
  BY <1>1 DEF Keeps, Filled
<1>3. ASSUME NEW n \in Nat, n <= p_capacity[v]
      PROVE  Roomy(v, u, n)
  <2>1. Span(p_type, v, n) <= Span(p_type, v, p_capacity[v]) /\ Span(p_type, v, n) \in Nat
        /\ Span(p_type, v, p_capacity[v]) \in Nat
    BY <1>3, PodFacts, SpanAdds
  <2>2. Pod!Short(v, u) \/ u.shift + Span(p_type, v, p_capacity[v]) <= Len(u.bytes)
    BY <1>1, FitsSpan DEF Pod!Short
  <2>3. u.shift \in Nat /\ Len(u.bytes) \in Nat
    BY <1>1 DEF Sound, Listed
  <2>4. Pod!Short(v, u) \/ u.shift + Span(p_type, v, n) <= Len(u.bytes)
    <3> HIDE DEF u
    <3> QED  BY <2>1, <2>2, <2>3
  <2> QED  BY <1>1, <1>3, <2>4 DEF Roomy
<1> QED  BY <1>2, <1>3

\* The bytes of the elements of v.
LEMMA OwnBytes ==
    ASSUME PodIndInv, NEW v \in Pods, NEW k \in Nat, k <= Span(p_type, v, p_size[v]),
           NEW xs, xs = SubSeq(Pod!Buffer(v).bytes, p_shift[v] + 1, p_shift[v] + k)
    PROVE  Len(xs) = k /\ \A i \in 1..k : xs[i] = p_contents[v][i]
<1> DEFINE d == Pod!Buffer(v).bytes
<1>1. Listed(d) /\ Pod!Buffer(v).shift = p_shift[v] /\ HasBytes(Pod!Buffer(v), p_contents[v])
  BY BufferOf DEF Sound, Filled
<1>2. p_shift[v] \in Nat /\ p_shift[v] + k <= Len(d) /\ Span(p_type, v, p_size[v]) \in Nat
      /\ Len(p_contents[v]) = Span(p_type, v, p_size[v]) /\ Len(d) \in Nat
  <2>1. p_shift[v] \in Nat /\ p_shift[v] + Span(p_type, v, p_size[v]) <= Len(d) /\ Len(d) \in Nat
        /\ Len(p_contents[v]) = Span(p_type, v, p_size[v])
    BY PodFacts
  <2>2. Span(p_type, v, p_size[v]) \in Nat
    BY PodFacts, SpanAdds
  <2> HIDE DEF d
  <2> QED  BY <2>1, <2>2
<1>3. Len(xs) = k /\ \A i \in 1..k : xs[i] = d[p_shift[v] + i]
  <2>1. IsPart(xs, d, p_shift[v], k)
    BY <1>1, <1>2, SubSeqIsPart
  <2> QED  BY <2>1 DEF IsPart
<1>4. ASSUME NEW i \in 1..k
      PROVE  d[p_shift[v] + i] = p_contents[v][i]
  <2>1. i \in 1..Len(p_contents[v]) /\ p_shift[v] + i <= Len(d)
    <3> HIDE DEF d
    <3> QED  BY <1>2
  <2> QED  BY <1>1, <2>1 DEF HasBytes
<1> QED  BY <1>3, <1>4

LEMMA CopiesKeep ==
    ASSUME PodIndInv, NEW v \in Pods, NEW n \in Nat \ {0}, NEW u \in Pod!Copies(v, n)
    PROVE  Keeps(v, u) /\ Roomy(v, u, n)
<1> DEFINE xs == SubSeq(Pod!Buffer(v).bytes, p_shift[v] + 1, p_shift[v] + Pod!byte_size(v))
<1>1. PICK w \in Pod!a_malloc(v, n) : u = [w EXCEPT !.bytes = Pod!memset(@, w.shift, xs)]
  BY DEF Pod!Copies
<1>2. Pod!byte_size(v) = Span(p_type, v, p_size[v]) /\ Span(p_type, v, p_size[v]) \in Nat
  BY FitsSpan, PodFacts, SpanAdds DEF Pod!byte_size
<1>3. Len(xs) = Span(p_type, v, p_size[v]) /\ \A i \in 1..Len(xs) : xs[i] = p_contents[v][i]
  <2>1. PICK k \in Nat : k = Span(p_type, v, p_size[v])
    BY <1>2
  <2>2. xs = SubSeq(Pod!Buffer(v).bytes, p_shift[v] + 1, p_shift[v] + k) /\ k <= Span(p_type, v, p_size[v])
    BY <1>2, <2>1
  <2> HIDE DEF xs
  <2>3. Len(xs) = k /\ \A i \in 1..k : xs[i] = p_contents[v][i]
    BY <2>2, OwnBytes
  <2> QED  BY <2>1, <2>3
<1> HIDE DEF xs
<1>4. /\ Sound(p_type, v, w) /\ Mine(v, w) /\ w.capacity = n
      /\ w.shift + Span(p_type, v, n) <= Len(w.bytes)
  BY Mallocs
<1>5. w.shift \in Nat /\ w.shift + 0 = w.shift /\ Len(w.bytes) \in Nat
  BY <1>4 DEF Sound, Listed
<1>6. Written(w, u, 0, xs)
  BY <1>1, <1>2, <1>3, <1>4, <1>5, MemsetWrites
<1>7. Roomy(v, w, n)
  BY <1>4 DEF Roomy
<1>8. Sound(p_type, v, u) /\ Mine(v, u) /\ Roomy(v, u, n) /\ u.shift = w.shift /\ Len(u.bytes) = Len(w.bytes)
  BY <1>4, <1>6, <1>7, LikeIsSound DEF Written
<1>9. ASSUME NEW i \in 1..Len(p_contents[v]), u.shift + i <= Len(u.bytes)
      PROVE  u.bytes[u.shift + i] = p_contents[v][i]
  <2>1. i \in 1..Len(xs)
    BY <1>3, <1>9, PodFacts
  <2>2. i \in Nat \ {0} /\ i <= Len(xs) /\ Len(xs) \in Nat
    BY <1>2, <1>3, <2>1
  <2>3. w.shift + i \in 1..Len(w.bytes) /\ (w.shift + i) - w.shift = i /\ i > 0 /\ i <= 0 + Len(xs) /\ i - 0 = i
    BY <1>5, <1>8, <1>9, <2>2
  <2>4. u.bytes[w.shift + i] = xs[i]
    BY <1>6, <2>3 DEF Written
  <2> QED  BY <1>3, <1>8, <2>1, <2>4
<1> QED  BY <1>8, <1>9 DEF Keeps, HasBytes

LEMMA InPlaceKeeps ==
    ASSUME PodIndInv, NEW v \in Pods, NEW n \in Nat \ {0}, p_begin[v] # Null,
           p_type.has_expand \/ p_type.allocator_aligned, NEW u, u = Pod!InPlace(v, n)
    PROVE  Keeps(v, u) /\ Roomy(v, u, n)
<1> DEFINE d == Pod!Buffer(v).bytes
           w == Pod!Buffer(v)
           s == p_type.sizeof[v]
           len == Span(p_type, v, n) + (IF p_type.allocator_aligned THEN 0 ELSE s)
<1>1. /\ Sound(p_type, v, w) /\ w.block = p_begin[v] /\ w.shift = p_shift[v] /\ w.capacity = p_capacity[v]
      /\ HasBytes(w, p_contents[v])
  BY BufferOf DEF Filled
<1>2. s \in Nat \ {0} /\ p_type.allocator_aligned \in BOOLEAN /\ Span(p_type, v, n) \in Nat \ {0}
  BY PodFacts, SpanPositive
<1>3. len \in Nat /\ len > 0
  BY <1>2
<1>4. w = [block |-> w.block, shift |-> w.shift, capacity |-> w.capacity, bytes |-> d] /\ Listed(d)
  BY <1>1 DEF Sound
<1>5. DOMAIN d = 1..Len(d) /\ Len(d) \in Nat /\ w.shift \in Nat
  BY <1>1 DEF Sound, Listed
<1>6. u = [block |-> w.block, shift |-> w.shift, capacity |-> n,
           bytes |-> [i \in 1..len |-> IF i \in DOMAIN d THEN d[i] ELSE Junk]]
  BY <1>4, FitsSpan DEF Pod!InPlace
<1> HIDE DEF len
<1>7. u.bytes = [i \in 1..len |-> u.bytes[i]] /\ \A i \in 1..len : i \in 1..Len(d) => u.bytes[i] = d[i]
  BY <1>5, <1>6
<1>8. Listed(u.bytes) /\ Len(u.bytes) = len
  BY <1>3, <1>7, ListedOver
<1>9. u.shift = w.shift /\ u.capacity = n /\ u.block = w.block
  BY <1>6
<1>10. ASSUME u.shift \in 1..Len(u.bytes)
       PROVE  u.bytes[u.shift] = u.shift
  <2>1. w.shift \in 1..Len(d)
    <3>1. w.shift + Span(p_type, v, p_size[v]) <= Len(d) /\ Span(p_type, v, p_size[v]) \in Nat
      BY <1>1, PodFacts, SpanAdds
    <3> QED  BY <1>5, <1>9, <1>10, <3>1
  <2>2. d[w.shift] = w.shift
    BY <1>1, <2>1 DEF Sound
  <2>3. w.shift \in 1..len
    BY <1>8, <1>9, <1>10
  <2>4. u.bytes[w.shift] = d[w.shift]
    BY <1>7, <2>1, <2>3
  <2> QED  BY <1>9, <2>2, <2>4
<1>11. w.shift + Span(p_type, v, n) > len => ~p_type.allocator_aligned /\ w.shift > s
  <2>1. p_type.allocator_aligned => w.shift = 0
    BY <1>1 DEF Sound
  <2>2. CASE p_type.allocator_aligned
    <3>1. w.shift = 0 /\ len = Span(p_type, v, n) + 0
      BY <2>1, <2>2 DEF len
    <3> QED  BY <1>2, <3>1
  <2>3. CASE ~p_type.allocator_aligned
    <3>1. len = Span(p_type, v, n) + s
      BY <2>3 DEF len
    <3> QED  BY <1>2, <1>5, <2>3, <3>1
  <2> QED  BY <1>2, <2>2, <2>3
<1>12. u = [block |-> u.block, shift |-> u.shift, capacity |-> u.capacity, bytes |-> u.bytes]
  BY <1>6
<1>13. Sound(p_type, v, u)
  <2>1. u.block \in Blocks /\ u.block # Null
    BY <1>1, <1>9, BufferOf
  <2>2. u.shift + Span(p_type, v, u.capacity) > Len(u.bytes) =>
          p_type.has_expand /\ \E x \in Pods : u.shift > p_type.sizeof[x]
    BY <1>8, <1>9, <1>11
  <2>3. p_type.allocator_aligned => u.shift = 0
    BY <1>1, <1>9 DEF Sound
  <2> QED  BY <1>3, <1>5, <1>8, <1>9, <1>10, <1>12, <2>1, <2>2, <2>3 DEF Sound
<1>14. Mine(v, u)
  BY <1>1, <1>9 DEF Mine
<1>15. HasBytes(u, p_contents[v])
  <2>1. ASSUME NEW i \in 1..Len(p_contents[v]), u.shift + i <= Len(u.bytes)
        PROVE  u.bytes[u.shift + i] = p_contents[v][i]
    <3>1. w.shift + Span(p_type, v, p_size[v]) <= Len(d) /\ Span(p_type, v, p_size[v]) \in Nat
          /\ Len(p_contents[v]) = Span(p_type, v, p_size[v])
      BY <1>1, PodFacts, SpanAdds
    <3>2. w.shift + i \in 1..len /\ w.shift + i \in 1..Len(d) /\ w.shift + i <= Len(d)
      BY <1>3, <1>5, <1>8, <1>9, <2>1, <3>1
    <3>3. u.bytes[w.shift + i] = d[w.shift + i]
      BY <1>7, <3>2
    <3>4. d[w.shift + i] = p_contents[v][i]
      BY <1>1, <2>1, <3>2 DEF HasBytes
    <3> QED  BY <1>9, <3>3, <3>4
  <2> QED  BY <2>1 DEF HasBytes
<1>16. Roomy(v, u, n)
  <2>1. u.shift + Span(p_type, v, n) <= Len(u.bytes) \/ u.shift > s
    BY <1>2, <1>3, <1>5, <1>8, <1>9, <1>11
  <2> QED  BY <1>9, <2>1, FitsSpan DEF Roomy
<1> QED  BY <1>13, <1>14, <1>15, <1>16 DEF Keeps

LEMMA ReallocatedKeeps ==
    ASSUME PodIndInv, NEW v \in Pods, NEW n \in Nat \ {0}, NEW k, NEW u \in Pod!Reallocated(v, n, k)
    PROVE  Keeps(v, u) /\ Roomy(v, u, n)
<1>1. CASE u \in Pod!Copies(v, n)
  BY <1>1, CopiesKeep
<1>2. CASE u \notin Pod!Copies(v, n)
  <2>1. p_begin[v] # Null /\ ~(~p_type.has_expand /\ ~p_type.allocator_aligned) /\ u = Pod!InPlace(v, n)
    BY <1>2 DEF Pod!Reallocated
  <2> QED  BY <2>1, InPlaceKeeps
<1> QED  BY <1>1, <1>2

LEMMA LessRoom ==
    ASSUME PodIndInv, NEW v \in Pods, NEW u, Sound(p_type, v, u), NEW m \in Nat, Roomy(v, u, m), NEW n \in Nat, n <= m
    PROVE  Roomy(v, u, n)
<1>1. Span(p_type, v, n) <= Span(p_type, v, m) /\ Span(p_type, v, n) \in Nat /\ Span(p_type, v, m) \in Nat
  BY PodFacts, SpanAdds
<1>2. u.shift \in Nat /\ Len(u.bytes) \in Nat /\ u.capacity \in Nat
  BY DEF Sound, Listed
<1>3. n <= u.capacity
  BY <1>2 DEF Roomy
<1>4. u.shift + Span(p_type, v, m) <= Len(u.bytes) => u.shift + Span(p_type, v, n) <= Len(u.bytes)
  BY <1>1, <1>2
<1> QED  BY <1>3, <1>4 DEF Roomy

\* The capacity grows to at least n.
LEMMA GrownKeeps ==
    ASSUME PodIndInv, NEW v \in Pods, NEW n \in Nat, n > p_capacity[v], NEW k,
           NEW u \in Pod!Reallocated(v, Pod!get_new_capacity(v, n), k)
    PROVE  Keeps(v, u) /\ Roomy(v, u, n)
<1>1. p_capacity[v] \in Nat /\ n \in Nat \ {0}
  BY PodFacts
<1>2. Pod!get_new_capacity(v, n) \in Nat \ {0} /\ n <= Pod!get_new_capacity(v, n)
  BY <1>1, NewCapacityFits
<1>3. Keeps(v, u) /\ Roomy(v, u, Pod!get_new_capacity(v, n))
  BY <1>2, ReallocatedKeeps
<1> QED  BY <1>2, <1>3, LessRoom DEF Keeps

LEMMA ReservedKeeps ==
    ASSUME PodIndInv, NEW v \in Pods, NEW n \in Nat, NEW u \in Pod!Reserved(v, n)
    PROVE  Keeps(v, u) /\ Roomy(v, u, n)
<1>1. CASE n <= p_capacity[v]
  BY <1>1, OwnBuffer DEF Pod!Reserved
<1>2. CASE ~(n <= p_capacity[v])
  <2>1. n > p_capacity[v] /\ u \in Pod!Reallocated(v, Pod!get_new_capacity(v, n), p_capacity[v] - p_size[v])
    BY <1>2, PodFacts DEF Pod!Reserved
  <2> QED  BY <2>1, GrownKeeps
<1> QED  BY <1>1, <1>2

LEMMA SafeGrownRoomy ==
    ASSUME PodIndInv, NEW v \in Pods, NEW n \in Nat, NEW u \in Pod!SafeGrown(v, n)
    PROVE  Sound(p_type, v, u) /\ Mine(v, u) /\ Roomy(v, u, n)
<1>1. CASE n <= p_capacity[v]
  BY <1>1, OwnBuffer DEF Pod!SafeGrown, Keeps
<1>2. CASE ~(n <= p_capacity[v])
  <2>1. p_capacity[v] \in Nat /\ n \in Nat \ {0} /\ u \in Pod!a_malloc(v, Pod!get_new_capacity(v, n))
    BY <1>2, PodFacts DEF Pod!SafeGrown
  <2>2. Pod!get_new_capacity(v, n) \in Nat \ {0} /\ n <= Pod!get_new_capacity(v, n)
    BY <2>1, NewCapacityFits
  <2>3. Sound(p_type, v, u) /\ Mine(v, u) /\ Roomy(v, u, Pod!get_new_capacity(v, n))
    BY <2>1, <2>2, Mallocs DEF Roomy
  <2> QED  BY <2>2, <2>3, LessRoom
<1> QED  BY <1>1, <1>2

-----------------------------------------------------------------------------
(* pod_vector: pieces of its elements.                                     *)

\* xs is in u, a bytes after its first element, as far as there are bytes.
HasBytesAt(u, a, xs) ==
    \A i \in 1..Len(xs) : u.shift + a + i <= Len(u.bytes) => u.bytes[u.shift + a + i] = xs[i]

LEMMA HasAll ==
    ASSUME NEW u, u.shift \in Nat, NEW xs \in Seq(Bytes)
    PROVE  HasBytesAt(u, 0, xs) <=> HasBytes(u, xs)
<1>1. \A i \in 1..Len(xs) : u.shift + 0 + i = u.shift + i
  OBVIOUS
<1> QED  BY <1>1 DEF HasBytesAt, HasBytes

LEMMA Joined ==
    ASSUME NEW xs \in Seq(Bytes), NEW ys \in Seq(Bytes)
    PROVE  /\ xs \o ys \in Seq(Bytes) /\ Len(xs \o ys) = Len(xs) + Len(ys)
           /\ \A i \in 1..Len(xs) : (xs \o ys)[i] = xs[i]
           /\ \A i \in 1..Len(ys) : (xs \o ys)[Len(xs) + i] = ys[i]
  OBVIOUS

LEMMA HasJoined ==
    ASSUME NEW u, u.shift \in Nat, Len(u.bytes) \in Nat, NEW a \in Nat, NEW xs \in Seq(Bytes), NEW ys \in Seq(Bytes),
           NEW b \in Nat, b = a + Len(xs), HasBytesAt(u, a, xs), HasBytesAt(u, b, ys)
    PROVE  HasBytesAt(u, a, xs \o ys)
<1> DEFINE zs == xs \o ys
<1>1. /\ Len(zs) = Len(xs) + Len(ys) /\ Len(xs) \in Nat /\ Len(ys) \in Nat
      /\ \A i \in 1..Len(xs) : zs[i] = xs[i]
      /\ \A i \in 1..Len(ys) : zs[Len(xs) + i] = ys[i]
  BY Joined
<1> HIDE DEF zs
<1>2. ASSUME NEW i \in 1..Len(zs), u.shift + a + i <= Len(u.bytes)
      PROVE  u.bytes[u.shift + a + i] = zs[i]
  <2>1. CASE i <= Len(xs)
    <3>1. i \in 1..Len(xs)
      BY <1>1, <2>1
    <3> QED  BY <1>1, <1>2, <3>1 DEF HasBytesAt
  <2>2. CASE i > Len(xs)
    <3>1. PICK j \in 1..Len(ys) : i = Len(xs) + j
      <4>1. i - Len(xs) \in 1..Len(ys) /\ i = Len(xs) + (i - Len(xs))
        BY <1>1, <2>2
      <4> QED  BY <4>1
    <3>2. u.shift + a + i = u.shift + b + j
      BY <1>1, <3>1
    <3>3. u.bytes[u.shift + b + j] = ys[j]
      BY <1>2, <3>2 DEF HasBytesAt
    <3> QED  BY <1>1, <3>1, <3>2, <3>3
  <2> QED  BY <1>1, <2>1, <2>2
<1>3. HasBytesAt(u, a, zs)
  BY <1>2 DEF HasBytesAt
<1> QED  BY <1>3 DEF zs

\* What is written is there, and what was before it and after it.
LEMMA WrittenHas ==
    ASSUME NEW u, u.shift \in Nat, Len(u.bytes) \in Nat, NEW e, NEW to \in Nat, NEW xs, Len(xs) \in Nat, Written(u, e, to, xs)
    PROVE  /\ HasBytesAt(e, to, xs)
           /\ \A a \in Nat, ys \in Seq(Bytes) :
                 HasBytesAt(u, a, ys) /\ (a + Len(ys) <= to \/ to + Len(xs) <= a) => HasBytesAt(e, a, ys)
<1>1. e.shift = u.shift /\ Len(e.bytes) = Len(u.bytes)
  BY DEF Written, Like
<1>2. ASSUME NEW i \in 1..Len(xs), e.shift + to + i <= Len(e.bytes)
      PROVE  e.bytes[e.shift + to + i] = xs[i]
  <2>1. PICK k \in 1..Len(u.bytes) : k = u.shift + to + i
    BY <1>1, <1>2
  <2>2. k - u.shift > to /\ k - u.shift <= to + Len(xs) /\ k - u.shift - to = i
    BY <2>1
  <2> QED  BY <1>1, <2>1, <2>2 DEF Written
<1>3. ASSUME NEW a \in Nat, NEW ys \in Seq(Bytes), HasBytesAt(u, a, ys), a + Len(ys) <= to \/ to + Len(xs) <= a,
             NEW i \in 1..Len(ys), e.shift + a + i <= Len(e.bytes)
      PROVE  e.bytes[e.shift + a + i] = ys[i]
  <2>1. PICK k \in 1..Len(u.bytes) : k = u.shift + a + i
    BY <1>1, <1>3
  <2>2. ~(k - u.shift > to /\ k - u.shift <= to + Len(xs))
    <3>1. PICK z \in Nat, l \in Nat, m \in Nat : z = u.shift /\ l = Len(xs) /\ m = Len(ys)
      OBVIOUS
    <3>2. i \in 1..m /\ (a + m <= to \/ to + l <= a)
      BY <1>3, <3>1
    <3>3. k - z = a + i
      <4>1. k = z + a + i /\ i \in Nat
        BY <2>1, <3>1, <3>2
      <4> QED  BY <3>1, <4>1
    <3>4. ~(a + i > to /\ a + i <= to + l)
      BY <3>1, <3>2
    <3> QED  BY <3>1, <3>3, <3>4
  <2>3. e.bytes[k] = u.bytes[k]
    BY <2>2 DEF Written
  <2>4. u.bytes[k] = ys[i]
    BY <1>1, <1>3, <2>1 DEF HasBytesAt
  <2> QED  BY <1>1, <2>1, <2>3, <2>4
<1>4. HasBytesAt(e, to, xs)
  BY <1>2 DEF HasBytesAt
<1>5. \A a \in Nat, ys \in Seq(Bytes) :
         HasBytesAt(u, a, ys) /\ (a + Len(ys) <= to \/ to + Len(xs) <= a) => HasBytesAt(e, a, ys)
  BY <1>3 DEF HasBytesAt
<1> QED  BY <1>4, <1>5

LEMMA WritesWritten ==
    ASSUME PodIndInv, NEW v \in Pods, NEW u, Sound(p_type, v, u), NEW k \in Nat, NEW xs, Len(xs) \in Nat
    PROVE  Written(u, Pod!Writes(v, u, k, xs), Span(p_type, v, k), xs)
<1>1. Pod!Writes(v, u, k, xs) = [u EXCEPT !.bytes = Pod!memset(@, u.shift + Span(p_type, v, k), xs)]
  BY FitsSpan DEF Pod!Writes
<1>2. Span(p_type, v, k) \in Nat
  BY PodFacts, SpanAdds
<1> QED  BY <1>1, <1>2, MemsetWrites

\* k bytes of u are moved, from `from' to `to'.
Shifted(u, e, to, from, k) ==
    /\ Like(u, e)
    /\ \A i \in 1..Len(u.bytes) :
          e.bytes[i] = IF i - u.shift > to /\ i - u.shift <= to + k THEN u.bytes[i - to + from] ELSE u.bytes[i]

LEMMA MemmoveShifts ==
    ASSUME NEW v \in Pods, NEW u, Sound(p_type, v, u), NEW to \in Nat, NEW from \in Nat, NEW k \in Nat, NEW e,
           e = [u EXCEPT !.bytes = Pod!memmove(@, u.shift + to, u.shift + from, k)]
    PROVE  Shifted(u, e, to, from, k)
<1>1. u.shift \in Nat /\ Len(u.bytes) \in Nat /\ u.bytes = [i \in 1..Len(u.bytes) |-> u.bytes[i]]
  BY DEF Sound, Listed
<1>2. e = [block |-> u.block, shift |-> u.shift, capacity |-> u.capacity,
           bytes |-> Pod!memmove(u.bytes, u.shift + to, u.shift + from, k)]
  BY DEF Sound
<1>3. e.bytes = [i \in 1..Len(u.bytes) |->
                    IF i - 1 \in (u.shift + to)..(u.shift + to) + k - 1
                    THEN u.bytes[i - (u.shift + to) + (u.shift + from)] ELSE u.bytes[i]]
  BY <1>1, <1>2 DEF Pod!memmove
<1>4. e.bytes = [i \in 1..Len(u.bytes) |-> e.bytes[i]]
  BY <1>3
<1>5. Listed(e.bytes) /\ Len(e.bytes) = Len(u.bytes)
  BY <1>1, <1>4, ListedOver
<1>6. ASSUME NEW i \in 1..Len(u.bytes)
      PROVE  e.bytes[i] = IF i - u.shift > to /\ i - u.shift <= to + k THEN u.bytes[i - to + from] ELSE u.bytes[i]
  <2>1. e.bytes[i] = IF i - 1 \in (u.shift + to)..(u.shift + to) + k - 1
                     THEN u.bytes[i - (u.shift + to) + (u.shift + from)] ELSE u.bytes[i]
    BY <1>3
  <2>2. i - 1 \in (u.shift + to)..(u.shift + to) + k - 1 <=> i - u.shift > to /\ i - u.shift <= to + k
    BY <1>1
  <2>3. i - (u.shift + to) + (u.shift + from) = i - to + from
    BY <1>1
  <2> QED  BY <2>1, <2>2, <2>3
<1>7. \A i \in 1..Len(u.bytes) : i <= u.shift => ~(i - u.shift > to)
  BY <1>1
<1>8. Like(u, e)
  BY <1>2, <1>5, <1>6, <1>7 DEF Like
<1> QED  BY <1>6, <1>8 DEF Shifted

\* What is moved is where it is moved to, and what was before that.
LEMMA ShiftedHas ==
    ASSUME NEW u, u.shift \in Nat, Len(u.bytes) \in Nat, NEW e, NEW to \in Nat, NEW from \in Nat, NEW k \in Nat,
           Shifted(u, e, to, from, k), NEW ys \in Seq(Bytes)
    PROVE  /\ \A a \in Nat : HasBytesAt(u, a, ys) /\ a + Len(ys) <= to => HasBytesAt(e, a, ys)
           /\ /\ HasBytesAt(u, from, ys) /\ Len(ys) = k
              /\ from <= to \/ u.shift + from + k <= Len(u.bytes)
              => HasBytesAt(e, to, ys)
<1>1. e.shift = u.shift /\ Len(e.bytes) = Len(u.bytes)
  BY DEF Shifted, Like
<1>2. ASSUME NEW a \in Nat, HasBytesAt(u, a, ys), a + Len(ys) <= to,
             NEW i \in 1..Len(ys), e.shift + a + i <= Len(e.bytes)
      PROVE  e.bytes[e.shift + a + i] = ys[i]
  <2>1. PICK j \in 1..Len(u.bytes) : j = u.shift + a + i
    BY <1>1, <1>2
  <2>2. ~(j - u.shift > to)
    BY <1>2, <2>1
  <2>3. e.bytes[j] = u.bytes[j]
    BY <2>2 DEF Shifted
  <2>4. u.bytes[j] = ys[i]
    BY <1>1, <1>2, <2>1 DEF HasBytesAt
  <2> QED  BY <1>1, <2>1, <2>3, <2>4
<1>3. ASSUME HasBytesAt(u, from, ys), Len(ys) = k, from <= to \/ u.shift + from + k <= Len(u.bytes),
             NEW i \in 1..Len(ys), e.shift + to + i <= Len(e.bytes)
      PROVE  e.bytes[e.shift + to + i] = ys[i]
  <2>1. PICK j \in 1..Len(u.bytes) : j = u.shift + to + i
    BY <1>1, <1>3
  <2>2. j - u.shift > to /\ j - u.shift <= to + k /\ j - to + from = u.shift + from + i
    BY <1>3, <2>1
  <2>3. e.bytes[j] = u.bytes[u.shift + from + i]
    BY <2>2 DEF Shifted
  <2>4. u.shift + from + i <= Len(u.bytes)
    BY <1>1, <1>3, <2>1
  <2>5. u.bytes[u.shift + from + i] = ys[i]
    BY <1>3, <2>4 DEF HasBytesAt
  <2> QED  BY <1>1, <2>1, <2>3, <2>5
<1>4. \A a \in Nat : HasBytesAt(u, a, ys) /\ a + Len(ys) <= to => HasBytesAt(e, a, ys)
  BY <1>2 DEF HasBytesAt
<1>5. /\ HasBytesAt(u, from, ys) /\ Len(ys) = k
      /\ from <= to \/ u.shift + from + k <= Len(u.bytes)
      => HasBytesAt(e, to, ys)
  BY <1>3 DEF HasBytesAt
<1> QED  BY <1>4, <1>5

\* The bytes of v's elements from a to b.
Piece(v, a, b) == SubSeq(p_contents[v], Span(p_type, v, a) + 1, Span(p_type, v, b))

LEMMA PieceIs ==
    ASSUME PodIndInv, NEW v \in Pods, NEW a \in Nat, NEW b \in Nat, a <= b, b <= p_size[v]
    PROVE  /\ Piece(v, a, b) \in Seq(Bytes) /\ Len(Piece(v, a, b)) = Span(p_type, v, b) - Span(p_type, v, a)
           /\ Len(Piece(v, a, b)) = Span(p_type, v, b - a)
           /\ \A i \in 1..Len(Piece(v, a, b)) : Piece(v, a, b)[i] = p_contents[v][Span(p_type, v, a) + i]
           /\ \A u : u.shift \in Nat /\ HasBytes(u, p_contents[v]) => HasBytesAt(u, Span(p_type, v, a), Piece(v, a, b))
<1> DEFINE c == p_contents[v]
<1>1. PICK x \in Nat, y \in Nat : x = Span(p_type, v, a) /\ y = Span(p_type, v, b)
  BY PodFacts, SpanAdds
<1>2. x <= y /\ y <= Len(c) /\ c \in Seq(Bytes) /\ Span(p_type, v, b - a) = y - x
  <2>1. p_type \in PodTypes /\ p_size[v] \in Nat /\ c \in Seq(Bytes) /\ Len(c) = Span(p_type, v, p_size[v])
    BY PodFacts
  <2>2. Span(p_type, v, a) <= Span(p_type, v, b) /\ Span(p_type, v, b - a) = Span(p_type, v, b) - Span(p_type, v, a)
    BY <2>1, SpanAdds
  <2>3. Span(p_type, v, b) <= Span(p_type, v, p_size[v])
    BY <2>1, SpanAdds
  <2> HIDE DEF c
  <2> QED  BY <1>1, <2>1, <2>2, <2>3
<1>3. Piece(v, a, b) = SubSeq(c, x + 1, y)
  BY <1>1 DEF Piece
<1> HIDE DEF c
<1>4. PICK s : s = SubSeq(c, x + 1, y)
  OBVIOUS
<1>5. s \in Seq(Bytes) /\ Len(s) = y - x
  BY <1>2, <1>4
<1>6. \A i \in 1..Len(s) : s[i] = c[x + i]
  <2>1. ASSUME NEW i \in 1..Len(s) PROVE s[i] = c[x + i]
    BY <1>2, <1>4, <1>5, <2>1
  <2> QED  BY <2>1
<1>7. ASSUME NEW u, u.shift \in Nat, HasBytes(u, c)
      PROVE  HasBytesAt(u, x, s)
  <2>1. ASSUME NEW i \in 1..Len(s), u.shift + x + i <= Len(u.bytes)
        PROVE  u.bytes[u.shift + x + i] = s[i]
    <3>1. x + i \in 1..Len(c) /\ u.shift + (x + i) = u.shift + x + i
      BY <1>2, <1>5, <1>7
    <3>2. u.bytes[u.shift + (x + i)] = c[x + i]
      BY <1>7, <2>1, <3>1 DEF HasBytes
    <3> QED  BY <1>6, <3>1, <3>2
  <2> QED  BY <2>1 DEF HasBytesAt
<1> QED  BY <1>1, <1>2, <1>3, <1>4, <1>5, <1>6, <1>7 DEF c

LEMMA FirstIs ==
    ASSUME PodIndInv, NEW v \in Pods, NEW n \in Nat
    PROVE  /\ n <= p_size[v] => Pod!First(v, n) = Piece(v, 0, n)
           /\ n >= p_size[v] => Pod!First(v, n) = p_contents[v]
           /\ n <= p_size[v] => Pod!Rest(v, n) = Piece(v, n, p_size[v])
           /\ p_contents[v] = Piece(v, 0, p_size[v])
<1> DEFINE c == p_contents[v]
<1>1. p_size[v] \in Nat /\ c \in Seq(Bytes) /\ Len(c) = Span(p_type, v, p_size[v]) /\ Span(p_type, v, 0) = 0
  BY PodFacts, SpanOne
<1>2. c = SubSeq(c, 1, Len(c))
  <2> HIDE DEF c
  <2> QED  BY <1>1
<1>3. c = Piece(v, 0, p_size[v])
  <2>1. Piece(v, 0, p_size[v]) = SubSeq(c, 0 + 1, Len(c))
    BY <1>1 DEF Piece
  <2> QED  BY <1>2, <2>1
<1>4. n < p_size[v] => Pod!First(v, n) = Piece(v, 0, n)
  <2>1. Piece(v, 0, n) = SubSeq(c, 0 + 1, Span(p_type, v, n))
    BY <1>1 DEF Piece
  <2>2. Pod!e2b(v, n) = Span(p_type, v, n)
    BY DEF Pod!e2b, Span
  <2>3. n < p_size[v] => ~(n >= p_size[v])
    BY <1>1
  <2>4. ~(n >= p_size[v]) => Pod!First(v, n) = SubSeq(c, 1, Span(p_type, v, n))
    BY <2>2 DEF Pod!First
  <2>5. 0 + 1 = 1
    OBVIOUS
  <2> QED  BY <2>1, <2>3, <2>4, <2>5
<1>5. n >= p_size[v] => Pod!First(v, n) = c
  BY DEF Pod!First
<1>6. Pod!Rest(v, n) = Piece(v, n, p_size[v])
  BY <1>1, FitsSpan DEF Pod!Rest, Piece
<1> QED  BY <1>1, <1>3, <1>4, <1>5, <1>6

-----------------------------------------------------------------------------
(* pod_vector: the functions that fill a buffer.                           *)

LEMMA InBytes ==
    ASSUME NEW v \in Pods, NEW n
    PROVE  Pod!e2b(v, n) = Span(p_type, v, n)
  BY DEF Pod!e2b, Span

LEMMA Sums ==
    ASSUME PodIndInv, NEW v \in Pods, NEW a \in Nat, NEW b \in Nat
    PROVE  /\ Span(p_type, v, a) \in Nat /\ Span(p_type, v, a + b) = Span(p_type, v, a) + Span(p_type, v, b)
           /\ Span(p_type, v, 0) = 0 /\ Span(p_type, v, 1) = p_type.sizeof[v]
           /\ a <= b => Span(p_type, v, a) <= Span(p_type, v, b)
                        /\ Span(p_type, v, b - a) = Span(p_type, v, b) - Span(p_type, v, a)
<1>1. p_type \in PodTypes
  BY PodFacts
<1>2. Span(p_type, v, 0) = 0 /\ Span(p_type, v, 1) = p_type.sizeof[v]
  BY <1>1, SpanOne
<1>3. Span(p_type, v, a) \in Nat /\ Span(p_type, v, a + b) = Span(p_type, v, a) + Span(p_type, v, b)
  BY <1>1, SpanAdds
<1>4. a <= b => Span(p_type, v, a) <= Span(p_type, v, b)
                /\ Span(p_type, v, b - a) = Span(p_type, v, b) - Span(p_type, v, a)
  BY <1>1, SpanAdds
<1> QED  BY <1>2, <1>3, <1>4

\* A function makes buffer u ready, in which the bytes are then xs.
LEMMA PodRunHas ==
    ASSUME PodIndInv, NEW v \in Pods, NEW u, NEW n, NEW xs, NEW ok \in BOOLEAN, NEW name,
           Sound(p_type, v, u), Mine(v, u), Roomy(v, u, n),
           xs \in Seq(Bytes), Len(xs) = Span(p_type, v, n),
           ok /\ u.shift + Span(p_type, v, n) <= Len(u.bytes) => HasBytesAt(u, 0, xs),
           ok \/ name \in {"resize_fill", "push_back_own", "assign_own", "resize_own", "insert_own"},
           Pod!Run(v, name, ok, u, n, xs)
    PROVE  PodIndInv'
<1>1. u.shift \in Nat
  BY DEF Sound
<1>2. n \in Nat /\ n <= u.capacity
  BY DEF Roomy
<1>3. ok /\ u.shift + Span(p_type, v, n) <= Len(u.bytes) => Filled(p_type, v, u, n, xs)
  BY <1>1, <1>2, HasAll DEF Filled
<1> QED  BY <1>3, PodRun

LEMMA HasNothing ==
    ASSUME NEW u, NEW a
    PROVE  HasBytesAt(u, a, <<>>)
<1>1. 1..Len(<<>>) = {}
  OBVIOUS
<1> QED  BY <1>1 DEF HasBytesAt

\* The part t of s, after m bytes.
LEMMA HasPart ==
    ASSUME NEW u, u.shift \in Nat, NEW x \in Nat, NEW m \in Nat, NEW y, y = x + m, NEW s, NEW t,
           Len(s) \in Nat, Len(t) \in Nat, m + Len(t) <= Len(s),
           \A i \in 1..Len(t) : t[i] = s[m + i], HasBytesAt(u, x, s)
    PROVE  HasBytesAt(u, y, t)
<1>1. ASSUME NEW i \in 1..Len(t), u.shift + y + i <= Len(u.bytes)
      PROVE  u.bytes[u.shift + y + i] = t[i]
  <2>1. m + i \in 1..Len(s) /\ u.shift + x + (m + i) = u.shift + y + i
    OBVIOUS
  <2>2. u.bytes[u.shift + x + (m + i)] = s[m + i]
    BY <1>1, <2>1 DEF HasBytesAt
  <2> QED  BY <2>1, <2>2
<1> QED  BY <1>1 DEF HasBytesAt

\* s is the bytes of v's elements from a to b.
IsPiece(s, v, a, b) ==
    /\ Len(s) = Span(p_type, v, b) - Span(p_type, v, a)
    /\ \A i \in 1..Len(s) : s[i] = p_contents[v][Span(p_type, v, a) + i]

LEMMA PieceIsOne ==
    ASSUME PodIndInv, NEW v \in Pods, NEW a \in Nat, NEW b \in Nat, a <= b, b <= p_size[v]
    PROVE  IsPiece(Piece(v, a, b), v, a, b)
  BY PieceIs DEF IsPiece

\* A part of a piece.
LEMMA PieceOf ==
    ASSUME PodIndInv, NEW v \in Pods, NEW u, u.shift \in Nat, NEW x \in Nat,
           NEW a \in Nat, NEW b \in Nat, NEW c \in Nat, NEW d \in Nat,
           a <= c, c <= d, d <= b, b <= p_size[v], HasBytesAt(u, x, Piece(v, a, b)),
           NEW y, y = x + Span(p_type, v, c - a)
    PROVE  HasBytesAt(u, y, Piece(v, c, d))
<1>1. PICK sa \in Nat, sb \in Nat, sc \in Nat, sd \in Nat :
          sa = Span(p_type, v, a) /\ sb = Span(p_type, v, b) /\ sc = Span(p_type, v, c) /\ sd = Span(p_type, v, d)
  BY Sums
<1>2. sa <= sc /\ sc <= sd /\ sd <= sb
  BY <1>1, Sums
<1>3. Span(p_type, v, c - a) = Span(p_type, v, c) - Span(p_type, v, a)
  BY Sums
<1>4. PICK m \in Nat : m = sc - sa /\ m = Span(p_type, v, c - a)
  BY <1>1, <1>2, <1>3
<1>5. a <= b /\ d <= p_size[v]
  BY PodFacts
<1>6. PICK s, t : s = Piece(v, a, b) /\ t = Piece(v, c, d)
  OBVIOUS
<1>7. Len(s) = sb - sa /\ \A i \in 1..Len(s) : s[i] = p_contents[v][sa + i]
  <2>1. IsPiece(s, v, a, b)
    BY <1>5, <1>6, PieceIsOne
  <2> QED  BY <1>1, <2>1 DEF IsPiece
<1>8. Len(t) = sd - sc /\ \A i \in 1..Len(t) : t[i] = p_contents[v][sc + i]
  <2>1. IsPiece(t, v, c, d)
    BY <1>5, <1>6, PieceIsOne
  <2> QED  BY <1>1, <2>1 DEF IsPiece
<1>9. Len(s) \in Nat /\ Len(t) \in Nat /\ m + Len(t) <= Len(s)
  <2>1. sb - sa \in Nat /\ sd - sc \in Nat /\ m + (sd - sc) <= sb - sa
    BY <1>1, <1>2, <1>4
  <2>2. Len(s) = sb - sa /\ Len(t) = sd - sc
    BY <1>7, <1>8
  <2> QED  BY <2>1, <2>2
<1>10. ASSUME NEW i \in 1..Len(t)
       PROVE  t[i] = s[m + i]
  <2>1. m + i \in 1..Len(s) /\ sa + (m + i) = sc + i
    <3>1. PICK n \in Nat, k \in Nat : n = Len(t) /\ k = Len(s) /\ m + n <= k
      BY <1>9
    <3>2. i \in 1..n
      BY <3>1
    <3>3. m + i \in 1..k
      BY <3>1, <3>2
    <3>4. sa + (m + i) = sc + i
      BY <1>4, <3>2
    <3> QED  BY <3>1, <3>3, <3>4
  <2> QED  BY <1>7, <1>8, <2>1
<1>11. HasBytesAt(u, x, s) /\ y = x + m
  BY <1>4, <1>6
<1>12. HasBytesAt(u, y, t)
  BY <1>9, <1>10, <1>11, HasPart
<1> QED  BY <1>6, <1>12

\* xs is written after the first p elements.
LEMMA WritesHas ==
    ASSUME PodIndInv, NEW v \in Pods, NEW u, Sound(p_type, v, u), NEW p \in Nat, NEW xs, Len(xs) \in Nat,
           NEW e, e = Pod!Writes(v, u, p, xs)
    PROVE  /\ Sound(p_type, v, e) /\ (Mine(v, u) => Mine(v, e)) /\ \A n : Roomy(v, u, n) => Roomy(v, e, n)
           /\ e.shift = u.shift /\ e.shift \in Nat /\ Len(e.bytes) = Len(u.bytes) /\ Len(e.bytes) \in Nat
           /\ HasBytesAt(e, Span(p_type, v, p), xs)
           /\ \A a \in Nat, ys \in Seq(Bytes) :
                 HasBytesAt(u, a, ys) /\ (a + Len(ys) <= Span(p_type, v, p) \/ Span(p_type, v, p) + Len(xs) <= a)
                 => HasBytesAt(e, a, ys)
<1>1. Written(u, e, Span(p_type, v, p), xs)
  BY WritesWritten
<1>2. Span(p_type, v, p) \in Nat
  BY Sums
<1>3. u.shift \in Nat /\ Len(u.bytes) \in Nat
  BY DEF Sound, Listed
<1>4. Like(u, e)
  BY <1>1 DEF Written
<1>5. /\ Sound(p_type, v, e) /\ (Mine(v, u) => Mine(v, e)) /\ \A n : Roomy(v, u, n) => Roomy(v, e, n)
      /\ e.shift = u.shift /\ Len(e.bytes) = Len(u.bytes)
  BY <1>4, LikeIsSound
<1>6. /\ HasBytesAt(e, Span(p_type, v, p), xs)
      /\ \A a \in Nat, ys \in Seq(Bytes) :
            HasBytesAt(u, a, ys) /\ (a + Len(ys) <= Span(p_type, v, p) \/ Span(p_type, v, p) + Len(xs) <= a)
            => HasBytesAt(e, a, ys)
  BY <1>1, <1>2, <1>3, WrittenHas
<1> QED  BY <1>3, <1>5, <1>6

LEMMA AssignKeeps ==
    ASSUME PodIndInv, NEW v \in Pods, NEW m \in Nat, NEW xs \in [1..Pod!e2b(v, m) -> Bytes], Pod!assign(v, xs)
    PROVE  PodIndInv'
<1>1. Span(p_type, v, m) \in Nat /\ Span(p_type, v, 0) = 0 /\ p_type.sizeof[v] \in Nat \ {0}
  BY Sums, PodFacts
<1>2. xs \in Seq(Bytes) /\ Len(xs) = Span(p_type, v, m)
  <2>1. PICK k \in Nat : k = Span(p_type, v, m)
    BY <1>1
  <2>2. xs \in [1..k -> Bytes]
    BY <2>1, InBytes
  <2> QED  BY <2>1, <2>2
<1>3. Len(xs) \div p_type.sizeof[v] = m
  <2>1. Len(xs) = m * p_type.sizeof[v]
    BY <1>2 DEF Span
  <2> QED  BY <1>1, <2>1, DividedExactly
<1>4. PICK u \in Pod!SafeGrown(v, m) : Pod!Run(v, "assign", TRUE, Pod!Writes(v, u, 0, xs), m, xs)
  BY <1>3 DEF Pod!assign
<1>5. Sound(p_type, v, u) /\ Mine(v, u) /\ Roomy(v, u, m)
  BY <1>4, SafeGrownRoomy
<1>6. PICK e : e = Pod!Writes(v, u, 0, xs)
  OBVIOUS
<1>7. Sound(p_type, v, e) /\ Mine(v, e) /\ Roomy(v, e, m) /\ HasBytesAt(e, 0, xs)
  BY <1>1, <1>2, <1>5, <1>6, WritesHas
<1>8. Pod!Run(v, "assign", TRUE, e, m, xs)
  BY <1>4, <1>6
<1> QED  BY <1>2, <1>7, <1>8, PodRunHas

\* ys is the first k bytes of c.
IsPrefixOf(ys, c, k) == ys \in Seq(Bytes) /\ Len(ys) = k /\ \A i \in 1..k : ys[i] = c[i]

LEMMA PrefixOf ==
    ASSUME NEW c \in Seq(Bytes), NEW k \in Nat, k <= Len(c), NEW ys, ys = SubSeq(c, 1, k)
    PROVE  IsPrefixOf(ys, c, k)
  BY DEF IsPrefixOf

\* The bytes of w that make whole elements of v.
LEMMA WholeElements ==
    ASSUME PodIndInv, NEW v \in Pods, NEW w \in Pods, NEW n, n = Pod!byte_size(w) \div p_type.sizeof[v]
    PROVE  /\ n \in Nat /\ Pod!e2b(v, n) = Span(p_type, v, n) /\ Span(p_type, v, n) \in Nat
           /\ Span(p_type, v, n) <= Span(p_type, w, p_size[w])
<1>1. Pod!byte_size(w) = Span(p_type, w, p_size[w]) /\ Span(p_type, w, p_size[w]) \in Nat
      /\ p_type.sizeof[v] \in Nat \ {0}
  BY InBytes, PodFacts, Sums DEF Pod!byte_size
<1>2. n \in Nat /\ n * p_type.sizeof[v] <= Span(p_type, w, p_size[w])
  BY <1>1, Divided
<1>3. Span(p_type, v, n) = n * p_type.sizeof[v]
  BY DEF Span
<1> QED  BY <1>2, <1>3, InBytes, Sums

LEMMA CopyKeeps ==
    ASSUME PodIndInv, NEW v \in Pods, NEW w \in Pods, Pod!copy(v, w)
    PROVE  PodIndInv'
<1>1. PICK n : n = Pod!byte_size(w) \div p_type.sizeof[v]
  OBVIOUS
<1>2. PICK k \in Nat : k = Span(p_type, v, n) /\ k = Pod!e2b(v, n) /\ k <= Span(p_type, w, p_size[w]) /\ n \in Nat
  BY <1>1, WholeElements
<1>3. PICK xs, ys : /\ xs = SubSeq(Pod!Buffer(w).bytes, p_shift[w] + 1, p_shift[w] + k)
                    /\ ys = SubSeq(p_contents[w], 1, k)
  OBVIOUS
<1>4. Len(xs) = k /\ ys \in Seq(Bytes) /\ Len(ys) = k /\ \A i \in 1..k : xs[i] = ys[i]
  <2>1. Len(xs) = k /\ \A i \in 1..k : xs[i] = p_contents[w][i]
    <3>1. k \in Nat /\ k <= Span(p_type, w, p_size[w]) /\ xs = SubSeq(Pod!Buffer(w).bytes, p_shift[w] + 1, p_shift[w] + k)
      BY <1>2, <1>3
    <3> QED  BY <3>1, OwnBytes
  <2>2. ys \in Seq(Bytes) /\ Len(ys) = k /\ \A i \in 1..k : ys[i] = p_contents[w][i]
    <3>1. p_contents[w] \in Seq(Bytes) /\ k <= Len(p_contents[w]) /\ ys = SubSeq(p_contents[w], 1, k)
      BY <1>2, <1>3, PodFacts
    <3> QED  BY <3>1, PrefixOf DEF IsPrefixOf
  <2> QED  BY <2>1, <2>2
<1>5. PICK u \in Pod!SafeGrown(v, n) : Pod!Run(v, "copy", TRUE, Pod!Writes(v, u, 0, xs), n, ys)
  BY <1>1, <1>2, <1>3 DEF Pod!copy
<1>6. Sound(p_type, v, u) /\ Mine(v, u) /\ Roomy(v, u, n)
  BY <1>2, <1>5, SafeGrownRoomy
<1>7. PICK e : e = Pod!Writes(v, u, 0, xs)
  OBVIOUS
<1>8. Span(p_type, v, 0) = 0
  BY Sums
<1>9. Sound(p_type, v, e) /\ Mine(v, e) /\ Roomy(v, e, n) /\ HasBytesAt(e, 0, xs)
  BY <1>4, <1>6, <1>7, <1>8, WritesHas
<1>10. HasBytesAt(e, 0, ys)
  BY <1>4, <1>9 DEF HasBytesAt
<1>11. Pod!Run(v, "copy", TRUE, e, n, ys)
  BY <1>5, <1>7
<1> QED  BY <1>2, <1>4, <1>9, <1>10, <1>11, PodRunHas

LEMMA ReserveKeeps ==
    ASSUME PodIndInv, NEW v \in Pods, NEW n \in Nat, Pod!reserve(v, n)
    PROVE  PodIndInv'
<1>1. PICK u \in Pod!Reserved(v, n) : Pod!Run(v, "reserve", TRUE, u, p_size[v], p_contents[v])
  BY DEF Pod!reserve
<1>2. Keeps(v, u) /\ Roomy(v, u, n)
  BY <1>1, ReservedKeeps
<1>3. p_size[v] \in Nat /\ p_capacity[v] \in Nat /\ p_size[v] <= p_capacity[v]
      /\ p_contents[v] \in Seq(Bytes) /\ Len(p_contents[v]) = Span(p_type, v, p_size[v])
  BY PodFacts
<1>4. Roomy(v, u, p_size[v])
  <2>1. CASE p_size[v] <= n
    BY <1>2, <1>3, <2>1, LessRoom DEF Keeps
  <2>2. CASE n <= p_capacity[v]
    <3>1. u = Pod!Buffer(v)
      BY <1>1, <2>2 DEF Pod!Reserved
    <3> QED  BY <1>3, <3>1, OwnBuffer
  <2> QED  BY <1>3, <2>1, <2>2
<1>5. HasBytesAt(u, 0, p_contents[v])
  BY <1>2, <1>3, HasAll DEF Keeps, Sound
<1> QED  BY <1>1, <1>2, <1>3, <1>4, <1>5, PodRunHas DEF Keeps

LEMMA ShrinkToFitKeeps ==
    ASSUME PodIndInv, NEW v \in Pods, Pod!shrink_to_fit(v)
    PROVE  PodIndInv'
<1> DEFINE none == [block |-> Null, shift |-> 0, capacity |-> 0, bytes |-> <<>>]
<1>1. PICK u : /\ u \in IF p_size[v] = p_capacity[v] THEN {Pod!Buffer(v)}
                        ELSE IF p_size[v] = 0 THEN {none} ELSE Pod!Reallocated(v, p_size[v], 0)
               /\ Pod!Run(v, "shrink_to_fit", TRUE, u, p_size[v], p_contents[v])
  BY DEF Pod!shrink_to_fit
<1>2. p_size[v] \in Nat /\ p_capacity[v] \in Nat /\ p_size[v] <= p_capacity[v]
      /\ p_contents[v] \in Seq(Bytes) /\ Len(p_contents[v]) = Span(p_type, v, p_size[v])
  BY PodFacts
<1>3. Keeps(v, u) /\ Roomy(v, u, p_size[v])
  <2>1. CASE p_size[v] = p_capacity[v]
    BY <1>1, <1>2, <2>1, OwnBuffer
  <2>2. CASE p_size[v] # p_capacity[v] /\ p_size[v] = 0
    <3>1. u = none
      BY <1>1, <2>2
    <3>2. Span(p_type, v, 0) = 0
      BY Sums
    <3>3. Len(<<>>) = 0 /\ Listed(<<>>)
      BY DEF Listed
    <3>4. Sound(p_type, v, u)
      BY <3>1, <3>2, <3>3 DEF Sound
    <3>5. Mine(v, u)
      BY <3>1 DEF Mine
    <3>6. HasBytes(u, p_contents[v])
      BY <1>2, <2>2, <3>2 DEF HasBytes
    <3>7. Roomy(v, u, p_size[v])
      BY <2>2, <3>1, <3>2, <3>3 DEF Roomy
    <3> QED  BY <3>4, <3>5, <3>6, <3>7 DEF Keeps
  <2>3. CASE p_size[v] # p_capacity[v] /\ p_size[v] # 0
    <3>1. u \in Pod!Reallocated(v, p_size[v], 0) /\ p_size[v] \in Nat \ {0}
      BY <1>1, <1>2, <2>3
    <3> QED  BY <3>1, ReallocatedKeeps
  <2> QED  BY <2>1, <2>2, <2>3
<1>4. HasBytesAt(u, 0, p_contents[v])
  BY <1>2, <1>3, HasAll DEF Keeps, Sound
<1> QED  BY <1>1, <1>2, <1>3, <1>4, PodRunHas DEF Keeps

LEMMA ClearKeeps ==
    ASSUME PodIndInv, NEW v \in Pods, Pod!clear(v)
    PROVE  PodIndInv'
<1>1. Pod!Run(v, "clear", TRUE, Pod!Buffer(v), 0, <<>>)
  BY DEF Pod!clear
<1>2. Sound(p_type, v, Pod!Buffer(v)) /\ Mine(v, Pod!Buffer(v)) /\ Roomy(v, Pod!Buffer(v), 0)
  BY OwnBuffer, PodFacts DEF Keeps
<1>3. Len(<<>>) = Span(p_type, v, 0) /\ <<>> \in Seq(Bytes)
  BY Sums
<1> QED  BY <1>1, <1>2, <1>3, HasNothing, PodRunHas

-----------------------------------------------------------------------------
(* pod_vector: the functions that add elements and remove them.            *)

LEMMA LenNat ==
    ASSUME NEW s \in Seq(Bytes)
    PROVE  Len(s) \in Nat
  OBVIOUS

LEMMA Emptied ==
    ASSUME NEW s \in Seq(Bytes), Len(s) = 0
    PROVE  s = <<>>
  OBVIOUS

\* The contents of v after its first n elements, and zeros or other bytes for what it lacks.
LEMMA PodResized ==
    ASSUME PodIndInv, NEW v \in Pods, NEW n \in Nat, NEW ys \in Seq(Bytes),
           Len(ys) = IF n > p_size[v] THEN Span(p_type, v, n - p_size[v]) ELSE 0,
           NEW e, e.shift \in Nat, Len(e.bytes) \in Nat,
           HasBytesAt(e, 0, p_contents[v]),
           n > p_size[v] => HasBytesAt(e, Span(p_type, v, p_size[v]), ys)
    PROVE  /\ Pod!First(v, n) \o ys \in Seq(Bytes) /\ Len(Pod!First(v, n) \o ys) = Span(p_type, v, n)
           /\ HasBytesAt(e, 0, Pod!First(v, n) \o ys)
<1>1. p_size[v] \in Nat /\ p_contents[v] \in Seq(Bytes) /\ Len(p_contents[v]) = Span(p_type, v, p_size[v])
  BY PodFacts
<1>2. PICK f : f = Pod!First(v, n)
  OBVIOUS
<1>3. CASE n > p_size[v]
  <2>1. f = p_contents[v]
    BY <1>1, <1>2, <1>3, FirstIs
  <2>2. PICK a \in Nat, b \in Nat : a = Span(p_type, v, p_size[v]) /\ b = Span(p_type, v, n - p_size[v])
                                    /\ a + b = Span(p_type, v, n)
    <3>1. n - p_size[v] \in Nat /\ p_size[v] + (n - p_size[v]) = n
      BY <1>1, <1>3
    <3>2. /\ Span(p_type, v, p_size[v]) \in Nat /\ Span(p_type, v, n - p_size[v]) \in Nat
          /\ Span(p_type, v, p_size[v] + (n - p_size[v])) = Span(p_type, v, p_size[v]) + Span(p_type, v, n - p_size[v])
      BY <1>1, <3>1, Sums
    <3> QED  BY <3>1, <3>2
  <2>3. Len(f) = a /\ Len(ys) = b /\ f \in Seq(Bytes)
    BY <1>1, <1>3, <2>1, <2>2
  <2>4. f \o ys \in Seq(Bytes) /\ Len(f \o ys) = a + b
    BY <2>3, Joined
  <2>5. a = 0 + Len(f) /\ HasBytesAt(e, 0, f) /\ HasBytesAt(e, a, ys)
    BY <1>3, <2>1, <2>2, <2>3
  <2>6. HasBytesAt(e, 0, f \o ys)
    BY <2>2, <2>3, <2>5, HasJoined
  <2> QED  BY <1>2, <2>2, <2>4, <2>6
<1>4. CASE ~(n > p_size[v])
  <2>1. n <= p_size[v] /\ ys = <<>> /\ 0 <= n /\ p_size[v] <= p_size[v]
    BY <1>1, <1>4, Emptied
  <2>2. f = Piece(v, 0, n) /\ p_contents[v] = Piece(v, 0, p_size[v])
    BY <1>1, <1>2, <2>1, FirstIs
  <2>3. f \in Seq(Bytes) /\ Len(f) = Span(p_type, v, n)
    <3>1. n - 0 = n
      OBVIOUS
    <3>2. Piece(v, 0, n) \in Seq(Bytes) /\ Len(Piece(v, 0, n)) = Span(p_type, v, n - 0)
      BY <2>1, PieceIs
    <3> QED  BY <2>2, <3>1, <3>2
  <2>4. HasBytesAt(e, 0, f)
    <3>1. 0 - 0 = 0 /\ Span(p_type, v, 0) = 0 /\ 0 = 0 + Span(p_type, v, 0 - 0)
      BY Sums
    <3>2. HasBytesAt(e, 0, Piece(v, 0, p_size[v]))
      BY <2>2
    <3>3. HasBytesAt(e, 0, Piece(v, 0, n))
      BY <1>1, <2>1, <3>1, <3>2, PieceOf
    <3> QED  BY <2>2, <3>3
  <2>5. f \o ys = f
    BY <2>1, <2>3
  <2> QED  BY <1>2, <2>3, <2>4, <2>5
<1> QED  BY <1>3, <1>4

\* What reserve has kept is behind what is written at the end.
LEMMA ReservedWrites ==
    ASSUME PodIndInv, NEW v \in Pods, NEW n \in Nat, NEW u \in Pod!Reserved(v, n), NEW xs, Len(xs) \in Nat,
           NEW e, e = Pod!Writes(v, u, p_size[v], xs)
    PROVE  /\ Sound(p_type, v, e) /\ Mine(v, e) /\ Roomy(v, e, n)
           /\ e.shift = u.shift /\ e.shift \in Nat /\ Len(e.bytes) = Len(u.bytes) /\ Len(e.bytes) \in Nat
           /\ HasBytesAt(e, 0, p_contents[v]) /\ HasBytesAt(e, Span(p_type, v, p_size[v]), xs)
<1>1. Keeps(v, u) /\ Roomy(v, u, n)
  BY ReservedKeeps
<1>2. p_size[v] \in Nat /\ p_contents[v] \in Seq(Bytes) /\ Len(p_contents[v]) = Span(p_type, v, p_size[v])
  BY PodFacts
<1>3. Sound(p_type, v, u) /\ Mine(v, u) /\ u.shift \in Nat /\ HasBytes(u, p_contents[v])
  BY <1>1 DEF Keeps, Sound
<1>4. HasBytesAt(u, 0, p_contents[v])
  BY <1>2, <1>3, HasAll
<1>5. Span(p_type, v, p_size[v]) \in Nat /\ 0 + Len(p_contents[v]) <= Span(p_type, v, p_size[v])
  BY <1>2, Sums
<1>6. /\ Sound(p_type, v, e) /\ Mine(v, e) /\ Roomy(v, e, n)
      /\ e.shift = u.shift /\ e.shift \in Nat /\ Len(e.bytes) = Len(u.bytes) /\ Len(e.bytes) \in Nat
      /\ HasBytesAt(e, Span(p_type, v, p_size[v]), xs)
      /\ \A a \in Nat, ys \in Seq(Bytes) :
            HasBytesAt(u, a, ys) /\ (a + Len(ys) <= Span(p_type, v, p_size[v]) \/ Span(p_type, v, p_size[v]) + Len(xs) <= a)
            => HasBytesAt(e, a, ys)
  BY <1>1, <1>2, <1>3, WritesHas
<1>7. HasBytesAt(e, 0, p_contents[v])
  BY <1>2, <1>4, <1>5, <1>6
<1> QED  BY <1>6, <1>7

LEMMA Zeros ==
    ASSUME NEW k \in Nat
    PROVE  Pod!ZeroBytes(k) \in Seq(Bytes) /\ Len(Pod!ZeroBytes(k)) = k
<1>1. Pod!ZeroBytes(k) \in [1..k -> Bytes]
  BY PodBytesAssumption DEF Pod!ZeroBytes
<1> QED  BY <1>1

LEMMA ResizeKeeps ==
    ASSUME PodIndInv, NEW v \in Pods, NEW n \in Nat, Pod!resize(v, n)
    PROVE  PodIndInv'
<1>1. PICK ys : ys = IF n > p_size[v] THEN Pod!ZeroBytes(Pod!e2b(v, n - p_size[v])) ELSE <<>>
  OBVIOUS
<1>2. ys \in Seq(Bytes) /\ Len(ys) = IF n > p_size[v] THEN Span(p_type, v, n - p_size[v]) ELSE 0
  <2>1. CASE n > p_size[v]
    <3>1. PICK m \in Nat : m = n - p_size[v]
      BY <2>1, PodFacts
    <3>2. Pod!e2b(v, m) = Span(p_type, v, m) /\ Span(p_type, v, m) \in Nat
      BY Sums, InBytes
    <3>3. ys = Pod!ZeroBytes(Span(p_type, v, m))
      BY <1>1, <2>1, <3>1, <3>2
    <3>4. ys \in Seq(Bytes) /\ Len(ys) = Span(p_type, v, m)
      BY <3>2, <3>3, Zeros
    <3> QED  BY <2>1, <3>1, <3>4
  <2>2. CASE ~(n > p_size[v])
    BY <1>1, <2>2
  <2> QED  BY <2>1, <2>2
<1>3. PICK u \in Pod!Reserved(v, n) :
          Pod!Run(v, "resize", TRUE, Pod!Writes(v, u, p_size[v], ys), n, Pod!First(v, n) \o ys)
  BY <1>1 DEF Pod!resize
<1>4. PICK e : e = Pod!Writes(v, u, p_size[v], ys)
  OBVIOUS
<1>5. Len(ys) \in Nat
  BY <1>2, LenNat
<1>6. /\ Sound(p_type, v, e) /\ Mine(v, e) /\ Roomy(v, e, n) /\ e.shift \in Nat /\ Len(e.bytes) \in Nat
      /\ HasBytesAt(e, 0, p_contents[v]) /\ HasBytesAt(e, Span(p_type, v, p_size[v]), ys)
  BY <1>3, <1>4, <1>5, ReservedWrites
<1>7. PICK zs : zs = Pod!First(v, n) \o ys
  OBVIOUS
<1>8. zs \in Seq(Bytes) /\ Len(zs) = Span(p_type, v, n) /\ HasBytesAt(e, 0, zs)
  BY <1>2, <1>6, <1>7, PodResized
<1>9. Pod!Run(v, "resize", TRUE, e, n, zs)
  BY <1>3, <1>4, <1>7
<1> QED  BY <1>6, <1>8, <1>9, PodRunHas

Refills(x, k, n, s) ==
    /\ Pod!Fill(x, k) \in Seq(Bytes) /\ Len(Pod!Fill(x, k)) = k * s /\ k * s \in Nat
    /\ Len(Pod!Fill(x, n)) = n * s /\ k * s <= n * s /\ n * s \in Nat
    /\ \A i \in 1..k * s : Pod!Fill(x, k)[i] = Pod!Fill(x, n)[i]

\* The k values of a shorter fill are the first k of a longer one.
LEMMA Filling ==
    ASSUME NEW s \in Nat \ {0}, NEW x \in [1..s -> Bytes], NEW k \in Nat, NEW n \in Nat, k <= n
    PROVE  Refills(x, k, n, s)
<1>1. Len(x) = s
  OBVIOUS
<1>2. PICK a \in Nat, b \in Nat : a = k * s /\ b = n * s /\ a <= b
  BY Scaled, ScaledMore
<1>3. /\ Pod!Fill(x, k) = [i \in 1..a |-> x[((i - 1) % s) + 1]]
      /\ Pod!Fill(x, n) = [i \in 1..b |-> x[((i - 1) % s) + 1]]
  BY <1>1, <1>2 DEF Pod!Fill
<1>4. ASSUME NEW i \in Nat \ {0}
      PROVE  x[((i - 1) % s) + 1] \in Bytes
  <2>1. PICK j \in Nat : j = i - 1
    OBVIOUS
  <2>2. (j % s) + 1 \in 1..s
    OBVIOUS
  <2> QED  BY <2>1, <2>2
<1>5. Pod!Fill(x, k) \in [1..a -> Bytes] /\ Pod!Fill(x, n) \in [1..b -> Bytes]
  BY <1>3, <1>4
<1>6. Pod!Fill(x, k) \in Seq(Bytes) /\ Len(Pod!Fill(x, k)) = a /\ Len(Pod!Fill(x, n)) = b
  BY <1>5
<1>7. \A i \in 1..a : i \in 1..b
  BY <1>2
<1>8. \A i \in 1..a : Pod!Fill(x, k)[i] = Pod!Fill(x, n)[i]
  BY <1>3, <1>7
<1> QED  BY <1>2, <1>6, <1>8 DEF Refills

LEMMA ResizeFillKeeps ==
    ASSUME PodIndInv, NEW v \in Pods, NEW n \in Nat, NEW x \in Pod!Patterns(v), Pod!resize_fill(v, n, x)
    PROVE  PodIndInv'
<1>1. PICK s \in Nat \ {0} : s = p_type.sizeof[v]
  BY PodFacts
<1>2. x \in [1..s -> Bytes] /\ p_size[v] \in Nat
  BY <1>1, PodFacts DEF Pod!Patterns
<1>3. PICK xs, ys : xs = Pod!Fill(x, n) /\ ys = IF n > p_size[v] THEN Pod!Fill(x, n - p_size[v]) ELSE <<>>
  OBVIOUS
<1>4. PICK u \in Pod!Reserved(v, n) :
          Pod!Run(v, "resize_fill", n = 0 \/ Pod!Fits(v, u, p_size[v] + n),
                  Pod!Writes(v, u, p_size[v], xs), n, Pod!First(v, n) \o ys)
  BY <1>3 DEF Pod!resize_fill
<1>5. Len(xs) \in Nat
  <2>1. n <= n
    OBVIOUS
  <2>2. Refills(x, n, n, s)
    BY <1>1, <1>2, <2>1, Filling
  <2> QED  BY <1>3, <2>2 DEF Refills
<1>6. /\ ys \in Seq(Bytes) /\ Len(ys) = IF n > p_size[v] THEN Span(p_type, v, n - p_size[v]) ELSE 0
      /\ n > p_size[v] => Len(ys) <= Len(xs) /\ \A i \in 1..Len(ys) : ys[i] = xs[i]
  <2>1. CASE n > p_size[v]
    <3>1. PICK k \in Nat : k = n - p_size[v] /\ k <= n
      BY <1>2, <2>1
    <3>2. ys = Pod!Fill(x, k) /\ Span(p_type, v, k) = k * s
      BY <1>1, <1>3, <2>1, <3>1 DEF Span
    <3>3. Refills(x, k, n, s)
      BY <1>1, <1>2, <3>1, Filling
    <3> QED  BY <1>3, <2>1, <3>1, <3>2, <3>3 DEF Refills
  <2>2. CASE ~(n > p_size[v])
    BY <1>3, <2>2
  <2> QED  BY <2>1, <2>2
<1>7. PICK e : e = Pod!Writes(v, u, p_size[v], xs)
  OBVIOUS
<1>8. /\ Sound(p_type, v, e) /\ Mine(v, e) /\ Roomy(v, e, n) /\ e.shift \in Nat /\ Len(e.bytes) \in Nat
      /\ HasBytesAt(e, 0, p_contents[v]) /\ HasBytesAt(e, Span(p_type, v, p_size[v]), xs)
  BY <1>4, <1>5, <1>7, ReservedWrites
<1>9. n > p_size[v] => HasBytesAt(e, Span(p_type, v, p_size[v]), ys)
  <2>1. SUFFICES ASSUME n > p_size[v] PROVE HasBytesAt(e, Span(p_type, v, p_size[v]), ys)
    OBVIOUS
  <2>2. Span(p_type, v, p_size[v]) \in Nat /\ Len(ys) \in Nat
    BY <1>2, <1>6, Sums, LenNat
  <2>3. Len(ys) <= Len(xs) /\ \A i \in 1..Len(ys) : ys[i] = xs[i]
    BY <1>6, <2>1
  <2>4. \A i \in 1..Len(ys) : i \in 1..Len(xs)
    BY <1>5, <2>2, <2>3
  <2> QED  BY <1>8, <2>3, <2>4 DEF HasBytesAt
<1>10. PICK zs : zs = Pod!First(v, n) \o ys
  OBVIOUS
<1>11. zs \in Seq(Bytes) /\ Len(zs) = Span(p_type, v, n) /\ HasBytesAt(e, 0, zs)
  BY <1>6, <1>8, <1>9, <1>10, PodResized
<1>12. PICK ok \in BOOLEAN : ok = (n = 0 \/ Pod!Fits(v, u, p_size[v] + n))
  OBVIOUS
<1>13. Pod!Run(v, "resize_fill", ok, e, n, zs)
  BY <1>4, <1>7, <1>10, <1>12
<1> QED  BY <1>8, <1>11, <1>13, PodRunHas

\* y begins with x.
Starts(y, x) == \A i \in 1..Len(x) : y[i] = x[i]

LEMMA SpanOfMore ==
    ASSUME PodIndInv, NEW v \in Pods, NEW a \in Nat
    PROVE  /\ Span(p_type, v, a) \in Nat /\ p_type.sizeof[v] \in Nat \ {0}
           /\ Span(p_type, v, a + 1) = Span(p_type, v, a) + p_type.sizeof[v]
<1>1. 1 \in Nat /\ p_type.sizeof[v] \in Nat \ {0}
  BY PodFacts
<1>2. Span(p_type, v, a) \in Nat /\ Span(p_type, v, a + 1) = Span(p_type, v, a) + Span(p_type, v, 1)
  BY <1>1, Sums
<1>3. Span(p_type, v, 1) = p_type.sizeof[v]
  BY Sums
<1> QED  BY <1>1, <1>2, <1>3

\* A buffer of size + 1 elements, whose last one is written.
LEMMA PodPushed ==
    ASSUME PodIndInv, NEW v \in Pods, NEW x \in Seq(Bytes), Len(x) = p_type.sizeof[v],
           NEW e, e.shift \in Nat, Len(e.bytes) \in Nat, HasBytesAt(e, 0, p_contents[v]),
           NEW y, HasBytesAt(e, Span(p_type, v, p_size[v]), y),
           Len(y) = Len(x),
           e.shift + Span(p_type, v, p_size[v] + 1) <= Len(e.bytes) => Starts(y, x)
    PROVE  /\ p_contents[v] \o x \in Seq(Bytes) /\ Len(p_contents[v] \o x) = Span(p_type, v, p_size[v] + 1)
           /\ e.shift + Span(p_type, v, p_size[v] + 1) <= Len(e.bytes) => HasBytesAt(e, 0, p_contents[v] \o x)
<1>1. p_size[v] \in Nat /\ p_contents[v] \in Seq(Bytes) /\ Len(p_contents[v]) = Span(p_type, v, p_size[v])
  BY PodFacts
<1>2. PICK a \in Nat, b \in Nat : /\ a = Span(p_type, v, p_size[v]) /\ b = p_type.sizeof[v]
                                  /\ a + b = Span(p_type, v, p_size[v] + 1)
  BY <1>1, SpanOfMore
<1>3. p_contents[v] \o x \in Seq(Bytes) /\ Len(p_contents[v] \o x) = a + b
  BY <1>1, <1>2, Joined
<1>4. ASSUME e.shift + Span(p_type, v, p_size[v] + 1) <= Len(e.bytes)
      PROVE  HasBytesAt(e, 0, p_contents[v] \o x)
  <2>1. HasBytesAt(e, a, x)
    BY <1>2, <1>4 DEF HasBytesAt, Starts
  <2>2. a = 0 + Len(p_contents[v])
    BY <1>1, <1>2
  <2> QED  BY <1>1, <1>2, <2>1, <2>2, HasJoined
<1> QED  BY <1>2, <1>3, <1>4

LEMMA PushBackKeeps ==
    ASSUME PodIndInv, NEW v \in Pods, NEW x \in Pod!Patterns(v), Pod!push_back(v, x)
    PROVE  PodIndInv'
<1>1. PICK s \in Nat \ {0} : s = p_type.sizeof[v]
  BY PodFacts
<1>2. x \in Seq(Bytes) /\ Len(x) = s
  <2>1. x \in [1..s -> Bytes]
    BY <1>1 DEF Pod!Patterns
  <2> QED  BY <1>1, <2>1
<1>3. PICK n \in Nat : n = p_size[v] + 1
  BY PodFacts
<1>4. PICK u \in Pod!Reserved(v, n) :
          Pod!Run(v, "push_back", TRUE, Pod!Writes(v, u, p_size[v], x), n, p_contents[v] \o x)
  BY <1>3 DEF Pod!push_back
<1>5. PICK e, zs : e = Pod!Writes(v, u, p_size[v], x) /\ zs = p_contents[v] \o x
  OBVIOUS
<1>6. /\ Sound(p_type, v, e) /\ Mine(v, e) /\ Roomy(v, e, n) /\ e.shift \in Nat /\ Len(e.bytes) \in Nat
      /\ HasBytesAt(e, 0, p_contents[v]) /\ HasBytesAt(e, Span(p_type, v, p_size[v]), x)
  BY <1>1, <1>2, <1>3, <1>4, <1>5, ReservedWrites
<1>7. /\ zs \in Seq(Bytes) /\ Len(zs) = Span(p_type, v, n)
      /\ e.shift + Span(p_type, v, n) <= Len(e.bytes) => HasBytesAt(e, 0, zs)
  <2>1. Starts(x, x)
    BY DEF Starts
  <2> QED  BY <1>1, <1>2, <1>3, <1>5, <1>6, <2>1, PodPushed
<1>8. Pod!Run(v, "push_back", TRUE, e, n, zs)
  BY <1>4, <1>5
<1> QED  BY <1>6, <1>7, <1>8, PodRunHas

\* Element i of a buffer, where it has the piece x.
LEMMA ElementIs ==
    ASSUME PodIndInv, NEW v \in Pods, NEW u, u.shift \in Nat, Len(u.bytes) \in Nat, NEW i \in Nat, NEW n \in Nat, i < n,
           NEW x, Len(x) = p_type.sizeof[v], HasBytesAt(u, Span(p_type, v, i), x)
    PROVE  /\ Len(Pod!Element(v, u, i)) = p_type.sizeof[v]
           /\ u.shift + Span(p_type, v, n) <= Len(u.bytes) => Starts(Pod!Element(v, u, i), x)
<1>1. PICK s \in Nat, a \in Nat, b \in Nat : /\ s = p_type.sizeof[v] /\ a = Span(p_type, v, i)
                                                   /\ b = Span(p_type, v, n) /\ a + s <= b
  <2>1. i + 1 \in Nat /\ i + 1 <= n
    OBVIOUS
  <2>2. /\ Span(p_type, v, i) \in Nat /\ p_type.sizeof[v] \in Nat \ {0}
        /\ Span(p_type, v, i + 1) = Span(p_type, v, i) + p_type.sizeof[v]
    BY SpanOfMore
  <2>3. Span(p_type, v, i + 1) <= Span(p_type, v, n) /\ Span(p_type, v, n) \in Nat
    BY <2>1, Sums
  <2> QED  BY <2>2, <2>3
<1>0. a \in Nat /\ b \in Nat /\ s \in Nat /\ a + s <= b
  BY <1>1
<1>2. PICK el : el = Pod!Element(v, u, i)
  OBVIOUS
<1>3. el = [k \in 1..s |-> u.bytes[u.shift + a + k]]
  BY <1>1, <1>2, FitsSpan DEF Pod!Element
<1>4. Len(el) = s
  <2>1. el = [k \in 1..s |-> el[k]]
    BY <1>3
  <2> QED  BY <1>1, <2>1, ListedOver
<1>5. ASSUME u.shift + b <= Len(u.bytes), NEW k \in 1..s
      PROVE  el[k] = x[k]
  <2>1. el[k] = u.bytes[u.shift + a + k]
    BY <1>3
  <2>2. u.shift + a + k <= Len(u.bytes)
    <3>1. PICK z \in Nat, l \in Nat : z = u.shift /\ l = Len(u.bytes)
      OBVIOUS
    <3>2. z + b <= l
      BY <1>5, <3>1
    <3>3. k \in Nat /\ k <= s
      BY <1>1
    <3>4. a + k <= b
      BY <1>0, <3>3
    <3>5. z + a + k <= l
      BY <3>2, <3>3, <3>4
    <3> QED  BY <3>1, <3>5
  <2>3. k \in 1..Len(x)
    BY <1>1
  <2>4. u.bytes[u.shift + a + k] = x[k]
    BY <1>1, <2>2, <2>3 DEF HasBytesAt
  <2> QED  BY <2>1, <2>4
<1>6. u.shift + b <= Len(u.bytes) => Starts(el, x)
  BY <1>1, <1>5 DEF Starts
<1> QED  BY <1>1, <1>2, <1>4, <1>6

\* An element of v, as a piece.
LEMMA OneOf ==
    ASSUME PodIndInv, NEW v \in Pods, NEW i \in Nat, i < p_size[v]
    PROVE  /\ Pod!Own(v, i) = Piece(v, i, i + 1)
           /\ Piece(v, i, i + 1) \in Seq(Bytes) /\ Len(Piece(v, i, i + 1)) = p_type.sizeof[v]
           /\ i + 1 \in Nat /\ i + 1 <= p_size[v] /\ i <= i + 1
<1>1. i + 1 \in Nat /\ i + 1 <= p_size[v] /\ i <= i + 1 /\ (i + 1) - i = 1
  BY PodFacts
<1>2. Piece(v, i, i + 1) \in Seq(Bytes) /\ Len(Piece(v, i, i + 1)) = Span(p_type, v, (i + 1) - i)
  BY <1>1, PieceIs
<1>3. Span(p_type, v, 1) = p_type.sizeof[v]
  BY Sums
<1>4. Pod!Own(v, i) = Piece(v, i, i + 1)
  BY InBytes DEF Piece, Pod!Own
<1> QED  BY <1>1, <1>2, <1>3, <1>4

LEMMA PushBackOwnKeeps ==
    ASSUME PodIndInv, NEW v \in Pods, NEW i \in Nat, i < p_size[v], Pod!push_back_own(v, i)
    PROVE  PodIndInv'
<1>1. PICK n \in Nat : n = p_size[v] + 1 /\ i < n
  BY PodFacts
<1>2. PICK x : x = Piece(v, i, i + 1)
  OBVIOUS
<1>3. x = Pod!Own(v, i) /\ x \in Seq(Bytes) /\ Len(x) = p_type.sizeof[v]
  BY <1>2, OneOf
<1>4. PICK u \in Pod!Reserved(v, n) :
          Pod!Run(v, "push_back_own", u.block = p_begin[v],
                  Pod!Writes(v, u, p_size[v], Pod!Element(v, u, i)), n, p_contents[v] \o x)
  BY <1>1, <1>3 DEF Pod!push_back_own
<1>5. Keeps(v, u)
  BY <1>1, <1>4, ReservedKeeps
<1>6. u.shift \in Nat /\ Len(u.bytes) \in Nat /\ HasBytesAt(u, 0, p_contents[v])
  BY <1>5, PodFacts, HasAll DEF Keeps, Sound, Listed
<1>7. HasBytesAt(u, Span(p_type, v, i), x)
  <2>1. p_contents[v] = Piece(v, 0, p_size[v]) /\ p_size[v] \in Nat
    BY PodFacts, FirstIs
  <2>2. /\ 0 <= i /\ i <= i + 1 /\ i + 1 \in Nat /\ i + 1 <= p_size[v] /\ p_size[v] <= p_size[v]
    BY <2>1
  <2>3. Span(p_type, v, i) = 0 + Span(p_type, v, i - 0)
    <3>1. i - 0 = i /\ Span(p_type, v, i) \in Nat
      BY Sums
    <3> QED  BY <3>1
  <2>4. HasBytesAt(u, 0, Piece(v, 0, p_size[v]))
    BY <1>6, <2>1
  <2> QED  BY <1>2, <1>6, <2>1, <2>2, <2>3, <2>4, PieceOf
<1>8. PICK y : y = Pod!Element(v, u, i)
  OBVIOUS
<1>9. /\ Len(y) = p_type.sizeof[v]
      /\ u.shift + Span(p_type, v, n) <= Len(u.bytes) => Starts(y, x)
  BY <1>1, <1>3, <1>6, <1>7, <1>8, ElementIs
<1>10. PICK e, zs : e = Pod!Writes(v, u, p_size[v], y) /\ zs = p_contents[v] \o x
  OBVIOUS
<1>11. Len(y) \in Nat
  BY <1>9, PodFacts
<1>12. /\ Sound(p_type, v, e) /\ Mine(v, e) /\ Roomy(v, e, n) /\ e.shift \in Nat /\ Len(e.bytes) \in Nat
       /\ e.shift = u.shift /\ Len(e.bytes) = Len(u.bytes)
       /\ HasBytesAt(e, 0, p_contents[v]) /\ HasBytesAt(e, Span(p_type, v, p_size[v]), y)
  BY <1>1, <1>4, <1>10, <1>11, ReservedWrites
<1>13. /\ zs \in Seq(Bytes) /\ Len(zs) = Span(p_type, v, n)
       /\ e.shift + Span(p_type, v, n) <= Len(e.bytes) => HasBytesAt(e, 0, zs)
  BY <1>1, <1>3, <1>9, <1>10, <1>12, PodPushed
<1>14. PICK ok \in BOOLEAN : ok = (u.block = p_begin[v])
  OBVIOUS
<1>15. Pod!Run(v, "push_back_own", ok, e, n, zs)
  BY <1>4, <1>8, <1>10, <1>14
<1> QED  BY <1>12, <1>13, <1>15, PodRunHas

\* A piece of what v has, in a buffer that keeps it.
LEMMA KeepsPiece ==
    ASSUME PodIndInv, NEW v \in Pods, NEW u, Keeps(v, u), NEW a \in Nat, NEW b \in Nat, a <= b, b <= p_size[v]
    PROVE  u.shift \in Nat /\ Len(u.bytes) \in Nat /\ HasBytesAt(u, Span(p_type, v, a), Piece(v, a, b))
<1>1. u.shift \in Nat /\ Len(u.bytes) \in Nat /\ HasBytes(u, p_contents[v])
  BY DEF Keeps, Sound, Listed
<1> QED  BY <1>1, PieceIs

LEMMA ElementLength ==
    ASSUME PodIndInv, NEW v \in Pods, NEW u, NEW i
    PROVE  Len(Pod!Element(v, u, i)) = p_type.sizeof[v]
<1>1. PICK s \in Nat : s = p_type.sizeof[v]
  BY PodFacts
<1>2. PICK el : el = Pod!Element(v, u, i)
  OBVIOUS
<1>3. el = [k \in 1..s |-> u.bytes[Pod!Place(v, u, i) + k]]
  BY <1>1, <1>2 DEF Pod!Element
<1>4. el = [k \in 1..s |-> el[k]]
  BY <1>3
<1>5. Len(el) = s
  BY <1>4, ListedOver
<1> QED  BY <1>1, <1>2, <1>5

\* n values x, and n times y.
Refilled(x, y, n, s) ==
    /\ n * s \in Nat
    /\ Pod!Fill(x, n) \in Seq(Bytes) /\ Len(Pod!Fill(x, n)) = n * s /\ Len(Pod!Fill(y, n)) = n * s
    /\ Starts(y, x) => Starts(Pod!Fill(y, n), Pod!Fill(x, n))

LEMMA FillingBoth ==
    ASSUME NEW s \in Nat \ {0}, NEW x \in Seq(Bytes), Len(x) = s, NEW y, Len(y) = s, NEW n \in Nat
    PROVE  Refilled(x, y, n, s)
<1>1. PICK a \in Nat : a = n * s
  BY Scaled
<1>2. Pod!Fill(x, n) \in Seq(Bytes) /\ Len(Pod!Fill(x, n)) = a
  <2>1. x \in [1..s -> Bytes] /\ n <= n
    OBVIOUS
  <2>2. Refills(x, n, n, s)
    BY <2>1, Filling
  <2> QED  BY <1>1, <2>2 DEF Refills
<1>3. /\ Pod!Fill(x, n) = [i \in 1..a |-> x[((i - 1) % s) + 1]]
      /\ Pod!Fill(y, n) = [i \in 1..a |-> y[((i - 1) % s) + 1]]
  BY <1>1 DEF Pod!Fill
<1>4. Len(Pod!Fill(y, n)) = a
  BY <1>1, FillIs
<1>5. ASSUME Starts(y, x), NEW i \in 1..a
      PROVE  Pod!Fill(y, n)[i] = Pod!Fill(x, n)[i]
  <2>1. PICK j \in Nat : j = i - 1
    OBVIOUS
  <2>2. (j % s) + 1 \in 1..s
    OBVIOUS
  <2>3. y[(j % s) + 1] = x[(j % s) + 1]
    BY <1>5, <2>2 DEF Starts
  <2> QED  BY <1>3, <2>1, <2>3
<1>6. Starts(y, x) => Starts(Pod!Fill(y, n), Pod!Fill(x, n))
  BY <1>2, <1>5 DEF Starts
<1> QED  BY <1>1, <1>2, <1>4, <1>6 DEF Refilled

\* Element i, in a buffer that keeps it.
LEMMA KeptElement ==
    ASSUME PodIndInv, NEW v \in Pods, NEW i \in Nat, i < p_size[v], NEW u, Keeps(v, u), NEW n \in Nat, i < n,
           u.shift + Span(p_type, v, n) <= Len(u.bytes)
    PROVE  Starts(Pod!Element(v, u, i), Pod!Own(v, i))
<1>1. PICK x : x = Pod!Own(v, i) /\ x = Piece(v, i, i + 1) /\ Len(x) = p_type.sizeof[v]
  BY OneOf
<1>2. i + 1 \in Nat /\ i <= i + 1 /\ i + 1 <= p_size[v]
  BY PodFacts
<1>3. u.shift \in Nat /\ Len(u.bytes) \in Nat /\ HasBytesAt(u, Span(p_type, v, i), x)
  BY <1>1, <1>2, KeepsPiece
<1> QED  BY <1>1, <1>3, ElementIs

\* A buffer that safe_grow leaves where it is.
LEMMA SafeGrownInPlace ==
    ASSUME PodIndInv, NEW v \in Pods, NEW n \in Nat, NEW u \in Pod!SafeGrown(v, n), u.block = p_begin[v]
    PROVE  u = Pod!Buffer(v)
<1>1. CASE n <= p_capacity[v]
  BY <1>1 DEF Pod!SafeGrown
<1>2. CASE ~(n <= p_capacity[v])
  <2>1. p_capacity[v] \in Nat /\ n \in Nat \ {0} /\ u \in Pod!a_malloc(v, Pod!get_new_capacity(v, n))
    BY <1>2, PodFacts DEF Pod!SafeGrown
  <2>2. u.block = Pod!FreeBlock
    BY <2>1 DEF Pod!a_malloc
  <2>3. u.block \in Blocks /\ p_data[u.block] = <<>> /\ u.block # Null
    BY <2>2, FreeBlockIsFree, NullAssumption
  <2>4. p_data[p_begin[v]] # <<>>
    BY <2>3, BufferOf
  <2> QED  BY <2>3, <2>4
<1> QED  BY <1>1, <1>2

LEMMA AssignOwnKeeps ==
    ASSUME PodIndInv, NEW v \in Pods, NEW n \in Nat, NEW i \in Nat, i < p_size[v], Pod!assign_own(v, n, i)
    PROVE  PodIndInv'
<1>1. PICK x : x = Pod!Own(v, i) /\ x \in Seq(Bytes) /\ Len(x) = p_type.sizeof[v]
  BY OneOf
<1>2. PICK u \in Pod!SafeGrown(v, n) :
          Pod!Run(v, "assign_own", u.block = p_begin[v],
                  Pod!Writes(v, u, 0, Pod!Fill(Pod!Element(v, u, i), n)), n, Pod!Fill(x, n))
  BY <1>1 DEF Pod!assign_own
<1>3. PICK y : y = Pod!Element(v, u, i) /\ Len(y) = p_type.sizeof[v]
  BY ElementLength
<1>4. PICK xs, ys : xs = Pod!Fill(x, n) /\ ys = Pod!Fill(y, n)
  OBVIOUS
<1>5. /\ xs \in Seq(Bytes) /\ Len(xs) = Span(p_type, v, n) /\ Len(ys) = Len(xs) /\ Len(ys) \in Nat
      /\ Starts(y, x) => Starts(ys, xs)
  <2>1. Refilled(x, y, n, p_type.sizeof[v])
    BY <1>1, <1>3, PodFacts, FillingBoth
  <2> QED  BY <1>4, <2>1 DEF Refilled, Span
<1>6. PICK e : e = Pod!Writes(v, u, 0, ys)
  OBVIOUS
<1>7. Sound(p_type, v, u) /\ Mine(v, u) /\ Roomy(v, u, n)
  BY <1>2, SafeGrownRoomy
<1>8. Span(p_type, v, 0) = 0 /\ 0 \in Nat
  BY Sums
<1>9. Sound(p_type, v, e) /\ Mine(v, e) /\ Roomy(v, e, n) /\ HasBytesAt(e, 0, ys)
  BY <1>5, <1>6, <1>7, <1>8, WritesHas
<1>10. PICK ok \in BOOLEAN : ok = (u.block = p_begin[v])
  OBVIOUS
<1>11. ok => HasBytesAt(e, 0, xs)
  <2>1. SUFFICES ASSUME ok PROVE HasBytesAt(e, 0, xs)
    OBVIOUS
  <2>2. u = Pod!Buffer(v)
    BY <1>2, <1>10, <2>1, SafeGrownInPlace
  <2>3. /\ Keeps(v, u) /\ p_size[v] \in Nat /\ u.shift = p_shift[v]
        /\ p_shift[v] + Span(p_type, v, p_size[v]) <= Len(u.bytes)
    BY <2>2, OwnBuffer, PodFacts, BufferOf
  <2>4. Starts(y, x)
    BY <1>1, <1>3, <2>3, KeptElement
  <2>5. Starts(ys, xs)
    BY <1>5, <2>4
  <2> QED  BY <1>5, <1>9, <2>5 DEF HasBytesAt, Starts
<1>12. Pod!Run(v, "assign_own", ok, e, n, xs)
  BY <1>2, <1>3, <1>4, <1>6, <1>10
<1> QED  BY <1>5, <1>9, <1>11, <1>12, PodRunHas

LEMMA ResizeOwnKeeps ==
    ASSUME PodIndInv, NEW v \in Pods, NEW n \in Nat, NEW i \in Nat, i < p_size[v], Pod!resize_own(v, n, i)
    PROVE  PodIndInv'
<1>1. PICK s \in Nat \ {0} : s = p_type.sizeof[v]
  BY PodFacts
<1>2. PICK x : x = Pod!Own(v, i) /\ x \in Seq(Bytes) /\ Len(x) = s
  BY <1>1, OneOf
<1>3. x \in [1..s -> Bytes] /\ p_size[v] \in Nat
  BY <1>2, PodFacts
<1>4. PICK zs : zs = Pod!First(v, n) \o (IF n > p_size[v] THEN Pod!Fill(x, n - p_size[v]) ELSE <<>>)
  OBVIOUS
<1>5. PICK u \in Pod!Reserved(v, n) :
          Pod!Run(v, "resize_own", u.block = p_begin[v] /\ Pod!Fits(v, u, p_size[v] + n),
                  Pod!Writes(v, u, p_size[v], Pod!Fill(Pod!Element(v, u, i), n)), n, zs)
  BY <1>2, <1>4 DEF Pod!resize_own
<1>6. PICK y : y = Pod!Element(v, u, i) /\ Len(y) = s
  BY <1>1, ElementLength
<1>7. PICK xs, ys, rs : /\ xs = Pod!Fill(x, n) /\ ys = Pod!Fill(y, n)
                        /\ rs = IF n > p_size[v] THEN Pod!Fill(x, n - p_size[v]) ELSE <<>>
  OBVIOUS
<1>8. Len(ys) = Len(xs) /\ Len(ys) \in Nat /\ (Starts(y, x) => Starts(ys, xs))
  <2>1. Refilled(x, y, n, s)
    BY <1>2, <1>6, FillingBoth
  <2> QED  BY <1>7, <2>1 DEF Refilled
<1>9. /\ rs \in Seq(Bytes) /\ Len(rs) = IF n > p_size[v] THEN Span(p_type, v, n - p_size[v]) ELSE 0
      /\ n > p_size[v] => Len(rs) <= Len(xs) /\ \A k \in 1..Len(rs) : rs[k] = xs[k]
  <2>1. CASE n > p_size[v]
    <3>1. PICK k \in Nat : k = n - p_size[v] /\ k <= n
      BY <1>3, <2>1
    <3>2. rs = Pod!Fill(x, k) /\ Span(p_type, v, k) = k * s
      BY <1>1, <1>7, <2>1, <3>1 DEF Span
    <3>3. Refills(x, k, n, s)
      BY <1>1, <1>3, <3>1, Filling
    <3> QED  BY <1>7, <2>1, <3>1, <3>2, <3>3 DEF Refills
  <2>2. CASE ~(n > p_size[v])
    BY <1>7, <2>2
  <2> QED  BY <2>1, <2>2
<1>10. PICK e : e = Pod!Writes(v, u, p_size[v], ys)
  OBVIOUS
<1>11. /\ Sound(p_type, v, e) /\ Mine(v, e) /\ Roomy(v, e, n) /\ e.shift \in Nat /\ Len(e.bytes) \in Nat
       /\ HasBytesAt(e, 0, p_contents[v]) /\ HasBytesAt(e, Span(p_type, v, p_size[v]), ys)
  BY <1>5, <1>8, <1>10, ReservedWrites
<1>12. PICK ok \in BOOLEAN : ok = (u.block = p_begin[v] /\ Pod!Fits(v, u, p_size[v] + n))
  OBVIOUS
<1>13. Pod!Run(v, "resize_own", ok, e, n, zs)
  BY <1>5, <1>6, <1>7, <1>10, <1>12
<1>14. CASE ok
  <2>1. PICK m \in Nat : m = p_size[v] + n /\ i < m
    BY <1>3
  <2>2. u.shift + Span(p_type, v, m) <= Len(u.bytes)
    BY <1>12, <1>14, <2>1, FitsSpan
  <2>3. Keeps(v, u)
    BY <1>5, ReservedKeeps
  <2>4. Starts(y, x)
    BY <1>2, <1>6, <2>1, <2>2, <2>3, KeptElement
  <2>5. Starts(ys, xs)
    BY <1>8, <2>4
  <2>6. n > p_size[v] => HasBytesAt(e, Span(p_type, v, p_size[v]), rs)
    <3>1. SUFFICES ASSUME n > p_size[v] PROVE HasBytesAt(e, Span(p_type, v, p_size[v]), rs)
      OBVIOUS
    <3>2. Len(rs) \in Nat /\ Len(rs) <= Len(xs) /\ \A k \in 1..Len(rs) : rs[k] = xs[k]
      BY <1>9, <3>1, LenNat
    <3>3. \A k \in 1..Len(rs) : k \in 1..Len(xs)
      BY <1>8, <3>2
    <3>4. \A k \in 1..Len(rs) : k \in 1..Len(ys) /\ ys[k] = rs[k]
      BY <1>8, <2>5, <3>2, <3>3 DEF Starts
    <3> QED  BY <1>11, <3>4 DEF HasBytesAt
  <2>7. zs = Pod!First(v, n) \o rs
    BY <1>4, <1>7
  <2>8. zs \in Seq(Bytes) /\ Len(zs) = Span(p_type, v, n) /\ HasBytesAt(e, 0, zs)
    BY <1>9, <1>11, <2>6, <2>7, PodResized
  <2> QED  BY <1>11, <1>13, <1>14, <2>8, PodRunHas
<1>15. CASE ~ok
  BY <1>11, <1>13, <1>15, PodRun
<1> QED  BY <1>14, <1>15

\* e is u with a gap of num elements at p.
Gapped(v, u, e, p, num) ==
    e = [u EXCEPT !.bytes = Pod!memmove(@, Pod!Place(v, u, p + num), Pod!Place(v, u, p), Pod!e2b(v, p_size[v] - p))]

LEMMA GapHas ==
    ASSUME PodIndInv, NEW v \in Pods, NEW u, Keeps(v, u), NEW p \in Nat, p < p_size[v], NEW num \in Nat,
           NEW e, Gapped(v, u, e, p, num)
    PROVE  /\ Like(u, e)
           /\ HasBytesAt(e, 0, Piece(v, 0, p)) /\ HasBytesAt(e, Span(p_type, v, p + num), Piece(v, p, p_size[v]))
           /\ \A r \in Nat : r <= p_size[v] /\ r <= p + num => HasBytesAt(e, 0, Piece(v, 0, r))
<1>1. Sound(p_type, v, u) /\ p_size[v] \in Nat
  BY PodFacts DEF Keeps
<1>2. PICK q \in Nat, k \in Nat : q = p + num /\ k = p_size[v] - p /\ p <= q /\ p + 1 <= p_size[v] /\ p + 1 \in Nat
  BY <1>1
<1>3. PICK from \in Nat, to \in Nat, m \in Nat :
          from = Span(p_type, v, p) /\ to = Span(p_type, v, q) /\ m = Span(p_type, v, k) /\ from <= to
  BY <1>2, Sums
<1>4. e = [u EXCEPT !.bytes = Pod!memmove(@, u.shift + to, u.shift + from, m)]
  BY <1>2, <1>3, FitsSpan, InBytes DEF Gapped
<1>5. Shifted(u, e, to, from, m)
  BY <1>1, <1>4, MemmoveShifts
<1>6. Like(u, e)
  BY <1>5 DEF Shifted
<1>7. u.shift \in Nat /\ Len(u.bytes) \in Nat
  BY <1>1 DEF Sound, Listed
<1>8. HasBytesAt(e, to, Piece(v, p, p_size[v]))
  <2>1. PICK y : y = Piece(v, p, p_size[v])
    OBVIOUS
  <2>2. y \in Seq(Bytes) /\ Len(y) = m
    <3>1. p <= p_size[v] /\ p_size[v] <= p_size[v]
      BY <1>1
    <3>2. Piece(v, p, p_size[v]) \in Seq(Bytes) /\ Len(Piece(v, p, p_size[v])) = Span(p_type, v, p_size[v] - p)
      BY <1>1, <3>1, PieceIs
    <3> QED  BY <1>2, <1>3, <2>1, <3>2
  <2>3. HasBytesAt(u, from, y)
    BY <1>1, <1>3, <2>1, KeepsPiece
  <2>4. HasBytesAt(e, to, y)
    BY <1>3, <1>5, <1>7, <2>2, <2>3, ShiftedHas
  <2> QED  BY <2>1, <2>4
<1>9. ASSUME NEW r \in Nat, r <= p_size[v], r <= q
      PROVE  HasBytesAt(e, 0, Piece(v, 0, r))
  <2>1. PICK y : y = Piece(v, 0, r)
    OBVIOUS
  <2>2. y \in Seq(Bytes) /\ Len(y) = Span(p_type, v, r)
    <3>1. 0 <= r /\ r - 0 = r
      OBVIOUS
    <3>2. Piece(v, 0, r) \in Seq(Bytes) /\ Len(Piece(v, 0, r)) = Span(p_type, v, r - 0)
      BY <1>9, <3>1, PieceIs
    <3> QED  BY <2>1, <3>1, <3>2
  <2>3. HasBytesAt(u, 0, y)
    <3>1. Span(p_type, v, 0) = 0 /\ 0 <= r
      BY Sums
    <3>2. HasBytesAt(u, Span(p_type, v, 0), Piece(v, 0, r))
      BY <1>9, <3>1, KeepsPiece
    <3> QED  BY <2>1, <3>1, <3>2
  <2>4. 0 + Len(y) <= to
    <3>1. Span(p_type, v, r) <= Span(p_type, v, q) /\ Span(p_type, v, r) \in Nat
      BY <1>9, Sums
    <3> QED  BY <1>3, <2>2, <3>1
  <2>5. HasBytesAt(e, 0, y)
    BY <1>3, <1>5, <1>7, <2>2, <2>3, <2>4, ShiftedHas
  <2> QED  BY <2>1, <2>5
<1>10. HasBytesAt(e, 0, Piece(v, 0, p))
  BY <1>1, <1>2, <1>9
<1>11. \A r \in Nat : r <= p_size[v] /\ r <= p + num => HasBytesAt(e, 0, Piece(v, 0, r))
  BY <1>2, <1>9
<1> QED  BY <1>2, <1>3, <1>6, <1>8, <1>10, <1>11

LEMMA GrownAt ==
    ASSUME PodIndInv, NEW v \in Pods, NEW p \in Nat, p <= p_size[v], NEW num \in Nat, NEW u \in Pod!grow_at(v, p, num)
    PROVE  /\ Sound(p_type, v, u) /\ Mine(v, u) /\ Roomy(v, u, p_size[v] + num)
           /\ HasBytesAt(u, 0, Piece(v, 0, p)) /\ HasBytesAt(u, Span(p_type, v, p + num), Piece(v, p, p_size[v]))
           /\ \A r \in Nat : r <= p_size[v] /\ r <= p + num => HasBytesAt(u, 0, Piece(v, 0, r))
<1>1. PICK n \in Nat : n = p_size[v] + num
  BY PodFacts
<1>2. p_size[v] \in Nat /\ p_capacity[v] \in Nat /\ p_size[v] <= p_capacity[v]
  BY PodFacts
<1>3. CASE p = p_size[v]
  <2>1. PICK w \in Pod!Reserved(v, n) : u = Pod!Writes(v, w, p_size[v], Pod!ZeroBytes(Pod!e2b(v, num)))
    BY <1>1, <1>3 DEF Pod!grow_at
  <2>2. Len(Pod!ZeroBytes(Pod!e2b(v, num))) \in Nat
    <3>1. Span(p_type, v, num) \in Nat
      BY Sums
    <3>2. Len(Pod!ZeroBytes(Span(p_type, v, num))) \in Nat
      BY <3>1, Zeros
    <3> QED  BY <3>2, InBytes
  <2>3. Sound(p_type, v, u) /\ Mine(v, u) /\ Roomy(v, u, n) /\ HasBytesAt(u, 0, p_contents[v])
    BY <2>1, <2>2, ReservedWrites
  <2>4. p_contents[v] = Piece(v, 0, p_size[v])
    BY <1>2, FirstIs
  <2>5. HasBytesAt(u, Span(p_type, v, p + num), Piece(v, p, p_size[v]))
    <3>0. Span(p_type, v, 0) = 0
      BY Sums
    <3>1. p_size[v] <= p_size[v] /\ p_size[v] - p_size[v] = 0 /\ Span(p_type, v, 0) = 0
      BY <1>2, <3>0
    <3>2. Piece(v, p_size[v], p_size[v]) \in Seq(Bytes)
          /\ Len(Piece(v, p_size[v], p_size[v])) = Span(p_type, v, p_size[v] - p_size[v])
      BY <1>2, <3>1, PieceIs
    <3>3. Piece(v, p_size[v], p_size[v]) = <<>>
      BY <3>1, <3>2, Emptied
    <3> QED  BY <1>3, <3>3, HasNothing
  <2>6. ASSUME NEW r \in Nat, r <= p_size[v]
        PROVE  HasBytesAt(u, 0, Piece(v, 0, r))
    <3>1. 0 <= r /\ 0 - 0 = 0 /\ p_size[v] <= p_size[v] /\ u.shift \in Nat
      BY <1>2, <2>3 DEF Sound
    <3>2. 0 = 0 + Span(p_type, v, 0 - 0)
      BY <3>1, Sums
    <3>3. HasBytesAt(u, 0, Piece(v, 0, p_size[v]))
      BY <2>3, <2>4
    <3> QED  BY <1>2, <2>6, <3>1, <3>2, <3>3, PieceOf
  <2> QED  BY <1>1, <1>3, <2>3, <2>4, <2>5, <2>6
<1>4. CASE p # p_size[v]
  <2>1. p < p_size[v]
    BY <1>2, <1>4
  <2>2. PICK w : /\ w \in IF n <= p_capacity[v] THEN {Pod!Buffer(v)}
                          ELSE Pod!Reallocated(v, Pod!get_new_capacity(v, n), p_capacity[v] - p)
                 /\ Gapped(v, w, u, p, num)
    BY <1>1, <1>4 DEF Pod!grow_at, Gapped
  <2>3. Keeps(v, w) /\ Roomy(v, w, n)
    <3>1. CASE n <= p_capacity[v]
      BY <2>2, <3>1, OwnBuffer
    <3>2. CASE ~(n <= p_capacity[v])
      <4>1. n > p_capacity[v] /\ w \in Pod!Reallocated(v, Pod!get_new_capacity(v, n), p_capacity[v] - p)
        BY <1>2, <2>2, <3>2
      <4> QED  BY <4>1, GrownKeeps
    <3> QED  BY <3>1, <3>2
  <2>4. /\ Like(w, u)
        /\ HasBytesAt(u, 0, Piece(v, 0, p)) /\ HasBytesAt(u, Span(p_type, v, p + num), Piece(v, p, p_size[v]))
        /\ \A r \in Nat : r <= p_size[v] /\ r <= p + num => HasBytesAt(u, 0, Piece(v, 0, r))
    BY <2>1, <2>2, <2>3, GapHas
  <2>5. Sound(p_type, v, u) /\ Mine(v, u) /\ Roomy(v, u, n)
    BY <2>3, <2>4, LikeIsSound DEF Keeps
  <2> QED  BY <1>1, <2>4, <2>5
<1> QED  BY <1>3, <1>4

LEMMA SpanParts ==
    ASSUME PodIndInv, NEW v \in Pods, NEW p \in Nat, p <= p_size[v], NEW num \in Nat
    PROVE  \E a \in Nat, b \in Nat, c \in Nat :
              /\ a = Span(p_type, v, p) /\ b = Span(p_type, v, num) /\ c = Span(p_type, v, p_size[v] - p)
              /\ a + b = Span(p_type, v, p + num) /\ (a + b) + c = Span(p_type, v, p_size[v] + num)
<1>1. PICK m \in Nat : m = p_size[v]
  BY PodFacts
<1>2. PICK k \in Nat : k = m - p /\ p + k = m /\ (p + num) + k = m + num
  <2>1. m - p \in Nat /\ p + (m - p) = m /\ (p + num) + (m - p) = m + num
    BY <1>1
  <2> QED  BY <2>1
<1>3. Span(p_type, v, p) \in Nat /\ Span(p_type, v, num) \in Nat /\ Span(p_type, v, k) \in Nat
      /\ Span(p_type, v, p + num) = Span(p_type, v, p) + Span(p_type, v, num)
  BY Sums
<1>4. Span(p_type, v, (p + num) + k) = Span(p_type, v, p + num) + Span(p_type, v, k)
  <2>1. p + num \in Nat
    OBVIOUS
  <2> QED  BY <2>1, Sums
<1> QED  BY <1>1, <1>2, <1>3, <1>4

\* y is x, or its last element is past the end of u.
StartsIn(v, u, n, y, x) == u.shift + Span(p_type, v, n) <= Len(u.bytes) => Starts(y, x)
Between(v, p, x) == Pod!First(v, p) \o x \o Pod!Rest(v, p)

\* num elements, whose bytes are xs, are put in the gap: of what is there then, x is the prefix.
LEMMA PodInserted ==
    ASSUME PodIndInv, NEW v \in Pods, NEW p \in Nat, p <= p_size[v], NEW num \in Nat, NEW u \in Pod!grow_at(v, p, num),
           NEW x \in Seq(Bytes), Len(x) = Span(p_type, v, num),
           NEW n, n = p_size[v] + num, NEW y, Len(y) = Len(x), StartsIn(v, u, n, y, x),
           NEW e, e = Pod!Writes(v, u, p, y), NEW zs, zs = Between(v, p, x)
    PROVE  /\ Sound(p_type, v, e) /\ Mine(v, e) /\ Roomy(v, e, n) /\ zs \in Seq(Bytes) /\ Len(zs) = Span(p_type, v, n)
           /\ e.shift + Span(p_type, v, n) <= Len(e.bytes) => HasBytesAt(e, 0, zs)
<1>1. p_size[v] \in Nat /\ n \in Nat
  BY PodFacts
<1>2. /\ Sound(p_type, v, u) /\ Mine(v, u) /\ Roomy(v, u, n)
      /\ HasBytesAt(u, 0, Piece(v, 0, p)) /\ HasBytesAt(u, Span(p_type, v, p + num), Piece(v, p, p_size[v]))
  BY GrownAt
<1>3. PICK a \in Nat, b \in Nat, c \in Nat :
          /\ a = Span(p_type, v, p) /\ b = Span(p_type, v, num) /\ c = Span(p_type, v, p_size[v] - p)
          /\ a + b = Span(p_type, v, p + num) /\ (a + b) + c = Span(p_type, v, n)
  <2>1. PICK a \in Nat, b \in Nat, c \in Nat :
              /\ a = Span(p_type, v, p) /\ b = Span(p_type, v, num) /\ c = Span(p_type, v, p_size[v] - p)
              /\ a + b = Span(p_type, v, p + num) /\ (a + b) + c = Span(p_type, v, p_size[v] + num)
    BY SpanParts, Zenon
  <2> QED  BY <2>1
<1>4. PICK f, r : f = Piece(v, 0, p) /\ r = Piece(v, p, p_size[v]) /\ f = Pod!First(v, p) /\ r = Pod!Rest(v, p)
  BY FirstIs
<1>5. f \in Seq(Bytes) /\ Len(f) = a /\ r \in Seq(Bytes) /\ Len(r) = c
  <2>1. 0 <= p /\ p - 0 = p /\ p_size[v] <= p_size[v]
    BY <1>1
  <2>2. /\ Piece(v, 0, p) \in Seq(Bytes) /\ Len(Piece(v, 0, p)) = Span(p_type, v, p - 0)
        /\ Piece(v, p, p_size[v]) \in Seq(Bytes) /\ Len(Piece(v, p, p_size[v])) = Span(p_type, v, p_size[v] - p)
    BY <1>1, <2>1, PieceIs
  <2> QED  BY <1>3, <1>4, <2>1, <2>2
<1>6. Len(y) = b /\ Len(y) \in Nat /\ Len(x) = b
  BY <1>3
<1>7. /\ Sound(p_type, v, e) /\ Mine(v, e) /\ Roomy(v, e, n)
      /\ e.shift = u.shift /\ e.shift \in Nat /\ Len(e.bytes) = Len(u.bytes) /\ Len(e.bytes) \in Nat
      /\ HasBytesAt(e, a, y)
      /\ \A k \in Nat, ys \in Seq(Bytes) :
            HasBytesAt(u, k, ys) /\ (k + Len(ys) <= a \/ a + Len(y) <= k) => HasBytesAt(e, k, ys)
  <2>1. /\ Sound(p_type, v, e) /\ (Mine(v, u) => Mine(v, e)) /\ (Roomy(v, u, n) => Roomy(v, e, n))
        /\ e.shift = u.shift /\ e.shift \in Nat /\ Len(e.bytes) = Len(u.bytes) /\ Len(e.bytes) \in Nat
        /\ HasBytesAt(e, Span(p_type, v, p), y)
        /\ \A k \in Nat, ys \in Seq(Bytes) :
              HasBytesAt(u, k, ys) /\ (k + Len(ys) <= Span(p_type, v, p) \/ Span(p_type, v, p) + Len(y) <= k)
              => HasBytesAt(e, k, ys)
    BY <1>2, <1>6, WritesHas
  <2>2. a = Span(p_type, v, p)
    BY <1>3
  <2> QED  BY <1>2, <2>1, <2>2
<1>8. HasBytesAt(e, 0, f)
  <2>1. 0 + Len(f) <= a
    BY <1>3, <1>5
  <2> QED  BY <1>2, <1>4, <1>5, <1>7, <2>1
<1>9. HasBytesAt(e, a + b, r)
  <2>1. a + Len(y) <= a + b /\ a + b \in Nat /\ HasBytesAt(u, a + b, r)
    <3>1. a + Len(y) <= a + b /\ a + b \in Nat
      BY <1>6
    <3>2. HasBytesAt(u, a + b, r)
      BY <1>2, <1>3, <1>4
    <3> QED  BY <3>1, <3>2
  <2> QED  BY <1>5, <1>7, <2>1
<1>10. f \o x \in Seq(Bytes) /\ Len(f \o x) = a + b
  BY <1>5, <1>6, Joined
<1>11. (f \o x) \o r \in Seq(Bytes) /\ Len((f \o x) \o r) = (a + b) + c
  BY <1>5, <1>10, Joined
<1>12. ASSUME e.shift + Span(p_type, v, n) <= Len(e.bytes)
       PROVE  HasBytesAt(e, 0, (f \o x) \o r)
  <2>1. Starts(y, x)
    BY <1>7, <1>12 DEF StartsIn
  <2>2. HasBytesAt(e, a, x)
    BY <1>7, <2>1 DEF HasBytesAt, Starts
  <2>3. a = 0 + Len(f)
    BY <1>3, <1>5
  <2>4. HasBytesAt(e, 0, f \o x)
    BY <1>3, <1>5, <1>7, <1>8, <2>2, <2>3, HasJoined
  <2>5. PICK g : g = f \o x
    OBVIOUS
  <2>6. PICK k \in Nat : k = a + b /\ k = 0 + Len(g)
    BY <1>3, <1>10, <2>5
  <2>7. g \in Seq(Bytes) /\ HasBytesAt(e, 0, g) /\ HasBytesAt(e, k, r)
    BY <1>9, <1>10, <2>4, <2>5, <2>6
  <2>8. HasBytesAt(e, 0, g \o r)
    BY <1>5, <1>7, <2>6, <2>7, HasJoined
  <2> QED  BY <2>5, <2>8
<1>13. zs = (f \o x) \o r
  BY <1>4 DEF Between
<1> QED  BY <1>3, <1>7, <1>11, <1>12, <1>13

LEMMA InsertKeeps ==
    ASSUME PodIndInv, NEW v \in Pods, NEW p \in Nat, p <= p_size[v], NEW num \in Nat,
           NEW xs \in [1..Pod!e2b(v, num) -> Bytes], Pod!insert(v, p, xs)
    PROVE  PodIndInv'
<1>1. Span(p_type, v, num) \in Nat /\ p_type.sizeof[v] \in Nat \ {0}
  BY Sums, PodFacts
<1>2. xs \in Seq(Bytes) /\ Len(xs) = Span(p_type, v, num)
  <2>1. PICK k \in Nat : k = Span(p_type, v, num)
    BY <1>1
  <2>2. xs \in [1..k -> Bytes]
    BY <2>1, InBytes
  <2> QED  BY <2>1, <2>2
<1>3. Len(xs) \div p_type.sizeof[v] = num
  <2>1. Len(xs) = num * p_type.sizeof[v]
    BY <1>2 DEF Span
  <2> QED  BY <1>1, <2>1, DividedExactly
<1>4. PICK n, zs : n = p_size[v] + num /\ zs = Between(v, p, xs)
  OBVIOUS
<1>5. PICK u \in Pod!grow_at(v, p, num) : Pod!Run(v, "insert", TRUE, Pod!Writes(v, u, p, xs), n, zs)
  BY <1>3, <1>4 DEF Pod!insert, Between
<1>6. PICK e : e = Pod!Writes(v, u, p, xs)
  OBVIOUS
<1>7. StartsIn(v, u, n, xs, xs)
  BY DEF Starts, StartsIn
<1>8. /\ Sound(p_type, v, e) /\ Mine(v, e) /\ Roomy(v, e, n) /\ zs \in Seq(Bytes) /\ Len(zs) = Span(p_type, v, n)
      /\ e.shift + Span(p_type, v, n) <= Len(e.bytes) => HasBytesAt(e, 0, zs)
  BY <1>2, <1>4, <1>5, <1>6, <1>7, PodInserted
<1>9. Pod!Run(v, "insert", TRUE, e, n, zs)
  BY <1>5, <1>6
<1> QED  BY <1>8, <1>9, PodRunHas

\* Where element i is when there is a gap at p, if it has not moved past it.
LEMMA OwnInGap ==
    ASSUME PodIndInv, NEW v \in Pods, NEW p \in Nat, p <= p_size[v], NEW num \in Nat, NEW u \in Pod!grow_at(v, p, num),
           NEW i \in Nat, i < p_size[v], i < p + num
    PROVE  HasBytesAt(u, Span(p_type, v, i), Piece(v, i, i + 1))
<1>1. p_size[v] \in Nat
  BY PodFacts
<1>2. i + 1 \in Nat /\ i + 1 <= p_size[v] /\ i + 1 <= p + num /\ 0 <= i /\ i <= i + 1 /\ i + 1 <= i + 1 /\ i - 0 = i
  BY <1>1
<1>3. Sound(p_type, v, u) /\ HasBytesAt(u, 0, Piece(v, 0, i + 1))
  <2>1. /\ Sound(p_type, v, u)
        /\ \A r \in Nat : r <= p_size[v] /\ r <= p + num => HasBytesAt(u, 0, Piece(v, 0, r))
    BY GrownAt
  <2> QED  BY <1>2, <2>1
<1>4. u.shift \in Nat
  BY <1>3 DEF Sound
<1>5. Span(p_type, v, i) \in Nat /\ Span(p_type, v, i) = 0 + Span(p_type, v, i - 0)
  <2>1. Span(p_type, v, i) \in Nat
    BY Sums
  <2> QED  BY <1>2, <2>1
<1> QED  BY <1>2, <1>3, <1>4, <1>5, PieceOf

LEMMA InsertOwnKeeps ==
    ASSUME PodIndInv, NEW v \in Pods, NEW p \in Nat, p <= p_size[v], NEW num \in Nat, NEW i \in Nat, i < p_size[v],
           Pod!insert_own(v, p, num, i)
    PROVE  PodIndInv'
<1>1. PICK x : x = Pod!Own(v, i) /\ x = Piece(v, i, i + 1) /\ x \in Seq(Bytes) /\ Len(x) = p_type.sizeof[v]
  BY OneOf
<1>2. PICK n, xs : n = p_size[v] + num /\ xs = Pod!Fill(x, num)
  OBVIOUS
<1>3. PICK zs : zs = Between(v, p, xs)
  OBVIOUS
<1>4. PICK u \in Pod!grow_at(v, p, num) :
          Pod!Run(v, "insert_own", u.block = p_begin[v] /\ i < p + num,
                  Pod!Writes(v, u, p, Pod!Fill(Pod!Element(v, u, i), num)), n, zs)
  BY <1>1, <1>2, <1>3 DEF Pod!insert_own, Between
<1>5. PICK y : y = Pod!Element(v, u, i) /\ Len(y) = p_type.sizeof[v]
  BY ElementLength
<1>6. PICK ys : ys = Pod!Fill(y, num)
  OBVIOUS
<1>7. Refilled(x, y, num, p_type.sizeof[v])
  BY <1>1, <1>5, PodFacts, FillingBoth
<1>8. /\ xs \in Seq(Bytes) /\ Len(xs) = Span(p_type, v, num) /\ Len(ys) = Len(xs) /\ Len(ys) \in Nat
      /\ Starts(y, x) => Starts(ys, xs)
  BY <1>2, <1>6, <1>7 DEF Refilled, Span
<1>9. PICK e : e = Pod!Writes(v, u, p, ys)
  OBVIOUS
<1>10. Sound(p_type, v, u) /\ Mine(v, u) /\ Roomy(v, u, n)
  BY <1>2, GrownAt
<1>11. Sound(p_type, v, e) /\ Mine(v, e) /\ Roomy(v, e, n)
  BY <1>8, <1>9, <1>10, WritesHas
<1>12. PICK ok \in BOOLEAN : ok = (u.block = p_begin[v] /\ i < p + num)
  OBVIOUS
<1>13. Pod!Run(v, "insert_own", ok, e, n, zs)
  BY <1>4, <1>5, <1>6, <1>9, <1>12
<1>14. CASE ok
  <2>1. HasBytesAt(u, Span(p_type, v, i), x)
    BY <1>1, <1>12, <1>14, OwnInGap
  <2>2. n \in Nat /\ i < n /\ u.shift \in Nat /\ Len(u.bytes) \in Nat
    <3>1. n \in Nat /\ i < n
      BY <1>2, PodFacts
    <3> QED  BY <1>10, <3>1 DEF Sound, Listed
  <2>3. u.shift + Span(p_type, v, n) <= Len(u.bytes) => Starts(y, x)
    BY <1>1, <1>5, <2>1, <2>2, ElementIs
  <2>4. StartsIn(v, u, n, ys, xs)
    BY <1>8, <2>3 DEF StartsIn
  <2>5. /\ Sound(p_type, v, e) /\ Mine(v, e) /\ Roomy(v, e, n) /\ zs \in Seq(Bytes) /\ Len(zs) = Span(p_type, v, n)
        /\ e.shift + Span(p_type, v, n) <= Len(e.bytes) => HasBytesAt(e, 0, zs)
    BY <1>2, <1>3, <1>8, <1>9, <2>4, PodInserted
  <2> QED  BY <1>13, <1>14, <2>5, PodRunHas
<1>15. CASE ~ok
  BY <1>11, <1>13, <1>15, PodRun
<1> QED  BY <1>14, <1>15

LEMMA ShrinkAtKeeps ==
    ASSUME PodIndInv, NEW v \in Pods, NEW p \in Nat, NEW num \in Nat, p + num <= p_size[v], Pod!shrink_at(v, p, num)
    PROVE  PodIndInv'
<1>1. PICK s \in Nat, n \in Nat, q \in Nat, k \in Nat :
          /\ s = p_size[v] /\ n = s - num /\ q = p + num /\ k = n - p /\ k = s - q
          /\ p <= n /\ n <= s /\ p <= q /\ q <= s /\ p <= s
  <2>1. PICK s \in Nat : s = p_size[v]
    BY PodFacts
  <2>2. /\ s - num \in Nat /\ p + num \in Nat /\ (s - num) - p \in Nat /\ (s - num) - p = s - (p + num)
        /\ p <= s - num /\ s - num <= s /\ p <= p + num /\ p + num <= s /\ p <= s
    BY <2>1
  <2> QED  BY <2>1, <2>2
<1>2. PICK a \in Nat, b \in Nat, c \in Nat :
          /\ a = Span(p_type, v, p) /\ b = Span(p_type, v, q) /\ c = Span(p_type, v, k)
          /\ a + c = Span(p_type, v, n) /\ b + c = Span(p_type, v, s)
  <2>1. Span(p_type, v, p) \in Nat /\ Span(p_type, v, q) \in Nat /\ Span(p_type, v, k) \in Nat
        /\ Span(p_type, v, p + k) = Span(p_type, v, p) + Span(p_type, v, k)
        /\ Span(p_type, v, q + k) = Span(p_type, v, q) + Span(p_type, v, k)
    BY Sums
  <2>2. p + k = n /\ q + k = s
    BY <1>1
  <2> QED  BY <2>1, <2>2
<1>3. PICK f, r : f = Piece(v, 0, p) /\ r = Piece(v, q, s) /\ f = Pod!First(v, p) /\ r = Pod!Rest(v, q)
  BY <1>1, FirstIs
<1>4. f \in Seq(Bytes) /\ Len(f) = a /\ r \in Seq(Bytes) /\ Len(r) = c
  <2>1. 0 <= p /\ p - 0 = p /\ s <= s
    BY <1>1
  <2>2. /\ Piece(v, 0, p) \in Seq(Bytes) /\ Len(Piece(v, 0, p)) = Span(p_type, v, p - 0)
    BY <1>1, <2>1, PieceIs
  <2>3. /\ Piece(v, q, s) \in Seq(Bytes) /\ Len(Piece(v, q, s)) = Span(p_type, v, s - q)
    BY <1>1, <2>1, PieceIs
  <2> QED  BY <1>1, <1>2, <1>3, <2>1, <2>2, <2>3
<1>5. PICK zs : zs = f \o r
  OBVIOUS
<1>6. zs \in Seq(Bytes) /\ Len(zs) = Span(p_type, v, n)
  BY <1>2, <1>4, <1>5, Joined
<1>7. PICK u : u = Pod!Buffer(v)
  OBVIOUS
<1>8. Keeps(v, u) /\ Roomy(v, u, n) /\ Sound(p_type, v, u) /\ Mine(v, u) /\ u.shift = p_shift[v]
  <2>1. n <= p_capacity[v]
    <3>1. p_size[v] <= p_capacity[v] /\ p_capacity[v] \in Nat
      BY PodFacts
    <3> QED  BY <1>1, <3>1
  <2> QED  BY <1>7, <2>1, OwnBuffer, BufferOf
<1>9. u.shift \in Nat /\ Len(u.bytes) \in Nat
  BY <1>8 DEF Sound, Listed
<1>10. CASE n = 0
  <2>1. Pod!Run(v, "shrink_at", TRUE, u, n, zs)
    BY <1>1, <1>3, <1>5, <1>7, <1>10 DEF Pod!shrink_at
  <2>2. zs = <<>>
    <3>1. Len(zs) = 0
      BY <1>6, <1>10, Sums
    <3> QED  BY <1>6, <3>1, Emptied
  <2> QED  BY <1>6, <1>8, <2>1, <2>2, HasNothing, PodRunHas
<1>11. CASE n # 0
  <2>1. PICK e : e = [u EXCEPT !.bytes = Pod!memmove(@, u.shift + a, u.shift + b, c)]
    OBVIOUS
  <2>2. Pod!Run(v, "shrink_at", TRUE, e, n, zs)
    <3>1. Pod!Place(v, u, p) = u.shift + a /\ Pod!Place(v, u, p + num) = u.shift + b /\ Pod!e2b(v, n - p) = c
      BY <1>1, <1>2, FitsSpan, InBytes
    <3> QED  BY <1>1, <1>3, <1>5, <1>7, <1>11, <2>1, <3>1 DEF Pod!shrink_at
  <2>3. Shifted(u, e, a, b, c)
    BY <1>8, <2>1, MemmoveShifts
  <2>4. Sound(p_type, v, e) /\ Mine(v, e) /\ Roomy(v, e, n) /\ e.shift = u.shift /\ Len(e.bytes) = Len(u.bytes)
    BY <1>8, <2>3, LikeIsSound DEF Shifted
  <2>5. HasBytesAt(u, 0, f)
    <3>1. Span(p_type, v, 0) = 0 /\ 0 <= p
      BY Sums
    <3>2. HasBytesAt(u, Span(p_type, v, 0), Piece(v, 0, p))
      BY <1>1, <1>8, <3>1, KeepsPiece
    <3> QED  BY <1>3, <3>1, <3>2
  <2>6. HasBytesAt(e, 0, f)
    <3>1. 0 + Len(f) <= a
      BY <1>4
    <3> QED  BY <1>4, <1>9, <2>3, <2>5, <3>1, ShiftedHas
  <2>7. HasBytesAt(u, b, r)
    <3>1. q <= s /\ s <= p_size[v]
      BY <1>1
    <3>2. HasBytesAt(u, Span(p_type, v, q), Piece(v, q, s))
      BY <1>8, <3>1, KeepsPiece
    <3> QED  BY <1>2, <1>3, <3>2
  <2>8. u.shift + b + c <= Len(u.bytes)
    <3>1. u.shift + (b + c) <= Len(u.bytes)
      BY <1>1, <1>2, <1>7, <1>8, PodFacts
    <3> QED  BY <1>9, <3>1
  <2>9. HasBytesAt(e, a, r)
    BY <1>4, <1>9, <2>3, <2>7, <2>8, ShiftedHas
  <2>10. a = 0 + Len(f) /\ e.shift \in Nat /\ Len(e.bytes) \in Nat
    BY <1>4, <1>9, <2>4
  <2>11. HasBytesAt(e, 0, zs)
    BY <1>4, <1>5, <2>6, <2>9, <2>10, HasJoined
  <2> QED  BY <1>6, <2>2, <2>4, <2>11, PodRunHas
<1> QED  BY <1>10, <1>11

-----------------------------------------------------------------------------
(* pod_vector: the functions that take a block from another vector.        *)

LEMMA NoBlock ==
    ASSUME PodIndInv, NEW v \in Pods, NEW u, u = [block |-> Null, shift |-> 0, capacity |-> 0, bytes |-> <<>>]
    PROVE  Sound(p_type, v, u) /\ Filled(p_type, v, u, 0, <<>>)
<1>1. Span(p_type, v, 0) = 0
  BY Sums
<1>2. Len(<<>>) = 0 /\ Listed(<<>>) /\ <<>> \in Seq(Bytes)
  BY DEF Listed
<1>3. Sound(p_type, v, u)
  BY <1>1, <1>2 DEF Sound
<1>4. HasBytes(u, <<>>)
  BY DEF HasBytes
<1> QED  BY <1>1, <1>2, <1>3, <1>4 DEF Filled

\* The buffer of w, as one of v.
LEMMA Taken ==
    ASSUME PodIndInv, NEW v \in Pods, NEW w \in Pods,
           NEW n, n = Pod!byte_size(w) \div p_type.sizeof[v],
           NEW c, c = Pod!e2b(w, p_capacity[w]) \div p_type.sizeof[v],
           NEW ys, ys = SubSeq(p_contents[w], 1, Pod!e2b(v, n)),
           NEW u, u = [Pod!Buffer(w) EXCEPT !.capacity = c]
    PROVE  Sound(p_type, v, u) /\ Filled(p_type, v, u, n, ys)
<1> DEFINE b == Pod!Buffer(w)
<1>1. Sound(p_type, w, b) /\ Filled(p_type, w, b, p_size[w], p_contents[w]) /\ b.capacity = p_capacity[w]
  BY BufferOf
<1>2. /\ u = [block |-> b.block, shift |-> b.shift, capacity |-> c, bytes |-> b.bytes]
      /\ b.shift \in Nat /\ Len(b.bytes) \in Nat
  BY <1>1 DEF Sound, Listed
<1>3. PICK s \in Nat \ {0}, a \in Nat, k \in Nat :
          s = p_type.sizeof[v] /\ a = Span(p_type, w, p_size[w]) /\ k = Span(p_type, w, p_capacity[w]) /\ a <= k
  <2>1. p_type.sizeof[v] \in Nat \ {0} /\ p_size[w] \in Nat /\ p_capacity[w] \in Nat /\ p_size[w] <= p_capacity[w]
    BY PodFacts
  <2>2. /\ Span(p_type, w, p_size[w]) \in Nat /\ Span(p_type, w, p_capacity[w]) \in Nat
        /\ Span(p_type, w, p_size[w]) <= Span(p_type, w, p_capacity[w])
    BY <2>1, Sums
  <2> QED  BY <2>1, <2>2
<1>4. n = a \div s /\ c = k \div s
  BY <1>3, InBytes DEF Pod!byte_size
<1>5. n \in Nat /\ c \in Nat /\ n <= c
  BY <1>3, <1>4, Divided, DividedLess
<1>6. PICK l \in Nat, m \in Nat : l = Span(p_type, v, n) /\ m = Span(p_type, v, c) /\ l <= a /\ m <= k
  <2>1. n * s \in Nat /\ c * s \in Nat /\ n * s <= a /\ c * s <= k
    BY <1>3, <1>4, <1>5, Divided, Scaled
  <2>2. Span(p_type, v, n) = n * s /\ Span(p_type, v, c) = c * s
    BY <1>3 DEF Span
  <2> QED  BY <2>1, <2>2
<1>7. ys \in Seq(Bytes) /\ Len(ys) = l /\ \A i \in 1..l : ys[i] = p_contents[w][i]
  <2>1. p_contents[w] \in Seq(Bytes) /\ Len(p_contents[w]) = a /\ ys = SubSeq(p_contents[w], 1, l)
    BY <1>3, <1>6, InBytes, PodFacts
  <2>2. PICK d \in Seq(Bytes) : d = p_contents[w]
    BY <2>1
  <2>3. l <= Len(d) /\ ys = SubSeq(d, 1, l) /\ l \in Nat
    BY <1>6, <2>1, <2>2
  <2>4. IsPrefixOf(ys, d, l)
    BY <2>2, <2>3, PrefixOf
  <2> QED  BY <2>2, <2>4 DEF IsPrefixOf
<1>8. b.shift + l <= Len(b.bytes)
  <2>1. b.shift + a <= Len(b.bytes)
    BY <1>1, <1>3 DEF Filled
  <2> QED  BY <1>2, <1>3, <1>6, <2>1
<1>9. b.shift + m > Len(b.bytes) => p_type.has_expand /\ \E x \in Pods : b.shift > p_type.sizeof[x]
  <2>1. b.shift + k > Len(b.bytes) => p_type.has_expand /\ \E x \in Pods : b.shift > p_type.sizeof[x]
    BY <1>1, <1>3 DEF Sound
  <2>2. b.shift + m > Len(b.bytes) => b.shift + k > Len(b.bytes)
    <3>1. PICK z \in Nat, y \in Nat : z = b.shift /\ y = Len(b.bytes)
      BY <1>2
    <3>2. z + m > y => z + k > y
      BY <1>3, <1>6, <3>1
    <3> QED  BY <3>1, <3>2
  <2> QED  BY <2>1, <2>2
<1>10. b.block = Null => c = 0
  <2>1. SUFFICES ASSUME b.block = Null PROVE c = 0
    OBVIOUS
  <2>2. p_capacity[w] = 0
    BY <1>1, <2>1 DEF Sound
  <2>3. k = 0
    BY <1>3, <2>2, Sums
  <2>4. c * s <= 0 /\ c * s \in Nat /\ c * s = Span(p_type, v, c)
    BY <1>3, <1>5, <1>6, <2>3, Scaled DEF Span
  <2>5. CASE c # 0
    <3>1. Span(p_type, v, c) \in Nat \ {0}
      BY <1>5, <2>5, PodFacts, SpanPositive
    <3> QED  BY <2>4, <3>1
  <2> QED  BY <2>5
<1>11. /\ u.block = b.block /\ u.shift = b.shift /\ u.capacity = c /\ u.bytes = b.bytes
       /\ u = [block |-> u.block, shift |-> u.shift, capacity |-> u.capacity, bytes |-> u.bytes]
  BY <1>2
<1>12. Sound(p_type, v, u)
  BY <1>1, <1>5, <1>6, <1>9, <1>10, <1>11 DEF Sound
<1>13. HasBytes(u, ys)
  <2>1. ASSUME NEW i \in 1..Len(ys), u.shift + i <= Len(u.bytes)
        PROVE  u.bytes[u.shift + i] = ys[i]
    <3>1. i \in 1..l /\ i \in 1..Len(p_contents[w])
      <4>1. Len(p_contents[w]) = a
        BY <1>3, PodFacts
      <4>2. i \in 1..l
        BY <1>7
      <4>3. i \in 1..a
        BY <1>3, <1>6, <4>2
      <4> QED  BY <4>1, <4>2, <4>3
    <3>2. b.bytes[b.shift + i] = p_contents[w][i]
      BY <1>1, <1>11, <2>1, <3>1 DEF Filled, HasBytes
    <3> QED  BY <1>7, <1>11, <3>1, <3>2
  <2> QED  BY <2>1 DEF HasBytes
<1> QED  BY <1>5, <1>6, <1>7, <1>8, <1>11, <1>12, <1>13 DEF Filled

LEMMA PodMoveKeeps ==
    ASSUME PodIndInv, NEW v \in Pods, NEW w \in Pods, Pod!move(v, w)
    PROVE  PodIndInv'
<1>1. PICK n, c, ys : /\ n = Pod!byte_size(w) \div p_type.sizeof[v]
                      /\ c = Pod!e2b(w, p_capacity[w]) \div p_type.sizeof[v]
                      /\ ys = SubSeq(p_contents[w], 1, Pod!e2b(v, n))
  OBVIOUS
<1>2. /\ v # w
      /\ p_begin' = [p_begin EXCEPT ![v] = p_begin[w], ![w] = Null]
      /\ p_shift' = [p_shift EXCEPT ![v] = p_shift[w], ![w] = 0]
      /\ p_size' = [p_size EXCEPT ![v] = n, ![w] = 0]
      /\ p_capacity' = [p_capacity EXCEPT ![v] = c, ![w] = 0]
      /\ p_data' = [b \in Blocks |-> IF b = p_begin[v] THEN <<>> ELSE p_data[b]]
      /\ p_contents' = [p_contents EXCEPT ![v] = ys, ![w] = <<>>]
      /\ p_type' = p_type /\ p_fault' = p_fault
  BY <1>1 DEF Pod!move
<1>3. PodShape'
  BY <1>2 DEF PodIndInv, PodShape
<1>4. /\ p_begin'[v] = p_begin[w] /\ p_shift'[v] = p_shift[w] /\ p_size'[v] = n /\ p_capacity'[v] = c
      /\ p_contents'[v] = ys
      /\ p_begin'[w] = Null /\ p_shift'[w] = 0 /\ p_size'[w] = 0 /\ p_capacity'[w] = 0 /\ p_contents'[w] = <<>>
      /\ \A x \in Pods \ {v, w} :
            /\ p_begin'[x] = p_begin[x] /\ p_shift'[x] = p_shift[x] /\ p_size'[x] = p_size[x]
            /\ p_capacity'[x] = p_capacity[x] /\ p_contents'[x] = p_contents[x]
  BY <1>2 DEF PodIndInv, PodShape
<1>5. ASSUME NEW x \in Pods \ {v}, p_begin[x] # Null
      PROVE  p_begin[x] \in Blocks /\ p_begin[x] # p_begin[v] /\ p_data'[p_begin[x]] = p_data[p_begin[x]]
  <2>1. p_begin[x] \in Blocks
    BY <1>5, BufferOf
  <2>2. p_begin[x] # p_begin[v]
    BY <1>5 DEF PodIndInv, PodApart
  <2> QED  BY <1>2, <2>1, <2>2
<1>6. ASSUME NEW x \in Pods \ {v, w}
      PROVE  /\ Sound(p_type, x, Pod!Buffer(x)') /\ Filled(p_type, x, Pod!Buffer(x)', p_size'[x], p_contents'[x])
  <2>1. Pod!Buffer(x)' = Pod!Buffer(x)
    BY <1>4, <1>5 DEF Pod!Buffer
  <2>2. Sound(p_type, x, Pod!Buffer(x)) /\ Filled(p_type, x, Pod!Buffer(x), p_size[x], p_contents[x])
    BY BufferOf
  <2> QED  BY <1>4, <2>1, <2>2
<1>7. Sound(p_type, w, Pod!Buffer(w)') /\ Filled(p_type, w, Pod!Buffer(w)', p_size'[w], p_contents'[w])
  <2>1. Pod!Buffer(w)' = [block |-> Null, shift |-> 0, capacity |-> 0, bytes |-> <<>>]
    BY <1>4 DEF Pod!Buffer
  <2> QED  BY <1>4, <2>1, NoBlock
<1>8. Sound(p_type, v, Pod!Buffer(v)') /\ Filled(p_type, v, Pod!Buffer(v)', p_size'[v], p_contents'[v])
  <2>1. Pod!Buffer(v)' = [Pod!Buffer(w) EXCEPT !.capacity = c]
    <3>1. PICK d : d = IF p_begin[w] = Null THEN <<>> ELSE p_data[p_begin[w]]
      OBVIOUS
    <3>2. Pod!Buffer(w) = [block |-> p_begin[w], shift |-> p_shift[w], capacity |-> p_capacity[w], bytes |-> d]
      BY <3>1 DEF Pod!Buffer
    <3>3. (IF p_begin'[v] = Null THEN <<>> ELSE p_data'[p_begin'[v]]) = d
      BY <1>2, <1>4, <1>5, <3>1
    <3>4. Pod!Buffer(v)' = [block |-> p_begin[w], shift |-> p_shift[w], capacity |-> c, bytes |-> d]
      BY <1>4, <3>3 DEF Pod!Buffer
    <3> QED  BY <3>2, <3>4
  <2> QED  BY <1>1, <1>4, <2>1, Taken
<1>9. PodFilled'
  <2>1. \A x \in Pods : /\ Sound(p_type', x, Pod!Buffer(x)')
                        /\ Filled(p_type', x, Pod!Buffer(x)', p_size'[x], p_contents'[x])
    BY <1>2, <1>6, <1>7, <1>8
  <2> QED  BY <2>1 DEF PodFilled
<1>10. PodApart'
  <2>1. \A x, y \in Pods : p_begin[x] = p_begin[y] /\ x # y => p_begin[x] = Null
    BY DEF PodIndInv, PodApart
  <2> QED  BY <1>4, <2>1 DEF PodApart
<1>11. PodOwned'
  <2>1. ASSUME NEW b \in Blocks, p_data'[b] # <<>>
        PROVE  \E x \in Pods : p_begin'[x] = b
    <3>1. b # p_begin[v] /\ p_data[b] # <<>>
      BY <1>2, <2>1
    <3>2. PICK x \in Pods : p_begin[x] = b
      BY <3>1 DEF PodIndInv, PodOwned
    <3> QED  BY <1>4, <3>1, <3>2
  <2> QED  BY <2>1 DEF PodOwned
<1>12. Pod!NoOverrun'
  BY <1>2 DEF PodIndInv, Pod!NoOverrun
<1> QED  BY <1>3, <1>9, <1>10, <1>11, <1>12 DEF PodIndInv

\* Vectors of types of one size can have each other's buffers.
LEMMA SameSize ==
    ASSUME NEW v \in Pods, NEW w \in Pods, p_type.sizeof[v] = p_type.sizeof[w], NEW u, NEW n, NEW xs,
           Sound(p_type, w, u), Filled(p_type, w, u, n, xs)
    PROVE  Sound(p_type, v, u) /\ Filled(p_type, v, u, n, xs)
<1>1. \A k : Span(p_type, v, k) = Span(p_type, w, k)
  BY DEF Span
<1>2. Sound(p_type, v, u)
  BY <1>1 DEF Sound
<1>3. Filled(p_type, v, u, n, xs)
  BY <1>1 DEF Filled
<1> QED  BY <1>2, <1>3

LEMMA PodSwapKeeps ==
    ASSUME PodIndInv, NEW v \in Pods, NEW w \in Pods, Pod!swap(v, w)
    PROVE  PodIndInv'
<1>1. /\ p_type.sizeof[v] = p_type.sizeof[w]
      /\ p_begin' = [p_begin EXCEPT ![v] = p_begin[w], ![w] = p_begin[v]]
      /\ p_shift' = [p_shift EXCEPT ![v] = p_shift[w], ![w] = p_shift[v]]
      /\ p_size' = [p_size EXCEPT ![v] = p_size[w], ![w] = p_size[v]]
      /\ p_capacity' = [p_capacity EXCEPT ![v] = p_capacity[w], ![w] = p_capacity[v]]
      /\ p_contents' = [p_contents EXCEPT ![v] = p_contents[w], ![w] = p_contents[v]]
      /\ p_type' = p_type /\ p_data' = p_data /\ p_fault' = p_fault
  BY DEF Pod!swap
<1>2. PodShape'
  BY <1>1 DEF PodIndInv, PodShape
<1> DEFINE Other(x) == IF x = v THEN w ELSE IF x = w THEN v ELSE x
<1>3. ASSUME NEW x \in Pods
      PROVE  /\ Other(x) \in Pods /\ p_type.sizeof[x] = p_type.sizeof[Other(x)]
             /\ p_begin'[x] = p_begin[Other(x)] /\ p_shift'[x] = p_shift[Other(x)] /\ p_size'[x] = p_size[Other(x)]
             /\ p_capacity'[x] = p_capacity[Other(x)] /\ p_contents'[x] = p_contents[Other(x)]
  <2>1. \A f : f = [y \in Pods |-> f[y]] => [f EXCEPT ![v] = f[w], ![w] = f[v]][x] = f[Other(x)]
    OBVIOUS
  <2>2. Other(x) \in Pods /\ p_type.sizeof[x] = p_type.sizeof[Other(x)]
    BY <1>1
  <2> HIDE DEF Other
  <2> QED  BY <1>1, <2>1, <2>2 DEF PodIndInv, PodShape
<1>4. \A x, y \in Pods : x # y => Other(x) # Other(y)
  OBVIOUS
<1>5. \A x \in Pods : Other(Other(x)) = x
  OBVIOUS
<1> HIDE DEF Other
<1>6. PodFilled'
  <2>1. ASSUME NEW x \in Pods
        PROVE  Sound(p_type', x, Pod!Buffer(x)') /\ Filled(p_type', x, Pod!Buffer(x)', p_size'[x], p_contents'[x])
    <3>1. PICK y \in Pods : y = Other(x)
      BY <1>3
    <3>2. Pod!Buffer(x)' = Pod!Buffer(y)
      <4>1. p_begin'[x] = p_begin[y] /\ p_shift'[x] = p_shift[y] /\ p_capacity'[x] = p_capacity[y]
        BY <1>3, <3>1
      <4>2. (IF p_begin'[x] = Null THEN <<>> ELSE p_data'[p_begin'[x]])
            = IF p_begin[y] = Null THEN <<>> ELSE p_data[p_begin[y]]
        BY <1>1, <4>1
      <4> QED  BY <4>1, <4>2 DEF Pod!Buffer
    <3>3. Sound(p_type, y, Pod!Buffer(y)) /\ Filled(p_type, y, Pod!Buffer(y), p_size[y], p_contents[y])
      BY BufferOf
    <3>4. p_type.sizeof[x] = p_type.sizeof[y] /\ p_size'[x] = p_size[y] /\ p_contents'[x] = p_contents[y]
      BY <1>3, <3>1
    <3>5. Sound(p_type, x, Pod!Buffer(y)) /\ Filled(p_type, x, Pod!Buffer(y), p_size[y], p_contents[y])
      BY <3>3, <3>4, SameSize
    <3> QED  BY <1>1, <3>2, <3>4, <3>5
  <2> QED  BY <2>1 DEF PodFilled
<1>7. PodApart'
  <2>1. \A x, y \in Pods : p_begin[x] = p_begin[y] /\ x # y => p_begin[x] = Null
    BY DEF PodIndInv, PodApart
  <2>2. ASSUME NEW x \in Pods, NEW y \in Pods, p_begin'[x] = p_begin'[y], x # y
        PROVE  p_begin'[x] = Null
    <3>1. Other(x) \in Pods /\ Other(y) \in Pods /\ Other(x) # Other(y)
          /\ p_begin'[x] = p_begin[Other(x)] /\ p_begin'[y] = p_begin[Other(y)]
      BY <1>3, <1>4, <2>2
    <3> QED  BY <2>1, <2>2, <3>1
  <2> QED  BY <2>2 DEF PodApart
<1>8. PodOwned'
  <2>1. ASSUME NEW b \in Blocks, p_data'[b] # <<>>
        PROVE  \E x \in Pods : p_begin'[x] = b
    <3>1. PICK x \in Pods : p_begin[x] = b
      BY <1>1, <2>1 DEF PodIndInv, PodOwned
    <3>2. Other(x) \in Pods
      BY <1>3
    <3>3. p_begin'[Other(x)] = p_begin[Other(Other(x))]
      BY <1>3, <3>2
    <3> QED  BY <1>5, <3>1, <3>2, <3>3
  <2> QED  BY <2>1 DEF PodOwned
<1>9. Pod!NoOverrun'
  BY <1>1 DEF PodIndInv, Pod!NoOverrun
<1> QED  BY <1>2, <1>6, <1>7, <1>8, <1>9 DEF PodIndInv

-----------------------------------------------------------------------------
(* pod_vector: the invariant.                                              *)

LEMMA PodInitially == Pod!Init => PodIndInv
<1> SUFFICES ASSUME Pod!Init PROVE PodIndInv
  OBVIOUS
<1>1. /\ p_type \in PodTypes /\ p_begin = [v \in Pods |-> Null] /\ p_shift = [v \in Pods |-> 0]
      /\ p_size = [v \in Pods |-> 0] /\ p_capacity = [v \in Pods |-> 0]
      /\ p_data = [b \in Blocks |-> <<>>] /\ p_contents = [v \in Pods |-> <<>>] /\ p_fault = "none"
  BY DEF Pod!Init
<1>2. PodShape
  BY <1>1 DEF PodShape
<1>3. PodFilled
  <2>1. ASSUME NEW v \in Pods
        PROVE  /\ Sound(p_type, v, Pod!Buffer(v))
               /\ Filled(p_type, v, Pod!Buffer(v), p_size[v], p_contents[v])
    <3>1. Pod!Buffer(v) = [block |-> Null, shift |-> 0, capacity |-> 0, bytes |-> <<>>]
      BY <1>1 DEF Pod!Buffer
    <3>2. PICK u : u = [block |-> Null, shift |-> 0, capacity |-> 0, bytes |-> <<>>]
      OBVIOUS
    <3>3. Span(p_type, v, 0) = 0
      BY <1>1, SpanOne
    <3>4. Len(<<>>) = 0 /\ Listed(<<>>) /\ <<>> \in Seq(Bytes)
      BY DEF Listed
    <3>5. Sound(p_type, v, u)
      BY <3>2, <3>3, <3>4 DEF Sound
    <3>6. HasBytes(u, <<>>)
      BY DEF HasBytes
    <3>7. Filled(p_type, v, u, 0, <<>>)
      BY <3>2, <3>3, <3>4, <3>6 DEF Filled
    <3> QED  BY <1>1, <3>1, <3>2, <3>5, <3>7
  <2> QED  BY <2>1 DEF PodFilled
<1>4. PodApart /\ PodOwned /\ Pod!NoOverrun
  BY <1>1 DEF PodApart, PodOwned, Pod!NoOverrun
<1> QED  BY <1>2, <1>3, <1>4 DEF PodIndInv

LEMMA PodStep == PodIndInv /\ [Pod!Next]_(Pod!vars) => PodIndInv'
<1> SUFFICES ASSUME PodIndInv, [Pod!Next]_(Pod!vars) PROVE PodIndInv'
  OBVIOUS
<1>1. \A v \in Pods : p_size[v] \in Nat /\ MaxPods[v] \in Nat
  BY PodFacts, PodBytesAssumption
<1>2. ASSUME NEW v \in Pods, NEW n \in 0..MaxPods[v], NEW xs \in [1..Pod!e2b(v, n) -> Bytes], Pod!assign(v, xs)
      PROVE  PodIndInv'
  <2>1. n \in Nat
    BY <1>1
  <2> QED  BY <1>2, <2>1, AssignKeeps
<1>3. ASSUME NEW v \in Pods, NEW n \in 0..MaxPods[v], NEW xs \in [1..Pod!e2b(v, n) -> Bytes],
             NEW p \in 0..p_size[v], Pod!insert(v, p, xs)
      PROVE  PodIndInv'
  <2>1. n \in Nat /\ p \in Nat /\ p <= p_size[v]
    BY <1>1
  <2> QED  BY <1>3, <2>1, InsertKeeps
<1>4. ASSUME NEW v \in Pods, NEW w \in Pods, Pod!copy(v, w) \/ Pod!move(v, w) \/ Pod!swap(v, w)
      PROVE  PodIndInv'
  BY <1>4, CopyKeeps, PodMoveKeeps, PodSwapKeeps
<1>5. ASSUME NEW v \in Pods, Pod!shrink_to_fit(v) \/ Pod!clear(v)
      PROVE  PodIndInv'
  BY <1>5, ShrinkToFitKeeps, ClearKeeps
<1>6. ASSUME NEW v \in Pods, NEW n \in 0..MaxPods[v], Pod!reserve(v, n) \/ Pod!resize(v, n)
      PROVE  PodIndInv'
  <2>1. n \in Nat
    BY <1>1
  <2> QED  BY <1>6, <2>1, ReserveKeeps, ResizeKeeps
<1>7. ASSUME NEW v \in Pods, NEW n \in 0..MaxPods[v], NEW x \in Pod!Patterns(v), Pod!resize_fill(v, n, x)
      PROVE  PodIndInv'
  <2>1. n \in Nat
    BY <1>1
  <2> QED  BY <1>7, <2>1, ResizeFillKeeps
<1>8. ASSUME NEW v \in Pods, NEW x \in Pod!Patterns(v), Pod!push_back(v, x)
      PROVE  PodIndInv'
  BY <1>8, PushBackKeeps
<1>9. ASSUME NEW v \in Pods, NEW i \in 0..p_size[v] - 1, Pod!push_back_own(v, i)
      PROVE  PodIndInv'
  <2>1. i \in Nat /\ i < p_size[v]
    BY <1>1
  <2> QED  BY <1>9, <2>1, PushBackOwnKeeps
<1>10. ASSUME NEW v \in Pods, NEW i \in 0..p_size[v] - 1, NEW n \in 1..MaxPods[v], NEW p \in 0..p_size[v],
              Pod!insert_own(v, p, n, i)
       PROVE  PodIndInv'
  <2>1. i \in Nat /\ i < p_size[v] /\ n \in Nat /\ p \in Nat /\ p <= p_size[v]
    BY <1>1
  <2> QED  BY <1>10, <2>1, InsertOwnKeeps
<1>13. ASSUME NEW v \in Pods, NEW i \in 0..p_size[v] - 1, NEW n \in 1..MaxPods[v],
              Pod!assign_own(v, n, i) \/ Pod!resize_own(v, n, i)
       PROVE  PodIndInv'
  <2>1. i \in Nat /\ i < p_size[v] /\ n \in Nat
    BY <1>1
  <2> QED  BY <1>13, <2>1, AssignOwnKeeps, ResizeOwnKeeps
<1>11. ASSUME NEW v \in Pods, NEW p \in 0..p_size[v], NEW num \in 0..p_size[v] - p, Pod!shrink_at(v, p, num)
       PROVE  PodIndInv'
  <2>1. p \in Nat /\ num \in Nat /\ p + num <= p_size[v]
    BY <1>1
  <2> QED  BY <1>11, <2>1, ShrinkAtKeeps
<1>12. CASE UNCHANGED Pod!vars
  <2>1. UNCHANGED <<p_type, p_begin, p_shift, p_size, p_capacity, p_data, p_contents>> /\ p_fault' = p_fault
    BY <1>12 DEF Pod!vars, Pod!vector
  <2>2. Pod!NoOverrun'
    BY <2>1 DEF PodIndInv, Pod!NoOverrun
  <2> QED  BY <2>1, <2>2, PodFaults
<1> QED  BY <1>2, <1>3, <1>4, <1>5, <1>6, <1>7, <1>8, <1>9, <1>10, <1>11, <1>12, <1>13 DEF Pod!Next

\* Blocks have one owner, and each buffer its elements' bytes and room for them; it has room for its
\* capacity unless it was expanded as of a type that it begins too far for.
THEOREM PodInvariance == Pod!Spec => []PodIndInv
  BY PodInitially, PodStep, PTL DEF Pod!Spec

LEMMA PodOverruns == PodIndInv => Pod!NoOverrun
  BY DEF PodIndInv

LEMMA PodBacked == PodIndInv => Pod!BuffersBacked
<1> SUFFICES ASSUME PodIndInv PROVE Pod!BuffersBacked
  OBVIOUS
<1>1. \A v, w \in Pods : p_begin[v] = p_begin[w] /\ v # w => p_begin[v] = Null
  BY DEF PodIndInv, PodApart
<1>2. \A b \in Blocks : p_data[b] # <<>> => \E v \in Pods : p_begin[v] = b
  BY DEF PodIndInv, PodOwned
<1>3. ASSUME NEW v \in Pods
      PROVE  IF p_begin[v] = Null THEN p_capacity[v] = 0
             ELSE /\ Pod!Short(v, Pod!Buffer(v)) => p_type.has_expand /\ \E w \in Pods : p_shift[v] > Pod!alignof(w)
                  /\ p_shift[v] # 0 => p_data[p_begin[v]][p_shift[v]] = p_shift[v]
  <2> DEFINE u == Pod!Buffer(v)
  <2>1. /\ Sound(p_type, v, u) /\ u.block = p_begin[v] /\ u.shift = p_shift[v] /\ u.capacity = p_capacity[v]
        /\ p_begin[v] # Null => u.bytes = p_data[p_begin[v]]
    BY BufferOf
  <2>2. CASE p_begin[v] = Null
    BY <2>1, <2>2 DEF Sound
  <2>3. CASE p_begin[v] # Null
    <3>1. ASSUME Pod!Short(v, u)
          PROVE  p_type.has_expand /\ \E w \in Pods : p_shift[v] > Pod!alignof(w)
      <4>1. PICK l \in Nat, m \in Nat : l = Len(u.bytes) /\ m = u.shift + Span(p_type, v, u.capacity)
        <5>1. u.shift \in Nat /\ Len(u.bytes) \in Nat /\ u.capacity \in Nat
          BY <2>1 DEF Sound, Listed
        <5>2. Span(p_type, v, u.capacity) \in Nat
          BY <5>1, Sums
        <5> QED  BY <5>1, <5>2
      <4>2. ~(m <= l)
        BY <3>1, <4>1, FitsSpan DEF Pod!Short
      <4>3. m > l
        BY <4>1, <4>2
      <4>4. p_type.has_expand /\ \E w \in Pods : p_shift[v] > p_type.sizeof[w]
        BY <2>1, <4>1, <4>3 DEF Sound
      <4> QED  BY <4>4 DEF Pod!alignof
    <3>2. ASSUME p_shift[v] # 0
          PROVE  p_data[p_begin[v]][p_shift[v]] = p_shift[v]
      <4>1. p_shift[v] \in Nat /\ Len(u.bytes) \in Nat /\ p_shift[v] + Span(p_type, v, p_size[v]) <= Len(u.bytes)
            /\ p_size[v] \in Nat
        BY PodFacts
      <4>2. Span(p_type, v, p_size[v]) \in Nat
        BY <4>1, Sums
      <4>3. p_shift[v] \in 1..Len(u.bytes)
        <5> HIDE DEF u
        <5> QED  BY <3>2, <4>1, <4>2
      <4> QED  BY <2>1, <2>3, <4>3 DEF Sound
    <3> QED  BY <2>3, <3>1, <3>2
  <2> QED  BY <2>2, <2>3
<1> QED  BY <1>1, <1>2, <1>3 DEF Pod!BuffersBacked

LEMMA PodBytes == PodIndInv => Pod!LikeVectorOfBytes
<1> SUFFICES ASSUME PodIndInv PROVE Pod!LikeVectorOfBytes
  OBVIOUS
<1>1. ASSUME NEW v \in Pods
      PROVE  /\ Len(p_contents[v]) = Pod!byte_size(v)
             /\ p_size[v] <= p_capacity[v]
             /\ \A i \in DOMAIN p_contents[v] : p_contents[v][i] = p_data[p_begin[v]][p_shift[v] + i]
  <2> DEFINE u == Pod!Buffer(v)
             c == p_contents[v]
  <2>1. /\ Filled(p_type, v, u, p_size[v], c) /\ Sound(p_type, v, u) /\ u.block = p_begin[v] /\ u.shift = p_shift[v]
        /\ p_begin[v] # Null => u.bytes = p_data[p_begin[v]]
    BY BufferOf
  <2>2. /\ p_size[v] \in Nat /\ p_shift[v] \in Nat /\ p_size[v] <= p_capacity[v] /\ c \in Seq(Bytes)
        /\ Len(c) = Span(p_type, v, p_size[v]) /\ Len(u.bytes) \in Nat
        /\ p_shift[v] + Span(p_type, v, p_size[v]) <= Len(u.bytes)
    BY PodFacts
  <2>3. Len(c) = Pod!byte_size(v)
    BY <2>2, InBytes DEF Pod!byte_size
  <2>4. ASSUME NEW i \in 1..Len(c)
        PROVE  c[i] = p_data[p_begin[v]][p_shift[v] + i]
    <3>1. p_shift[v] + i <= Len(u.bytes) /\ Len(u.bytes) > 0
      <4> HIDE DEF u, c
      <4>1. PICK l \in Nat, m \in Nat, n \in Nat : l = Len(c) /\ m = p_shift[v] /\ n = Len(u.bytes) /\ m + l <= n
        <5>1. Span(p_type, v, p_size[v]) \in Nat
          BY <2>2, Sums
        <5> QED  BY <2>2, <5>1
      <4>2. i \in 1..l
        BY <4>1
      <4>3. m + i <= n /\ n > 0
        BY <4>1, <4>2
      <4> QED  BY <4>1, <4>3
    <3>2. u.bytes[u.shift + i] = c[i]
      BY <2>1, <2>4, <3>1 DEF Filled, HasBytes
    <3>3. p_begin[v] # Null
      BY <2>1, <3>1 DEF Sound
    <3> QED  BY <2>1, <3>2, <3>3
  <2>5. DOMAIN c = 1..Len(c)
    <3> HIDE DEF c
    <3> QED  BY <2>2
  <2> QED  BY <2>2, <2>3, <2>4, <2>5
<1> QED  BY <1>1 DEF Pod!LikeVectorOfBytes

\* A pod_vector overruns its buffer, or reads what is gone from it, in the functions
\* that NoOverrun names and in no others.
THEOREM NoOverrunOfPodVector == Pod!Spec => []Pod!NoOverrun
  BY PodInvariance, PodOverruns, PTL

\* Every block that pod_vectors have taken is the buffer of exactly one of them, and has room for its
\* capacity unless it was expanded as one of a type that its elements begin too far for.
THEOREM BuffersOfPodVector == Pod!Spec => []Pod!BuffersBacked
  BY PodInvariance, PodBacked, PTL

\* Until one of the calls that NoOverrun names goes wrong, a pod_vector has the bytes
\* that a std::vector would have after the same calls, also where it copies an element
\* of its own.
THEOREM PodVectorIsVector == Pod!Spec => []Pod!LikeVectorOfBytes
  BY PodInvariance, PodBytes, PTL
-----------------------------------------------------------------------------
(* flat_set: what is proved of flat_map holds of the maps whose elements   *)
(* have nothing but a key.                                                 *)

Flat == INSTANCE FlatMapProofs WITH
    Maps <- Objects, Values <- {"unit"}, Default <- "unit", MaxGiven <- Capacity, Nothing <- Null,
    m_container <- f_container, cmp <- f_cmp, answer <- f_answer

LEMMA FlatAssumptions ==
    /\ Flat!OrdersAssumption /\ Flat!CapacityAssumption /\ Flat!MaxGivenAssumption
    /\ Flat!DefaultAssumption /\ Flat!NothingAssumption
<1>1. Flat!Entry = Sets!Map!Entry
  BY DEF Flat!Entry, Sets!Map!Entry, Sets!Unit
<1>2. \A r : Flat!StrictWeakOrder(r) <=> Sets!Map!StrictWeakOrder(r)
  BY DEF Flat!StrictWeakOrder, Sets!Map!StrictWeakOrder
<1> QED
  BY <1>1, <1>2, SetsAssumption, CapacityAssumption
  DEF Flat!OrdersAssumption, Flat!CapacityAssumption, Flat!MaxGivenAssumption, Flat!DefaultAssumption, Flat!NothingAssumption

\* The two instances of FlatMap are the same.
LEMMA SameVectors ==
    ASSUME NEW m
    PROVE  /\ Sets!Map!size(m) = Flat!size(m) /\ Sets!Map!end(m) = Flat!end(m)
           /\ \A i : Sets!Map!At(m, i) = Flat!At(m, i) /\ Sets!Map!Deref(m, i) = Flat!Deref(m, i)
           /\ \A k, l : Sets!Map!Less(m, k, l) = Flat!Less(m, k, l)
  BY DEF Sets!Map!size, Flat!size, Sets!Map!end, Flat!end, Sets!Map!At, Flat!At, Sets!Map!Deref, Flat!Deref,
         Sets!Map!Less, Flat!Less

\* Operators of the library.
LEMMA SameLibrary ==
    /\ \A s : Sets!Map!Range(s) = Flat!Range(s)
    /\ \A s, i, e : Sets!Map!InsertAt(s, i, e) = Flat!InsertAt(s, i, e)
    /\ \A s, i : Sets!Map!RemoveAt(s, i) = Flat!RemoveAt(s, i)
    /\ \A S, T : Sets!Map!Bijection(S, T) = Flat!Bijection(S, T)
    /\ \A S : Sets!Map!Cardinality(S) = Flat!Cardinality(S)
<1>1. \A s : Sets!Map!Range(s) = Flat!Range(s)
  BY DEF Sets!Map!Range, Flat!Range
<1>2. \A s, i, e : Sets!Map!InsertAt(s, i, e) = Flat!InsertAt(s, i, e)
  BY DEF Sets!Map!InsertAt, Flat!InsertAt
<1>3. \A s, i : Sets!Map!RemoveAt(s, i) = Flat!RemoveAt(s, i)
  BY DEF Sets!Map!RemoveAt, Flat!RemoveAt
<1>4. \A S, T : Sets!Map!Bijection(S, T) = Flat!Bijection(S, T)
  BY DEF Sets!Map!Bijection, Flat!Bijection, Sets!Map!Injection, Flat!Injection,
         Sets!Map!Surjection, Flat!Surjection, Sets!Map!IsInjective, Flat!IsInjective
<1> QED  BY <1>1, <1>2, <1>3, <1>4 DEF Sets!Map!Cardinality, Flat!Cardinality

LEMMA SameAnswers ==
    /\ Sets!Map!NoAnswer = Flat!NoAnswer
    /\ \A k : Sets!Map!Plain(k) = Flat!Plain(k)
    /\ \A c, e, f, b : Sets!Map!Answer(c, e, f, b) <=> Flat!Answer(c, e, f, b)
    /\ \A c, e, f : Sets!Map!Keep(c, e, f) <=> Flat!Keep(c, e, f)
    /\ \A s : Sets!Map!Given(s) <=> Flat!Given(s)
    /\ \A m, s, r : Sets!Map!Become(m, s, r) <=> Flat!Become(m, s, r)
    /\ Sets!Map!Take <=> Flat!Take
<1>1. Sets!Map!NoAnswer = Flat!NoAnswer
  BY DEF Sets!Map!NoAnswer, Flat!NoAnswer
<1>2. \A c, e, f, b : Sets!Map!Answer(c, e, f, b) <=> Flat!Answer(c, e, f, b)
  BY <1>1 DEF Sets!Map!Answer, Flat!Answer
<1>3. \A c, e, f : Sets!Map!Keep(c, e, f) <=> Flat!Keep(c, e, f)
  BY <1>2 DEF Sets!Map!Keep, Flat!Keep
<1>4. \A s : Sets!Map!Given(s) <=> Flat!Given(s)
  BY <1>1, SameLibrary DEF Sets!Map!Given, Flat!Given
<1>5. \A m, s, r : Sets!Map!Become(m, s, r) <=> Flat!Become(m, s, r)
  BY DEF Sets!Map!Become, Flat!Become
<1>6. \A k : Sets!Map!Plain(k) = Flat!Plain(k)
  BY DEF Sets!Map!Plain, Flat!Plain, Sets!Unit
<1>7. Sets!Map!Take <=> Flat!Take
  BY <1>1 DEF Sets!Map!Take, Flat!Take
<1> QED  BY <1>1, <1>2, <1>3, <1>4, <1>5, <1>6, <1>7

LEMMA SamePlaces ==
    /\ \A m, i, e : Sets!Map!Place(m, i, e) <=> Flat!Place(m, i, e)
    /\ \A m, i : Sets!Map!RemoveElement(m, i) <=> Flat!RemoveElement(m, i)
<1>1. \A m, i, e : Sets!Map!Place(m, i, e) <=> Flat!Place(m, i, e)
  BY SameAnswers, SameVectors, SameLibrary DEF Sets!Map!Place, Flat!Place
<1>2. \A m, i : Sets!Map!RemoveElement(m, i) <=> Flat!RemoveElement(m, i)
  BY SameLibrary DEF Sets!Map!RemoveElement, Flat!RemoveElement
<1> QED  BY <1>1, <1>2

LEMMA SameSearches ==
    ASSUME NEW m, NEW k
    PROVE  /\ \A i : Sets!Map!lower_bound(m, k, i) <=> Flat!lower_bound(m, k, i)
           /\ \A i : Sets!Map!upper_bound(m, k, i) <=> Flat!upper_bound(m, k, i)
           /\ \A i : Sets!Map!FoundAt(m, k, i) <=> Flat!FoundAt(m, k, i)
           /\ \A i : Sets!Map!FitsAt(m, i, k) <=> Flat!FitsAt(m, i, k)
  BY SameVectors
  DEF Sets!Map!lower_bound, Flat!lower_bound, Sets!Map!upper_bound, Flat!upper_bound,
      Sets!Map!FoundAt, Flat!FoundAt, Sets!Map!FitsAt, Flat!FitsAt

LEMMA SameSorts ==
    /\ \A r, s : Sets!Map!Sorts(r, s) = Flat!Sorts(r, s)
    /\ \A r, s : Sets!Map!Kept(r, s) = Flat!Kept(r, s)
    /\ \A r, s : Sets!Map!Uniques(r, s) = Flat!Uniques(r, s)
<1>1. \A r, s : Sets!Map!Sorts(r, s) = Flat!Sorts(r, s)
  BY SameLibrary DEF Sets!Map!Sorts, Flat!Sorts
<1>2. \A r, s : Sets!Map!Kept(r, s) = Flat!Kept(r, s)
  BY DEF Sets!Map!Kept, Flat!Kept
<1>3. \A r, s : Sets!Map!Uniques(r, s) = Flat!Uniques(r, s)
  BY <1>2, SameLibrary DEF Sets!Map!Uniques, Flat!Uniques
<1> QED  BY <1>1, <1>2, <1>3

\* Their functions.
LEMMA SameFunctions ==
    /\ \A m, e : Sets!Map!insert(m, e) <=> Flat!insert(m, e)
    /\ \A m, i, e : Sets!Map!emplace_hint(m, i, e) <=> Flat!emplace_hint(m, i, e)
    /\ \A m, k : Sets!Map!find(m, k) <=> Flat!find(m, k)
    /\ \A m, k : Sets!Map!LowerBound(m, k) <=> Flat!LowerBound(m, k)
    /\ \A m, k : Sets!Map!UpperBound(m, k) <=> Flat!UpperBound(m, k)
    /\ \A m, i : Sets!Map!erase(m, i) <=> Flat!erase(m, i)
    /\ \A m, k : Sets!Map!EraseKey(m, k) <=> Flat!EraseKey(m, k)
    /\ \A m : Sets!Map!clear(m) <=> Flat!clear(m)
    /\ \A m, s, r : Sets!Map!Construct(m, s, r) <=> Flat!Construct(m, s, r)
    /\ \A m, s, r : Sets!Map!ConstructReady(m, s, r) <=> Flat!ConstructReady(m, s, r)
    /\ \A m, n : Sets!Map!Copy(m, n) <=> Flat!Copy(m, n)
    /\ \A m, n : Sets!Map!Move(m, n) <=> Flat!Move(m, n)
    /\ \A m, n : Sets!Map!swap(m, n) <=> Flat!swap(m, n)
<1>1. \A m, e : Sets!Map!insert(m, e) <=> Flat!insert(m, e)
  BY SameAnswers, SameVectors, SamePlaces, SameSearches DEF Sets!Map!insert, Flat!insert
<1>2. \A m, i, e : Sets!Map!emplace_hint(m, i, e) <=> Flat!emplace_hint(m, i, e)
  BY <1>1, SameVectors, SamePlaces, SameSearches DEF Sets!Map!emplace_hint, Flat!emplace_hint
<1>3. \A m, k : Sets!Map!find(m, k) <=> Flat!find(m, k)
  BY SameAnswers, SameVectors, SameSearches DEF Sets!Map!find, Flat!find
<1>4. \A m, k : Sets!Map!LowerBound(m, k) <=> Flat!LowerBound(m, k)
  BY SameAnswers, SameVectors, SameSearches DEF Sets!Map!LowerBound, Flat!LowerBound
<1>5. \A m, k : Sets!Map!UpperBound(m, k) <=> Flat!UpperBound(m, k)
  BY SameAnswers, SameVectors, SameSearches DEF Sets!Map!UpperBound, Flat!UpperBound
<1>6. \A m, i : Sets!Map!erase(m, i) <=> Flat!erase(m, i)
  BY SameAnswers, SameVectors, SamePlaces DEF Sets!Map!erase, Flat!erase
<1>7. \A m, k : Sets!Map!EraseKey(m, k) <=> Flat!EraseKey(m, k)
  BY SameAnswers, SameVectors, SamePlaces, SameSearches DEF Sets!Map!EraseKey, Flat!EraseKey
<1>8. \A m : Sets!Map!clear(m) <=> Flat!clear(m)
  BY SameAnswers DEF Sets!Map!clear, Flat!clear
<1>9. \A m, s, r : Sets!Map!Construct(m, s, r) <=> Flat!Construct(m, s, r)
  BY SameAnswers, SameVectors, SameSorts DEF Sets!Map!Construct, Flat!Construct
<1>10. \A m, s, r : Sets!Map!ConstructReady(m, s, r) <=> Flat!ConstructReady(m, s, r)
  BY SameAnswers, SameVectors DEF Sets!Map!ConstructReady, Flat!ConstructReady
<1>11. \A m, n : Sets!Map!Copy(m, n) <=> Flat!Copy(m, n)
  BY SameAnswers DEF Sets!Map!Copy, Flat!Copy
<1>12. \A m, n : Sets!Map!Move(m, n) <=> Flat!Move(m, n)
  BY SameAnswers DEF Sets!Map!Move, Flat!Move
<1>13. \A m, n : Sets!Map!swap(m, n) <=> Flat!swap(m, n)
  BY SameAnswers DEF Sets!Map!swap, Flat!swap
<1> QED  BY <1>1, <1>2, <1>3, <1>4, <1>5, <1>6, <1>7, <1>8, <1>9, <1>10, <1>11, <1>12, <1>13

LEMMA ElementsGiven ==
    ASSUME NEW s \in Sets!BoundedSeq(Keys, Capacity)
    PROVE  Sets!Elements(s) \in Flat!Containers
<1>1. PICK n \in 0..Capacity : s \in [1..n -> Keys]
  BY DEF Sets!BoundedSeq, Sets!SeqOf
<1>2. Sets!Elements(s) \in [1..n -> Flat!Entry]
  BY <1>1 DEF Sets!Elements, Sets!Element, Sets!Unit, Flat!Entry
<1> QED  BY <1>1, <1>2 DEF Flat!Containers, Flat!BoundedSeq, Flat!SeqOf

\* A step of the sets is one of the maps whose elements are keys.
LEMMA SetsNext == Sets!Next => Flat!Next
<1> SUFFICES ASSUME Sets!Next PROVE Flat!Next
  OBVIOUS
<1>1. CASE Sets!Map!Take
  BY <1>1, SameAnswers DEF Flat!Next
<1>2. ASSUME NEW m \in Objects, NEW k \in Keys, Sets!insert(m, k)
      PROVE  Flat!Next
  <2>1. Sets!Element(k) \in Flat!Entry
    BY DEF Sets!Element, Sets!Unit, Flat!Entry
  <2>2. Flat!insert(m, Sets!Element(k))
    BY <1>2, SameFunctions DEF Sets!insert
  <2> QED  BY <2>1, <2>2 DEF Flat!Next
<1>3. ASSUME NEW m \in Objects, NEW k \in Keys, NEW i \in 1..Sets!size(m) + 1, Sets!emplace_hint(m, i, k)
      PROVE  Flat!Next
  <2>1. Sets!Element(k) \in Flat!Entry
    BY DEF Sets!Element, Sets!Unit, Flat!Entry
  <2>2. Flat!emplace_hint(m, i, Sets!Element(k))
    BY <1>3, SameFunctions DEF Sets!emplace_hint
  <2>3. i \in 1..Flat!end(m)
    BY <1>3, SameVectors DEF Sets!size, Flat!end
  <2> QED  BY <2>1, <2>2, <2>3 DEF Flat!Next
<1>4. ASSUME NEW m \in Objects, NEW k \in Keys,
             Sets!find(m, k) \/ Sets!EraseKey(m, k) \/ Sets!lower_bound(m, k) \/ Sets!upper_bound(m, k)
      PROVE  Flat!Next
  <2>1. Flat!find(m, k) \/ Flat!EraseKey(m, k) \/ Flat!LowerBound(m, k) \/ Flat!UpperBound(m, k)
    BY <1>4, SameFunctions DEF Sets!find, Sets!EraseKey, Sets!lower_bound, Sets!upper_bound
  <2> QED  BY <2>1 DEF Flat!Next
<1>5. ASSUME NEW m \in Objects, NEW i \in 1..Sets!size(m), Sets!erase(m, i)
      PROVE  Flat!Next
  <2>1. Flat!erase(m, i) /\ i \in 1..Flat!size(m)
    BY <1>5, SameFunctions, SameVectors DEF Sets!erase, Sets!size
  <2> QED  BY <2>1 DEF Flat!Next
<1>6. ASSUME NEW m \in Objects, Sets!clear(m)
      PROVE  Flat!Next
  <2>1. Flat!clear(m)
    BY <1>6, SameFunctions DEF Sets!clear
  <2> QED  BY <2>1 DEF Flat!Next
<1>7. ASSUME NEW m \in Objects, NEW s \in Sets!BoundedSeq(Keys, Capacity), NEW r \in Orders,
             Sets!Construct(m, s, r) \/ Sets!ConstructReady(m, s, r)
      PROVE  Flat!Next
  <2>1. Sets!Elements(s) \in Flat!Containers
    BY ElementsGiven
  <2>2. Flat!Construct(m, Sets!Elements(s), r) \/ Flat!ConstructReady(m, Sets!Elements(s), r)
    BY <1>7, SameFunctions DEF Sets!Construct, Sets!ConstructReady
  <2> QED  BY <2>1, <2>2 DEF Flat!Next
<1>8. ASSUME NEW m \in Objects, NEW n \in Objects, Sets!Copy(m, n) \/ Sets!Move(m, n) \/ Sets!swap(m, n)
      PROVE  Flat!Next
  <2>1. Flat!Copy(m, n) \/ Flat!Move(m, n) \/ Flat!swap(m, n)
    BY <1>8, SameFunctions DEF Sets!Copy, Sets!Move, Sets!swap
  <2> QED  BY <2>1 DEF Flat!Next
<1> QED  BY <1>1, <1>2, <1>3, <1>4, <1>5, <1>6, <1>7, <1>8 DEF Sets!Next

LEMMA SetsInitially == Sets!Init => Flat!Init
  BY SameAnswers DEF Sets!Init, Sets!Map!Init, Flat!Init

\* The ordered map that both implement.
LEMMA SameOrderedMap ==
    /\ Flat!Map!Init => Sets!Map!Map!Init
    /\ Flat!Map!Next => Sets!Map!Map!Next
<1>1. Sets!Map!Map!Entry = Flat!Map!Entry /\ Sets!Map!Map!NoAnswer = Flat!Map!NoAnswer /\ \A k : Sets!Map!Map!Plain(k) = Flat!Map!Plain(k)
  BY DEF Sets!Map!Map!Entry, Flat!Map!Entry, Sets!Map!Map!NoAnswer, Flat!Map!NoAnswer, Sets!Map!Map!Plain, Flat!Map!Plain, Sets!Unit
<1>2. [m \in Objects |-> Sets!Map!Range(f_container[m])] = [m \in Objects |-> Flat!Range(f_container[m])]
  BY SameLibrary
<1>3. [m \in Objects |-> Sets!Map!Range(f_container'[m])] = [m \in Objects |-> Flat!Range(f_container'[m])]
  BY SameLibrary
<1>4. \A P : Sets!Map!Map!Cardinality(P) = Flat!Map!Cardinality(P)
  BY DEF Sets!Map!Map!Cardinality, Flat!Map!Cardinality
<1>5. \A m, k, l : Sets!Map!Map!Less(m, k, l) <=> Flat!Map!Less(m, k, l)
  BY DEF Sets!Map!Map!Less, Flat!Map!Less
<1>6. \A m, k, l : Sets!Map!Map!Equivalent(m, k, l) <=> Flat!Map!Equivalent(m, k, l)
  BY <1>5 DEF Sets!Map!Map!Equivalent, Flat!Map!Equivalent
<1>7. \A c, o, e, b : Sets!Map!Map!Answer(c, o, e, b) <=> Flat!Map!Answer(c, o, e, b)
  BY <1>1 DEF Sets!Map!Map!Answer, Flat!Map!Answer
<1>8. \A c, o, e : Sets!Map!Map!Keep(c, o, e) <=> Flat!Map!Keep(c, o, e)
  BY <1>2, <1>3, <1>7 DEF Sets!Map!Map!Keep, Flat!Map!Keep
<1>9. \A m, k : Sets!Map!Map!Missing(m, k) <=> Flat!Map!Missing(m, k)
  BY <1>2, <1>6 DEF Sets!Map!Map!Missing, Flat!Map!Missing
<1>10. \A m, P, e : Sets!Map!Map!First(m, P, e) <=> Flat!Map!First(m, P, e)
  BY <1>5 DEF Sets!Map!Map!First, Flat!Map!First
<1>11. \A m, P, r : Sets!Map!Map!Become(m, P, r) <=> Flat!Map!Become(m, P, r)
  BY <1>2, <1>3 DEF Sets!Map!Map!Become, Flat!Map!Become
<1>12. \A r, P, G : Sets!Map!Map!Represents(r, P, G) <=> Flat!Map!Represents(r, P, G)
  BY DEF Sets!Map!Map!Represents, Flat!Map!Represents
<1>13. \A m, e : Sets!Map!Map!Insert(m, e) <=> Flat!Map!Insert(m, e)
  BY <1>2, <1>3, <1>4, <1>6, <1>7, <1>8, <1>9 DEF Sets!Map!Map!Insert, Flat!Map!Insert
<1>14. \A m, k : Sets!Map!Map!Find(m, k) <=> Flat!Map!Find(m, k)
  BY <1>1, <1>2, <1>6, <1>8, <1>9 DEF Sets!Map!Map!Find, Flat!Map!Find
<1>15. \A m, k : Sets!Map!Map!LowerBound(m, k) <=> Flat!Map!LowerBound(m, k)
  BY <1>1, <1>2, <1>5, <1>8, <1>10 DEF Sets!Map!Map!LowerBound, Flat!Map!LowerBound
<1>16. \A m, k : Sets!Map!Map!UpperBound(m, k) <=> Flat!Map!UpperBound(m, k)
  BY <1>1, <1>2, <1>5, <1>8, <1>10 DEF Sets!Map!Map!UpperBound, Flat!Map!UpperBound
<1>17. \A m, k : Sets!Map!Map!EraseKey(m, k) <=> Flat!Map!EraseKey(m, k)
  BY <1>1, <1>2, <1>3, <1>6, <1>7, <1>8, <1>9 DEF Sets!Map!Map!EraseKey, Flat!Map!EraseKey
<1>18. \A m : Sets!Map!Map!Erase(m) <=> Flat!Map!Erase(m)
  BY <1>1, <1>2, <1>3, <1>5, <1>7, <1>10 DEF Sets!Map!Map!Erase, Flat!Map!Erase
<1>19. \A m, x : Sets!Map!Map!SetValue(m, x) <=> Flat!Map!SetValue(m, x)
  BY <1>2, <1>3, <1>7 DEF Sets!Map!Map!SetValue, Flat!Map!SetValue
<1>20. \A m : Sets!Map!Map!Clear(m) <=> Flat!Map!Clear(m)
  BY <1>7, <1>11 DEF Sets!Map!Map!Clear, Flat!Map!Clear
<1>21. \A m : Sets!Map!Map!Construct(m) <=> Flat!Map!Construct(m)
  BY <1>1, <1>2, <1>3, <1>11, <1>12 DEF Sets!Map!Map!Construct, Flat!Map!Construct
<1>22. \A m, n : Sets!Map!Map!Swap(m, n) <=> Flat!Map!Swap(m, n)
  BY <1>2, <1>3, <1>7 DEF Sets!Map!Map!Swap, Flat!Map!Swap
<1>23. \A m, n : Sets!Map!Map!Copy(m, n) <=> Flat!Map!Copy(m, n)
  BY <1>2, <1>7, <1>11 DEF Sets!Map!Map!Copy, Flat!Map!Copy
<1>24. \A m, n : Sets!Map!Map!Move(m, n) <=> Flat!Map!Move(m, n)
  BY <1>2, <1>3, <1>7 DEF Sets!Map!Map!Move, Flat!Map!Move
<1>25. Sets!Map!Map!Take <=> Flat!Map!Take
  BY <1>1, <1>2, <1>3 DEF Sets!Map!Map!Take, Flat!Map!Take
<1>26. Sets!Map!Map!Init <=> Flat!Map!Init
  BY <1>1, <1>2 DEF Sets!Map!Map!Init, Flat!Map!Init
<1>27. Sets!Map!Map!Next <=> Flat!Map!Next
  BY <1>1, <1>13, <1>14, <1>15, <1>16, <1>17, <1>18, <1>19, <1>20, <1>21, <1>22, <1>23, <1>24, <1>25 DEF Sets!Map!Map!Next, Flat!Map!Next, Sets!Unit
<1> QED  BY <1>26, <1>27

LEMMA SetsInvariance == Sets!Spec => []Flat!IndInv
<1>1. Flat!Init => Flat!IndInv
  BY FlatAssumptions, Flat!InitInv
<1>2. Flat!IndInv /\ [Flat!Next]_(Flat!vars) => Flat!IndInv'
  BY FlatAssumptions, Flat!StepInv
<1>3. Sets!vars = Flat!vars
  BY DEF Sets!vars, Flat!vars
<1>4. Flat!IndInv /\ [Sets!Next]_(Sets!vars) => Flat!IndInv'
  BY <1>2, SetsNext DEF Sets!vars, Flat!vars
<1> QED  BY <1>1, <1>4, SetsInitially, PTL DEF Sets!Spec

LEMMA SetsMap == Flat!IndInv /\ Sets!Next => Sets!Map!Map!Next
<1>1. Flat!IndInv /\ Flat!Next => Flat!Map!Next
  BY FlatAssumptions, Flat!NextMaps
<1> QED  BY <1>1, SetsNext, SameOrderedMap

LEMMA SetsMapInitially == Sets!Init => Sets!Map!Map!Init
<1>1. Flat!Init => Flat!Map!Init
  BY FlatAssumptions, Flat!InitMaps
<1> QED  BY <1>1, SetsInitially, SameOrderedMap

\* A flat_set is an ordered set.
THEOREM FlatSetIsOrdered == Sets!Spec => Sets!LikeStdSet
<1>1. Flat!IndInv /\ [Sets!Next]_(Sets!vars) => [Sets!Map!Map!Next]_(Sets!Map!Map!vars)
  BY SetsMap DEF Sets!vars, Sets!Map!Map!vars
<1> QED  BY <1>1, SetsMapInitially, SetsInvariance, PTL DEF Sets!Spec, Sets!LikeStdSet, Sets!Map!LikeStdMap, Sets!Map!Map!Spec

-----------------------------------------------------------------------------
(* dynamic_bitset: where a bit is.                                         *)

\* A bit is in one word, at one place.
LEMMA Located ==
    ASSUME NEW i \in Nat
    PROVE  /\ Bitset!word_index(i) \in Nat /\ Bitset!bit_index(i) \in Bitset!Bit
           /\ i = Bitset!word_index(i) * bits_per_word + Bitset!bit_index(i)
  BY BitsAssumption DEF Bitset!word_index, Bitset!bit_index, Bitset!Bit

LEMMA Parts ==
    ASSUME NEW i \in Nat, NEW w, w = bits_per_word
    PROVE  \E k \in Nat, b \in Nat :
              k = Bitset!word_index(i) /\ b = Bitset!bit_index(i) /\ b < w /\ i = k * w + b
<1>1. Bitset!word_index(i) \in Nat /\ i = Bitset!word_index(i) * w + Bitset!bit_index(i)
  BY Located
<1>2. Bitset!bit_index(i) \in Nat /\ Bitset!bit_index(i) < w
  BY Located, BitsAssumption DEF Bitset!Bit
<1> QED  BY <1>1, <1>2

LEMMA LocatedAt ==
    ASSUME NEW k \in Nat, NEW b \in Bitset!Bit
    PROVE  /\ k * bits_per_word + b \in Nat
           /\ Bitset!word_index(k * bits_per_word + b) = k
           /\ Bitset!bit_index(k * bits_per_word + b) = b
<1>1. bits_per_word \in Nat \ {0} /\ b \in Nat /\ b < bits_per_word
  BY BitsAssumption DEF Bitset!Bit
<1>2. k * bits_per_word \in Nat
  BY <1>1, Scaled
<1>3. PICK i \in Nat : i = k * bits_per_word + b
  BY <1>1, <1>2
<1>4. PICK l \in Nat, c \in Nat : /\ l = Bitset!word_index(i) /\ c = Bitset!bit_index(i) /\ c < bits_per_word
                                  /\ i = l * bits_per_word + c
  BY <1>1, Located DEF Bitset!Bit
<1>5. ASSUME k + 1 <= l PROVE FALSE
  <2>1. (k + 1) * bits_per_word <= l * bits_per_word /\ (k + 1) * bits_per_word = k * bits_per_word + bits_per_word
    BY <1>1, <1>5, ScaledMore, Scaled
  <2>2. l * bits_per_word \in Nat
    BY <1>1, Scaled
  <2> QED  BY <1>1, <1>2, <1>3, <1>4, <2>1, <2>2
<1>6. ASSUME l + 1 <= k PROVE FALSE
  <2>1. (l + 1) * bits_per_word <= k * bits_per_word /\ (l + 1) * bits_per_word = l * bits_per_word + bits_per_word
    BY <1>1, <1>6, ScaledMore, Scaled
  <2>2. l * bits_per_word \in Nat
    BY <1>1, Scaled
  <2> QED  BY <1>1, <1>2, <1>3, <1>4, <2>1, <2>2
<1>7. k = l
  BY <1>4, <1>5, <1>6
<1>8. b = c
  BY <1>1, <1>2, <1>3, <1>4, <1>7
<1> QED  BY <1>1, <1>2, <1>3, <1>4, <1>7, <1>8

\* The bits of two words are before one another as the words are.
LEMMA LocatedLess ==
    ASSUME NEW i \in Nat, NEW j \in Nat
    PROVE  i < j <=> \/ Bitset!word_index(i) < Bitset!word_index(j)
                     \/ /\ Bitset!word_index(i) = Bitset!word_index(j)
                        /\ Bitset!bit_index(i) < Bitset!bit_index(j)
<1>1. PICK w \in Nat : w = bits_per_word
  BY BitsAssumption
<1>2. PICK k \in Nat, b \in Nat : k = Bitset!word_index(i) /\ b = Bitset!bit_index(i) /\ b < w /\ i = k * w + b
  BY <1>1, Parts
<1>3. PICK l \in Nat, c \in Nat : l = Bitset!word_index(j) /\ c = Bitset!bit_index(j) /\ c < w /\ j = l * w + c
  BY <1>1, Parts
<1>4. k * w \in Nat /\ l * w \in Nat
  BY Scaled
<1>5. CASE k = l
  BY <1>2, <1>3, <1>4, <1>5
<1>6. CASE k + 1 <= l
  <2>1. (k + 1) * w <= l * w /\ (k + 1) * w = k * w + w
    BY <1>6, ScaledMore, Scaled
  <2> QED  BY <1>2, <1>3, <1>4, <1>6, <2>1
<1>7. CASE l + 1 <= k
  <2>1. (l + 1) * w <= k * w /\ (l + 1) * w = l * w + w
    BY <1>7, ScaledMore, Scaled
  <2> QED  BY <1>2, <1>3, <1>4, <1>7, <2>1
<1> QED  BY <1>5, <1>6, <1>7

LEMMA LocatedSame ==
    ASSUME NEW i \in Nat, NEW j \in Nat,
           Bitset!word_index(i) = Bitset!word_index(j), Bitset!bit_index(i) = Bitset!bit_index(j)
    PROVE  i = j
  BY LocatedLess, Located DEF Bitset!Bit

\* The sum of two places.
LEMMA LocatedSum ==
    ASSUME NEW i \in Nat, NEW j \in Nat,
           NEW b, b = Bitset!bit_index(i) + Bitset!bit_index(j),
           NEW k, k = Bitset!word_index(i) + Bitset!word_index(j)
    PROVE  /\ b < bits_per_word => Bitset!word_index(i + j) = k /\ Bitset!bit_index(i + j) = b
           /\ b >= bits_per_word =>
                 Bitset!word_index(i + j) = k + 1 /\ Bitset!bit_index(i + j) = b - bits_per_word
<1>1. PICK w \in Nat : w = bits_per_word /\ w > 0
  BY BitsAssumption
<1>2. PICK k1 \in Nat, b1 \in Nat : k1 = Bitset!word_index(i) /\ b1 = Bitset!bit_index(i) /\ b1 < w /\ i = k1 * w + b1
  BY <1>1, Parts
<1>3. PICK k2 \in Nat, b2 \in Nat : k2 = Bitset!word_index(j) /\ b2 = Bitset!bit_index(j) /\ b2 < w /\ j = k2 * w + b2
  BY <1>1, Parts
<1>4. k1 * w \in Nat /\ k2 * w \in Nat /\ k * w = k1 * w + k2 * w /\ k \in Nat /\ b \in Nat /\ b = b1 + b2
  BY <1>2, <1>3, Scaled
<1>5. i + j = k * w + b
  BY <1>2, <1>3, <1>4
<1>6. CASE b < w
  <2>1. b \in Bitset!Bit
    BY <1>1, <1>4, <1>6 DEF Bitset!Bit
  <2> QED  BY <1>1, <1>4, <1>5, <1>6, <2>1, LocatedAt
<1>7. CASE b >= w
  <2>1. b - w \in Bitset!Bit
    BY <1>1, <1>2, <1>3, <1>4, <1>7 DEF Bitset!Bit
  <2>2. (k + 1) * w = k * w + w /\ k + 1 \in Nat
    BY <1>4, Scaled
  <2>3. i + j = (k + 1) * w + (b - w)
    BY <1>4, <1>5, <2>2, Scaled
  <2> QED  BY <1>1, <1>4, <1>7, <2>1, <2>2, <2>3, LocatedAt
<1> QED  BY <1>1, <1>4, <1>6, <1>7

\* How many words n bits take.
LEMMA WordsFor ==
    ASSUME NEW n \in Nat
    PROVE  Bitset!word_size(n) = Bitset!word_index(n) + (IF Bitset!bit_index(n) = 0 THEN 0 ELSE 1)
<1>1. PICK w \in Nat : w = bits_per_word /\ w > 0
  BY BitsAssumption
<1>2. w - 1 \in Bitset!Bit /\ w - 1 \in Nat /\ 0 \in Bitset!Bit
  BY <1>1 DEF Bitset!Bit
<1>3. Bitset!word_index(w - 1) = 0 /\ Bitset!bit_index(w - 1) = w - 1
  <2>1. 0 * bits_per_word + (w - 1) = w - 1
    BY <1>1
  <2> QED  BY <1>2, <2>1, LocatedAt
<1>4. Bitset!word_size(n) = Bitset!word_index(n + (w - 1))
  <2>1. n + w - 1 = n + (w - 1)
    BY <1>1
  <2> QED  BY <1>1, <2>1 DEF Bitset!word_size, Bitset!word_index
<1>5. Bitset!bit_index(n) \in 0..w - 1 /\ Bitset!word_index(n) \in Nat
  BY <1>1, Located DEF Bitset!Bit
<1> QED  BY <1>1, <1>2, <1>3, <1>4, <1>5, LocatedSum

\* How many words reach how far.
LEMMA WordsReach ==
    ASSUME NEW n \in Nat
    PROVE  /\ Bitset!word_size(n) \in Nat
           /\ \A i \in 0..n - 1 : Bitset!word_index(i) + 1 \in 1..Bitset!word_size(n)
           /\ \A i \in Nat : i >= n /\ Bitset!word_index(i) + 1 <= Bitset!word_size(n) =>
                 /\ Bitset!bit_index(n) # 0 /\ Bitset!word_index(i) = Bitset!word_index(n)
                 /\ Bitset!bit_index(i) >= Bitset!bit_index(n)
                 /\ Bitset!word_size(n) = Bitset!word_index(n) + 1
<1>1. PICK k \in Nat, b \in Nat : k = Bitset!word_index(n) /\ b = Bitset!bit_index(n)
  BY Parts
<1>2. Bitset!word_size(n) = k + (IF b = 0 THEN 0 ELSE 1)
  BY <1>1, WordsFor
<1>3. ASSUME NEW i \in Nat
      PROVE  /\ i < n => Bitset!word_index(i) + 1 \in 1..Bitset!word_size(n)
             /\ i >= n /\ Bitset!word_index(i) + 1 <= Bitset!word_size(n) =>
                   /\ b # 0 /\ Bitset!word_index(i) = k /\ Bitset!bit_index(i) >= b
                   /\ Bitset!word_size(n) = k + 1
  <2>1. PICK l \in Nat, c \in Nat : l = Bitset!word_index(i) /\ c = Bitset!bit_index(i)
    BY Parts
  <2>2. i < n <=> l < k \/ (l = k /\ c < b)
    BY <1>1, <2>1, LocatedLess
  <2> QED  BY <1>2, <2>1, <2>2
<1> QED  BY <1>1, <1>2, <1>3

\* The words s have the bits bs; what else is in the last one may be anything.
Packed(s, bs) ==
    /\ s \in Seq(Bitset!Word) /\ bs \in Seq(BOOLEAN)
    /\ Len(s) = Bitset!word_size(Len(bs))
    /\ \A i \in 0..Len(bs) - 1 :
          bs[i + 1] = TRUE <=> Bitset!bit_index(i) \in s[Bitset!word_index(i) + 1]

BitsetInv ==
    /\ b_buf = [x \in Bitsets |-> b_buf[x]] /\ b_size = [x \in Bitsets |-> b_size[x]]
    /\ b_bits = [x \in Bitsets |-> b_bits[x]]
    /\ \A x \in Bitsets : b_size[x] = Len(b_bits[x]) /\ Packed(b_buf[x], b_bits[x])

LEMMA PackedIf ==
    ASSUME NEW n \in Nat, NEW s \in [1..Bitset!word_size(n) -> Bitset!Word], NEW bs \in [1..n -> BOOLEAN],
           \A i \in 0..n - 1 : bs[i + 1] = TRUE <=> Bitset!bit_index(i) \in s[Bitset!word_index(i) + 1]
    PROVE  Packed(s, bs) /\ Len(bs) = n
<1>1. s \in Seq(Bitset!Word) /\ Len(s) = Bitset!word_size(n)
  <2>1. PICK l \in Nat : l = Bitset!word_size(n)
    BY WordsReach
  <2> QED  BY <2>1
<1>2. bs \in Seq(BOOLEAN) /\ Len(bs) = n
  OBVIOUS
<1> QED  BY <1>1, <1>2 DEF Packed

LEMMA PackedThen ==
    ASSUME NEW s, NEW bs, Packed(s, bs)
    PROVE  \E n \in Nat :
              /\ n = Len(bs) /\ Len(s) = Bitset!word_size(n)
              /\ s \in [1..Bitset!word_size(n) -> Bitset!Word] /\ bs \in [1..n -> BOOLEAN]
              /\ \A i \in 0..n - 1 : bs[i + 1] = TRUE <=> Bitset!bit_index(i) \in s[Bitset!word_index(i) + 1]
<1>1. PICK n \in Nat : n = Len(bs)
  BY DEF Packed
<1>2. s \in [1..Bitset!word_size(n) -> Bitset!Word] /\ bs \in [1..n -> BOOLEAN] /\ Len(s) = Bitset!word_size(n)
  BY <1>1 DEF Packed
<1> QED  BY <1>1, <1>2 DEF Packed

LEMMA BitsetChanges ==
    ASSUME BitsetInv, NEW x \in Bitsets, NEW s, NEW n, NEW bs, Packed(s, bs), n = Len(bs),
           Bitset!Changes(x, s, n, bs)
    PROVE  BitsetInv'
<1>1. /\ b_buf' = [b_buf EXCEPT ![x] = s] /\ b_size' = [b_size EXCEPT ![x] = n]
      /\ b_bits' = [b_bits EXCEPT ![x] = bs]
  BY DEF Bitset!Changes
<1>2. b_buf'[x] = s /\ b_size'[x] = n /\ b_bits'[x] = bs
  BY <1>1 DEF BitsetInv
<1>3. \A y \in Bitsets \ {x} : b_buf'[y] = b_buf[y] /\ b_size'[y] = b_size[y] /\ b_bits'[y] = b_bits[y]
  BY <1>1 DEF BitsetInv
<1>4. \A y \in Bitsets : b_size'[y] = Len(b_bits'[y]) /\ Packed(b_buf'[y], b_bits'[y])
  BY <1>2, <1>3 DEF BitsetInv
<1>5. /\ b_buf' = [y \in Bitsets |-> b_buf'[y]] /\ b_size' = [y \in Bitsets |-> b_size'[y]]
      /\ b_bits' = [y \in Bitsets |-> b_bits'[y]]
  BY <1>1 DEF BitsetInv
<1>6. \A t, b : Packed(t, b)' <=> Packed(t', b')
  BY DEF Packed
<1> QED  BY <1>4, <1>5, <1>6 DEF BitsetInv
-----------------------------------------------------------------------------
(* dynamic_bitset: the functions.                                          *)

LEMMA BitsetConstruct ==
    ASSUME NEW n \in Nat, NEW w \in Bitset!Word
    PROVE  /\ Packed(Bitset!Words(w, Bitset!word_size(n)), [i \in 1..n |-> Bitset!bit_index(i - 1) \in w])
           /\ Len([i \in 1..n |-> Bitset!bit_index(i - 1) \in w]) = n
<1> DEFINE s == Bitset!Words(w, Bitset!word_size(n))
           bs == [i \in 1..n |-> Bitset!bit_index(i - 1) \in w]
<1>1. s \in [1..Bitset!word_size(n) -> Bitset!Word] /\ \A k \in 1..Bitset!word_size(n) : s[k] = w
  BY DEF Bitset!Words
<1>2. bs \in [1..n -> BOOLEAN]
  OBVIOUS
<1>3. ASSUME NEW i \in 0..n - 1
      PROVE  bs[i + 1] = TRUE <=> Bitset!bit_index(i) \in s[Bitset!word_index(i) + 1]
  <2>1. s[Bitset!word_index(i) + 1] = w
    BY <1>1, WordsReach
  <2>2. bs[i + 1] = (Bitset!bit_index(i) \in w)
    <3>1. i + 1 \in 1..n /\ (i + 1) - 1 = i
      OBVIOUS
    <3> QED  BY <3>1
  <2> QED  BY <2>1, <2>2
<1>4. Packed(s, bs) /\ Len(bs) = n
  <2> HIDE DEF s, bs
  <2> QED  BY <1>1, <1>2, <1>3, PackedIf
<1> QED  BY <1>4

LEMMA BitsetAssign ==
    ASSUME NEW m \in Nat, NEW s \in [1..m -> Bitset!Word], NEW n, n = Len(s) * bits_per_word,
           NEW bs, bs = [i \in 1..n |-> Bitset!bit_index(i - 1) \in Bitset!At(s, Bitset!word_index(i - 1))]
    PROVE  Packed(s, bs) /\ Len(bs) = n
<1>1. Len(s) = m /\ n \in Nat /\ n = m * bits_per_word
  <2>1. Len(s) = m
    OBVIOUS
  <2> QED  BY <2>1, BitsAssumption, Scaled
<1>2. Bitset!word_size(n) = m
  <2>1. 0 \in Bitset!Bit
    BY BitsAssumption DEF Bitset!Bit
  <2>2. m * bits_per_word + 0 = n
    BY <1>1
  <2>3. Bitset!word_index(n) = m /\ Bitset!bit_index(n) = 0
    BY <2>1, <2>2, LocatedAt
  <2> QED  BY <1>1, <2>3, WordsFor
<1>3. bs \in [1..n -> BOOLEAN]
  OBVIOUS
<1>4. ASSUME NEW i \in 0..n - 1
      PROVE  bs[i + 1] = TRUE <=> Bitset!bit_index(i) \in s[Bitset!word_index(i) + 1]
  <2>1. i + 1 \in 1..n /\ (i + 1) - 1 = i
    BY <1>1
  <2>2. bs[i + 1] = (Bitset!bit_index(i) \in s[Bitset!word_index(i) + 1])
    BY <2>1 DEF Bitset!At
  <2> QED  BY <2>2
<1> QED  BY <1>1, <1>2, <1>3, <1>4, PackedIf

\* A bit is written.
LEMMA BitsetWith ==
    ASSUME NEW s, NEW bs, Packed(s, bs), NEW i \in 0..Len(bs) - 1, NEW b \in BOOLEAN
    PROVE  /\ Packed(Bitset!WithBit(s, i, b), [bs EXCEPT ![i + 1] = b])
           /\ Len([bs EXCEPT ![i + 1] = b]) = Len(bs)
<1> DEFINE r == Bitset!WithBit(s, i, b)
           rs == [bs EXCEPT ![i + 1] = b]
           k == Bitset!word_index(i) + 1
           c == Bitset!bit_index(i)
<1>1. PICK n \in Nat :
          /\ n = Len(bs) /\ Len(s) = Bitset!word_size(n)
          /\ s \in [1..Bitset!word_size(n) -> Bitset!Word] /\ bs \in [1..n -> BOOLEAN]
          /\ \A j \in 0..n - 1 : bs[j + 1] = TRUE <=> Bitset!bit_index(j) \in s[Bitset!word_index(j) + 1]
  BY PackedThen
<1>2. i \in 0..n - 1 /\ k \in 1..Bitset!word_size(n) /\ c \in Bitset!Bit
  <2>1. i \in 0..n - 1 /\ i \in Nat
    BY <1>1
  <2> QED  BY <2>1, WordsReach, Located
<1>3. r = [s EXCEPT ![k] = IF b THEN s[k] \cup {c} ELSE s[k] \ {c}]
  BY DEF Bitset!WithBit, Bitset!With, Bitset!At
<1>4. r \in [1..Bitset!word_size(n) -> Bitset!Word]
  <2>1. s[k] \cup {c} \in Bitset!Word /\ s[k] \ {c} \in Bitset!Word
    BY <1>1, <1>2 DEF Bitset!Word
  <2> HIDE DEF k, c, r
  <2> QED  BY <1>1, <1>3, <2>1
<1>5. rs \in [1..n -> BOOLEAN]
  BY <1>1
<1>6. ASSUME NEW j \in 0..n - 1
      PROVE  rs[j + 1] = TRUE <=> Bitset!bit_index(j) \in r[Bitset!word_index(j) + 1]
  <2>1. j + 1 \in 1..n /\ Bitset!word_index(j) + 1 \in 1..Bitset!word_size(n) /\ j \in Nat /\ i \in Nat
    <3>1. j + 1 \in 1..n /\ j \in Nat /\ i \in Nat
      BY <1>2
    <3> QED  BY <3>1, WordsReach
  <2>2. Bitset!word_index(i) \in Nat /\ Bitset!word_index(j) \in Nat
    BY <2>1, Located
  <2>3. CASE j = i
    <3>1. rs[j + 1] = b
      BY <1>1, <2>1, <2>3
    <3>2. r[k] = IF b THEN s[k] \cup {c} ELSE s[k] \ {c}
      <4> HIDE DEF k, c, r
      <4> QED  BY <1>1, <1>2, <1>3
    <3>3. c \in r[k] <=> b = TRUE
      <4> HIDE DEF k, c, r
      <4> QED  BY <3>2
    <3> QED  BY <2>3, <3>1, <3>3
  <2>4. CASE j # i
    <3>1. rs[j + 1] = bs[j + 1]
      BY <1>1, <2>1, <2>4
    <3>2. CASE Bitset!word_index(j) = Bitset!word_index(i)
      <4>1. Bitset!bit_index(j) # c
        BY <2>1, <2>4, <3>2, LocatedSame
      <4>2. r[k] = IF b THEN s[k] \cup {c} ELSE s[k] \ {c}
        <5> HIDE DEF k, c, r
        <5> QED  BY <1>1, <1>2, <1>3
      <4>3. Bitset!bit_index(j) \in r[k] <=> Bitset!bit_index(j) \in s[k]
        <5> HIDE DEF k, c, r
        <5> QED  BY <4>1, <4>2
      <4> QED  BY <1>1, <3>1, <3>2, <4>3
    <3>3. CASE Bitset!word_index(j) # Bitset!word_index(i)
      <4>1. Bitset!word_index(j) + 1 # k
        BY <2>2, <3>3
      <4>2. r[Bitset!word_index(j) + 1] = s[Bitset!word_index(j) + 1]
        <5> HIDE DEF k, c, r
        <5> QED  BY <1>1, <1>3, <2>1, <4>1
      <4> QED  BY <1>1, <3>1, <4>2
    <3> QED  BY <3>2, <3>3
  <2> QED  BY <2>3, <2>4
<1>7. Packed(r, rs) /\ Len(rs) = n
  <2> HIDE DEF r, rs
  <2> QED  BY <1>4, <1>5, <1>6, PackedIf
<1> QED  BY <1>1, <1>7

\* c has the first n of a; c has the m of a, then the d of b.
Cuts(c, a, n, S) == c \in [1..n -> S] /\ \A i \in 1..n : c[i] = a[i]

Joins(c, a, m, b, d, l, S) ==
    /\ c \in [1..l -> S]
    /\ \A i \in 1..l : IF i <= m THEN i \in 1..m /\ c[i] = a[i] ELSE i - m \in 1..d /\ c[i] = b[i - m]

\* rs has the first n of the m bits bs, and then FALSE.
FirstBitsAre(rs, bs, m, n) ==
    /\ rs \in [1..n -> BOOLEAN]
    /\ \A i \in 1..n : IF i <= m THEN i \in 1..m /\ rs[i] = bs[i] ELSE rs[i] = FALSE

Appends(c, a, b, m, l, S) == c \in [1..l -> S] /\ c[l] = b /\ \A i \in 1..m : c[i] = a[i]

\* Sequences, as functions.
LEMMA AsFunction ==
    ASSUME NEW S, NEW a \in Seq(S), NEW m \in Nat, Len(a) = m
    PROVE  a \in [1..m -> S]
  BY LenProperties

LEMMA AsSequence ==
    ASSUME NEW S, NEW m \in Nat, NEW a \in [1..m -> S]
    PROVE  a \in Seq(S) /\ Len(a) = m
  OBVIOUS

LEMMA JoinedBits ==
    ASSUME NEW S, NEW m \in Nat, NEW d \in Nat, NEW a \in [1..m -> S], NEW b \in [1..d -> S],
           NEW c, c = a \o b, NEW l \in Nat, l = m + d
    PROVE  Joins(c, a, m, b, d, l, S)
<1>1. a \in Seq(S) /\ Len(a) = m /\ b \in Seq(S) /\ Len(b) = d
  BY AsSequence
<1>2. /\ c \in Seq(S) /\ Len(c) = l
      /\ \A i \in 1..l : c[i] = IF i <= m THEN a[i] ELSE b[i - m]
  BY <1>1, ConcatProperties
<1>3. \A i \in 1..l : IF i <= m THEN i \in 1..m ELSE i - m \in 1..d
  OBVIOUS
<1>4. c \in [1..l -> S]
  BY <1>2, AsFunction
<1> QED  BY <1>2, <1>3, <1>4 DEF Joins

LEMMA CutBits ==
    ASSUME NEW S, NEW m \in Nat, NEW n \in Nat, n <= m, NEW a \in [1..m -> S],
           NEW c, c = SubSeq(a, 1, n)
    PROVE  Cuts(c, a, n, S)
<1>1. \A i \in 1..n : a[i] \in S
  OBVIOUS
<1>2. /\ SubSeq(a, 1, n) \in Seq(S)
      /\ Len(SubSeq(a, 1, n)) = IF 1 <= n THEN n - 1 + 1 ELSE 0
      /\ \A i \in 1..(n - 1 + 1) : SubSeq(a, 1, n)[i] = a[1 + i - 1]
  BY <1>1, SubSeqProperties
<1>3. c \in Seq(S) /\ Len(c) = n
  BY <1>2
<1>4. ASSUME NEW i \in 1..n PROVE c[i] = a[i]
  <2>1. i \in 1..(n - 1 + 1) /\ 1 + i - 1 = i
    OBVIOUS
  <2> QED  BY <1>2, <2>1
<1>5. c \in [1..n -> S]
  BY <1>3, AsFunction
<1> QED  BY <1>4, <1>5 DEF Cuts

LEMMA FirstBits ==
    ASSUME NEW m \in Nat, NEW bs \in [1..m -> BOOLEAN], NEW n \in Nat, NEW rs, rs = Bitset!FirstOf(bs, n)
    PROVE  FirstBitsAre(rs, bs, m, n)
<1>1. Len(bs) = m
  BY AsSequence
<1>2. CASE n <= m
  <2>1. rs = SubSeq(bs, 1, n)
    BY <1>1, <1>2 DEF Bitset!FirstOf
  <2>2. \A i \in 1..n : i <= m /\ i \in 1..m
    BY <1>2
  <2>3. Cuts(rs, bs, n, BOOLEAN)
    BY <1>2, <2>1, CutBits
  <2> QED  BY <2>2, <2>3 DEF Cuts, FirstBitsAre
<1>3. CASE ~(n <= m)
  <2>1. PICK d \in Nat : d = n - m /\ n = m + d
    <3>1. n - m \in Nat /\ n = m + (n - m)
      BY <1>3
    <3> QED  BY <3>1
  <2>2. PICK fs : fs = Bitset!Falses(d)
    OBVIOUS
  <2>3. rs = bs \o fs
    BY <1>1, <1>3, <2>1, <2>2 DEF Bitset!FirstOf
  <2>4. fs \in [1..d -> BOOLEAN] /\ \A i \in 1..d : fs[i] = FALSE
    BY <2>1, <2>2 DEF Bitset!Falses
  <2>5. Joins(rs, bs, m, fs, d, n, BOOLEAN)
    BY <2>1, <2>3, <2>4, JoinedBits
  <2> QED  BY <2>4, <2>5 DEF Joins, FirstBitsAre
<1> QED  BY <1>2, <1>3

\* The bits past the size are cleared.
LEMMA BitsetCleared ==
    ASSUME BitsetInv, NEW x \in Bitsets
    PROVE  \E m \in Nat, l \in Nat :
              /\ m = Len(b_bits[x]) /\ l = Bitset!word_size(m)
              /\ Bitset!Cleared(x) \in [1..l -> Bitset!Word]
              /\ \A i \in Nat : Bitset!word_index(i) + 1 <= l =>
                    Bitset!bit_index(i) \in Bitset!Cleared(x)[Bitset!word_index(i) + 1] <=>
                       i < m /\ b_bits[x][i + 1] = TRUE
<1> DEFINE s == b_buf[x]
           bs == b_bits[x]
           r == Bitset!Cleared(x)
<1>1. PICK m \in Nat :
          /\ m = Len(bs) /\ Len(s) = Bitset!word_size(m)
          /\ s \in [1..Bitset!word_size(m) -> Bitset!Word] /\ bs \in [1..m -> BOOLEAN]
          /\ \A j \in 0..m - 1 : bs[j + 1] = TRUE <=> Bitset!bit_index(j) \in s[Bitset!word_index(j) + 1]
  BY PackedThen DEF BitsetInv
<1>2. b_size[x] = m
  BY <1>1 DEF BitsetInv
<1>3. PICK l \in Nat : l = Bitset!word_size(m)
  BY WordsReach
<1>4. PICK k \in Nat, p \in Nat : k = Bitset!word_index(m) /\ p = Bitset!bit_index(m)
  BY Parts
<1>5. l = k + (IF p = 0 THEN 0 ELSE 1)
  BY <1>3, <1>4, WordsFor
<1>6. r = IF p = 0 THEN s ELSE [s EXCEPT ![l] = s[l] \cap (0..p - 1)]
  BY <1>1, <1>2, <1>3, <1>4 DEF Bitset!Cleared, Bitset!Below
<1>7. s \in [1..l -> Bitset!Word]
  BY <1>1, <1>3
<1> HIDE DEF s, bs, r
<1>8. r \in [1..l -> Bitset!Word]
  <2>1. s[l] \cap (0..p - 1) \in Bitset!Word \/ p = 0
    BY <1>5, <1>7 DEF Bitset!Word
  <2> QED  BY <1>5, <1>6, <1>7, <2>1
<1>9. ASSUME NEW i \in Nat, Bitset!word_index(i) + 1 <= l
      PROVE  Bitset!bit_index(i) \in r[Bitset!word_index(i) + 1] <=> i < m /\ bs[i + 1] = TRUE
  <2>1. PICK j \in Nat, b \in Nat : j = Bitset!word_index(i) /\ b = Bitset!bit_index(i)
    BY Parts
  <2>2. j + 1 \in 1..l
    BY <1>9, <2>1
  <2>3. CASE i < m
    <3>1. bs[i + 1] = TRUE <=> b \in s[j + 1]
      BY <1>1, <2>1, <2>3
    <3>2. j < k \/ (j = k /\ b < p)
      BY <1>4, <2>1, <2>3, LocatedLess
    <3>3. b \in r[j + 1] <=> b \in s[j + 1]
      BY <1>5, <1>6, <1>7, <2>2, <3>2
    <3> QED  BY <2>1, <2>3, <3>1, <3>3
  <2>4. CASE ~(i < m)
    <3>1. i >= m
      BY <1>1, <2>4
    <3>2. p # 0 /\ j = k /\ b >= p /\ l = k + 1
      BY <1>1, <1>3, <1>4, <1>9, <2>1, <3>1, WordsReach
    <3>3. b \notin r[j + 1]
      BY <1>6, <1>7, <2>2, <3>2
    <3> QED  BY <2>1, <2>4, <3>3
  <2> QED  BY <2>3, <2>4
<1> QED  BY <1>1, <1>3, <1>8, <1>9 DEF bs, r

\* The words of x for n bits, those that it does not have yet are false.
LEMMA BitsetResized ==
    ASSUME BitsetInv, NEW x \in Bitsets, NEW n \in Nat
    PROVE  /\ Packed(Bitset!Resized(x, n), Bitset!FirstOf(b_bits[x], n))
           /\ Len(Bitset!FirstOf(b_bits[x], n)) = n
<1> DEFINE bs == b_bits[x]
           c == Bitset!Cleared(x)
           r == Bitset!Resized(x, n)
           rs == Bitset!FirstOf(bs, n)
<1>1. PICK m \in Nat, l \in Nat :
          /\ m = Len(bs) /\ l = Bitset!word_size(m) /\ c \in [1..l -> Bitset!Word]
          /\ \A i \in Nat : Bitset!word_index(i) + 1 <= l =>
                Bitset!bit_index(i) \in c[Bitset!word_index(i) + 1] <=> i < m /\ bs[i + 1] = TRUE
  BY BitsetCleared
<1>2. bs \in [1..m -> BOOLEAN]
  BY <1>1 DEF BitsetInv, Packed
<1>3. PICK q \in Nat : q = Bitset!word_size(n)
  BY WordsReach
<1>4. FirstBitsAre(rs, bs, m, n)
  <2> HIDE DEF bs, rs
  <2>1. rs = Bitset!FirstOf(bs, n)
    BY DEF rs
  <2> QED  BY <1>1, <1>2, <2>1, FirstBits
<1>5. /\ r \in [1..q -> Bitset!Word]
      /\ \A k \in 1..q : IF k <= l THEN k \in 1..l /\ r[k] = c[k] ELSE r[k] = {}
  <2>1. PICK e : e = c /\ e \in [1..l -> Bitset!Word]
    BY <1>1
  <2>2. Len(e) = l
    BY <1>1, <2>1, AsSequence
  <2>3. CASE q <= l
    <3>1. r = SubSeq(e, 1, q)
      BY <1>3, <2>1, <2>2, <2>3 DEF Bitset!Resized
    <3>2. \A k \in 1..q : k <= l /\ k \in 1..l
      BY <1>1, <1>3, <2>3
    <3> HIDE DEF c, r
    <3>3. Cuts(r, e, q, Bitset!Word)
      BY <1>1, <1>3, <2>1, <2>3, <3>1, CutBits
    <3> QED  BY <2>1, <3>2, <3>3 DEF Cuts
  <2>4. CASE ~(q <= l)
    <3>1. PICK d \in Nat : d = q - l /\ q = l + d
      <4>1. q - l \in Nat /\ q = l + (q - l)
        BY <1>1, <1>3, <2>4
      <4> QED  BY <4>1
    <3>2. PICK w : w = Bitset!Words({}, d)
      OBVIOUS
    <3>3. r = e \o w
      BY <1>3, <2>1, <2>2, <2>4, <3>1, <3>2 DEF Bitset!Resized
    <3>4. w \in [1..d -> Bitset!Word] /\ \A k \in 1..d : w[k] = {}
      BY <3>2 DEF Bitset!Words, Bitset!Word
    <3> HIDE DEF c, r
    <3>5. Joins(r, e, l, w, d, q, Bitset!Word)
      BY <1>1, <1>3, <2>1, <3>1, <3>3, <3>4, JoinedBits
    <3> QED  BY <2>1, <3>4, <3>5 DEF Joins
  <2> QED  BY <2>3, <2>4
<1> HIDE DEF bs, c, r, rs
<1>6. ASSUME NEW i \in 0..n - 1
      PROVE  rs[i + 1] = TRUE <=> Bitset!bit_index(i) \in r[Bitset!word_index(i) + 1]
  <2>1. PICK k \in Nat : k = Bitset!word_index(i)
    BY Parts
  <2>2. i \in Nat /\ i + 1 \in 1..n /\ k + 1 \in 1..q
    BY <1>3, <2>1, WordsReach
  <2>3. IF i + 1 <= m THEN rs[i + 1] = bs[i + 1] ELSE rs[i + 1] = FALSE
    BY <1>4, <2>2 DEF FirstBitsAre
  <2>4. IF k + 1 <= l THEN r[k + 1] = c[k + 1] ELSE r[k + 1] = {}
    BY <1>5, <2>2
  <2>5. CASE k + 1 <= l
    <3>1. Bitset!bit_index(i) \in c[k + 1] <=> i < m /\ bs[i + 1] = TRUE
      BY <1>1, <2>1, <2>2, <2>5
    <3>2. i < m <=> i + 1 <= m
      BY <1>1, <2>2
    <3> QED  BY <2>1, <2>3, <2>4, <2>5, <3>1, <3>2
  <2>6. CASE ~(k + 1 <= l)
    <3>1. ~(i + 1 <= m)
      <4> SUFFICES ASSUME i + 1 <= m PROVE FALSE
        OBVIOUS
      <4>1. i \in 0..m - 1
        BY <1>1, <2>2
      <4> QED  BY <1>1, <2>1, <2>6, <4>1, WordsReach
    <3> QED  BY <2>1, <2>3, <2>4, <2>6, <3>1
  <2> QED  BY <2>5, <2>6
<1>7. r \in [1..Bitset!word_size(n) -> Bitset!Word] /\ rs \in [1..n -> BOOLEAN]
  BY <1>3, <1>4, <1>5 DEF FirstBitsAre
<1>8. Packed(r, rs) /\ Len(rs) = n
  BY <1>6, <1>7, PackedIf
<1> QED  BY <1>8 DEF r, rs, bs

LEMMA AppendedBit ==
    ASSUME NEW S, NEW m \in Nat, NEW a \in [1..m -> S], NEW b \in S,
           NEW c, c = Append(a, b), NEW l \in Nat, l = m + 1
    PROVE  Appends(c, a, b, m, l, S)
<1>1. a \in Seq(S) /\ Len(a) = m
  BY AsSequence
<1>2. /\ c \in Seq(S) /\ Len(c) = l /\ c[l] = b
      /\ \A i \in 1..Len(a) : c[i] = a[i]
  BY <1>1, AppendProperties
<1>3. c \in [1..l -> S]
  BY <1>2, AsFunction
<1> QED  BY <1>1, <1>2, <1>3 DEF Appends

LEMMA SameBits ==
    ASSUME NEW I, NEW S, NEW f \in [I -> S], NEW g \in [I -> S], \A i \in I : f[i] = g[i]
    PROVE  f = g
  OBVIOUS

LEMMA BitsetPush ==
    ASSUME BitsetInv, NEW x \in Bitsets, NEW b \in BOOLEAN, NEW n, n = b_size[x] + 1
    PROVE  /\ Packed(Bitset!WithBit(Bitset!Resized(x, n), n - 1, b), Append(b_bits[x], b))
           /\ Len(Append(b_bits[x], b)) = n
<1>1. PICK m \in Nat : m = Len(b_bits[x]) /\ b_bits[x] \in [1..m -> BOOLEAN] /\ b_bits[x] \in Seq(BOOLEAN)
  BY DEF BitsetInv, Packed
<1>2. n = m + 1 /\ n \in Nat /\ n - 1 \in 0..n - 1
  BY <1>1 DEF BitsetInv
<1>3. PICK fs : fs = Bitset!FirstOf(b_bits[x], n)
  OBVIOUS
<1>4. Packed(Bitset!Resized(x, n), fs) /\ Len(fs) = n
  BY <1>2, <1>3, BitsetResized
<1>5. Packed(Bitset!WithBit(Bitset!Resized(x, n), n - 1, b), [fs EXCEPT ![n - 1 + 1] = b])
  BY <1>2, <1>4, BitsetWith
<1>6. FirstBitsAre(fs, b_bits[x], m, n)
  BY <1>1, <1>2, <1>3, FirstBits
<1>7. PICK gs : gs = [fs EXCEPT ![n - 1 + 1] = b]
  OBVIOUS
<1>8. /\ gs \in [1..n -> BOOLEAN] /\ gs[n] = b
      /\ \A i \in 1..m : i \in 1..n /\ gs[i] = b_bits[x][i]
  <2>1. n - 1 + 1 = n /\ n \in 1..n
    BY <1>1, <1>2
  <2>2. \A i \in 1..m : i \in 1..n /\ i <= m /\ i # n
    BY <1>1, <1>2
  <2>3. fs \in [1..n -> BOOLEAN] /\ \A i \in 1..m : fs[i] = b_bits[x][i]
    BY <1>6, <2>2 DEF FirstBitsAre
  <2> QED  BY <1>7, <2>1, <2>2, <2>3
<1>9. PICK hs : hs = Append(b_bits[x], b)
  OBVIOUS
<1>10. hs \in [1..n -> BOOLEAN] /\ hs[n] = b /\ \A i \in 1..m : hs[i] = b_bits[x][i]
  <2>1. Appends(hs, b_bits[x], b, m, n, BOOLEAN)
    BY <1>1, <1>2, <1>9, AppendedBit
  <2> QED  BY <2>1 DEF Appends
<1>11. gs = hs
  <2>1. \A i \in 1..n : i = n \/ i \in 1..m
    BY <1>1, <1>2
  <2>2. \A i \in 1..n : gs[i] = hs[i]
    BY <1>8, <1>10, <2>1
  <2>3. gs \in [1..n -> BOOLEAN] /\ hs \in [1..n -> BOOLEAN]
    BY <1>8, <1>10
  <2> QED  BY <2>2, <2>3, SameBits
<1>12. Len(hs) = n
  BY <1>2, <1>10
<1> QED  BY <1>5, <1>7, <1>9, <1>11, <1>12

\* The n bits bs are those of the words s.
ReadsAs(s, bs, n) ==
    \A i \in 0..n - 1 : bs[i + 1] = TRUE <=> Bitset!bit_index(i) \in s[Bitset!word_index(i) + 1]

LEMMA PackedAs ==
    ASSUME NEW n \in Nat, NEW s \in [1..Bitset!word_size(n) -> Bitset!Word], NEW bs \in [1..n -> BOOLEAN],
           ReadsAs(s, bs, n)
    PROVE  Packed(s, bs) /\ Len(bs) = n
  BY PackedIf DEF ReadsAs

LEMMA InShiftLeft ==
    ASSUME NEW u \in Bitset!Word, NEW n \in Nat
    PROVE  /\ Bitset!ShiftLeft(u, n) \in Bitset!Word
           /\ \A b \in Bitset!Bit : b \in Bitset!ShiftLeft(u, n) <=> b >= n /\ b - n \in u
<1>1. \A c \in u : c \in Nat
  BY BitsAssumption DEF Bitset!Word, Bitset!Bit
<1>2. ASSUME NEW b \in Bitset!Bit
      PROVE  b \in Bitset!ShiftLeft(u, n) <=> b >= n /\ b - n \in u
  <2>1. b \in Nat
    BY <1>2, BitsAssumption DEF Bitset!Bit
  <2>2. ASSUME b >= n, b - n \in u PROVE b \in Bitset!ShiftLeft(u, n)
    <3>1. b = (b - n) + n
      BY <2>1
    <3> QED  BY <2>2, <3>1 DEF Bitset!ShiftLeft
  <2>3. ASSUME b \in Bitset!ShiftLeft(u, n) PROVE b >= n /\ b - n \in u
    <3>1. PICK c \in u : b = c + n
      BY <2>3 DEF Bitset!ShiftLeft
    <3>2. c \in Nat
      BY <1>1, <3>1
    <3>3. b - n = c /\ b >= n
      BY <3>1, <3>2
    <3> QED  BY <3>1, <3>3
  <2> QED  BY <2>2, <2>3
<1>3. Bitset!ShiftLeft(u, n) \in Bitset!Word
  BY DEF Bitset!ShiftLeft, Bitset!Word
<1> QED  BY <1>2, <1>3

LEMMA InShiftRight ==
    ASSUME NEW u \in Bitset!Word, NEW n \in Nat
    PROVE  /\ Bitset!ShiftRight(u, n) \in Bitset!Word
           /\ \A b \in Bitset!Bit : b \in Bitset!ShiftRight(u, n) <=> b + n \in u
<1>1. \A c \in u : c \in Nat
  BY BitsAssumption DEF Bitset!Word, Bitset!Bit
<1>2. ASSUME NEW b \in Bitset!Bit
      PROVE  b \in Bitset!ShiftRight(u, n) <=> b + n \in u
  <2>1. b \in Nat
    BY <1>2, BitsAssumption DEF Bitset!Bit
  <2>2. ASSUME b + n \in u PROVE b \in Bitset!ShiftRight(u, n)
    <3>1. b = (b + n) - n
      BY <2>1
    <3> QED  BY <2>2, <3>1 DEF Bitset!ShiftRight
  <2>3. ASSUME b \in Bitset!ShiftRight(u, n) PROVE b + n \in u
    <3>1. PICK c \in u : b = c - n
      BY <2>3 DEF Bitset!ShiftRight
    <3>2. c \in Nat
      BY <1>1, <3>1
    <3>3. b + n = c
      BY <3>1, <3>2
    <3> QED  BY <3>1, <3>3
  <2> QED  BY <2>2, <2>3
<1>3. Bitset!ShiftRight(u, n) \in Bitset!Word
  BY DEF Bitset!ShiftRight, Bitset!Word
<1> QED  BY <1>2, <1>3

\* What the words and the bits of x are in a state of the invariant.
LEMMA BitsetOf ==
    ASSUME BitsetInv, NEW x \in Bitsets
    PROVE  \E m \in Nat, l \in Nat :
              /\ m = b_size[x] /\ m = Len(b_bits[x]) /\ l = Bitset!word_size(m) /\ Len(b_buf[x]) = l
              /\ b_buf[x] \in [1..l -> Bitset!Word] /\ b_bits[x] \in [1..m -> BOOLEAN]
              /\ \A i \in 0..m - 1 :
                    /\ Bitset!word_index(i) + 1 \in 1..l
                    /\ b_bits[x][i + 1] = TRUE <=> Bitset!bit_index(i) \in b_buf[x][Bitset!word_index(i) + 1]
<1>1. Packed(b_buf[x], b_bits[x]) /\ b_size[x] = Len(b_bits[x])
  BY DEF BitsetInv
<1>2. PICK m \in Nat :
         /\ m = Len(b_bits[x]) /\ Len(b_buf[x]) = Bitset!word_size(m)
         /\ b_buf[x] \in [1..Bitset!word_size(m) -> Bitset!Word] /\ b_bits[x] \in [1..m -> BOOLEAN]
         /\ \A i \in 0..m - 1 :
               b_bits[x][i + 1] = TRUE <=> Bitset!bit_index(i) \in b_buf[x][Bitset!word_index(i) + 1]
  BY <1>1, PackedThen
<1>3. PICK l \in Nat : l = Bitset!word_size(m)
  BY WordsReach
<1>4. \A i \in 0..m - 1 : Bitset!word_index(i) + 1 \in 1..l
  BY <1>3, WordsReach
<1>5. /\ m = b_size[x] /\ m = Len(b_bits[x]) /\ l = Bitset!word_size(m) /\ Len(b_buf[x]) = l
      /\ b_buf[x] \in [1..l -> Bitset!Word] /\ b_bits[x] \in [1..m -> BOOLEAN]
  BY <1>1, <1>2, <1>3
<1> QED  BY <1>2, <1>4, <1>5

\* The words of y after whole words of x.
LEMMA BitsetConcatenated ==
    ASSUME BitsetInv, NEW x \in Bitsets, NEW y \in Bitsets, Bitset!bit_index(b_size[x]) = 0
    PROVE  /\ Packed(b_buf[x] \o b_buf[y], b_bits[x] \o b_bits[y])
           /\ Len(b_bits[x] \o b_bits[y]) = b_size[x] + b_size[y]
<1>1. PICK m \in Nat, l \in Nat :
         /\ m = b_size[x] /\ m = Len(b_bits[x]) /\ l = Bitset!word_size(m) /\ Len(b_buf[x]) = l
         /\ b_buf[x] \in [1..l -> Bitset!Word] /\ b_bits[x] \in [1..m -> BOOLEAN]
         /\ \A i \in 0..m - 1 :
               /\ Bitset!word_index(i) + 1 \in 1..l
               /\ b_bits[x][i + 1] = TRUE <=> Bitset!bit_index(i) \in b_buf[x][Bitset!word_index(i) + 1]
  BY BitsetOf
<1>2. PICK d \in Nat, q \in Nat :
         /\ d = b_size[y] /\ d = Len(b_bits[y]) /\ q = Bitset!word_size(d) /\ Len(b_buf[y]) = q
         /\ b_buf[y] \in [1..q -> Bitset!Word] /\ b_bits[y] \in [1..d -> BOOLEAN]
         /\ \A i \in 0..d - 1 :
               /\ Bitset!word_index(i) + 1 \in 1..q
               /\ b_bits[y][i + 1] = TRUE <=> Bitset!bit_index(i) \in b_buf[y][Bitset!word_index(i) + 1]
  BY BitsetOf
<1>3. PICK s, t, bs, cs : s = b_buf[x] /\ t = b_buf[y] /\ bs = b_bits[x] /\ cs = b_bits[y]
  OBVIOUS
<1>4. Bitset!word_index(m) = l /\ Bitset!bit_index(m) = 0
  <2>1. Bitset!word_index(m) \in Nat
    BY <1>1, Located
  <2> QED  BY <1>1, <2>1, WordsFor
<1>5. ASSUME NEW j \in Nat
      PROVE  Bitset!word_index(m + j) = l + Bitset!word_index(j) /\ Bitset!bit_index(m + j) = Bitset!bit_index(j)
  <2>1. PICK k \in Nat, b \in Nat : k = Bitset!word_index(j) /\ b = Bitset!bit_index(j) /\ b < bits_per_word
    BY Parts
  <2>2. 0 + b = b /\ b < bits_per_word
    BY <2>1
  <2> QED  BY <1>1, <1>4, <2>1, <2>2, LocatedSum
<1>n. m \in Nat /\ l \in Nat
  BY <1>1
<1>q. d \in Nat /\ q \in Nat
  BY <1>2
<1>6. PICK n \in Nat : n = m + d
  BY <1>n, <1>q
<1>r. PICK r, rs : r = s \o t /\ rs = bs \o cs
  OBVIOUS
<1>7. Bitset!word_size(n) = l + q
  <2>1. PICK k \in Nat, b \in Nat : k = Bitset!word_index(d) /\ b = Bitset!bit_index(d)
    BY <1>2, Parts
  <2>2. Bitset!word_index(n) = l + k /\ Bitset!bit_index(n) = b
    BY <1>2, <1>5, <1>6, <2>1
  <2>3. n \in Nat /\ Bitset!word_size(n) = Bitset!word_index(n) + (IF Bitset!bit_index(n) = 0 THEN 0 ELSE 1)
    BY <1>6, WordsFor
  <2>4. q = k + (IF b = 0 THEN 0 ELSE 1)
    BY <1>2, <2>1, WordsFor
  <2> QED  BY <1>n, <2>1, <2>2, <2>3, <2>4
<1>8. PICK e \in Nat : e = l + q
  BY <1>n, <1>q
<1>9. Joins(r, s, l, t, q, e, Bitset!Word)
  BY <1>1, <1>2, <1>3, <1>8, <1>r, JoinedBits
<1>10. Joins(rs, bs, m, cs, d, n, BOOLEAN)
  BY <1>1, <1>2, <1>3, <1>6, <1>r, JoinedBits
<1>11. ASSUME NEW i \in 0..n - 1
       PROVE  rs[i + 1] = TRUE <=> Bitset!bit_index(i) \in r[Bitset!word_index(i) + 1]
  <2>1. i + 1 \in 1..n /\ i \in Nat
    BY <1>6
  <2>2. CASE i < m
    <3>1. i \in 0..m - 1
      BY <1>n, <2>1, <2>2
    <3>2. PICK k \in Nat : k = Bitset!word_index(i) + 1 /\ k \in 1..l
      BY <1>1, <3>1
    <3>3. k \in 1..e /\ k <= l
      BY <1>n, <1>q, <1>8, <3>2
    <3>4. r[k] = s[k]
      BY <1>9, <3>3 DEF Joins
    <3>5. rs[i + 1] = bs[i + 1]
      <4>1. i + 1 <= m
        BY <1>n, <2>1, <2>2
      <4> QED  BY <1>10, <2>1, <4>1 DEF Joins
    <3>6. bs[i + 1] = TRUE <=> Bitset!bit_index(i) \in s[k]
      BY <1>1, <1>3, <3>1, <3>2
    <3> QED  BY <3>2, <3>4, <3>5, <3>6
  <2>3. CASE ~(i < m)
    <3>1. PICK j \in Nat : i = m + j /\ j \in 0..d - 1 /\ i + 1 - m = j + 1 /\ ~(i + 1 <= m)
      <4>1. i - m \in Nat /\ i = m + (i - m) /\ (i - m) \in 0..d - 1 /\ i + 1 - m = (i - m) + 1 /\ ~(i + 1 <= m)
        BY <1>n, <1>q, <1>6, <2>1, <2>3
      <4> QED  BY <4>1
    <3>2. PICK k \in Nat : k = Bitset!word_index(j) + 1 /\ k \in 1..q
      <4>1. j \in Nat /\ j \in 0..d - 1
        BY <3>1
      <4>2. Bitset!word_index(j) + 1 \in 1..q
        BY <1>2, <4>1
      <4> QED  BY <1>n, <1>q, <4>2
    <3>3. Bitset!word_index(i) + 1 = l + k /\ Bitset!bit_index(i) = Bitset!bit_index(j)
      <4>1. Bitset!word_index(i) = l + Bitset!word_index(j) /\ Bitset!bit_index(i) = Bitset!bit_index(j)
        BY <1>5, <3>1
      <4>2. Bitset!word_index(j) \in Nat
        BY <3>1, Located
      <4> QED  BY <1>1, <3>2, <4>1, <4>2
    <3>4. l + k \in 1..e /\ ~(l + k <= l) /\ (l + k) - l = k
      BY <1>n, <1>q, <1>8, <3>2
    <3>5. r[l + k] = t[k]
      <4>1. PICK g : g = l + k
        OBVIOUS
      <4>2. g \in 1..e /\ ~(g <= l)
        BY <3>4, <4>1
      <4>3. r[g] = t[g - l]
        BY <1>9, <4>2 DEF Joins
      <4> QED  BY <3>4, <4>1, <4>3
    <3>6. rs[i + 1] = cs[j + 1]
      <4>1. PICK g \in 1..n : g = i + 1 /\ ~(g <= m) /\ g - m = j + 1
        BY <2>1, <3>1
      <4>2. rs[g] = cs[g - m]
        BY <1>10, <4>1 DEF Joins
      <4> QED  BY <4>1, <4>2
    <3>7. cs[j + 1] = TRUE <=> Bitset!bit_index(j) \in t[k]
      BY <1>2, <1>3, <3>1, <3>2
    <3> QED  BY <3>3, <3>5, <3>6, <3>7
  <2> QED  BY <2>2, <2>3
<1>12. r \in [1..Bitset!word_size(n) -> Bitset!Word] /\ rs \in [1..n -> BOOLEAN]
  BY <1>7, <1>8, <1>9, <1>10 DEF Joins
<1>13. Packed(r, rs) /\ Len(rs) = n
  <2>1. n \in Nat
    BY <1>6
  <2>2. ReadsAs(r, rs, n)
    BY <1>11 DEF ReadsAs
  <2> QED  BY <1>12, <2>1, <2>2, PackedAs
<1>14. n = b_size[x] + b_size[y]
  BY <1>1, <1>2, <1>6
<1> QED  BY <1>3, <1>13, <1>14, <1>r

\* The words of y shifted into those of x.
LEMMA BitsetShifted ==
    ASSUME BitsetInv, NEW x \in Bitsets, NEW y \in Bitsets, Bitset!bit_index(b_size[x]) # 0
    PROVE  /\ Packed(Bitset!Shifted(x, y), b_bits[x] \o b_bits[y])
           /\ Len(b_bits[x] \o b_bits[y]) = b_size[x] + b_size[y]
<1>1. PICK m \in Nat, l \in Nat :
         /\ m = b_size[x] /\ m = Len(b_bits[x]) /\ l = Bitset!word_size(m) /\ Len(b_buf[x]) = l
         /\ b_buf[x] \in [1..l -> Bitset!Word] /\ b_bits[x] \in [1..m -> BOOLEAN]
         /\ \A i \in 0..m - 1 :
               /\ Bitset!word_index(i) + 1 \in 1..l
               /\ b_bits[x][i + 1] = TRUE <=> Bitset!bit_index(i) \in b_buf[x][Bitset!word_index(i) + 1]
  BY BitsetOf
<1>2. PICK d \in Nat, q \in Nat :
         /\ d = b_size[y] /\ d = Len(b_bits[y]) /\ q = Bitset!word_size(d) /\ Len(b_buf[y]) = q
         /\ b_buf[y] \in [1..q -> Bitset!Word] /\ b_bits[y] \in [1..d -> BOOLEAN]
         /\ \A i \in 0..d - 1 :
               /\ Bitset!word_index(i) + 1 \in 1..q
               /\ b_bits[y][i + 1] = TRUE <=> Bitset!bit_index(i) \in b_buf[y][Bitset!word_index(i) + 1]
  BY BitsetOf
<1>m. m \in Nat /\ l \in Nat
  BY <1>1
<1>d. d \in Nat /\ q \in Nat
  BY <1>2
<1>3. PICK n \in Nat : n = m + d
  BY <1>m, <1>d
<1>4. PICK t, bs, cs, fs, s, r, rs :
         /\ t = b_buf[y] /\ bs = b_bits[x] /\ cs = b_bits[y]
         /\ fs = Bitset!FirstOf(b_bits[x], n) /\ s = Bitset!Resized(x, n)
         /\ r = Bitset!Shifted(x, y) /\ rs = bs \o cs
  OBVIOUS
<1>5. PICK w \in Nat : w = bits_per_word /\ w > 0
  BY BitsAssumption
<1>6. PICK k \in Nat, p \in Nat : k = Bitset!word_index(m) /\ p = Bitset!bit_index(m) /\ p < w
  BY <1>m, <1>5, Parts
<1>7. p # 0 /\ l = k + 1
  <2>1. p # 0
    BY <1>1, <1>6
  <2> QED  BY <1>1, <1>6, <2>1, WordsFor
<1>8. FirstBitsAre(fs, bs, m, n)
  BY <1>1, <1>3, <1>4, FirstBits
<1>9. PICK e \in Nat : e = Bitset!word_size(n)
  BY WordsReach
<1>10. s \in [1..e -> Bitset!Word] /\ ReadsAs(s, fs, n)
  <2>1. Packed(s, fs) /\ Len(fs) = n
    BY <1>4, BitsetResized
  <2> QED  BY <1>9, <2>1 DEF Packed, ReadsAs
<1>11. Joins(rs, bs, m, cs, d, n, BOOLEAN)
  BY <1>1, <1>2, <1>3, <1>4, JoinedBits
<1> DEFINE Low(j) == IF j \in 1..q THEN Bitset!ShiftLeft(t[j], p) ELSE {}
           High(j) == IF j \in 1..q THEN Bitset!ShiftRight(t[j], w - p) ELSE {}
<1>12. r = [j \in 1..e |-> IF j < l THEN s[j]
                          ELSE (IF j = l THEN s[j] ELSE High(j - l)) \cup Low(j - l + 1)]
  <2>1. DOMAIN s = 1..e /\ DOMAIN b_buf[y] = 1..q
    BY <1>2, <1>10
  <2>2. s = Bitset!Resized(x, b_size[x] + b_size[y])
    BY <1>1, <1>2, <1>3, <1>4
  <2> QED  BY <1>1, <1>4, <1>5, <1>6, <2>1, <2>2 DEF Bitset!Shifted
<1>13. ASSUME NEW j \in Nat
       PROVE  /\ Low(j) \in Bitset!Word /\ High(j) \in Bitset!Word
              /\ \A b \in Bitset!Bit :
                    /\ b \in Low(j) <=> j \in 1..q /\ b >= p /\ b - p \in t[j]
                    /\ b \in High(j) <=> j \in 1..q /\ b + (w - p) \in t[j]
  <2>1. CASE j \in 1..q
    <3>1. t[j] \in Bitset!Word
      BY <1>2, <1>4, <2>1
    <3>2. w - p \in Nat
      BY <1>5, <1>6
    <3>3. Low(j) = Bitset!ShiftLeft(t[j], p) /\ High(j) = Bitset!ShiftRight(t[j], w - p)
      BY <2>1
    <3> HIDE DEF Low, High
    <3>4. PICK u : u = t[j]
      OBVIOUS
    <3>5. p \in Nat /\ u \in Bitset!Word
      BY <1>6, <3>1, <3>4
    <3>6. /\ Bitset!ShiftLeft(u, p) \in Bitset!Word
          /\ \A b \in Bitset!Bit : b \in Bitset!ShiftLeft(u, p) <=> b >= p /\ b - p \in u
      BY <3>5, InShiftLeft
    <3>7. PICK z \in Nat : z = w - p
      BY <3>2
    <3>8. /\ Bitset!ShiftRight(u, z) \in Bitset!Word
          /\ \A b \in Bitset!Bit : b \in Bitset!ShiftRight(u, z) <=> b + z \in u
      BY <3>5, <3>7, InShiftRight
    <3> QED  BY <2>1, <3>3, <3>4, <3>6, <3>7, <3>8
  <2>2. CASE j \notin 1..q
    <3>1. {} \in Bitset!Word
      BY DEF Bitset!Word
    <3> QED  BY <2>2, <3>1
  <2> QED  BY <2>1, <2>2
<1> HIDE DEF Low, High
<1>14. r \in [1..e -> Bitset!Word]
  <2>1. ASSUME NEW j \in 1..e
        PROVE  (IF j < l THEN s[j] ELSE (IF j = l THEN s[j] ELSE High(j - l)) \cup Low(j - l + 1)) \in Bitset!Word
    <3>1. s[j] \in Bitset!Word
      BY <1>10
    <3>2. CASE j < l
      BY <3>1, <3>2
    <3>3. CASE ~(j < l)
      <4>1. j - l \in Nat /\ j - l + 1 \in Nat
        BY <1>m, <3>3
      <4>2. High(j - l) \in Bitset!Word /\ Low(j - l + 1) \in Bitset!Word
        BY <1>13, <4>1
      <4>3. \A u, z \in Bitset!Word : u \cup z \in Bitset!Word
        BY DEF Bitset!Word
      <4> QED  BY <3>1, <3>3, <4>2, <4>3
    <3> QED  BY <3>2, <3>3
  <2> QED  BY <1>12, <2>1
<1>15. ASSUME NEW i \in 0..n - 1
       PROVE  rs[i + 1] = TRUE <=> Bitset!bit_index(i) \in r[Bitset!word_index(i) + 1]
  <2>1. i + 1 \in 1..n /\ i \in Nat
    BY <1>3
  <2>2. PICK g \in Nat, b \in Nat : g = Bitset!word_index(i) /\ b = Bitset!bit_index(i) /\ b < w
    BY <1>5, <2>1, Parts
  <2>3. g + 1 \in 1..e /\ b \in Bitset!Bit
    BY <1>9, <2>1, <2>2, WordsReach, Located
  <2>4. fs[i + 1] = TRUE <=> b \in s[g + 1]
    BY <1>10, <2>2 DEF ReadsAs
  <2>5. CASE i < m
    <3>1. g < k \/ (g = k /\ b < p)
      BY <1>m, <1>6, <2>1, <2>2, <2>5, LocatedLess
    <3>2. i + 1 <= m
      BY <1>m, <2>1, <2>5
    <3>3. rs[i + 1] = bs[i + 1] /\ fs[i + 1] = bs[i + 1]
      BY <1>8, <1>11, <2>1, <3>2 DEF Joins, FirstBitsAre
    <3>4. CASE g < k
      <4>1. g + 1 < l
        BY <1>7, <1>6, <2>2, <3>4
      <4>2. r[g + 1] = s[g + 1]
        BY <1>12, <2>3, <4>1
      <4> QED  BY <2>2, <2>4, <3>3, <4>2
    <3>5. CASE g = k /\ b < p
      <4>1. g + 1 = l /\ ~(g + 1 < l) /\ g + 1 - l + 1 = 1
        BY <1>7, <1>6, <2>2, <3>5
      <4>2. r[g + 1] = s[g + 1] \cup Low(1)
        <5>1. r[g + 1] = (IF g + 1 = l THEN s[g + 1] ELSE High(g + 1 - l)) \cup Low(g + 1 - l + 1)
          BY <1>12, <2>3, <4>1
        <5>2. r[g + 1] = s[g + 1] \cup Low(g + 1 - l + 1)
          BY <4>1, <5>1
        <5> QED  BY <4>1, <5>2
      <4>3. b \notin Low(1)
        BY <1>6, <1>13, <2>2, <2>3, <3>5
      <4> QED  BY <2>2, <2>4, <3>3, <4>2, <4>3
    <3> QED  BY <3>1, <3>4, <3>5
  <2>6. CASE ~(i < m)
    <3>1. PICK j \in Nat : i = m + j /\ j \in 0..d - 1 /\ i + 1 - m = j + 1 /\ ~(i + 1 <= m)
      <4>1. i - m \in Nat /\ i = m + (i - m) /\ (i - m) \in 0..d - 1 /\ i + 1 - m = (i - m) + 1 /\ ~(i + 1 <= m)
        BY <1>m, <1>d, <1>3, <2>1, <2>6
      <4> QED  BY <4>1
    <3>2. PICK h \in Nat, c \in Nat : h = Bitset!word_index(j) /\ c = Bitset!bit_index(j) /\ c < w
      BY <1>5, <3>1, Parts
    <3>3. h + 1 \in 1..q
      BY <1>2, <3>1, <3>2
    <3>4. rs[i + 1] = TRUE <=> c \in t[h + 1]
      <4>1. rs[i + 1] = cs[j + 1]
        <5>1. PICK o \in 1..n : o = i + 1 /\ ~(o <= m) /\ o - m = j + 1
          BY <2>1, <3>1
        <5>2. rs[o] = cs[o - m]
          BY <1>11, <5>1 DEF Joins
        <5> QED  BY <5>1, <5>2
      <4>2. cs[j + 1] = TRUE <=> Bitset!bit_index(j) \in t[Bitset!word_index(j) + 1]
        BY <1>2, <1>4, <3>1
      <4> QED  BY <3>2, <4>1, <4>2
    <3>5. fs[i + 1] = FALSE
      BY <1>8, <2>1, <3>1 DEF FirstBitsAre
    <3>6. b \notin s[g + 1]
      BY <2>4, <3>5
    <3>7. CASE c + p < w
      <4>1. g = k + h /\ b = p + c
        <5>1. PICK v \in Nat : v = p + c /\ v < w
          BY <1>6, <3>2, <3>7
        <5> QED  BY <1>m, <1>5, <1>6, <2>2, <3>1, <3>2, <5>1, LocatedSum
      <4>2. g + 1 - l = h /\ ~(g + 1 < l) /\ g + 1 - l + 1 = h + 1
        BY <1>6, <1>7, <2>2, <3>2, <4>1
      <4>3. r[g + 1] = (IF g + 1 = l THEN s[g + 1] ELSE High(h)) \cup Low(h + 1)
        BY <1>12, <2>3, <4>2
      <4>4. b \in Low(h + 1) <=> c \in t[h + 1]
        <5>1. b >= p /\ b - p = c
          BY <1>6, <3>2, <4>1
        <5> QED  BY <1>13, <2>3, <3>2, <3>3, <5>1
      <4>5. b \notin High(h)
        <5>1. CASE h \in 1..q
          <6>1. t[h] \subseteq Bitset!Bit
            BY <1>2, <1>4, <5>1 DEF Bitset!Word
          <6>2. b + (w - p) >= w
            BY <1>5, <1>6, <3>2, <4>1
          <6>3. b + (w - p) \notin Bitset!Bit
            BY <1>5, <1>6, <2>2, <6>2 DEF Bitset!Bit
          <6> QED  BY <1>13, <2>3, <3>2, <6>1, <6>3
        <5>2. CASE h \notin 1..q
          BY <1>13, <2>3, <3>2, <5>2
        <5> QED  BY <5>1, <5>2
      <4> QED  BY <2>2, <3>4, <3>6, <4>3, <4>4, <4>5
    <3>8. CASE ~(c + p < w)
      <4>1. g = k + h + 1 /\ b = p + c - w
        <5>1. PICK v \in Nat : v = p + c /\ v >= w
          BY <1>5, <1>6, <3>2, <3>8
        <5>2. PICK u \in Nat : u = k + h
          BY <1>6, <3>2
        <5>3. Bitset!word_index(m + j) = u + 1 /\ Bitset!bit_index(m + j) = v - w
          BY <1>m, <1>5, <1>6, <3>1, <3>2, <5>1, <5>2, LocatedSum
        <5> QED  BY <2>2, <3>1, <5>1, <5>2, <5>3
      <4>2. g + 1 - l = h + 1 /\ ~(g + 1 < l) /\ ~(g + 1 = l) /\ g + 1 - l + 1 = h + 2
        BY <1>6, <1>7, <2>2, <3>2, <4>1
      <4>3. r[g + 1] = High(h + 1) \cup Low(h + 2)
        BY <1>12, <2>3, <4>2
      <4>4. b \in High(h + 1) <=> c \in t[h + 1]
        <5>1. b + (w - p) = c
          BY <1>5, <1>6, <3>2, <4>1
        <5> QED  BY <1>13, <2>3, <3>2, <3>3, <5>1
      <4>5. b \notin Low(h + 2)
        <5>1. ~(b >= p)
          BY <1>5, <1>6, <3>2, <4>1
        <5>2. h + 2 \in Nat
          BY <3>2
        <5> QED  BY <1>13, <2>3, <5>1, <5>2
      <4> QED  BY <2>2, <3>4, <4>3, <4>4, <4>5
    <3> QED  BY <3>7, <3>8
  <2> QED  BY <2>5, <2>6
<1>16. Packed(r, rs) /\ Len(rs) = n
  <2>1. r \in [1..Bitset!word_size(n) -> Bitset!Word]
    BY <1>9, <1>14
  <2>2. rs \in [1..n -> BOOLEAN]
    BY <1>11 DEF Joins
  <2>3. n \in Nat
    BY <1>3
  <2>4. ReadsAs(r, rs, n)
    BY <1>15 DEF ReadsAs
  <2> QED  BY <2>1, <2>2, <2>3, <2>4, PackedAs
<1>17. n = b_size[x] + b_size[y]
  BY <1>1, <1>2, <1>3
<1> QED  BY <1>4, <1>16, <1>17

-----------------------------------------------------------------------------
(* dynamic_bitset: copy.                                                   *)

\* The lead is to the end of the range or of a word.
LEMMA LeadAligns ==
    ASSUME NEW from \in Nat, NEW n \in Nat
    PROVE  \E start \in Nat :
              /\ start = from + Bitset!Lead(from, n) /\ from <= start /\ start <= from + n
              /\ start = from + n \/ Bitset!bit_index(start) = 0
<1>1. PICK w \in Nat : w = bits_per_word /\ w > 0
  BY BitsAssumption
<1>2. PICK k \in Nat, p \in Nat : k = Bitset!word_index(from) /\ p = Bitset!bit_index(from) /\ p < w
  BY <1>1, Parts
<1>3. PICK c : c = Bitset!bit_index(w - p)
  OBVIOUS
<1>4. c \in Nat /\ (p = 0 => c = 0) /\ (p # 0 => c = w - p)
  <2>1. 0 \in Bitset!Bit
    BY <1>1 DEF Bitset!Bit
  <2>2. CASE p = 0
    <3>1. 1 * bits_per_word + 0 = w - p
      BY <1>1, <1>2, <2>2
    <3> QED  BY <1>3, <2>1, <2>2, <3>1, LocatedAt
  <2>3. CASE p # 0
    <3>1. w - p \in Bitset!Bit /\ w - p \in Nat
      BY <1>1, <1>2, <2>3 DEF Bitset!Bit
    <3>2. 0 * bits_per_word + (w - p) = w - p
      BY <1>1, <1>2
    <3> QED  BY <1>3, <2>3, <3>1, <3>2, LocatedAt
  <2> QED  BY <2>2, <2>3
<1>5. Bitset!Lead(from, n) = IF n < c THEN n ELSE c
  BY <1>1, <1>2, <1>3 DEF Bitset!Lead, Bitset!bit_index
<1>6. PICK start \in Nat : start = from + (IF n < c THEN n ELSE c)
  BY <1>4
<1>7. from <= start /\ start <= from + n
  BY <1>4, <1>6
<1>8. start = from + n \/ Bitset!bit_index(start) = 0
  <2>1. CASE p = 0
    <3>1. start = from
      BY <1>4, <1>6, <2>1
    <3> QED  BY <1>2, <2>1, <3>1
  <2>2. CASE p # 0 /\ ~(n < c)
    <3>1. c \in Bitset!Bit /\ c \in Nat
      BY <1>1, <1>2, <1>4, <2>2 DEF Bitset!Bit
    <3>2. 0 * bits_per_word + c = c
      BY <1>1, <3>1
    <3>3. Bitset!bit_index(c) = c /\ Bitset!word_index(c) = 0
      BY <3>1, <3>2, LocatedAt
    <3>4. p + c = w
      BY <1>1, <1>2, <1>4, <2>2
    <3>5. w - w = 0 /\ w >= w
      BY <1>1
    <3>6. Bitset!bit_index(from + c) = 0
      BY <1>1, <1>2, <3>1, <3>3, <3>4, <3>5, LocatedSum
    <3>7. start = from + c
      BY <1>6, <2>2
    <3> QED  BY <3>6, <3>7
  <2>3. CASE n < c
    BY <1>6, <2>3
  <2> QED  BY <2>1, <2>2, <2>3
<1> QED  BY <1>5, <1>6, <1>7, <1>8

\* A place within a word of another one.
LEMMA Further ==
    ASSUME NEW i \in Nat, NEW b \in Bitset!Bit
    PROVE  \E w \in Nat, k \in Nat, p \in Nat :
              /\ w = bits_per_word /\ b \in Nat /\ b < w /\ p < w
              /\ k = Bitset!word_index(i) /\ p = Bitset!bit_index(i)
              /\ p + b < w => Bitset!word_index(i + b) = k /\ Bitset!bit_index(i + b) = p + b
              /\ p + b >= w => Bitset!word_index(i + b) = k + 1 /\ Bitset!bit_index(i + b) = p + b - w
<1>1. PICK w \in Nat : w = bits_per_word /\ w > 0
  BY BitsAssumption
<1>2. b \in Nat /\ b < w
  BY <1>1 DEF Bitset!Bit
<1>3. Bitset!word_index(b) = 0 /\ Bitset!bit_index(b) = b
  <2>1. 0 * bits_per_word + b = b
    BY <1>1, <1>2
  <2> QED  BY <2>1, LocatedAt
<1>4. PICK k \in Nat, p \in Nat : k = Bitset!word_index(i) /\ p = Bitset!bit_index(i) /\ p < w
  BY <1>1, Parts
<1>5. PICK v \in Nat : v = p + b
  BY <1>2
<1>6. k = k + 0
  OBVIOUS
<1>7. /\ v < w => Bitset!word_index(i + b) = k /\ Bitset!bit_index(i + b) = v
      /\ v >= w => Bitset!word_index(i + b) = k + 1 /\ Bitset!bit_index(i + b) = v - w
  BY <1>1, <1>2, <1>3, <1>4, <1>5, <1>6, LocatedSum
<1> QED  BY <1>1, <1>2, <1>4, <1>5, <1>7

\* What the low bits of the words from bit i on are, in one word.
LEMMA RestBit ==
    ASSUME NEW d \in Nat, NEW t \in [1..Bitset!word_size(d) -> Bitset!Word], NEW i \in Nat, i < d,
           NEW b \in Bitset!Bit
    PROVE  b \in Bitset!ShiftRight(Bitset!At(t, Bitset!word_index(i)), Bitset!bit_index(i)) <=>
              /\ Bitset!bit_index(i) + b < bits_per_word
              /\ Bitset!bit_index(i + b) \in t[Bitset!word_index(i + b) + 1]
<1>1. PICK w \in Nat, k \in Nat, p \in Nat :
         /\ w = bits_per_word /\ b \in Nat /\ b < w /\ p < w
         /\ k = Bitset!word_index(i) /\ p = Bitset!bit_index(i)
         /\ p + b < w => Bitset!word_index(i + b) = k /\ Bitset!bit_index(i + b) = p + b
         /\ p + b >= w => Bitset!word_index(i + b) = k + 1 /\ Bitset!bit_index(i + b) = p + b - w
  BY Further
<1>2. PICK u : u = t[k + 1]
  OBVIOUS
<1>3. u \in Bitset!Word
  <2>1. i \in 0..d - 1
    OBVIOUS
  <2>2. k + 1 \in 1..Bitset!word_size(d)
    BY <1>1, <2>1, WordsReach
  <2> QED  BY <1>2, <2>2
<1>4. Bitset!ShiftRight(Bitset!At(t, Bitset!word_index(i)), Bitset!bit_index(i)) = Bitset!ShiftRight(u, p)
  BY <1>1, <1>2 DEF Bitset!At
<1>5. b \in Bitset!ShiftRight(u, p) <=> b + p \in u
  BY <1>1, <1>3, InShiftRight
<1>6. b + p \in u => p + b < w
  <2>1. u \subseteq Bitset!Bit
    BY <1>3 DEF Bitset!Word
  <2>2. b + p \in Bitset!Bit => p + b < w
    BY <1>1 DEF Bitset!Bit
  <2> QED  BY <2>1, <2>2
<1>7. b + p = p + b
  BY <1>1
<1>8. CASE p + b < w
  BY <1>1, <1>2, <1>4, <1>5, <1>7, <1>8
<1>9. CASE ~(p + b < w)
  BY <1>1, <1>4, <1>5, <1>6, <1>9
<1> QED  BY <1>8, <1>9

\* The words from bit i on, in one word.
LEMMA SplicedBit ==
    ASSUME NEW d \in Nat, NEW t \in [1..Bitset!word_size(d) -> Bitset!Word],
           NEW i \in Nat, i + bits_per_word <= d, NEW b \in Bitset!Bit
    PROVE  b \in Bitset!Spliced(t, i) <=> Bitset!bit_index(i + b) \in t[Bitset!word_index(i + b) + 1]
<1>1. PICK w \in Nat, k \in Nat, p \in Nat :
         /\ w = bits_per_word /\ b \in Nat /\ b < w /\ p < w
         /\ k = Bitset!word_index(i) /\ p = Bitset!bit_index(i)
         /\ p + b < w => Bitset!word_index(i + b) = k /\ Bitset!bit_index(i + b) = p + b
         /\ p + b >= w => Bitset!word_index(i + b) = k + 1 /\ Bitset!bit_index(i + b) = p + b - w
  BY Further
<1>2. i < d
  BY <1>1
<1>3. PICK low : low = Bitset!ShiftRight(Bitset!At(t, Bitset!word_index(i)), Bitset!bit_index(i))
  OBVIOUS
<1>4. b \in low <=> p + b < w /\ Bitset!bit_index(i + b) \in t[Bitset!word_index(i + b) + 1]
  BY <1>1, <1>2, <1>3, RestBit
<1>5. CASE p = 0
  <2>1. Bitset!Spliced(t, i) = low
    BY <1>1, <1>3, <1>5 DEF Bitset!Spliced
  <2>2. p + b < w
    BY <1>1, <1>5
  <2> QED  BY <1>4, <2>1, <2>2
<1>6. CASE p # 0
  <2>1. PICK u : u = t[k + 2]
    OBVIOUS
  <2>2. u \in Bitset!Word
    <3>1. w - 1 \in Bitset!Bit /\ p + (w - 1) >= w
      BY <1>1, <1>6 DEF Bitset!Bit
    <3>2. Bitset!word_index(i + (w - 1)) = k + 1
      <4>1. PICK e \in Bitset!Bit : e = w - 1
        BY <3>1
      <4>2. PICK v \in Nat, g \in Nat, h \in Nat :
               /\ v = bits_per_word /\ e \in Nat /\ e < v /\ h < v
               /\ g = Bitset!word_index(i) /\ h = Bitset!bit_index(i)
               /\ h + e < v => Bitset!word_index(i + e) = g /\ Bitset!bit_index(i + e) = h + e
               /\ h + e >= v => Bitset!word_index(i + e) = g + 1 /\ Bitset!bit_index(i + e) = h + e - v
        BY Further
      <4>3. v = w /\ g = k /\ h = p
        BY <1>1, <4>2
      <4> QED  BY <3>1, <4>1, <4>2, <4>3
    <3>3. PICK j \in Nat : j = i + (w - 1) /\ j \in 0..d - 1
      <4>1. i + (w - 1) \in Nat /\ i + (w - 1) \in 0..d - 1
        BY <1>1
      <4> QED  BY <4>1
    <3>4. Bitset!word_index(j) + 1 \in 1..Bitset!word_size(d)
      BY <3>3, WordsReach
    <3>5. k + 2 \in 1..Bitset!word_size(d)
      <4>1. k + 1 + 1 = k + 2
        BY <1>1
      <4> QED  BY <3>2, <3>3, <3>4, <4>1
    <3> QED  BY <2>1, <3>5
  <2>3. PICK z \in Nat : z = w - p
    BY <1>1
  <2>4. Bitset!Spliced(t, i) = low \cup Bitset!ShiftLeft(u, z)
    <3>1. k + 1 + 1 = k + 2
      BY <1>1
    <3> QED  BY <1>1, <1>3, <1>6, <2>1, <2>3, <3>1 DEF Bitset!Spliced, Bitset!At
  <2>5. b \in Bitset!ShiftLeft(u, z) <=> b >= z /\ b - z \in u
    BY <2>2, <2>3, InShiftLeft
  <2>6. CASE p + b < w
    <3>1. ~(b >= z)
      BY <1>1, <2>3, <2>6
    <3> QED  BY <1>4, <2>4, <2>5, <2>6, <3>1
  <2>7. CASE ~(p + b < w)
    <3>1. b >= z /\ b - z = p + b - w /\ p + b >= w /\ k + 1 + 1 = k + 2
      BY <1>1, <2>3, <2>7
    <3>2. Bitset!bit_index(i + b) = b - z /\ Bitset!word_index(i + b) + 1 = k + 2
      BY <1>1, <3>1
    <3> QED  BY <1>4, <2>1, <2>4, <2>5, <2>7, <3>1, <3>2
  <2> QED  BY <2>6, <2>7
<1> QED  BY <1>5, <1>6

\* Bits of another one are copied.
CopiedBits(x, from, n, y, source) ==
    [i \in DOMAIN b_bits[x] |->
       IF i - 1 \in Bitset!LostBits(from, n, source) THEN FALSE
       ELSE IF from < i /\ i <= from + n THEN b_bits[y][i - from + source]
       ELSE b_bits[x][i]]

LEMMA BitsetCopied ==
    ASSUME BitsetInv, NEW x \in Bitsets, NEW y \in Bitsets, NEW from \in Nat, NEW n \in Nat, NEW source \in Nat,
           from + n <= b_size[x], source + n <= b_size[y]
    PROVE  /\ Packed(Bitset!Copied(x, from, n, y, source), CopiedBits(x, from, n, y, source))
           /\ Len(CopiedBits(x, from, n, y, source)) = b_size[x]
<1>r. PICK rs : rs = CopiedBits(x, from, n, y, source)
  OBVIOUS
<1>1. PICK m \in Nat, l \in Nat :
         /\ m = b_size[x] /\ m = Len(b_bits[x]) /\ l = Bitset!word_size(m) /\ Len(b_buf[x]) = l
         /\ b_buf[x] \in [1..l -> Bitset!Word] /\ b_bits[x] \in [1..m -> BOOLEAN]
         /\ \A i \in 0..m - 1 :
               /\ Bitset!word_index(i) + 1 \in 1..l
               /\ b_bits[x][i + 1] = TRUE <=> Bitset!bit_index(i) \in b_buf[x][Bitset!word_index(i) + 1]
  BY BitsetOf
<1>2. PICK d \in Nat, q \in Nat :
         /\ d = b_size[y] /\ d = Len(b_bits[y]) /\ q = Bitset!word_size(d) /\ Len(b_buf[y]) = q
         /\ b_buf[y] \in [1..q -> Bitset!Word] /\ b_bits[y] \in [1..d -> BOOLEAN]
         /\ \A i \in 0..d - 1 :
               /\ Bitset!word_index(i) + 1 \in 1..q
               /\ b_bits[y][i + 1] = TRUE <=> Bitset!bit_index(i) \in b_buf[y][Bitset!word_index(i) + 1]
  BY BitsetOf
<1>3. PICK s, t, bs, cs, r :
         /\ s = b_buf[x] /\ t = b_buf[y] /\ bs = b_bits[x] /\ cs = b_bits[y]
         /\ r = Bitset!Copied(x, from, n, y, source)
  OBVIOUS
<1>4. PICK to \in Nat : to = from + n
  OBVIOUS
<1>5. PICK start \in Nat :
         /\ start = from + Bitset!Lead(from, n) /\ from <= start /\ start <= to
         /\ start = to \/ Bitset!bit_index(start) = 0
  BY <1>4, LeadAligns
<1>6. m \in Nat /\ l \in Nat /\ to <= m
  BY <1>1, <1>4
<1>7. d \in Nat /\ q \in Nat /\ source + n <= d
  BY <1>2
<1>8. PICK w \in Nat : w = bits_per_word /\ w > 0
  BY BitsAssumption
<1>9. PICK a \in Nat, z \in Nat : a = Bitset!word_index(to) /\ z = Bitset!bit_index(to) /\ z < w /\ to = a * w + z
  BY <1>8, Parts
<1>10. PICK rest \in Nat : rest = to - z /\ rest = a * w
  <2>1. a * w \in Nat
    BY <1>9, Scaled
  <2>2. to - z = a * w
    BY <1>9, <2>1
  <2> QED  BY <2>1, <2>2
<1>z. rest = to - z /\ z < w /\ z \in Nat
  BY <1>9, <1>10
<1>11. Bitset!LostBits(from, n, source) =
          {i \in rest..to - 1 : rest >= start /\ Bitset!bit_index(source + (rest - from)) + (i - rest) >= w}
  BY <1>4, <1>5, <1>8, <1>9, <1>10 DEF Bitset!LostBits
<1> DEFINE lead == [k \in 1..l |->
              {b \in Bitset!Bit :
                  IF from <= (k - 1) * w + b /\ (k - 1) * w + b < start
                  THEN Bitset!test(y, source + (((k - 1) * w + b) - from))
                  ELSE b \in s[k]}]
<1>12. r = [k \in 1..l |->
              IF (k - 1) * w < start \/ (k - 1) * w >= to THEN lead[k]
              ELSE IF to - (k - 1) * w >= w THEN Bitset!Spliced(t, source + ((k - 1) * w - from))
              ELSE Bitset!Rest(t, source + ((k - 1) * w - from), lead[k], to)]
  <2>1. DOMAIN s = 1..l
    BY <1>1, <1>3
  <2> QED  BY <1>3, <1>4, <1>5, <1>8, <2>1 DEF Bitset!Copied
<1>13. \A k \in 1..l : lead[k] \subseteq Bitset!Bit
  OBVIOUS
<1>14. ASSUME NEW k \in 1..l, NEW b \in Bitset!Bit
       PROVE  b \in lead[k] <=>
                 IF from <= (k - 1) * w + b /\ (k - 1) * w + b < start
                 THEN Bitset!test(y, source + (((k - 1) * w + b) - from))
                 ELSE b \in s[k]
  OBVIOUS
<1> HIDE DEF lead
<1>15. r \in [1..l -> Bitset!Word]
  <2>1. ASSUME NEW k \in 1..l, NEW i
        PROVE  /\ lead[k] \in Bitset!Word /\ Bitset!Spliced(t, i) \in Bitset!Word
               /\ Bitset!Rest(t, i, lead[k], to) \in Bitset!Word
    BY <1>13 DEF Bitset!Word, Bitset!Spliced, Bitset!Rest, Bitset!ShiftLeft, Bitset!ShiftRight
  <2> QED  BY <1>12, <2>1
<1>16. ASSUME NEW i \in Nat, from <= i, i < to
       PROVE  /\ source + (i - from) \in 0..d - 1
              /\ cs[i + 1 - from + source] = TRUE <=> Bitset!test(y, source + (i - from))
  <2>1. PICK j \in 0..d - 1 : j = source + (i - from) /\ i + 1 - from + source = j + 1
    <3>1. source + (i - from) \in 0..d - 1 /\ i + 1 - from + source = source + (i - from) + 1
      BY <1>4, <1>7, <1>16
    <3> QED  BY <3>1
  <2>2. cs[j + 1] = TRUE <=> Bitset!bit_index(j) \in t[Bitset!word_index(j) + 1]
    BY <1>2, <1>3
  <2>3. Bitset!test(y, j) <=> Bitset!bit_index(j) \in t[Bitset!word_index(j) + 1]
    BY <1>3 DEF Bitset!test, Bitset!At
  <2> QED  BY <2>1, <2>2, <2>3
<1>17. rs \in [1..m -> BOOLEAN]
  <2>1. ASSUME NEW i \in 1..m, from < i, i <= to
        PROVE  cs[i - from + source] \in BOOLEAN
    <3>1. i - from + source \in 1..d
      BY <1>4, <1>7, <2>1
    <3> QED  BY <1>2, <1>3, <3>1
  <2>2. \A i \in 1..m : bs[i] \in BOOLEAN
    BY <1>1, <1>3
  <2>3. rs = [i \in 1..m |->
                 IF i - 1 \in Bitset!LostBits(from, n, source) THEN FALSE
                 ELSE IF from < i /\ i <= to THEN cs[i - from + source] ELSE bs[i]]
    <3>1. DOMAIN b_bits[x] = 1..m
      BY <1>1
    <3> QED  BY <1>r, <1>3, <1>4, <3>1 DEF CopiedBits
  <2> QED  BY <2>1, <2>2, <2>3
<1>18. ASSUME NEW i \in Nat, i < m
       PROVE  rs[i + 1] = IF i \in Bitset!LostBits(from, n, source) THEN FALSE
                          ELSE IF from <= i /\ i < to THEN cs[i + 1 - from + source] ELSE bs[i + 1]
  <2>1. i + 1 \in 1..m /\ (i + 1) - 1 = i /\ (from < i + 1 <=> from <= i) /\ (i + 1 <= to <=> i < to)
    BY <1>6, <1>18
  <2>2. DOMAIN b_bits[x] = 1..m
    BY <1>1
  <2>3. PICK j \in 1..m : j = i + 1
    BY <2>1
  <2>4. rs[j] = IF j - 1 \in Bitset!LostBits(from, n, source) THEN FALSE
                ELSE IF from < j /\ j <= to THEN cs[j - from + source] ELSE bs[j]
    BY <1>r, <1>3, <1>4, <2>2, <2>3 DEF CopiedBits
  <2>5. j - 1 = i /\ (from < j <=> from <= i) /\ (j <= to <=> i < to)
    BY <1>18, <2>3
  <2>6. rs[j] = IF i \in Bitset!LostBits(from, n, source) THEN FALSE
                ELSE IF from <= i /\ i < to THEN cs[j - from + source] ELSE bs[j]
    BY <2>4, <2>5
  <2>7. j - from + source = i + 1 - from + source /\ rs[j] = rs[i + 1] /\ bs[j] = bs[i + 1]
    BY <2>3
  <2>8. CASE i \in Bitset!LostBits(from, n, source)
    BY <2>6, <2>7, <2>8
  <2>9. CASE i \notin Bitset!LostBits(from, n, source) /\ from <= i /\ i < to
    BY <2>6, <2>7, <2>9
  <2>10. CASE i \notin Bitset!LostBits(from, n, source) /\ ~(from <= i /\ i < to)
    BY <2>6, <2>7, <2>10
  <2> QED  BY <2>8, <2>9, <2>10
<1>19. ASSUME NEW i \in 0..m - 1
       PROVE  rs[i + 1] = TRUE <=> Bitset!bit_index(i) \in r[Bitset!word_index(i) + 1]
  <2>1. i \in Nat /\ i < m
    BY <1>6
  <2>2. PICK g \in Nat, b \in Nat : g = Bitset!word_index(i) /\ b = Bitset!bit_index(i) /\ b < w /\ i = g * w + b
    BY <1>8, <2>1, Parts
  <2>3. PICK o \in Nat : o = g * w /\ i = o + b
    <3>1. g * w \in Nat
      BY <1>8, <2>2, Scaled
    <3> QED  BY <2>2, <3>1
  <2>o. i = o + b /\ b < w /\ b \in Nat
    BY <2>2, <2>3
  <2>4. Bitset!word_index(o) = g /\ Bitset!bit_index(o) = 0
    <3>1. 0 \in Bitset!Bit
      BY <1>8 DEF Bitset!Bit
    <3>2. g * bits_per_word + 0 = o
      BY <1>8, <2>3
    <3> QED  BY <2>2, <3>1, <3>2, LocatedAt
  <2>5. PICK k \in 1..l : k = g + 1 /\ (k - 1) * w = o
    <3>1. g + 1 \in 1..l
      BY <1>1, <2>2
    <3>2. (g + 1) - 1 = g
      BY <2>2
    <3> QED  BY <2>3, <3>1, <3>2
  <2>6. b \in Bitset!Bit
    BY <1>8, <2>2 DEF Bitset!Bit
  <2>7. b \in lead[k] <=>
           IF from <= i /\ i < start THEN Bitset!test(y, source + (i - from)) ELSE b \in s[k]
    BY <1>14, <2>3, <2>5, <2>6
  <2>8. r[k] = IF o < start \/ o >= to THEN lead[k]
               ELSE IF to - o >= w THEN Bitset!Spliced(t, source + (o - from))
               ELSE Bitset!Rest(t, source + (o - from), lead[k], to)
    BY <1>12, <2>5
  <2>9. bs[i + 1] = TRUE <=> b \in s[k]
    BY <1>1, <1>3, <2>2, <2>5
  <2>10. from <= i /\ i < to => (cs[i + 1 - from + source] = TRUE <=> Bitset!test(y, source + (i - from)))
    BY <1>16, <2>1
  <2>11. rs[i + 1] = IF i \in Bitset!LostBits(from, n, source) THEN FALSE
                     ELSE IF from <= i /\ i < to THEN cs[i + 1 - from + source] ELSE bs[i + 1]
    BY <1>18, <2>1
  <2>12. CASE o < start \/ o >= to
    <3>1. i < start \/ i >= to
      <4>1. CASE o >= to
        BY <2>2, <2>3, <4>1
      <4>2. CASE o < start /\ Bitset!bit_index(start) = 0
        <5>1. PICK h \in Nat : h = Bitset!word_index(start)
          BY Parts
        <5>2. g < h
          BY <2>2, <2>4, <4>2, <5>1, LocatedLess
        <5> QED  BY <2>1, <2>2, <5>1, <5>2, LocatedLess
      <4>3. CASE start = to
        BY <2>1, <4>3
      <4> QED  BY <1>5, <2>12, <4>1, <4>2, <4>3
    <3>2. i \notin Bitset!LostBits(from, n, source)
      BY <1>11, <2>1, <3>1
    <3>3. from <= i /\ i < to <=> from <= i /\ i < start
      BY <1>5, <2>1, <3>1
    <3>4. r[k] = lead[k]
      BY <2>8, <2>12
    <3>5. CASE from <= i /\ i < start
      BY <2>2, <2>5, <2>7, <2>10, <2>11, <3>2, <3>3, <3>4, <3>5
    <3>6. CASE ~(from <= i /\ i < start)
      BY <2>2, <2>5, <2>7, <2>9, <2>11, <3>2, <3>3, <3>4, <3>6
    <3> QED  BY <3>5, <3>6
  <2>13. CASE ~(o < start \/ o >= to)
    <3>1. start <= o /\ o < to /\ from <= o /\ from <= i /\ ~(i < start)
      BY <1>5, <2>2, <2>3, <2>13
    <3>2. PICK S \in Nat : S = source + (o - from) /\ S < d
      <4>1. source + (o - from) \in Nat /\ source + (o - from) < d
        BY <1>4, <1>7, <3>1
      <4> QED  BY <4>1
    <3>3. S + b = source + (i - from)
      BY <2>2, <2>3, <3>2
    <3>4. t \in [1..Bitset!word_size(d) -> Bitset!Word]
      BY <1>2, <1>3
    <3>5. Bitset!test(y, source + (i - from)) <=> Bitset!bit_index(S + b) \in t[Bitset!word_index(S + b) + 1]
      BY <1>3, <3>3 DEF Bitset!test, Bitset!At
    <3>6. CASE to - o >= w
      <4>1. r[k] = Bitset!Spliced(t, S)
        BY <2>8, <2>13, <3>2, <3>6
      <4>2. i < to
        BY <2>2, <2>3, <3>6
      <4>3. S + bits_per_word <= d
        BY <1>4, <1>7, <1>8, <3>1, <3>2, <3>6
      <4>4. b \in r[k] <=> Bitset!test(y, source + (i - from))
        <5>1. S \in Nat /\ d \in Nat
          BY <1>7
        <5>2. b \in Bitset!Spliced(t, S) <=> Bitset!bit_index(S + b) \in t[Bitset!word_index(S + b) + 1]
          BY <2>6, <3>4, <4>3, <5>1, SplicedBit
        <5> QED  BY <3>5, <4>1, <5>2
      <4>5. i \notin Bitset!LostBits(from, n, source)
        <5>1. PICK v \in Nat : v = (g + 1) * w /\ v = o + w
          <6>1. (g + 1) * w = g * w + w
            BY <1>8, <2>2, Scaled
          <6> QED  BY <1>8, <2>3, <6>1
        <5>2. g + 1 <= a
          <6> SUFFICES ASSUME ~(g + 1 <= a) PROVE FALSE
            OBVIOUS
          <6>1. a <= g
            BY <1>9, <2>2
          <6>2. a * w <= g * w
            BY <1>8, <1>9, <2>2, <6>1, ScaledMore
          <6>3. rest <= o
            BY <1>10, <2>3, <6>2
          <6> QED  BY <1>z, <3>6, <6>3
        <5>3. v <= rest
          <6>1. g + 1 \in Nat
            BY <2>2
          <6>2. (g + 1) * w <= a * w
            BY <1>8, <1>9, <5>2, <6>1, ScaledMore
          <6> QED  BY <1>10, <5>1, <6>2
        <5>4. i < rest
          <6>1. v = o + w
            BY <5>1
          <6> QED  BY <2>o, <5>3, <6>1
        <5> QED  BY <1>11, <2>1, <5>4
      <4> QED  BY <2>2, <2>5, <2>10, <2>11, <3>1, <4>2, <4>4, <4>5
    <3>7. CASE ~(to - o >= w)
      <4>1. r[k] = Bitset!Rest(t, S, lead[k], to)
        BY <2>8, <2>13, <3>2, <3>7
      <4>2. rest = o /\ (b < z <=> i < to)
        <5>1. a * w <= g * w => a <= g
          <6> SUFFICES ASSUME ~(a <= g) PROVE ~(a * w <= g * w)
            OBVIOUS
          <6>1. g + 1 <= a /\ g + 1 \in Nat
            BY <1>9, <2>2
          <6>2. (g + 1) * w <= a * w /\ (g + 1) * w = g * w + w
            BY <1>8, <1>9, <2>2, <6>1, ScaledMore, Scaled
          <6> QED  BY <1>8, <1>10, <2>3, <6>2
        <5>2. CASE a + 1 <= g
          <6>2. (a + 1) * w <= g * w
            BY <1>8, <5>2, ScaledMore
          <6>3. (a + 1) * w = a * w + w
            BY <1>8, Scaled
          <6>1. (a + 1) * w <= g * w /\ (a + 1) * w = a * w + w
            BY <6>2, <6>3
          <6> QED  BY <1>8, <1>9, <1>10, <2>3, <3>1, <6>1
        <5>3. CASE g + 1 <= a
          <6>1. (g + 1) * w <= a * w /\ (g + 1) * w = g * w + w
            BY <1>8, <1>9, <2>2, <5>3, ScaledMore, Scaled
          <6> QED  BY <1>8, <1>9, <1>10, <2>3, <3>7, <6>1
        <5>4. CASE a = g
          <6>1. rest = o
            BY <1>10, <2>3, <5>4
          <6> QED  BY <1>z, <2>o, <6>1
        <5> QED  BY <1>9, <2>2, <5>2, <5>3, <5>4
      <4>3. i \in Bitset!LostBits(from, n, source) <=> i < to /\ Bitset!bit_index(S) + b >= w
        <5>1. rest >= start /\ i >= rest /\ i - rest = b /\ source + (rest - from) = S
          BY <2>2, <2>3, <3>1, <3>2, <4>2
        <5>2. i \in rest..to - 1 <=> i < to
          BY <2>1, <5>1
        <5> QED  BY <1>11, <5>1, <5>2
      <4>4. b \in r[k] <=>
               \/ b < z /\ Bitset!bit_index(S) + b < w /\ Bitset!test(y, source + (i - from))
               \/ ~(b < z) /\ b \in lead[k]
        <5>1. PICK u : u = Bitset!ShiftRight(Bitset!At(t, Bitset!word_index(S)), Bitset!bit_index(S))
          OBVIOUS
        <5>2. b \in u <=> Bitset!bit_index(S) + b < w /\ Bitset!test(y, source + (i - from))
          BY <1>7, <1>8, <2>6, <3>2, <3>4, <3>5, <5>1, RestBit
        <5>3. r[k] = (u \cap (0..z - 1)) \cup (lead[k] \ (0..z - 1))
          BY <1>9, <4>1, <5>1 DEF Bitset!Rest, Bitset!Below
        <5>4. b \in 0..z - 1 <=> b < z
          BY <1>9, <2>2
        <5> QED  BY <5>2, <5>3, <5>4
      <4>5. CASE i < to
        <5>1. PICK p \in Nat : p = Bitset!bit_index(S)
          BY <3>2, Parts
        <5>2. p + b < w <=> ~(p + b >= w)
          BY <1>8, <2>2, <5>1
        <5> QED  BY <2>2, <2>5, <2>10, <2>11, <3>1, <4>2, <4>3, <4>4, <4>5, <5>1, <5>2
      <4>6. CASE ~(i < to)
        <5>1. b \in r[k] <=> b \in s[k]
          BY <2>7, <3>1, <4>2, <4>4, <4>6
        <5> QED  BY <2>2, <2>5, <2>9, <2>11, <4>3, <4>6, <5>1
      <4> QED  BY <4>5, <4>6
    <3> QED  BY <3>6, <3>7
  <2> QED  BY <2>12, <2>13
<1>20. r \in [1..Bitset!word_size(m) -> Bitset!Word]
  BY <1>1, <1>15
<1>21. ReadsAs(r, rs, m)
  BY <1>19 DEF ReadsAs
<1>22. Packed(r, rs) /\ Len(rs) = m
  BY <1>6, <1>17, <1>20, <1>21, PackedAs
<1> QED  BY <1>1, <1>3, <1>22, <1>r

\* Those of the other one, all of them.
SourceBits(x, from, n, y, source) ==
    [i \in DOMAIN b_bits[x] |->
       IF from < i /\ i <= from + n THEN b_bits[y][i - from + source] ELSE b_bits[x][i]]

\* If the bits that are lost were not set, they are what they should be.
LEMMA NothingLost ==
    ASSUME BitsetInv, NEW x \in Bitsets, NEW y \in Bitsets, NEW from \in Nat, NEW n \in Nat, NEW source \in Nat,
           from + n <= b_size[x], source + n <= b_size[y],
           \A i \in Bitset!LostBits(from, n, source) : ~Bitset!test(y, source + (i - from))
    PROVE  CopiedBits(x, from, n, y, source) = SourceBits(x, from, n, y, source)
<1>1. PICK d \in Nat, q \in Nat :
         /\ d = b_size[y] /\ d = Len(b_bits[y]) /\ q = Bitset!word_size(d) /\ Len(b_buf[y]) = q
         /\ b_buf[y] \in [1..q -> Bitset!Word] /\ b_bits[y] \in [1..d -> BOOLEAN]
         /\ \A i \in 0..d - 1 :
               /\ Bitset!word_index(i) + 1 \in 1..q
               /\ b_bits[y][i + 1] = TRUE <=> Bitset!bit_index(i) \in b_buf[y][Bitset!word_index(i) + 1]
  BY BitsetOf
<1>2. PICK m \in Nat : m = Len(b_bits[x]) /\ DOMAIN b_bits[x] = 1..m
  BY BitsetOf
<1>3. ASSUME NEW i \in 1..m, i - 1 \in Bitset!LostBits(from, n, source)
      PROVE  from < i /\ i <= from + n /\ b_bits[y][i - from + source] = FALSE
  <2>1. PICK start \in Nat : start = from + Bitset!Lead(from, n) /\ from <= start
    <3>1. PICK to \in Nat : to = from + n
      OBVIOUS
    <3>2. PICK start \in Nat :
             /\ start = from + Bitset!Lead(from, n) /\ from <= start /\ start <= to
             /\ start = to \/ Bitset!bit_index(start) = 0
      BY <3>1, LeadAligns
    <3> QED  BY <3>2
  <2>3. Bitset!bit_index(from + n) \in Int
    BY BitsAssumption DEF Bitset!bit_index
  <2>9. PICK rest : rest = (from + n) - Bitset!bit_index(from + n)
    OBVIOUS
  <2>2. rest >= start /\ i - 1 \in rest..(from + n) - 1
    BY <1>3, <2>1, <2>9 DEF Bitset!LostBits
  <2>4. rest \in Int
    BY <2>3, <2>9
  <2>5. from < i /\ i <= from + n
    BY <2>1, <2>2, <2>4
  <2>6. PICK j \in 0..d - 1 : j = source + (i - 1 - from) /\ j + 1 = i - from + source
    <3>1. source + (i - 1 - from) \in 0..d - 1 /\ (source + (i - 1 - from)) + 1 = i - from + source
      BY <1>1, <2>5
    <3> QED  BY <3>1
  <2>7. ~Bitset!test(y, j)
    BY <1>3, <2>6
  <2>8. b_bits[y][j + 1] # TRUE
    BY <1>1, <2>7 DEF Bitset!test, Bitset!At
  <2>10. b_bits[y][j + 1] \in BOOLEAN
    <3>1. j + 1 \in 1..d
      BY <1>1
    <3> QED  BY <1>1, <3>1
  <2> QED  BY <2>5, <2>6, <2>8, <2>10
<1> QED  BY <1>2, <1>3 DEF CopiedBits, SourceBits

-----------------------------------------------------------------------------
(* dynamic_bitset: any and all.                                            *)

\* What any and all look at: the whole words, and a part of the last one.
LookedAt(x, m, k, p, w) ==
    /\ m = b_size[x] /\ m = Len(b_bits[x]) /\ b_bits[x] \in [1..m -> BOOLEAN]
    /\ k = Bitset!word_index(m) /\ p = Bitset!bit_index(m)
    /\ w = bits_per_word /\ w > 0 /\ p < w /\ (m = 0 <=> k = 0 /\ p = 0) /\ (m < w <=> k = 0)
    /\ Bitset!empty(x) <=> m = 0
    /\ Bitset!WholeWords(x) = 1..k /\ Bitset!Below(b_size[x]) = 0..p - 1
    /\ Bitset!PartOfLast(x) = IF p = 0 THEN {} ELSE {b_buf[x][k + 1]}
    /\ \A j \in Nat, c \in Bitset!Bit : j < k \/ (j = k /\ c < p) =>
          \E i \in 0..m - 1 : b_bits[x][i + 1] = TRUE <=> c \in b_buf[x][j + 1]
    /\ \A i \in 0..m - 1 : \E j \in Nat, c \in Bitset!Bit :
          /\ j < k \/ (j = k /\ c < p)
          /\ b_bits[x][i + 1] = TRUE <=> c \in b_buf[x][j + 1]
    /\ \A j \in Nat : j <= k /\ (j = k => p # 0) => b_buf[x][j + 1] \subseteq Bitset!Bit

LEMMA WordsLookedAt ==
    ASSUME BitsetInv, NEW x \in Bitsets
    PROVE  \E m \in Nat, k \in Nat, p \in Nat, w \in Nat : LookedAt(x, m, k, p, w)
<1>1. PICK m \in Nat, l \in Nat :
         /\ m = b_size[x] /\ m = Len(b_bits[x]) /\ l = Bitset!word_size(m) /\ Len(b_buf[x]) = l
         /\ b_buf[x] \in [1..l -> Bitset!Word] /\ b_bits[x] \in [1..m -> BOOLEAN]
         /\ \A i \in 0..m - 1 :
               /\ Bitset!word_index(i) + 1 \in 1..l
               /\ b_bits[x][i + 1] = TRUE <=> Bitset!bit_index(i) \in b_buf[x][Bitset!word_index(i) + 1]
  BY BitsetOf
<1>2. PICK w \in Nat : w = bits_per_word /\ w > 0
  BY BitsAssumption
<1>m. m \in Nat /\ l \in Nat
  BY <1>1
<1>3. PICK k \in Nat, p \in Nat : k = Bitset!word_index(m) /\ p = Bitset!bit_index(m) /\ p < w
  BY <1>2, <1>m, Parts
<1>k. m = k * w + p
  BY <1>2, <1>3, <1>m, Located
<1>4. l = k + (IF p = 0 THEN 0 ELSE 1)
  BY <1>1, <1>3, WordsFor
<1>5. (m = 0 <=> k = 0 /\ p = 0) /\ (m < w <=> k = 0)
  <2>1. PICK o \in Nat : o = k * w /\ m = o + p
    <3>1. k * w \in Nat
      BY <1>2, <1>3, Scaled
    <3> QED  BY <1>k, <3>1
  <2>2. CASE k = 0
    <3>1. o = 0
      BY <1>2, <2>1, <2>2
    <3>2. m = p /\ p < w
      BY <1>3, <2>1, <3>1
    <3> QED  BY <2>2, <3>2
  <2>3. CASE k # 0
    <3>1. 1 * w <= k * w
      BY <1>2, <1>3, <2>3, ScaledMore
    <3>2. w <= o
      BY <1>2, <2>1, <3>1
    <3> QED  BY <1>2, <1>3, <2>1, <2>3, <3>2
  <2> QED  BY <2>2, <2>3
<1>6. Bitset!empty(x) <=> m = 0
  <2>1. b_buf[x] = <<>> <=> l = 0
    BY <1>1
  <2>2. l = 0 <=> k = 0 /\ p = 0
    BY <1>3, <1>4
  <2> QED  BY <1>5, <2>1, <2>2 DEF Bitset!empty
<1>7. Bitset!WholeWords(x) = 1..k /\ Bitset!Below(b_size[x]) = 0..p - 1
  BY <1>1, <1>3 DEF Bitset!WholeWords, Bitset!Below
<1>8. Bitset!PartOfLast(x) = IF p = 0 THEN {} ELSE {b_buf[x][k + 1]}
  <2>1. CASE p = 0
    <3>1. k = l
      BY <1>3, <1>4, <2>1
    <3> QED  BY <1>1, <1>3, <2>1, <3>1 DEF Bitset!PartOfLast
  <2>2. CASE p # 0
    <3>1. l = k + 1 /\ k # l
      BY <1>3, <1>4, <2>2
    <3> QED  BY <1>1, <1>3, <2>2, <3>1 DEF Bitset!PartOfLast
  <2> QED  BY <2>1, <2>2
<1>9. ASSUME NEW j \in Nat, NEW c \in Bitset!Bit, j < k \/ (j = k /\ c < p)
      PROVE  \E i \in 0..m - 1 : b_bits[x][i + 1] = TRUE <=> c \in b_buf[x][j + 1]
  <2>1. PICK i \in Nat : Bitset!word_index(i) = j /\ Bitset!bit_index(i) = c
    BY LocatedAt
  <2>2. i < m
    BY <1>m, <1>3, <1>9, <2>1, LocatedLess
  <2>3. i \in 0..m - 1
    BY <1>m, <2>1, <2>2
  <2> QED  BY <1>1, <2>1, <2>3
<1>10. ASSUME NEW i \in 0..m - 1
       PROVE  \E j \in Nat, c \in Bitset!Bit :
                 /\ j < k \/ (j = k /\ c < p)
                 /\ b_bits[x][i + 1] = TRUE <=> c \in b_buf[x][j + 1]
  <2>1. i \in Nat /\ i < m
    BY <1>m
  <2>2. PICK j \in Nat, c \in Bitset!Bit : j = Bitset!word_index(i) /\ c = Bitset!bit_index(i)
    BY <2>1, Located
  <2>3. j < k \/ (j = k /\ c < p)
    BY <1>m, <1>3, <2>1, <2>2, LocatedLess
  <2> QED  BY <1>1, <2>2, <2>3
<1>11. ASSUME NEW j \in Nat, j <= k, j = k => p # 0
       PROVE  b_buf[x][j + 1] \subseteq Bitset!Bit
  <2>1. j + 1 \in 1..l
    BY <1>3, <1>4, <1>11
  <2>2. b_buf[x][j + 1] \in Bitset!Word
    BY <1>1, <2>1
  <2> QED  BY <2>2 DEF Bitset!Word
<1>12. LookedAt(x, m, k, p, w)
  BY <1>1, <1>2, <1>3, <1>5, <1>6, <1>7, <1>8, <1>9, <1>10, <1>11 DEF LookedAt
<1> QED  BY <1>2, <1>3, <1>12, <1>m

LEMMA BitsetAny ==
    ASSUME BitsetInv, NEW x \in Bitsets
    PROVE  Bitset!any(x) <=> TRUE \in Bitset!Range(b_bits[x])
<1>1. PICK m \in Nat, k \in Nat, p \in Nat, w \in Nat : LookedAt(x, m, k, p, w)
  BY WordsLookedAt
<1>2. ASSUME TRUE \in Bitset!Range(b_bits[x])
      PROVE  Bitset!any(x)
  <2>1. PICK o \in 1..m : b_bits[x][o] = TRUE
    BY <1>1, <1>2 DEF LookedAt, Bitset!Range
  <2>2. PICK i \in 0..m - 1 : o = i + 1
    <3>1. o - 1 \in 0..m - 1 /\ o = (o - 1) + 1
      BY <2>1
    <3> QED  BY <3>1
  <2>3. PICK j \in Nat, c \in Bitset!Bit :
           /\ j < k \/ (j = k /\ c < p)
           /\ b_bits[x][i + 1] = TRUE <=> c \in b_buf[x][j + 1]
    BY <1>1, <2>2 DEF LookedAt
  <2>4. c \in b_buf[x][j + 1] /\ c \in Nat
    BY <2>1, <2>2, <2>3, BitsAssumption DEF Bitset!Bit
  <2>5. ~Bitset!empty(x)
    <3>1. m # 0
      BY <2>1
    <3> QED  BY <1>1, <3>1 DEF LookedAt
  <2>6. CASE j < k
    <3>1. j + 1 \in Bitset!WholeWords(x)
      <4>1. j + 1 \in 1..k
        BY <1>1, <2>3, <2>6
      <4> QED  BY <1>1, <4>1 DEF LookedAt
    <3> QED  BY <2>4, <2>5, <3>1 DEF Bitset!any
  <2>7. CASE j = k /\ c < p
    <3>1. p # 0 /\ c \in 0..p - 1
      BY <1>1, <2>4, <2>7
    <3>2. b_buf[x][j + 1] \in Bitset!PartOfLast(x) /\ c \in Bitset!Below(b_size[x])
      BY <1>1, <2>7, <3>1 DEF LookedAt
    <3> QED  BY <2>4, <2>5, <3>2 DEF Bitset!any
  <2> QED  BY <2>3, <2>6, <2>7
<1>3. ASSUME Bitset!any(x)
      PROVE  TRUE \in Bitset!Range(b_bits[x])
  <2>1. \E j \in Nat : \E c : (j < k \/ (j = k /\ c \in 0..p - 1)) /\ c \in b_buf[x][j + 1] /\ (j = k => p # 0)
    <3>1. CASE \E v \in Bitset!WholeWords(x) : b_buf[x][v] # {}
      <4>1. PICK v \in 1..k : b_buf[x][v] # {}
        BY <1>1, <3>1 DEF LookedAt
      <4>2. PICK j \in Nat : v = j + 1 /\ j < k
        <5>1. v - 1 \in Nat /\ v = (v - 1) + 1 /\ v - 1 < k
          BY <4>1
        <5> QED  BY <5>1
      <4>3. PICK c : c \in b_buf[x][j + 1]
        BY <4>1, <4>2
      <4>4. j # k
        BY <4>2
      <4> QED  BY <4>2, <4>3, <4>4
    <3>2. CASE \E v \in Bitset!PartOfLast(x) : v \cap Bitset!Below(b_size[x]) # {}
      <4>1. p # 0 /\ b_buf[x][k + 1] \cap (0..p - 1) # {}
        <5>1. PICK v \in Bitset!PartOfLast(x) : v \cap Bitset!Below(b_size[x]) # {}
          BY <3>2
        <5>2. /\ Bitset!PartOfLast(x) = IF p = 0 THEN {} ELSE {b_buf[x][k + 1]}
              /\ Bitset!Below(b_size[x]) = 0..p - 1
          BY <1>1 DEF LookedAt
        <5>3. p # 0 /\ v = b_buf[x][k + 1]
          BY <5>1, <5>2
        <5> QED  BY <5>1, <5>2, <5>3
      <4>2. PICK c : c \in b_buf[x][k + 1] /\ c \in 0..p - 1
        BY <4>1
      <4> QED  BY <1>1, <4>1, <4>2
    <3> QED  BY <1>3, <3>1, <3>2 DEF Bitset!any
  <2>i. PICK j \in Nat : \E c : (j < k \/ (j = k /\ c \in 0..p - 1)) /\ c \in b_buf[x][j + 1] /\ (j = k => p # 0)
    BY <2>1
  <2>2. PICK c : (j < k \/ (j = k /\ c \in 0..p - 1)) /\ c \in b_buf[x][j + 1] /\ (j = k => p # 0)
    BY <2>i
  <2>3. j <= k
    BY <2>i, <2>2, <1>1
  <2>4. c \in Bitset!Bit
    BY <1>1, <2>i, <2>2, <2>3 DEF LookedAt
  <2>5. j < k \/ (j = k /\ c < p)
    BY <1>1, <2>i, <2>2
  <2>6. PICK i \in 0..m - 1 : b_bits[x][i + 1] = TRUE <=> c \in b_buf[x][j + 1]
    BY <1>1, <2>i, <2>2, <2>4, <2>5 DEF LookedAt
  <2>7. PICK o \in 1..m : o = i + 1
    BY <1>1, <2>6
  <2>8. b_bits[x][o] = TRUE
    BY <2>2, <2>6, <2>7
  <2> QED  BY <1>1, <2>8 DEF LookedAt, Bitset!Range
<1> QED  BY <1>2, <1>3

LEMMA BitsetAll ==
    ASSUME BitsetInv, NEW x \in Bitsets, NEW narrow \in BOOLEAN
    PROVE  Bitset!all(x, narrow) <=>
              Bitset!Range(b_bits[x]) = {TRUE} /\ (narrow => b_size[x] < bits_per_word)
<1>1. PICK m \in Nat, k \in Nat, p \in Nat, w \in Nat : LookedAt(x, m, k, p, w)
  BY WordsLookedAt
<1>2. (narrow => b_size[x] < bits_per_word) <=> (narrow => k = 0)
  BY <1>1 DEF LookedAt
<1>3. ASSUME Bitset!Range(b_bits[x]) = {TRUE}, narrow => k = 0
      PROVE  Bitset!all(x, narrow)
  <2>1. \A o \in 1..m : b_bits[x][o] = TRUE
    BY <1>1, <1>3 DEF LookedAt, Bitset!Range
  <2>2. m # 0
    <3>1. PICK o \in DOMAIN b_bits[x] : TRUE
      BY <1>3 DEF Bitset!Range
    <3>2. o \in 1..m
      BY <1>1, <3>1 DEF LookedAt
    <3> QED  BY <1>1, <3>2
  <2>3. ASSUME NEW j \in Nat, NEW c \in Bitset!Bit, j < k \/ (j = k /\ c < p)
        PROVE  c \in b_buf[x][j + 1]
    <3>1. PICK i \in 0..m - 1 : b_bits[x][i + 1] = TRUE <=> c \in b_buf[x][j + 1]
      BY <1>1, <2>3 DEF LookedAt
    <3>2. PICK o \in 1..m : o = i + 1
      BY <1>1, <3>1
    <3> QED  BY <2>1, <3>1, <3>2
  <2>4. ASSUME NEW v \in Bitset!WholeWords(x)
        PROVE  ~narrow /\ b_buf[x][v] = Bitset!Bit
    <3>1. v \in 1..k
      BY <1>1, <2>4 DEF LookedAt
    <3>2. PICK j \in Nat : v = j + 1 /\ j < k
      <4>1. v - 1 \in Nat /\ v = (v - 1) + 1 /\ v - 1 < k
        BY <1>1, <3>1
      <4> QED  BY <4>1
    <3>3. j <= k /\ j # k /\ k # 0
      BY <1>1, <3>2
    <3>4. b_buf[x][j + 1] \subseteq Bitset!Bit
      BY <1>1, <3>2, <3>3 DEF LookedAt
    <3>5. Bitset!Bit \subseteq b_buf[x][j + 1]
      BY <2>3, <3>2
    <3> QED  BY <1>3, <3>2, <3>3, <3>4, <3>5
  <2>5. ASSUME NEW v \in Bitset!PartOfLast(x)
        PROVE  Bitset!Below(b_size[x]) \subseteq v
    <3>1. v = b_buf[x][k + 1] /\ Bitset!Below(b_size[x]) = 0..p - 1
      BY <1>1, <2>5 DEF LookedAt
    <3>2. ASSUME NEW c \in 0..p - 1 PROVE c \in b_buf[x][k + 1]
      <4>1. c < p /\ c \in Bitset!Bit
        <5>1. w = bits_per_word /\ p < w
          BY <1>1 DEF LookedAt
        <5> QED  BY <1>1, <3>2, <5>1 DEF Bitset!Bit
      <4> QED  BY <1>1, <2>3, <4>1
    <3> QED  BY <3>1, <3>2
  <2>6. ~Bitset!empty(x)
    BY <1>1, <2>2 DEF LookedAt
  <2> QED  BY <2>4, <2>5, <2>6 DEF Bitset!all
<1>4. ASSUME Bitset!all(x, narrow)
      PROVE  Bitset!Range(b_bits[x]) = {TRUE} /\ (narrow => k = 0)
  <2>1. m # 0
    BY <1>1, <1>4 DEF LookedAt, Bitset!all
  <2>2. narrow => k = 0
    <3>1. k # 0 => 1 \in 1..k
      BY <1>1
    <3> QED  BY <1>1, <1>4, <3>1 DEF LookedAt, Bitset!all
  <2>3. ASSUME NEW o \in 1..m
        PROVE  b_bits[x][o] = TRUE
    <3>1. PICK i \in 0..m - 1 : o = i + 1
      <4>1. o - 1 \in 0..m - 1 /\ o = (o - 1) + 1
        BY <2>3
      <4> QED  BY <4>1
    <3>2. PICK j \in Nat, c \in Bitset!Bit :
             /\ j < k \/ (j = k /\ c < p)
             /\ b_bits[x][i + 1] = TRUE <=> c \in b_buf[x][j + 1]
      BY <1>1, <3>1 DEF LookedAt
    <3>3. CASE j < k
      <4>1. j + 1 \in 1..k
        BY <1>1, <3>2, <3>3
      <4>2. b_buf[x][j + 1] = Bitset!Bit
        BY <1>1, <1>4, <4>1 DEF LookedAt, Bitset!all
      <4> QED  BY <3>1, <3>2, <4>2
    <3>4. CASE j = k /\ c < p
      <4>1. c \in Nat
        BY <3>2, BitsAssumption DEF Bitset!Bit
      <4>2. p # 0 /\ c \in 0..p - 1
        BY <1>1, <3>4, <4>1
      <4>3. Bitset!Below(b_size[x]) \subseteq b_buf[x][k + 1] /\ Bitset!Below(b_size[x]) = 0..p - 1
        BY <1>1, <1>4, <4>2 DEF LookedAt, Bitset!all
      <4> QED  BY <3>1, <3>2, <3>4, <4>2, <4>3
    <3> QED  BY <3>2, <3>3, <3>4
  <2>4. DOMAIN b_bits[x] = 1..m /\ 1 \in 1..m
    BY <1>1, <2>1 DEF LookedAt
  <2> QED  BY <2>2, <2>3, <2>4 DEF Bitset!Range
<1> QED  BY <1>2, <1>3, <1>4
-----------------------------------------------------------------------------
(* dynamic_bitset: the theorem.                                            *)

LEMMA SameTruth ==
    ASSUME NEW b \in BOOLEAN, NEW S, b <=> TRUE \in S
    PROVE  b = (TRUE \in S)
  OBVIOUS

\* The invariant is what the module promises.
LEMMA BitsetInvariant ==
    ASSUME BitsetInv
    PROVE  Bitset!LikeVectorBool
<1>1. SUFFICES ASSUME NEW x \in Bitsets
      PROVE  /\ b_size[x] = Len(b_bits[x]) /\ Len(b_buf[x]) = Bitset!word_size(b_size[x])
             /\ \A i \in 1..b_size[x] : b_bits[x][i] = Bitset!test(x, i - 1)
             /\ Bitset!any(x) = (TRUE \in Bitset!Range(b_bits[x]))
             /\ \A narrow \in BOOLEAN :
                   /\ Bitset!all(x, narrow) => Bitset!Range(b_bits[x]) = {TRUE}
                   /\ Bitset!Range(b_bits[x]) = {TRUE} /\ ~(narrow /\ b_size[x] >= bits_per_word)
                      => Bitset!all(x, narrow)
  BY DEF Bitset!LikeVectorBool
<1>2. PICK m \in Nat, l \in Nat :
         /\ m = b_size[x] /\ m = Len(b_bits[x]) /\ l = Bitset!word_size(m) /\ Len(b_buf[x]) = l
         /\ b_buf[x] \in [1..l -> Bitset!Word] /\ b_bits[x] \in [1..m -> BOOLEAN]
         /\ \A i \in 0..m - 1 :
               /\ Bitset!word_index(i) + 1 \in 1..l
               /\ b_bits[x][i + 1] = TRUE <=> Bitset!bit_index(i) \in b_buf[x][Bitset!word_index(i) + 1]
  BY BitsetOf
<1>3. ASSUME NEW o \in 1..m
      PROVE  b_bits[x][o] = Bitset!test(x, o - 1)
  <2>1. PICK i \in 0..m - 1 : o = i + 1 /\ o - 1 = i
    <3>1. o - 1 \in 0..m - 1 /\ o = (o - 1) + 1
      BY <1>2
    <3> QED  BY <3>1
  <2>2. b_bits[x][i + 1] = TRUE <=> Bitset!test(x, i)
    BY <1>2 DEF Bitset!test, Bitset!At
  <2>3. b_bits[x][o] \in BOOLEAN /\ Bitset!test(x, i) \in BOOLEAN
    BY <1>2 DEF Bitset!test
  <2> QED  BY <2>1, <2>2, <2>3
<1>4. Bitset!any(x) = (TRUE \in Bitset!Range(b_bits[x]))
  <2>1. Bitset!any(x) \in BOOLEAN
    BY DEF Bitset!any
  <2>2. Bitset!any(x) <=> TRUE \in Bitset!Range(b_bits[x])
    BY BitsetAny
  <2> QED  BY <2>1, <2>2, SameTruth
<1>5. ASSUME NEW narrow \in BOOLEAN
      PROVE  /\ Bitset!all(x, narrow) => Bitset!Range(b_bits[x]) = {TRUE}
             /\ Bitset!Range(b_bits[x]) = {TRUE} /\ ~(narrow /\ b_size[x] >= bits_per_word)
                => Bitset!all(x, narrow)
  <2>1. b_size[x] \in Nat /\ bits_per_word \in Nat
    BY <1>2, BitsAssumption
  <2>2. ~(narrow /\ b_size[x] >= bits_per_word) <=> (narrow => b_size[x] < bits_per_word)
    BY <2>1
  <2> QED  BY <2>2, BitsetAll
<1> QED  BY <1>2, <1>3, <1>4, <1>5

LEMMA BitsetInit ==
    ASSUME Bitset!Init
    PROVE  BitsetInv
<1>1. ASSUME NEW x \in Bitsets
      PROVE  b_buf[x] = <<>> /\ b_size[x] = 0 /\ b_bits[x] = <<>>
  BY DEF Bitset!Init
<1>2. Len(<<>>) = 0 /\ Packed(<<>>, <<>>)
  <2>1. 0 \in Bitset!Bit /\ 0 * bits_per_word + 0 = 0
    BY BitsAssumption DEF Bitset!Bit
  <2>2. Bitset!word_index(0) = 0 /\ Bitset!bit_index(0) = 0
    BY <2>1, LocatedAt
  <2>3. Bitset!word_size(0) = 0
    BY <2>2, WordsFor
  <2>4. <<>> \in Seq(Bitset!Word) /\ <<>> \in Seq(BOOLEAN) /\ Len(<<>>) = 0
    BY EmptySeq
  <2>5. \A i \in 0..0 - 1 : FALSE
    OBVIOUS
  <2> QED  BY <2>3, <2>4, <2>5 DEF Packed
<1>3. /\ b_buf = [x \in Bitsets |-> b_buf[x]] /\ b_size = [x \in Bitsets |-> b_size[x]]
      /\ b_bits = [x \in Bitsets |-> b_bits[x]]
  BY DEF Bitset!Init
<1> QED  BY <1>1, <1>2, <1>3 DEF BitsetInv

LEMMA BitsetMoved ==
    ASSUME BitsetInv, NEW x \in Bitsets, NEW y \in Bitsets, Bitset!Move(x, y)
    PROVE  BitsetInv'
<1>1. /\ b_buf' = [b_buf EXCEPT ![x] = b_buf[y], ![y] = <<>>]
      /\ b_size' = [b_size EXCEPT ![x] = b_size[y], ![y] = 0]
      /\ b_bits' = [b_bits EXCEPT ![x] = b_bits[y], ![y] = <<>>]
      /\ x # y
  BY DEF Bitset!Move
<1>2. /\ b_buf'[x] = b_buf[y] /\ b_size'[x] = b_size[y] /\ b_bits'[x] = b_bits[y]
      /\ b_buf'[y] = <<>> /\ b_size'[y] = 0 /\ b_bits'[y] = <<>>
  BY <1>1 DEF BitsetInv
<1>3. \A z \in Bitsets \ {x, y} : b_buf'[z] = b_buf[z] /\ b_size'[z] = b_size[z] /\ b_bits'[z] = b_bits[z]
  BY <1>1 DEF BitsetInv
<1>4. Len(<<>>) = 0 /\ Packed(<<>>, <<>>)
  <2>1. 0 \in Bitset!Bit /\ 0 * bits_per_word + 0 = 0
    BY BitsAssumption DEF Bitset!Bit
  <2>2. Bitset!word_index(0) = 0 /\ Bitset!bit_index(0) = 0
    BY <2>1, LocatedAt
  <2>3. Bitset!word_size(0) = 0
    BY <2>2, WordsFor
  <2>4. <<>> \in Seq(Bitset!Word) /\ <<>> \in Seq(BOOLEAN) /\ Len(<<>>) = 0
    BY EmptySeq
  <2>5. \A i \in 0..0 - 1 : FALSE
    OBVIOUS
  <2> QED  BY <2>3, <2>4, <2>5 DEF Packed
<1>5. \A z \in Bitsets : b_size'[z] = Len(b_bits'[z]) /\ Packed(b_buf'[z], b_bits'[z])
  BY <1>2, <1>3, <1>4 DEF BitsetInv
<1>6. /\ b_buf' = [z \in Bitsets |-> b_buf'[z]] /\ b_size' = [z \in Bitsets |-> b_size'[z]]
      /\ b_bits' = [z \in Bitsets |-> b_bits'[z]]
  BY <1>1 DEF BitsetInv
<1>7. \A t, b : Packed(t, b)' <=> Packed(t', b')
  BY DEF Packed
<1> QED  BY <1>5, <1>6, <1>7 DEF BitsetInv

LEMMA BitsetStep ==
    ASSUME BitsetInv, Bitset!Next, b_fault' = "none"
    PROVE  BitsetInv'
<1>1. PICK x \in Bitsets :
         \/ \E n \in 0..MaxBits[x] : Bitset!resize(x, n) \/ \E w \in Bitset!Word : Bitset!Construct(x, n, w)
         \/ \E n \in 1..MaxBits[x] \div bits_per_word : \E s \in [1..n -> Bitset!Word] : Bitset!assign(x, s)
         \/ \E b \in BOOLEAN : Bitset!push_back(x, b) \/ \E i \in 0..b_size[x] - 1 : Bitset!set(x, i, b)
         \/ \E i \in 0..b_size[x] - 1 : Bitset!flip(x, i)
         \/ \E y \in Bitsets :
               \/ Bitset!Copy(x, y) \/ Bitset!Move(x, y) \/ Bitset!append(x, y)
               \/ \E n \in 0..b_size[x] : \E from \in 0..b_size[x] - n, source \in 0..b_size[y] - n :
                     Bitset!copy(x, from, n, y, source)
  BY DEF Bitset!Next
<1>2. \A z \in Bitsets : b_size[z] = Len(b_bits[z]) /\ b_size[z] \in Nat /\ Packed(b_buf[z], b_bits[z])
  BY DEF BitsetInv, Packed
<1>3. ASSUME NEW n \in 0..MaxBits[x], Bitset!resize(x, n)
      PROVE  BitsetInv'
  <2>1. n \in Nat
    BY BitsAssumption
  <2>2. /\ Packed(Bitset!Resized(x, n), Bitset!FirstOf(b_bits[x], n))
        /\ Len(Bitset!FirstOf(b_bits[x], n)) = n
    BY <2>1, BitsetResized
  <2>3. Bitset!Becomes(x, Bitset!Resized(x, n), n, Bitset!FirstOf(b_bits[x], n))
    BY <1>3 DEF Bitset!resize
  <2> QED  BY <2>2, <2>3, BitsetChanges DEF Bitset!Becomes
<1>4. ASSUME NEW n \in 0..MaxBits[x], NEW w \in Bitset!Word, Bitset!Construct(x, n, w)
      PROVE  BitsetInv'
  <2>1. n \in Nat
    BY BitsAssumption
  <2>2. PICK s, bs : s = Bitset!Words(w, Bitset!word_size(n)) /\ bs = [i \in 1..n |-> Bitset!bit_index(i - 1) \in w]
    OBVIOUS
  <2>3. Packed(s, bs) /\ Len(bs) = n
    BY <2>1, <2>2, BitsetConstruct
  <2>4. Bitset!Becomes(x, s, n, bs)
    BY <1>4, <2>2 DEF Bitset!Construct
  <2> QED  BY <2>3, <2>4, BitsetChanges DEF Bitset!Becomes
<1>5. ASSUME NEW e \in 1..MaxBits[x] \div bits_per_word, NEW s \in [1..e -> Bitset!Word], Bitset!assign(x, s)
      PROVE  BitsetInv'
  <2>1. e \in Nat
    OBVIOUS
  <2>2. PICK n, bs :
           /\ n = Len(s) * bits_per_word
           /\ bs = [i \in 1..n |-> Bitset!bit_index(i - 1) \in Bitset!At(s, Bitset!word_index(i - 1))]
    OBVIOUS
  <2>3. Packed(s, bs) /\ Len(bs) = n
    BY <2>1, <2>2, BitsetAssign
  <2>4. Bitset!Becomes(x, s, n, bs)
    BY <1>5, <2>2 DEF Bitset!assign
  <2> QED  BY <2>3, <2>4, BitsetChanges DEF Bitset!Becomes
<1>6. ASSUME NEW b \in BOOLEAN, Bitset!push_back(x, b)
      PROVE  BitsetInv'
  <2>1. PICK n : n = b_size[x] + 1
    OBVIOUS
  <2>2. /\ Packed(Bitset!WithBit(Bitset!Resized(x, n), n - 1, b), Append(b_bits[x], b))
        /\ Len(Append(b_bits[x], b)) = n
    BY <2>1, BitsetPush
  <2>3. Bitset!Becomes(x, Bitset!WithBit(Bitset!Resized(x, n), n - 1, b), n, Append(b_bits[x], b))
    BY <1>6, <2>1 DEF Bitset!push_back
  <2> QED  BY <2>2, <2>3, BitsetChanges DEF Bitset!Becomes
<1>7. ASSUME NEW i \in 0..b_size[x] - 1, NEW b \in BOOLEAN,
             Bitset!Becomes(x, Bitset!WithBit(b_buf[x], i, b), b_size[x], [b_bits[x] EXCEPT ![i + 1] = b])
      PROVE  BitsetInv'
  <2>1. i \in 0..Len(b_bits[x]) - 1
    BY <1>2
  <2>2. /\ Packed(Bitset!WithBit(b_buf[x], i, b), [b_bits[x] EXCEPT ![i + 1] = b])
        /\ Len([b_bits[x] EXCEPT ![i + 1] = b]) = Len(b_bits[x])
    BY <1>2, <2>1, BitsetWith
  <2> QED  BY <1>2, <1>7, <2>2, BitsetChanges DEF Bitset!Becomes
<1>8. ASSUME NEW i \in 0..b_size[x] - 1, Bitset!flip(x, i)
      PROVE  BitsetInv'
  <2>1. PICK b \in BOOLEAN : b = ~Bitset!test(x, i)
    OBVIOUS
  <2>2. PICK m \in Nat, l \in Nat :
           /\ m = b_size[x] /\ m = Len(b_bits[x]) /\ l = Bitset!word_size(m) /\ Len(b_buf[x]) = l
           /\ b_buf[x] \in [1..l -> Bitset!Word] /\ b_bits[x] \in [1..m -> BOOLEAN]
           /\ \A j \in 0..m - 1 :
                 /\ Bitset!word_index(j) + 1 \in 1..l
                 /\ b_bits[x][j + 1] = TRUE <=> Bitset!bit_index(j) \in b_buf[x][Bitset!word_index(j) + 1]
    BY BitsetOf
  <2>3. b_bits[x][i + 1] = TRUE <=> Bitset!test(x, i)
    BY <2>2 DEF Bitset!test, Bitset!At
  <2>4. b_bits[x][i + 1] \in BOOLEAN
    <3>1. i + 1 \in 1..m
      BY <2>2
    <3> QED  BY <2>2, <3>1
  <2>5. b = ~b_bits[x][i + 1]
    BY <2>1, <2>3, <2>4
  <2>6. Bitset!Becomes(x, Bitset!WithBit(b_buf[x], i, ~Bitset!test(x, i)), b_size[x],
                       [b_bits[x] EXCEPT ![i + 1] = ~b_bits[x][i + 1]])
    BY <1>8 DEF Bitset!flip
  <2>7. Bitset!Becomes(x, Bitset!WithBit(b_buf[x], i, b), b_size[x], [b_bits[x] EXCEPT ![i + 1] = b])
    BY <2>1, <2>5, <2>6
  <2> QED  BY <1>7, <2>7
<1>9. ASSUME NEW i \in 0..b_size[x] - 1, NEW b \in BOOLEAN, Bitset!set(x, i, b)
      PROVE  BitsetInv'
  BY <1>7, <1>9 DEF Bitset!set
<1>10. ASSUME NEW y \in Bitsets, Bitset!Copy(x, y)
       PROVE  BitsetInv'
  BY <1>2, <1>10, BitsetChanges DEF Bitset!Becomes, Bitset!Copy
<1>11. ASSUME NEW y \in Bitsets, Bitset!append(x, y)
       PROVE  BitsetInv'
  <2>1. PICK s, n, bs :
           /\ s = IF Bitset!bit_index(b_size[x]) = 0 THEN b_buf[x] \o b_buf[y] ELSE Bitset!Shifted(x, y)
           /\ n = b_size[x] + b_size[y] /\ bs = b_bits[x] \o b_bits[y]
    OBVIOUS
  <2>2. Packed(s, bs) /\ Len(bs) = n
    BY <2>1, BitsetConcatenated, BitsetShifted
  <2>3. Bitset!Becomes(x, s, n, bs)
    BY <1>11, <2>1 DEF Bitset!append
  <2> QED  BY <2>2, <2>3, BitsetChanges DEF Bitset!Becomes
<1>12. ASSUME NEW y \in Bitsets, NEW n \in 0..b_size[x], NEW from \in 0..b_size[x] - n,
              NEW source \in 0..b_size[y] - n, Bitset!copy(x, from, n, y, source)
       PROVE  BitsetInv'
  <2>1. n \in Nat /\ from \in Nat /\ source \in Nat
    BY <1>2
  <2>2. PICK s, bs : s = Bitset!Copied(x, from, n, y, source) /\ bs = CopiedBits(x, from, n, y, source)
    OBVIOUS
  <2>3. from + n <= b_size[x] /\ source + n <= b_size[y]
    BY <1>12 DEF Bitset!copy
  <2>4. \A i \in Bitset!LostBits(from, n, source) : ~Bitset!test(y, source + (i - from))
    BY <1>12 DEF Bitset!copy
  <2>5. bs = SourceBits(x, from, n, y, source)
    BY <2>1, <2>2, <2>3, <2>4, NothingLost
  <2>6. Bitset!Changes(x, s, b_size[x], bs)
    BY <1>12, <2>2, <2>5 DEF Bitset!copy, SourceBits
  <2>7. Packed(s, bs) /\ Len(bs) = b_size[x]
    BY <2>1, <2>2, <2>3, BitsetCopied
  <2> QED  BY <2>6, <2>7, BitsetChanges
<1> QED  BY <1>1, <1>3, <1>4, <1>5, <1>6, <1>8, <1>9, <1>10, <1>11, <1>12, BitsetMoved

LEMMA BitsetStays ==
    ASSUME BitsetInv, UNCHANGED Bitset!vars
    PROVE  BitsetInv'
<1>1. \A t, b : Packed(t, b)' <=> Packed(t', b')
  BY DEF Packed
<1> QED  BY <1>1 DEF Bitset!vars, BitsetInv

BitsetIndInv == b_fault = "none" => BitsetInv

\* A dynamic_bitset is a vector<bool>, until copy() drops a bit that is set; and all() of a narrow one
\* with a whole word may be false.
THEOREM BitsetIsVectorBool == Bitset!Spec => []Bitset!LikeVectorBool
<1>1. Bitset!Init => BitsetIndInv
  BY BitsetInit DEF BitsetIndInv
<1>2. BitsetIndInv /\ [Bitset!Next]_(Bitset!vars) => BitsetIndInv'
  <2> SUFFICES ASSUME BitsetIndInv, [Bitset!Next]_(Bitset!vars), b_fault' = "none" PROVE BitsetInv'
    BY DEF BitsetIndInv
  <2>1. CASE Bitset!Next
    <3>1. b_fault = "none"
      BY <2>1 DEF Bitset!Next
    <3> QED  BY <2>1, <3>1, BitsetStep DEF BitsetIndInv
  <2>2. CASE UNCHANGED Bitset!vars
    <3>1. b_fault = "none"
      BY <2>2 DEF Bitset!vars
    <3> QED  BY <2>2, <3>1, BitsetStays DEF BitsetIndInv
  <2> QED  BY <2>1, <2>2
<1>3. BitsetIndInv => Bitset!LikeVectorBool
  BY BitsetInvariant DEF BitsetIndInv, Bitset!LikeVectorBool
<1> QED  BY <1>1, <1>2, <1>3, PTL DEF Bitset!Spec
===============================================================================
