---------------------- MODULE SmallVectorProofs ----------------------
(***************************************************************************)
(* Proofs about SmallVector: for every number of vectors, blocks and        *)
(* values, every capacity and every operation in which the allocator may   *)
(* throw, no step of an operation misuses memory, and between operations   *)
(* the vectors contain what std::vectors would.                            *)
(*                                                                         *)
(* The memory is one value, and what a step makes of it a function of it   *)
(* (After).  Runs(m, s, e, A) says that the steps s lead from m to e, and  *)
(* allocate only in a memory of A; Halts(m, s, A), that one of them will   *)
(* misuse what it finds.  The functions of the class are loops and points, *)
(* each with a lemma that says what it makes of any memory; they are put   *)
(* together operation by operation, between memories in which the vectors  *)
(* are at rest (Rest).  The inductive invariant says of an operation in    *)
(* progress that the steps it has left lead to such a memory.              *)
(***************************************************************************)
EXTENDS SmallVector, FiniteSetTheorems, WellFoundedInduction, TLAPS

\* Where a vector is.
Place(b, e, n) == [begin |-> b, end |-> e, capacity |-> n]

\* The memory, as one value.
Memory ==
    [at |-> [v \in Vectors |-> Place(m_begin[v], m_end[v], m_capacity[v])],
     block |-> block, object |-> object]

Lives(m) == DOMAIN m.object
Cap(m, b) == IF b \in Vectors THEN StaticCapacity ELSE m.block[b]
Room(m, at) == at[2] < Cap(m, at[1])

PlacesAfter(p, s) == IF s.do = "point" THEN [p EXCEPT ![s.v] = Place(s.begin, s.end, s.n)] ELSE p
BlocksAfter(k, s) ==
    CASE s.do = "allocate" -> [k EXCEPT ![s.block] = s.n]
      [] s.do = "deallocate" -> [k EXCEPT ![s.block] = 0]
      [] OTHER -> k
ObjectsAfter(o, s) ==
    CASE s.do = "put" -> With(o, s.at, s.value)
      [] s.do = "copy" -> With(o, s.at, o[s.from])
      [] s.do = "move" -> With(With(o, s.from, Moved), s.at, o[s.from])
      [] s.do = "destroy" -> Without(o, s.at)
      [] OTHER -> o

\* What a step makes of it.
After(m, s) ==
    [at |-> PlacesAfter(m.at, s), block |-> BlocksAfter(m.block, s), object |-> ObjectsAfter(m.object, s)]

\* And whether it misuses it.
Faulty(m, s) ==
    \/ s.do \in {"put", "copy", "move"} /\ (s.at \in Lives(m) \/ ~Room(m, s.at))
    \/ s.do \in {"copy", "move"} /\ s.from \notin Lives(m)
    \/ s.do = "destroy" /\ s.at \notin Lives(m)
    \/ s.do = "deallocate" /\ (m.block[s.block] # s.n \/ \E at \in Lives(m) : at[1] = s.block)

\* A step that misuses nothing, and that may fail only in A.
Takes(m, s, e, A) ==
    /\ ~Faulty(m, s)
    /\ e = After(m, s)
    /\ s.do = "allocate" => m \in A

\* One that cannot fail at all.
Safe(m, s) == ~Faulty(m, s) /\ s.do # "allocate"

\* Nothing is alive in e but what is in m, less L.
Lost(m, e, L) ==
    /\ e.at = m.at /\ e.block = m.block
    /\ Lives(e) = Lives(m) \ L
    /\ \A l \in Lives(e) : e.object[l] = m.object[l]

\* In e, x has been constructed at `at'.
Built(m, e, at, x) ==
    /\ e.at = m.at /\ e.block = m.block
    /\ Lives(e) = Lives(m) \cup {at} /\ e.object[at] = x
    /\ \A l \in Lives(m) \ {at} : e.object[l] = m.object[l]

\* In e, what is in m at `from' has been moved to `at'.
Carried(m, e, from, at) ==
    /\ e.at = m.at /\ e.block = m.block
    /\ Lives(e) = Lives(m) \cup {at} /\ e.object[at] = m.object[from]
    /\ \A l \in Lives(m) \ {from, at} : e.object[l] = m.object[l]

LEMMA PutStep ==
    ASSUME NEW m, NEW at, NEW x
    PROVE  /\ Built(m, After(m, Put(at, x)), at, x)
           /\ at \notin Lives(m) /\ Room(m, at) => Safe(m, Put(at, x))
<1>1. PICK e : e = After(m, Put(at, x))
  OBVIOUS
<1>2. e.at = m.at /\ e.block = m.block /\ e.object = With(m.object, at, x)
  BY <1>1 DEF After, Put, PlacesAfter, BlocksAfter, ObjectsAfter
<1>3. Built(m, e, at, x)
  BY <1>2 DEF Lives, Built, With
<1>4. at \notin Lives(m) /\ Room(m, at) => Safe(m, Put(at, x))
  BY DEF Faulty, Safe, Put
<1> QED  BY <1>1, <1>3, <1>4

LEMMA CopyStep ==
    ASSUME NEW m, NEW at, NEW from, from \in Lives(m)
    PROVE  /\ Built(m, After(m, Copy(from, at)), at, m.object[from])
           /\ at \notin Lives(m) /\ Room(m, at) => Safe(m, Copy(from, at))
<1>1. PICK e : e = After(m, Copy(from, at))
  OBVIOUS
<1>2. e.at = m.at /\ e.block = m.block /\ e.object = With(m.object, at, m.object[from])
  BY <1>1 DEF After, Copy, PlacesAfter, BlocksAfter, ObjectsAfter
<1>3. Built(m, e, at, m.object[from])
  BY <1>2 DEF Lives, Built, With
<1>4. at \notin Lives(m) /\ Room(m, at) => Safe(m, Copy(from, at))
  BY DEF Faulty, Safe, Copy
<1> QED  BY <1>1, <1>3, <1>4

LEMMA MoveStep ==
    ASSUME NEW m, NEW at, NEW from, from \in Lives(m)
    PROVE  /\ Carried(m, After(m, Move(from, at)), from, at)
           /\ at \notin Lives(m) /\ Room(m, at) => Safe(m, Move(from, at))
<1>1. PICK e : e = After(m, Move(from, at))
  OBVIOUS
<1>2. e.at = m.at /\ e.block = m.block
      /\ e.object = With(With(m.object, from, Moved), at, m.object[from])
  BY <1>1 DEF After, Move, PlacesAfter, BlocksAfter, ObjectsAfter
<1>3. Carried(m, e, from, at)
  BY <1>2 DEF Lives, Carried, With
<1>4. at \notin Lives(m) /\ Room(m, at) => Safe(m, Move(from, at))
  BY DEF Faulty, Safe, Move
<1> QED  BY <1>1, <1>3, <1>4

LEMMA DestroyStep ==
    ASSUME NEW m, NEW at
    PROVE  /\ Lost(m, After(m, Destroy(at)), {at})
           /\ at \in Lives(m) => Safe(m, Destroy(at))
<1>1. PICK e : e = After(m, Destroy(at))
  OBVIOUS
<1>2. e.at = m.at /\ e.block = m.block /\ e.object = Without(m.object, at)
  BY <1>1 DEF After, Destroy, PlacesAfter, BlocksAfter, ObjectsAfter
<1>3. Lost(m, e, {at})
  BY <1>2 DEF Lives, Lost, Without
<1>4. at \in Lives(m) => Safe(m, Destroy(at))
  BY DEF Faulty, Safe, Destroy
<1> QED  BY <1>1, <1>3, <1>4

\* In e, v is elsewhere.
Aimed(m, e, v, x) == e.at = [m.at EXCEPT ![v] = x]
Pointed(m, e, v, x) == Aimed(m, e, v, x) /\ e.block = m.block /\ e.object = m.object

\* In e, the block b has another capacity.
Sized(m, e, b, n) == e.at = m.at /\ e.block = [m.block EXCEPT ![b] = n] /\ e.object = m.object

LEMMA PointStep ==
    ASSUME NEW m, NEW v, NEW b, NEW t, NEW n
    PROVE  /\ Pointed(m, After(m, Point(v, b, t, n)), v, Place(b, t, n))
           /\ Safe(m, Point(v, b, t, n))
  BY DEF After, Point, PlacesAfter, BlocksAfter, ObjectsAfter, Faulty, Safe, Pointed, Aimed

LEMMA AllocateStep ==
    ASSUME NEW m, NEW b, NEW n
    PROVE  Sized(m, After(m, Allocate(b, n)), b, n) /\ ~Faulty(m, Allocate(b, n))
  BY DEF After, Allocate, PlacesAfter, BlocksAfter, ObjectsAfter, Faulty, Sized

LEMMA DeallocateStep ==
    ASSUME NEW m, NEW b, NEW n, m.block[b] = n, \A l \in Lives(m) : l[1] # b
    PROVE  Sized(m, After(m, Deallocate(b, n)), b, 0) /\ Safe(m, Deallocate(b, n))
  BY DEF After, Deallocate, PlacesAfter, BlocksAfter, ObjectsAfter, Faulty, Safe, Sized

LEMMA ExecuteIs ==
    ASSUME NEW s, Execute(s), m_begin = [v \in Vectors |-> m_begin[v]],
           m_end = [v \in Vectors |-> m_end[v]], m_capacity = [v \in Vectors |-> m_capacity[v]]
    PROVE  Memory' = After(Memory, s)
<1>1. object' = ObjectsAfter(object, s)
  BY DEF Execute, ObjectsAfter
<1>2. block' = BlocksAfter(block, s)
  BY DEF Execute, BlocksAfter
<1>3. Memory.at' = PlacesAfter(Memory.at, s)
  <2>1. CASE s.do = "point"
    BY <2>1 DEF Execute, PlacesAfter, Memory, Place
  <2>2. CASE s.do # "point"
    BY <2>2 DEF Execute, PlacesAfter, Memory, Place, vector
  <2> QED  BY <2>1, <2>2
<1> QED  BY <1>1, <1>2, <1>3 DEF After, Memory

-----------------------------------------------------------------------------
(* Sequences of steps.                                                     *)

IsSequence(s) == \E S : s \in Seq(S)

\* The memories f that the first k steps of s go through.
Path(f, m, s, k, A) ==
    /\ f[0] = m
    /\ \A i \in 1..k : Takes(f[i - 1], s[i], f[i], A)

\* s leads from m to e.
Runs(m, s, e, A) == IsSequence(s) /\ \E f : Path(f, m, s, Len(s), A) /\ f[Len(s)] = e

\* s leads from m to a step that misuses the memory.
Halts(m, s, A) ==
    IsSequence(s) /\ \E k \in 0..(Len(s) - 1) : \E f : Path(f, m, s, k, A) /\ Faulty(f[k], s[k + 1])

LEMMA SequenceIs ==
    ASSUME NEW n \in Nat, NEW s, s = [i \in 1..n |-> s[i]]
    PROVE  IsSequence(s) /\ Len(s) = n
<1> DEFINE S == {s[i] : i \in 1..n}
<1>1. s \in [1..n -> S]
  OBVIOUS
<1>2. s \in Seq(S)
  BY <1>1
<1>3. Len(s) = n
  OBVIOUS
<1>4. \E T : s \in Seq(T)
  <2> HIDE DEF S
  <2> QED  BY <1>2
<1> QED  BY <1>3, <1>4 DEF IsSequence

LEMMA ConcatIs ==
    ASSUME NEW s, NEW t, IsSequence(s), IsSequence(t)
    PROVE  /\ IsSequence(s \o t)
           /\ Len(s) \in Nat /\ Len(t) \in Nat /\ Len(s \o t) = Len(s) + Len(t)
           /\ \A i \in 1..Len(s) : (s \o t)[i] = s[i]
           /\ \A i \in 1..Len(t) : (s \o t)[Len(s) + i] = t[i]
<1>1. PICK S : s \in Seq(S)
  BY DEF IsSequence
<1>2. PICK T : t \in Seq(T)
  BY DEF IsSequence
<1>3. s \in Seq(S \cup T) /\ t \in Seq(S \cup T)
  BY <1>1, <1>2
<1>4. s \o t \in Seq(S \cup T)
  BY <1>3
<1>5. IsSequence(s \o t)
  BY <1>4 DEF IsSequence
<1>6. Len(s) \in Nat /\ Len(t) \in Nat /\ Len(s \o t) = Len(s) + Len(t)
  BY <1>3
<1>7. ASSUME NEW i \in 1..Len(s) PROVE (s \o t)[i] = s[i]
  BY <1>3, <1>6
<1>8. ASSUME NEW i \in 1..Len(t) PROVE (s \o t)[Len(s) + i] = t[i]
  BY <1>3, <1>6
<1> QED  BY <1>5, <1>6, <1>7, <1>8

\* One path after another.
LEMMA PathConcat ==
    ASSUME NEW m, NEW s, NEW t, NEW e, NEW A, IsSequence(t), Runs(m, s, e, A),
           NEW g, NEW k \in 0..Len(t), Path(g, e, t, k, A)
    PROVE  \E f : Path(f, m, s \o t, Len(s) + k, A) /\ f[Len(s) + k] = g[k]
<1>1. PICK h : Path(h, m, s, Len(s), A) /\ h[Len(s)] = e
  BY DEF Runs
<1>2. IsSequence(s)
  BY DEF Runs
<1> DEFINE n == Len(s)
           f == [i \in 0..(n + k) |-> IF i <= n THEN h[i] ELSE g[i - n]]
<1>3. /\ n \in Nat /\ Len(t) \in Nat /\ k \in Nat
      /\ \A i \in 1..n : (s \o t)[i] = s[i]
      /\ \A i \in 1..k : (s \o t)[n + i] = t[i]
  BY <1>2, ConcatIs
<1>4. /\ \A i \in 0..n : f[i] = h[i]
      /\ \A i \in 0..k : f[n + i] = g[i]
  <2>1. g[0] = h[n]
    BY <1>1 DEF Path
  <2>2. \A i \in 0..n : f[i] = h[i]
    BY <1>3
  <2>3. ASSUME NEW i \in 0..k
        PROVE  f[n + i] = g[i]
    <3>1. n + i \in 0..(n + k) /\ (n + i) - n = i /\ (n + i <= n => i = 0)
      BY <1>3
    <3> QED  BY <2>1, <3>1
  <2> QED  BY <2>2, <2>3
<1> HIDE DEF f
<1>5. ASSUME NEW i \in 1..(n + k)
      PROVE  Takes(f[i - 1], (s \o t)[i], f[i], A)
  <2>1. CASE i <= n
    <3>1. i \in 1..n /\ i - 1 \in 0..n
      BY <1>3, <2>1
    <3>2. Takes(h[i - 1], s[i], h[i], A)
      BY <1>1, <3>1 DEF Path
    <3> QED  BY <1>3, <1>4, <3>1, <3>2
  <2>2. CASE ~(i <= n)
    <3> DEFINE j == i - n
    <3>1. j \in 1..k /\ j - 1 \in 0..k /\ i = n + j /\ i - 1 = n + (j - 1)
      BY <1>3, <2>2
    <3>2. Takes(g[j - 1], t[j], g[j], A)
      BY <3>1 DEF Path
    <3>3. f[i] = g[j] /\ f[i - 1] = g[j - 1] /\ (s \o t)[i] = t[j]
      BY <1>3, <1>4, <3>1
    <3> QED  BY <3>2, <3>3
  <2> QED  BY <2>1, <2>2
<1>6. f[0] = m /\ f[n + k] = g[k]
  <2>1. 0 \in 0..n /\ k \in 0..k
    BY <1>3
  <2>2. f[0] = h[0] /\ h[0] = m
    BY <1>1, <1>4, <2>1 DEF Path
  <2> QED  BY <1>4, <2>1, <2>2
<1> QED  BY <1>5, <1>6 DEF Path

LEMMA RunsConcat ==
    ASSUME NEW m, NEW s, NEW t, NEW e, NEW d, NEW A, Runs(m, s, e, A), Runs(e, t, d, A)
    PROVE  Runs(m, s \o t, d, A)
<1>1. IsSequence(s) /\ IsSequence(t)
  BY DEF Runs
<1>2. PICK g : Path(g, e, t, Len(t), A) /\ g[Len(t)] = d
  BY DEF Runs
<1>3. Len(t) \in 0..Len(t) /\ Len(s \o t) = Len(s) + Len(t) /\ IsSequence(s \o t)
  BY <1>1, ConcatIs
<1>4. PICK f : Path(f, m, s \o t, Len(s) + Len(t), A) /\ f[Len(s) + Len(t)] = g[Len(t)]
  BY <1>1, <1>2, <1>3, PathConcat
<1> QED  BY <1>2, <1>3, <1>4 DEF Runs

LEMMA HaltsConcat ==
    ASSUME NEW m, NEW s, NEW t, NEW e, NEW A, Runs(m, s, e, A), Halts(e, t, A)
    PROVE  Halts(m, s \o t, A)
<1>1. IsSequence(s) /\ IsSequence(t)
  BY DEF Runs, Halts
<1>2. PICK k, g : k \in 0..(Len(t) - 1) /\ Path(g, e, t, k, A) /\ Faulty(g[k], t[k + 1])
  BY DEF Halts
<1>3. /\ Len(s) \in Nat /\ Len(t) \in Nat /\ Len(s \o t) = Len(s) + Len(t) /\ IsSequence(s \o t)
      /\ \A i \in 1..Len(t) : (s \o t)[Len(s) + i] = t[i]
  BY <1>1, ConcatIs
<1>4. k \in 0..Len(t) /\ k + 1 \in 1..Len(t) /\ Len(s) + (k + 1) = (Len(s) + k) + 1
  BY <1>2, <1>3
<1>5. PICK f : Path(f, m, s \o t, Len(s) + k, A) /\ f[Len(s) + k] = g[k]
  BY <1>1, <1>2, <1>4, PathConcat
<1>6. (s \o t)[(Len(s) + k) + 1] = t[k + 1]
  BY <1>3, <1>4
<1>7. Len(s) + k \in 0..(Len(s \o t) - 1)
  BY <1>3, <1>4
<1> QED  BY <1>2, <1>3, <1>5, <1>6, <1>7 DEF Halts

LEMMA HaltsEarlier ==
    ASSUME NEW m, NEW s, NEW t, NEW A, Halts(m, s, A), IsSequence(t)
    PROVE  Halts(m, s \o t, A)
<1>1. IsSequence(s)
  BY DEF Halts
<1>2. PICK k, f : k \in 0..(Len(s) - 1) /\ Path(f, m, s, k, A) /\ Faulty(f[k], s[k + 1])
  BY DEF Halts
<1>3. /\ Len(s) \in Nat /\ Len(t) \in Nat /\ Len(s \o t) = Len(s) + Len(t) /\ IsSequence(s \o t)
      /\ \A i \in 1..Len(s) : (s \o t)[i] = s[i]
  BY <1>1, ConcatIs
<1>4. Path(f, m, s \o t, k, A)
  BY <1>2, <1>3 DEF Path
<1>5. k \in 0..(Len(s \o t) - 1) /\ (s \o t)[k + 1] = s[k + 1]
  BY <1>2, <1>3
<1> QED  BY <1>2, <1>3, <1>4, <1>5 DEF Halts

LEMMA RunsNone ==
    ASSUME NEW m, NEW A
    PROVE  Runs(m, <<>>, m, A)
<1> DEFINE f == [i \in {0} |-> m]
<1>1. IsSequence(<<>>) /\ Len(<<>>) = 0
  BY DEF IsSequence
<1>2. Path(f, m, <<>>, 0, A) /\ f[0] = m
  BY DEF Path
<1> QED  BY <1>1, <1>2 DEF Runs

LEMMA RunsOne ==
    ASSUME NEW m, NEW s, NEW e, NEW A, Takes(m, s, e, A)
    PROVE  Runs(m, <<s>>, e, A)
<1> DEFINE f == [i \in 0..1 |-> IF i = 0 THEN m ELSE e]
<1>1. <<s>> \in Seq({s}) /\ Len(<<s>>) = 1 /\ <<s>>[1] = s
  OBVIOUS
<1>2. f[0] = m /\ f[1] = e
  OBVIOUS
<1>3. Path(f, m, <<s>>, 1, A) /\ f[1] = e
  <2> HIDE DEF f
  <2> QED  BY <1>1, <1>2 DEF Path, Takes
<1>4. IsSequence(<<s>>)
  BY <1>1 DEF IsSequence
<1> QED  BY <1>1, <1>3, <1>4 DEF Runs

LEMMA RunsSafe ==
    ASSUME NEW m, NEW s, NEW e, NEW A, e = After(m, s), Safe(m, s)
    PROVE  Runs(m, <<s>>, e, A)
<1>1. Takes(m, s, e, A)
  BY DEF Takes, Safe
<1> QED  BY <1>1, RunsOne

LEMMA HaltsNow ==
    ASSUME NEW m, NEW s, NEW A, IsSequence(s), Len(s) > 0, Faulty(m, s[1])
    PROVE  Halts(m, s, A)
<1> DEFINE f == [i \in {0} |-> m]
<1>0. Len(s) \in Nat
  BY DEF IsSequence
<1>1. Path(f, m, s, 0, A) /\ f[0] = m
  BY DEF Path
<1>2. 0 \in 0..(Len(s) - 1) /\ 0 + 1 = 1
  BY <1>0
<1> QED  BY <1>1, <1>2 DEF Halts

-----------------------------------------------------------------------------
\* The first step is taken.
LEMMA PathTail ==
    ASSUME NEW m, NEW s, NEW A, IsSequence(s), NEW k \in 1..Len(s), NEW f, Path(f, m, s, k, A)
    PROVE  /\ Takes(m, Head(s), After(m, Head(s)), A)
           /\ IsSequence(Tail(s)) /\ Len(Tail(s)) = Len(s) - 1
           /\ \E g : Path(g, After(m, Head(s)), Tail(s), k - 1, A) /\ g[k - 1] = f[k]
<1>1. PICK S : s \in Seq(S)
  BY DEF IsSequence
<1>2. Len(s) \in Nat /\ k \in Nat /\ Head(s) = s[1] /\ s # <<>>
  BY <1>1
<1>3. /\ Tail(s) \in Seq(S) /\ Len(Tail(s)) = Len(s) - 1
      /\ \A i \in 1..(Len(s) - 1) : Tail(s)[i] = s[i + 1]
  BY <1>1, <1>2
<1>4. Takes(m, Head(s), f[1], A)
  <2>1. 1 \in 1..k /\ 1 - 1 = 0
    BY <1>2
  <2>2. Takes(f[0], s[1], f[1], A) /\ f[0] = m
    BY <2>1 DEF Path
  <2> QED  BY <1>2, <2>2
<1>5. f[1] = After(m, Head(s))
  BY <1>4 DEF Takes
<1> DEFINE g == [i \in 0..(k - 1) |-> f[i + 1]]
<1>6. \A i \in 0..(k - 1) : g[i] = f[i + 1]
  OBVIOUS
<1> HIDE DEF g
<1>7. ASSUME NEW i \in 1..(k - 1)
      PROVE  Takes(g[i - 1], Tail(s)[i], g[i], A)
  <2>1. /\ i + 1 \in 1..k /\ (i + 1) - 1 = i /\ (i - 1) + 1 = i
        /\ i \in 0..(k - 1) /\ i - 1 \in 0..(k - 1) /\ i \in 1..(Len(s) - 1)
    BY <1>2
  <2>2. Takes(f[i], s[i + 1], f[i + 1], A)
    BY <2>1 DEF Path
  <2>3. g[i - 1] = f[i] /\ g[i] = f[i + 1] /\ Tail(s)[i] = s[i + 1]
    BY <1>3, <1>6, <2>1
  <2> QED  BY <2>2, <2>3
<1>8. 0 \in 0..(k - 1) /\ k - 1 \in 0..(k - 1) /\ 0 + 1 = 1 /\ (k - 1) + 1 = k
  BY <1>2
<1>9. g[0] = After(m, Head(s)) /\ g[k - 1] = f[k]
  BY <1>5, <1>6, <1>8
<1>10. Path(g, After(m, Head(s)), Tail(s), k - 1, A)
  BY <1>7, <1>9 DEF Path
<1> QED  BY <1>3, <1>4, <1>5, <1>9, <1>10 DEF IsSequence

LEMMA RunsTail ==
    ASSUME NEW m, NEW s, NEW e, NEW A, Runs(m, s, e, A), s # <<>>
    PROVE  /\ Takes(m, Head(s), After(m, Head(s)), A)
           /\ Runs(After(m, Head(s)), Tail(s), e, A)
<1>1. PICK f : Path(f, m, s, Len(s), A) /\ f[Len(s)] = e
  BY DEF Runs
<1>2. IsSequence(s)
  BY DEF Runs
<1>3. Len(s) \in 1..Len(s)
  BY <1>2 DEF IsSequence
<1>4. /\ Takes(m, Head(s), After(m, Head(s)), A)
      /\ IsSequence(Tail(s)) /\ Len(Tail(s)) = Len(s) - 1
  BY <1>1, <1>2, <1>3, PathTail
<1>5. PICK g : Path(g, After(m, Head(s)), Tail(s), Len(s) - 1, A) /\ g[Len(s) - 1] = f[Len(s)]
  BY <1>1, <1>2, <1>3, PathTail
<1> QED  BY <1>1, <1>4, <1>5 DEF Runs

LEMMA HaltsTail ==
    ASSUME NEW m, NEW s, NEW A, Halts(m, s, A), ~Faulty(m, Head(s))
    PROVE  /\ Takes(m, Head(s), After(m, Head(s)), A)
           /\ Halts(After(m, Head(s)), Tail(s), A)
<1>1. PICK k, f : k \in 0..(Len(s) - 1) /\ Path(f, m, s, k, A) /\ Faulty(f[k], s[k + 1])
  BY DEF Halts
<1>2. IsSequence(s)
  BY DEF Halts
<1>3. PICK S : s \in Seq(S)
  BY <1>2 DEF IsSequence
<1>4. Len(s) \in Nat /\ Head(s) = s[1] /\ f[0] = m /\ s # <<>>
  BY <1>1, <1>3 DEF Path
<1>5. k # 0
  BY <1>1, <1>4
<1>6. k \in 1..Len(s) /\ k - 1 \in 0..((Len(s) - 1) - 1) /\ (k - 1) + 1 = k
  BY <1>1, <1>4, <1>5
<1>7. Takes(m, Head(s), After(m, Head(s)), A) /\ IsSequence(Tail(s)) /\ Len(Tail(s)) = Len(s) - 1
  BY <1>1, <1>2, <1>6, PathTail
<1>8. PICK g : Path(g, After(m, Head(s)), Tail(s), k - 1, A) /\ g[k - 1] = f[k]
  BY <1>1, <1>2, <1>6, PathTail
<1>9. Tail(s)[k] = s[k + 1]
  BY <1>3, <1>4, <1>6
<1> QED  BY <1>1, <1>6, <1>7, <1>8, <1>9 DEF Halts

LEMMA RunsNothing ==
    ASSUME NEW m, NEW e, NEW A, Runs(m, <<>>, e, A)
    PROVE  e = m
  BY DEF Runs, Path

LEMMA HaltsNothing ==
    ASSUME NEW m, NEW A
    PROVE  ~Halts(m, <<>>, A)
  BY DEF Halts

-----------------------------------------------------------------------------
(* Loops.                                                                  *)

\* A set of positive numbers has a least one.
LEMMA Least ==
    ASSUME NEW P \in SUBSET (Nat \ {0}), P # {}
    PROVE  \E i \in P : \A j \in P : i <= j
<1>1. PICK n \in P : TRUE
  OBVIOUS
<1> DEFINE T == {1..i : i \in P}
<1>2. T \subseteq FiniteSubsetsOf(Nat) /\ T # {}
  <2>1. \A i \in P : 1..i \in SUBSET Nat /\ IsFiniteSet(1..i)
    BY FS_Interval
  <2> QED  BY <1>1, <2>1 DEF FiniteSubsetsOf
<1>3. PICK U \in T : \A V \in T : <<V, U>> \notin StrictSubsetOrdering(Nat)
  <2> HIDE DEF T
  <2> QED  BY <1>2, FS_StrictSubsetOrderingWellFounded, WFMin
<1>4. PICK i \in P : U = 1..i
  OBVIOUS
<1>5. ASSUME NEW j \in P, j < i
      PROVE  FALSE
  <2>1. 1..j \in T /\ 1..j \subseteq 1..i /\ i \in 1..i /\ i \notin 1..j
    BY <1>5
  <2>2. <<1..j, U>> \in StrictSubsetOrdering(Nat)
    BY <1>4, <2>1 DEF StrictSubsetOrdering
  <2> QED  BY <1>3, <2>1, <2>2
<1> QED  BY <1>4, <1>5

\* Induction up to n.
LEMMA UpTo ==
    ASSUME NEW n \in Nat, NEW S, 0 \in S, \A k \in 0..(n - 1) : k \in S => k + 1 \in S
    PROVE  n \in S
<1> SUFFICES ASSUME n \notin S PROVE FALSE
  OBVIOUS
<1> DEFINE P == {i \in 1..n : i \notin S}
<1>1. P \in SUBSET (Nat \ {0}) /\ n \in P
  OBVIOUS
<1>2. PICK i \in P : \A j \in P : i <= j
  <2> HIDE DEF P
  <2> QED  BY <1>1, Least
<1>3. i \in 1..n /\ i \notin S /\ i - 1 \in 0..(n - 1) /\ (i - 1) + 1 = i
  OBVIOUS
<1>4. i - 1 \notin S
  BY <1>3
<1>5. i - 1 \in P
  BY <1>3, <1>4
<1> QED  BY <1>2, <1>3, <1>5

\* The first k steps of s lead from m to e.
Reaches(m, s, k, e, A) == \E f : Path(f, m, s, k, A) /\ f[k] = e

LEMMA ReachesNone ==
    ASSUME NEW m, NEW s, NEW A
    PROVE  Reaches(m, s, 0, m, A)
<1> DEFINE f == [i \in {0} |-> m]
<1>1. Path(f, m, s, 0, A) /\ f[0] = m
  BY DEF Path
<1> QED  BY <1>1 DEF Reaches

LEMMA ReachesMore ==
    ASSUME NEW m, NEW s, NEW k \in Nat, NEW e, NEW A, Reaches(m, s, k, e, A),
           NEW d, d = After(e, s[k + 1]), Safe(e, s[k + 1])
    PROVE  Reaches(m, s, k + 1, d, A)
<1>1. PICK f : Path(f, m, s, k, A) /\ f[k] = e
  BY DEF Reaches
<1> DEFINE g == [i \in 0..(k + 1) |-> IF i = k + 1 THEN d ELSE f[i]]
<1>2. g[k + 1] = d /\ \A i \in 0..k : g[i] = f[i]
  OBVIOUS
<1> HIDE DEF g
<1>3. ASSUME NEW i \in 1..(k + 1)
      PROVE  Takes(g[i - 1], s[i], g[i], A)
  <2>1. CASE i = k + 1
    <3>1. i - 1 = k /\ k \in 0..k
      BY <2>1
    <3> QED  BY <1>1, <1>2, <2>1, <3>1 DEF Takes, Safe
  <2>2. CASE i # k + 1
    <3>1. i \in 1..k /\ i \in 0..k /\ i - 1 \in 0..k
      BY <2>2
    <3>2. Takes(f[i - 1], s[i], f[i], A)
      BY <1>1, <3>1 DEF Path
    <3> QED  BY <1>2, <3>1, <3>2
  <2> QED  BY <2>1, <2>2
<1>4. g[0] = m
  BY <1>1, <1>2 DEF Path
<1>5. Path(g, m, s, k + 1, A)
  BY <1>3, <1>4 DEF Path
<1> QED  BY <1>2, <1>5 DEF Reaches

LEMMA ReachesNext ==
    ASSUME NEW m, NEW s, NEW k \in Nat, NEW e, NEW A, Reaches(m, s, k, e, A),
           NEW x, NEW j, j = k + 1, s[j] = x, Safe(e, x)
    PROVE  Reaches(m, s, j, After(e, x), A)
  BY ReachesMore

LEMMA ReachesAll ==
    ASSUME NEW m, NEW s, NEW e, NEW A, IsSequence(s), Reaches(m, s, Len(s), e, A)
    PROVE  Runs(m, s, e, A)
  BY DEF Runs, Reaches

\* The first n places of p.
FirstOf(p, n) == {p[i] : i \in 0..(n - 1)}

LEMMA FirstOfNone ==
    ASSUME NEW p
    PROVE  FirstOf(p, 0) = {}
  BY DEF FirstOf

LEMMA FirstOfMore ==
    ASSUME NEW p, NEW k \in Nat
    PROVE  FirstOf(p, k + 1) = FirstOf(p, k) \cup {p[k]}
<1>1. 0..((k + 1) - 1) = 0..(k - 1) \cup {k}
  OBVIOUS
<1> QED  BY <1>1 DEF FirstOf

LEMMA FirstOfBoth ==
    ASSUME NEW p, NEW q, NEW n \in Nat, NEW k \in 0..(n - 1)
    PROVE  /\ k \in Nat /\ k \in 0..k
           /\ FirstOf(p, k + 1) = FirstOf(p, k) \cup {p[k]} /\ FirstOf(q, k + 1) = FirstOf(q, k) \cup {q[k]}
<1>1. k \in Nat /\ k \in 0..k
  OBVIOUS
<1> QED  BY <1>1, FirstOfMore

Different(p, n) == \A i, j \in 0..(n - 1) : p[i] = p[j] => i = j

LEMMA NotYet ==
    ASSUME NEW p, NEW n \in Nat, Different(p, n), NEW i \in 0..(n - 1), NEW k \in 0..i
    PROVE  p[i] \notin FirstOf(p, k)
  BY DEF Different, FirstOf

\* Objects are destroyed.
LEMMA DestroyLoop ==
    ASSUME NEW m, NEW s, NEW n \in Nat, NEW p, NEW A,
           IsSequence(s), Len(s) = n, \A i \in 0..(n - 1) : s[i + 1] = Destroy(p[i]),
           FirstOf(p, n) \subseteq Lives(m), Different(p, n)
    PROVE  \E e : Runs(m, s, e, A) /\ Lost(m, e, FirstOf(p, n))
<1> DEFINE S == {k \in 0..n : \E e : Reaches(m, s, k, e, A) /\ Lost(m, e, FirstOf(p, k))}
<1>1. 0 \in S
  <2>1. Lost(m, m, FirstOf(p, 0))
    BY FirstOfNone DEF Lost
  <2> QED  BY <2>1, ReachesNone
<1>2. ASSUME NEW k \in 0..(n - 1), k \in S
      PROVE  k + 1 \in S
  <2>1. PICK e : Reaches(m, s, k, e, A) /\ Lost(m, e, FirstOf(p, k))
    BY <1>2
  <2>2. PICK d : d = After(e, Destroy(p[k]))
    OBVIOUS
  <2>3. p[k] \in Lives(e)
    <3>1. p[k] \in FirstOf(p, n) /\ k \in 0..k
      BY DEF FirstOf
    <3>2. p[k] \notin FirstOf(p, k)
      BY <3>1, NotYet
    <3> QED  BY <2>1, <3>1, <3>2 DEF Lost
  <2>4. Lost(e, d, {p[k]}) /\ Safe(e, Destroy(p[k]))
    BY <2>2, <2>3, DestroyStep
  <2>5. k \in Nat /\ s[k + 1] = Destroy(p[k])
    OBVIOUS
  <2>6. Reaches(m, s, k + 1, d, A)
    BY <2>1, <2>2, <2>4, <2>5, ReachesMore
  <2>7. Lost(m, d, FirstOf(p, k + 1))
    BY <2>1, <2>4, <2>5, FirstOfMore DEF Lost
  <2> QED  BY <2>6, <2>7
<1>3. n \in S
  <2> HIDE DEF S
  <2> QED  BY <1>1, <1>2, UpTo
<1> QED  BY <1>3, ReachesAll

\* A step that constructs x at `at' in m.
Builds(m, s, at, x) ==
    \/ s = Put(at, x)
    \/ \E from \in Lives(m) : s = Copy(from, at) /\ m.object[from] = x

LEMMA BuildStep ==
    ASSUME NEW m, NEW s, NEW at, NEW x, Builds(m, s, at, x)
    PROVE  /\ Built(m, After(m, s), at, x)
           /\ at \notin Lives(m) /\ Room(m, at) => Safe(m, s)
<1>1. CASE s = Put(at, x)
  BY <1>1, PutStep
<1>2. CASE s # Put(at, x)
  <2>1. PICK from \in Lives(m) : s = Copy(from, at) /\ m.object[from] = x
    BY <1>2 DEF Builds
  <2> QED  BY <2>1, CopyStep
<1> QED  BY <1>1, <1>2

\* In e there is, besides what is in m, x[i] at p[i], for the first k.
Filled(m, e, p, x, k) ==
    /\ e.block = m.block
    /\ Lives(e) = Lives(m) \cup FirstOf(p, k)
    /\ \A l \in Lives(m) : e.object[l] = m.object[l]
    /\ \A i \in 0..(k - 1) : e.object[p[i]] = x[i]

LEMMA FillStep ==
    ASSUME NEW m, NEW s, NEW n \in Nat, NEW p, NEW x, NEW k \in 0..(n - 1), NEW e, NEW d,
           Builds(m, s, p[k], x[k]), Room(m, p[k]), p[k] \notin Lives(m), Different(p, n),
           Filled(m, e, p, x, k), d = After(e, s)
    PROVE  Safe(e, s) /\ d.at = e.at /\ Filled(m, d, p, x, k + 1)
<1>1. Builds(e, s, p[k], x[k])
  BY DEF Builds, Filled
<1>2. p[k] \notin Lives(e)
  <2>1. k \in 0..k
    OBVIOUS
  <2>2. p[k] \notin FirstOf(p, k)
    BY <2>1, NotYet
  <2> QED  BY <2>2 DEF Filled
<1>3. Room(e, p[k])
  BY DEF Room, Cap, Filled
<1>4. Built(e, d, p[k], x[k]) /\ Safe(e, s)
  BY <1>1, <1>2, <1>3, BuildStep
<1>5. k \in Nat /\ FirstOf(p, k + 1) = FirstOf(p, k) \cup {p[k]}
  BY FirstOfMore
<1>6. ASSUME NEW i \in 0..((k + 1) - 1)
      PROVE  d.object[p[i]] = x[i]
  <2>1. CASE i = k
    BY <1>4, <2>1 DEF Built
  <2>2. CASE i # k
    <3>1. i \in 0..(k - 1) /\ i \in 0..(n - 1)
      BY <2>2
    <3>2. p[i] \in Lives(e) /\ p[i] # p[k] /\ e.object[p[i]] = x[i]
      BY <2>2, <3>1 DEF Filled, FirstOf, Different
    <3> QED  BY <1>4, <3>2 DEF Built
  <2> QED  BY <2>1, <2>2
<1>7. ASSUME NEW l \in Lives(m)
      PROVE  d.object[l] = m.object[l]
  BY <1>4 DEF Built, Filled
<1>8. d.block = m.block /\ Lives(d) = Lives(m) \cup FirstOf(p, k + 1)
  BY <1>4, <1>5 DEF Built, Filled
<1> QED  BY <1>4, <1>6, <1>7, <1>8 DEF Filled, Built

LEMMA FilledNone ==
    ASSUME NEW m, NEW p, NEW x
    PROVE  Filled(m, m, p, x, 0)
  BY FirstOfNone DEF Filled

\* Objects are constructed.
LEMMA FillLoop ==
    ASSUME NEW m, NEW s, NEW n \in Nat, NEW p, NEW x, NEW A,
           IsSequence(s), Len(s) = n,
           \A i \in 0..(n - 1) : Builds(m, s[i + 1], p[i], x[i]) /\ Room(m, p[i]) /\ p[i] \notin Lives(m),
           Different(p, n)
    PROVE  \E e : Runs(m, s, e, A) /\ e.at = m.at /\ Filled(m, e, p, x, n)
<1> DEFINE S == {k \in 0..n : \E e : Reaches(m, s, k, e, A) /\ e.at = m.at /\ Filled(m, e, p, x, k)}
<1>1. 0 \in S
  BY ReachesNone, FilledNone
<1>2. ASSUME NEW k \in 0..(n - 1), k \in S
      PROVE  k + 1 \in S
  <2>1. PICK e : Reaches(m, s, k, e, A) /\ e.at = m.at /\ Filled(m, e, p, x, k)
    BY <1>2
  <2>2. PICK d : d = After(e, s[k + 1])
    OBVIOUS
  <2>3. Safe(e, s[k + 1]) /\ d.at = e.at /\ Filled(m, d, p, x, k + 1)
    <3>1. Builds(m, s[k + 1], p[k], x[k]) /\ Room(m, p[k]) /\ p[k] \notin Lives(m)
      OBVIOUS
    <3> QED  BY <2>1, <2>2, <3>1, FillStep
  <2>4. Reaches(m, s, k + 1, d, A)
    BY <2>1, <2>2, <2>3, ReachesMore
  <2> QED  BY <2>1, <2>3, <2>4
<1>3. n \in S
  <2> HIDE DEF S
  <2> QED  BY <1>1, <1>2, UpTo
<1> QED  BY <1>3, ReachesAll

\* Then the vector v is pointed at the place a.
LEMMA CountAfter ==
    ASSUME NEW m, NEW s, NEW n \in Nat, NEW p, NEW x, NEW A, NEW k \in 0..(n - 1), NEW e,
           NEW v, NEW b, NEW t, NEW c, NEW i \in Nat, NEW j, j = i + 2,
           Reaches(m, s, i, e, A), Filled(m, e, p, x, k),
           Builds(m, s[i + 1], p[k], x[k]), s[i + 2] = Point(v, b, t, c),
           Room(m, p[k]), p[k] \notin Lives(m), Different(p, n)
    PROVE  \E d : /\ Reaches(m, s, j, d, A) /\ Filled(m, d, p, x, k + 1)
                  /\ Aimed(e, d, v, Place(b, t, c))
<1>1. PICK r : r = s[i + 1]
  OBVIOUS
<1>2. PICK g : g = After(e, r)
  OBVIOUS
<1>3. Safe(e, r) /\ g.at = e.at /\ Filled(m, g, p, x, k + 1)
  BY <1>1, <1>2, FillStep
<1>4. Reaches(m, s, i + 1, g, A)
  BY <1>1, <1>2, <1>3, ReachesNext
<1>5. PICK P : P = Point(v, b, t, c)
  OBVIOUS
<1>6. PICK d : d = After(g, P)
  OBVIOUS
<1>7. Pointed(g, d, v, Place(b, t, c)) /\ Safe(g, P)
  BY <1>5, <1>6, PointStep
<1>8. i + 1 \in Nat /\ j = (i + 1) + 1 /\ s[j] = P
  BY <1>5
<1>9. Reaches(m, s, j, d, A)
  BY <1>4, <1>6, <1>7, <1>8, ReachesNext
<1>10. Filled(m, d, p, x, k + 1)
  BY <1>3, <1>7 DEF Filled, Lives, Pointed
<1>11. Aimed(e, d, v, Place(b, t, c))
  BY <1>3, <1>7 DEF Pointed, Aimed
<1> QED  BY <1>9, <1>10, <1>11

LEMMA CountBefore ==
    ASSUME NEW m, NEW s, NEW n \in Nat, NEW p, NEW x, NEW A, NEW k \in 0..(n - 1), NEW e,
           NEW v, NEW b, NEW t, NEW c, NEW i \in Nat, NEW j, j = i + 2,
           Reaches(m, s, i, e, A), Filled(m, e, p, x, k),
           s[i + 1] = Point(v, b, t, c), Builds(m, s[i + 2], p[k], x[k]),
           Room(m, p[k]), p[k] \notin Lives(m), Different(p, n)
    PROVE  \E d : /\ Reaches(m, s, j, d, A) /\ Filled(m, d, p, x, k + 1)
                  /\ Aimed(e, d, v, Place(b, t, c))
<1>1. PICK P : P = Point(v, b, t, c)
  OBVIOUS
<1>2. PICK g : g = After(e, P)
  OBVIOUS
<1>3. Pointed(e, g, v, Place(b, t, c)) /\ Safe(e, P)
  BY <1>1, <1>2, PointStep
<1>4. Reaches(m, s, i + 1, g, A)
  BY <1>1, <1>2, <1>3, ReachesNext
<1>5. Filled(m, g, p, x, k)
  BY <1>3 DEF Filled, Lives, Pointed
<1>6. PICK r : r = s[i + 2]
  OBVIOUS
<1>7. PICK d : d = After(g, r)
  OBVIOUS
<1>8. Safe(g, r) /\ d.at = g.at /\ Filled(m, d, p, x, k + 1)
  BY <1>5, <1>6, <1>7, FillStep
<1>9. i + 1 \in Nat /\ j = (i + 1) + 1 /\ s[j] = r
  BY <1>6
<1>10. Reaches(m, s, j, d, A)
  BY <1>4, <1>7, <1>8, <1>9, ReachesNext
<1>11. Aimed(e, d, v, Place(b, t, c))
  BY <1>3, <1>8 DEF Pointed, Aimed
<1> QED  BY <1>8, <1>10, <1>11

\* Objects are constructed one by one and counted, after or before.
LEMMA CountLoop ==
    ASSUME NEW m, NEW s, NEW n \in Nat, NEW p, NEW x, NEW A,
           NEW v, NEW b, NEW t, NEW c, NEW o \in Nat,
           IsSequence(s), Len(s) = 2 * n,
           \A i \in 0..(n - 1) :
               /\ \/ /\ Builds(m, s[2 * i + 1], p[i], x[i])
                     /\ s[2 * i + 2] = Point(v, b, <<t, o + i + 1>>, c)
                  \/ /\ s[2 * i + 1] = Point(v, b, <<t, o + i + 1>>, c)
                     /\ Builds(m, s[2 * i + 2], p[i], x[i])
               /\ Room(m, p[i]) /\ p[i] \notin Lives(m),
           Different(p, n),
           Aimed(m, m, v, Place(b, <<t, o>>, c))
    PROVE  \E e : /\ Runs(m, s, e, A) /\ Aimed(m, e, v, Place(b, <<t, o + n>>, c))
                  /\ Filled(m, e, p, x, n)
<1> DEFINE Counted(e, k) == Aimed(m, e, v, Place(b, <<t, o + k>>, c))
           S == {k \in 0..n : \E e : Reaches(m, s, 2 * k, e, A) /\ Counted(e, k) /\ Filled(m, e, p, x, k)}
<1>1. 0 \in S
  <2>1. 2 * 0 = 0 /\ o + 0 = o
    OBVIOUS
  <2>2. Reaches(m, s, 2 * 0, m, A) /\ Counted(m, 0)
    BY <2>1, ReachesNone
  <2> QED  BY <2>2, FilledNone
<1>2. ASSUME NEW k \in 0..(n - 1), k \in S
      PROVE  k + 1 \in S
  <2>1. PICK e : Reaches(m, s, 2 * k, e, A) /\ Counted(e, k) /\ Filled(m, e, p, x, k)
    BY <1>2
  <2>2. PICK i \in Nat : i = 2 * k
    OBVIOUS
  <2>3. PICK j \in Nat : j = 2 * (k + 1)
    OBVIOUS
  <2>4. PICK y : y = <<t, o + k + 1>>
    OBVIOUS
  <2>5. /\ \/ Builds(m, s[i + 1], p[k], x[k]) /\ s[i + 2] = Point(v, b, y, c)
           \/ s[i + 1] = Point(v, b, y, c) /\ Builds(m, s[i + 2], p[k], x[k])
        /\ Room(m, p[k]) /\ p[k] \notin Lives(m)
    BY <2>2, <2>4
  <2>6. j = i + 2 /\ Reaches(m, s, i, e, A)
    BY <2>1, <2>2, <2>3
  <2>7. PICK d : /\ Reaches(m, s, j, d, A) /\ Filled(m, d, p, x, k + 1)
                 /\ Aimed(e, d, v, Place(b, y, c))
    <3>1. CASE Builds(m, s[i + 1], p[k], x[k]) /\ s[i + 2] = Point(v, b, y, c)
      BY <2>1, <2>5, <2>6, <3>1, CountAfter
    <3>2. CASE s[i + 1] = Point(v, b, y, c) /\ Builds(m, s[i + 2], p[k], x[k])
      BY <2>1, <2>5, <2>6, <3>2, CountBefore
    <3> QED  BY <2>5, <3>1, <3>2
  <2>8. Counted(d, k + 1)
    <3>1. y = <<t, o + (k + 1)>>
      BY <2>4
    <3> QED  BY <2>1, <2>7, <3>1 DEF Aimed
  <2> HIDE DEF Counted
  <2> QED  BY <2>3, <2>7, <2>8
<1>3. n \in S
  <2> HIDE DEF S
  <2> QED  BY <1>1, <1>2, UpTo
<1>4. PICK e : Reaches(m, s, 2 * n, e, A) /\ Counted(e, n) /\ Filled(m, e, p, x, n)
  BY <1>3
<1>5. Runs(m, s, e, A)
  BY <1>4, ReachesAll
<1> QED  BY <1>4, <1>5

LEMMA PairNext ==
    ASSUME NEW m, NEW s, NEW i \in Nat, NEW e, NEW A, Reaches(m, s, i, e, A),
           NEW x, s[i + 1] = x, Safe(e, x),
           NEW y, s[i + 2] = y, Safe(After(e, x), y),
           NEW j, j = i + 2
    PROVE  Reaches(m, s, j, After(After(e, x), y), A)
<1>1. PICK g : g = After(e, x)
  OBVIOUS
<1>2. Reaches(m, s, i + 1, g, A)
  BY <1>1, ReachesNext
<1>3. i + 1 \in Nat /\ j = (i + 1) + 1 /\ s[j] = y
  OBVIOUS
<1> QED  BY <1>1, <1>2, <1>3, ReachesNext

\* In e, the first k objects at q have been moved to p, and are still there.
Moves(m, e, q, p, k) ==
    /\ e.at = m.at /\ e.block = m.block
    /\ Lives(e) = Lives(m) \cup FirstOf(p, k)
    /\ \A l \in Lives(m) \ FirstOf(q, k) : e.object[l] = m.object[l]
    /\ \A i \in 0..(k - 1) : e.object[p[i]] = m.object[q[i]]

LEMMA MovesMore ==
    ASSUME NEW m, NEW n \in Nat, NEW p, NEW q, NEW k \in 0..(n - 1), NEW e, NEW d,
           q[k] \in Lives(m), Room(m, p[k]), FirstOf(p, n) \cap Lives(m) = {},
           Different(p, n), Different(q, n),
           Moves(m, e, q, p, k), d = After(e, Move(q[k], p[k]))
    PROVE  Safe(e, Move(q[k], p[k])) /\ Moves(m, d, q, p, k + 1)
<1>1. /\ k \in Nat /\ k \in 0..k
      /\ FirstOf(p, k + 1) = FirstOf(p, k) \cup {p[k]} /\ FirstOf(q, k + 1) = FirstOf(q, k) \cup {q[k]}
  BY FirstOfBoth
<1>2. p[k] \notin FirstOf(p, k) /\ q[k] \notin FirstOf(q, k)
  BY <1>1, NotYet
<1>3. p[k] \in FirstOf(p, n)
  BY DEF FirstOf
<1>4. p[k] \notin Lives(e) /\ q[k] \in Lives(e) /\ e.object[q[k]] = m.object[q[k]]
  BY <1>2, <1>3 DEF Moves
<1>5. Room(e, p[k])
  BY DEF Room, Cap, Moves
<1>6. Carried(e, d, q[k], p[k]) /\ Safe(e, Move(q[k], p[k]))
  BY <1>4, <1>5, MoveStep
<1>7. ASSUME NEW i \in 0..((k + 1) - 1)
      PROVE  d.object[p[i]] = m.object[q[i]]
  <2>1. CASE i = k
    BY <1>4, <1>6, <2>1 DEF Carried
  <2>2. CASE i # k
    <3>1. i \in 0..(k - 1) /\ i \in 0..(n - 1)
      BY <2>2
    <3>2. p[i] \in FirstOf(p, n) /\ p[i] \in FirstOf(p, k)
      BY <3>1 DEF FirstOf
    <3>3. p[i] \in Lives(e) /\ p[i] # p[k] /\ p[i] # q[k] /\ e.object[p[i]] = m.object[q[i]]
      BY <1>2, <3>1, <3>2 DEF Moves
    <3> QED  BY <1>6, <3>3 DEF Carried
  <2> QED  BY <2>1, <2>2
<1>8. ASSUME NEW l \in Lives(m) \ FirstOf(q, k + 1)
      PROVE  d.object[l] = m.object[l]
  <2>1. l # q[k] /\ l # p[k] /\ l \in Lives(e) /\ e.object[l] = m.object[l]
    BY <1>1, <1>3 DEF Moves
  <2> QED  BY <1>6, <2>1 DEF Carried
<1>9. d.at = m.at /\ d.block = m.block /\ Lives(d) = Lives(m) \cup FirstOf(p, k + 1)
  BY <1>1, <1>6 DEF Carried, Moves
<1> QED  BY <1>6, <1>7, <1>8, <1>9 DEF Moves

LEMMA MoveLoop ==
    ASSUME NEW m, NEW s, NEW n \in Nat, NEW p, NEW q, NEW A,
           IsSequence(s), Len(s) = n,
           \A i \in 0..(n - 1) : s[i + 1] = Move(q[i], p[i]) /\ q[i] \in Lives(m) /\ Room(m, p[i]),
           FirstOf(p, n) \cap Lives(m) = {}, Different(p, n), Different(q, n)
    PROVE  \E e : Runs(m, s, e, A) /\ Moves(m, e, q, p, n)
<1> DEFINE S == {k \in 0..n : \E e : Reaches(m, s, k, e, A) /\ Moves(m, e, q, p, k)}
<1>1. 0 \in S
  <2>1. Moves(m, m, q, p, 0)
    BY FirstOfNone DEF Moves
  <2> QED  BY <2>1, ReachesNone
<1>2. ASSUME NEW k \in 0..(n - 1), k \in S
      PROVE  k + 1 \in S
  <2>1. PICK e : Reaches(m, s, k, e, A) /\ Moves(m, e, q, p, k)
    BY <1>2
  <2>2. PICK d : d = After(e, Move(q[k], p[k]))
    OBVIOUS
  <2>3. k \in Nat /\ s[k + 1] = Move(q[k], p[k]) /\ q[k] \in Lives(m) /\ Room(m, p[k])
    OBVIOUS
  <2>4. Safe(e, Move(q[k], p[k])) /\ Moves(m, d, q, p, k + 1)
    BY <2>1, <2>2, <2>3, MovesMore
  <2>5. Reaches(m, s, k + 1, d, A)
    BY <2>1, <2>2, <2>3, <2>4, ReachesNext
  <2> QED  BY <2>4, <2>5
<1>3. n \in S
  <2> HIDE DEF S
  <2> QED  BY <1>1, <1>2, UpTo
<1> QED  BY <1>3, ReachesAll

\* In e, the first k objects at q have been moved to p, and destroyed.
Relocated(m, e, q, p, k) ==
    /\ e.at = m.at /\ e.block = m.block
    /\ Lives(e) = (Lives(m) \ FirstOf(q, k)) \cup FirstOf(p, k)
    /\ \A l \in Lives(m) \ (FirstOf(q, k) \cup FirstOf(p, k)) : e.object[l] = m.object[l]
    /\ \A i \in 0..(k - 1) : e.object[p[i]] = m.object[q[i]]

LEMMA RelocatedMore ==
    ASSUME NEW m, NEW n \in Nat, NEW p, NEW q, NEW k \in 0..(n - 1), NEW e,
           \A i \in 0..(n - 1) : q[i] \in Lives(m) /\ p[i] \notin Lives(m) \ FirstOf(q, i),
           Room(m, p[k]), Different(p, n), Different(q, n), Relocated(m, e, q, p, k),
           NEW x, x = Move(q[k], p[k]), NEW y, y = Destroy(q[k])
    PROVE  Safe(e, x) /\ Safe(After(e, x), y) /\ Relocated(m, After(After(e, x), y), q, p, k + 1)
<1>1. /\ k \in Nat /\ k \in 0..k
      /\ FirstOf(p, k + 1) = FirstOf(p, k) \cup {p[k]} /\ FirstOf(q, k + 1) = FirstOf(q, k) \cup {q[k]}
  BY FirstOfBoth
<1>2. p[k] \notin FirstOf(p, k) /\ q[k] \notin FirstOf(q, k)
  BY <1>1, NotYet
<1>3. q[k] # p[k] /\ q[k] \notin FirstOf(p, k)
  <2>1. ASSUME NEW i \in 0..k
        PROVE  q[k] # p[i]
    <3>1. q[k] \notin FirstOf(q, i) /\ i \in 0..(n - 1)
      BY NotYet
    <3> QED  BY <3>1
  <2> QED  BY <1>1, <2>1 DEF FirstOf
<1>4. p[k] \notin Lives(e) /\ q[k] \in Lives(e) /\ e.object[q[k]] = m.object[q[k]]
  BY <1>2, <1>3 DEF Relocated
<1>5. Room(e, p[k])
  BY DEF Room, Cap, Relocated
<1>6. PICK g : g = After(e, x)
  OBVIOUS
<1>7. Carried(e, g, q[k], p[k]) /\ Safe(e, x)
  BY <1>4, <1>5, <1>6, MoveStep
<1>8. PICK d : d = After(g, y)
  OBVIOUS
<1>9. Lost(g, d, {q[k]}) /\ Safe(g, y)
  <2>1. q[k] \in Lives(g)
    BY <1>4, <1>7 DEF Carried
  <2> QED  BY <1>8, <2>1, DestroyStep
<1>10. d.at = m.at /\ d.block = m.block
       /\ Lives(d) = (Lives(m) \ FirstOf(q, k + 1)) \cup FirstOf(p, k + 1)
  BY <1>1, <1>3, <1>7, <1>9 DEF Carried, Relocated, Lost
<1>11. ASSUME NEW i \in 0..((k + 1) - 1)
       PROVE  d.object[p[i]] = m.object[q[i]]
  <2>0. p[i] \in Lives(d)
    <3>1. p[i] \in FirstOf(p, k + 1)
      BY DEF FirstOf
    <3> QED  BY <1>10, <3>1
  <2>1. CASE i = k
    BY <1>4, <1>7, <1>9, <2>0, <2>1 DEF Carried, Lost
  <2>2. CASE i # k
    <3>1. i \in 0..(k - 1) /\ i \in 0..(n - 1)
      BY <2>2
    <3>2. p[i] \in FirstOf(p, k)
      BY <3>1 DEF FirstOf
    <3>3. p[i] \in Lives(e) /\ p[i] # p[k] /\ p[i] # q[k] /\ e.object[p[i]] = m.object[q[i]]
      BY <1>2, <1>3, <3>1, <3>2 DEF Relocated
    <3>4. g.object[p[i]] = e.object[p[i]]
      BY <1>7, <3>3 DEF Carried
    <3>5. d.object[p[i]] = g.object[p[i]]
      BY <1>9, <2>0 DEF Lost
    <3> QED  BY <3>3, <3>4, <3>5
  <2> QED  BY <2>1, <2>2
<1>12. ASSUME NEW l \in Lives(m) \ (FirstOf(q, k + 1) \cup FirstOf(p, k + 1))
       PROVE  d.object[l] = m.object[l]
  <2>1. l # q[k] /\ l # p[k] /\ l \in Lives(e) /\ e.object[l] = m.object[l]
    BY <1>1 DEF Relocated
  <2>2. g.object[l] = e.object[l]
    BY <1>7, <2>1 DEF Carried
  <2>3. l \in Lives(d)
    BY <1>10
  <2> QED  BY <1>9, <2>1, <2>2, <2>3 DEF Lost
<1>13. Relocated(m, d, q, p, k + 1)
  BY <1>10, <1>11, <1>12 DEF Relocated
<1> QED  BY <1>6, <1>7, <1>8, <1>9, <1>13

LEMMA RelocateLoop ==
    ASSUME NEW m, NEW s, NEW n \in Nat, NEW p, NEW q, NEW A,
           IsSequence(s), Len(s) = 2 * n,
           \A i \in 0..(n - 1) : s[2 * i + 1] = Move(q[i], p[i]) /\ s[2 * i + 2] = Destroy(q[i]),
           \A i \in 0..(n - 1) : q[i] \in Lives(m) /\ p[i] \notin Lives(m) \ FirstOf(q, i),
           \A i \in 0..(n - 1) : Room(m, p[i]),
           Different(p, n), Different(q, n)
    PROVE  \E e : Runs(m, s, e, A) /\ Relocated(m, e, q, p, n)
<1> DEFINE S == {k \in 0..n : \E e : Reaches(m, s, 2 * k, e, A) /\ Relocated(m, e, q, p, k)}
<1>1. 0 \in S
  <2>1. Relocated(m, m, q, p, 0) /\ 2 * 0 = 0
    BY FirstOfNone DEF Relocated
  <2> QED  BY <2>1, ReachesNone
<1>2. ASSUME NEW k \in 0..(n - 1), k \in S
      PROVE  k + 1 \in S
  <2>1. PICK e : Reaches(m, s, 2 * k, e, A) /\ Relocated(m, e, q, p, k)
    BY <1>2
  <2>2. PICK i \in Nat : i = 2 * k
    OBVIOUS
  <2>3. PICK j \in Nat : j = 2 * (k + 1)
    OBVIOUS
  <2>4. PICK x, y : x = Move(q[k], p[k]) /\ y = Destroy(q[k])
    OBVIOUS
  <2>5. s[i + 1] = x /\ s[i + 2] = y /\ Room(m, p[k]) /\ j = i + 2 /\ Reaches(m, s, i, e, A)
    BY <2>1, <2>2, <2>3, <2>4
  <2>6. Safe(e, x) /\ Safe(After(e, x), y) /\ Relocated(m, After(After(e, x), y), q, p, k + 1)
    BY <2>1, <2>4, <2>5, RelocatedMore
  <2>7. Reaches(m, s, j, After(After(e, x), y), A)
    BY <2>5, <2>6, PairNext
  <2> QED  BY <2>3, <2>6, <2>7
<1>3. n \in S
  <2> HIDE DEF S
  <2> QED  BY <1>1, <1>2, UpTo
<1> QED  BY <1>3, ReachesAll

\* In e, the first k objects at p have been replaced by those at q, which are still there.
Shifted(m, e, q, p, k) ==
    /\ e.at = m.at /\ e.block = m.block
    /\ Lives(e) = Lives(m)
    /\ \A l \in Lives(m) \ (FirstOf(q, k) \cup FirstOf(p, k)) : e.object[l] = m.object[l]
    /\ \A i \in 0..(k - 1) : e.object[p[i]] = m.object[q[i]]

LEMMA ShiftedMore ==
    ASSUME NEW m, NEW n \in Nat, NEW p, NEW q, NEW k \in 0..(n - 1), NEW e,
           \A i \in 0..(n - 1) : q[i] \in Lives(m) /\ p[i] \in Lives(m),
           \A i, j \in 0..(n - 1) : j <= i => q[i] # p[j],
           Room(m, p[k]), Different(p, n), Different(q, n), Shifted(m, e, q, p, k),
           NEW x, x = Destroy(p[k]), NEW y, y = Move(q[k], p[k])
    PROVE  Safe(e, x) /\ Safe(After(e, x), y) /\ Shifted(m, After(After(e, x), y), q, p, k + 1)
<1>1. /\ k \in Nat /\ k \in 0..k
      /\ FirstOf(p, k + 1) = FirstOf(p, k) \cup {p[k]} /\ FirstOf(q, k + 1) = FirstOf(q, k) \cup {q[k]}
  BY FirstOfBoth
<1>2. p[k] \notin FirstOf(p, k) /\ q[k] \notin FirstOf(q, k)
  BY <1>1, NotYet
<1>3. q[k] # p[k] /\ q[k] \notin FirstOf(p, k)
  <2>1. ASSUME NEW i \in 0..k
        PROVE  q[k] # p[i]
    OBVIOUS
  <2> QED  BY <1>1, <2>1 DEF FirstOf
<1>4. p[k] \in Lives(e) /\ q[k] \in Lives(e) /\ e.object[q[k]] = m.object[q[k]]
  BY <1>2, <1>3 DEF Shifted
<1>6. PICK g : g = After(e, x)
  OBVIOUS
<1>7. Lost(e, g, {p[k]}) /\ Safe(e, x)
  BY <1>4, <1>6, DestroyStep
<1>8. PICK d : d = After(g, y)
  OBVIOUS
<1>9. Carried(g, d, q[k], p[k]) /\ Safe(g, y)
  <2>1. q[k] \in Lives(g) /\ p[k] \notin Lives(g)
    BY <1>3, <1>4, <1>7 DEF Lost
  <2>2. Room(g, p[k])
    BY <1>7 DEF Room, Cap, Shifted, Lost
  <2> QED  BY <1>8, <2>1, <2>2, MoveStep
<1>10. d.at = m.at /\ d.block = m.block /\ Lives(d) = Lives(m)
  BY <1>4, <1>7, <1>9 DEF Carried, Shifted, Lost
<1>11. ASSUME NEW i \in 0..((k + 1) - 1)
       PROVE  d.object[p[i]] = m.object[q[i]]
  <2>1. CASE i = k
    <3>1. g.object[q[k]] = e.object[q[k]]
      BY <1>3, <1>4, <1>7 DEF Lost
    <3> QED  BY <1>4, <1>9, <2>1, <3>1 DEF Carried
  <2>2. CASE i # k
    <3>1. i \in 0..(k - 1) /\ i \in 0..(n - 1)
      BY <2>2
    <3>2. p[i] \in FirstOf(p, k)
      BY <3>1 DEF FirstOf
    <3>3. p[i] \in Lives(e) /\ p[i] # p[k] /\ p[i] # q[k] /\ e.object[p[i]] = m.object[q[i]]
      BY <1>2, <1>3, <3>1, <3>2 DEF Shifted
    <3>4. p[i] \in Lives(g) /\ g.object[p[i]] = e.object[p[i]]
      BY <1>7, <3>3 DEF Lost
    <3>5. d.object[p[i]] = g.object[p[i]]
      BY <1>9, <3>3, <3>4 DEF Carried
    <3> QED  BY <3>3, <3>4, <3>5
  <2> QED  BY <2>1, <2>2
<1>12. ASSUME NEW l \in Lives(m) \ (FirstOf(q, k + 1) \cup FirstOf(p, k + 1))
       PROVE  d.object[l] = m.object[l]
  <2>1. l # q[k] /\ l # p[k] /\ l \in Lives(e) /\ e.object[l] = m.object[l]
    BY <1>1 DEF Shifted
  <2>2. l \in Lives(g) /\ g.object[l] = e.object[l]
    BY <1>7, <2>1 DEF Lost
  <2> QED  BY <1>9, <2>1, <2>2 DEF Carried
<1>13. Shifted(m, d, q, p, k + 1)
  BY <1>10, <1>11, <1>12 DEF Shifted
<1> QED  BY <1>6, <1>7, <1>8, <1>9, <1>13

LEMMA ShiftLoop ==
    ASSUME NEW m, NEW s, NEW n \in Nat, NEW p, NEW q, NEW A,
           IsSequence(s), Len(s) = 2 * n,
           \A i \in 0..(n - 1) : s[2 * i + 1] = Destroy(p[i]) /\ s[2 * i + 2] = Move(q[i], p[i]),
           \A i \in 0..(n - 1) : q[i] \in Lives(m) /\ p[i] \in Lives(m),
           \A i, j \in 0..(n - 1) : j <= i => q[i] # p[j],
           \A i \in 0..(n - 1) : Room(m, p[i]),
           Different(p, n), Different(q, n)
    PROVE  \E e : Runs(m, s, e, A) /\ Shifted(m, e, q, p, n)
<1> DEFINE S == {k \in 0..n : \E e : Reaches(m, s, 2 * k, e, A) /\ Shifted(m, e, q, p, k)}
<1>1. 0 \in S
  <2>1. Shifted(m, m, q, p, 0) /\ 2 * 0 = 0
    BY DEF Shifted
  <2> QED  BY <2>1, ReachesNone
<1>2. ASSUME NEW k \in 0..(n - 1), k \in S
      PROVE  k + 1 \in S
  <2>1. PICK e : Reaches(m, s, 2 * k, e, A) /\ Shifted(m, e, q, p, k)
    BY <1>2
  <2>2. PICK i \in Nat : i = 2 * k
    OBVIOUS
  <2>3. PICK j \in Nat : j = 2 * (k + 1)
    OBVIOUS
  <2>4. PICK x, y : x = Destroy(p[k]) /\ y = Move(q[k], p[k])
    OBVIOUS
  <2>5. s[i + 1] = x /\ s[i + 2] = y /\ Room(m, p[k]) /\ j = i + 2 /\ Reaches(m, s, i, e, A)
    BY <2>1, <2>2, <2>3, <2>4
  <2>6. Safe(e, x) /\ Safe(After(e, x), y) /\ Shifted(m, After(After(e, x), y), q, p, k + 1)
    BY <2>1, <2>4, <2>5, ShiftedMore
  <2>7. Reaches(m, s, j, After(After(e, x), y), A)
    BY <2>5, <2>6, PairNext
  <2> QED  BY <2>3, <2>6, <2>7
<1>3. n \in S
  <2> HIDE DEF S
  <2> QED  BY <1>1, <1>2, UpTo
<1> QED  BY <1>3, ReachesAll

-----------------------------------------------------------------------------
(* Growing.                                                                *)

\* The capacity that follows c.
NextCapacity(c) == (3 * c + 1) \div 2

LEMMA CapacityGrows ==
    ASSUME NEW c \in Nat \ {0}
    PROVE  NextCapacity(c) \in Nat /\ NextCapacity(c) >= c + 1
  BY DEF NextCapacity

\* g grows its argument until n fits.
Grows(g, n) == g = [c \in Nat |-> IF c < n THEN g[NextCapacity(c)] ELSE c]

LEMMA SomethingGrows ==
    ASSUME NEW n \in Nat
    PROVE  \E g : Grows(g, n)
<1>0. CASE n = 0
  <2> DEFINE g == [c \in Nat |-> c]
  <2>1. \A c \in Nat : g[c] = c /\ ~(c < n)
    BY <1>0
  <2>2. g = [c \in Nat |-> IF c < n THEN g[NextCapacity(c)] ELSE c]
    BY <2>1
  <2> QED  BY <2>2 DEF Grows
<1> SUFFICES ASSUME n # 0 PROVE \E g : Grows(g, n)
  BY <1>0
<1> DEFINE Right(g, c) == g[c] = IF c < n THEN g[NextCapacity(c)] ELSE c
           S == {k \in 0..n : \E g \in [Nat -> Nat] : \A c \in Nat : c > n - k => Right(g, c)}
<1>1. 0 \in S
  <2> DEFINE g == [c \in Nat |-> c]
  <2>1. g \in [Nat -> Nat] /\ \A c \in Nat : c > n - 0 => Right(g, c)
    OBVIOUS
  <2> HIDE DEF g, Right
  <2> QED  BY <2>1
<1>2. ASSUME NEW k \in 0..(n - 1), k \in S
      PROVE  k + 1 \in S
  <2>1. PICK g \in [Nat -> Nat] : \A c \in Nat : c > n - k => Right(g, c)
    BY <1>2
  <2> DEFINE a == n - k
             h == [g EXCEPT ![a] = IF a < n THEN g[NextCapacity(a)] ELSE a]
  <2>2. a \in Nat \ {0} /\ NextCapacity(a) \in Nat /\ NextCapacity(a) > a
    <3>1. a \in Nat \ {0}
      OBVIOUS
    <3> HIDE DEF a
    <3> QED  BY <3>1, CapacityGrows
  <2>3. h \in [Nat -> Nat] /\ h[a] = (IF a < n THEN g[NextCapacity(a)] ELSE a)
        /\ \A c \in Nat : c # a => h[c] = g[c]
    <3> HIDE DEF a
    <3> QED  BY <2>2
  <2> HIDE DEF h
  <2>4. ASSUME NEW c \in Nat, c > n - (k + 1)
        PROVE  Right(h, c)
    <3>1. CASE c = a
      BY <2>2, <2>3, <3>1
    <3>2. CASE c # a
      <4>1. c > a /\ c \in Nat \ {0}
        BY <2>4, <3>2
      <4>2. NextCapacity(c) \in Nat /\ NextCapacity(c) > a
        BY <4>1, <2>2, CapacityGrows
      <4>3. Right(g, c)
        BY <2>1, <4>1
      <4>4. h[c] = g[c] /\ h[NextCapacity(c)] = g[NextCapacity(c)]
        BY <2>2, <2>3, <4>1, <4>2
      <4> QED  BY <4>3, <4>4
    <3> QED  BY <3>1, <3>2
  <2> HIDE DEF Right
  <2>5. k + 1 \in 0..n
    OBVIOUS
  <2> QED  BY <2>3, <2>4, <2>5
<1>3. n \in S
  <2> HIDE DEF S
  <2> QED  BY <1>1, <1>2, UpTo
<1>4. PICK g \in [Nat -> Nat] : \A c \in Nat : c > n - n => Right(g, c)
  BY <1>3
<1>5. Right(g, 0)
  <2>1. NextCapacity(0) = 0
    BY DEF NextCapacity
  <2> QED  BY <2>1
<1>6. \A c \in Nat : Right(g, c)
  <2>1. \A c \in Nat : c = 0 \/ c > n - n
    OBVIOUS
  <2> HIDE DEF Right
  <2> QED  BY <1>4, <1>5, <2>1
<1>7. Grows(g, n)
  BY <1>6 DEF Grows
<1> QED  BY <1>7

LEMMA GrownFits ==
    ASSUME NEW c \in Nat \ {0}, NEW n \in Nat
    PROVE  Grown(c, n) \in Nat /\ Grown(c, n) >= n /\ Grown(c, n) >= c
<1> DEFINE grow == CHOOSE g : Grows(g, n)
<1>1. Grown(c, n) = grow[c]
  BY DEF Grown, Grows, NextCapacity
<1>2. Grows(grow, n)
  BY SomethingGrows
<1> HIDE DEF grow
<1>3. \A a \in Nat : grow[a] = IF a < n THEN grow[NextCapacity(a)] ELSE a
  BY <1>2 DEF Grows
<1> DEFINE Fits(a) == grow[a] \in Nat /\ grow[a] >= n /\ grow[a] >= a
           S == {k \in 0..n : \A a \in Nat \ {0} : a >= n - k => Fits(a)}
<1>4. 0 \in S
  <2>1. \A a \in Nat \ {0} : a >= n - 0 => Fits(a)
    BY <1>3
  <2> QED  BY <2>1
<1>5. ASSUME NEW k \in 0..(n - 1), k \in S
      PROVE  k + 1 \in S
  <2>1. ASSUME NEW a \in Nat \ {0}, a >= n - (k + 1)
        PROVE  Fits(a)
    <3>1. CASE a < n
      <4>1. NextCapacity(a) \in Nat \ {0} /\ NextCapacity(a) >= a + 1
        BY CapacityGrows
      <4>2. NextCapacity(a) >= n - k
        BY <2>1, <4>1
      <4>3. Fits(NextCapacity(a))
        BY <1>5, <4>1, <4>2
      <4>4. grow[a] = grow[NextCapacity(a)]
        BY <1>3, <3>1
      <4> QED  BY <4>1, <4>3, <4>4
    <3>2. CASE ~(a < n)
      BY <1>3, <3>2
    <3> QED  BY <3>1, <3>2
  <2> HIDE DEF Fits
  <2> QED  BY <2>1
<1>6. n \in S
  <2> HIDE DEF S
  <2> QED  BY <1>4, <1>5, UpTo
<1>7. Fits(c)
  BY <1>6
<1> QED  BY <1>1, <1>7

-----------------------------------------------------------------------------
(* Places in buffers.                                                      *)

\* The places of b from lo up to hi.
Cells(b, lo, hi) == {<<b, i>> : i \in lo..(hi - 1)}

LEMMA InCells ==
    ASSUME NEW b, NEW lo \in Int, NEW hi \in Int, NEW a, NEW i \in Int
    PROVE  <<a, i>> \in Cells(b, lo, hi) <=> a = b /\ lo <= i /\ i < hi
  BY DEF Cells

LEMMA CellsJoin ==
    ASSUME NEW b, NEW lo \in Int, NEW k \in Int, NEW hi \in Int, lo <= k, k <= hi
    PROVE  Cells(b, lo, hi) = Cells(b, lo, k) \cup Cells(b, k, hi)
<1>1. lo..(hi - 1) = lo..(k - 1) \cup k..(hi - 1)
  OBVIOUS
<1> QED  BY <1>1 DEF Cells

LEMMA CellsApart ==
    ASSUME NEW a, NEW b, NEW lo \in Int, NEW hi \in Int, NEW lo2 \in Int, NEW hi2 \in Int,
           a # b \/ hi <= lo2 \/ hi2 <= lo
    PROVE  Cells(a, lo, hi) \cap Cells(b, lo2, hi2) = {}
  BY DEF Cells

LEMMA NoCells ==
    ASSUME NEW b, NEW lo \in Int
    PROVE  Cells(b, lo, lo) = {}
  BY DEF Cells

\* Those n places, upwards from lo.
Up(b, lo, n) == [i \in 0..(n - 1) |-> <<b, lo + i>>]

\* And downwards from below hi.
Down(b, hi, n) == [i \in 0..(n - 1) |-> <<b, hi - 1 - i>>]

LEMMA UpCells ==
    ASSUME NEW b, NEW lo \in Int, NEW n \in Nat
    PROVE  /\ \A i \in 0..(n - 1) : Up(b, lo, n)[i] = <<b, lo + i>>
           /\ \A k \in 0..n : FirstOf(Up(b, lo, n), k) = Cells(b, lo, lo + k)
           /\ Different(Up(b, lo, n), n)
<1>1. \A i \in 0..(n - 1) : Up(b, lo, n)[i] = <<b, lo + i>>
  BY DEF Up
<1>2. ASSUME NEW k \in 0..n
      PROVE  FirstOf(Up(b, lo, n), k) = Cells(b, lo, lo + k)
  <2>1. ASSUME NEW i \in 0..(k - 1)
        PROVE  Up(b, lo, n)[i] \in Cells(b, lo, lo + k)
    BY <1>1 DEF Cells
  <2>2. ASSUME NEW j \in lo..((lo + k) - 1)
        PROVE  <<b, j>> \in FirstOf(Up(b, lo, n), k)
    <3>1. j - lo \in 0..(k - 1) /\ j - lo \in 0..(n - 1) /\ lo + (j - lo) = j
      OBVIOUS
    <3>2. Up(b, lo, n)[j - lo] = <<b, j>>
      BY <1>1, <3>1
    <3> QED  BY <3>1, <3>2 DEF FirstOf
  <2> QED  BY <2>1, <2>2 DEF FirstOf, Cells
<1>3. Different(Up(b, lo, n), n)
  BY <1>1 DEF Different
<1> QED  BY <1>1, <1>2, <1>3

LEMMA UpFromNone ==
    ASSUME NEW b, NEW n \in Nat
    PROVE  \E p : FirstOf(p, n) = Cells(b, 0, n) /\ Different(p, n) /\ \A i \in 0..(n - 1) : p[i] = <<b, i>>
<1>1. PICK p : p = Up(b, 0, n)
  OBVIOUS
<1>2. /\ \A i \in 0..(n - 1) : p[i] = <<b, 0 + i>>
      /\ \A k \in 0..n : FirstOf(p, k) = Cells(b, 0, 0 + k)
      /\ Different(p, n)
  BY <1>1, UpCells
<1>3. ASSUME NEW i \in 0..(n - 1)
      PROVE  p[i] = <<b, i>>
  <2>1. 0 + i = i
    OBVIOUS
  <2> QED  BY <1>2, <2>1
<1>4. FirstOf(p, n) = Cells(b, 0, n)
  <2>1. 0 + n = n /\ n \in 0..n
    OBVIOUS
  <2> QED  BY <1>2, <2>1
<1> QED  BY <1>2, <1>3, <1>4

LEMMA DownCells ==
    ASSUME NEW b, NEW hi \in Int, NEW n \in Nat
    PROVE  /\ \A i \in 0..(n - 1) : Down(b, hi, n)[i] = <<b, hi - 1 - i>>
           /\ \A k \in 0..n : FirstOf(Down(b, hi, n), k) = Cells(b, hi - k, hi)
           /\ Different(Down(b, hi, n), n)
<1>1. \A i \in 0..(n - 1) : Down(b, hi, n)[i] = <<b, hi - 1 - i>>
  BY DEF Down
<1>2. ASSUME NEW k \in 0..n
      PROVE  FirstOf(Down(b, hi, n), k) = Cells(b, hi - k, hi)
  <2>1. ASSUME NEW i \in 0..(k - 1)
        PROVE  Down(b, hi, n)[i] \in Cells(b, hi - k, hi)
    <3>1. i \in 0..(n - 1) /\ hi - 1 - i \in (hi - k)..(hi - 1)
      OBVIOUS
    <3> QED  BY <1>1, <3>1 DEF Cells
  <2>2. ASSUME NEW j \in (hi - k)..(hi - 1)
        PROVE  <<b, j>> \in FirstOf(Down(b, hi, n), k)
    <3>1. hi - 1 - j \in 0..(k - 1) /\ hi - 1 - j \in 0..(n - 1) /\ hi - 1 - (hi - 1 - j) = j
      OBVIOUS
    <3>2. Down(b, hi, n)[hi - 1 - j] = <<b, j>>
      BY <1>1, <3>1
    <3> QED  BY <3>1, <3>2 DEF FirstOf
  <2> QED  BY <2>1, <2>2 DEF FirstOf, Cells
<1>3. Different(Down(b, hi, n), n)
  <2>1. ASSUME NEW i \in 0..(n - 1), NEW j \in 0..(n - 1), Down(b, hi, n)[i] = Down(b, hi, n)[j]
        PROVE  i = j
    <3>1. <<b, hi - 1 - i>> = <<b, hi - 1 - j>>
      BY <1>1, <2>1
    <3>2. hi - 1 - i = hi - 1 - j
      BY <3>1
    <3> QED  BY <3>2
  <2> QED  BY <2>1 DEF Different
<1> QED  BY <1>1, <1>2, <1>3

\* Two steps for each.
LEMMA Halves ==
    ASSUME NEW n \in Nat, NEW i \in 0..(n - 1)
    PROVE  /\ 2 * i + 1 \in 1..(2 * n) /\ 2 * i + 2 \in 1..(2 * n)
           /\ (2 * i + 1) % 2 = 1 /\ (2 * i + 1) \div 2 = i
           /\ (2 * i + 2) % 2 # 1 /\ (2 * i + 2) \div 2 - 1 = i
  OBVIOUS

-----------------------------------------------------------------------------
(* The memory between operations.                                          *)

Begin(m, v) == m.at[v].begin
Size(m, v) == m.at[v].end[2]
Elements(m, v) == Cells(Begin(m, v), 0, Size(m, v))

\* v has a buffer, knows its capacity, and fits in it.
Housed(m, v) ==
    /\ Begin(m, v) \in Blocks \cup {v}
    /\ Cap(m, Begin(m, v)) \in Nat \ {0}
    /\ Size(m, v) \in Nat /\ Size(m, v) <= Cap(m, Begin(m, v))
    /\ m.at[v] = Place(Begin(m, v), <<Begin(m, v), Size(m, v)>>, Cap(m, Begin(m, v)))

\* So have all, each its own, and no block is lost.
Housing(m) ==
    /\ m.at = [v \in Vectors |-> m.at[v]]
    /\ m.block \in [Blocks -> Nat]
    /\ \A v \in Vectors : Housed(m, v)
    /\ \A v, w \in Vectors : Begin(m, v) = Begin(m, w) => v = w
    /\ \A b \in Blocks : m.block[b] # 0 => \E v \in Vectors : Begin(m, v) = b

\* v contains xs.
Holds(m, v, xs) ==
    /\ Len(xs) = Size(m, v)
    /\ \A i \in 0..(Size(m, v) - 1) : m.object[<<Begin(m, v), i>>] = xs[i + 1]

\* The vectors contain xs, and nothing else is alive; but those in T are torn.
Rest(m, xs, T) ==
    /\ Housing(m)
    /\ xs \in [Vectors -> Seq(Values)]
    /\ Lives(m) = UNION {Elements(m, v) : v \in Vectors \ T}
    /\ \A v \in Vectors \ T : Holds(m, v, xs[v])

\* In e, v has n elements in b, which it owned or which was free, and its block is freed if it left it.
Rebased(m, e, v, b, n, c) ==
    /\ Aimed(m, e, v, Place(b, <<b, n>>, c))
    /\ b \in Blocks \cup {v} /\ n \in Nat /\ c \in Nat \ {0} /\ n <= c /\ c = Cap(e, b)
    /\ b = Begin(m, v) \/ b = v \/ m.block[b] = 0
    /\ e.block \in [Blocks -> Nat]
    /\ \A a \in Blocks \ {b, Begin(m, v)} : e.block[a] = m.block[a]
    /\ Begin(m, v) \in Blocks \ {b} => e.block[Begin(m, v)] = 0

\* In e, v is in b with n elements, and the others are where they were.
Rehoused(m, e, v, b, n) ==
    /\ Housing(e)
    /\ Begin(e, v) = b /\ Size(e, v) = n
    /\ \A w \in Vectors \ {v} : Begin(e, w) = Begin(m, w) /\ Size(e, w) = Size(m, w)
    /\ \A w \in Vectors \ {v} : Begin(m, w) # b /\ Begin(m, w) # Begin(m, v)

LEMMA HousingAgain ==
    ASSUME NEW m, NEW e, NEW v \in Vectors, NEW b, NEW n, NEW c, Housing(m), Rebased(m, e, v, b, n, c)
    PROVE  Rehoused(m, e, v, b, n)
<1>1. /\ e.at = [w \in Vectors |-> e.at[w]]
      /\ e.at[v] = Place(b, <<b, n>>, c)
      /\ \A w \in Vectors \ {v} : e.at[w] = m.at[w]
  BY DEF Housing, Rebased, Aimed
<1>2. Begin(e, v) = b /\ Size(e, v) = n
  BY <1>1 DEF Begin, Size, Place
<1>3. \A w \in Vectors \ {v} : Begin(e, w) = Begin(m, w) /\ Size(e, w) = Size(m, w)
  BY <1>1 DEF Begin, Size
<1>4. ASSUME NEW w \in Vectors \ {v}
      PROVE  Begin(m, w) # b /\ Begin(m, w) # Begin(m, v)
  <2>1. Begin(m, w) # Begin(m, v)
    BY DEF Housing
  <2>2. Housed(m, w) /\ Housed(m, v)
    BY DEF Housing
  <2>3. CASE b = Begin(m, v)
    BY <2>1, <2>3
  <2>4. CASE b = v
    BY <2>1, <2>2, <2>4, BuffersAssumption DEF Housed
  <2>5. CASE m.block[b] = 0 /\ b # v
    <3>1. b \in Blocks /\ b \notin Vectors
      BY <2>5, BuffersAssumption DEF Rebased
    <3>2. Cap(m, b) = 0
      BY <2>5, <3>1 DEF Cap
    <3> QED  BY <2>1, <2>2, <3>2 DEF Housed
  <2> QED  BY <2>1, <2>3, <2>4, <2>5 DEF Rebased
<1>5. Housed(e, v)
  BY <1>1, <1>2 DEF Housed, Rebased
<1>6. ASSUME NEW w \in Vectors \ {v}
      PROVE  Housed(e, w)
  <2>1. Housed(m, w)
    BY DEF Housing
  <2>2. Cap(e, Begin(m, w)) = Cap(m, Begin(m, w))
    <3>1. CASE Begin(m, w) \in Vectors
      BY <3>1 DEF Cap
    <3>2. CASE Begin(m, w) \notin Vectors
      <4>1. Begin(m, w) \in Blocks \ {b, Begin(m, v)}
        BY <1>4, <2>1, <3>2 DEF Housed
      <4> QED  BY <3>2, <4>1 DEF Cap, Rebased
    <3> QED  BY <3>1, <3>2
  <2>3. Begin(e, w) = Begin(m, w) /\ Size(e, w) = Size(m, w) /\ e.at[w] = m.at[w]
    BY <1>1, <1>3
  <2> QED  BY <2>1, <2>2, <2>3 DEF Housed
<1>7. \A w, u \in Vectors : Begin(e, w) = Begin(e, u) => w = u
  <2>1. ASSUME NEW w \in Vectors, NEW u \in Vectors, Begin(e, w) = Begin(e, u)
        PROVE  w = u
    <3>1. CASE w = v
      BY <1>2, <1>3, <1>4, <2>1, <3>1
    <3>2. CASE u = v
      BY <1>2, <1>3, <1>4, <2>1, <3>2
    <3>3. CASE w # v /\ u # v
      BY <1>3, <2>1, <3>3 DEF Housing
    <3> QED  BY <3>1, <3>2, <3>3
  <2> QED  BY <2>1
<1>8. ASSUME NEW a \in Blocks, e.block[a] # 0
      PROVE  \E w \in Vectors : Begin(e, w) = a
  <2>1. CASE a = b
    BY <1>2, <2>1
  <2>2. CASE a # b
    <3>1. a # Begin(m, v)
      BY <1>8, <2>2 DEF Rebased
    <3>2. m.block[a] # 0
      BY <1>8, <2>2, <3>1 DEF Rebased
    <3>3. PICK w \in Vectors : Begin(m, w) = a
      BY <3>2 DEF Housing
    <3> QED  BY <1>3, <3>1, <3>3
  <2> QED  BY <2>1, <2>2
<1>9. Housing(e)
  <2>1. \A w \in Vectors : Housed(e, w)
    BY <1>5, <1>6
  <2>2. e.block \in [Blocks -> Nat]
    BY DEF Rebased
  <2> QED  BY <1>1, <1>7, <1>8, <2>1, <2>2 DEF Housing
<1> QED  BY <1>2, <1>3, <1>4, <1>9 DEF Rehoused

\* What an operation on v has to leave.
LEMMA RestAgain ==
    ASSUME NEW m, NEW e, NEW v \in Vectors, NEW b, NEW c, NEW xs, NEW ys \in Seq(Values),
           Rest(m, xs, {}), Rebased(m, e, v, b, Len(ys), c),
           Lives(e) = (Lives(m) \ Elements(m, v)) \cup Cells(b, 0, Len(ys)),
           \A l \in Lives(m) \ Elements(m, v) : e.object[l] = m.object[l],
           \A i \in 0..(Len(ys) - 1) : e.object[<<b, i>>] = ys[i + 1]
    PROVE  Rest(e, [xs EXCEPT ![v] = ys], {})
<1>1. /\ Housing(m) /\ xs \in [Vectors -> Seq(Values)]
      /\ Lives(m) = UNION {Elements(m, w) : w \in Vectors}
      /\ \A w \in Vectors : Holds(m, w, xs[w])
  BY DEF Rest
<1>2. /\ Housing(e)
      /\ Begin(e, v) = b /\ Size(e, v) = Len(ys)
      /\ \A w \in Vectors \ {v} : Begin(e, w) = Begin(m, w) /\ Size(e, w) = Size(m, w)
      /\ \A w \in Vectors \ {v} : Begin(m, w) # b /\ Begin(m, w) # Begin(m, v)
  <2>1. PICK n : n = Len(ys)
    OBVIOUS
  <2>2. Rebased(m, e, v, b, n, c)
    BY <2>1
  <2>3. Rehoused(m, e, v, b, n)
    BY <1>1, <2>2, HousingAgain
  <2> QED  BY <2>1, <2>3 DEF Rehoused
<1>3. PICK zs : zs = [xs EXCEPT ![v] = ys]
  OBVIOUS
<1>4. zs \in [Vectors -> Seq(Values)] /\ zs[v] = ys /\ \A w \in Vectors \ {v} : zs[w] = xs[w]
  BY <1>1, <1>3
<1>5. ASSUME NEW w \in Vectors \ {v}
      PROVE  /\ Elements(e, w) = Elements(m, w) /\ Elements(m, w) \cap Elements(m, v) = {}
             /\ Elements(m, w) \subseteq Lives(m)
  <2>1. Size(m, w) \in Int /\ Size(m, v) \in Int
    <3>1. Housed(m, w) /\ Housed(m, v)
      BY <1>1 DEF Housing
    <3> QED  BY <3>1 DEF Housed
  <2>2. Elements(m, w) \cap Elements(m, v) = {}
    BY <1>2, <2>1, CellsApart DEF Elements
  <2> QED  BY <1>1, <1>2, <2>2 DEF Elements
<1>6. Elements(e, v) = Cells(b, 0, Len(ys))
  BY <1>2 DEF Elements
<1>7. Lives(e) = UNION {Elements(e, w) : w \in Vectors}
  <2>1. ASSUME NEW l \in Lives(e)
        PROVE  \E w \in Vectors : l \in Elements(e, w)
    <3>1. CASE l \in Cells(b, 0, Len(ys))
      BY <1>6, <3>1
    <3>2. CASE l \notin Cells(b, 0, Len(ys))
      <4>1. l \in Lives(m) /\ l \notin Elements(m, v)
        BY <3>2
      <4>2. PICK w \in Vectors : l \in Elements(m, w)
        BY <1>1, <4>1
      <4> QED  BY <1>5, <4>1, <4>2
    <3> QED  BY <3>1, <3>2
  <2>2. ASSUME NEW w \in Vectors, NEW l \in Elements(e, w)
        PROVE  l \in Lives(e)
    <3>1. CASE w = v
      BY <1>6, <2>2, <3>1
    <3>2. CASE w # v
      BY <1>5, <2>2, <3>2
    <3> QED  BY <3>1, <3>2
  <2> QED  BY <2>1, <2>2
<1>8. ASSUME NEW w \in Vectors
      PROVE  Holds(e, w, zs[w])
  <2>1. CASE w = v
    BY <1>2, <1>4, <2>1 DEF Holds
  <2>2. CASE w # v
    <3>1. Holds(m, w, xs[w]) /\ zs[w] = xs[w] /\ Begin(e, w) = Begin(m, w) /\ Size(e, w) = Size(m, w)
      BY <1>1, <1>2, <1>4, <2>2
    <3>2. ASSUME NEW i \in 0..(Size(m, w) - 1)
          PROVE  e.object[<<Begin(m, w), i>>] = m.object[<<Begin(m, w), i>>]
      <4>1. <<Begin(m, w), i>> \in Elements(m, w)
        BY DEF Elements, Cells
      <4>2. <<Begin(m, w), i>> \in Lives(m) \ Elements(m, v)
        BY <1>5, <2>2, <4>1
      <4> QED  BY <4>2
    <3> QED  BY <3>1, <3>2 DEF Holds
  <2> QED  BY <2>1, <2>2
<1> QED  BY <1>2, <1>3, <1>4, <1>7, <1>8 DEF Rest

\* What is alive and not an element of v is in none of the buffers that v may use.
LEMMA Elsewhere ==
    ASSUME NEW m, NEW xs, Rest(m, xs, {}), NEW v \in Vectors,
           NEW b, b = Begin(m, v) \/ b = v \/ (b \in Blocks /\ m.block[b] = 0),
           NEW l \in Lives(m) \ Elements(m, v)
    PROVE  l[1] # b
<1>1. PICK w \in Vectors : l \in Elements(m, w)
  BY DEF Rest
<1>2. PICK i : l = <<Begin(m, w), i>>
  BY <1>1 DEF Elements, Cells
<1>3. w # v
  BY <1>1
<1>4. Housing(m)
  BY DEF Rest
<1>5. Begin(m, w) # Begin(m, v) /\ Housed(m, w)
  BY <1>3, <1>4 DEF Housing
<1>6. Begin(m, w) # b
  <2>1. CASE b = v
    BY <1>3, <1>5, <2>1, BuffersAssumption DEF Housed
  <2>2. CASE b \in Blocks /\ m.block[b] = 0
    <3>1. Cap(m, b) = 0
      BY <2>2, BuffersAssumption DEF Cap
    <3> QED  BY <1>5, <3>1 DEF Housed
  <2> QED  BY <1>5, <2>1, <2>2
<1> QED  BY <1>2, <1>6

-----------------------------------------------------------------------------
(* A call.                                                                 *)

\* What a call finds of its vector.
LEMMA Found ==
    ASSUME NEW xs, Rest(Memory, xs, {}), NEW v \in Vectors
    PROVE  /\ m_begin[v] = Begin(Memory, v) /\ size(v) = Size(Memory, v)
           /\ m_end[v] = <<m_begin[v], size(v)>> /\ m_capacity[v] = Cap(Memory, m_begin[v])
           /\ size(v) \in Nat /\ m_capacity[v] \in Nat \ {0} /\ size(v) <= m_capacity[v]
           /\ m_begin[v] \in Blocks \cup {v}
           /\ is_static(v) => m_capacity[v] = StaticCapacity
           /\ ~is_static(v) => m_begin[v] \in Blocks \ Vectors /\ block[m_begin[v]] = m_capacity[v]
<1>1. Housed(Memory, v)
  BY DEF Rest, Housing
<1>2. Memory.at[v] = Place(m_begin[v], m_end[v], m_capacity[v]) /\ Memory.block = block
  BY DEF Memory
<1>3. m_begin[v] = Begin(Memory, v) /\ size(v) = Size(Memory, v)
  BY <1>2 DEF Begin, Size, size, Place
<1>4. m_end[v] = <<m_begin[v], size(v)>> /\ m_capacity[v] = Cap(Memory, m_begin[v])
  BY <1>1, <1>2, <1>3 DEF Housed, Place
<1>5. /\ size(v) \in Nat /\ m_capacity[v] \in Nat \ {0} /\ size(v) <= m_capacity[v]
      /\ m_begin[v] \in Blocks \cup {v}
  BY <1>1, <1>3, <1>4 DEF Housed
<1>6. is_static(v) => m_capacity[v] = StaticCapacity
  BY <1>4 DEF Cap, is_static
<1>7. ~is_static(v) => m_begin[v] \in Blocks \ Vectors /\ block[m_begin[v]] = m_capacity[v]
  BY <1>2, <1>4, <1>5, BuffersAssumption DEF Cap, is_static
<1> QED  BY <1>3, <1>4, <1>5, <1>6, <1>7

LEMMA FoundElements ==
    ASSUME NEW xs, Rest(Memory, xs, {}), NEW v \in Vectors
    PROVE  /\ xs[v] \in Seq(Values) /\ Len(xs[v]) = size(v)
           /\ \A i \in 0..(size(v) - 1) : Memory.object[<<m_begin[v], i>>] = xs[v][i + 1]
           /\ Elements(Memory, v) = Cells(m_begin[v], 0, size(v))
           /\ Cells(m_begin[v], 0, size(v)) \subseteq Lives(Memory)
<1>1. Holds(Memory, v, xs[v]) /\ xs[v] \in Seq(Values) /\ Elements(Memory, v) \subseteq Lives(Memory)
  BY DEF Rest
<1>2. m_begin[v] = Begin(Memory, v) /\ size(v) = Size(Memory, v)
  BY Found
<1> QED  BY <1>1, <1>2 DEF Holds, Elements

\* The buffer that an operation chooses for n elements.
Chosen(to, v, n) ==
    /\ to.cap \in Nat \ {0} /\ n <= to.cap
    /\ \/ to.steps = <<>> /\ to.ptr = m_begin[v] /\ to.cap = m_capacity[v]
       \/ to.steps = <<>> /\ to.ptr = v /\ ~is_static(v) /\ to.cap = StaticCapacity
       \/ to.steps = <<Allocate(to.ptr, to.cap)>> /\ to.ptr \in Free

LEMMA ChooseData ==
    ASSUME NEW xs, Rest(Memory, xs, {}), NEW v \in Vectors, NEW n \in Nat, NEW b \in Free
    PROVE  Chosen(choose_data(v, n, b), v, n)
<1> DEFINE to == choose_data(v, n, b)
<1>1. /\ m_capacity[v] \in Nat \ {0} /\ StaticCapacity \in Nat \ {0}
      /\ is_static(v) => m_capacity[v] = StaticCapacity
  BY Found, StaticCapacityAssumption
<1>2. CASE is_static(v) /\ n > StaticCapacity
  <2>1. to.ptr = b /\ to.cap = n /\ to.steps = <<Allocate(b, n)>>
    BY <1>2 DEF choose_data
  <2> QED  BY <1>1, <1>2, <2>1 DEF Chosen
<1>3. CASE ~is_static(v) /\ n > m_capacity[v]
  <2>1. to.ptr = b /\ to.cap = Grown(m_capacity[v], n) /\ to.steps = <<Allocate(b, Grown(m_capacity[v], n))>>
    BY <1>3 DEF choose_data
  <2>2. Grown(m_capacity[v], n) \in Nat /\ Grown(m_capacity[v], n) >= n
        /\ Grown(m_capacity[v], n) >= m_capacity[v]
    BY <1>1, GrownFits
  <2>3. to.cap \in Nat \ {0} /\ n <= to.cap /\ to.steps = <<Allocate(to.ptr, to.cap)>> /\ to.ptr \in Free
    BY <1>1, <2>1, <2>2
  <2> QED  BY <2>3 DEF Chosen
<1>4. CASE ~is_static(v) /\ n <= m_capacity[v] /\ n < RevertToStaticBelow
  <2>1. to.ptr = v /\ to.cap = StaticCapacity /\ to.steps = <<>>
    BY <1>1, <1>4 DEF choose_data
  <2>2. n <= StaticCapacity
    BY <1>1, <1>4, RevertAssumption
  <2> QED  BY <1>1, <1>4, <2>1, <2>2 DEF Chosen
<1>5. CASE (is_static(v) /\ n <= StaticCapacity)
           \/ (~is_static(v) /\ n <= m_capacity[v] /\ ~(n < RevertToStaticBelow))
  <2>1. to.ptr = m_begin[v] /\ to.cap = m_capacity[v] /\ to.steps = <<>>
    BY <1>1, <1>5 DEF choose_data
  <2>2. n <= m_capacity[v]
    BY <1>1, <1>5
  <2> QED  BY <1>1, <2>1, <2>2 DEF Chosen
<1> QED  BY <1>1, <1>2, <1>3, <1>4, <1>5

LEMMA ReservedIs ==
    ASSUME NEW xs, Rest(Memory, xs, {}), NEW v \in Vectors, NEW n \in Nat, NEW b \in Free
    PROVE  Chosen(Reserved(v, n, b), v, n)
<1>1. CASE n <= m_capacity[v]
  <2>1. m_capacity[v] \in Nat \ {0}
    BY Found
  <2> QED  BY <1>1, <2>1 DEF Reserved, Chosen
<1>2. CASE ~(n <= m_capacity[v])
  BY <1>2, ChooseData DEF Reserved
<1> QED  BY <1>1, <1>2

\* The blocks after the allocation, and after the block that v leaves has been freed.
OpenBlocks(to) == IF to.steps = <<>> THEN block ELSE [block EXCEPT ![to.ptr] = to.cap]
LeftBlocks(to, v) ==
    IF to.ptr = m_begin[v] \/ is_static(v) THEN OpenBlocks(to)
    ELSE [OpenBlocks(to) EXCEPT ![m_begin[v]] = 0]

LEMMA Open ==
    ASSUME NEW v, NEW to, NEW n, Chosen(to, v, n), NEW m, m.block = block, NEW A, m \in A
    PROVE  \E e : /\ Runs(m, to.steps, e, A)
                  /\ e.at = m.at /\ e.object = m.object /\ e.block = OpenBlocks(to)
<1>1. CASE to.steps = <<>>
  <2>1. Runs(m, to.steps, m, A)
    BY <1>1, RunsNone
  <2> QED  BY <1>1, <2>1 DEF OpenBlocks
<1>2. CASE to.steps # <<>>
  <2>1. to.steps = <<Allocate(to.ptr, to.cap)>>
    BY <1>2 DEF Chosen
  <2>2. PICK e : e = After(m, Allocate(to.ptr, to.cap))
    OBVIOUS
  <2>3. Sized(m, e, to.ptr, to.cap) /\ ~Faulty(m, Allocate(to.ptr, to.cap))
    BY <2>2, AllocateStep
  <2>4. Takes(m, Allocate(to.ptr, to.cap), e, A)
    BY <2>2, <2>3 DEF Takes
  <2>5. Runs(m, to.steps, e, A)
    BY <2>1, <2>4, RunsOne
  <2> QED  BY <1>2, <2>3, <2>5 DEF Sized, OpenBlocks
<1> QED  BY <1>1, <1>2

LEMMA FreeOldRuns ==
    ASSUME NEW v, NEW to, to.ptr # m_begin[v], NEW m, m.block = OpenBlocks(to), NEW A,
           ~is_static(v) => m.block[m_begin[v]] = m_capacity[v],
           \A l \in Lives(m) : l[1] # m_begin[v]
    PROVE  \E e : /\ Runs(m, FreeOld(v), e, A)
                  /\ e.at = m.at /\ e.object = m.object /\ e.block = LeftBlocks(to, v)
<1>1. CASE is_static(v)
  <2>1. Runs(m, FreeOld(v), m, A)
    BY <1>1, RunsNone DEF FreeOld
  <2> QED  BY <1>1, <2>1 DEF LeftBlocks
<1>2. CASE ~is_static(v)
  <2>1. PICK P : P = Deallocate(m_begin[v], m_capacity[v])
    OBVIOUS
  <2>2. PICK e : e = After(m, P)
    OBVIOUS
  <2>3. Sized(m, e, m_begin[v], 0) /\ Safe(m, P)
    BY <1>2, <2>1, <2>2, DeallocateStep
  <2>4. Runs(m, FreeOld(v), e, A)
    BY <1>2, <2>1, <2>2, <2>3, RunsSafe DEF FreeOld
  <2> QED  BY <1>2, <2>3, <2>4 DEF Sized, LeftBlocks
<1> QED  BY <1>1, <1>2

LEMMA PointRuns ==
    ASSUME NEW v, NEW b, NEW t, NEW c, NEW m, NEW A
    PROVE  \E e : Runs(m, <<Point(v, b, t, c)>>, e, A) /\ Pointed(m, e, v, Place(b, t, c))
<1>1. PICK P : P = Point(v, b, t, c)
  OBVIOUS
<1>2. Pointed(m, After(m, P), v, Place(b, t, c)) /\ Safe(m, P)
  BY <1>1, PointStep
<1> QED  BY <1>1, <1>2, RunsSafe

LEMMA RebasedIs ==
    ASSUME NEW xs, Rest(Memory, xs, {}), NEW v \in Vectors, NEW to, NEW n, Chosen(to, v, n),
           NEW k \in Nat, k <= to.cap, NEW e,
           Aimed(Memory, e, v, Place(to.ptr, <<to.ptr, k>>, to.cap)), e.block = LeftBlocks(to, v)
    PROVE  Rebased(Memory, e, v, to.ptr, k, to.cap)
<1>1. /\ m_begin[v] = Begin(Memory, v) /\ m_capacity[v] = Cap(Memory, m_begin[v])
      /\ m_begin[v] \in Blocks \cup {v} /\ m_capacity[v] \in Nat \ {0}
      /\ ~is_static(v) => m_begin[v] \in Blocks \ Vectors /\ block[m_begin[v]] = m_capacity[v]
      /\ is_static(v) => m_capacity[v] = StaticCapacity
  BY Found
<1>2. Memory.block = block /\ block \in [Blocks -> Nat]
  BY DEF Memory, Rest, Housing
<1>3. to.ptr \in Blocks \cup {v} /\ to.cap \in Nat \ {0}
  BY <1>1 DEF Chosen, Free
<1>4. to.steps # <<>> => to.ptr \in Blocks \ Vectors /\ block[to.ptr] = 0 /\ to.ptr # m_begin[v]
  BY <1>1, BuffersAssumption DEF Chosen, Free, is_static
<1>5. OpenBlocks(to) \in [Blocks -> Nat]
      /\ (\A a \in Blocks \ {to.ptr} : OpenBlocks(to)[a] = block[a])
      /\ (to.steps # <<>> => OpenBlocks(to)[to.ptr] = to.cap)
      /\ (to.steps = <<>> => OpenBlocks(to) = block)
  <2>1. CASE to.steps = <<>>
    BY <1>2, <2>1 DEF OpenBlocks
  <2>2. CASE to.steps # <<>>
    <3>1. to.ptr \in Blocks /\ to.cap \in Nat
      BY <1>3, <1>4, <2>2
    <3>2. OpenBlocks(to) = [block EXCEPT ![to.ptr] = to.cap]
      BY <2>2 DEF OpenBlocks
    <3> QED  BY <1>2, <2>2, <3>1, <3>2
  <2> QED  BY <2>1, <2>2
<1>6. e.block \in [Blocks -> Nat]
      /\ (\A a \in Blocks \ {to.ptr, m_begin[v]} : e.block[a] = block[a])
      /\ (m_begin[v] \in Blocks \ {to.ptr} => e.block[m_begin[v]] = 0)
      /\ (to.ptr \in Blocks => e.block[to.ptr] = OpenBlocks(to)[to.ptr])
  BY <1>1, <1>5, BuffersAssumption DEF LeftBlocks, is_static
<1>7. to.cap = Cap(e, to.ptr)
  <2>1. CASE to.steps # <<>>
    BY <1>4, <1>5, <1>6, <2>1 DEF Cap
  <2>2. CASE to.steps = <<>> /\ to.ptr = v
    BY <1>1, <2>2 DEF Cap, Chosen, is_static
  <2>3. CASE to.steps = <<>> /\ to.ptr # v
    <3>1. to.ptr = m_begin[v] /\ to.cap = m_capacity[v] /\ ~is_static(v)
      BY <2>3 DEF Chosen, is_static
    <3> QED  BY <1>1, <1>5, <1>6, <2>3, <3>1 DEF Cap
  <2> QED  BY <2>1, <2>2, <2>3
<1>8. to.ptr = Begin(Memory, v) \/ to.ptr = v \/ Memory.block[to.ptr] = 0
  <2>1. to.ptr \in Free => Memory.block[to.ptr] = 0
    BY <1>2 DEF Free
  <2> QED  BY <1>1, <2>1 DEF Chosen
<1> QED  BY <1>1, <1>2, <1>3, <1>6, <1>7, <1>8 DEF Rebased

LEMMA RunsThree ==
    ASSUME NEW m, NEW s, NEW t, NEW u, NEW e, NEW d, NEW f, NEW A,
           Runs(m, s, e, A), Runs(e, t, d, A), Runs(d, u, f, A)
    PROVE  Runs(m, s \o t \o u, f, A)
<1>1. Runs(m, s \o t, d, A)
  BY RunsConcat
<1> QED  BY <1>1, RunsConcat

LEMMA AimedAt ==
    ASSUME NEW xs, Rest(Memory, xs, {}), NEW v \in Vectors, NEW e, e.at = Memory.at
    PROVE  Aimed(Memory, e, v, Memory.at[v])
<1>1. Memory.at = [w \in Vectors |-> Memory.at[w]]
  BY DEF Rest, Housing
<1> QED  BY <1>1 DEF Aimed

LEMMA AimedTwice ==
    ASSUME NEW m, NEW g, NEW e, NEW v, NEW x, NEW y, Aimed(m, g, v, x), Aimed(g, e, v, y)
    PROVE  Aimed(m, e, v, y)
  BY DEF Aimed

\* v frees the block that it leaves, and is pointed at another.
LEMMA Settle ==
    ASSUME NEW xs, Rest(Memory, xs, {}), NEW v \in Vectors, NEW to, NEW n, Chosen(to, v, n),
           to.ptr # m_begin[v], NEW k \in Nat, k <= to.cap, NEW g, NEW x, Aimed(Memory, g, v, x),
           g.block = OpenBlocks(to), \A l \in Lives(g) : l[1] # m_begin[v], NEW A
    PROVE  \E d, e : /\ Runs(g, FreeOld(v), d, A)
                     /\ Runs(d, <<Point(v, to.ptr, <<to.ptr, k>>, to.cap)>>, e, A)
                     /\ Rebased(Memory, e, v, to.ptr, k, to.cap) /\ e.object = g.object
<1>1. ~is_static(v) => g.block[m_begin[v]] = m_capacity[v]
  <2>1. ~is_static(v) => m_begin[v] \in Blocks /\ block[m_begin[v]] = m_capacity[v]
    BY Found
  <2>2. block \in [Blocks -> Nat]
    BY DEF Memory, Rest, Housing
  <2> QED  BY <2>1, <2>2 DEF OpenBlocks
<1>2. PICK d : /\ Runs(g, FreeOld(v), d, A)
               /\ d.at = g.at /\ d.object = g.object /\ d.block = LeftBlocks(to, v)
  BY <1>1, FreeOldRuns
<1>3. PICK e : /\ Runs(d, <<Point(v, to.ptr, <<to.ptr, k>>, to.cap)>>, e, A)
               /\ Pointed(d, e, v, Place(to.ptr, <<to.ptr, k>>, to.cap))
  BY PointRuns
<1>4. Aimed(Memory, e, v, Place(to.ptr, <<to.ptr, k>>, to.cap))
  BY <1>2, <1>3 DEF Pointed, Aimed
<1>5. e.block = LeftBlocks(to, v) /\ e.object = g.object
  BY <1>2, <1>3 DEF Pointed
<1>6. Rebased(Memory, e, v, to.ptr, k, to.cap)
  BY <1>4, <1>5, RebasedIs
<1> QED  BY <1>2, <1>3, <1>5, <1>6

\* Or it stays where it is.
LEMMA Stay ==
    ASSUME NEW xs, Rest(Memory, xs, {}), NEW v \in Vectors, NEW k \in Nat, k <= m_capacity[v],
           NEW e, Aimed(Memory, e, v, Place(m_begin[v], <<m_begin[v], k>>, m_capacity[v])), e.block = block
    PROVE  Rebased(Memory, e, v, m_begin[v], k, m_capacity[v])
<1>1. PICK to : to = [ptr |-> m_begin[v], cap |-> m_capacity[v], steps |-> <<>>]
  OBVIOUS
<1>2. to.ptr = m_begin[v] /\ to.cap = m_capacity[v] /\ to.steps = <<>>
  BY <1>1
<1>3. Chosen(to, v, 0)
  BY <1>2, Found DEF Chosen
<1>4. e.block = LeftBlocks(to, v)
  BY <1>2 DEF LeftBlocks, OpenBlocks
<1> QED  BY <1>2, <1>3, <1>4, RebasedIs

-----------------------------------------------------------------------------
(* Clearing.                                                               *)

LEMMA DestroyAllIs ==
    ASSUME NEW v, size(v) \in Nat
    PROVE  /\ IsSequence(destroy_all(v)) /\ Len(destroy_all(v)) = size(v)
           /\ \A i \in 0..(size(v) - 1) : destroy_all(v)[i + 1] = Destroy(<<m_begin[v], i>>)
<1>1. destroy_all(v) = [i \in 1..size(v) |-> Destroy(<<m_begin[v], i - 1>>)]
  BY DEF destroy_all, Steps, At
<1>2. destroy_all(v) = [i \in 1..size(v) |-> destroy_all(v)[i]]
  BY <1>1
<1>3. \A i \in 0..(size(v) - 1) : i + 1 \in 1..size(v) /\ (i + 1) - 1 = i
  OBVIOUS
<1> QED  BY <1>1, <1>2, <1>3, SequenceIs

LEMMA DestroyAllRuns ==
    ASSUME NEW v, size(v) \in Nat, NEW m, Cells(m_begin[v], 0, size(v)) \subseteq Lives(m), NEW A
    PROVE  \E e : Runs(m, destroy_all(v), e, A) /\ Lost(m, e, Cells(m_begin[v], 0, size(v)))
<1>1. PICK s : s = destroy_all(v)
  OBVIOUS
<1>2. PICK b : b = m_begin[v]
  OBVIOUS
<1>3. PICK n \in Nat : n = size(v)
  OBVIOUS
<1>4. PICK p : FirstOf(p, n) = Cells(b, 0, n) /\ Different(p, n) /\ \A i \in 0..(n - 1) : p[i] = <<b, i>>
  BY UpFromNone
<1>5. IsSequence(s) /\ Len(s) = n /\ \A i \in 0..(n - 1) : s[i + 1] = Destroy(<<b, i>>)
  BY <1>1, <1>2, <1>3, DestroyAllIs
<1>6. \A i \in 0..(n - 1) : s[i + 1] = Destroy(p[i])
  BY <1>4, <1>5
<1>7. FirstOf(p, n) \subseteq Lives(m)
  BY <1>2, <1>3, <1>4
<1>8. PICK e : Runs(m, s, e, A) /\ Lost(m, e, FirstOf(p, n))
  BY <1>4, <1>5, <1>6, <1>7, DestroyLoop
<1> QED  BY <1>1, <1>2, <1>3, <1>4, <1>8

\* The elements of v are destroyed.
LEMMA Emptied ==
    ASSUME NEW xs, Rest(Memory, xs, {}), NEW v \in Vectors, NEW A
    PROVE  \E e : /\ Runs(Memory, destroy_all(v), e, A) /\ Lost(Memory, e, Elements(Memory, v))
                  /\ \A l \in Lives(e) : l[1] # m_begin[v]
<1>1. PICK e : Runs(Memory, destroy_all(v), e, A) /\ Lost(Memory, e, Elements(Memory, v))
  <2>1. size(v) \in Nat
    BY Found
  <2>2. /\ Elements(Memory, v) = Cells(m_begin[v], 0, size(v))
        /\ Cells(m_begin[v], 0, size(v)) \subseteq Lives(Memory)
    BY FoundElements
  <2>3. PICK e : Runs(Memory, destroy_all(v), e, A) /\ Lost(Memory, e, Cells(m_begin[v], 0, size(v)))
    BY <2>1, <2>2, DestroyAllRuns
  <2> QED  BY <2>2, <2>3
<1>2. ASSUME NEW l \in Lives(e)
      PROVE  l[1] # m_begin[v]
  <2>1. l \in Lives(Memory) \ Elements(Memory, v)
    BY <1>1 DEF Lost
  <2>2. m_begin[v] = Begin(Memory, v)
    BY Found
  <2> QED  BY <2>1, <2>2, Elsewhere
<1> QED  BY <1>1, <1>2

\* A vector that has none, and whose elements are gone, is at rest.
LEMMA RestEmpty ==
    ASSUME NEW xs, Rest(Memory, xs, {}), NEW v \in Vectors, NEW e, NEW b, NEW c,
           Rebased(Memory, e, v, b, 0, c), NEW g, Lost(Memory, g, Elements(Memory, v)), e.object = g.object
    PROVE  Rest(e, [xs EXCEPT ![v] = <<>>], {})
<1>1. PICK ys : ys = <<>>
  OBVIOUS
<1>2. ys \in Seq(Values) /\ Len(ys) = 0 /\ Cells(b, 0, Len(ys)) = {}
  BY <1>1, NoCells
<1>3. Lives(e) = (Lives(Memory) \ Elements(Memory, v)) \cup Cells(b, 0, Len(ys))
  BY <1>2 DEF Lost, Lives
<1>4. \A l \in Lives(Memory) \ Elements(Memory, v) : e.object[l] = Memory.object[l]
  BY DEF Lost, Lives
<1>5. Rebased(Memory, e, v, b, Len(ys), c) /\ \A i \in 0..(Len(ys) - 1) : e.object[<<b, i>>] = ys[i + 1]
  BY <1>2
<1>6. Rest(e, [xs EXCEPT ![v] = ys], {})
  BY <1>2, <1>3, <1>4, <1>5, RestAgain
<1> QED  BY <1>1, <1>6

LEMMA RecreateRuns ==
    ASSUME NEW xs, Rest(Memory, xs, {}), NEW v \in Vectors, NEW A
    PROVE  \E e : /\ Runs(Memory, destroy_all(v) \o FreeOld(v) \o <<Point(v, v, <<v, 0>>, StaticCapacity)>>, e, A)
                  /\ Rest(e, [xs EXCEPT ![v] = <<>>], {})
<1>1. PICK g : /\ Runs(Memory, destroy_all(v), g, A) /\ Lost(Memory, g, Elements(Memory, v))
               /\ \A l \in Lives(g) : l[1] # m_begin[v]
  BY Emptied
<1>2. g.at = Memory.at /\ g.block = block
  BY <1>1 DEF Lost, Memory
<1>3. PICK x : Aimed(Memory, g, v, x)
  BY <1>2, AimedAt
<1>4. CASE ~is_static(v)
  <2>1. PICK to : to = [ptr |-> v, cap |-> StaticCapacity, steps |-> <<>>]
    OBVIOUS
  <2>2. to.ptr = v /\ to.cap = StaticCapacity /\ to.steps = <<>>
    BY <2>1
  <2>3. Chosen(to, v, 0) /\ to.ptr # m_begin[v] /\ 0 <= to.cap
    BY <1>4, <2>2, StaticCapacityAssumption DEF Chosen, is_static
  <2>4. g.block = OpenBlocks(to)
    BY <1>2, <2>2 DEF OpenBlocks
  <2>5. PICK d, e : /\ Runs(g, FreeOld(v), d, A)
                    /\ Runs(d, <<Point(v, to.ptr, <<to.ptr, 0>>, to.cap)>>, e, A)
                    /\ Rebased(Memory, e, v, to.ptr, 0, to.cap) /\ e.object = g.object
    BY <1>1, <1>3, <2>3, <2>4, Settle
  <2>6. Rest(e, [xs EXCEPT ![v] = <<>>], {})
    BY <1>1, <2>5, RestEmpty
  <2> QED  BY <1>1, <2>2, <2>5, <2>6, RunsThree
<1>5. CASE is_static(v)
  <2>1. Runs(g, FreeOld(v), g, A)
    BY <1>5, RunsNone DEF FreeOld
  <2>2. PICK e : /\ Runs(g, <<Point(v, v, <<v, 0>>, StaticCapacity)>>, e, A)
                 /\ Pointed(g, e, v, Place(v, <<v, 0>>, StaticCapacity))
    BY PointRuns
  <2>3. m_begin[v] = v /\ m_capacity[v] = StaticCapacity /\ 0 <= StaticCapacity
    BY <1>5, Found, StaticCapacityAssumption DEF is_static
  <2>4. Aimed(Memory, e, v, Place(v, <<v, 0>>, StaticCapacity)) /\ e.block = block /\ e.object = g.object
    BY <1>2, <2>2 DEF Pointed, Aimed
  <2>5. Rebased(Memory, e, v, v, 0, StaticCapacity)
    BY <2>3, <2>4, Stay
  <2>6. Rest(e, [xs EXCEPT ![v] = <<>>], {})
    BY <1>1, <2>4, <2>5, RestEmpty
  <2> QED  BY <1>1, <2>1, <2>2, <2>6, RunsThree
<1> QED  BY <1>4, <1>5

LEMMA ClearRuns ==
    ASSUME NEW xs, Rest(Memory, xs, {}), NEW v \in Vectors, NEW A
    PROVE  \E e : Runs(Memory, clear(v), e, A) /\ Rest(e, [xs EXCEPT ![v] = <<>>], {})
<1>1. PICK g : /\ Runs(Memory, destroy_all(v), g, A) /\ Lost(Memory, g, Elements(Memory, v))
               /\ \A l \in Lives(g) : l[1] # m_begin[v]
  BY Emptied
<1>2. g.at = Memory.at /\ g.block = block
  BY <1>1 DEF Lost, Memory
<1>3. PICK x : Aimed(Memory, g, v, x)
  BY <1>2, AimedAt
<1>4. CASE RevertToStaticBelow > 0 /\ ~is_static(v)
  <2>1. PICK to : to = [ptr |-> v, cap |-> StaticCapacity, steps |-> <<>>]
    OBVIOUS
  <2>2. to.ptr = v /\ to.cap = StaticCapacity /\ to.steps = <<>>
    BY <2>1
  <2>3. Chosen(to, v, 0) /\ to.ptr # m_begin[v] /\ 0 <= to.cap
    BY <1>4, <2>2, StaticCapacityAssumption DEF Chosen, is_static
  <2>4. g.block = OpenBlocks(to)
    BY <1>2, <2>2 DEF OpenBlocks
  <2>5. PICK d, e : /\ Runs(g, FreeOld(v), d, A)
                    /\ Runs(d, <<Point(v, to.ptr, <<to.ptr, 0>>, to.cap)>>, e, A)
                    /\ Rebased(Memory, e, v, to.ptr, 0, to.cap) /\ e.object = g.object
    BY <1>1, <1>3, <2>3, <2>4, Settle
  <2>6. Rest(e, [xs EXCEPT ![v] = <<>>], {})
    BY <1>1, <2>5, RestEmpty
  <2>7. Runs(g, FreeOld(v) \o <<Point(v, v, <<v, 0>>, StaticCapacity)>>, e, A)
    BY <2>2, <2>5, RunsConcat
  <2>8. clear(v) = destroy_all(v) \o (FreeOld(v) \o <<Point(v, v, <<v, 0>>, StaticCapacity)>>)
    BY <1>4 DEF clear
  <2> QED  BY <1>1, <2>6, <2>7, <2>8, RunsConcat
<1>5. CASE ~(RevertToStaticBelow > 0 /\ ~is_static(v))
  <2>1. PICK e : /\ Runs(g, <<Point(v, m_begin[v], <<m_begin[v], 0>>, m_capacity[v])>>, e, A)
                 /\ Pointed(g, e, v, Place(m_begin[v], <<m_begin[v], 0>>, m_capacity[v]))
    BY PointRuns
  <2>2. 0 <= m_capacity[v]
    BY Found
  <2>3. /\ Aimed(Memory, e, v, Place(m_begin[v], <<m_begin[v], 0>>, m_capacity[v]))
        /\ e.block = block /\ e.object = g.object
    BY <1>2, <2>1 DEF Pointed, Aimed
  <2>4. Rebased(Memory, e, v, m_begin[v], 0, m_capacity[v])
    BY <2>2, <2>3, Stay
  <2>5. Rest(e, [xs EXCEPT ![v] = <<>>], {})
    BY <1>1, <2>3, <2>4, RestEmpty
  <2>6. clear(v) = destroy_all(v) \o <<Point(v, m_begin[v], <<m_begin[v], 0>>, m_capacity[v])>>
    BY <1>5 DEF clear, At
  <2> QED  BY <1>1, <2>1, <2>5, <2>6, RunsConcat
<1> QED  BY <1>4, <1>5

-----------------------------------------------------------------------------
(* A vector whose elements are being built.                                *)

\* The objects f are ys, in b, but for those from k to h.
Laid(f, b, ys, k, h) ==
    /\ \A i \in 0..(k - 1) : f[<<b, i>>] = ys[i + 1]
    /\ \A i \in h..(Len(ys) - 1) : f[<<b, i>>] = ys[i + 1]

\* v's elements are to be ys, in b; those from k to h are missing.
Gapped(m, e, v, b, ys, k, h) ==
    /\ Lives(e) = (Lives(m) \ Elements(m, v)) \cup Cells(b, 0, k) \cup Cells(b, h, Len(ys))
    /\ \A l \in Lives(m) \ Elements(m, v) : e.object[l] = m.object[l]
    /\ Laid(e.object, b, ys, k, h)

\* A buffer that an operation on v may use.
Usable(m, v, b) == b = Begin(m, v) \/ b = v \/ (b \in Blocks /\ m.block[b] = 0)

LEMMA GapRest ==
    ASSUME NEW m, NEW e, NEW v \in Vectors, NEW b, NEW c, NEW xs, NEW ys \in Seq(Values),
           Rest(m, xs, {}), Rebased(m, e, v, b, Len(ys), c), NEW k \in 0..Len(ys),
           Gapped(m, e, v, b, ys, k, k)
    PROVE  Rest(e, [xs EXCEPT ![v] = ys], {})
<1>1. Len(ys) \in Nat
  OBVIOUS
<1>2. Cells(b, 0, Len(ys)) = Cells(b, 0, k) \cup Cells(b, k, Len(ys))
  BY <1>1, CellsJoin
<1>3. Lives(e) = (Lives(m) \ Elements(m, v)) \cup Cells(b, 0, Len(ys))
  BY <1>2 DEF Gapped, Laid
<1>4. ASSUME NEW i \in 0..(Len(ys) - 1)
      PROVE  e.object[<<b, i>>] = ys[i + 1]
  <2>1. i \in 0..(k - 1) \/ i \in k..(Len(ys) - 1)
    BY <1>1
  <2> QED  BY <2>1 DEF Gapped, Laid
<1> QED  BY <1>3, <1>4, RestAgain DEF Gapped, Laid

\* The place of a missing element is free.
LEMMA GapFree ==
    ASSUME NEW m, NEW xs, Rest(m, xs, {}), NEW v \in Vectors, NEW b, Usable(m, v, b), NEW e,
           NEW ys, Len(ys) \in Nat, NEW k \in Nat, NEW h \in k..Len(ys), Gapped(m, e, v, b, ys, k, h),
           NEW i \in k..(h - 1)
    PROVE  <<b, i>> \notin Lives(e)
<1>1. <<b, i>> \notin Lives(m) \ Elements(m, v)
  BY Elsewhere DEF Usable
<1>2. <<b, i>> \notin Cells(b, 0, k) /\ <<b, i>> \notin Cells(b, h, Len(ys))
  BY DEF Cells
<1> QED  BY <1>1, <1>2 DEF Gapped, Laid

\* The lemmas on loops speak of places and values by number.
LEMMA UpFrom ==
    ASSUME NEW b, NEW k \in Nat, NEW n \in Nat
    PROVE  \E p : /\ \A j \in 0..n : FirstOf(p, j) = Cells(b, k, k + j)
                  /\ Different(p, n) /\ \A i \in 0..(n - 1) : p[i] = <<b, k + i>>
<1>1. PICK p : p = Up(b, k, n)
  OBVIOUS
<1>2. /\ \A j \in 0..n : FirstOf(p, j) = Cells(b, k, k + j)
      /\ Different(p, n) /\ \A i \in 0..(n - 1) : p[i] = <<b, k + i>>
  BY <1>1, UpCells
<1> QED  BY <1>2

LEMMA CellsUpTo ==
    ASSUME NEW b, NEW h \in Nat, NEW k \in Nat, k <= h
    PROVE  Cells(b, 0, h) = Cells(b, 0, k) \cup Cells(b, k, h)
<1>1. 0 \in Int /\ k \in Int /\ h \in Int /\ 0 <= k
  OBVIOUS
<1> QED  BY <1>1, CellsJoin

LEMMA GapFilled ==
    ASSUME NEW m, NEW e, NEW v, NEW b, NEW ys, Len(ys) \in Nat, NEW k \in Nat, NEW h \in k..Len(ys),
           NEW xs, Rest(m, xs, {}), v \in Vectors, Usable(m, v, b),
           Gapped(m, e, v, b, ys, k, h), NEW d, NEW p, NEW x, NEW n \in Nat, n = h - k,
           FirstOf(p, n) = Cells(b, k, h),
           \A i \in 0..(n - 1) : p[i] = <<b, k + i>> /\ x[i] = ys[k + i + 1],
           Filled(e, d, p, x, n)
    PROVE  Gapped(m, d, v, b, ys, h, h)
<1>1. Cells(b, 0, h) = Cells(b, 0, k) \cup Cells(b, k, h)
  <2>1. h \in Nat /\ k <= h
    OBVIOUS
  <2> QED  BY <2>1, CellsUpTo
<1>2. Lives(d) = (Lives(m) \ Elements(m, v)) \cup Cells(b, 0, h) \cup Cells(b, h, Len(ys))
  BY <1>1 DEF Gapped, Laid, Filled
<1>3. \A l \in Lives(m) \ Elements(m, v) : d.object[l] = m.object[l]
  BY DEF Gapped, Laid, Filled
<1>4. ASSUME NEW i \in 0..(h - 1)
      PROVE  d.object[<<b, i>>] = ys[i + 1]
  <2>1. CASE i < k
    <3>1. i \in 0..(k - 1)
      BY <2>1
    <3>2. <<b, i>> \in Lives(e) /\ e.object[<<b, i>>] = ys[i + 1]
      BY <3>1 DEF Gapped, Laid, Cells
    <3> QED  BY <3>2 DEF Filled
  <2>2. CASE i >= k
    <3>1. PICK j \in 0..(n - 1) : i = k + j
      <4>1. i - k \in 0..(n - 1) /\ i = k + (i - k)
        BY <2>2
      <4> QED  BY <4>1
    <3>2. d.object[p[j]] = x[j]
      BY DEF Filled
    <3> QED  BY <3>1, <3>2
  <2> QED  BY <2>1, <2>2
<1>5. ASSUME NEW i \in h..(Len(ys) - 1)
      PROVE  d.object[<<b, i>>] = ys[i + 1]
  <2>1. <<b, i>> \in Lives(e) /\ e.object[<<b, i>>] = ys[i + 1]
    BY DEF Gapped, Laid, Cells
  <2> QED  BY <2>1 DEF Filled
<1> QED  BY <1>2, <1>3, <1>4, <1>5 DEF Gapped, Laid

\* The steps s, n of them, construct the elements of ys from k.
Building(e, s, b, k, ys, n) ==
    /\ IsSequence(s) /\ Len(s) = n
    /\ \A i \in 0..(n - 1) : Builds(e, s[i + 1], <<b, k + i>>, ys[k + i + 1])

\* The steps s construct the elements of ys from k, and count each.
Counting(e, s, v, a, b, k, ys, n, c) ==
    /\ IsSequence(s) /\ Len(s) = 2 * n
    /\ \A i \in 0..(n - 1) :
           \/ /\ Builds(e, s[2 * i + 1], <<b, k + i>>, ys[k + i + 1])
              /\ s[2 * i + 2] = Point(v, a, <<b, k + i + 1>>, c)
           \/ /\ s[2 * i + 1] = Point(v, a, <<b, k + i + 1>>, c)
              /\ Builds(e, s[2 * i + 2], <<b, k + i>>, ys[k + i + 1])

\* The missing elements are constructed.
LEMMA GapFill ==
    ASSUME NEW m, NEW xs, Rest(m, xs, {}), NEW v \in Vectors, NEW b, Usable(m, v, b), NEW e,
           NEW ys, Len(ys) \in Nat, NEW k \in Nat, NEW h \in k..Len(ys), Gapped(m, e, v, b, ys, k, h),
           NEW s, NEW n, n = h - k, Building(e, s, b, k, ys, n),
           Len(ys) <= Cap(e, b), Cap(e, b) \in Nat, NEW A
    PROVE  \E d : Runs(e, s, d, A) /\ d.at = e.at /\ d.block = e.block /\ Gapped(m, d, v, b, ys, h, h)
<1>1. n \in Nat /\ k + n = h
  OBVIOUS
<1>2. PICK p : /\ \A j \in 0..n : FirstOf(p, j) = Cells(b, k, k + j)
               /\ Different(p, n) /\ \A i \in 0..(n - 1) : p[i] = <<b, k + i>>
  BY <1>1, UpFrom
<1>3. FirstOf(p, n) = Cells(b, k, h)
  <2>1. n \in 0..n
    BY <1>1
  <2> QED  BY <1>1, <1>2, <2>1
<1>4. PICK x : x = [i \in 0..(n - 1) |-> ys[k + i + 1]]
  OBVIOUS
<1>5. \A i \in 0..(n - 1) : p[i] = <<b, k + i>> /\ x[i] = ys[k + i + 1]
  BY <1>2, <1>4
<1>6. ASSUME NEW i \in 0..(n - 1)
      PROVE  Builds(e, s[i + 1], p[i], x[i]) /\ Room(e, p[i]) /\ p[i] \notin Lives(e)
  <2>1. PICK j : j = k + i /\ j \in k..(h - 1) /\ j < Cap(e, b)
    BY <1>1
  <2>2. <<b, j>> \notin Lives(e)
    BY <2>1, GapFree
  <2>3. Room(e, <<b, j>>)
    BY <2>1 DEF Room
  <2>4. Builds(e, s[i + 1], <<b, k + i>>, ys[k + i + 1])
    BY DEF Building
  <2> QED  BY <1>5, <2>1, <2>2, <2>3, <2>4
<1>7. PICK d : Runs(e, s, d, A) /\ d.at = e.at /\ Filled(e, d, p, x, n)
  <2>1. IsSequence(s) /\ Len(s) = n
    BY DEF Building
  <2> QED  BY <1>1, <1>2, <1>6, <2>1, FillLoop
<1>8. Gapped(m, d, v, b, ys, h, h)
  BY <1>1, <1>3, <1>5, <1>7, GapFilled
<1> QED  BY <1>7, <1>8 DEF Filled

\* They are constructed and counted.
LEMMA GapCount ==
    ASSUME NEW m, NEW xs, Rest(m, xs, {}), NEW v \in Vectors, NEW b, Usable(m, v, b), NEW e,
           NEW ys, Len(ys) \in Nat, NEW k \in Nat, NEW h \in k..Len(ys), Gapped(m, e, v, b, ys, k, h),
           NEW s, NEW n, n = h - k, NEW a, NEW c, Counting(e, s, v, a, b, k, ys, n, c),
           Aimed(e, e, v, Place(a, <<b, k>>, c)),
           Len(ys) <= Cap(e, b), Cap(e, b) \in Nat, NEW A
    PROVE  \E d : /\ Runs(e, s, d, A) /\ Aimed(e, d, v, Place(a, <<b, h>>, c)) /\ d.block = e.block
                  /\ Gapped(m, d, v, b, ys, h, h)
<1>1. n \in Nat /\ k + n = h
  OBVIOUS
<1>2. PICK p : /\ \A j \in 0..n : FirstOf(p, j) = Cells(b, k, k + j)
               /\ Different(p, n) /\ \A i \in 0..(n - 1) : p[i] = <<b, k + i>>
  BY <1>1, UpFrom
<1>3. FirstOf(p, n) = Cells(b, k, h)
  <2>1. n \in 0..n
    BY <1>1
  <2> QED  BY <1>1, <1>2, <2>1
<1>4. PICK x : x = [i \in 0..(n - 1) |-> ys[k + i + 1]]
  OBVIOUS
<1>5. \A i \in 0..(n - 1) : p[i] = <<b, k + i>> /\ x[i] = ys[k + i + 1]
  BY <1>2, <1>4
<1>6. ASSUME NEW i \in 0..(n - 1)
      PROVE  /\ \/ /\ Builds(e, s[2 * i + 1], p[i], x[i])
                   /\ s[2 * i + 2] = Point(v, a, <<b, k + i + 1>>, c)
                \/ /\ s[2 * i + 1] = Point(v, a, <<b, k + i + 1>>, c)
                   /\ Builds(e, s[2 * i + 2], p[i], x[i])
             /\ Room(e, p[i]) /\ p[i] \notin Lives(e)
  <2>1. PICK j : j = k + i /\ j \in k..(h - 1) /\ j < Cap(e, b)
    BY <1>1
  <2>2. <<b, j>> \notin Lives(e)
    BY <2>1, GapFree
  <2>3. Room(e, <<b, j>>)
    BY <2>1 DEF Room
  <2>4. \/ /\ Builds(e, s[2 * i + 1], <<b, k + i>>, ys[k + i + 1])
           /\ s[2 * i + 2] = Point(v, a, <<b, k + i + 1>>, c)
        \/ /\ s[2 * i + 1] = Point(v, a, <<b, k + i + 1>>, c)
           /\ Builds(e, s[2 * i + 2], <<b, k + i>>, ys[k + i + 1])
    BY DEF Counting
  <2> QED  BY <1>5, <2>1, <2>2, <2>3, <2>4
<1>7. PICK d : /\ Runs(e, s, d, A) /\ Aimed(e, d, v, Place(a, <<b, k + n>>, c))
               /\ Filled(e, d, p, x, n)
  <2>1. IsSequence(s) /\ Len(s) = 2 * n
    BY DEF Counting
  <2> QED  BY <1>1, <1>2, <1>6, <2>1, CountLoop
<1>8. Gapped(m, d, v, b, ys, h, h)
  BY <1>1, <1>3, <1>5, <1>7, GapFilled
<1> QED  BY <1>1, <1>7, <1>8 DEF Filled

LEMMA ChosenUsable ==
    ASSUME NEW xs, Rest(Memory, xs, {}), NEW v \in Vectors, NEW to, NEW n, Chosen(to, v, n)
    PROVE  Usable(Memory, v, to.ptr)
<1>1. m_begin[v] = Begin(Memory, v)
  BY Found
<1> QED  BY <1>1 DEF Usable, Chosen, Free, Memory

LEMMA ChosenCap ==
    ASSUME NEW xs, Rest(Memory, xs, {}), NEW v \in Vectors, NEW to, NEW n, Chosen(to, v, n),
           NEW m, m.block = OpenBlocks(to)
    PROVE  Cap(m, to.ptr) = to.cap
<1>1. /\ ~is_static(v) => m_begin[v] \in Blocks \ Vectors /\ block[m_begin[v]] = m_capacity[v]
      /\ is_static(v) => m_capacity[v] = StaticCapacity
  BY Found
<1>2. CASE to.steps = <<>> /\ to.ptr = v
  BY <1>1, <1>2 DEF Chosen, Cap, is_static
<1>3. CASE to.steps = <<>> /\ to.ptr # v
  BY <1>1, <1>3 DEF Chosen, Cap, is_static, OpenBlocks
<1>4. CASE to.steps # <<>>
  <2>1. to.ptr \in Blocks \ Vectors
    BY <1>4, BuffersAssumption DEF Chosen, Free
  <2>2. block \in [Blocks -> Nat]
    BY DEF Memory, Rest, Housing
  <2> QED  BY <1>4, <2>1, <2>2 DEF Cap, OpenBlocks
<1> QED  BY <1>2, <1>3, <1>4

-----------------------------------------------------------------------------
(* Making room.                                                            *)

\* ys is w with num elements more at k.
Spread(ys, w, k, num) ==
    /\ Len(ys) = Len(w) + num
    /\ \A i \in 0..(k - 1) : ys[i + 1] = w[i + 1]
    /\ \A i \in k..(Len(w) - 1) : ys[i + num + 1] = w[i + 1]

\* The objects f are w, in b, but for such a hole.
Opened(f, b, w, k, num) ==
    /\ \A i \in 0..(k - 1) : f[<<b, i>>] = w[i + 1]
    /\ \A i \in k..(Len(w) - 1) : f[<<b, i + num>>] = w[i + 1]

LEMMA SpreadValues ==
    ASSUME NEW w, Len(w) \in Nat, NEW k \in 0..Len(w), NEW num \in Nat, NEW ys, Spread(ys, w, k, num),
           NEW f, NEW b, Opened(f, b, w, k, num)
    PROVE  Laid(f, b, ys, k, k + num)
<1>1. \A i \in 0..(k - 1) : f[<<b, i>>] = ys[i + 1]
  BY DEF Spread, Opened
<1>2. ASSUME NEW i \in (k + num)..(Len(ys) - 1)
      PROVE  f[<<b, i>>] = ys[i + 1]
  <2>1. PICK j \in k..(Len(w) - 1) : i = j + num
    <3>1. i - num \in k..(Len(w) - 1) /\ i = (i - num) + num
      BY DEF Spread
    <3> QED  BY <3>1
  <2> QED  BY <2>1 DEF Spread, Opened
<1> QED  BY <1>1, <1>2 DEF Laid

\* The places that the elements of a vector are moved to.
Apart(p, b, n, k, num) ==
    /\ \A i \in 0..(n - 1) : p[i] = <<b, IF i < k THEN i ELSE i + num>>
    /\ Different(p, n)
    /\ FirstOf(p, n) = Cells(b, 0, k) \cup Cells(b, k + num, n + num)

LEMMA SpreadPlaces ==
    ASSUME NEW b, NEW n \in Nat, NEW k \in 0..n, NEW num \in Nat
    PROVE  \E p : Apart(p, b, n, k, num)
<1>1. PICK p : p = [i \in 0..(n - 1) |-> <<b, IF i < k THEN i ELSE i + num>>]
  OBVIOUS
<1>2. \A i \in 0..(n - 1) : p[i] = <<b, IF i < k THEN i ELSE i + num>>
  BY <1>1
<1>3. Different(p, n)
  BY <1>2 DEF Different
<1>4. ASSUME NEW l \in FirstOf(p, n)
      PROVE  l \in Cells(b, 0, k) \cup Cells(b, k + num, n + num)
  BY <1>2 DEF FirstOf, Cells
<1>5. ASSUME NEW l \in Cells(b, 0, k)
      PROVE  l \in FirstOf(p, n)
  <2>1. PICK i \in 0..(k - 1) : l = <<b, i>>
    BY DEF Cells
  <2>2. i \in 0..(n - 1) /\ p[i] = l
    BY <1>2, <2>1
  <2> QED  BY <2>2 DEF FirstOf
<1>6. ASSUME NEW l \in Cells(b, k + num, n + num)
      PROVE  l \in FirstOf(p, n)
  <2>1. PICK i \in (k + num)..(n + num - 1) : l = <<b, i>>
    BY DEF Cells
  <2>2. PICK j : j = i - num
    OBVIOUS
  <2>3. j \in 0..(n - 1) /\ ~(j < k) /\ j + num = i
    BY <2>2
  <2>4. p[j] = l
    BY <1>2, <2>1, <2>3
  <2> QED  BY <2>3, <2>4 DEF FirstOf
<1>7. FirstOf(p, n) = Cells(b, 0, k) \cup Cells(b, k + num, n + num)
  BY <1>4, <1>5, <1>6
<1> QED  BY <1>2, <1>3, <1>7 DEF Apart

\* The moves of GrowElsewhere.
MovesOut(v, k, num, to) ==
    Steps(size(v), LAMBDA i : Move(At(v, i), <<to.ptr, IF i < k THEN i ELSE i + num>>))

LEMMA MovesOutAre ==
    ASSUME NEW v, NEW k, NEW num, NEW to, NEW n \in Nat, n = size(v), NEW s, s = MovesOut(v, k, num, to)
    PROVE  /\ IsSequence(s) /\ Len(s) = n
           /\ \A i \in 0..(n - 1) :
                  s[i + 1] = Move(<<m_begin[v], i>>, <<to.ptr, IF i < k THEN i ELSE i + num>>)
<1>1. s = [i \in 1..n |-> Move(<<m_begin[v], i - 1>>, <<to.ptr, IF i - 1 < k THEN i - 1 ELSE i - 1 + num>>)]
  BY DEF MovesOut, Steps, At
<1>2. s = [i \in 1..n |-> s[i]]
  BY <1>1
<1>3. \A i \in 0..(n - 1) : i + 1 \in 1..n /\ (i + 1) - 1 = i
  OBVIOUS
<1> QED  BY <1>1, <1>2, <1>3, SequenceIs

LEMMA GrowElsewhereRuns ==
    ASSUME NEW xs, Rest(Memory, xs, {}), NEW v \in Vectors, NEW to, NEW n0, Chosen(to, v, n0),
           to.ptr # m_begin[v], NEW k \in 0..size(v), NEW num \in Nat, size(v) + num <= to.cap,
           NEW ys, Spread(ys, xs[v], k, num),
           NEW m, m.at = Memory.at, m.object = Memory.object, m.block = OpenBlocks(to), NEW A
    PROVE  \E e : /\ Runs(m, GrowElsewhere(v, k, num, to), e, A)
                  /\ Rebased(Memory, e, v, to.ptr, size(v) + num, to.cap)
                  /\ Gapped(Memory, e, v, to.ptr, ys, k, k + num)
<1>1. PICK n \in Nat : n = size(v) /\ Len(xs[v]) = n
  BY Found, FoundElements
<1>2. PICK b, a : a = m_begin[v] /\ b = to.ptr /\ a # b
  OBVIOUS
<1>3. /\ Elements(Memory, v) = Cells(a, 0, n) /\ Cells(a, 0, n) \subseteq Lives(Memory)
      /\ \A i \in 0..(n - 1) : Memory.object[<<a, i>>] = xs[v][i + 1]
  BY <1>1, <1>2, FoundElements
<1>4. Lives(m) = Lives(Memory) /\ Cap(m, b) = to.cap /\ Usable(Memory, v, b) /\ Usable(Memory, v, a)
  BY <1>2, ChosenCap, ChosenUsable, Found DEF Lives, Usable
<1>5. ASSUME NEW l \in Lives(m) \ Cells(a, 0, n)
      PROVE  l[1] # b /\ l[1] # a
  BY <1>3, <1>4, Elsewhere DEF Usable
<1>6. PICK q : FirstOf(q, n) = Cells(a, 0, n) /\ Different(q, n) /\ \A i \in 0..(n - 1) : q[i] = <<a, i>>
  BY UpFromNone
<1>7. PICK p : /\ \A i \in 0..(n - 1) : p[i] = <<b, IF i < k THEN i ELSE i + num>>
               /\ Different(p, n)
               /\ FirstOf(p, n) = Cells(b, 0, k) \cup Cells(b, k + num, n + num)
  <2>1. k \in 0..n
    BY <1>1
  <2>2. PICK p : Apart(p, b, n, k, num)
    BY <2>1, SpreadPlaces
  <2> QED  BY <2>2 DEF Apart
<1>8. PICK s : s = MovesOut(v, k, num, to)
  OBVIOUS
<1>9. /\ IsSequence(s) /\ Len(s) = n
      /\ \A i \in 0..(n - 1) : s[i + 1] = Move(<<a, i>>, <<b, IF i < k THEN i ELSE i + num>>)
  BY <1>1, <1>2, <1>8, MovesOutAre
<1>10. \A i \in 0..(n - 1) : s[i + 1] = Move(q[i], p[i]) /\ q[i] \in Lives(m) /\ Room(m, p[i])
  <2>1. ASSUME NEW i \in 0..(n - 1)
        PROVE  s[i + 1] = Move(q[i], p[i]) /\ q[i] \in Lives(m) /\ Room(m, p[i])
    <3>1. q[i] \in Cells(a, 0, n)
      BY <1>6 DEF Cells
    <3>2. PICK j : j = (IF i < k THEN i ELSE i + num)
      OBVIOUS
    <3>3. j < to.cap
      BY <1>1, <3>2 DEF Chosen
    <3>4. Room(m, <<b, j>>)
      BY <1>4, <3>3 DEF Room
    <3> QED  BY <1>3, <1>4, <1>6, <1>7, <1>9, <3>1, <3>2, <3>4
  <2> QED  BY <2>1
<1>11. FirstOf(p, n) \cap Lives(m) = {}
  <2>1. ASSUME NEW l \in FirstOf(p, n)
        PROVE  l \notin Lives(m)
    <3>1. l[1] = b
      BY <1>7 DEF Cells
    <3>2. l \notin Cells(a, 0, n)
      BY <1>2, <3>1 DEF Cells
    <3> QED  BY <1>5, <3>1, <3>2
  <2> QED  BY <2>1
<1>12. PICK g : Runs(m, s, g, A) /\ Moves(m, g, q, p, n)
  BY <1>6, <1>7, <1>9, <1>10, <1>11, MoveLoop
<1>13. PICK h : Runs(g, destroy_all(v), h, A) /\ Lost(g, h, Cells(a, 0, n))
  <2>1. Cells(a, 0, n) \subseteq Lives(g)
    BY <1>3, <1>4, <1>12 DEF Moves
  <2> QED  BY <1>1, <1>2, <2>1, DestroyAllRuns
<1>14. Lives(h) = (Lives(m) \ Cells(a, 0, n)) \cup FirstOf(p, n)
  <2>1. FirstOf(p, n) \cap Cells(a, 0, n) = {}
    BY <1>3, <1>4, <1>11
  <2> QED  BY <1>12, <1>13, <2>1 DEF Moves, Lost
<1>15. \A l \in Lives(h) : l[1] # m_begin[v]
  <2>1. ASSUME NEW l \in Lives(h)
        PROVE  l[1] # a
    <3>1. CASE l \in FirstOf(p, n)
      BY <1>2, <1>7, <3>1 DEF Cells
    <3>2. CASE l \notin FirstOf(p, n)
      BY <1>5, <1>14, <3>2
    <3> QED  BY <3>1, <3>2
  <2> QED  BY <1>2, <2>1
<1>16. h.at = Memory.at /\ h.block = OpenBlocks(to)
  BY <1>12, <1>13 DEF Moves, Lost
<1>17. PICK y : Aimed(Memory, h, v, y)
  BY <1>16, AimedAt
<1>18. PICK d, e : /\ Runs(h, FreeOld(v), d, A)
                   /\ Runs(d, <<Point(v, to.ptr, <<to.ptr, n + num>>, to.cap)>>, e, A)
                   /\ Rebased(Memory, e, v, to.ptr, n + num, to.cap) /\ e.object = h.object
  <2>1. n + num \in Nat /\ n + num <= to.cap
    BY <1>1
  <2> QED  BY <1>15, <1>16, <1>17, <2>1, Settle
<1>19. Runs(m, s \o destroy_all(v) \o FreeOld(v) \o <<Point(v, to.ptr, <<to.ptr, n + num>>, to.cap)>>, e, A)
  <2>1. Runs(m, s \o destroy_all(v) \o FreeOld(v), d, A)
    BY <1>12, <1>13, <1>18, RunsThree
  <2> QED  BY <1>18, <2>1, RunsConcat
<1>20. GrowElsewhere(v, k, num, to)
       = s \o destroy_all(v) \o FreeOld(v) \o <<Point(v, to.ptr, <<to.ptr, n + num>>, to.cap)>>
  BY <1>1, <1>8 DEF GrowElsewhere, MovesOut
<1>21. \A l \in Lives(m) \ Cells(a, 0, n) : e.object[l] = Memory.object[l]
  <2>1. ASSUME NEW l \in Lives(m) \ Cells(a, 0, n)
        PROVE  e.object[l] = Memory.object[l]
    <3>1. g.object[l] = m.object[l]
      BY <1>6, <1>12 DEF Moves
    <3>2. h.object[l] = g.object[l]
      BY <1>13, <1>14 DEF Lost
    <3> QED  BY <1>18, <3>1, <3>2
  <2> QED  BY <2>1
<1>22. ASSUME NEW i \in 0..(n - 1)
       PROVE  e.object[p[i]] = xs[v][i + 1]
  <2>1. g.object[p[i]] = m.object[q[i]]
    BY <1>12 DEF Moves
  <2>2. p[i] \in FirstOf(p, n)
    BY DEF FirstOf
  <2>3. h.object[p[i]] = g.object[p[i]]
    BY <1>13, <1>14, <2>2 DEF Lost
  <2> QED  BY <1>3, <1>6, <1>18, <2>1, <2>3
<1>23. /\ \A i \in 0..(k - 1) : e.object[<<b, i>>] = xs[v][i + 1]
       /\ \A i \in k..(n - 1) : e.object[<<b, i + num>>] = xs[v][i + 1]
  <2>1. ASSUME NEW i \in 0..(k - 1)
        PROVE  e.object[<<b, i>>] = xs[v][i + 1]
    <3>1. i \in 0..(n - 1) /\ i < k
      BY <1>1
    <3>2. p[i] = <<b, i>>
      BY <1>7, <3>1
    <3> QED  BY <1>22, <3>1, <3>2
  <2>2. ASSUME NEW i \in k..(n - 1)
        PROVE  e.object[<<b, i + num>>] = xs[v][i + 1]
    <3>1. i \in 0..(n - 1) /\ ~(i < k)
      BY <1>1
    <3>2. p[i] = <<b, i + num>>
      BY <1>7, <3>1
    <3> QED  BY <1>22, <3>1, <3>2
  <2> QED  BY <2>1, <2>2
<1>24. Laid(e.object, b, ys, k, k + num)
  <2>1. PICK w, f : w = xs[v] /\ f = e.object
    OBVIOUS
  <2>2. Len(w) \in Nat /\ k \in 0..Len(w) /\ Spread(ys, w, k, num)
    BY <1>1, <2>1
  <2>3. Opened(f, b, w, k, num)
    BY <1>1, <1>23, <2>1 DEF Opened
  <2>4. Laid(f, b, ys, k, k + num)
    BY <2>2, <2>3, SpreadValues
  <2> QED  BY <2>1, <2>4
<1>25. Lives(e) = (Lives(Memory) \ Cells(a, 0, n)) \cup Cells(b, 0, k) \cup Cells(b, k + num, Len(ys))
  <2>1. Len(ys) = n + num
    BY <1>1 DEF Spread
  <2> QED  BY <1>4, <1>7, <1>14, <1>18, <2>1 DEF Lives
<1>26. Gapped(Memory, e, v, b, ys, k, k + num)
  BY <1>3, <1>4, <1>21, <1>24, <1>25 DEF Gapped
<1> QED  BY <1>1, <1>2, <1>18, <1>19, <1>20, <1>26

\* The first n places below hi.
Below(p, b, hi, n) ==
    /\ \A j \in 0..n : FirstOf(p, j) = Cells(b, hi - j, hi)
    /\ Different(p, n) /\ \A i \in 0..(n - 1) : p[i] = <<b, hi - 1 - i>>

LEMMA DownFrom ==
    ASSUME NEW b, NEW hi \in Int, NEW n \in Nat
    PROVE  \E p : Below(p, b, hi, n)
<1>1. PICK p : p = Down(b, hi, n)
  OBVIOUS
<1>2. /\ \A j \in 0..n : FirstOf(p, j) = Cells(b, hi - j, hi)
      /\ Different(p, n) /\ \A i \in 0..(n - 1) : p[i] = <<b, hi - 1 - i>>
  BY <1>1, DownCells
<1> QED  BY <1>2 DEF Below

\* The moves of GrowInPlace.
MovesUp(v, k, num) ==
    LET last == size(v) - 1
    IN  Alternate(size(v) - k, LAMBDA i : Move(At(v, last - i), At(v, last - i + num)),
                               LAMBDA i : Destroy(At(v, last - i)))

\* c elements are moved from below n to below r, from the last to the first.
Climbs(s, a, n, r, c) ==
    /\ IsSequence(s) /\ Len(s) = 2 * c
    /\ \A i \in 0..(c - 1) : /\ s[2 * i + 1] = Move(<<a, n - 1 - i>>, <<a, r - 1 - i>>)
                             /\ s[2 * i + 2] = Destroy(<<a, n - 1 - i>>)

LEMMA MovesUpAre ==
    ASSUME NEW v, NEW n \in Nat, n = size(v), NEW k \in 0..n, NEW num \in Nat,
           NEW c \in Nat, c = n - k, NEW r \in Nat, r = n + num, NEW a, a = m_begin[v]
    PROVE  Climbs(MovesUp(v, k, num), a, n, r, c)
<1>1. PICK s : s = MovesUp(v, k, num)
  OBVIOUS
<1>2. s = [i \in 1..(2 * c) |->
              IF i % 2 = 1 THEN Move(<<a, n - 1 - (i \div 2)>>, <<a, n - 1 - (i \div 2) + num>>)
                           ELSE Destroy(<<a, n - 1 - (i \div 2 - 1)>>)]
  BY <1>1 DEF MovesUp, Alternate, At
<1>3. s = [i \in 1..(2 * c) |-> s[i]]
  BY <1>2
<1>4. 2 * c \in Nat
  OBVIOUS
<1>5. IsSequence(s) /\ Len(s) = 2 * c
  BY <1>3, <1>4, SequenceIs
<1>6. ASSUME NEW i \in 0..(c - 1)
      PROVE  /\ s[2 * i + 1] = Move(<<a, n - 1 - i>>, <<a, r - 1 - i>>)
             /\ s[2 * i + 2] = Destroy(<<a, n - 1 - i>>)
  <2>1. PICK x, y : x = 2 * i + 1 /\ y = 2 * i + 2
    OBVIOUS
  <2>2. x \in 1..(2 * c) /\ y \in 1..(2 * c) /\ x % 2 = 1 /\ x \div 2 = i /\ y % 2 # 1 /\ y \div 2 - 1 = i
    BY <2>1, Halves
  <2>3. s[x] = Move(<<a, n - 1 - i>>, <<a, n - 1 - i + num>>) /\ s[y] = Destroy(<<a, n - 1 - i>>)
    BY <1>2, <2>2
  <2>4. n - 1 - i + num = r - 1 - i
    OBVIOUS
  <2> QED  BY <2>1, <2>3, <2>4
<1> QED  BY <1>1, <1>5, <1>6 DEF Climbs

LEMMA GrowInPlaceRuns ==
    ASSUME NEW xs, Rest(Memory, xs, {}), NEW v \in Vectors,
           NEW k \in 0..size(v), NEW num \in Nat \ {0}, size(v) + num <= m_capacity[v],
           NEW ys, Spread(ys, xs[v], k, num), NEW A
    PROVE  \E e : /\ Runs(Memory, GrowInPlace(v, k, num), e, A)
                  /\ Rebased(Memory, e, v, m_begin[v], size(v) + num, m_capacity[v])
                  /\ Gapped(Memory, e, v, m_begin[v], ys, k, k + num)
<1>1. PICK n \in Nat : n = size(v) /\ Len(xs[v]) = n
  BY Found, FoundElements
<1>2. PICK a : a = m_begin[v]
  OBVIOUS
<1>3. PICK c \in Nat : c = n - k
  BY <1>1
<1>4. /\ Elements(Memory, v) = Cells(a, 0, n) /\ Cells(a, 0, n) \subseteq Lives(Memory)
      /\ \A i \in 0..(n - 1) : Memory.object[<<a, i>>] = xs[v][i + 1]
  BY <1>1, <1>2, FoundElements
<1>5. Usable(Memory, v, a) /\ Cap(Memory, a) = m_capacity[v] /\ m_capacity[v] \in Nat
  BY <1>2, Found DEF Usable
<1>6. ASSUME NEW l \in Lives(Memory) \ Cells(a, 0, n)
      PROVE  l[1] # a
  BY <1>4, <1>5, Elsewhere DEF Usable
<1>7. PICK P : P = Point(v, a, <<a, n + num>>, m_capacity[v])
  OBVIOUS
<1>8. PICK m : Runs(Memory, <<P>>, m, A) /\ Pointed(Memory, m, v, Place(a, <<a, n + num>>, m_capacity[v]))
  BY <1>7, PointRuns
<1>9. m.block = Memory.block /\ m.object = Memory.object /\ Lives(m) = Lives(Memory)
  BY <1>8 DEF Pointed, Lives
<1>10. PICK q : /\ \A j \in 0..c : FirstOf(q, j) = Cells(a, n - j, n)
                /\ Different(q, c) /\ \A i \in 0..(c - 1) : q[i] = <<a, n - 1 - i>>
  <2>1. n \in Int
    OBVIOUS
  <2>2. PICK q : Below(q, a, n, c)
    BY <2>1, DownFrom
  <2> QED  BY <2>2 DEF Below
<1>11. PICK r \in Nat : r = n + num
  OBVIOUS
<1>0. /\ n \in Nat /\ k \in Nat /\ num \in Nat /\ c \in Nat /\ r \in Nat
      /\ k <= n /\ 0 < num /\ c = n - k /\ r = n + num /\ c + k = n
  BY <1>1, <1>3, <1>11
<1>12. PICK p : /\ \A j \in 0..c : FirstOf(p, j) = Cells(a, r - j, r)
                /\ Different(p, c) /\ \A i \in 0..(c - 1) : p[i] = <<a, r - 1 - i>>
  <2>1. PICK p : Below(p, a, r, c)
    BY DownFrom
  <2> QED  BY <2>1 DEF Below
<1>13. PICK s : s = MovesUp(v, k, num)
  OBVIOUS
<1>14. /\ IsSequence(s) /\ Len(s) = 2 * c
       /\ \A i \in 0..(c - 1) : s[2 * i + 1] = Move(q[i], p[i]) /\ s[2 * i + 2] = Destroy(q[i])
  <2>1. k \in 0..n /\ num \in Nat /\ r = n + num /\ c = n - k
    BY <1>0
  <2>2. Climbs(MovesUp(v, k, num), a, n, r, c)
    BY <1>1, <1>2, <2>1, MovesUpAre
  <2> QED  BY <1>10, <1>12, <1>13, <2>2 DEF Climbs
<1>15. ASSUME NEW i \in 0..(c - 1)
       PROVE  q[i] \in Lives(m) /\ p[i] \notin Lives(m) \ FirstOf(q, i) /\ Room(m, p[i])
  <2>1. q[i] \in Lives(m)
    <3>1. n - 1 - i \in 0..(n - 1)
      BY <1>1, <1>3
    <3>2. <<a, n - 1 - i>> \in Cells(a, 0, n)
      BY <3>1 DEF Cells
    <3> QED  BY <1>4, <1>9, <1>10, <3>2
  <2>2. PICK j \in Nat : j = r - 1 - i /\ n - i <= j /\ j < r
    <3>1. r - 1 - i \in Nat /\ n - i <= r - 1 - i /\ r - 1 - i < r
      <4>1. i \in Nat /\ i < c
        OBVIOUS
      <4> QED  BY <1>0, <4>1
    <3> QED  BY <3>1
  <2>3. FirstOf(q, i) = Cells(a, n - i, n)
    <3>1. i \in 0..c
      OBVIOUS
    <3> QED  BY <1>10, <3>1
  <2>4. <<a, j>> \notin Lives(m) \ FirstOf(q, i)
    <3>1. CASE j < n
      <4>1. j \in (n - i)..(n - 1)
        BY <2>2, <3>1
      <4>2. <<a, j>> \in FirstOf(q, i)
        BY <2>3, <4>1 DEF Cells
      <4> QED  BY <4>2
    <3>2. CASE ~(j < n)
      <4>1. <<a, j>> \notin Cells(a, 0, n)
        BY <2>2, <3>2 DEF Cells
      <4> QED  BY <1>6, <1>9, <4>1
    <3> QED  BY <3>1, <3>2
  <2>5. Room(m, <<a, j>>)
    <3>1. Cap(m, a) = m_capacity[v] /\ r <= m_capacity[v]
      BY <1>1, <1>5, <1>9, <1>11 DEF Cap
    <3> QED  BY <1>5, <2>2, <3>1 DEF Room
  <2> QED  BY <1>12, <2>1, <2>2, <2>4, <2>5
<1>16. PICK e : Runs(m, s, e, A) /\ Relocated(m, e, q, p, c)
  BY <1>10, <1>12, <1>14, <1>15, RelocateLoop
<1>17. Runs(Memory, GrowInPlace(v, k, num), e, A)
  <2>1. GrowInPlace(v, k, num) = <<P>> \o s
    BY <1>1, <1>2, <1>7, <1>13 DEF GrowInPlace, MovesUp, At
  <2> QED  BY <1>8, <1>16, <2>1, RunsConcat
<1>18. Rebased(Memory, e, v, a, r, m_capacity[v])
  <2>1. Aimed(Memory, e, v, Place(a, <<a, r>>, m_capacity[v]))
    BY <1>8, <1>11, <1>16 DEF Pointed, Aimed, Relocated
  <2>2. e.block = block
    BY <1>9, <1>16 DEF Relocated, Memory
  <2>3. r <= m_capacity[v]
    BY <1>1, <1>11
  <2> QED  BY <1>2, <2>1, <2>2, <2>3, Stay
<1>19. FirstOf(q, c) = Cells(a, k, n) /\ FirstOf(p, c) = Cells(a, k + num, r)
  <2>1. c \in 0..c /\ n - c = k /\ r - c = k + num
    BY <1>1, <1>3, <1>11
  <2> QED  BY <1>10, <1>12, <2>1
<1>20. Cells(a, 0, n) = Cells(a, 0, k) \cup Cells(a, k, n) /\ Cells(a, 0, k) \cap Cells(a, k, n) = {}
  BY <1>1, CellsJoin, CellsApart
<1>21. Len(ys) = r
  BY <1>1, <1>11 DEF Spread
<1>22. /\ Cells(a, 0, k) \cap (FirstOf(q, c) \cup FirstOf(p, c)) = {}
       /\ (Lives(Memory) \ Cells(a, 0, n)) \cap (FirstOf(q, c) \cup FirstOf(p, c)) = {}
  <2>1. Cells(a, 0, k) \cap Cells(a, k + num, r) = {}
    BY <1>1, <1>11, CellsApart
  <2>2. \A l \in FirstOf(q, c) \cup FirstOf(p, c) : l[1] = a
    BY <1>19 DEF Cells
  <2> QED  BY <1>6, <1>19, <1>20, <2>1, <2>2
<1>23. Lives(e) = (Lives(Memory) \ Cells(a, 0, n)) \cup Cells(a, 0, k) \cup Cells(a, k + num, Len(ys))
  BY <1>4, <1>9, <1>16, <1>19, <1>20, <1>21, <1>22 DEF Relocated
<1>24. \A l \in Lives(Memory) \ Cells(a, 0, n) : e.object[l] = Memory.object[l]
  BY <1>9, <1>16, <1>22 DEF Relocated
<1>25. Opened(e.object, a, xs[v], k, num)
  <2>1. ASSUME NEW i \in 0..(k - 1)
        PROVE  e.object[<<a, i>>] = xs[v][i + 1]
    <3>1. i \in 0..(n - 1)
      BY <1>1
    <3>2. <<a, i>> \in Cells(a, 0, k) /\ <<a, i>> \in Cells(a, 0, n)
      BY <3>1 DEF Cells
    <3>3. <<a, i>> \in Lives(m) \ (FirstOf(q, c) \cup FirstOf(p, c))
      BY <1>4, <1>9, <1>22, <3>2
    <3>4. e.object[<<a, i>>] = m.object[<<a, i>>]
      BY <1>16, <3>3 DEF Relocated
    <3> QED  BY <1>4, <1>9, <3>1, <3>4
  <2>2. ASSUME NEW i \in k..(n - 1)
        PROVE  e.object[<<a, i + num>>] = xs[v][i + 1]
    <3>1. PICK j \in 0..(c - 1) : i = n - 1 - j /\ i + num = r - 1 - j /\ i \in 0..(n - 1)
      <4>1. PICK j : j = n - 1 - i
        OBVIOUS
      <4>2. j \in 0..(c - 1) /\ i = n - 1 - j /\ i + num = r - 1 - j /\ i \in 0..(n - 1)
        BY <1>0, <4>1
      <4> QED  BY <4>2
    <3>2. e.object[p[j]] = m.object[q[j]]
      BY <1>16 DEF Relocated
    <3>3. p[j] = <<a, i + num>> /\ q[j] = <<a, i>>
      BY <1>10, <1>12, <3>1
    <3> QED  BY <1>4, <1>9, <3>1, <3>2, <3>3
  <2> QED  BY <1>1, <2>1, <2>2 DEF Opened
<1>26. Laid(e.object, a, ys, k, k + num)
  <2>1. PICK w, f : w = xs[v] /\ f = e.object
    OBVIOUS
  <2>2. Len(w) \in Nat /\ k \in 0..Len(w) /\ Spread(ys, w, k, num) /\ Opened(f, a, w, k, num) /\ num \in Nat
    BY <1>1, <1>25, <2>1
  <2>3. Laid(f, a, ys, k, k + num)
    BY <2>2, SpreadValues
  <2> QED  BY <2>1, <2>3
<1>27. Gapped(Memory, e, v, a, ys, k, k + num)
  BY <1>4, <1>23, <1>24, <1>26 DEF Gapped
<1> QED  BY <1>1, <1>2, <1>11, <1>17, <1>18, <1>27

LEMMA RebasedUsable ==
    ASSUME NEW m, NEW e, NEW v, NEW b, NEW n, NEW c, Rebased(m, e, v, b, n, c)
    PROVE  Usable(m, v, b) /\ Cap(e, b) = c /\ Cap(e, b) \in Nat /\ n <= c
  BY DEF Rebased, Usable

\* s leads from m to vectors at rest that contain r.
Ends(m, s, r, A) == \E e : Runs(m, s, e, A) /\ Rest(e, r, {})

LEMMA EndsConcat ==
    ASSUME NEW m, NEW s, NEW t, NEW e, NEW r, NEW A, Runs(m, s, e, A), Ends(e, t, r, A)
    PROVE  Ends(m, s \o t, r, A)
  BY RunsConcat DEF Ends

\* The missing elements are constructed, and v is at rest.
LEMMA GapClose ==
    ASSUME NEW m, NEW xs, Rest(m, xs, {}), NEW v \in Vectors, NEW b, NEW c, NEW e,
           NEW ys \in Seq(Values), Rebased(m, e, v, b, Len(ys), c),
           NEW k \in Nat, NEW h \in k..Len(ys), Gapped(m, e, v, b, ys, k, h),
           NEW s, NEW n, n = h - k, Building(e, s, b, k, ys, n), NEW r, r = [xs EXCEPT ![v] = ys], NEW A
    PROVE  Ends(e, s, r, A)
<1>1. Usable(m, v, b) /\ Len(ys) <= Cap(e, b) /\ Cap(e, b) \in Nat /\ Len(ys) \in Nat
  BY RebasedUsable
<1>3. PICK d : Runs(e, s, d, A) /\ d.at = e.at /\ d.block = e.block /\ Gapped(m, d, v, b, ys, h, h)
  BY <1>1, GapFill
<1>4. Rebased(m, d, v, b, Len(ys), c)
  BY <1>3 DEF Rebased, Aimed, Cap
<1>5. h \in 0..Len(ys)
  BY <1>1
<1>6. Rest(d, r, {})
  BY <1>3, <1>4, <1>5, GapRest
<1> QED  BY <1>3, <1>6 DEF Ends

LEMMA GrowAtRuns ==
    ASSUME NEW xs, Rest(Memory, xs, {}), NEW v \in Vectors, NEW k \in 0..size(v), NEW num \in Nat \ {0},
           NEW to, Chosen(to, v, size(v) + num), NEW ys, Spread(ys, xs[v], k, num),
           NEW A, Memory \in A
    PROVE  \E e : /\ Runs(Memory, grow_at(v, k, num, to), e, A)
                  /\ Rebased(Memory, e, v, to.ptr, size(v) + num, to.cap)
                  /\ Gapped(Memory, e, v, to.ptr, ys, k, k + num)
<1>1. size(v) + num <= to.cap
  BY DEF Chosen
<1>2. CASE to.ptr = m_begin[v]
  <2>1. to.cap = m_capacity[v]
    <3>1. /\ m_capacity[v] \in Nat \ {0} /\ m_begin[v] \in Blocks \cup {v}
          /\ ~is_static(v) => m_begin[v] \in Blocks \ Vectors /\ block[m_begin[v]] = m_capacity[v]
      BY Found
    <3>2. ~(to.ptr \in Free)
      BY <1>2, <3>1, BuffersAssumption DEF Free, is_static
    <3> QED  BY <1>2, <3>2 DEF Chosen, is_static
  <2>2. PICK e : /\ Runs(Memory, GrowInPlace(v, k, num), e, A)
                 /\ Rebased(Memory, e, v, m_begin[v], size(v) + num, m_capacity[v])
                 /\ Gapped(Memory, e, v, m_begin[v], ys, k, k + num)
    BY <1>1, <2>1, GrowInPlaceRuns
  <2> QED  BY <1>2, <2>1, <2>2 DEF grow_at
<1>3. CASE to.ptr # m_begin[v]
  <2>1. PICK M : M = Memory /\ M.block = block /\ M \in A
    BY DEF Memory
  <2>2. PICK m : Runs(M, to.steps, m, A) /\ m.at = M.at /\ m.object = M.object /\ m.block = OpenBlocks(to)
    BY <2>1, Open
  <2>3. PICK e : /\ Runs(m, GrowElsewhere(v, k, num, to), e, A)
                 /\ Rebased(Memory, e, v, to.ptr, size(v) + num, to.cap)
                 /\ Gapped(Memory, e, v, to.ptr, ys, k, k + num)
    <3>1. num \in Nat /\ m.at = Memory.at /\ m.object = Memory.object
      BY <2>1, <2>2
    <3> QED  BY <1>1, <1>3, <2>2, <3>1, GrowElsewhereRuns
  <2>4. Runs(Memory, to.steps \o GrowElsewhere(v, k, num, to), e, A)
    BY <2>1, <2>2, <2>3, RunsConcat
  <2> QED  BY <1>3, <2>3, <2>4 DEF grow_at
<1> QED  BY <1>2, <1>3

-----------------------------------------------------------------------------
(* Inserting.                                                              *)

\* zs is put into w at k.
Inserted(w, k, zs) == SubSeq(w, 1, k) \o zs \o SubSeq(w, k + 1, Len(w))

LEMMA Joined ==
    ASSUME NEW S, NEW s \in Seq(S), NEW t \in Seq(S)
    PROVE  /\ s \o t \in Seq(S) /\ Len(s \o t) = Len(s) + Len(t)
           /\ \A i \in 1..(Len(s) + Len(t)) : (s \o t)[i] = IF i <= Len(s) THEN s[i] ELSE t[i - Len(s)]
  OBVIOUS

\* ys has w around zs.
Surrounds(ys, w, k, zs, S) ==
    /\ ys \in Seq(S) /\ Len(ys) = Len(w) + Len(zs)
    /\ Spread(ys, w, k, Len(zs))
    /\ \A i \in 0..(Len(zs) - 1) : ys[k + i + 1] = zs[i + 1]

LEMMA InsertedIs ==
    ASSUME NEW S, NEW w \in Seq(S), NEW k \in 0..Len(w), NEW zs \in Seq(S)
    PROVE  Surrounds(Inserted(w, k, zs), w, k, zs, S)
<1>1. Len(w) \in Nat /\ Len(zs) \in Nat /\ k \in Nat
  OBVIOUS
<1>2. PICK a : a = SubSeq(w, 1, k) /\ a \in Seq(S) /\ Len(a) = k /\ \A i \in 1..k : a[i] = w[i]
  <2>1. SubSeq(w, 1, k) \in Seq(S) /\ Len(SubSeq(w, 1, k)) = k /\ \A i \in 1..k : SubSeq(w, 1, k)[i] = w[i]
    BY <1>1
  <2> QED  BY <2>1
<1>3. PICK z : /\ z = SubSeq(w, k + 1, Len(w)) /\ z \in Seq(S) /\ Len(z) = Len(w) - k
               /\ \A i \in 1..(Len(w) - k) : z[i] = w[k + i]
  <2>1. SubSeq(w, k + 1, Len(w)) \in Seq(S) /\ Len(SubSeq(w, k + 1, Len(w))) = Len(w) - k
        /\ \A i \in 1..(Len(w) - k) : SubSeq(w, k + 1, Len(w))[i] = w[k + i]
    BY <1>1
  <2> QED  BY <2>1
<1>4. PICK ys : ys = Inserted(w, k, zs) /\ ys = (a \o zs) \o z
  BY <1>2, <1>3 DEF Inserted
<1>5. /\ a \o zs \in Seq(S) /\ Len(a \o zs) = k + Len(zs)
      /\ \A i \in 1..(k + Len(zs)) : (a \o zs)[i] = IF i <= k THEN a[i] ELSE zs[i - k]
  <2>1. a \in Seq(S) /\ zs \in Seq(S) /\ Len(a) = k
    BY <1>2
  <2>2. a \o zs \in Seq(S) /\ Len(a \o zs) = k + Len(zs)
    BY <2>1
  <2>3. \A i \in 1..(k + Len(zs)) : (a \o zs)[i] = IF i <= k THEN a[i] ELSE zs[i - k]
    BY <2>1
  <2> QED  BY <2>2, <2>3
<1>6. PICK u : /\ u = a \o zs /\ u \in Seq(S) /\ Len(u) = k + Len(zs)
               /\ \A i \in 1..(k + Len(zs)) : u[i] = IF i <= k THEN a[i] ELSE zs[i - k]
  BY <1>5
<1>7. /\ ys \in Seq(S) /\ Len(ys) = Len(w) + Len(zs)
      /\ \A i \in 1..(Len(w) + Len(zs)) : ys[i] = IF i <= k + Len(zs) THEN u[i] ELSE z[i - (k + Len(zs))]
  <2>1. u \in Seq(S) /\ z \in Seq(S) /\ Len(u) = k + Len(zs) /\ Len(z) = Len(w) - k /\ ys = u \o z
    BY <1>3, <1>4, <1>6
  <2>2. ys \in Seq(S) /\ Len(ys) = Len(u) + Len(z)
    <3>1. u \o z \in Seq(S) /\ Len(u \o z) = Len(u) + Len(z)
      BY <2>1, Joined
    <3> QED  BY <2>1, <3>1
  <2>3. \A i \in 1..(Len(u) + Len(z)) : ys[i] = IF i <= Len(u) THEN u[i] ELSE z[i - Len(u)]
    <3>1. \A i \in 1..(Len(u) + Len(z)) : (u \o z)[i] = IF i <= Len(u) THEN u[i] ELSE z[i - Len(u)]
      BY <2>1
    <3> QED  BY <2>1, <3>1
  <2>4. Len(u) + Len(z) = Len(w) + Len(zs)
    BY <1>1, <2>1
  <2> QED  BY <2>1, <2>2, <2>3, <2>4
<1>8. ASSUME NEW i \in 0..(k - 1)
      PROVE  ys[i + 1] = w[i + 1]
  <2>1. PICK j : j = i + 1
    OBVIOUS
  <2>2. j \in 1..k /\ j \in 1..(k + Len(zs)) /\ j <= k /\ j <= k + Len(zs) /\ j \in 1..(Len(w) + Len(zs))
    BY <1>1, <2>1
  <2>3. ys[j] = u[j] /\ u[j] = a[j] /\ a[j] = w[j]
    BY <1>2, <1>6, <1>7, <2>2
  <2> QED  BY <2>1, <2>3
<1>9. ASSUME NEW i \in k..(Len(w) - 1)
      PROVE  ys[i + Len(zs) + 1] = w[i + 1]
  <2>1. PICK j, g : j = i + Len(zs) + 1 /\ g = i + 1 - k
    OBVIOUS
  <2>2. /\ j \in 1..(Len(w) + Len(zs)) /\ ~(j <= k + Len(zs)) /\ j - (k + Len(zs)) = g
        /\ g \in 1..(Len(w) - k) /\ k + g = i + 1
    <3>1. i \in Nat /\ k <= i /\ i < Len(w)
      BY <1>1
    <3>2. j \in Nat /\ g \in Nat /\ j >= 1 /\ g >= 1
      BY <1>1, <2>1, <3>1
    <3> QED  BY <1>1, <2>1, <3>1, <3>2
  <2>3. ys[j] = z[g] /\ z[g] = w[i + 1]
    <3>1. z[g] = w[k + g]
      BY <1>3, <2>2
    <3>2. ys[j] = z[j - (k + Len(zs))]
      BY <1>7, <2>2
    <3> QED  BY <2>2, <3>1, <3>2
  <2> QED  BY <2>1, <2>3
<1>10. ASSUME NEW i \in 0..(Len(zs) - 1)
       PROVE  ys[k + i + 1] = zs[i + 1]
  <2>1. PICK j : j = k + i + 1
    OBVIOUS
  <2>2. j \in 1..(Len(w) + Len(zs)) /\ j <= k + Len(zs) /\ j \in 1..(k + Len(zs)) /\ ~(j <= k) /\ j - k = i + 1
    BY <1>1, <2>1
  <2>3. ys[j] = u[j] /\ u[j] = zs[j - k]
    BY <1>6, <1>7, <2>2
  <2> QED  BY <2>1, <2>2, <2>3
<1>11. Spread(ys, w, k, Len(zs))
  BY <1>7, <1>8, <1>9 DEF Spread
<1>12. Surrounds(ys, w, k, zs, S)
  <2>1. ys \in Seq(S) /\ Len(ys) = Len(w) + Len(zs)
    BY <1>7
  <2>2. \A i \in 0..(Len(zs) - 1) : ys[k + i + 1] = zs[i + 1]
    BY <1>10
  <2> QED  BY <1>11, <2>1, <2>2 DEF Surrounds
<1> QED  BY <1>4, <1>12

\* The elements that insert constructs.
Puts(to, k, zs) == Steps(Len(zs), LAMBDA i : Put(<<to.ptr, k + i>>, zs[i + 1]))
Copies(v, i, to, k, num) == Steps(num, LAMBDA j : Copy(At(v, i), <<to.ptr, k + j>>))

\* The steps s, n of them, construct zs from k, or copies of what is at `from'.
Putting(s, b, k, zs, n) ==
    IsSequence(s) /\ Len(s) = n /\ \A i \in 0..(n - 1) : s[i + 1] = Put(<<b, k + i>>, zs[i + 1])
Copying(s, b, k, from, n) ==
    IsSequence(s) /\ Len(s) = n /\ \A i \in 0..(n - 1) : s[i + 1] = Copy(from, <<b, k + i>>)

LEMMA PutsAre ==
    ASSUME NEW to, NEW k, NEW zs, NEW n \in Nat, n = Len(zs), NEW s, s = Puts(to, k, zs), NEW b, b = to.ptr
    PROVE  Putting(s, b, k, zs, n)
<1>1. s = [i \in 1..n |-> Put(<<b, k + (i - 1)>>, zs[(i - 1) + 1])]
  BY DEF Puts, Steps
<1>2. s = [i \in 1..n |-> s[i]]
  BY <1>1
<1>3. \A i \in 0..(n - 1) : i + 1 \in 1..n /\ (i + 1) - 1 = i
  OBVIOUS
<1>4. IsSequence(s) /\ Len(s) = n
  BY <1>2, SequenceIs
<1> QED  BY <1>1, <1>3, <1>4 DEF Putting

LEMMA CopiesAre ==
    ASSUME NEW v, NEW at, NEW to, NEW k, NEW n \in Nat, NEW s, s = Copies(v, at, to, k, n), NEW b, b = to.ptr,
           NEW a, a = m_begin[v]
    PROVE  Copying(s, b, k, <<a, at>>, n)
<1>1. s = [i \in 1..n |-> Copy(<<a, at>>, <<b, k + (i - 1)>>)]
  BY DEF Copies, Steps, At
<1>2. s = [i \in 1..n |-> s[i]]
  BY <1>1
<1>3. \A i \in 0..(n - 1) : i + 1 \in 1..n /\ (i + 1) - 1 = i
  OBVIOUS
<1>4. IsSequence(s) /\ Len(s) = n
  BY <1>2, SequenceIs
<1> QED  BY <1>1, <1>3, <1>4 DEF Copying

LEMMA InsertRuns ==
    ASSUME NEW xs, Rest(Memory, xs, {}), NEW v \in Vectors, NEW k \in 0..size(v),
           NEW zs \in Seq(Values), zs # <<>>, NEW to, Chosen(to, v, size(v) + Len(zs)), NEW A, Memory \in A
    PROVE  Ends(Memory, grow_at(v, k, Len(zs), to) \o Puts(to, k, zs),
                [xs EXCEPT ![v] = Inserted(xs[v], k, zs)], A)
<1>1. PICK num \in Nat \ {0} : num = Len(zs)
  OBVIOUS
<1>2. PICK w : w = xs[v] /\ w \in Seq(Values) /\ Len(w) = size(v) /\ size(v) \in Nat
  BY Found, FoundElements
<1>3. PICK ys : ys = Inserted(w, k, zs)
  OBVIOUS
<1>4. /\ ys \in Seq(Values) /\ Len(ys) = size(v) + num /\ Spread(ys, w, k, num)
      /\ \A i \in 0..(num - 1) : ys[k + i + 1] = zs[i + 1]
  <2>1. Surrounds(ys, w, k, zs, Values)
    BY <1>1, <1>2, <1>3, InsertedIs
  <2> QED  BY <1>1, <1>2, <2>1 DEF Surrounds
<1>5. PICK e : /\ Runs(Memory, grow_at(v, k, num, to), e, A)
               /\ Rebased(Memory, e, v, to.ptr, Len(ys), to.cap)
               /\ Gapped(Memory, e, v, to.ptr, ys, k, k + num)
  BY <1>1, <1>2, <1>4, GrowAtRuns
<1>6. PICK s, b : s = Puts(to, k, zs) /\ b = to.ptr
  OBVIOUS
<1>7. /\ IsSequence(s) /\ Len(s) = num
      /\ \A i \in 0..(num - 1) : s[i + 1] = Put(<<b, k + i>>, zs[i + 1])
  <2>1. num \in Nat
    OBVIOUS
  <2>2. Putting(s, b, k, zs, num)
    BY <1>1, <1>6, <2>1, PutsAre
  <2> QED  BY <2>2 DEF Putting
<1>8. \A i \in 0..(num - 1) : Builds(e, s[i + 1], <<b, k + i>>, ys[k + i + 1])
  BY <1>4, <1>7 DEF Builds
<1>9. PICK h : h = k + num /\ k \in Nat /\ h \in k..Len(ys) /\ num = h - k
  BY <1>1, <1>2, <1>4
<1>10. PICK r : r = [xs EXCEPT ![v] = ys]
  OBVIOUS
<1>11. Ends(e, s, r, A)
  <2>1. Rebased(Memory, e, v, b, Len(ys), to.cap) /\ Gapped(Memory, e, v, b, ys, k, h)
    BY <1>5, <1>6, <1>9
  <2>2. Building(e, s, b, k, ys, num)
    BY <1>7, <1>8 DEF Building
  <2> QED  BY <1>4, <1>9, <1>10, <2>1, <2>2, GapClose
<1> QED  BY <1>1, <1>2, <1>3, <1>5, <1>6, <1>10, <1>11, EndsConcat

\* An element of v that is still where it was is inserted.
LEMMA InsertOwnRuns ==
    ASSUME NEW xs, Rest(Memory, xs, {}), NEW v \in Vectors, NEW k \in 0..size(v), NEW at \in 0..(size(v) - 1),
           NEW num \in Nat \ {0}, NEW to, Chosen(to, v, size(v) + num), to.ptr = m_begin[v],
           at \notin k..(k + num - 1), NEW zs,
           zs = [j \in 1..num |-> xs[v][(IF at < k THEN at ELSE at - num) + 1]], NEW A, Memory \in A
    PROVE  Ends(Memory, grow_at(v, k, num, to) \o Copies(v, at, to, k, num),
                [xs EXCEPT ![v] = Inserted(xs[v], k, zs)], A)
<1>1. PICK w : w = xs[v] /\ w \in Seq(Values) /\ Len(w) = size(v) /\ size(v) \in Nat
  BY Found, FoundElements
<1>2. PICK read \in 0..(size(v) - 1) : read = IF at < k THEN at ELSE at - num
  <2>1. at < k \/ at >= k + num
    BY <1>1
  <2>2. (IF at < k THEN at ELSE at - num) \in 0..(size(v) - 1)
    BY <1>1, <2>1
  <2> QED  BY <2>2
<1>3. zs \in Seq(Values) /\ Len(zs) = num /\ \A i \in 0..(num - 1) : zs[i + 1] = w[read + 1]
  <2>1. w[read + 1] \in Values
    BY <1>1, <1>2
  <2>2. zs = [j \in 1..num |-> w[read + 1]]
    BY <1>1, <1>2
  <2>3. zs \in [1..num -> Values] /\ num \in Nat
    BY <2>1, <2>2
  <2>4. zs \in Seq(Values) /\ Len(zs) = num
    BY <2>3
  <2>5. \A i \in 0..(num - 1) : i + 1 \in 1..num
    OBVIOUS
  <2> QED  BY <2>2, <2>4, <2>5
<1>4. PICK ys : ys = Inserted(w, k, zs)
  OBVIOUS
<1>5. /\ ys \in Seq(Values) /\ Len(ys) = size(v) + num /\ Spread(ys, w, k, num)
      /\ \A i \in 0..(num - 1) : ys[k + i + 1] = zs[i + 1]
  <2>1. Surrounds(ys, w, k, zs, Values)
    BY <1>1, <1>3, <1>4, InsertedIs
  <2> QED  BY <1>1, <1>3, <2>1 DEF Surrounds
<1>6. PICK e : /\ Runs(Memory, grow_at(v, k, num, to), e, A)
               /\ Rebased(Memory, e, v, to.ptr, Len(ys), to.cap)
               /\ Gapped(Memory, e, v, to.ptr, ys, k, k + num)
  BY <1>1, <1>5, GrowAtRuns
<1>7. PICK s, b : s = Copies(v, at, to, k, num) /\ b = to.ptr /\ b = m_begin[v]
  OBVIOUS
<1>8. /\ IsSequence(s) /\ Len(s) = num
      /\ \A i \in 0..(num - 1) : s[i + 1] = Copy(<<b, at>>, <<b, k + i>>)
  <2>1. num \in Nat
    OBVIOUS
  <2>2. Copying(s, b, k, <<b, at>>, num)
    BY <1>7, <2>1, CopiesAre
  <2> QED  BY <2>2 DEF Copying
<1>9. <<b, at>> \in Lives(e) /\ e.object[<<b, at>>] = w[read + 1]
  <2>1. CASE at < k
    <3>1. at \in 0..(k - 1) /\ read = at
      BY <1>2, <2>1
    <3>2. <<b, at>> \in Lives(e) /\ e.object[<<b, at>>] = ys[at + 1]
      BY <1>6, <1>7, <3>1 DEF Gapped, Laid, Cells
    <3> QED  BY <1>5, <3>1, <3>2 DEF Spread
  <2>2. CASE ~(at < k)
    <3>1. at \in (k + num)..(Len(ys) - 1) /\ read \in k..(Len(w) - 1) /\ at = read + num
      <4>1. at >= k + num /\ read = at - num
        BY <1>1, <1>2, <2>2
      <4>2. at \in Nat /\ k \in Nat /\ num \in Nat /\ at < size(v)
        BY <1>1
      <4>3. Len(ys) = size(v) + num /\ Len(w) = size(v) /\ size(v) \in Nat
        BY <1>1, <1>5
      <4>4. PICK sz \in Nat : sz = size(v)
        BY <4>3
      <4>5. at < sz /\ Len(ys) = sz + num /\ Len(w) = sz
        BY <4>2, <4>3, <4>4
      <4>6. read \in Nat /\ read >= k /\ read < sz /\ at = read + num
        BY <4>1, <4>2, <4>4, <4>5
      <4>7. at \in (k + num)..(sz + num - 1) /\ read \in k..(sz - 1)
        BY <4>1, <4>2, <4>5, <4>6
      <4> QED  BY <4>5, <4>6, <4>7
    <3>2. <<b, at>> \in Lives(e) /\ e.object[<<b, at>>] = ys[at + 1]
      BY <1>6, <1>7, <3>1 DEF Gapped, Laid, Cells
    <3>3. ys[read + num + 1] = w[read + 1]
      BY <1>5, <3>1 DEF Spread
    <3> QED  BY <3>1, <3>2, <3>3
  <2> QED  BY <2>1, <2>2
<1>10. \A i \in 0..(num - 1) : Builds(e, s[i + 1], <<b, k + i>>, ys[k + i + 1])
  BY <1>3, <1>5, <1>8, <1>9 DEF Builds
<1>11. PICK h : h = k + num /\ k \in Nat /\ h \in k..Len(ys) /\ num = h - k
  BY <1>1, <1>5
<1>12. PICK r : r = [xs EXCEPT ![v] = ys]
  OBVIOUS
<1>13. Ends(e, s, r, A)
  <2>1. Rebased(Memory, e, v, b, Len(ys), to.cap) /\ Gapped(Memory, e, v, b, ys, k, h)
    BY <1>6, <1>7, <1>11
  <2>2. Building(e, s, b, k, ys, num)
    BY <1>8, <1>10 DEF Building
  <2> QED  BY <1>5, <1>11, <1>12, <2>1, <2>2, GapClose
<1> QED  BY <1>1, <1>4, <1>6, <1>7, <1>12, <1>13, EndsConcat

\* One that is not is read where nothing is alive.
LEMMA InsertOwnHalts ==
    ASSUME NEW xs, Rest(Memory, xs, {}), NEW v \in Vectors, NEW k \in 0..size(v), NEW at \in 0..(size(v) - 1),
           NEW num \in Nat \ {0}, NEW to, Chosen(to, v, size(v) + num),
           to.ptr # m_begin[v] \/ at \in k..(k + num - 1), NEW A, Memory \in A
    PROVE  Halts(Memory, grow_at(v, k, num, to) \o Copies(v, at, to, k, num), A)
<1>1. PICK w : w = xs[v] /\ w \in Seq(Values) /\ Len(w) = size(v) /\ size(v) \in Nat
  BY Found, FoundElements
<1>2. PICK zs : zs \in Seq(Values) /\ Len(zs) = num
  <2>1. w[at + 1] \in Values
    BY <1>1
  <2>2. [j \in 1..num |-> w[at + 1]] \in [1..num -> Values]
    BY <2>1
  <2>3. [j \in 1..num |-> w[at + 1]] \in Seq(Values) /\ Len([j \in 1..num |-> w[at + 1]]) = num
    BY <2>2
  <2> QED  BY <2>3
<1>3. PICK ys : ys = Inserted(w, k, zs)
  OBVIOUS
<1>4. ys \in Seq(Values) /\ Len(ys) = size(v) + num /\ Spread(ys, w, k, num)
  <2>1. Surrounds(ys, w, k, zs, Values)
    BY <1>1, <1>2, <1>3, InsertedIs
  <2> QED  BY <1>1, <1>2, <2>1 DEF Surrounds
<1>5. PICK e : /\ Runs(Memory, grow_at(v, k, num, to), e, A)
               /\ Rebased(Memory, e, v, to.ptr, Len(ys), to.cap)
               /\ Gapped(Memory, e, v, to.ptr, ys, k, k + num)
  BY <1>1, <1>4, GrowAtRuns
<1>6. PICK s, b, a : s = Copies(v, at, to, k, num) /\ b = to.ptr /\ a = m_begin[v]
  OBVIOUS
<1>7. /\ IsSequence(s) /\ Len(s) = num
      /\ \A i \in 0..(num - 1) : s[i + 1] = Copy(<<a, at>>, <<b, k + i>>)
  <2>1. num \in Nat
    OBVIOUS
  <2>2. Copying(s, b, k, <<a, at>>, num)
    BY <1>6, <2>1, CopiesAre
  <2> QED  BY <2>2 DEF Copying
<1>8. <<a, at>> \notin Lives(e)
  <2>1. CASE b # a
    <3>1. <<a, at>> \in Elements(Memory, v)
      BY <1>1, <1>6, FoundElements DEF Cells
    <3>2. <<a, at>> \notin Cells(b, 0, k) /\ <<a, at>> \notin Cells(b, k + num, Len(ys))
      BY <2>1 DEF Cells
    <3> QED  BY <1>5, <1>6, <3>1, <3>2 DEF Gapped
  <2>2. CASE b = a
    <3>1. PICK h : h = k + num /\ k \in Nat /\ h \in k..Len(ys) /\ at \in k..(h - 1)
      BY <1>1, <1>4, <1>6, <2>2
    <3>2. Gapped(Memory, e, v, b, ys, k, h) /\ Usable(Memory, v, b) /\ Len(ys) \in Nat
      BY <1>4, <1>5, <1>6, <3>1, RebasedUsable
    <3> QED  BY <2>2, <3>1, <3>2, GapFree
  <2> QED  BY <2>1, <2>2
<1>9. Faulty(e, s[1]) /\ Len(s) > 0
  <2>1. 0 \in 0..(num - 1) /\ 0 + 1 = 1 /\ num > 0
    OBVIOUS
  <2>2. s[1] = Copy(<<a, at>>, <<b, k + 0>>)
    BY <1>7, <2>1
  <2> QED  BY <1>7, <1>8, <2>1, <2>2 DEF Faulty, Copy
<1> QED  BY <1>5, <1>6, <1>7, <1>9, HaltsNow, HaltsConcat

-----------------------------------------------------------------------------
(* Reserving and resizing.                                                 *)

LEMMA HaltsNext ==
    ASSUME NEW m, NEW s, NEW e, NEW A, IsSequence(s), Len(s) > 1, Takes(m, s[1], e, A), Faulty(e, s[2])
    PROVE  Halts(m, s, A)
<1> DEFINE f == [i \in 0..1 |-> IF i = 0 THEN m ELSE e]
<1>1. Path(f, m, s, 1, A)
  <2>1. f[0] = m /\ f[1] = e
    OBVIOUS
  <2>2. ASSUME NEW i \in 1..1
        PROVE  Takes(f[i - 1], s[i], f[i], A)
    <3>1. i = 1 /\ i - 1 = 0
      OBVIOUS
    <3> QED  BY <2>1, <3>1
  <2> QED  BY <2>1, <2>2 DEF Path
<1>2. Len(s) \in Nat
  BY DEF IsSequence
<1>3. 1 \in 0..(Len(s) - 1) /\ f[1] = e /\ 1 + 1 = 2
  BY <1>2
<1>4. PICK g : g = f
  OBVIOUS
<1>5. Path(g, m, s, 1, A) /\ Faulty(g[1], s[1 + 1])
  BY <1>1, <1>3, <1>4
<1> QED  BY <1>3, <1>5 DEF Halts

LEMMA GapCountClose ==
    ASSUME NEW m, NEW xs, Rest(m, xs, {}), NEW v \in Vectors, NEW b, NEW c, NEW e,
           NEW ys \in Seq(Values), NEW k \in 0..Len(ys), Rebased(m, e, v, b, k, c), Len(ys) <= c,
           Gapped(m, e, v, b, ys, k, Len(ys)),
           NEW s, NEW n, n = Len(ys) - k, Counting(e, s, v, b, b, k, ys, n, c),
           NEW r, r = [xs EXCEPT ![v] = ys], NEW A
    PROVE  Ends(e, s, r, A)
<1>1. Usable(m, v, b) /\ Cap(e, b) = c /\ Cap(e, b) \in Nat /\ Len(ys) \in Nat
  BY RebasedUsable
<1>2. PICK h : h = Len(ys) /\ h \in k..Len(ys) /\ k \in Nat /\ h \in 0..Len(ys)
  BY <1>1
<1>3. Aimed(e, e, v, Place(b, <<b, k>>, c))
  BY DEF Rebased, Aimed
<1>4. PICK d : /\ Runs(e, s, d, A) /\ Aimed(e, d, v, Place(b, <<b, h>>, c)) /\ d.block = e.block
               /\ Gapped(m, d, v, b, ys, h, h)
  <2>1. Counting(e, s, v, b, b, k, ys, n, c) /\ n = h - k
    BY <1>2
  <2>2. Gapped(m, e, v, b, ys, k, h) /\ Len(ys) <= Cap(e, b)
    BY <1>1, <1>2
  <2> QED  BY <1>1, <1>2, <1>3, <2>1, <2>2, GapCount
<1>5. Rebased(m, d, v, b, Len(ys), c)
  <2>1. Aimed(m, d, v, Place(b, <<b, h>>, c))
    BY <1>4 DEF Rebased, Aimed
  <2>2. c = Cap(d, b)
    BY <1>1, <1>4 DEF Cap
  <2> QED  BY <1>1, <1>2, <1>4, <2>1, <2>2 DEF Rebased
<1>6. Rest(d, r, {})
  BY <1>2, <1>4, <1>5, GapRest
<1> QED  BY <1>4, <1>6 DEF Ends

\* A vector to whose elements num are to be added.
LEMMA GapMore ==
    ASSUME NEW m, NEW e, NEW v, NEW b, NEW w, Len(w) \in Nat, Gapped(m, e, v, b, w, Len(w), Len(w)),
           NEW num \in Nat, NEW ys, Spread(ys, w, Len(w), num)
    PROVE  Gapped(m, e, v, b, ys, Len(w), Len(w) + num)
<1>1. PICK n \in Nat : n = Len(w) /\ Len(ys) = n + num
  BY DEF Spread
<1>2. Cells(b, n, n) = {} /\ Cells(b, n + num, n + num) = {}
  BY NoCells
<1>3. Laid(e.object, b, ys, n, n + num)
  <2>1. \A i \in 0..(n - 1) : e.object[<<b, i>>] = ys[i + 1]
    BY <1>1 DEF Gapped, Laid, Spread
  <2>2. (n + num)..(Len(ys) - 1) = {}
    BY <1>1
  <2> QED  BY <2>1, <2>2 DEF Laid
<1> QED  BY <1>1, <1>2, <1>3 DEF Gapped

LEMMA SpreadSelf ==
    ASSUME NEW w, Len(w) \in Nat
    PROVE  Spread(w, w, Len(w), 0)
  BY DEF Spread

LEMMA ReserveRuns ==
    ASSUME NEW xs, Rest(Memory, xs, {}), NEW v \in Vectors, NEW n \in Nat, NEW b \in Free,
           NEW to, to = Reserved(v, n, b), NEW num \in Nat, NEW ys, Spread(ys, xs[v], size(v), num),
           NEW A, Memory \in A
    PROVE  \E e : /\ Runs(Memory, reserve(v, n, to), e, A)
                  /\ Rebased(Memory, e, v, to.ptr, size(v), to.cap)
                  /\ Gapped(Memory, e, v, to.ptr, ys, size(v), size(v) + num)
<1>1. PICK w : w = xs[v] /\ w \in Seq(Values) /\ Len(w) = size(v) /\ size(v) \in Nat
  BY Found, FoundElements
<1>2. /\ m_begin[v] \in Blocks \cup {v} /\ m_capacity[v] \in Nat \ {0} /\ size(v) <= m_capacity[v]
      /\ ~is_static(v) => m_begin[v] \in Blocks \ Vectors /\ block[m_begin[v]] = m_capacity[v]
      /\ is_static(v) => m_capacity[v] = StaticCapacity
      /\ m_end[v] = <<m_begin[v], size(v)>>
  BY Found
<1>3. PICK e : /\ Runs(Memory, reserve(v, n, to), e, A)
               /\ Rebased(Memory, e, v, to.ptr, size(v), to.cap)
               /\ Gapped(Memory, e, v, to.ptr, w, size(v), size(v))
  <2>1. CASE n <= m_capacity[v]
    <3>1. to.ptr = m_begin[v] /\ to.cap = m_capacity[v] /\ reserve(v, n, to) = <<>>
      BY <2>1 DEF Reserved, reserve
    <3>2. Runs(Memory, reserve(v, n, to), Memory, A)
      BY <3>1, RunsNone
    <3>3. Aimed(Memory, Memory, v, Place(m_begin[v], <<m_begin[v], size(v)>>, m_capacity[v]))
      <4>1. Memory.at[v] = Place(m_begin[v], <<m_begin[v], size(v)>>, m_capacity[v])
        BY <1>2 DEF Memory
      <4>2. Aimed(Memory, Memory, v, Memory.at[v])
        BY AimedAt
      <4> QED  BY <4>1, <4>2
    <3>4. Memory.block = block
      BY DEF Memory
    <3>5. Rebased(Memory, Memory, v, m_begin[v], size(v), m_capacity[v])
      BY <1>1, <1>2, <3>3, <3>4, Stay
    <3>6. Gapped(Memory, Memory, v, m_begin[v], w, size(v), size(v))
      <4>1. /\ Elements(Memory, v) = Cells(m_begin[v], 0, size(v)) /\ Elements(Memory, v) \subseteq Lives(Memory)
            /\ \A i \in 0..(size(v) - 1) : Memory.object[<<m_begin[v], i>>] = w[i + 1]
        BY <1>1, FoundElements
      <4>2. Cells(m_begin[v], size(v), size(v)) = {} /\ size(v)..(size(v) - 1) = {}
        BY <1>1, NoCells
      <4> QED  BY <1>1, <4>1, <4>2 DEF Gapped, Laid
    <3> QED  BY <3>1, <3>2, <3>5, <3>6
  <2>2. CASE ~(n <= m_capacity[v])
    <3>1. to = choose_data(v, n, b) /\ reserve(v, n, to) = to.steps \o GrowElsewhere(v, size(v), 0, to)
      BY <2>2 DEF Reserved, reserve
    <3>2. Chosen(to, v, n)
      BY <3>1, ChooseData
    <3>3. to.ptr = b
      BY <1>2, <2>2, <3>1 DEF choose_data
    <3>4. to.ptr # m_begin[v]
      BY <1>2, <3>3, BuffersAssumption DEF Free, is_static
    <3>5. size(v) + 0 <= to.cap /\ size(v) + 0 = size(v) /\ 0 \in Nat /\ size(v) \in 0..size(v)
      BY <1>1, <1>2, <2>2, <3>2 DEF Chosen
    <3>6. PICK M : M = Memory /\ M.block = block /\ M \in A
      BY DEF Memory
    <3>7. PICK m : Runs(M, to.steps, m, A) /\ m.at = M.at /\ m.object = M.object /\ m.block = OpenBlocks(to)
      BY <3>2, <3>6, Open
    <3>8. Spread(w, xs[v], size(v), 0)
      BY <1>1, SpreadSelf
    <3>9. PICK e : /\ Runs(m, GrowElsewhere(v, size(v), 0, to), e, A)
                   /\ Rebased(Memory, e, v, to.ptr, size(v), to.cap)
                   /\ Gapped(Memory, e, v, to.ptr, w, size(v), size(v))
      <4>1. m.at = Memory.at /\ m.object = Memory.object
        BY <3>6, <3>7
      <4>2. PICK e : /\ Runs(m, GrowElsewhere(v, size(v), 0, to), e, A)
                     /\ Rebased(Memory, e, v, to.ptr, size(v) + 0, to.cap)
                     /\ Gapped(Memory, e, v, to.ptr, w, size(v), size(v) + 0)
        BY <3>2, <3>4, <3>5, <3>7, <3>8, <4>1, GrowElsewhereRuns
      <4> QED  BY <3>5, <4>2
    <3>10. Runs(Memory, to.steps \o GrowElsewhere(v, size(v), 0, to), e, A)
      BY <3>6, <3>7, <3>9, RunsConcat
    <3> QED  BY <3>1, <3>9, <3>10
  <2> QED  BY <2>1, <2>2
<1>4. Gapped(Memory, e, v, to.ptr, ys, size(v), size(v) + num)
  <2>1. Len(w) \in Nat /\ Gapped(Memory, e, v, to.ptr, w, Len(w), Len(w)) /\ Spread(ys, w, Len(w), num)
    BY <1>1, <1>3
  <2>2. Gapped(Memory, e, v, to.ptr, ys, Len(w), Len(w) + num)
    BY <2>1, GapMore
  <2> QED  BY <1>1, <2>2
<1> QED  BY <1>3, <1>4

\* Reserving is enough when nothing is added.
LEMMA ReserveEnds ==
    ASSUME NEW xs, Rest(Memory, xs, {}), NEW v \in Vectors, NEW n \in Nat, NEW b \in Free,
           NEW A, Memory \in A
    PROVE  Ends(Memory, reserve(v, n, Reserved(v, n, b)), [xs EXCEPT ![v] = xs[v]], A)
<1>1. PICK w : w = xs[v] /\ w \in Seq(Values) /\ Len(w) = size(v) /\ size(v) \in Nat
  BY Found, FoundElements
<1>2. PICK to : to = Reserved(v, n, b)
  OBVIOUS
<1>3. Spread(w, xs[v], size(v), 0) /\ 0 \in Nat
  BY <1>1, SpreadSelf
<1>4. PICK e : /\ Runs(Memory, reserve(v, n, to), e, A)
               /\ Rebased(Memory, e, v, to.ptr, size(v), to.cap)
               /\ Gapped(Memory, e, v, to.ptr, w, size(v), size(v) + 0)
  BY <1>2, <1>3, ReserveRuns
<1>5. PICK k : k = size(v) /\ k \in 0..Len(w) /\ k = Len(w) /\ k + 0 = k
  BY <1>1
<1>6. Gapped(Memory, e, v, to.ptr, w, k, k) /\ Rebased(Memory, e, v, to.ptr, Len(w), to.cap)
  BY <1>4, <1>5
<1>7. Rest(e, [xs EXCEPT ![v] = w], {})
  BY <1>1, <1>5, <1>6, GapRest
<1> QED  BY <1>1, <1>2, <1>4, <1>7 DEF Ends

\* The elements that resize constructs.
CountedPuts(v, s, n, to, x) ==
    Alternate(n - s, LAMBDA i : Point(v, to.ptr, <<to.ptr, s + i + 1>>, to.cap),
                     LAMBDA i : Put(<<to.ptr, s + i>>, x))
CountedCopies(v, at, s, n, to) ==
    Alternate(n - s, LAMBDA j : Point(v, to.ptr, <<to.ptr, s + j + 1>>, to.cap),
                     LAMBDA j : Copy(At(v, at), <<to.ptr, s + j>>))

\* The steps t point and then construct.
Pairs(t, v, b, s, c, n, S, x) ==
    /\ IsSequence(t) /\ Len(t) = 2 * n
    /\ \A i \in 0..(n - 1) : /\ t[2 * i + 1] = Point(v, b, <<b, s + i + 1>>, c)
                             /\ t[2 * i + 2] = IF S = "put" THEN Put(<<b, s + i>>, x) ELSE Copy(x, <<b, s + i>>)

LEMMA CountedPutsAre ==
    ASSUME NEW v, NEW s \in Nat, NEW n \in Nat, NEW g \in Nat, g = n - s, NEW to, NEW x, NEW b, b = to.ptr,
           NEW c, c = to.cap
    PROVE  Pairs(CountedPuts(v, s, n, to, x), v, b, s, c, g, "put", x)
<1>1. PICK t : t = CountedPuts(v, s, n, to, x)
  OBVIOUS
<1>2. t = [i \in 1..(2 * g) |->
              IF i % 2 = 1 THEN Point(v, b, <<b, s + (i \div 2) + 1>>, c) ELSE Put(<<b, s + (i \div 2 - 1)>>, x)]
  BY <1>1 DEF CountedPuts, Alternate
<1>3. t = [i \in 1..(2 * g) |-> t[i]] /\ 2 * g \in Nat
  BY <1>2
<1>4. IsSequence(t) /\ Len(t) = 2 * g
  BY <1>3, SequenceIs
<1>5. ASSUME NEW i \in 0..(g - 1)
      PROVE  t[2 * i + 1] = Point(v, b, <<b, s + i + 1>>, c) /\ t[2 * i + 2] = Put(<<b, s + i>>, x)
  <2>1. PICK y, z : y = 2 * i + 1 /\ z = 2 * i + 2
    OBVIOUS
  <2>2. y \in 1..(2 * g) /\ z \in 1..(2 * g) /\ y % 2 = 1 /\ y \div 2 = i /\ z % 2 # 1 /\ z \div 2 - 1 = i
    BY <2>1, Halves
  <2>3. t[y] = Point(v, b, <<b, s + i + 1>>, c) /\ t[z] = Put(<<b, s + i>>, x)
    BY <1>2, <2>2
  <2> QED  BY <2>1, <2>3
<1> QED  BY <1>1, <1>4, <1>5 DEF Pairs

LEMMA CountedCopiesAre ==
    ASSUME NEW v, NEW s \in Nat, NEW n \in Nat, NEW g \in Nat, g = n - s, NEW to, NEW at, NEW b, b = to.ptr,
           NEW c, c = to.cap, NEW a, a = m_begin[v]
    PROVE  Pairs(CountedCopies(v, at, s, n, to), v, b, s, c, g, "copy", <<a, at>>)
<1>1. PICK t : t = CountedCopies(v, at, s, n, to)
  OBVIOUS
<1>2. t = [i \in 1..(2 * g) |->
              IF i % 2 = 1 THEN Point(v, b, <<b, s + (i \div 2) + 1>>, c)
                           ELSE Copy(<<a, at>>, <<b, s + (i \div 2 - 1)>>)]
  BY <1>1 DEF CountedCopies, Alternate, At
<1>3. t = [i \in 1..(2 * g) |-> t[i]] /\ 2 * g \in Nat
  BY <1>2
<1>4. IsSequence(t) /\ Len(t) = 2 * g
  BY <1>3, SequenceIs
<1>5. ASSUME NEW i \in 0..(g - 1)
      PROVE  t[2 * i + 1] = Point(v, b, <<b, s + i + 1>>, c) /\ t[2 * i + 2] = Copy(<<a, at>>, <<b, s + i>>)
  <2>1. PICK y, z : y = 2 * i + 1 /\ z = 2 * i + 2
    OBVIOUS
  <2>2. y \in 1..(2 * g) /\ z \in 1..(2 * g) /\ y % 2 = 1 /\ y \div 2 = i /\ z % 2 # 1 /\ z \div 2 - 1 = i
    BY <2>1, Halves
  <2>3. t[y] = Point(v, b, <<b, s + i + 1>>, c) /\ t[z] = Copy(<<a, at>>, <<b, s + i>>)
    BY <1>2, <2>2
  <2> QED  BY <2>1, <2>3
<1> QED  BY <1>1, <1>4, <1>5 DEF Pairs

\* Both construct copies of a value.
LEMMA PairsCount ==
    ASSUME NEW t, NEW v, NEW b, NEW s \in Nat, NEW c, NEW g \in Nat, NEW S, NEW y, Pairs(t, v, b, s, c, g, S, y),
           NEW e, NEW ys, NEW x, S = "put" => y = x, S # "put" => y \in Lives(e) /\ e.object[y] = x,
           \A i \in 0..(g - 1) : ys[s + i + 1] = x
    PROVE  Counting(e, t, v, b, b, s, ys, g, c)
<1>1. ASSUME NEW i \in 0..(g - 1)
      PROVE  /\ t[2 * i + 1] = Point(v, b, <<b, s + i + 1>>, c)
             /\ Builds(e, t[2 * i + 2], <<b, s + i>>, ys[s + i + 1])
  <2>1. CASE S = "put"
    BY <2>1 DEF Pairs, Builds
  <2>2. CASE S # "put"
    BY <2>2 DEF Pairs, Builds
  <2> QED  BY <2>1, <2>2
<1> QED  BY <1>1 DEF Counting, Pairs

\* w, with copies of x after it.
Stretched(w, n, x) == [i \in 1..n |-> IF i <= Len(w) THEN w[i] ELSE x]

\* ys, of n elements, is the s of w and g times x.
Lengthens(ys, w, s, g, n, x, S) ==
    ys \in Seq(S) /\ Len(ys) = n /\ Spread(ys, w, s, g) /\ \A i \in 0..(g - 1) : ys[s + i + 1] = x

LEMMA StretchedIs ==
    ASSUME NEW S, NEW w \in Seq(S), NEW n \in Nat, NEW x \in S, NEW s, s = Len(w), NEW g \in Nat, g = n - s
    PROVE  Lengthens(Stretched(w, n, x), w, s, g, n, x, S)
<1>1. PICK ys, k : ys = Stretched(w, n, x) /\ k = Len(w) /\ k \in Nat
  OBVIOUS
<1>2. ys = [i \in 1..n |-> IF i <= k THEN w[i] ELSE x]
  BY <1>1 DEF Stretched
<1>3. ys \in [1..n -> S]
  BY <1>1, <1>2
<1>4. ys \in Seq(S) /\ Len(ys) = n
  BY <1>3
<1>5. \A i \in 0..(k - 1) : ys[i + 1] = w[i + 1]
  BY <1>1, <1>2
<1>6. \A i \in 0..(g - 1) : ys[k + i + 1] = x
  BY <1>1, <1>2
<1>7. k..(k - 1) = {} /\ n = k + g
  BY <1>1
<1> QED  BY <1>1, <1>4, <1>5, <1>6, <1>7 DEF Spread, Lengthens

LEMMA ResizeUpRuns ==
    ASSUME NEW xs, Rest(Memory, xs, {}), NEW v \in Vectors, NEW n \in Nat, n > size(v), NEW b \in Free,
           NEW to, to = Reserved(v, n, b), NEW x \in Values,
           NEW t, NEW S, NEW y, Pairs(t, v, to.ptr, size(v), to.cap, n - size(v), S, y),
           S = "put" => y = x,
           S # "put" => \A e : /\ Rebased(Memory, e, v, to.ptr, size(v), to.cap)
                               /\ Gapped(Memory, e, v, to.ptr, Stretched(xs[v], n, x), size(v), n)
                               => y \in Lives(e) /\ e.object[y] = x,
           NEW A, Memory \in A
    PROVE  Ends(Memory, reserve(v, n, to) \o t, [xs EXCEPT ![v] = Stretched(xs[v], n, x)], A)
<1>1. PICK w : w = xs[v] /\ w \in Seq(Values) /\ Len(w) = size(v) /\ size(v) \in Nat
  BY Found, FoundElements
<1>2. PICK s \in Nat : s = size(v)
  BY <1>1
<1>3. PICK g \in Nat : g = n - s /\ s + g = n
  BY <1>2
<1>4. PICK ys : ys = Stretched(w, n, x)
  OBVIOUS
<1>5. ys \in Seq(Values) /\ Len(ys) = n /\ Spread(ys, w, s, g) /\ \A i \in 0..(g - 1) : ys[s + i + 1] = x
  <2>1. Lengthens(ys, w, s, g, n, x, Values)
    BY <1>1, <1>2, <1>3, <1>4, StretchedIs
  <2> QED  BY <2>1 DEF Lengthens
<1>6. PICK e : /\ Runs(Memory, reserve(v, n, to), e, A)
               /\ Rebased(Memory, e, v, to.ptr, s, to.cap)
               /\ Gapped(Memory, e, v, to.ptr, ys, s, n)
  <2>1. Spread(ys, xs[v], size(v), g)
    BY <1>1, <1>2, <1>5
  <2>2. PICK e : /\ Runs(Memory, reserve(v, n, to), e, A)
                 /\ Rebased(Memory, e, v, to.ptr, size(v), to.cap)
                 /\ Gapped(Memory, e, v, to.ptr, ys, size(v), size(v) + g)
    BY <2>1, ReserveRuns
  <2> QED  BY <1>2, <1>3, <2>2
<1>7. S # "put" => y \in Lives(e) /\ e.object[y] = x
  BY <1>1, <1>2, <1>4, <1>6
<1>8. Pairs(t, v, to.ptr, s, to.cap, g, S, y)
  BY <1>2, <1>3
<1>9. Counting(e, t, v, to.ptr, to.ptr, s, ys, g, to.cap)
  BY <1>5, <1>7, <1>8, PairsCount
<1>10. PICK r : r = [xs EXCEPT ![v] = ys]
  OBVIOUS
<1>11. n <= to.cap
  BY ReservedIs DEF Chosen
<1>12. Ends(e, t, r, A)
  <2>1. s \in 0..Len(ys) /\ Len(ys) <= to.cap /\ g = Len(ys) - s /\ Gapped(Memory, e, v, to.ptr, ys, s, Len(ys))
    BY <1>2, <1>3, <1>5, <1>6, <1>11
  <2> QED  BY <1>5, <1>6, <1>9, <1>10, <2>1, GapCountClose
<1> QED  BY <1>1, <1>4, <1>6, <1>10, <1>12, EndsConcat

LEMMA ResizeUpEnds ==
    ASSUME NEW xs, Rest(Memory, xs, {}), NEW v \in Vectors, NEW n \in Nat, n > size(v), NEW b \in Free,
           NEW to, to = Reserved(v, n, b), NEW x \in Values, NEW A, Memory \in A
    PROVE  Ends(Memory, reserve(v, n, to) \o CountedPuts(v, size(v), n, to, x),
                [xs EXCEPT ![v] = Stretched(xs[v], n, x)], A)
<1>1. size(v) \in Nat
  BY Found
<1>2. PICK s, t : s = size(v) /\ s \in Nat /\ t = CountedPuts(v, s, n, to, x)
  BY <1>1
<1>3. PICK g \in Nat : g = n - s
  BY <1>2
<1>4. Pairs(t, v, to.ptr, s, to.cap, g, "put", x)
  BY <1>2, <1>3, CountedPutsAre
<1>5. PICK S : S = "put"
  OBVIOUS
<1>6. Pairs(t, v, to.ptr, size(v), to.cap, n - size(v), S, x)
  BY <1>2, <1>3, <1>4, <1>5
<1> QED  BY <1>2, <1>5, <1>6, ResizeUpRuns

LEMMA ResizeOwnEnds ==
    ASSUME NEW xs, Rest(Memory, xs, {}), NEW v \in Vectors, NEW n \in Nat, n > size(v), n <= m_capacity[v],
           NEW b \in Free, NEW to, to = Reserved(v, n, b), NEW at \in 0..(size(v) - 1), NEW A, Memory \in A
    PROVE  Ends(Memory, reserve(v, n, to) \o CountedCopies(v, at, size(v), n, to),
                [xs EXCEPT ![v] = Stretched(xs[v], n, xs[v][at + 1])], A)
<1>1. size(v) \in Nat /\ xs[v] \in Seq(Values) /\ Len(xs[v]) = size(v)
  BY Found, FoundElements
<1>2. PICK s, t : s = size(v) /\ s \in Nat /\ t = CountedCopies(v, at, s, n, to)
  BY <1>1
<1>3. PICK g \in Nat : g = n - s
  BY <1>2
<1>4. PICK a : a = m_begin[v] /\ to.ptr = a
  BY DEF Reserved
<1>5. Pairs(t, v, to.ptr, s, to.cap, g, "copy", <<a, at>>)
  BY <1>2, <1>3, <1>4, CountedCopiesAre
<1>6. PICK S, y : S = "copy" /\ y = <<a, at>>
  OBVIOUS
<1>7. Pairs(t, v, to.ptr, size(v), to.cap, n - size(v), S, y)
  BY <1>2, <1>3, <1>5, <1>6
<1>8. PICK x \in Values : x = xs[v][at + 1]
  BY <1>1
<1>9. Stretched(xs[v], n, x)[at + 1] = x
  <2>1. at + 1 \in 1..n /\ at + 1 <= Len(xs[v])
    BY <1>1
  <2> QED  BY <1>8, <2>1 DEF Stretched
<1>10. ASSUME NEW e, Gapped(Memory, e, v, to.ptr, Stretched(xs[v], n, x), size(v), n)
       PROVE  y \in Lives(e) /\ e.object[y] = x
  <2>1. y \in Cells(a, 0, size(v))
    BY <1>1, <1>6 DEF Cells
  <2>2. PICK ys : ys = Stretched(xs[v], n, x)
    OBVIOUS
  <2>3. e.object[<<a, at>>] = ys[at + 1]
    BY <1>4, <1>10, <2>2 DEF Gapped, Laid
  <2> QED  BY <1>4, <1>6, <1>9, <1>10, <2>1, <2>2, <2>3 DEF Gapped
<1>11. S # "put"
  BY <1>6
<1>12. Ends(Memory, reserve(v, n, to) \o t, [xs EXCEPT ![v] = Stretched(xs[v], n, x)], A)
  BY <1>7, <1>10, <1>11, ResizeUpRuns
<1> QED  BY <1>2, <1>8, <1>12

\* If it had to reserve, resize(n, v[i]) reads v[i] where it no longer is.
LEMMA ResizeOwnHalts ==
    ASSUME NEW xs, Rest(Memory, xs, {}), NEW v \in Vectors, NEW n \in Nat, n > size(v), n > m_capacity[v],
           NEW b \in Free, NEW to, to = Reserved(v, n, b), NEW at \in 0..(size(v) - 1), NEW A, Memory \in A
    PROVE  Halts(Memory, reserve(v, n, to) \o CountedCopies(v, at, size(v), n, to), A)
<1>1. PICK w : w = xs[v] /\ w \in Seq(Values) /\ Len(w) = size(v) /\ size(v) \in Nat
  BY Found, FoundElements
<1>2. PICK s, t : s = size(v) /\ s \in Nat /\ t = CountedCopies(v, at, s, n, to)
  BY <1>1
<1>3. PICK g \in Nat \ {0} : g = n - s
  BY <1>2
<1>4. PICK a : a = m_begin[v]
  OBVIOUS
<1>5. Pairs(t, v, to.ptr, s, to.cap, g, "copy", <<a, at>>)
  <2>1. g \in Nat
    OBVIOUS
  <2> QED  BY <1>2, <1>3, <1>4, <2>1, CountedCopiesAre
<1>6. Spread(w, xs[v], size(v), 0) /\ 0 \in Nat
  BY <1>1, SpreadSelf
<1>7. PICK e : /\ Runs(Memory, reserve(v, n, to), e, A)
               /\ Gapped(Memory, e, v, to.ptr, w, size(v), size(v) + 0)
  BY <1>6, ReserveRuns
<1>8. to.ptr # a
  <2>1. /\ m_begin[v] \in Blocks \cup {v} /\ m_capacity[v] \in Nat
        /\ ~is_static(v) => m_begin[v] \in Blocks \ Vectors /\ block[m_begin[v]] = m_capacity[v]
        /\ m_capacity[v] \in Nat \ {0}
        /\ is_static(v) => m_capacity[v] = StaticCapacity
    BY Found
  <2>2. to.ptr = b
    BY <2>1 DEF Reserved, choose_data
  <2> QED  BY <1>4, <2>1, <2>2, BuffersAssumption DEF Free, is_static
<1>9. <<a, at>> \notin Lives(e)
  <2>1. <<a, at>> \in Elements(Memory, v)
    BY <1>1, <1>4, FoundElements DEF Cells
  <2>2. <<a, at>> \notin Cells(to.ptr, 0, size(v)) /\ <<a, at>> \notin Cells(to.ptr, size(v) + 0, Len(w))
    BY <1>8 DEF Cells
  <2> QED  BY <1>7, <2>1, <2>2 DEF Gapped
<1>10. /\ IsSequence(t) /\ Len(t) > 1
       /\ t[1] = Point(v, to.ptr, <<to.ptr, s + 0 + 1>>, to.cap) /\ t[2] = Copy(<<a, at>>, <<to.ptr, s + 0>>)
  <2>1. 0 \in 0..(g - 1) /\ 2 * 0 + 1 = 1 /\ 2 * 0 + 2 = 2 /\ 2 * g > 1
    OBVIOUS
  <2> QED  BY <1>5, <2>1 DEF Pairs
<1>11. PICK d : d = After(e, t[1])
  OBVIOUS
<1>12. /\ Pointed(e, d, v, Place(to.ptr, <<to.ptr, s + 0 + 1>>, to.cap))
       /\ Safe(e, t[1])
  BY <1>10, <1>11, PointStep
<1>13. Takes(e, t[1], d, A)
  BY <1>11, <1>12 DEF Takes, Safe
<1>14. Faulty(d, t[2])
  <2>1. <<a, at>> \notin Lives(d)
    BY <1>9, <1>12 DEF Pointed, Lives
  <2> QED  BY <1>10, <2>1 DEF Faulty, Copy
<1>15. Halts(e, t, A)
  BY <1>10, <1>13, <1>14, HaltsNext
<1> QED  BY <1>2, <1>7, <1>15, HaltsConcat

-----------------------------------------------------------------------------
(* Dropping elements.                                                      *)

\* What is left of w.
LEMMA CutRest ==
    ASSUME NEW xs, Rest(Memory, xs, {}), NEW v \in Vectors, NEW n \in 0..size(v),
           NEW g, NEW ys, Len(ys) = n, ys \in Seq(Values), g.block = block, NEW y, Aimed(Memory, g, v, y),
           Gapped(Memory, g, v, m_begin[v], ys, n, n), NEW A, NEW r, r = [xs EXCEPT ![v] = ys]
    PROVE  Ends(g, <<Point(v, m_begin[v], <<m_begin[v], n>>, m_capacity[v])>>, r, A)
<1>1. n \in Nat /\ n <= m_capacity[v]
  BY Found
<1>2. PICK e : /\ Runs(g, <<Point(v, m_begin[v], <<m_begin[v], n>>, m_capacity[v])>>, e, A)
               /\ Pointed(g, e, v, Place(m_begin[v], <<m_begin[v], n>>, m_capacity[v]))
  BY PointRuns
<1>3. /\ Aimed(Memory, e, v, Place(m_begin[v], <<m_begin[v], n>>, m_capacity[v]))
      /\ e.block = block /\ e.object = g.object
  BY <1>2 DEF Pointed, Aimed
<1>4. Rebased(Memory, e, v, m_begin[v], Len(ys), m_capacity[v])
  BY <1>1, <1>3, Stay
<1>5. Gapped(Memory, e, v, m_begin[v], ys, n, n)
  BY <1>3 DEF Gapped, Lives
<1>6. n \in 0..Len(ys)
  BY <1>1
<1>7. Rest(e, r, {})
  BY <1>4, <1>5, <1>6, GapRest
<1> QED  BY <1>2, <1>7 DEF Ends

\* The elements that resize destroys.
Drops(s, n, to) == Steps(s - n, LAMBDA i : Destroy(<<to.ptr, s - 1 - i>>))

LEMMA DropsRun ==
    ASSUME NEW s \in Nat, NEW n \in 0..s, NEW to, NEW b, b = to.ptr, NEW m, Cells(b, n, s) \subseteq Lives(m), NEW A
    PROVE  \E e : Runs(m, Drops(s, n, to), e, A) /\ Lost(m, e, Cells(b, n, s))
<1>1. PICK g \in Nat : g = s - n
  OBVIOUS
<1>2. PICK t : t = Drops(s, n, to)
  OBVIOUS
<1>3. t = [i \in 1..g |-> Destroy(<<b, s - 1 - (i - 1)>>)]
  BY <1>1, <1>2 DEF Drops, Steps
<1>4. t = [i \in 1..g |-> t[i]]
  BY <1>3
<1>5. IsSequence(t) /\ Len(t) = g
  BY <1>4, SequenceIs
<1>6. \A i \in 0..(g - 1) : t[i + 1] = Destroy(<<b, s - 1 - i>>)
  <2>1. \A i \in 0..(g - 1) : i + 1 \in 1..g /\ (i + 1) - 1 = i
    OBVIOUS
  <2> QED  BY <1>3, <2>1
<1>7. PICK p : Below(p, b, s, g)
  <2>1. s \in Int
    OBVIOUS
  <2> QED  BY <2>1, DownFrom
<1>8. FirstOf(p, g) = Cells(b, n, s) /\ Different(p, g)
  <2>1. g \in 0..g /\ s - g = n
    BY <1>1
  <2> QED  BY <1>7, <2>1 DEF Below
<1>9. \A i \in 0..(g - 1) : t[i + 1] = Destroy(p[i])
  BY <1>6, <1>7 DEF Below
<1>10. FirstOf(p, g) \subseteq Lives(m)
  BY <1>8
<1>11. PICK e : Runs(m, t, e, A) /\ Lost(m, e, FirstOf(p, g))
  BY <1>5, <1>8, <1>9, <1>10, DestroyLoop
<1> QED  BY <1>2, <1>8, <1>11

\* Without its last elements, v has those before.
LEMMA CutGap ==
    ASSUME NEW xs, Rest(Memory, xs, {}), NEW v \in Vectors, NEW n \in 0..size(v), NEW ys, Len(ys) = n,
           \A i \in 0..(n - 1) : ys[i + 1] = xs[v][i + 1], NEW g,
           Lost(Memory, g, Cells(m_begin[v], n, size(v)))
    PROVE  Gapped(Memory, g, v, m_begin[v], ys, n, n)
<1>0. PICK s \in Nat : s = size(v)
  BY Found
<1>1. PICK w, a : w = xs[v] /\ Len(w) = s /\ s = size(v) /\ a = m_begin[v]
  BY <1>0, FoundElements
<1>2. /\ Elements(Memory, v) = Cells(a, 0, s) /\ Cells(a, 0, s) \subseteq Lives(Memory)
      /\ \A i \in 0..(s - 1) : Memory.object[<<a, i>>] = w[i + 1]
  BY <1>1, FoundElements
<1>3. n \in Nat /\ n <= s
  BY <1>1
<1>4. Cells(a, 0, s) = Cells(a, 0, n) \cup Cells(a, n, s) /\ Cells(a, 0, n) \cap Cells(a, n, s) = {}
  BY <1>3, CellsJoin, CellsApart
<1>5. Cells(a, n, n) = {} /\ n..(n - 1) = {}
  BY <1>3, NoCells
<1>6. Lives(g) = Lives(Memory) \ Cells(a, n, s) /\ \A l \in Lives(g) : g.object[l] = Memory.object[l]
  BY <1>1 DEF Lost
<1>7. Lives(g) = (Lives(Memory) \ Elements(Memory, v)) \cup Cells(a, 0, n) \cup Cells(a, n, Len(ys))
  BY <1>2, <1>4, <1>5, <1>6
<1>8. ASSUME NEW i \in 0..(n - 1)
      PROVE  g.object[<<a, i>>] = ys[i + 1]
  <2>1. i \in 0..(s - 1) /\ <<a, i>> \in Cells(a, 0, n)
    BY <1>3 DEF Cells
  <2> QED  BY <1>1, <1>2, <1>6, <1>7, <2>1
<1>9. Laid(g.object, a, ys, n, n)
  BY <1>5, <1>8 DEF Laid
<1>10. \A l \in Lives(Memory) \ Elements(Memory, v) : g.object[l] = Memory.object[l]
  BY <1>6, <1>7
<1> QED  BY <1>1, <1>7, <1>9, <1>10 DEF Gapped

LEMMA ResizeDownEnds ==
    ASSUME NEW xs, Rest(Memory, xs, {}), NEW v \in Vectors, NEW n \in 0..size(v), NEW b \in Free,
           NEW to, to = Reserved(v, n, b), NEW x \in Values, NEW A
    PROVE  Ends(Memory,
                reserve(v, n, to) \o (Drops(size(v), n, to) \o <<Point(v, to.ptr, <<to.ptr, n>>, to.cap)>>),
                [xs EXCEPT ![v] = Stretched(xs[v], n, x)], A)
<1>1. PICK w : w = xs[v] /\ w \in Seq(Values) /\ Len(w) = size(v) /\ size(v) \in Nat
  BY Found, FoundElements
<1>2. n \in Nat /\ n <= size(v) /\ n <= m_capacity[v]
  BY Found
<1>3. to.ptr = m_begin[v] /\ to.cap = m_capacity[v] /\ reserve(v, n, to) = <<>>
  BY <1>2 DEF Reserved, reserve
<1>4. PICK ys : ys = Stretched(w, n, x)
  OBVIOUS
<1>5. Len(ys) = n /\ ys \in Seq(Values) /\ \A i \in 0..(n - 1) : ys[i + 1] = w[i + 1]
  <2>1. ys = [i \in 1..n |-> w[i]]
    BY <1>1, <1>2, <1>4 DEF Stretched
  <2>2. ys \in [1..n -> Values]
    BY <1>1, <1>2, <2>1
  <2>3. ys \in Seq(Values) /\ Len(ys) = n
    BY <1>2, <2>2
  <2>4. \A i \in 0..(n - 1) : i + 1 \in 1..n
    BY <1>2
  <2> QED  BY <2>1, <2>3, <2>4
<1>6. PICK g : Runs(Memory, Drops(size(v), n, to), g, A) /\ Lost(Memory, g, Cells(m_begin[v], n, size(v)))
  <2>1. Cells(m_begin[v], n, size(v)) \subseteq Lives(Memory)
    <3>1. Cells(m_begin[v], 0, size(v)) \subseteq Lives(Memory)
      BY FoundElements
    <3>2. Cells(m_begin[v], 0, size(v)) = Cells(m_begin[v], 0, n) \cup Cells(m_begin[v], n, size(v))
      BY <1>1, <1>2, CellsJoin
    <3> QED  BY <3>1, <3>2
  <2> QED  BY <1>1, <1>3, <2>1, DropsRun
<1>7. Gapped(Memory, g, v, m_begin[v], ys, n, n)
  BY <1>1, <1>5, <1>6, CutGap
<1>8. g.at = Memory.at /\ g.block = block
  BY <1>6 DEF Lost, Memory
<1>9. PICK y : Aimed(Memory, g, v, y)
  BY <1>8, AimedAt
<1>10. PICK r : r = [xs EXCEPT ![v] = ys]
  OBVIOUS
<1>11. Ends(g, <<Point(v, m_begin[v], <<m_begin[v], n>>, m_capacity[v])>>, r, A)
  BY <1>5, <1>7, <1>8, <1>9, <1>10, CutRest
<1>12. Ends(Memory, Drops(size(v), n, to) \o <<Point(v, to.ptr, <<to.ptr, n>>, to.cap)>>, r, A)
  BY <1>3, <1>6, <1>11, EndsConcat
<1>13. Runs(Memory, reserve(v, n, to), Memory, A)
  BY <1>3, RunsNone
<1> QED  BY <1>1, <1>4, <1>10, <1>12, <1>13, EndsConcat

-----------------------------------------------------------------------------
(* Moving elements to another buffer.                                      *)

\* The steps s move the n elements of a from lo to b, from at on.
Relocates(s, a, lo, b, at, n) ==
    /\ IsSequence(s) /\ Len(s) = 2 * n
    /\ \A i \in 0..(n - 1) : /\ s[2 * i + 1] = Move(<<a, lo + i>>, <<b, at + i>>)
                             /\ s[2 * i + 2] = Destroy(<<a, lo + i>>)

\* In e, they have been.
Transferred(m, e, a, lo, b, at, n) ==
    /\ e.at = m.at /\ e.block = m.block
    /\ Lives(e) = (Lives(m) \ Cells(a, lo, lo + n)) \cup Cells(b, at, at + n)
    /\ \A l \in Lives(m) \ Cells(a, lo, lo + n) : e.object[l] = m.object[l]
    /\ \A i \in 0..(n - 1) : e.object[<<b, at + i>>] = m.object[<<a, lo + i>>]

\* The first n places from lo.
Above(p, b, lo, n) ==
    /\ FirstOf(p, n) = Cells(b, lo, lo + n) /\ Different(p, n)
    /\ \A i \in 0..(n - 1) : p[i] = <<b, lo + i>>

LEMMA AboveIs ==
    ASSUME NEW b, NEW lo \in Nat, NEW n \in Nat
    PROVE  \E p : Above(p, b, lo, n)
<1>1. PICK p : /\ \A j \in 0..n : FirstOf(p, j) = Cells(b, lo, lo + j)
               /\ Different(p, n) /\ \A i \in 0..(n - 1) : p[i] = <<b, lo + i>>
  BY UpFrom
<1>2. n \in 0..n
  OBVIOUS
<1> QED  BY <1>1, <1>2 DEF Above

LEMMA TransferRuns ==
    ASSUME NEW s, NEW a, NEW lo \in Nat, NEW b, NEW at \in Nat, NEW n \in Nat, Relocates(s, a, lo, b, at, n),
           NEW m, Cells(a, lo, lo + n) \subseteq Lives(m), Cells(b, at, at + n) \cap Lives(m) = {},
           Cap(m, b) \in Nat, at + n <= Cap(m, b), NEW A
    PROVE  \E e : Runs(m, s, e, A) /\ Transferred(m, e, a, lo, b, at, n)
<1>1. PICK q : Above(q, a, lo, n)
  BY AboveIs
<1>2. PICK p : Above(p, b, at, n)
  BY AboveIs
<1>3. IsSequence(s) /\ Len(s) = 2 * n
  BY DEF Relocates
<1>4. \A i \in 0..(n - 1) : s[2 * i + 1] = Move(q[i], p[i]) /\ s[2 * i + 2] = Destroy(q[i])
  BY <1>1, <1>2 DEF Relocates, Above
<1>5. ASSUME NEW i \in 0..(n - 1)
      PROVE  q[i] \in Lives(m) /\ p[i] \notin Lives(m) \ FirstOf(q, i) /\ Room(m, p[i])
  <2>1. q[i] \in FirstOf(q, n) /\ p[i] \in FirstOf(p, n)
    BY DEF FirstOf
  <2>2. PICK j : j = at + i /\ j < Cap(m, b)
    OBVIOUS
  <2>3. Room(m, <<b, j>>)
    BY <2>2 DEF Room
  <2> QED  BY <1>1, <1>2, <2>1, <2>2, <2>3 DEF Above
<1>6. Different(p, n) /\ Different(q, n)
  BY <1>1, <1>2 DEF Above
<1>7. PICK e : Runs(m, s, e, A) /\ Relocated(m, e, q, p, n)
  BY <1>3, <1>4, <1>5, <1>6, RelocateLoop
<1>8. FirstOf(q, n) = Cells(a, lo, lo + n) /\ FirstOf(p, n) = Cells(b, at, at + n)
  BY <1>1, <1>2 DEF Above
<1>9. \A l \in Lives(m) \ Cells(a, lo, lo + n) : e.object[l] = m.object[l]
  BY <1>7, <1>8 DEF Relocated
<1>10. \A i \in 0..(n - 1) : e.object[<<b, at + i>>] = m.object[<<a, lo + i>>]
  BY <1>1, <1>2, <1>7 DEF Relocated, Above
<1>11. e.at = m.at /\ e.block = m.block /\ Lives(e) = (Lives(m) \ Cells(a, lo, lo + n)) \cup Cells(b, at, at + n)
  BY <1>7, <1>8 DEF Relocated
<1> QED  BY <1>7, <1>9, <1>10, <1>11 DEF Transferred

MovesFirst(v, n, b) ==
    Alternate(n, LAMBDA i : Move(At(v, i), <<b, i>>), LAMBDA i : Destroy(At(v, i)))
MovesRest(v, k, num, n, b) ==
    Alternate(n, LAMBDA i : Move(At(v, k + num + i), <<b, k + i>>), LAMBDA i : Destroy(At(v, k + num + i)))

LEMMA MovesFirstAre ==
    ASSUME NEW v, NEW n \in Nat, NEW b, NEW a, a = m_begin[v]
    PROVE  Relocates(MovesFirst(v, n, b), a, 0, b, 0, n)
<1>1. PICK t : t = MovesFirst(v, n, b)
  OBVIOUS
<1>2. t = [i \in 1..(2 * n) |-> IF i % 2 = 1 THEN Move(<<a, i \div 2>>, <<b, i \div 2>>)
                                             ELSE Destroy(<<a, i \div 2 - 1>>)]
  BY <1>1 DEF MovesFirst, Alternate, At
<1>3. t = [i \in 1..(2 * n) |-> t[i]] /\ 2 * n \in Nat
  BY <1>2
<1>4. IsSequence(t) /\ Len(t) = 2 * n
  BY <1>3, SequenceIs
<1>5. ASSUME NEW i \in 0..(n - 1)
      PROVE  t[2 * i + 1] = Move(<<a, 0 + i>>, <<b, 0 + i>>) /\ t[2 * i + 2] = Destroy(<<a, 0 + i>>)
  <2>1. PICK y, z : y = 2 * i + 1 /\ z = 2 * i + 2
    OBVIOUS
  <2>2. y \in 1..(2 * n) /\ z \in 1..(2 * n) /\ y % 2 = 1 /\ y \div 2 = i /\ z % 2 # 1 /\ z \div 2 - 1 = i
    BY <2>1, Halves
  <2>3. t[y] = Move(<<a, i>>, <<b, i>>) /\ t[z] = Destroy(<<a, i>>)
    BY <1>2, <2>2
  <2>4. 0 + i = i
    OBVIOUS
  <2> QED  BY <2>1, <2>3, <2>4
<1> QED  BY <1>1, <1>4, <1>5 DEF Relocates

LEMMA MovesRestAre ==
    ASSUME NEW v, NEW k \in Nat, NEW num \in Nat, NEW n \in Nat, NEW b, NEW a, a = m_begin[v], NEW lo, lo = k + num
    PROVE  Relocates(MovesRest(v, k, num, n, b), a, lo, b, k, n)
<1>1. PICK t : t = MovesRest(v, k, num, n, b)
  OBVIOUS
<1>2. t = [i \in 1..(2 * n) |-> IF i % 2 = 1 THEN Move(<<a, lo + (i \div 2)>>, <<b, k + (i \div 2)>>)
                                             ELSE Destroy(<<a, lo + (i \div 2 - 1)>>)]
  BY <1>1 DEF MovesRest, Alternate, At
<1>3. t = [i \in 1..(2 * n) |-> t[i]] /\ 2 * n \in Nat
  BY <1>2
<1>4. IsSequence(t) /\ Len(t) = 2 * n
  BY <1>3, SequenceIs
<1>5. ASSUME NEW i \in 0..(n - 1)
      PROVE  t[2 * i + 1] = Move(<<a, lo + i>>, <<b, k + i>>) /\ t[2 * i + 2] = Destroy(<<a, lo + i>>)
  <2>1. PICK y, z : y = 2 * i + 1 /\ z = 2 * i + 2
    OBVIOUS
  <2>2. y \in 1..(2 * n) /\ z \in 1..(2 * n) /\ y % 2 = 1 /\ y \div 2 = i /\ z % 2 # 1 /\ z \div 2 - 1 = i
    BY <2>1, Halves
  <2>3. t[y] = Move(<<a, lo + i>>, <<b, k + i>>) /\ t[z] = Destroy(<<a, lo + i>>)
    BY <1>2, <2>2
  <2> QED  BY <2>1, <2>3
<1> QED  BY <1>1, <1>4, <1>5 DEF Relocates

\* The elements of v from lo are destroyed, n of them.
DropsUp(v, lo, n) == Steps(n, LAMBDA i : Destroy(At(v, lo + i)))

LEMMA DropsUpRun ==
    ASSUME NEW v, NEW a, a = m_begin[v], NEW lo \in Nat, NEW n \in Nat, NEW m, Cells(a, lo, lo + n) \subseteq Lives(m),
           NEW A
    PROVE  \E e : Runs(m, DropsUp(v, lo, n), e, A) /\ Lost(m, e, Cells(a, lo, lo + n))
<1>1. PICK t : t = DropsUp(v, lo, n)
  OBVIOUS
<1>2. t = [i \in 1..n |-> Destroy(<<a, lo + (i - 1)>>)]
  BY <1>1 DEF DropsUp, Steps, At
<1>3. t = [i \in 1..n |-> t[i]]
  BY <1>2
<1>4. IsSequence(t) /\ Len(t) = n
  BY <1>3, SequenceIs
<1>5. PICK p : Above(p, a, lo, n)
  BY AboveIs
<1>6. \A i \in 0..(n - 1) : t[i + 1] = Destroy(p[i])
  <2>1. \A i \in 0..(n - 1) : i + 1 \in 1..n /\ (i + 1) - 1 = i
    OBVIOUS
  <2> QED  BY <1>2, <1>5, <2>1 DEF Above
<1>7. FirstOf(p, n) = Cells(a, lo, lo + n) /\ Different(p, n)
  BY <1>5 DEF Above
<1>8. FirstOf(p, n) \subseteq Lives(m)
  BY <1>7
<1>9. PICK e : Runs(m, t, e, A) /\ Lost(m, e, FirstOf(p, n))
  BY <1>4, <1>6, <1>7, <1>8, DestroyLoop
<1> QED  BY <1>1, <1>7, <1>9

-----------------------------------------------------------------------------
(* Shrinking to fit.                                                       *)

\* v is pointed at another buffer, and then frees the block that it has left.
LEMMA SettleLate ==
    ASSUME NEW xs, Rest(Memory, xs, {}), NEW v \in Vectors, NEW to, NEW n, Chosen(to, v, n),
           to.ptr # m_begin[v], NEW k \in Nat, k <= to.cap, NEW g, NEW x, Aimed(Memory, g, v, x),
           g.block = OpenBlocks(to), \A l \in Lives(g) : l[1] # m_begin[v], NEW A
    PROVE  \E d, e : /\ Runs(g, <<Point(v, to.ptr, <<to.ptr, k>>, to.cap)>>, d, A)
                     /\ Runs(d, FreeOld(v), e, A)
                     /\ Rebased(Memory, e, v, to.ptr, k, to.cap) /\ e.object = g.object
<1>1. PICK d : /\ Runs(g, <<Point(v, to.ptr, <<to.ptr, k>>, to.cap)>>, d, A)
               /\ Pointed(g, d, v, Place(to.ptr, <<to.ptr, k>>, to.cap))
  BY PointRuns
<1>2. d.block = OpenBlocks(to) /\ d.object = g.object /\ Lives(d) = Lives(g)
  BY <1>1 DEF Pointed, Lives
<1>3. ~is_static(v) => d.block[m_begin[v]] = m_capacity[v]
  <2>1. ~is_static(v) => m_begin[v] \in Blocks /\ block[m_begin[v]] = m_capacity[v]
    BY Found
  <2>2. block \in [Blocks -> Nat]
    BY DEF Memory, Rest, Housing
  <2> QED  BY <1>2, <2>1, <2>2 DEF OpenBlocks
<1>4. \A l \in Lives(d) : l[1] # m_begin[v]
  BY <1>2
<1>5. PICK e : /\ Runs(d, FreeOld(v), e, A)
               /\ e.at = d.at /\ e.object = d.object /\ e.block = LeftBlocks(to, v)
  BY <1>2, <1>3, <1>4, FreeOldRuns
<1>6. Aimed(Memory, e, v, Place(to.ptr, <<to.ptr, k>>, to.cap))
  BY <1>1, <1>5 DEF Pointed, Aimed
<1>7. Rebased(Memory, e, v, to.ptr, k, to.cap)
  BY <1>5, <1>6, RebasedIs
<1> QED  BY <1>1, <1>2, <1>5, <1>7

\* What shrink_to_fit does with the buffer that it chooses.
LEMMA ShrinkToFitIs ==
    ASSUME NEW v, NEW b, NEW s, s = size(v), ~(s = m_capacity[v] \/ is_static(v)), NEW to,
           to = IF s < StaticCapacity THEN [ptr |-> v, cap |-> StaticCapacity, steps |-> <<>>]
                ELSE [ptr |-> b, cap |-> s, steps |-> <<Allocate(b, s)>>]
    PROVE  shrink_to_fit(v, b) = to.steps \o MovesFirst(v, s, to.ptr)
                                 \o <<Point(v, to.ptr, <<to.ptr, s>>, to.cap)>> \o FreeOld(v)
  BY DEF shrink_to_fit, MovesFirst, Alternate

LEMMA ShrinkToFitEnds ==
    ASSUME NEW xs, Rest(Memory, xs, {}), NEW v \in Vectors, NEW b \in Free, NEW A, Memory \in A
    PROVE  Ends(Memory, shrink_to_fit(v, b), xs, A)
<1>1. PICK w : w = xs[v] /\ w \in Seq(Values) /\ Len(w) = size(v) /\ size(v) \in Nat
  BY Found, FoundElements
<1>2. PICK s \in Nat : s = size(v)
  BY <1>1
<1>3. CASE s = m_capacity[v] \/ is_static(v)
  <2>1. shrink_to_fit(v, b) = <<>>
    BY <1>2, <1>3 DEF shrink_to_fit
  <2>2. Runs(Memory, shrink_to_fit(v, b), Memory, A)
    BY <2>1, RunsNone
  <2> QED  BY <2>2 DEF Ends
<1>4. CASE ~(s = m_capacity[v] \/ is_static(v))
  <2>1. PICK to : to = IF s < StaticCapacity THEN [ptr |-> v, cap |-> StaticCapacity, steps |-> <<>>]
                       ELSE [ptr |-> b, cap |-> s, steps |-> <<Allocate(b, s)>>]
    OBVIOUS
  <2>2. Chosen(to, v, s) /\ to.ptr # m_begin[v] /\ s <= to.cap /\ to.cap \in Nat
    <3>1. CASE s < StaticCapacity
      <4>1. to.ptr = v /\ to.cap = StaticCapacity /\ to.steps = <<>>
        BY <2>1, <3>1
      <4> QED  BY <1>4, <3>1, <4>1, StaticCapacityAssumption DEF Chosen, is_static
    <3>2. CASE ~(s < StaticCapacity)
      <4>1. to.ptr = b /\ to.cap = s /\ to.steps = <<Allocate(b, s)>>
        BY <2>1, <3>2
      <4>2. s \in Nat \ {0}
        BY <3>2, StaticCapacityAssumption
      <4>3. m_begin[v] # b
        <5>1. m_begin[v] \in Blocks \ Vectors /\ block[m_begin[v]] = m_capacity[v] /\ m_capacity[v] # 0
          BY <1>4, Found
        <5> QED  BY <5>1 DEF Free
      <4> QED  BY <4>1, <4>2, <4>3 DEF Chosen
    <3> QED  BY <3>1, <3>2
  <2>3. PICK M : M = Memory /\ M.block = block /\ M \in A
    BY DEF Memory
  <2>4. PICK m : Runs(M, to.steps, m, A) /\ m.at = M.at /\ m.object = M.object /\ m.block = OpenBlocks(to)
    BY <2>2, <2>3, Open
  <2>5. PICK a, p : a = m_begin[v] /\ p = to.ptr /\ a # p
    BY <2>2
  <2>6. /\ Elements(Memory, v) = Cells(a, 0, s) /\ Cells(a, 0, s) \subseteq Lives(Memory)
        /\ \A i \in 0..(s - 1) : Memory.object[<<a, i>>] = w[i + 1]
    BY <1>1, <1>2, <2>5, FoundElements
  <2>7. Lives(m) = Lives(Memory) /\ Cap(m, p) = to.cap /\ Usable(Memory, v, p) /\ Usable(Memory, v, a)
    BY <2>2, <2>3, <2>4, <2>5, ChosenCap, ChosenUsable, Found DEF Lives, Usable
  <2>8. ASSUME NEW l \in Lives(m) \ Cells(a, 0, s)
        PROVE  l[1] # p /\ l[1] # a
    BY <2>6, <2>7, Elsewhere DEF Usable
  <2>9. PICK t : t = MovesFirst(v, s, p)
    OBVIOUS
  <2>10. Relocates(t, a, 0, p, 0, s)
    BY <2>5, <2>9, MovesFirstAre
  <2>11. PICK g : Runs(m, t, g, A) /\ Transferred(m, g, a, 0, p, 0, s)
    <3>1. 0 + s = s /\ 0 \in Nat
      OBVIOUS
    <3>2. Cells(p, 0, 0 + s) \cap Lives(m) = {}
      <4>1. ASSUME NEW l \in Cells(p, 0, s)
            PROVE  l \notin Lives(m)
        <5>1. l[1] = p /\ l \notin Cells(a, 0, s)
          BY <2>5 DEF Cells
        <5> QED  BY <2>8, <5>1
      <4> QED  BY <3>1, <4>1
    <3>3. Cells(a, 0, 0 + s) \subseteq Lives(m) /\ Cap(m, p) \in Nat /\ 0 + s <= Cap(m, p)
      BY <2>2, <2>6, <2>7, <3>1
    <3> QED  BY <2>10, <3>1, <3>2, <3>3, TransferRuns
  <2>12. /\ g.at = Memory.at /\ g.block = OpenBlocks(to)
         /\ Lives(g) = (Lives(Memory) \ Cells(a, 0, s)) \cup Cells(p, 0, s)
         /\ \A l \in Lives(Memory) \ Cells(a, 0, s) : g.object[l] = Memory.object[l]
         /\ \A i \in 0..(s - 1) : g.object[<<p, i>>] = Memory.object[<<a, i>>]
    <3>1. 0 + s = s /\ \A i \in 0..(s - 1) : 0 + i = i
      OBVIOUS
    <3> QED  BY <2>3, <2>4, <2>7, <2>11, <3>1 DEF Transferred
  <2>13. \A l \in Lives(g) : l[1] # m_begin[v]
    <3>1. \A l \in Cells(p, 0, s) : l[1] = p
      BY DEF Cells
    <3> QED  BY <2>5, <2>7, <2>8, <2>12, <3>1
  <2>14. PICK y : Aimed(Memory, g, v, y)
    BY <2>12, AimedAt
  <2>15. PICK P : P = <<Point(v, to.ptr, <<to.ptr, s>>, to.cap)>>
    OBVIOUS
  <2>16. PICK d, e : /\ Runs(g, P, d, A) /\ Runs(d, FreeOld(v), e, A)
                  /\ Rebased(Memory, e, v, to.ptr, s, to.cap) /\ e.object = g.object
    BY <2>2, <2>12, <2>13, <2>14, <2>15, SettleLate
  <2>17. Gapped(Memory, e, v, p, w, s, s)
    <3>1. Cells(p, s, s) = {} /\ s..(s - 1) = {}
      BY NoCells
    <3>2. Laid(e.object, p, w, s, s)
      BY <1>1, <1>2, <2>6, <2>12, <2>16, <3>1 DEF Laid
    <3> QED  BY <1>1, <1>2, <2>6, <2>12, <2>16, <3>1, <3>2 DEF Gapped, Lives
  <2>18. Rest(e, [xs EXCEPT ![v] = w], {})
    <3>1. s \in 0..Len(w) /\ Rebased(Memory, e, v, p, Len(w), to.cap)
      BY <1>1, <1>2, <2>5, <2>16
    <3> QED  BY <1>1, <2>17, <3>1, GapRest
  <2>19. [xs EXCEPT ![v] = w] = xs
    BY <1>1 DEF Rest
  <2>20. Runs(Memory, to.steps \o t, g, A)
    BY <2>3, <2>4, <2>11, RunsConcat
  <2>22. shrink_to_fit(v, b) = to.steps \o t \o P \o FreeOld(v)
    <3>1. shrink_to_fit(v, b) = to.steps \o MovesFirst(v, s, to.ptr)
                                \o <<Point(v, to.ptr, <<to.ptr, s>>, to.cap)>> \o FreeOld(v)
      BY <1>2, <1>4, <2>1, ShrinkToFitIs
    <3> QED  BY <2>5, <2>9, <2>15, <3>1
  <2>23. Runs(Memory, to.steps \o t \o P \o FreeOld(v), e, A)
    BY <2>16, <2>20, RunsThree
  <2> QED  BY <2>18, <2>19, <2>22, <2>23 DEF Ends
<1> QED  BY <1>3, <1>4

-----------------------------------------------------------------------------
(* Erasing.                                                                *)

\* num elements are taken out of w at k.
Erased(w, k, num) == SubSeq(w, 1, k) \o SubSeq(w, k + num + 1, Len(w))

\* ys is w without them.
Shut(ys, w, k, num, S) ==
    /\ ys \in Seq(S) /\ Len(ys) = Len(w) - num
    /\ \A i \in 0..(k - 1) : ys[i + 1] = w[i + 1]
    /\ \A i \in k..(Len(w) - num - 1) : ys[i + 1] = w[i + num + 1]

LEMMA ErasedIs ==
    ASSUME NEW S, NEW w \in Seq(S), NEW k \in Nat, NEW num \in Nat, k + num <= Len(w)
    PROVE  Shut(Erased(w, k, num), w, k, num, S)
<1>1. PICK n \in Nat : n = Len(w) /\ k + num <= n /\ k <= n
  OBVIOUS
<1>2. PICK a : a = SubSeq(w, 1, k) /\ a \in Seq(S) /\ Len(a) = k /\ \A i \in 1..k : a[i] = w[i]
  <2>1. SubSeq(w, 1, k) \in Seq(S) /\ Len(SubSeq(w, 1, k)) = k /\ \A i \in 1..k : SubSeq(w, 1, k)[i] = w[i]
    BY <1>1
  <2> QED  BY <2>1
<1>3. PICK c, h : c = k + num + 1 /\ h = n - (k + num) /\ c \in Nat /\ h \in Nat
  BY <1>1
<1>4. PICK z : /\ z = SubSeq(w, k + num + 1, Len(w)) /\ z \in Seq(S) /\ Len(z) = h
               /\ \A i \in 1..h : z[i] = w[k + num + i]
  <2>1. SubSeq(w, c, n) \in Seq(S) /\ Len(SubSeq(w, c, n)) = h
    BY <1>1, <1>3
  <2>2. \A i \in 1..h : SubSeq(w, c, n)[i] = w[k + num + i]
    BY <1>1, <1>3
  <2> QED  BY <1>1, <1>3, <2>1, <2>2
<1>5. PICK ys : ys = Erased(w, k, num) /\ ys = a \o z
  BY <1>2, <1>4 DEF Erased
<1>6. /\ ys \in Seq(S) /\ Len(ys) = k + h
      /\ \A i \in 1..(k + h) : ys[i] = IF i <= k THEN a[i] ELSE z[i - k]
  <2>1. ys \in Seq(S) /\ Len(ys) = Len(a) + Len(z)
    BY <1>2, <1>4, <1>5, Joined
  <2>2. \A i \in 1..(Len(a) + Len(z)) : (a \o z)[i] = IF i <= Len(a) THEN a[i] ELSE z[i - Len(a)]
    <3>1. a \in Seq(S) /\ z \in Seq(S)
      BY <1>2, <1>4
    <3> QED  BY <3>1
  <2> QED  BY <1>2, <1>4, <1>5, <2>1, <2>2
<1>7. Len(ys) = Len(w) - num
  BY <1>1, <1>3, <1>6
<1>8. ASSUME NEW i \in 0..(k - 1)
      PROVE  ys[i + 1] = w[i + 1]
  <2>1. PICK j : j = i + 1 /\ j \in 1..k /\ j \in 1..(k + h) /\ j <= k
    BY <1>3
  <2> QED  BY <1>2, <1>6, <2>1
<1>9. ASSUME NEW i \in k..(Len(w) - num - 1)
      PROVE  ys[i + 1] = w[i + num + 1]
  <2>1. PICK j, g : j = i + 1 /\ g = i + 1 - k
    OBVIOUS
  <2>2. j \in 1..(k + h) /\ ~(j <= k) /\ j - k = g /\ g \in 1..h /\ k + num + g = i + num + 1
    <3>1. i \in Nat /\ k <= i /\ i < n - num
      BY <1>1
    <3> QED  BY <1>1, <1>3, <2>1, <3>1
  <2>3. ys[j] = z[g] /\ z[g] = w[k + num + g]
    BY <1>4, <1>6, <2>2
  <2> QED  BY <2>1, <2>2, <2>3
<1>10. Shut(ys, w, k, num, S)
  BY <1>6, <1>7, <1>8, <1>9 DEF Shut
<1> QED  BY <1>5, <1>10

\* The n elements of v from k + num on take the place of those from k on.
Pulls(v, k, num, n) ==
    Alternate(n, LAMBDA i : Destroy(At(v, k + i)), LAMBDA i : Move(At(v, k + num + i), At(v, k + i)))
Pulling(s, a, k, lo, n) ==
    /\ IsSequence(s) /\ Len(s) = 2 * n
    /\ \A i \in 0..(n - 1) : /\ s[2 * i + 1] = Destroy(<<a, k + i>>)
                             /\ s[2 * i + 2] = Move(<<a, lo + i>>, <<a, k + i>>)

LEMMA PullsAre ==
    ASSUME NEW v, NEW k \in Nat, NEW num \in Nat, NEW n \in Nat, NEW a, a = m_begin[v], NEW lo, lo = k + num
    PROVE  Pulling(Pulls(v, k, num, n), a, k, lo, n)
<1>1. PICK t : t = Pulls(v, k, num, n)
  OBVIOUS
<1>2. t = [i \in 1..(2 * n) |-> IF i % 2 = 1 THEN Destroy(<<a, k + (i \div 2)>>)
                                ELSE Move(<<a, lo + (i \div 2 - 1)>>, <<a, k + (i \div 2 - 1)>>)]
  BY <1>1 DEF Pulls, Alternate, At
<1>3. t = [i \in 1..(2 * n) |-> t[i]] /\ 2 * n \in Nat
  BY <1>2
<1>4. IsSequence(t) /\ Len(t) = 2 * n
  BY <1>3, SequenceIs
<1>5. ASSUME NEW i \in 0..(n - 1)
      PROVE  t[2 * i + 1] = Destroy(<<a, k + i>>) /\ t[2 * i + 2] = Move(<<a, lo + i>>, <<a, k + i>>)
  <2>1. PICK y, z : y = 2 * i + 1 /\ z = 2 * i + 2
    OBVIOUS
  <2>2. y \in 1..(2 * n) /\ z \in 1..(2 * n) /\ y % 2 = 1 /\ y \div 2 = i /\ z % 2 # 1 /\ z \div 2 - 1 = i
    BY <2>1, Halves
  <2>3. t[y] = Destroy(<<a, k + i>>) /\ t[z] = Move(<<a, lo + i>>, <<a, k + i>>)
    BY <1>2, <2>2
  <2> QED  BY <2>1, <2>3
<1> QED  BY <1>1, <1>4, <1>5 DEF Pulling

\* In e, they have.
Pulled(m, e, a, k, lo, n) ==
    /\ e.at = m.at /\ e.block = m.block /\ Lives(e) = Lives(m)
    /\ \A l \in Lives(m) \ (Cells(a, k, k + n) \cup Cells(a, lo, lo + n)) : e.object[l] = m.object[l]
    /\ \A i \in 0..(n - 1) : e.object[<<a, k + i>>] = m.object[<<a, lo + i>>]

LEMMA PullsRun ==
    ASSUME NEW s, NEW a, NEW k \in Nat, NEW lo \in Nat, k < lo, NEW n \in Nat, Pulling(s, a, k, lo, n), NEW m,
           Cells(a, k, k + n) \subseteq Lives(m), Cells(a, lo, lo + n) \subseteq Lives(m),
           Cap(m, a) \in Nat, k + n <= Cap(m, a), NEW A
    PROVE  \E e : Runs(m, s, e, A) /\ Pulled(m, e, a, k, lo, n)
<1>1. PICK q : Above(q, a, lo, n)
  BY AboveIs
<1>2. PICK p : Above(p, a, k, n)
  BY AboveIs
<1>3. IsSequence(s) /\ Len(s) = 2 * n
  BY DEF Pulling
<1>4. \A i \in 0..(n - 1) : s[2 * i + 1] = Destroy(p[i]) /\ s[2 * i + 2] = Move(q[i], p[i])
  BY <1>1, <1>2 DEF Pulling, Above
<1>5. FirstOf(q, n) = Cells(a, lo, lo + n) /\ FirstOf(p, n) = Cells(a, k, k + n) /\ Different(p, n) /\ Different(q, n)
  BY <1>1, <1>2 DEF Above
<1>6. \A i \in 0..(n - 1) : q[i] \in Lives(m) /\ p[i] \in Lives(m)
  <2>1. \A i \in 0..(n - 1) : q[i] \in FirstOf(q, n) /\ p[i] \in FirstOf(p, n)
    BY DEF FirstOf
  <2> QED  BY <1>5, <2>1
<1>7. ASSUME NEW i \in 0..(n - 1), NEW j \in 0..(n - 1), j <= i
      PROVE  q[i] # p[j]
  <2>1. lo + i # k + j
    BY <1>7
  <2>2. q[i] = <<a, lo + i>> /\ p[j] = <<a, k + j>>
    BY <1>1, <1>2 DEF Above
  <2> QED  BY <2>1, <2>2
<1>8. ASSUME NEW i \in 0..(n - 1)
      PROVE  Room(m, p[i])
  <2>1. PICK j : j = k + i /\ j < Cap(m, a)
    OBVIOUS
  <2>2. Room(m, <<a, j>>)
    BY <2>1 DEF Room
  <2> QED  BY <1>2, <2>1, <2>2 DEF Above
<1>9. PICK e : Runs(m, s, e, A) /\ Shifted(m, e, q, p, n)
  BY <1>3, <1>4, <1>5, <1>6, <1>7, <1>8, ShiftLoop
<1>10. \A i \in 0..(n - 1) : e.object[<<a, k + i>>] = m.object[<<a, lo + i>>]
  BY <1>1, <1>2, <1>9 DEF Shifted, Above
<1>11. \A l \in Lives(m) \ (Cells(a, k, k + n) \cup Cells(a, lo, lo + n)) : e.object[l] = m.object[l]
  BY <1>5, <1>9 DEF Shifted
<1> QED  BY <1>9, <1>10, <1>11 DEF Shifted, Pulled

LEMMA ShrinkInPlaceIs ==
    ASSUME NEW v, NEW k, NEW num, NEW left, left = size(v) - num
    PROVE  ShrinkInPlace(v, k, num) =
               Pulls(v, k, num, left - k) \o DropsUp(v, left, num)
               \o <<Point(v, m_begin[v], <<m_begin[v], left>>, m_capacity[v])>>
  BY DEF ShrinkInPlace, Pulls, DropsUp, At, Alternate, Steps

LEMMA ShrinkToStaticIs ==
    ASSUME NEW v, NEW k, NEW num
    PROVE  ShrinkToStatic(v, k, num) =
               MovesFirst(v, k, v) \o DropsUp(v, k, num) \o MovesRest(v, k, num, size(v) - num - k, v)
               \o FreeOld(v) \o <<Point(v, v, <<v, size(v) - num>>, StaticCapacity)>>
  BY DEF ShrinkToStatic, MovesFirst, MovesRest, DropsUp, Alternate, Steps

\* The elements behind those erased take their place.
LEMMA PulledGap ==
    ASSUME NEW xs, Rest(Memory, xs, {}), NEW v \in Vectors, NEW k \in Nat, NEW num \in Nat \ {0},
           NEW left \in Nat, left = size(v) - num, k <= left, NEW ys, Shut(ys, xs[v], k, num, Values),
           NEW a, a = m_begin[v], NEW h, Pulled(Memory, h, a, k, k + num, left - k),
           NEW g, Lost(h, g, Cells(a, left, left + num))
    PROVE  Gapped(Memory, g, v, a, ys, left, left)
<1>0. PICK s \in Nat : s = size(v)
  BY Found
<1>1. PICK w : w = xs[v] /\ Len(w) = s /\ s = size(v)
  BY <1>0, FoundElements
<1>2. /\ Elements(Memory, v) = Cells(a, 0, s) /\ Cells(a, 0, s) \subseteq Lives(Memory)
      /\ \A i \in 0..(s - 1) : Memory.object[<<a, i>>] = w[i + 1]
  BY <1>1, FoundElements
<1>3. left <= s /\ left + num = s /\ num \in Nat /\ Len(ys) = left /\ left = s - num
  BY <1>1 DEF Shut
<1>4. Cells(a, 0, s) = Cells(a, 0, left) \cup Cells(a, left, s) /\ Cells(a, 0, left) \cap Cells(a, left, s) = {}
  <2>1. 0 \in Int /\ left \in Int /\ s \in Int /\ 0 <= left /\ left <= s
    BY <1>3
  <2>2. Cells(a, 0, s) = Cells(a, 0, left) \cup Cells(a, left, s)
    BY <2>1, CellsJoin
  <2>3. Cells(a, 0, left) \cap Cells(a, left, s) = {}
    BY <2>1, CellsApart
  <2> QED  BY <2>2, <2>3
<1>5. Cells(a, left, left) = {} /\ left..(left - 1) = {}
  BY NoCells
<1>6. PICK lo, n : lo = k + num /\ n = left - k /\ lo + n = s /\ k + n = left /\ lo \in Nat /\ n \in Nat
  BY <1>3
<1>7. /\ Lives(h) = Lives(Memory)
      /\ \A l \in Lives(Memory) \ (Cells(a, k, left) \cup Cells(a, lo, s)) : h.object[l] = Memory.object[l]
      /\ \A i \in 0..(n - 1) : h.object[<<a, k + i>>] = Memory.object[<<a, lo + i>>]
  BY <1>6 DEF Pulled
<1>8. Lives(g) = Lives(h) \ Cells(a, left, s) /\ \A l \in Lives(g) : g.object[l] = h.object[l]
  BY <1>3 DEF Lost
<1>9. Lives(g) = (Lives(Memory) \ Elements(Memory, v)) \cup Cells(a, 0, left) \cup Cells(a, left, Len(ys))
  BY <1>2, <1>3, <1>4, <1>5, <1>7, <1>8
<1>10. ASSUME NEW l \in Lives(Memory) \ Elements(Memory, v)
       PROVE  g.object[l] = Memory.object[l]
  <2>1. Cells(a, k, left) \subseteq Cells(a, 0, s) /\ Cells(a, lo, s) \subseteq Cells(a, 0, s)
    <3>1. k..(left - 1) \subseteq 0..(s - 1) /\ lo..(s - 1) \subseteq 0..(s - 1)
      BY <1>3, <1>6
    <3> QED  BY <3>1 DEF Cells
  <2> QED  BY <1>2, <1>7, <1>8, <1>9, <2>1
<1>11. ASSUME NEW i \in 0..(left - 1)
       PROVE  g.object[<<a, i>>] = ys[i + 1]
  <2>1. i \in 0..(s - 1) /\ <<a, i>> \in Cells(a, 0, left)
    BY <1>3 DEF Cells
  <2>2. g.object[<<a, i>>] = h.object[<<a, i>>] /\ <<a, i>> \in Lives(Memory)
    BY <1>2, <1>4, <1>8, <1>9, <2>1
  <2>3. CASE i < k
    <3>1. <<a, i>> \notin Cells(a, k, left) /\ <<a, i>> \notin Cells(a, lo, s)
      <4>1. i \notin k..(left - 1) /\ i \notin lo..(s - 1)
        BY <1>6, <2>3
      <4> QED  BY <4>1 DEF Cells
    <3>2. ys[i + 1] = w[i + 1]
      <4>1. i \in 0..(k - 1)
        BY <2>3
      <4> QED  BY <1>1, <4>1 DEF Shut
    <3> QED  BY <1>2, <1>7, <2>1, <2>2, <3>1, <3>2
  <2>4. CASE i >= k
    <3>1. PICK j : j = i - k /\ j \in 0..(n - 1) /\ k + j = i /\ lo + j = i + num /\ lo + j \in 0..(s - 1)
      <4>1. PICK j \in Int : j = i - k
        OBVIOUS
      <4>2. i \in Nat /\ i < left /\ num \in Nat
        OBVIOUS
      <4> QED  BY <1>3, <1>6, <2>4, <4>1, <4>2
    <3>2. ys[i + 1] = w[i + num + 1]
      <4>1. i \in k..(Len(w) - num - 1)
        BY <1>1, <1>3, <2>4
      <4> QED  BY <1>1, <4>1 DEF Shut
    <3>3. h.object[<<a, i>>] = Memory.object[<<a, lo + j>>]
      BY <1>7, <3>1
    <3>4. Memory.object[<<a, lo + j>>] = w[i + num + 1]
      BY <1>2, <3>1
    <3> QED  BY <2>2, <3>2, <3>3, <3>4
  <2> QED  BY <2>3, <2>4
<1>12. Laid(g.object, a, ys, left, left)
  BY <1>3, <1>5, <1>11 DEF Laid
<1> QED  BY <1>9, <1>10, <1>12 DEF Gapped

LEMMA ShrinkInPlaceEnds ==
    ASSUME NEW xs, Rest(Memory, xs, {}), NEW v \in Vectors, NEW k \in Nat, NEW num \in Nat \ {0},
           k + num <= size(v), NEW ys, Shut(ys, xs[v], k, num, Values), NEW r, r = [xs EXCEPT ![v] = ys], NEW A
    PROVE  Ends(Memory, ShrinkInPlace(v, k, num), r, A)
<1>0. PICK s \in Nat : s = size(v)
  BY Found
<1>1. PICK w, a : w = xs[v] /\ Len(w) = s /\ s = size(v) /\ a = m_begin[v]
  BY <1>0, FoundElements
<1>2. PICK left, lo, n : /\ left = s - num /\ lo = k + num /\ n = left - k /\ left + num = s
                         /\ lo + n = s /\ k + n = left /\ k < lo /\ left <= s /\ k <= left
                         /\ left \in Nat /\ lo \in Nat /\ n \in Nat
  BY <1>1
<1>3. num \in Nat /\ Elements(Memory, v) = Cells(a, 0, s) /\ Cells(a, 0, s) \subseteq Lives(Memory)
  BY <1>1, FoundElements
<1>4. Cells(a, k, left) \subseteq Cells(a, 0, s) /\ Cells(a, lo, s) \subseteq Cells(a, 0, s)
      /\ Cells(a, left, s) \subseteq Cells(a, 0, s)
  <2>1. k..(left - 1) \subseteq 0..(s - 1) /\ lo..(s - 1) \subseteq 0..(s - 1) /\ left..(s - 1) \subseteq 0..(s - 1)
    BY <1>2
  <2> QED  BY <2>1 DEF Cells
<1>5. Cap(Memory, a) \in Nat /\ left <= Cap(Memory, a)
  <2>1. m_capacity[v] = Cap(Memory, m_begin[v]) /\ m_capacity[v] \in Nat /\ size(v) <= m_capacity[v]
    BY Found
  <2>2. PICK c \in Nat : c = Cap(Memory, a) /\ s <= c
    BY <1>1, <2>1
  <2> QED  BY <1>2, <2>2
<1>6. PICK t : t = Pulls(v, k, num, n)
  OBVIOUS
<1>7. Pulling(t, a, k, lo, n)
  BY <1>1, <1>2, <1>3, <1>6, PullsAre
<1>8. PICK h : Runs(Memory, t, h, A) /\ Pulled(Memory, h, a, k, lo, n)
  BY <1>2, <1>3, <1>4, <1>5, <1>7, PullsRun
<1>9. PICK u : u = DropsUp(v, left, num)
  OBVIOUS
<1>10. PICK g : Runs(h, u, g, A) /\ Lost(h, g, Cells(a, left, left + num))
  <2>1. Cells(a, left, left + num) \subseteq Lives(h)
    BY <1>2, <1>3, <1>4, <1>8 DEF Pulled
  <2> QED  BY <1>1, <1>2, <1>3, <1>9, <2>1, DropsUpRun
<1>11. Gapped(Memory, g, v, a, ys, left, left)
  BY <1>1, <1>2, <1>8, <1>10, PulledGap
<1>12. g.at = Memory.at /\ g.block = block
  BY <1>8, <1>10 DEF Pulled, Lost, Memory
<1>13. PICK y : Aimed(Memory, g, v, y)
  BY <1>12, AimedAt
<1>14. PICK P : P = <<Point(v, m_begin[v], <<m_begin[v], left>>, m_capacity[v])>>
  OBVIOUS
<1>15. Ends(g, P, r, A)
  <2>1. left \in 0..size(v) /\ Len(ys) = left /\ ys \in Seq(Values)
    BY <1>1, <1>2 DEF Shut
  <2> QED  BY <1>1, <1>11, <1>12, <1>13, <1>14, <2>1, CutRest
<1>16. Runs(Memory, t \o u, g, A)
  BY <1>8, <1>10, RunsConcat
<1>17. ShrinkInPlace(v, k, num) = t \o u \o P
  <2>1. left = size(v) - num /\ n = left - k
    BY <1>1, <1>2
  <2>2. ShrinkInPlace(v, k, num) =
            Pulls(v, k, num, left - k) \o DropsUp(v, left, num)
            \o <<Point(v, m_begin[v], <<m_begin[v], left>>, m_capacity[v])>>
    BY <2>1, ShrinkInPlaceIs
  <2> QED  BY <1>6, <1>9, <1>14, <2>1, <2>2
<1> QED  BY <1>15, <1>16, <1>17, EndsConcat

\* Nothing that is alive is in b, but for elements of v.
Outside(m, v, b) == \A l \in Lives(m) \ Elements(m, v) : l[1] # b

\* Nothing that is alive is in b.
Vacated(m, b) == \A l \in Lives(m) : l[1] # b

LEMMA Thirds ==
    ASSUME NEW s \in Nat, NEW k \in Nat, NEW num \in Nat, NEW left \in Nat, left = s - num, NEW lo, lo = k + num,
           NEW n \in Nat, n = left - k
    PROVE  /\ k + n = left /\ lo + n = s /\ lo \in Nat /\ k <= lo /\ lo <= s /\ k <= left /\ k <= s /\ left <= s
           /\ \A i \in 0..(k - 1) : i \in 0..(s - 1)
  OBVIOUS

\* i is the j-th place behind k, which the j-th element behind lo comes to.
Behind(i, j, s, k, num, left, lo, n) ==
    /\ j \in 0..(n - 1) /\ k + j = i /\ lo + j = i + num
    /\ lo + j \in 0..(s - 1) /\ lo + j \in lo..(s - 1)
    /\ lo + j \notin 0..(k - 1) /\ lo + j \notin k..(lo - 1)
    /\ i \in k..(s - num - 1)

LEMMA BehindIs ==
    ASSUME NEW s \in Nat, NEW k \in Nat, NEW num \in Nat, NEW left \in Nat, left = s - num, NEW lo, lo = k + num,
           NEW n \in Nat, n = left - k, NEW i \in 0..(left - 1), i >= k
    PROVE  \E j : Behind(i, j, s, k, num, left, lo, n)
<1>1. PICK j \in Int : j = i - k
  OBVIOUS
<1>2. Behind(i, j, s, k, num, left, lo, n)
  BY <1>1 DEF Behind
<1> QED  BY <1>2

LEMMA ShutLength ==
    ASSUME NEW ys, NEW w, NEW k, NEW num, NEW S, Shut(ys, w, k, num, S)
    PROVE  Len(ys) = Len(w) - num
  BY DEF Shut

\* The elements around those erased are moved to another buffer.
LEMMA CarriedGap ==
    ASSUME NEW xs, Rest(Memory, xs, {}), NEW v \in Vectors, NEW k \in Nat, NEW num \in Nat,
           NEW s \in Nat, s = size(v), NEW left \in Nat, left = s - num, NEW lo \in Nat, lo = k + num,
           NEW n \in Nat, n = left - k, NEW ys, Shut(ys, xs[v], k, num, Values),
           NEW a, a = m_begin[v], NEW p, p # a, Outside(Memory, v, p), Outside(Memory, v, a),
           NEW d, Transferred(Memory, d, a, 0, p, 0, k), NEW f, Lost(d, f, Cells(a, k, k + num)),
           NEW g, Transferred(f, g, a, lo, p, k, n)
    PROVE  /\ Gapped(Memory, g, v, p, ys, left, left) /\ Vacated(g, a)
<1>1. PICK w : w = xs[v] /\ Len(w) = s
  BY FoundElements
<1>2. PICK L : L = Lives(Memory) \ Elements(Memory, v)
  OBVIOUS
<1>3. /\ Elements(Memory, v) = Cells(a, 0, s) /\ Cells(a, 0, s) \subseteq Lives(Memory)
      /\ \A i \in 0..(s - 1) : Memory.object[<<a, i>>] = w[i + 1]
  BY <1>1, FoundElements
<1>4. k + n = left /\ lo + n = s /\ Len(ys) = left /\ k <= lo /\ lo <= s /\ k <= left /\ k <= s /\ left <= s
  <2>1. k + n = left /\ lo + n = s /\ k <= lo /\ lo <= s /\ k <= left /\ k <= s /\ left <= s
    BY Thirds
  <2>2. Len(ys) = s - num
    BY <1>1, ShutLength
  <2> QED  BY <2>1, <2>2
<1>5. Cells(a, 0, s) = Cells(a, 0, k) \cup Cells(a, k, lo) \cup Cells(a, lo, s)
  <2>1. 0 \in Int /\ k \in Int /\ lo \in Int /\ s \in Int /\ 0 <= k /\ k <= lo /\ lo <= s /\ k <= s
    BY <1>4
  <2>2. Cells(a, 0, s) = Cells(a, 0, k) \cup Cells(a, k, s)
    BY <2>1, CellsJoin
  <2>3. Cells(a, k, s) = Cells(a, k, lo) \cup Cells(a, lo, s)
    BY <2>1, CellsJoin
  <2> QED  BY <2>2, <2>3
<1>6. Cells(p, 0, left) = Cells(p, 0, k) \cup Cells(p, k, left)
  <2>1. 0 \in Int /\ k \in Int /\ left \in Int /\ 0 <= k /\ k <= left
    BY <1>4
  <2> QED  BY <2>1, CellsJoin
<1>7. \A i, j : \A l \in Cells(p, i, j) : l[1] = p
  BY DEF Cells
<1>8. \A i, j : \A l \in Cells(a, i, j) : l[1] = a
  BY DEF Cells
<1>9. /\ Lives(d) = (Lives(Memory) \ Cells(a, 0, k)) \cup Cells(p, 0, k)
      /\ \A l \in Lives(Memory) \ Cells(a, 0, k) : d.object[l] = Memory.object[l]
      /\ \A i \in 0..(k - 1) : d.object[<<p, i>>] = Memory.object[<<a, i>>]
  <2>1. 0 + k = k /\ \A i \in 0..(k - 1) : 0 + i = i
    OBVIOUS
  <2> QED  BY <2>1 DEF Transferred
<1>10. Lives(f) = Lives(d) \ Cells(a, k, lo) /\ \A l \in Lives(f) : f.object[l] = d.object[l]
  BY DEF Lost
<1>11. /\ Lives(g) = (Lives(f) \ Cells(a, lo, s)) \cup Cells(p, k, left)
       /\ \A l \in Lives(f) \ Cells(a, lo, s) : g.object[l] = f.object[l]
       /\ \A i \in 0..(n - 1) : g.object[<<p, k + i>>] = f.object[<<a, lo + i>>]
  BY <1>4 DEF Transferred
<1>12. /\ \A l \in Cells(p, 0, left) : l \notin Cells(a, 0, s)
       /\ \A l \in L : l \notin Cells(a, 0, s) /\ l \notin Cells(p, 0, left)
  BY <1>2, <1>7, <1>8 DEF Outside
<1>13. Lives(Memory) = L \cup Cells(a, 0, s) /\ L \cap Cells(a, 0, s) = {}
  BY <1>2, <1>3
<1>14. Lives(g) = L \cup Cells(p, 0, left)
  <2>1. Lives(g) \subseteq L \cup Cells(p, 0, left)
    BY <1>5, <1>6, <1>9, <1>10, <1>11, <1>13
  <2>2. L \subseteq Lives(g)
    BY <1>5, <1>9, <1>10, <1>11, <1>13
  <2>3. Cells(p, 0, left) \subseteq Lives(g)
    BY <1>5, <1>6, <1>9, <1>10, <1>11, <1>12
  <2> QED  BY <2>1, <2>2, <2>3
<1>15. ASSUME NEW l \in L
       PROVE  g.object[l] = Memory.object[l]
  BY <1>5, <1>9, <1>10, <1>11, <1>12, <1>13
<1>16. ASSUME NEW i \in 0..(left - 1)
       PROVE  g.object[<<p, i>>] = ys[i + 1]
  <2>1. CASE i < k
    <3>1. i \in 0..(k - 1) /\ i \in 0..(s - 1)
      <4>1. i \in 0..(k - 1)
        BY <2>1
      <4> QED  BY <4>1, Thirds
    <3>2. <<p, i>> \in Cells(p, 0, k)
      BY <3>1 DEF Cells
    <3>3. <<p, i>> \in Lives(f) /\ <<p, i>> \notin Cells(a, lo, s) /\ <<p, i>> \in Lives(d)
      BY <1>5, <1>6, <1>9, <1>10, <1>12, <3>2
    <3>4. g.object[<<p, i>>] = Memory.object[<<a, i>>]
      BY <1>9, <1>10, <1>11, <3>1, <3>3
    <3> QED  BY <1>1, <1>3, <3>1, <3>4 DEF Shut
  <2>2. CASE i >= k
    <3>1. PICK j : Behind(i, j, s, k, num, left, lo, n)
      BY <2>2, BehindIs
    <3>2. /\ j \in 0..(n - 1) /\ k + j = i /\ lo + j = i + num /\ lo + j \in 0..(s - 1) /\ lo + j \in lo..(s - 1)
          /\ lo + j \notin 0..(k - 1) /\ lo + j \notin k..(lo - 1) /\ i \in k..(Len(w) - num - 1)
      BY <1>1, <3>1 DEF Behind
    <3>3. PICK l : l = <<a, lo + j>> /\ l \in Cells(a, lo, s)
      BY <3>2 DEF Cells
    <3>4. l \notin Cells(a, 0, k) /\ l \notin Cells(a, k, lo)
      BY <3>2, <3>3 DEF Cells
    <3>5. l \in Lives(Memory) /\ l \in Lives(d) /\ l \in Lives(f)
      BY <1>3, <1>5, <1>9, <1>10, <3>3, <3>4
    <3>6. g.object[<<p, i>>] = Memory.object[l]
      <4>1. g.object[<<p, i>>] = f.object[l]
        BY <1>11, <3>2, <3>3
      <4>2. f.object[l] = d.object[l]
        BY <1>10, <3>5
      <4>3. d.object[l] = Memory.object[l]
        BY <1>9, <3>4, <3>5
      <4> QED  BY <4>1, <4>2, <4>3
    <3>7. Memory.object[l] = w[i + num + 1] /\ ys[i + 1] = w[i + num + 1]
      BY <1>1, <1>3, <3>2, <3>3 DEF Shut
    <3> QED  BY <3>6, <3>7
  <2> QED  BY <2>1, <2>2
<1>17. Cells(p, left, Len(ys)) = {} /\ left..(left - 1) = {}
  <2>1. left \in Int
    OBVIOUS
  <2>2. left..(left - 1) = {}
    BY <2>1
  <2> QED  BY <1>4, <2>1, <2>2, NoCells
<1>18. Laid(g.object, p, ys, left, left)
  BY <1>4, <1>16, <1>17 DEF Laid
<1>19. Gapped(Memory, g, v, p, ys, left, left)
  BY <1>2, <1>14, <1>15, <1>17, <1>18 DEF Gapped
<1>20. Vacated(g, a)
  BY <1>2, <1>7, <1>14 DEF Outside, Vacated
<1> QED  BY <1>19, <1>20

LEMMA ShrinkToStaticEnds ==
    ASSUME NEW xs, Rest(Memory, xs, {}), NEW v \in Vectors, ~is_static(v), NEW k \in Nat, NEW num \in Nat,
           k + num <= size(v), size(v) - num <= StaticCapacity,
           NEW ys, Shut(ys, xs[v], k, num, Values), NEW r, r = [xs EXCEPT ![v] = ys], NEW A
    PROVE  Ends(Memory, ShrinkToStatic(v, k, num), r, A)
<1>0. PICK s \in Nat : s = size(v)
  BY Found
<1>1. PICK a : a = m_begin[v] /\ a # v
  BY DEF is_static
<1>2. PICK left, lo, n : /\ left = s - num /\ lo = k + num /\ n = left - k /\ lo + n = s /\ k + n = left
                         /\ k <= lo /\ left <= s /\ k <= left /\ left <= StaticCapacity
                         /\ left \in Nat /\ lo \in Nat /\ n \in Nat /\ n = s - num - k
  BY <1>0
<1>3. Elements(Memory, v) = Cells(a, 0, s) /\ Cells(a, 0, s) \subseteq Lives(Memory)
  BY <1>0, <1>1, FoundElements
<1>4. \A l \in Lives(Memory) \ Elements(Memory, v) : l[1] # v /\ l[1] # a
  <2>1. a = Begin(Memory, v)
    BY <1>1, Found
  <2> QED  BY <2>1, Elsewhere
<1>5. Cap(Memory, v) = StaticCapacity /\ StaticCapacity \in Nat
  BY StaticCapacityAssumption DEF Cap
<1>6. /\ Cells(a, 0, s) = Cells(a, 0, k) \cup Cells(a, k, lo) \cup Cells(a, lo, s)
      /\ Cells(a, 0, k) \cap Cells(a, k, lo) = {} /\ Cells(a, 0, k) \cap Cells(a, lo, s) = {}
      /\ Cells(a, k, lo) \cap Cells(a, lo, s) = {}
  <2>1. 0..(s - 1) = 0..(k - 1) \cup k..(lo - 1) \cup lo..(s - 1)
    BY <1>2
  <2>2. /\ 0..(k - 1) \cap k..(lo - 1) = {} /\ 0..(k - 1) \cap lo..(s - 1) = {}
        /\ k..(lo - 1) \cap lo..(s - 1) = {}
    BY <1>2
  <2> QED  BY <2>1, <2>2 DEF Cells
<1>7. \A i, j : \A l \in Cells(v, i, j) : l[1] = v
  BY DEF Cells
<1>8. \A i, j : \A l \in Cells(a, i, j) : l[1] = a
  BY DEF Cells
<1>9. PICK t : t = MovesFirst(v, k, v)
  OBVIOUS
<1>10. PICK d : Runs(Memory, t, d, A) /\ Transferred(Memory, d, a, 0, v, 0, k)
  <2>1. Relocates(t, a, 0, v, 0, k)
    BY <1>1, <1>9, MovesFirstAre
  <2>2. 0 + k = k /\ 0 \in Nat /\ k <= StaticCapacity
    BY <1>2, StaticCapacityAssumption
  <2>3. Cells(v, 0, k) \cap Lives(Memory) = {}
    BY <1>1, <1>3, <1>4, <1>7, <1>8
  <2>4. Cells(a, 0, k) \subseteq Lives(Memory)
    BY <1>3, <1>6
  <2>5. Cells(v, 0, 0 + k) \cap Lives(Memory) = {} /\ Cells(a, 0, 0 + k) \subseteq Lives(Memory)
    BY <2>2, <2>3, <2>4
  <2>6. Cap(Memory, v) \in Nat /\ 0 + k <= Cap(Memory, v)
    BY <1>5, <2>2
  <2> QED  BY <2>1, <2>2, <2>5, <2>6, TransferRuns
<1>11. Lives(d) = (Lives(Memory) \ Cells(a, 0, k)) \cup Cells(v, 0, k) /\ d.at = Memory.at /\ d.block = Memory.block
  <2>1. 0 + k = k
    OBVIOUS
  <2> QED  BY <1>10, <2>1 DEF Transferred
<1>12. PICK u : u = DropsUp(v, k, num)
  OBVIOUS
<1>13. PICK f : Runs(d, u, f, A) /\ Lost(d, f, Cells(a, k, k + num))
  <2>1. Cells(a, k, k + num) \subseteq Lives(d)
    BY <1>2, <1>3, <1>6, <1>11
  <2> QED  BY <1>1, <1>12, <2>1, DropsUpRun
<1>14. Lives(f) = Lives(d) \ Cells(a, k, lo) /\ f.at = Memory.at /\ f.block = Memory.block
  BY <1>2, <1>11, <1>13 DEF Lost
<1>15. PICK x : x = MovesRest(v, k, num, n, v)
  OBVIOUS
<1>16. PICK g : Runs(f, x, g, A) /\ Transferred(f, g, a, lo, v, k, n)
  <2>1. Relocates(x, a, lo, v, k, n)
    BY <1>1, <1>2, <1>15, MovesRestAre
  <2>2. Cells(a, lo, lo + n) \subseteq Lives(f)
    BY <1>2, <1>3, <1>6, <1>11, <1>14
  <2>3. Cells(v, k, left) \cap Lives(f) = {}
    <3>1. Cells(v, k, left) \cap Cells(v, 0, k) = {}
      <4>1. 0..(k - 1) \cap k..(left - 1) = {}
        BY <1>2
      <4> QED  BY <4>1 DEF Cells
    <3>2. \A l \in Cells(v, k, left) : l \notin Lives(Memory)
      BY <1>1, <1>3, <1>4, <1>7, <1>8
    <3> QED  BY <1>11, <1>14, <3>1, <3>2
  <2>4. Cap(f, v) \in Nat /\ k + n <= Cap(f, v)
    BY <1>2, <1>5 DEF Cap
  <2> QED  BY <1>2, <2>1, <2>2, <2>3, <2>4, TransferRuns
<1>17. Gapped(Memory, g, v, v, ys, left, left) /\ Vacated(g, a)
  <2>1. Outside(Memory, v, v) /\ Outside(Memory, v, a)
    BY <1>4 DEF Outside
  <2>2. s = size(v) /\ left = s - num /\ lo = k + num /\ n = left - k /\ left \in Nat /\ lo \in Nat /\ n \in Nat
    BY <1>0, <1>2
  <2> QED  BY <1>1, <1>10, <1>13, <1>16, <2>1, <2>2, CarriedGap
<1>18. g.at = Memory.at /\ g.block = block
  BY <1>14, <1>16 DEF Transferred, Memory
<1>19. PICK y : Aimed(Memory, g, v, y)
  BY <1>18, AimedAt
<1>20. PICK to : to = [ptr |-> v, cap |-> StaticCapacity, steps |-> <<>>]
  OBVIOUS
<1>21. to.ptr = v /\ to.cap = StaticCapacity /\ to.steps = <<>>
  BY <1>20
<1>22. Chosen(to, v, left) /\ to.ptr # m_begin[v] /\ left <= to.cap /\ g.block = OpenBlocks(to)
  BY <1>1, <1>2, <1>18, <1>21, StaticCapacityAssumption DEF Chosen, OpenBlocks
<1>23. PICK P : P = <<Point(v, v, <<v, left>>, StaticCapacity)>>
  OBVIOUS
<1>24. PICK h, e : /\ Runs(g, FreeOld(v), h, A) /\ Runs(h, P, e, A)
                   /\ Rebased(Memory, e, v, v, left, StaticCapacity) /\ e.object = g.object
  <2>1. PICK h, e : /\ Runs(g, FreeOld(v), h, A)
                    /\ Runs(h, <<Point(v, to.ptr, <<to.ptr, left>>, to.cap)>>, e, A)
                    /\ Rebased(Memory, e, v, to.ptr, left, to.cap) /\ e.object = g.object
    <3>1. \A l \in Lives(g) : l[1] # m_begin[v]
      BY <1>1, <1>17 DEF Vacated
    <3>2. left \in Nat
      BY <1>2
    <3> QED  BY <1>18, <1>19, <1>22, <3>1, <3>2, Settle
  <2> QED  BY <1>21, <1>23, <2>1
<1>25. Gapped(Memory, e, v, v, ys, left, left)
  BY <1>17, <1>24 DEF Gapped, Lives
<1>26. Rest(e, r, {})
  <2>1. Len(ys) = left /\ ys \in Seq(Values) /\ left \in 0..Len(ys)
    <3>1. Len(xs[v]) = size(v)
      BY FoundElements
    <3> QED  BY <1>0, <1>2, <3>1 DEF Shut
  <2> QED  BY <1>24, <1>25, <2>1, GapRest
<1>27. Runs(Memory, t \o u \o x, g, A)
  BY <1>10, <1>13, <1>16, RunsThree
<1>28. Runs(Memory, t \o u \o x \o FreeOld(v) \o P, e, A)
  BY <1>24, <1>27, RunsThree
<1>29. ShrinkToStatic(v, k, num) = t \o u \o x \o FreeOld(v) \o P
  <2>1. left = size(v) - num /\ n = size(v) - num - k
    BY <1>0, <1>2
  <2> QED  BY <1>9, <1>12, <1>15, <1>23, <2>1, ShrinkToStaticIs
<1>30. Runs(Memory, ShrinkToStatic(v, k, num), e, A)
  BY <1>28, <1>29
<1> QED  BY <1>26, <1>30 DEF Ends

LEMMA EraseEnds ==
    ASSUME NEW xs, Rest(Memory, xs, {}), NEW v \in Vectors, NEW k \in Nat, NEW num \in Nat \ {0},
           k + num <= size(v), NEW r, r = [xs EXCEPT ![v] = Erased(xs[v], k, num)], NEW A
    PROVE  Ends(Memory, shrink_at(v, k, num), r, A)
<1>0. PICK s \in Nat : s = size(v) /\ s <= m_capacity[v] /\ m_capacity[v] \in Nat
  BY Found
<1>1. PICK w : w = xs[v] /\ w \in Seq(Values) /\ Len(w) = s
  BY <1>0, FoundElements
<1>2. PICK ys : ys = Erased(w, k, num)
  OBVIOUS
<1>3. num \in Nat /\ k + num <= Len(w)
  BY <1>0, <1>1
<1>4. Shut(ys, w, k, num, Values)
  BY <1>1, <1>2, <1>3, ErasedIs
<1>9. r = [xs EXCEPT ![v] = ys] /\ Shut(ys, xs[v], k, num, Values)
  BY <1>1, <1>2, <1>4
<1>5. CASE s = num
  <2>1. ys = <<>>
    <3>1. ys \in Seq(Values) /\ Len(ys) = 0
      BY <1>1, <1>4, <1>5 DEF Shut
    <3> QED  BY <3>1
  <2>2. PICK e : Runs(Memory, clear(v), e, A) /\ Rest(e, [xs EXCEPT ![v] = <<>>], {})
    BY ClearRuns
  <2>3. shrink_at(v, k, num) = clear(v)
    BY <1>0, <1>5 DEF shrink_at
  <2> QED  BY <1>1, <1>2, <2>1, <2>2, <2>3 DEF Ends
<1>6. CASE s # num
  <2>1. PICK n \in Nat : n = size(v) - num /\ n < m_capacity[v]
    BY <1>0, <1>1, <1>3
  <2>2. CASE choose_data(v, size(v) - num, v).ptr = m_begin[v]
    <3>1. shrink_at(v, k, num) = ShrinkInPlace(v, k, num)
      BY <1>0, <1>6, <2>2 DEF shrink_at
    <3>2. Ends(Memory, ShrinkInPlace(v, k, num), r, A)
      BY <1>9, ShrinkInPlaceEnds
    <3> QED  BY <3>1, <3>2
  <2>3. CASE choose_data(v, size(v) - num, v).ptr # m_begin[v]
    <3>1. shrink_at(v, k, num) = ShrinkToStatic(v, k, num)
      BY <1>0, <1>6, <2>3 DEF shrink_at
    <3>2. ~is_static(v) /\ n <= StaticCapacity
      <4>1. is_static(v) => m_capacity[v] = StaticCapacity
        BY Found
      <4>2. ~is_static(v) /\ n < RevertToStaticBelow
        BY <1>0, <2>1, <2>3, <4>1 DEF choose_data
      <4> QED  BY <4>2, RevertAssumption, StaticCapacityAssumption
    <3>3. Ends(Memory, ShrinkToStatic(v, k, num), r, A)
      BY <1>3, <1>9, <2>1, <3>2, ShrinkToStaticEnds
    <3> QED  BY <3>1, <3>3
  <2> QED  BY <2>2, <2>3
<1> QED  BY <1>5, <1>6

-----------------------------------------------------------------------------
(* Assigning.                                                              *)

\* The vector that an assignment to v leaves torn, if it throws in m.
TornAt(m, v) == {u \in {v} : Size(m, u) # 0}

\* Until an assignment has allocated, what is left is the other vectors.
LEMMA TornRest ==
    ASSUME NEW xs, Rest(Memory, xs, {}), NEW v \in Vectors, NEW g, Lost(Memory, g, Elements(Memory, v))
    PROVE  Rest(g, xs, TornAt(g, v))
<1>1. g.at = Memory.at /\ g.block = Memory.block
  BY DEF Lost
<1>2. \A u : Begin(g, u) = Begin(Memory, u) /\ Size(g, u) = Size(Memory, u) /\ Elements(g, u) = Elements(Memory, u)
  BY <1>1 DEF Begin, Size, Elements
<1>3. \A b : Cap(g, b) = Cap(Memory, b)
  BY <1>1 DEF Cap
<1>4. Housing(Memory) /\ xs \in [Vectors -> Seq(Values)]
      /\ Lives(Memory) = UNION {Elements(Memory, u) : u \in Vectors}
      /\ \A u \in Vectors : Holds(Memory, u, xs[u])
  BY DEF Rest
<1>5. Housing(g)
  <2>1. \A u \in Vectors : Housed(g, u)
    BY <1>1, <1>2, <1>3, <1>4 DEF Housing, Housed
  <2> QED  BY <1>1, <1>2, <1>4, <2>1 DEF Housing
<1>6. ASSUME NEW u \in Vectors \ {v}
      PROVE  Elements(Memory, u) \cap Elements(Memory, v) = {}
  <2>1. Begin(Memory, u) # Begin(Memory, v) /\ Housed(Memory, u) /\ Housed(Memory, v)
    BY <1>4 DEF Housing
  <2>2. Size(Memory, u) \in Int /\ Size(Memory, v) \in Int /\ 0 \in Int
    BY <2>1 DEF Housed
  <2> QED  BY <2>1, <2>2, CellsApart DEF Elements
<1>7. Lives(g) = Lives(Memory) \ Elements(Memory, v) /\ \A l \in Lives(g) : g.object[l] = Memory.object[l]
  BY DEF Lost
<1>8. Size(g, v) = 0 => Elements(Memory, v) = {}
  <2>1. Size(g, v) = 0 => Elements(g, v) = {}
    BY NoCells DEF Elements
  <2> QED  BY <1>2, <2>1
<1>9. Lives(g) = UNION {Elements(g, u) : u \in Vectors \ TornAt(g, v)}
  <2>1. CASE Size(g, v) = 0
    <3>1. TornAt(g, v) = {}
      BY <2>1 DEF TornAt
    <3> QED  BY <1>2, <1>4, <1>7, <1>8, <2>1, <3>1
  <2>2. CASE Size(g, v) # 0
    <3>1. TornAt(g, v) = {v}
      BY <2>2 DEF TornAt
    <3>2. ASSUME NEW l \in Lives(g)
          PROVE  \E u \in Vectors \ {v} : l \in Elements(g, u)
      <4>1. PICK u \in Vectors : l \in Elements(Memory, u)
        BY <1>4, <1>7
      <4> QED  BY <1>2, <1>7, <4>1
    <3>3. ASSUME NEW u \in Vectors \ {v}, NEW l \in Elements(g, u)
          PROVE  l \in Lives(g)
      BY <1>2, <1>4, <1>6, <1>7
    <3> QED  BY <3>1, <3>2, <3>3
  <2> QED  BY <2>1, <2>2
<1>10. ASSUME NEW u \in Vectors \ TornAt(g, v)
       PROVE  Holds(g, u, xs[u])
  <2>1. Holds(Memory, u, xs[u]) /\ Size(g, u) = Size(Memory, u) /\ Begin(g, u) = Begin(Memory, u)
    BY <1>2, <1>4
  <2>2. ASSUME NEW i \in 0..(Size(g, u) - 1)
        PROVE  g.object[<<Begin(g, u), i>>] = Memory.object[<<Begin(g, u), i>>]
    <3>1. <<Begin(g, u), i>> \in Elements(g, u)
      BY DEF Elements, Cells
    <3> QED  BY <1>7, <1>9, <3>1
  <2> QED  BY <2>1, <2>2 DEF Holds
<1> QED  BY <1>4, <1>5, <1>9, <1>10 DEF Rest

\* What the elements are made of is there once v has been emptied.
Making(m, made, b, ys, n) ==
    \A i \in 0..(n - 1) : Builds(m, made[i + 1], <<b, i>>, ys[i + 1])

\* The elements are constructed and counted.
AssignPairs(v, n, made, to) ==
    Alternate(n, LAMBDA i : made[i + 1], LAMBDA i : Point(v, m_begin[v], <<to.ptr, i + 1>>, m_capacity[v]))

LEMMA AssignImplIs ==
    ASSUME NEW v, NEW n, NEW made, NEW to
    PROVE  assign_impl(v, n, made, to) =
               to.steps \o <<Point(v, m_begin[v], <<to.ptr, 0>>, m_capacity[v])>>
               \o AssignPairs(v, n, made, to) \o (IF m_begin[v] = to.ptr THEN <<>> ELSE FreeOld(v))
               \o <<Point(v, to.ptr, <<to.ptr, n>>, to.cap)>>
  BY DEF assign_impl, AssignPairs, Alternate

\* The steps t are those of made, and point v after each.
Counts(t, v, made, b, n, a, c) ==
    /\ IsSequence(t) /\ Len(t) = 2 * n
    /\ \A i \in 0..(n - 1) : t[2 * i + 1] = made[i + 1] /\ t[2 * i + 2] = Point(v, a, <<b, i + 1>>, c)

LEMMA AssignPairsAre ==
    ASSUME NEW v, NEW n \in Nat, NEW made, NEW to, NEW b, b = to.ptr, NEW a, a = m_begin[v],
           NEW c, c = m_capacity[v]
    PROVE  Counts(AssignPairs(v, n, made, to), v, made, b, n, a, c)
<1>1. PICK t : t = AssignPairs(v, n, made, to)
  OBVIOUS
<1>2. t = [i \in 1..(2 * n) |-> IF i % 2 = 1 THEN made[i \div 2 + 1]
                                ELSE Point(v, a, <<b, (i \div 2 - 1) + 1>>, c)]
  BY <1>1 DEF AssignPairs, Alternate
<1>3. t = [i \in 1..(2 * n) |-> t[i]] /\ 2 * n \in Nat
  BY <1>2
<1>4. IsSequence(t) /\ Len(t) = 2 * n
  BY <1>3, SequenceIs
<1>5. ASSUME NEW i \in 0..(n - 1)
      PROVE  t[2 * i + 1] = made[i + 1] /\ t[2 * i + 2] = Point(v, a, <<b, i + 1>>, c)
  <2>1. PICK y, z : y = 2 * i + 1 /\ z = 2 * i + 2
    OBVIOUS
  <2>2. y \in 1..(2 * n) /\ z \in 1..(2 * n) /\ y % 2 = 1 /\ y \div 2 = i /\ z % 2 # 1 /\ z \div 2 - 1 = i
    BY <2>1, Halves
  <2>3. t[y] = made[i + 1] /\ t[z] = Point(v, a, <<b, i + 1>>, c)
    BY <1>2, <2>2
  <2> QED  BY <2>1, <2>3
<1> QED  BY <1>1, <1>4, <1>5 DEF Counts

LEMMA CountsCount ==
    ASSUME NEW t, NEW v, NEW made, NEW b, NEW n \in Nat, NEW a, NEW c, Counts(t, v, made, b, n, a, c),
           NEW m, NEW e, e.object = m.object, NEW ys, Making(m, made, b, ys, n)
    PROVE  Counting(e, t, v, a, b, 0, ys, n, c)
<1>1. ASSUME NEW i \in 0..(n - 1)
      PROVE  /\ Builds(e, t[2 * i + 1], <<b, 0 + i>>, ys[0 + i + 1])
             /\ t[2 * i + 2] = Point(v, a, <<b, 0 + i + 1>>, c)
  <2>1. 0 + i = i
    OBVIOUS
  <2>2. Builds(m, made[i + 1], <<b, i>>, ys[i + 1]) /\ t[2 * i + 1] = made[i + 1]
        /\ t[2 * i + 2] = Point(v, a, <<b, i + 1>>, c)
    BY DEF Making, Counts
  <2>3. Builds(e, made[i + 1], <<b, i>>, ys[i + 1])
    BY <2>2 DEF Builds, Lives
  <2> QED  BY <2>1, <2>2, <2>3
<1> QED  BY <1>1 DEF Counting, Counts

\* The steps s lead from m to vectors at rest that contain r; allocation is from g, where v is empty.
Assigns(m, s, r, xs, v) == \E g : Ends(m, s, r, {g}) /\ Rest(g, xs, TornAt(g, v))

LEMMA RunsMore ==
    ASSUME NEW m, NEW s, NEW e, NEW A, Runs(m, s, e, A), NEW B, A \subseteq B
    PROVE  Runs(m, s, e, B)
<1>1. PICK f : Path(f, m, s, Len(s), A) /\ f[Len(s)] = e
  BY DEF Runs
<1>2. Path(f, m, s, Len(s), B)
  BY <1>1 DEF Path, Takes
<1> QED  BY <1>1, <1>2 DEF Runs

\* The vector has been emptied, and the elements are to be constructed in b.
LEMMA EmptiedGap ==
    ASSUME NEW m, NEW v, NEW g, Lost(m, g, Elements(m, v)), NEW e, e.object = g.object, NEW b,
           NEW ys, NEW n \in Nat, Len(ys) = n
    PROVE  Gapped(m, e, v, b, ys, 0, n)
<1>1. Cells(b, 0, 0) = {} /\ Cells(b, n, n) = {}
  BY NoCells
<1>2. n..(n - 1) = {} /\ 0..(0 - 1) = {}
  OBVIOUS
<1>3. Laid(e.object, b, ys, 0, n)
  BY <1>2 DEF Laid
<1> QED  BY <1>1, <1>3 DEF Gapped, Lost, Lives

LEMMA AssignEnds ==
    ASSUME NEW xs, Rest(Memory, xs, {}), NEW v \in Vectors, NEW n \in Nat, NEW to, Chosen(to, v, n),
           NEW ys \in Seq(Values), Len(ys) = n, NEW made,
           \A m : Lost(Memory, m, Elements(Memory, v)) => Making(m, made, to.ptr, ys, n),
           NEW r, r = [xs EXCEPT ![v] = ys]
    PROVE  Assigns(Memory, destroy_all(v) \o assign_impl(v, n, made, to), r, xs, v)
<1>1. PICK b, a, c : b = to.ptr /\ a = m_begin[v] /\ c = m_capacity[v]
  OBVIOUS
<1>2. PICK D, S, P, T, F, Q : /\ D = destroy_all(v) /\ S = to.steps /\ P = <<Point(v, a, <<b, 0>>, c)>>
                              /\ T = AssignPairs(v, n, made, to) /\ F = (IF a = b THEN <<>> ELSE FreeOld(v))
                              /\ Q = <<Point(v, b, <<b, n>>, to.cap)>>
  OBVIOUS
<1>3. PICK g : Runs(Memory, D, g, {}) /\ Lost(Memory, g, Elements(Memory, v)) /\ Vacated(g, a)
  <2>1. PICK g : /\ Runs(Memory, destroy_all(v), g, {}) /\ Lost(Memory, g, Elements(Memory, v))
                 /\ \A l \in Lives(g) : l[1] # m_begin[v]
    BY Emptied
  <2> QED  BY <1>1, <1>2, <2>1 DEF Vacated
<1>4. PICK A : A = {g}
  OBVIOUS
<1>5. Runs(Memory, D, g, A) /\ g \in A /\ g.at = Memory.at /\ g.block = block
  <2>1. {} \subseteq A /\ g \in A
    BY <1>4
  <2>2. Runs(Memory, D, g, A)
    BY <1>3, <2>1, RunsMore
  <2> QED  BY <1>3, <2>1, <2>2 DEF Lost, Memory
<1>6. Making(g, made, b, ys, n)
  BY <1>1, <1>3
<1>7. PICK m : Runs(g, S, m, A) /\ m.at = g.at /\ m.object = g.object /\ m.block = OpenBlocks(to)
  BY <1>2, <1>5, Open
<1>8. PICK e : Runs(m, P, e, A) /\ Pointed(m, e, v, Place(a, <<b, 0>>, c))
  BY <1>2, PointRuns
<1>9. e.object = g.object /\ e.block = OpenBlocks(to) /\ Aimed(Memory, e, v, Place(a, <<b, 0>>, c))
      /\ Aimed(e, e, v, Place(a, <<b, 0>>, c))
  <2>1. Memory.at = [u \in Vectors |-> Memory.at[u]]
    BY DEF Rest, Housing
  <2> QED  BY <1>5, <1>7, <1>8, <2>1 DEF Pointed, Aimed
<1>10. Gapped(Memory, e, v, b, ys, 0, n)
  BY <1>3, <1>9, EmptiedGap
<1>11. Counting(e, T, v, a, b, 0, ys, n, c)
  <2>1. Counts(T, v, made, b, n, a, c)
    BY <1>1, <1>2, AssignPairsAre
  <2> QED  BY <1>6, <1>9, <2>1, CountsCount
<1>12. Cap(e, b) = to.cap /\ to.cap \in Nat /\ n <= to.cap /\ Usable(Memory, v, b)
  BY <1>1, <1>9, ChosenCap, ChosenUsable DEF Chosen
<1>13. PICK d : /\ Runs(e, T, d, A) /\ Aimed(e, d, v, Place(a, <<b, n>>, c)) /\ d.block = OpenBlocks(to)
                /\ Gapped(Memory, d, v, b, ys, n, n)
  <2>1. Len(ys) \in Nat /\ 0 \in Nat /\ n \in 0..Len(ys) /\ n = n - 0 /\ Len(ys) <= Cap(e, b) /\ Cap(e, b) \in Nat
    BY <1>12
  <2>2. PICK d : /\ Runs(e, T, d, A) /\ Aimed(e, d, v, Place(a, <<b, n>>, c)) /\ d.block = e.block
                 /\ Gapped(Memory, d, v, b, ys, n, n)
    BY <1>9, <1>10, <1>11, <1>12, <2>1, GapCount
  <2> QED  BY <1>9, <2>2
<1>14. Aimed(Memory, d, v, Place(a, <<b, n>>, c))
  BY <1>9, <1>13, AimedTwice
<1>15. \E h, f : Runs(d, F, h, A) /\ Runs(h, Q, f, A) /\ Rest(f, r, {})
  <2>1. n \in 0..Len(ys)
    OBVIOUS
  <2>2. CASE a # b
    <3>1. \A l \in Lives(d) : l[1] # m_begin[v]
      <4>1. \A l \in Cells(b, 0, n) \cup Cells(b, n, Len(ys)) : l[1] = b
        BY DEF Cells
      <4>2. \A l \in Lives(Memory) \ Elements(Memory, v) : l[1] # a
        BY <1>3 DEF Lost, Vacated
      <4> QED  BY <1>1, <1>13, <2>2, <4>1, <4>2 DEF Gapped
    <3>2. PICK h, f : /\ Runs(d, FreeOld(v), h, A)
                      /\ Runs(h, <<Point(v, to.ptr, <<to.ptr, n>>, to.cap)>>, f, A)
                      /\ Rebased(Memory, f, v, to.ptr, n, to.cap) /\ f.object = d.object
      BY <1>1, <1>12, <1>13, <1>14, <2>2, <3>1, Settle
    <3>3. Gapped(Memory, f, v, b, ys, n, n)
      BY <1>13, <3>2 DEF Gapped, Lives
    <3>4. Rest(f, r, {})
      BY <1>1, <2>1, <3>2, <3>3, GapRest
    <3>5. F = FreeOld(v) /\ Q = <<Point(v, to.ptr, <<to.ptr, n>>, to.cap)>>
      BY <1>1, <1>2, <2>2
    <3> QED  BY <3>2, <3>4, <3>5
  <2>3. CASE a = b
    <3>1. to.cap = c /\ to.steps = <<>>
      <4>1. /\ m_capacity[v] \in Nat \ {0} /\ m_begin[v] \in Blocks \cup {v}
            /\ ~is_static(v) => m_begin[v] \in Blocks \ Vectors /\ block[m_begin[v]] = m_capacity[v]
        BY Found
      <4>2. ~(to.ptr \in Free)
        BY <1>1, <2>3, <4>1, BuffersAssumption DEF Free, is_static
      <4> QED  BY <1>1, <2>3, <4>2 DEF Chosen, is_static
    <3>2. PICK f : Runs(d, Q, f, A) /\ Pointed(d, f, v, Place(b, <<b, n>>, to.cap))
      BY <1>2, PointRuns
    <3>3. Aimed(Memory, f, v, Place(m_begin[v], <<m_begin[v], n>>, m_capacity[v])) /\ f.block = block
      BY <1>1, <1>13, <1>14, <2>3, <3>1, <3>2 DEF Aimed, Pointed, OpenBlocks
    <3>4. Rebased(Memory, f, v, b, n, c)
      BY <1>1, <1>12, <2>3, <3>1, <3>3, Stay
    <3>5. Gapped(Memory, f, v, b, ys, n, n)
      BY <1>13, <3>2 DEF Gapped, Lives, Pointed
    <3>6. Rest(f, r, {})
      BY <2>1, <3>4, <3>5, GapRest
    <3>7. Runs(d, F, d, A)
      BY <1>2, <2>3, RunsNone
    <3> QED  BY <3>2, <3>6, <3>7
  <2> QED  BY <2>2, <2>3
<1>16. Ends(g, S \o P \o T \o F \o Q, r, A)
  <2>1. Runs(g, S \o P \o T, d, A)
    BY <1>7, <1>8, <1>13, RunsThree
  <2>2. PICK h, f : Runs(d, F, h, A) /\ Runs(h, Q, f, A) /\ Rest(f, r, {})
    BY <1>15
  <2>3. Runs(g, S \o P \o T \o F \o Q, f, A)
    BY <2>1, <2>2, RunsThree
  <2> QED  BY <2>2, <2>3 DEF Ends
<1>17. assign_impl(v, n, made, to) = S \o P \o T \o F \o Q
  BY <1>1, <1>2, AssignImplIs
<1>18. Ends(Memory, D \o assign_impl(v, n, made, to), r, A)
  BY <1>5, <1>16, <1>17, EndsConcat
<1>19. Rest(g, xs, TornAt(g, v))
  BY <1>3, TornRest
<1> QED  BY <1>2, <1>4, <1>18, <1>19 DEF Assigns

\* Elements made of values from outside.
AssignPuts(to, zs) == Steps(Len(zs), LAMBDA i : Put(<<to.ptr, i>>, zs[i + 1]))

LEMMA PutsMake ==
    ASSUME NEW to, NEW zs \in Seq(Values), NEW m, NEW n, n = Len(zs), NEW made, made = AssignPuts(to, zs),
           NEW b, b = to.ptr
    PROVE  Making(m, made, b, zs, n)
<1>1. n \in Nat
  OBVIOUS
<1>2. made = [i \in 1..n |-> Put(<<b, i - 1>>, zs[(i - 1) + 1])]
  BY DEF AssignPuts, Steps
<1>3. ASSUME NEW i \in 0..(n - 1)
      PROVE  made[i + 1] = Put(<<b, i>>, zs[i + 1])
  <2>1. PICK j : j = i + 1
    OBVIOUS
  <2>2. j \in 1..n /\ j - 1 = i
    BY <1>1, <2>1
  <2>3. made[j] = Put(<<b, i>>, zs[i + 1])
    BY <1>2, <2>2
  <2> QED  BY <2>1, <2>3
<1> QED  BY <1>3 DEF Making, Builds

\* Copies of the elements of w.
CopyMade(w, to) == Steps(size(w), LAMBDA i : Copy(At(w, i), <<to.ptr, i>>))

LEMMA CopiesMake ==
    ASSUME NEW xs, Rest(Memory, xs, {}), NEW v \in Vectors, NEW w \in Vectors, v # w, NEW to, NEW m,
           Lost(Memory, m, Elements(Memory, v)), NEW n, n = size(w), NEW made, made = CopyMade(w, to),
           NEW b, b = to.ptr, NEW ys, ys = xs[w]
    PROVE  Making(m, made, b, ys, n)
<1>1. PICK a : a = m_begin[w]
  OBVIOUS
<1>2. n \in Nat /\ Elements(Memory, w) = Cells(a, 0, n) /\ Cells(a, 0, n) \subseteq Lives(Memory)
      /\ \A i \in 0..(n - 1) : Memory.object[<<a, i>>] = ys[i + 1]
  BY <1>1, Found, FoundElements
<1>3. Elements(Memory, w) \cap Elements(Memory, v) = {}
  <2>1. Begin(Memory, w) # Begin(Memory, v) /\ Housed(Memory, w) /\ Housed(Memory, v)
    BY DEF Rest, Housing
  <2>2. Size(Memory, w) \in Int /\ Size(Memory, v) \in Int /\ 0 \in Int
    BY <2>1 DEF Housed
  <2> QED  BY <2>1, <2>2, CellsApart DEF Elements
<1>4. made = [i \in 1..n |-> Copy(<<a, i - 1>>, <<b, i - 1>>)]
  BY <1>1 DEF CopyMade, Steps, At
<1>5. ASSUME NEW i \in 0..(n - 1)
      PROVE  Builds(m, made[i + 1], <<b, i>>, ys[i + 1])
  <2>1. PICK j : j = i + 1
    OBVIOUS
  <2>2. j \in 1..n /\ j - 1 = i
    BY <1>2, <2>1
  <2>3. made[j] = Copy(<<a, i>>, <<b, i>>)
    BY <1>4, <2>2
  <2>4. <<a, i>> \in Cells(a, 0, n)
    BY DEF Cells
  <2>5. <<a, i>> \in Lives(m) /\ m.object[<<a, i>>] = ys[i + 1]
    BY <1>2, <1>3, <2>4 DEF Lost
  <2> QED  BY <2>1, <2>3, <2>5 DEF Builds
<1> QED  BY <1>5 DEF Making

\* Copies of an element of v itself.
OwnMade(v, i, n, to) == Steps(n, LAMBDA j : Copy(At(v, i), <<to.ptr, j>>))

\* The steps s misuse an element that is gone; allocation is from g, where v is empty.
Misreads(m, s, xs, v) == \E g : Halts(m, s, {g}) /\ Rest(g, xs, TornAt(g, v))

\* assign(n, v[i]) destroys v[i] before it copies it.
LEMMA AssignOwnHalts ==
    ASSUME NEW xs, Rest(Memory, xs, {}), NEW v \in Vectors, NEW n \in Nat \ {0}, NEW to, Chosen(to, v, n),
           NEW i \in 0..(size(v) - 1), NEW made, made = OwnMade(v, i, n, to)
    PROVE  Misreads(Memory, destroy_all(v) \o assign_impl(v, n, made, to), xs, v)
<1>1. PICK b, a, c : b = to.ptr /\ a = m_begin[v] /\ c = m_capacity[v]
  OBVIOUS
<1>2. PICK D, S, P, T, F, Q : /\ D = destroy_all(v) /\ S = to.steps /\ P = <<Point(v, a, <<b, 0>>, c)>>
                              /\ T = AssignPairs(v, n, made, to) /\ F = (IF a = b THEN <<>> ELSE FreeOld(v))
                              /\ Q = <<Point(v, b, <<b, n>>, to.cap)>>
  OBVIOUS
<1>3. PICK g : Runs(Memory, D, g, {}) /\ Lost(Memory, g, Elements(Memory, v)) /\ Vacated(g, a)
  <2>1. PICK g : /\ Runs(Memory, destroy_all(v), g, {}) /\ Lost(Memory, g, Elements(Memory, v))
                 /\ \A l \in Lives(g) : l[1] # m_begin[v]
    BY Emptied
  <2> QED  BY <1>1, <1>2, <2>1 DEF Vacated
<1>4. PICK A : A = {g}
  OBVIOUS
<1>5. Runs(Memory, D, g, A) /\ g \in A /\ g.block = block
  <2>1. {} \subseteq A /\ g \in A
    BY <1>4
  <2>2. Runs(Memory, D, g, A)
    BY <1>3, <2>1, RunsMore
  <2> QED  BY <1>3, <2>1, <2>2 DEF Lost, Memory
<1>6. PICK m : Runs(g, S, m, A) /\ m.at = g.at /\ m.object = g.object /\ m.block = OpenBlocks(to)
  BY <1>2, <1>5, Open
<1>7. PICK e : Runs(m, P, e, A) /\ Pointed(m, e, v, Place(a, <<b, 0>>, c))
  BY <1>2, PointRuns
<1>8. Counts(T, v, made, b, n, a, c) /\ n \in Nat
  BY <1>1, <1>2, AssignPairsAre
<1>9. IsSequence(T) /\ Len(T) > 0 /\ Faulty(e, T[1])
  <2>1. IsSequence(T) /\ Len(T) = 2 * n /\ 0 \in 0..(n - 1)
    BY <1>8 DEF Counts
  <2>2. 2 * 0 + 1 = 1 /\ 0 + 1 = 1 /\ 1 \in 1..n /\ 2 * n > 0 /\ 1 - 1 = 0
    OBVIOUS
  <2>3. T[1] = made[1]
    BY <1>8, <2>1, <2>2 DEF Counts
  <2>4. made[1] = Copy(<<a, i>>, <<b, 0>>)
    <3>1. made = [j \in 1..n |-> Copy(<<a, i>>, <<b, j - 1>>)]
      BY <1>1 DEF OwnMade, Steps, At
    <3> QED  BY <2>2, <3>1
  <2>5. <<a, i>> \notin Lives(e)
    <3>1. <<a, i>>[1] = a
      OBVIOUS
    <3> QED  BY <1>3, <1>6, <1>7, <3>1 DEF Vacated, Pointed, Lives
  <2> QED  BY <2>1, <2>2, <2>3, <2>4, <2>5 DEF Faulty, Copy
<1>10. Halts(e, T, A)
  BY <1>9, HaltsNow
<1>11. Runs(g, S \o P, e, A)
  BY <1>6, <1>7, RunsConcat
<1>12. Halts(g, S \o P \o T, A)
  BY <1>10, <1>11, HaltsConcat
<1>13. IsSequence(F) /\ IsSequence(Q)
  <2>1. IsSequence(<<>>)
    BY RunsNone DEF Runs
  <2>2. ASSUME NEW x
        PROVE  IsSequence(<<x>>)
    <3>1. <<x>> \in Seq({x})
      OBVIOUS
    <3> QED  BY <3>1 DEF IsSequence
  <2>3. IsSequence(FreeOld(v))
    BY <2>1, <2>2 DEF FreeOld
  <2> QED  BY <1>2, <2>1, <2>2, <2>3
<1>14. Halts(g, S \o P \o T \o F \o Q, A)
  <2>1. Halts(g, S \o P \o T \o F, A)
    BY <1>12, <1>13, HaltsEarlier
  <2> QED  BY <1>13, <2>1, HaltsEarlier
<1>15. assign_impl(v, n, made, to) = S \o P \o T \o F \o Q
  BY <1>1, <1>2, AssignImplIs
<1>16. Halts(Memory, D \o assign_impl(v, n, made, to), A)
  BY <1>5, <1>14, <1>15, HaltsConcat
<1>17. Rest(g, xs, TornAt(g, v))
  BY <1>3, TornRest
<1> QED  BY <1>2, <1>4, <1>16, <1>17 DEF Misreads

-----------------------------------------------------------------------------
(* Taking.                                                                 *)

\* In e, v has what w contained in m, in w's block or in v itself, and w is empty.
Taken(m, e, v, w, b) ==
    /\ e.at = [[m.at EXCEPT ![v] = Place(b, <<b, Size(m, w)>>, Cap(m, Begin(m, w)))]
                      EXCEPT ![w] = Place(w, <<w, 0>>, StaticCapacity)]
    /\ b = (IF Begin(m, w) = w THEN v ELSE Begin(m, w))
    /\ e.block = IF Begin(m, v) = v THEN m.block ELSE [m.block EXCEPT ![Begin(m, v)] = 0]
    /\ Lives(e) = (Lives(m) \ (Elements(m, v) \cup Elements(m, w))) \cup Cells(b, 0, Size(m, w))
    /\ \A l \in Lives(m) \ (Elements(m, v) \cup Elements(m, w)) : e.object[l] = m.object[l]
    /\ \A i \in 0..(Size(m, w) - 1) : e.object[<<b, i>>] = m.object[<<Begin(m, w), i>>]

Swapped(m, e, v, w, b) ==
    /\ e.at = [u \in Vectors |-> e.at[u]]
    /\ Begin(e, v) = b /\ Size(e, v) = Size(m, w) /\ e.at[v].end = <<b, Size(m, w)>>
    /\ e.at[v].capacity = Cap(m, Begin(m, w))
    /\ Begin(e, w) = w /\ Size(e, w) = 0 /\ e.at[w].end = <<w, 0>> /\ e.at[w].capacity = StaticCapacity
    /\ \A u \in Vectors \ {v, w} : e.at[u] = m.at[u]

LEMMA TakenAt ==
    ASSUME NEW m, Housing(m), NEW v \in Vectors, NEW w \in Vectors, v # w, NEW e, NEW b, Taken(m, e, v, w, b)
    PROVE  Swapped(m, e, v, w, b)
<1>1. m.at = [u \in Vectors |-> m.at[u]]
  BY DEF Housing
<1>2. PICK p, q : p = Place(b, <<b, Size(m, w)>>, Cap(m, Begin(m, w))) /\ q = Place(w, <<w, 0>>, StaticCapacity)
  OBVIOUS
<1>3. e.at = [[m.at EXCEPT ![v] = p] EXCEPT ![w] = q]
  BY <1>2 DEF Taken
<1>4. e.at[v] = p /\ e.at[w] = q /\ (\A u \in Vectors \ {v, w} : e.at[u] = m.at[u])
      /\ e.at = [u \in Vectors |-> e.at[u]]
  BY <1>1, <1>3
<1> QED  BY <1>2, <1>4 DEF Begin, Size, Place, Swapped

LEMMA TakenHousing ==
    ASSUME NEW m, Housing(m), NEW v \in Vectors, NEW w \in Vectors, v # w, NEW e, NEW b, Taken(m, e, v, w, b)
    PROVE  Housing(e)
<1>1. /\ e.at = [u \in Vectors |-> e.at[u]]
      /\ Begin(e, v) = b /\ Size(e, v) = Size(m, w) /\ e.at[v].end = <<b, Size(m, w)>>
      /\ e.at[v].capacity = Cap(m, Begin(m, w))
      /\ Begin(e, w) = w /\ Size(e, w) = 0 /\ e.at[w].end = <<w, 0>> /\ e.at[w].capacity = StaticCapacity
      /\ \A u \in Vectors \ {v, w} : e.at[u] = m.at[u]
  <2>1. Swapped(m, e, v, w, b)
    BY TakenAt
  <2> QED  BY <2>1 DEF Swapped
<1>2. /\ m.block \in [Blocks -> Nat]
      /\ \A u \in Vectors : Housed(m, u)
      /\ \A u, x \in Vectors : Begin(m, u) = Begin(m, x) => u = x
      /\ \A a \in Blocks : m.block[a] # 0 => \E u \in Vectors : Begin(m, u) = a
  BY DEF Housing
<1>3. b = (IF Begin(m, w) = w THEN v ELSE Begin(m, w))
      /\ e.block = IF Begin(m, v) = v THEN m.block ELSE [m.block EXCEPT ![Begin(m, v)] = 0]
  BY DEF Taken
<1>4. \A u \in Vectors \ {v, w} : Begin(e, u) = Begin(m, u) /\ Size(e, u) = Size(m, u)
  BY <1>1 DEF Begin, Size
<1>5. \A u \in Vectors : Begin(m, u) \in Blocks \cup {u} /\ Cap(m, Begin(m, u)) \in Nat \ {0}
                         /\ Size(m, u) \in Nat /\ Size(m, u) <= Cap(m, Begin(m, u))
                         /\ m.at[u] = Place(Begin(m, u), <<Begin(m, u), Size(m, u)>>, Cap(m, Begin(m, u)))
  BY <1>2 DEF Housed
<1>6. Begin(m, v) # Begin(m, w) /\ \A u \in Vectors \ {v, w} : Begin(m, u) # Begin(m, v) /\ Begin(m, u) # Begin(m, w)
  BY <1>2
<1>7. e.block \in [Blocks -> Nat] /\ (\A a \in Blocks \ {Begin(m, v)} : e.block[a] = m.block[a])
      /\ (Begin(m, v) \in Blocks => e.block[Begin(m, v)] = 0)
  <2>1. CASE Begin(m, v) = v
    BY <1>2, <1>3, <2>1, BuffersAssumption
  <2>2. CASE Begin(m, v) # v
    <3>1. Begin(m, v) \in Blocks /\ 0 \in Nat /\ e.block = [m.block EXCEPT ![Begin(m, v)] = 0]
      BY <1>3, <1>5, <2>2
    <3> QED  BY <1>2, <3>1
  <2> QED  BY <2>1, <2>2
<1>8. ASSUME NEW u \in Vectors
      PROVE  Housed(e, u)
  <2>1. CASE u = v
    <3>1. Cap(e, b) = Cap(m, Begin(m, w))
      <4>1. CASE Begin(m, w) = w
        BY <1>3, <4>1 DEF Cap
      <4>2. CASE Begin(m, w) # w
        BY <1>3, <1>5, <1>6, <1>7, <4>2 DEF Cap
      <4> QED  BY <4>1, <4>2
    <3>2. b \in Blocks \cup {v}
      BY <1>3, <1>5
    <3>3. e.at[v] = Place(b, <<b, Size(m, w)>>, Cap(m, Begin(m, w)))
      <4>1. PICK p, q : p = Place(b, <<b, Size(m, w)>>, Cap(m, Begin(m, w))) /\ q = Place(w, <<w, 0>>, StaticCapacity)
        OBVIOUS
      <4>2. e.at = [[m.at EXCEPT ![v] = p] EXCEPT ![w] = q] /\ m.at = [x \in Vectors |-> m.at[x]]
        BY <4>1 DEF Taken, Housing
      <4>3. e.at[v] = p
        BY <4>2
      <4> QED  BY <4>1, <4>3
    <3> QED  BY <1>1, <1>5, <2>1, <3>1, <3>2, <3>3 DEF Housed
  <2>2. CASE u = w
    <3>1. Cap(e, w) = StaticCapacity /\ StaticCapacity \in Nat \ {0} /\ 0 \in Nat /\ 0 <= StaticCapacity
      BY StaticCapacityAssumption DEF Cap
    <3>2. e.at[w] = Place(w, <<w, 0>>, StaticCapacity)
      <4>1. PICK p, q : p = Place(b, <<b, Size(m, w)>>, Cap(m, Begin(m, w))) /\ q = Place(w, <<w, 0>>, StaticCapacity)
        OBVIOUS
      <4>2. e.at = [[m.at EXCEPT ![v] = p] EXCEPT ![w] = q] /\ m.at = [x \in Vectors |-> m.at[x]]
        BY <4>1 DEF Taken, Housing
      <4>3. e.at[w] = q
        BY <4>2
      <4> QED  BY <4>1, <4>3
    <3> QED  BY <1>1, <2>2, <3>1, <3>2 DEF Housed
  <2>3. CASE u \notin {v, w}
    <3>1. Begin(e, u) = Begin(m, u) /\ Size(e, u) = Size(m, u) /\ e.at[u] = m.at[u]
      BY <1>1, <1>4, <2>3
    <3>2. Cap(e, Begin(m, u)) = Cap(m, Begin(m, u))
      BY <1>5, <1>6, <1>7, <2>3 DEF Cap
    <3> QED  BY <1>5, <3>1, <3>2 DEF Housed
  <2> QED  BY <2>1, <2>2, <2>3
<1>9. ASSUME NEW u \in Vectors, NEW x \in Vectors, Begin(e, u) = Begin(e, x)
      PROVE  u = x
  <2>1. b # w /\ \A y \in Vectors \ {v, w} : Begin(e, y) # b /\ Begin(e, y) # w
    <3>1. CASE Begin(m, w) = w
      <4>1. b = v /\ v \notin Blocks /\ w \notin Blocks
        BY <1>3, <3>1, BuffersAssumption
      <4> QED  BY <1>4, <1>5, <4>1
    <3>2. CASE Begin(m, w) # w
      <4>1. b = Begin(m, w) /\ b # w /\ w \notin Blocks
        BY <1>3, <3>2, BuffersAssumption
      <4> QED  BY <1>4, <1>5, <1>6, <4>1
    <3> QED  BY <3>1, <3>2
  <2> QED  BY <1>1, <1>9, <1>4, <1>2, <2>1
<1>10. ASSUME NEW a \in Blocks, e.block[a] # 0
       PROVE  \E u \in Vectors : Begin(e, u) = a
  <2>1. a # Begin(m, v) /\ m.block[a] # 0
    BY <1>7, <1>10
  <2>2. PICK u \in Vectors : Begin(m, u) = a
    BY <1>2, <2>1
  <2>3. CASE u = w
    <3>1. Begin(m, w) # w
      BY <2>2, <2>3, BuffersAssumption
    <3> QED  BY <1>1, <1>3, <2>2, <2>3, <3>1
  <2>4. CASE u # w
    BY <1>4, <2>1, <2>2, <2>4
  <2> QED  BY <2>3, <2>4
<1> QED  BY <1>1, <1>7, <1>8, <1>9, <1>10 DEF Housing

LEMMA TakenRest ==
    ASSUME NEW m, NEW xs, Rest(m, xs, {}), NEW v \in Vectors, NEW w \in Vectors, v # w, NEW e, NEW b,
           Taken(m, e, v, w, b), NEW r, r = [xs EXCEPT ![v] = xs[w], ![w] = <<>>]
    PROVE  Rest(e, r, {})
<1>1. Housing(m) /\ xs \in [Vectors -> Seq(Values)] /\ Lives(m) = UNION {Elements(m, u) : u \in Vectors}
      /\ \A u \in Vectors : Holds(m, u, xs[u])
  BY DEF Rest
<1>2. Housing(e)
  BY <1>1, TakenHousing
<1>3. /\ Begin(e, v) = b /\ Size(e, v) = Size(m, w) /\ Begin(e, w) = w /\ Size(e, w) = 0
      /\ \A u \in Vectors \ {v, w} : Begin(e, u) = Begin(m, u) /\ Size(e, u) = Size(m, u)
  <2>1. /\ Begin(e, v) = b /\ Size(e, v) = Size(m, w) /\ Begin(e, w) = w /\ Size(e, w) = 0
        /\ \A u \in Vectors \ {v, w} : e.at[u] = m.at[u]
    <3>1. Swapped(m, e, v, w, b)
      BY <1>1, TakenAt
    <3> QED  BY <3>1 DEF Swapped
  <2> QED  BY <2>1 DEF Begin, Size
<1>4. Elements(e, v) = Cells(b, 0, Size(m, w)) /\ Elements(e, w) = {}
      /\ \A u \in Vectors \ {v, w} : Elements(e, u) = Elements(m, u)
  BY <1>3, NoCells DEF Elements
<1>5. ASSUME NEW u \in Vectors \ {v, w}
      PROVE  Elements(m, u) \cap (Elements(m, v) \cup Elements(m, w)) = {}
  <2>1. Begin(m, u) # Begin(m, v) /\ Begin(m, u) # Begin(m, w) /\ Housed(m, u) /\ Housed(m, v) /\ Housed(m, w)
    BY <1>1 DEF Housing
  <2>2. Size(m, u) \in Int /\ Size(m, v) \in Int /\ Size(m, w) \in Int /\ 0 \in Int
    BY <2>1 DEF Housed
  <2>3. Elements(m, u) \cap Elements(m, v) = {} /\ Elements(m, u) \cap Elements(m, w) = {}
    BY <2>1, <2>2, CellsApart DEF Elements
  <2> QED  BY <2>3
<1>6. Lives(e) = (Lives(m) \ (Elements(m, v) \cup Elements(m, w))) \cup Cells(b, 0, Size(m, w))
      /\ (\A l \in Lives(m) \ (Elements(m, v) \cup Elements(m, w)) : e.object[l] = m.object[l])
      /\ (\A i \in 0..(Size(m, w) - 1) : e.object[<<b, i>>] = m.object[<<Begin(m, w), i>>])
  BY DEF Taken
<1>7. Lives(e) = UNION {Elements(e, u) : u \in Vectors}
  <2>1. ASSUME NEW l \in Lives(e)
        PROVE  \E u \in Vectors : l \in Elements(e, u)
    <3>1. CASE l \in Cells(b, 0, Size(m, w))
      BY <1>4, <3>1
    <3>2. CASE l \notin Cells(b, 0, Size(m, w))
      <4>1. PICK u \in Vectors : l \in Elements(m, u)
        BY <1>1, <1>6, <3>2
      <4>2. u \notin {v, w}
        BY <1>6, <3>2, <4>1
      <4> QED  BY <1>4, <4>1, <4>2
    <3> QED  BY <3>1, <3>2
  <2>2. ASSUME NEW u \in Vectors, NEW l \in Elements(e, u)
        PROVE  l \in Lives(e)
    <3>1. CASE u \in {v, w}
      BY <1>4, <1>6, <3>1
    <3>2. CASE u \notin {v, w}
      BY <1>1, <1>4, <1>5, <1>6, <3>2
    <3> QED  BY <3>1, <3>2
  <2> QED  BY <2>1, <2>2
<1>8. r \in [Vectors -> Seq(Values)] /\ r[v] = xs[w] /\ r[w] = <<>> /\ \A u \in Vectors \ {v, w} : r[u] = xs[u]
  <2>1. <<>> \in Seq(Values) /\ xs[w] \in Seq(Values)
    BY <1>1
  <2> QED  BY <1>1, <2>1
<1>9. ASSUME NEW u \in Vectors
      PROVE  Holds(e, u, r[u])
  <2>1. CASE u = v
    <3>1. Holds(m, w, xs[w]) /\ Begin(e, u) = b /\ Size(e, u) = Size(m, w) /\ r[u] = xs[w]
      BY <1>1, <1>3, <1>8, <2>1
    <3>2. \A i \in 0..(Size(m, w) - 1) : e.object[<<b, i>>] = xs[w][i + 1]
      BY <1>6, <3>1 DEF Holds
    <3> QED  BY <3>1, <3>2 DEF Holds
  <2>2. CASE u = w
    <3>1. Len(<<>>) = 0 /\ 0..(0 - 1) = {}
      OBVIOUS
    <3> QED  BY <1>3, <1>8, <2>2, <3>1 DEF Holds
  <2>3. CASE u \notin {v, w}
    <3>1. Holds(m, u, xs[u]) /\ r[u] = xs[u] /\ Size(e, u) = Size(m, u) /\ Begin(e, u) = Begin(m, u)
      BY <1>1, <1>3, <1>8, <2>3
    <3>2. ASSUME NEW i \in 0..(Size(m, u) - 1)
          PROVE  e.object[<<Begin(m, u), i>>] = m.object[<<Begin(m, u), i>>]
      <4>1. <<Begin(m, u), i>> \in Elements(m, u)
        BY DEF Elements, Cells
      <4> QED  BY <1>1, <1>5, <1>6, <2>3, <4>1
    <3> QED  BY <3>1, <3>2 DEF Holds
  <2> QED  BY <2>1, <2>2, <2>3
<1> QED  BY <1>2, <1>7, <1>8, <1>9 DEF Rest

\* v has been emptied and has returned its block.
Released(m, h, v) ==
    /\ h.at = m.at
    /\ h.block = (IF Begin(m, v) = v THEN m.block ELSE [m.block EXCEPT ![Begin(m, v)] = 0])
    /\ Lives(h) = Lives(m) \ Elements(m, v)
    /\ \A l \in Lives(h) : h.object[l] = m.object[l]

LEMMA ReleaseRuns ==
    ASSUME NEW xs, Rest(Memory, xs, {}), NEW v \in Vectors, NEW w \in Vectors, v # w, NEW A
    PROVE  \E h : Runs(Memory, destroy_all(v) \o FreeOld(v), h, A) /\ Released(Memory, h, v)
<1>1. PICK g : /\ Runs(Memory, destroy_all(v), g, A) /\ Lost(Memory, g, Elements(Memory, v))
               /\ \A l \in Lives(g) : l[1] # m_begin[v]
  BY Emptied
<1>2. PICK to : to = [ptr |-> w, cap |-> 0, steps |-> <<>>]
  OBVIOUS
<1>3. to.ptr # m_begin[v] /\ OpenBlocks(to) = block /\ to.ptr = w
  <2>1. m_begin[v] \in Blocks \cup {v}
    BY Found
  <2> QED  BY <1>2, <2>1, BuffersAssumption DEF OpenBlocks
<1>4. g.block = OpenBlocks(to) /\ (~is_static(v) => g.block[m_begin[v]] = m_capacity[v]) /\ g.at = Memory.at
  <2>1. g.block = block /\ g.at = Memory.at
    BY <1>1 DEF Lost, Memory
  <2> QED  BY <1>3, <2>1, Found
<1>5. PICK h : /\ Runs(g, FreeOld(v), h, A)
               /\ h.at = g.at /\ h.object = g.object /\ h.block = LeftBlocks(to, v)
  BY <1>1, <1>3, <1>4, FreeOldRuns
<1>6. h.block = IF Begin(Memory, v) = v THEN block ELSE [block EXCEPT ![Begin(Memory, v)] = 0]
  <2>1. m_begin[v] = Begin(Memory, v)
    BY Found
  <2> QED  BY <1>3, <1>5, <2>1 DEF LeftBlocks, is_static
<1>7. Released(Memory, h, v)
  <2>1. Memory.block = block
    BY DEF Memory
  <2>2. h.at = Memory.at /\ Lives(h) = Lives(Memory) \ Elements(Memory, v)
        /\ \A l \in Lives(h) : h.object[l] = Memory.object[l]
    BY <1>1, <1>4, <1>5 DEF Lost, Lives
  <2> QED  BY <1>6, <2>1, <2>2 DEF Released
<1> QED  BY <1>1, <1>5, <1>7, RunsConcat

\* The moves into v of the elements of w.
MovesInto(w, v) == Steps(size(w), LAMBDA i : Move(At(w, i), <<v, i>>))

LEMMA TakeImplIs ==
    ASSUME NEW v, NEW w
    PROVE  take_impl(v, w) =
               (IF is_static(w)
                THEN MovesInto(w, v) \o destroy_all(w) \o <<Point(v, v, <<v, size(w)>>, m_capacity[w])>>
                ELSE <<Point(v, m_begin[w], m_end[w], m_capacity[w])>>)
               \o <<Point(w, w, <<w, 0>>, StaticCapacity)>>
  BY DEF take_impl, MovesInto, Steps

LEMMA MovesIntoAre ==
    ASSUME NEW w, NEW v, NEW n \in Nat, n = size(w), NEW a, a = m_begin[w], NEW s, s = MovesInto(w, v)
    PROVE  IsSequence(s) /\ Len(s) = n /\ \A i \in 0..(n - 1) : s[i + 1] = Move(<<a, i>>, <<v, i>>)
<1>1. s = [i \in 1..n |-> Move(<<a, i - 1>>, <<v, i - 1>>)]
  BY DEF MovesInto, Steps, At
<1>2. s = [i \in 1..n |-> s[i]]
  BY <1>1
<1>3. ASSUME NEW i \in 0..(n - 1)
      PROVE  s[i + 1] = Move(<<a, i>>, <<v, i>>)
  <2>1. PICK j : j = i + 1
    OBVIOUS
  <2>2. j \in 1..n /\ j - 1 = i
    BY <2>1
  <2> QED  BY <1>1, <2>1, <2>2
<1> QED  BY <1>2, <1>3, SequenceIs

\* In e, what a static w contained in m is in v.
Entered(m, e, v, w, n) ==
    /\ e.at = Memory.at /\ e.block = m.block
    /\ Lives(e) = (Lives(m) \ Elements(Memory, w)) \cup Cells(v, 0, n)
    /\ \A l \in Lives(m) \ Elements(Memory, w) : e.object[l] = m.object[l]
    /\ \A i \in 0..(n - 1) : e.object[<<v, i>>] = m.object[<<w, i>>]

\* The elements of a static w are moved into v, and destroyed.
LEMMA MovesIntoRuns ==
    ASSUME NEW xs, Rest(Memory, xs, {}), NEW v \in Vectors, NEW w \in Vectors, v # w, is_static(w),
           NEW m, Released(Memory, m, v), NEW A, NEW n, n = size(w)
    PROVE  \E e : Runs(m, MovesInto(w, v) \o destroy_all(w), e, A) /\ Entered(m, e, v, w, n)
<1>1. n \in Nat /\ n <= StaticCapacity /\ m_begin[w] = w /\ Elements(Memory, w) = Cells(w, 0, n)
      /\ Cells(w, 0, n) \subseteq Lives(Memory)
  BY Found, FoundElements DEF is_static
<1>2. Cells(w, 0, n) \cap Elements(Memory, v) = {}
  <2>1. Begin(Memory, w) # Begin(Memory, v) /\ Housed(Memory, w) /\ Housed(Memory, v)
    BY DEF Rest, Housing
  <2>2. Size(Memory, w) \in Int /\ Size(Memory, v) \in Int /\ 0 \in Int
    BY <2>1 DEF Housed
  <2>3. Elements(Memory, w) \cap Elements(Memory, v) = {}
    BY <2>1, <2>2, CellsApart DEF Elements
  <2> QED  BY <1>1, <2>3
<1>3. Cells(w, 0, n) \subseteq Lives(m)
  BY <1>1, <1>2 DEF Released
<1>4. ASSUME NEW l \in Lives(m)
      PROVE  l[1] # v
  BY Elsewhere DEF Released
<1>5. PICK q : FirstOf(q, n) = Cells(w, 0, n) /\ Different(q, n) /\ \A i \in 0..(n - 1) : q[i] = <<w, i>>
  BY <1>1, UpFromNone
<1>6. PICK p : FirstOf(p, n) = Cells(v, 0, n) /\ Different(p, n) /\ \A i \in 0..(n - 1) : p[i] = <<v, i>>
  BY <1>1, UpFromNone
<1>7. PICK s : s = MovesInto(w, v)
  OBVIOUS
<1>8. IsSequence(s) /\ Len(s) = n /\ \A i \in 0..(n - 1) : s[i + 1] = Move(<<w, i>>, <<v, i>>)
  BY <1>1, <1>7, MovesIntoAre
<1>9. \A i \in 0..(n - 1) : s[i + 1] = Move(q[i], p[i]) /\ q[i] \in Lives(m) /\ Room(m, p[i])
  <2>1. ASSUME NEW i \in 0..(n - 1)
        PROVE  q[i] \in Lives(m) /\ Room(m, p[i])
    <3>1. q[i] \in Cells(w, 0, n) /\ p[i] = <<v, i>>
      BY <1>5, <1>6 DEF Cells
    <3>2. i < StaticCapacity
      BY <1>1, StaticCapacityAssumption
    <3> QED  BY <1>3, <3>1, <3>2 DEF Room, Cap
  <2> QED  BY <1>5, <1>6, <1>8, <2>1
<1>10. FirstOf(p, n) \cap Lives(m) = {}
  <2>1. \A l \in FirstOf(p, n) : l[1] = v
    BY <1>6 DEF Cells
  <2> QED  BY <1>4, <2>1
<1>11. PICK g : Runs(m, s, g, A) /\ Moves(m, g, q, p, n)
  BY <1>1, <1>5, <1>6, <1>8, <1>9, <1>10, MoveLoop
<1>12. PICK e : Runs(g, destroy_all(w), e, A) /\ Lost(g, e, Cells(w, 0, n))
  <2>1. Cells(m_begin[w], 0, size(w)) \subseteq Lives(g) /\ size(w) \in Nat
    BY <1>1, <1>3, <1>11 DEF Moves
  <2>2. PICK e : Runs(g, destroy_all(w), e, A) /\ Lost(g, e, Cells(m_begin[w], 0, size(w)))
    BY <2>1, DestroyAllRuns
  <2> QED  BY <1>1, <2>2
<1>13. Lives(e) = (Lives(m) \ Cells(w, 0, n)) \cup Cells(v, 0, n)
  <2>1. Cells(v, 0, n) \cap Cells(w, 0, n) = {}
    BY <1>1, CellsApart
  <2> QED  BY <1>6, <1>11, <1>12, <2>1 DEF Moves, Lost
<1>14. \A l \in Lives(m) \ Cells(w, 0, n) : e.object[l] = m.object[l]
  BY <1>5, <1>11, <1>12, <1>13 DEF Moves, Lost
<1>15. ASSUME NEW i \in 0..(n - 1)
       PROVE  e.object[<<v, i>>] = m.object[<<w, i>>]
  <2>1. g.object[<<v, i>>] = m.object[<<w, i>>]
    BY <1>5, <1>6, <1>11 DEF Moves
  <2>2. <<v, i>> \in Lives(e)
    BY <1>13 DEF Cells
  <2> QED  BY <1>12, <2>1, <2>2 DEF Lost
<1>16. e.at = Memory.at /\ e.block = m.block
  BY <1>11, <1>12 DEF Moves, Lost, Released
<1>17. Runs(m, s \o destroy_all(w), e, A)
  BY <1>11, <1>12, RunsConcat
<1>18. Entered(m, e, v, w, n)
  BY <1>1, <1>13, <1>14, <1>15, <1>16 DEF Entered
<1> QED  BY <1>7, <1>17, <1>18

\* The move assignment of another vector.
LEMMA MoveAssignEnds ==
    ASSUME NEW xs, Rest(Memory, xs, {}), NEW v \in Vectors, NEW w \in Vectors, v # w, NEW A,
           NEW r, r = [xs EXCEPT ![v] = xs[w], ![w] = <<>>]
    PROVE  Ends(Memory, destroy_all(v) \o FreeOld(v) \o take_impl(v, w), r, A)
<1>1. PICK h : Runs(Memory, destroy_all(v) \o FreeOld(v), h, A) /\ Released(Memory, h, v)
  BY ReleaseRuns
<1>2. PICK n, a, c : n = size(w) /\ a = m_begin[w] /\ c = m_capacity[w]
  OBVIOUS
<1>3. n = Size(Memory, w) /\ n \in Nat /\ a = Begin(Memory, w) /\ m_end[w] = <<a, n>> /\ c = Cap(Memory, a)
      /\ Elements(Memory, w) = Cells(a, 0, n) /\ Cells(a, 0, n) \subseteq Lives(Memory)
  BY <1>2, Found, FoundElements
<1>4. Elements(Memory, w) \cap Elements(Memory, v) = {}
  <2>1. Begin(Memory, w) # Begin(Memory, v) /\ Housed(Memory, w) /\ Housed(Memory, v)
    BY DEF Rest, Housing
  <2>2. Size(Memory, w) \in Int /\ Size(Memory, v) \in Int /\ 0 \in Int
    BY <2>1 DEF Housed
  <2> QED  BY <2>1, <2>2, CellsApart DEF Elements
<1>5. PICK Q : Q = <<Point(w, w, <<w, 0>>, StaticCapacity)>>
  OBVIOUS
<1>6. \E s, e, b : Runs(h, s, e, A) /\ take_impl(v, w) = s /\ Taken(Memory, e, v, w, b)
  <2>1. CASE is_static(w)
    <3>1. PICK g : /\ Runs(h, MovesInto(w, v) \o destroy_all(w), g, A)
                   /\ g.at = Memory.at /\ g.block = h.block
                   /\ Lives(g) = (Lives(h) \ Elements(Memory, w)) \cup Cells(v, 0, n)
                   /\ \A l \in Lives(h) \ Elements(Memory, w) : g.object[l] = h.object[l]
                   /\ \A i \in 0..(n - 1) : g.object[<<v, i>>] = h.object[<<w, i>>]
      <4>1. PICK g : Runs(h, MovesInto(w, v) \o destroy_all(w), g, A) /\ Entered(h, g, v, w, n)
        BY <1>1, <1>2, <2>1, MovesIntoRuns
      <4> QED  BY <4>1 DEF Entered
    <3>2. PICK P : P = <<Point(v, v, <<v, n>>, c)>>
      OBVIOUS
    <3>3. PICK d : Runs(g, P, d, A) /\ Pointed(g, d, v, Place(v, <<v, n>>, c))
      BY <3>2, PointRuns
    <3>4. PICK e : Runs(d, Q, e, A) /\ Pointed(d, e, w, Place(w, <<w, 0>>, StaticCapacity))
      BY <1>5, PointRuns
    <3>5. Runs(h, MovesInto(w, v) \o destroy_all(w) \o P \o Q, e, A)
      <4>1. Runs(h, MovesInto(w, v) \o destroy_all(w) \o P, d, A)
        BY <3>1, <3>3, RunsConcat
      <4> QED  BY <3>4, <4>1, RunsConcat
    <3>6. take_impl(v, w) = MovesInto(w, v) \o destroy_all(w) \o P \o Q
      BY <1>2, <1>5, <2>1, <3>2, TakeImplIs
    <3>7. Taken(Memory, e, v, w, v)
      <4>1. e.at = [[Memory.at EXCEPT ![v] = Place(v, <<v, n>>, c)] EXCEPT ![w] = Place(w, <<w, 0>>, StaticCapacity)]
        BY <3>1, <3>3, <3>4 DEF Pointed, Aimed
      <4>2. e.block = h.block /\ e.object = g.object /\ Lives(e) = Lives(g) /\ a = w
        BY <1>2, <2>1, <3>1, <3>3, <3>4 DEF Pointed, Lives, is_static
      <4>3. Lives(e) = (Lives(Memory) \ (Elements(Memory, v) \cup Elements(Memory, w))) \cup Cells(v, 0, n)
        BY <1>1, <3>1, <4>2 DEF Released
      <4>4. \A l \in Lives(Memory) \ (Elements(Memory, v) \cup Elements(Memory, w)) : e.object[l] = Memory.object[l]
        BY <1>1, <3>1, <4>2 DEF Released
      <4>5. ASSUME NEW i \in 0..(n - 1)
            PROVE  e.object[<<v, i>>] = Memory.object[<<a, i>>]
        <5>1. <<a, i>> \in Cells(a, 0, n)
          BY DEF Cells
        <5>2. <<a, i>> \in Lives(h)
          BY <1>1, <1>3, <1>4, <5>1 DEF Released
        <5> QED  BY <1>1, <3>1, <4>2, <5>2 DEF Released
      <4>6. e.block = (IF Begin(Memory, v) = v THEN Memory.block ELSE [Memory.block EXCEPT ![Begin(Memory, v)] = 0])
        BY <1>1, <4>2 DEF Released
      <4> QED  BY <1>3, <4>1, <4>2, <4>3, <4>4, <4>5, <4>6 DEF Taken
    <3> QED  BY <3>5, <3>6, <3>7
  <2>2. CASE ~is_static(w)
    <3>1. PICK P : P = <<Point(v, a, <<a, n>>, c)>>
      OBVIOUS
    <3>2. PICK d : Runs(h, P, d, A) /\ Pointed(h, d, v, Place(a, <<a, n>>, c))
      BY <3>1, PointRuns
    <3>3. PICK e : Runs(d, Q, e, A) /\ Pointed(d, e, w, Place(w, <<w, 0>>, StaticCapacity))
      BY <1>5, PointRuns
    <3>4. Runs(h, P \o Q, e, A)
      BY <3>2, <3>3, RunsConcat
    <3>5. take_impl(v, w) = P \o Q
      BY <1>2, <1>3, <1>5, <2>2, <3>1, TakeImplIs
    <3>6. Taken(Memory, e, v, w, a)
      <4>1. e.at = [[Memory.at EXCEPT ![v] = Place(a, <<a, n>>, c)] EXCEPT ![w] = Place(w, <<w, 0>>, StaticCapacity)]
        BY <1>1, <3>2, <3>3 DEF Pointed, Aimed, Released
      <4>2. e.block = h.block /\ e.object = h.object /\ Lives(e) = Lives(h) /\ a # w
        BY <1>2, <2>2, <3>2, <3>3 DEF Pointed, Lives, is_static
      <4>3. Lives(e) = (Lives(Memory) \ (Elements(Memory, v) \cup Elements(Memory, w))) \cup Cells(a, 0, n)
        BY <1>1, <1>3, <1>4, <4>2 DEF Released
      <4>4. \A l \in Lives(e) : e.object[l] = Memory.object[l]
        BY <1>1, <4>2 DEF Released
      <4>5. \A i \in 0..(n - 1) : e.object[<<a, i>>] = Memory.object[<<a, i>>]
        BY <4>3, <4>4 DEF Cells
      <4>6. e.block = (IF Begin(Memory, v) = v THEN Memory.block ELSE [Memory.block EXCEPT ![Begin(Memory, v)] = 0])
        BY <1>1, <4>2 DEF Released
      <4> QED  BY <1>3, <4>1, <4>2, <4>3, <4>4, <4>5, <4>6 DEF Taken
    <3> QED  BY <3>4, <3>5, <3>6
  <2> QED  BY <2>1, <2>2
<1>7. PICK s, e, b : Runs(h, s, e, A) /\ take_impl(v, w) = s /\ Taken(Memory, e, v, w, b)
  BY <1>6
<1>8. Rest(e, r, {})
  BY <1>7, TakenRest
<1>9. Runs(Memory, destroy_all(v) \o FreeOld(v) \o take_impl(v, w), e, A)
  BY <1>1, <1>7, RunsConcat
<1> QED  BY <1>8, <1>9 DEF Ends

-----------------------------------------------------------------------------
(* The inductive invariant.                                                *)

Calls == [name : Operations, on : Vectors \cup {Nobody}, returned : BOOLEAN, stale : BOOLEAN, threw : BOOLEAN]

\* The vector that the call c leaves torn, if it throws in m.
TornIn(m, c) == {v \in Vectors : c.name \in {"assign", "copy_assign"} /\ c.on = v /\ Size(m, v) # 0}

\* The steps s, executed in m for the call c, lead to vectors at rest that contain
\* r, or to the fault of a stale argument; where they may throw, the vectors still
\* contain xs.
Leads(m, s, c, xs, r) ==
    \E A : /\ Ends(m, s, r, A) \/ (c.stale /\ Halts(m, s, A))
           /\ \A a \in A : Rest(a, xs, TornIn(a, c))

Shape ==
    /\ m_begin = [v \in Vectors |-> m_begin[v]]
    /\ m_end = [v \in Vectors |-> m_end[v]]
    /\ m_capacity = [v \in Vectors |-> m_capacity[v]]
    /\ call \in Calls /\ fault \in BOOLEAN

Settled == ~fault /\ todo = <<>> => Rest(Memory, contents, {v \in Vectors : Torn(v)})
Underway == ~fault /\ todo # <<>> => ~call.threw /\ Leads(Memory, todo, call, contents, goal)
Faulted == fault => call.stale /\ todo # <<>>

IInv == Shape /\ Settled /\ Underway /\ Faulted

LEMMA MisusesIs ==
    ASSUME NEW s
    PROVE  Misuses(s) <=> Faulty(Memory, s)
<1>1. Lives(Memory) = DOMAIN object /\ Memory.block = block
  BY DEF Lives, Memory
<1>2. \A b, i : Has(b, i) <=> i < Cap(Memory, b)
  BY <1>1 DEF Has, Cap
<1>3. \A at : Room(Memory, at) <=> Has(at[1], at[2])
  BY <1>2 DEF Room
<1> QED  BY <1>1, <1>3 DEF Misuses, Faulty

\* Where the memory says the vectors are.
LEMMA InitIInv ==
    ASSUME Init
    PROVE  IInv
<1>1. PICK m : m = Memory
  OBVIOUS
<1>2. m.at = [v \in Vectors |-> Place(v, <<v, 0>>, StaticCapacity)] /\ m.block = [b \in Blocks |-> 0]
      /\ m.object = <<>>
  BY <1>1 DEF Init, Memory
<1>3. \A v \in Vectors : m.at[v] = Place(v, <<v, 0>>, StaticCapacity)
  BY <1>2
<1>4. \A v \in Vectors : Begin(m, v) = v /\ Size(m, v) = 0
  <2>1. \A v : Place(v, <<v, 0>>, StaticCapacity).begin = v /\ Place(v, <<v, 0>>, StaticCapacity).end[2] = 0
    BY DEF Place
  <2> QED  BY <1>3, <2>1 DEF Begin, Size
<1>5. \A v \in Vectors : Cap(m, v) = StaticCapacity
  BY DEF Cap
<1>6. \A v \in Vectors : Housed(m, v)
  BY <1>3, <1>4, <1>5, StaticCapacityAssumption DEF Housed
<1>7. m.at = [v \in Vectors |-> m.at[v]] /\ m.block \in [Blocks -> Nat]
      /\ \A b \in Blocks : m.block[b] = 0
  BY <1>2
<1>8. Housing(m)
  BY <1>4, <1>6, <1>7 DEF Housing
<1>9. Lives(m) = {}
  BY <1>2 DEF Lives
<1>10. \A v \in Vectors : Elements(m, v) = {}
  BY <1>4, NoCells DEF Elements
<1>11. contents \in [Vectors -> Seq(Values)] /\ \A v \in Vectors : contents[v] = <<>>
  <2>1. <<>> \in Seq(Values)
    OBVIOUS
  <2> QED  BY <2>1 DEF Init
<1>12. \A v \in Vectors : Holds(m, v, contents[v])
  <2>1. Len(<<>>) = 0 /\ 0..(0 - 1) = {}
    OBVIOUS
  <2> QED  BY <1>4, <1>11, <2>1 DEF Holds
<1>13. Rest(m, contents, {})
  BY <1>8, <1>9, <1>10, <1>11, <1>12 DEF Rest
<1>14. \A v \in Vectors : ~Torn(v)
  BY DEF Init, Call, Torn
<1>15. Settled
  <2>1. {v \in Vectors : Torn(v)} = {}
    BY <1>14
  <2> QED  BY <1>1, <1>13, <2>1 DEF Settled
<1>16. Shape
  <2>1. call \in Calls
    BY DEF Init, Call, Calls, Operations
  <2> QED  BY <2>1 DEF Init, Shape
<1> QED  BY <1>15, <1>16 DEF Init, IInv, Underway, Faulted

\* The vectors at rest, when a function is called.
LEMMA DoAtRest ==
    ASSUME IInv, NEW c, NEW s, NEW r, Do(c, s, r)
    PROVE  Rest(Memory, contents, {})
<1>1. todo = <<>> /\ ~fault /\ {v \in Vectors : Torn(v)} = {}
  BY DEF Do, AtRest
<1> QED  BY <1>1 DEF IInv, Settled

Begun(c) == c \in Calls /\ ~c.threw

LEMMA DoKeeps ==
    ASSUME IInv, NEW c, NEW s, NEW r, Do(c, s, r), Begun(c), Leads(Memory, s, c, contents, r)
    PROVE  IInv'
<1>1. /\ todo' = s /\ call' = c /\ goal' = r /\ ~fault /\ fault' = fault
      /\ contents' = (IF s = <<>> THEN r ELSE contents)
      /\ m_begin' = m_begin /\ m_end' = m_end /\ m_capacity' = m_capacity /\ block' = block /\ object' = object
  BY DEF Do, vector, memory
<1>2. Memory' = Memory
  BY <1>1 DEF Memory
<1>3. Shape'
  BY <1>1 DEF IInv, Shape, Begun
<1>4. Underway'
  BY <1>1, <1>2 DEF Underway, Begun
<1>5. Settled'
  <2>1. CASE s # <<>>
    BY <1>1, <2>1 DEF Settled
  <2>2. CASE s = <<>>
    <3>1. PICK A : Ends(Memory, <<>>, r, A) \/ Halts(Memory, <<>>, A)
      BY <2>2 DEF Leads
    <3>2. PICK e : Runs(Memory, <<>>, e, A) /\ Rest(e, r, {})
      BY <3>1, HaltsNothing DEF Ends
    <3>3. Rest(Memory, r, {})
      BY <3>2, RunsNothing
    <3>4. {v \in Vectors : Torn(v)'} = {}
      BY <1>1 DEF Torn, Begun
    <3> QED  BY <1>1, <1>2, <2>2, <3>3, <3>4 DEF Settled
  <2> QED  BY <2>1, <2>2
<1> QED  BY <1>1, <1>3, <1>4, <1>5 DEF IInv, Faulted

LEMMA AdvanceKeeps ==
    ASSUME IInv, Advance
    PROVE  IInv'
<1>1. ~fault /\ todo # <<>> /\ call' = call /\ goal' = goal /\ ~call.threw
      /\ Leads(Memory, todo, call, contents, goal) /\ Shape
  BY DEF IInv, Underway, Advance, AtRest, Shape
<1>2. PICK s, t : s = Head(todo) /\ t = Tail(todo)
  OBVIOUS
<1>3. PICK A : /\ Ends(Memory, todo, goal, A) \/ (call.stale /\ Halts(Memory, todo, A))
               /\ \A a \in A : Rest(a, contents, TornIn(a, call))
  BY <1>1 DEF Leads
<1>4. CASE Misuses(s)
  <2>1. fault' /\ UNCHANGED <<vector, memory, todo, contents>>
    BY <1>2, <1>4 DEF Advance
  <2>2. call.stale
    <3>1. SUFFICES ASSUME Ends(Memory, todo, goal, A) PROVE FALSE
      BY <1>3
    <3>2. PICK e : Runs(Memory, todo, e, A)
      BY <3>1 DEF Ends
    <3>3. ~Faulty(Memory, s)
      BY <1>1, <1>2, <3>2, RunsTail DEF Takes
    <3> QED  BY <1>4, <3>3, MisusesIs
  <2>3. Shape'
    BY <1>1, <2>1 DEF Shape, vector, Advance
  <2> QED  BY <1>1, <2>1, <2>2, <2>3 DEF IInv, Settled, Underway, Faulted
<1>5. CASE ~Misuses(s)
  <2>1. Execute(s) /\ todo' = t /\ contents' = (IF t = <<>> THEN goal ELSE contents) /\ fault' = fault
    BY <1>2, <1>5 DEF Advance
  <2>2. ~Faulty(Memory, s)
    BY <1>5, MisusesIs
  <2>3. Memory' = After(Memory, s)
    BY <1>1, <2>1, ExecuteIs DEF Shape
  <2>4. Ends(Memory', t, goal, A) \/ (call.stale /\ Halts(Memory', t, A))
    <3>1. CASE Ends(Memory, todo, goal, A)
      <4>1. PICK e : Runs(Memory, todo, e, A) /\ Rest(e, goal, {})
        BY <3>1 DEF Ends
      <4>2. Runs(After(Memory, s), t, e, A)
        BY <1>1, <1>2, <4>1, RunsTail
      <4>3. Ends(After(Memory, s), t, goal, A)
        BY <4>1, <4>2 DEF Ends
      <4> QED  BY <2>3, <4>3
    <3>2. CASE call.stale /\ Halts(Memory, todo, A)
      BY <1>2, <2>2, <2>3, <3>2, HaltsTail
    <3> QED  BY <1>3, <3>1, <3>2
  <2>5. Shape'
    <3>1. m_begin' = [v \in Vectors |-> m_begin'[v]] /\ m_end' = [v \in Vectors |-> m_end'[v]]
          /\ m_capacity' = [v \in Vectors |-> m_capacity'[v]]
      <4>1. CASE s.do = "point"
        BY <1>1, <2>1, <4>1 DEF Execute, Shape
      <4>2. CASE s.do # "point"
        BY <1>1, <2>1, <4>2 DEF Execute, Shape, vector
      <4> QED  BY <4>1, <4>2
    <3> QED  BY <1>1, <2>1, <3>1 DEF Shape
  <2>6. Settled'
    <3>1. SUFFICES ASSUME t = <<>> PROVE Settled'
      BY <2>1 DEF Settled
    <3>2. Ends(Memory', <<>>, goal, A)
      BY <2>4, <3>1, HaltsNothing
    <3>3. PICK e : Runs(Memory', <<>>, e, A) /\ Rest(e, goal, {})
      BY <3>2 DEF Ends
    <3>4. Rest(Memory', goal, {})
      BY <3>3, RunsNothing
    <3>5. {v \in Vectors : Torn(v)'} = {}
      BY <1>1 DEF Torn
    <3> QED  BY <2>1, <3>1, <3>4, <3>5 DEF Settled
  <2>7. Underway'
    <3>1. SUFFICES ASSUME t # <<>> PROVE Underway'
      BY <2>1 DEF Underway
    <3>2. Leads(Memory', t, call, contents, goal)
      BY <1>3, <2>4 DEF Leads
    <3> QED  BY <1>1, <2>1, <3>1, <3>2 DEF Underway
  <2> QED  BY <1>1, <2>1, <2>5, <2>6, <2>7 DEF IInv, Faulted
<1> QED  BY <1>4, <1>5

\* What the vectors contain if the allocator throws.
LEMMA ThrowKeeps ==
    ASSUME IInv, Throw, CopyThrows = {}
    PROVE  IInv'
<1>1. ~fault /\ todo # <<>> /\ ~call.threw /\ Leads(Memory, todo, call, contents, goal) /\ Shape
  BY DEF IInv, Underway, Throw, AtRest
<1>2. PICK s : s = Head(todo)
  OBVIOUS
<1>3. /\ s.do = "allocate" /\ todo' = <<>> /\ call' = [call EXCEPT !.returned = FALSE, !.threw = TRUE]
      /\ m_begin' = m_begin /\ m_end' = m_end /\ m_capacity' = m_capacity /\ block' = block /\ object' = object
      /\ contents' = contents /\ fault' = fault
  BY <1>2 DEF Throw, vector, memory
<1>4. Memory' = Memory
  BY <1>3 DEF Memory
<1>5. PICK A : /\ Ends(Memory, todo, goal, A) \/ (call.stale /\ Halts(Memory, todo, A))
               /\ \A a \in A : Rest(a, contents, TornIn(a, call))
  BY <1>1 DEF Leads
<1>6. ~Faulty(Memory, s)
  BY <1>3 DEF Faulty
<1>7. Takes(Memory, s, After(Memory, s), A)
  <2>1. CASE Ends(Memory, todo, goal, A)
    <3>1. PICK e : Runs(Memory, todo, e, A)
      BY <2>1 DEF Ends
    <3> QED  BY <1>1, <1>2, <3>1, RunsTail
  <2>2. CASE Halts(Memory, todo, A)
    BY <1>2, <1>6, <2>2, HaltsTail
  <2> QED  BY <1>5, <2>1, <2>2
<1>8. Rest(Memory, contents, TornIn(Memory, call))
  BY <1>3, <1>5, <1>7 DEF Takes
<1>9. call' \in Calls /\ call'.threw /\ call'.name = call.name /\ call'.on = call.on
  BY <1>1, <1>3 DEF Shape, Calls
<1>10. {v \in Vectors : Torn(v)'} = TornIn(Memory, call)
  <2>1. ASSUME NEW v \in Vectors
        PROVE  Torn(v)' <=> v \in TornIn(Memory, call)
    <3>1. size(v)' = Size(Memory, v) /\ Size(Memory, v) \in Nat
      <4>1. size(v)' = size(v)
        BY <1>3 DEF size
      <4>2. Size(Memory, v) = size(v)
        BY DEF Memory, Size, Place, size
      <4>3. Size(Memory, v) \in Nat
        BY <1>8 DEF Rest, Housing, Housed
      <4> QED  BY <4>1, <4>2, <4>3
    <3> QED  BY <1>9, <3>1 DEF Torn, TornIn
  <2> QED  BY <2>1 DEF TornIn
<1>11. Settled'
  BY <1>3, <1>4, <1>8, <1>10 DEF Settled
<1>12. Shape'
  BY <1>1, <1>3, <1>9 DEF Shape
<1> QED  BY <1>1, <1>3, <1>11, <1>12 DEF IInv, Underway, Faulted

-----------------------------------------------------------------------------
(* Every operation leads where it should.                                  *)

LEMMA CallIs ==
    ASSUME NEW v \in Vectors, NEW name \in Operations
    PROVE  Begun(Call(v, name)) /\ Call(v, name).name = name /\ Call(v, name).on = v
  BY DEF Begun, Call, Calls

\* c is a call whose argument may be gone.
Stales(c, v, name, stale) == Begun(c) /\ c.name = name /\ c.on = v /\ c.stale = stale

LEMMA StaleCallIs ==
    ASSUME NEW v \in Vectors, NEW name \in Operations, NEW stale \in BOOLEAN,
           NEW c, c = [Call(v, name) EXCEPT !.stale = stale]
    PROVE  Stales(c, v, name, stale)
<1>1. PICK d : d = Call(v, name)
  OBVIOUS
<1>2. d \in Calls /\ ~d.threw /\ d.name = name /\ d.on = v
  BY <1>1, CallIs DEF Begun
<1>3. c = [d EXCEPT !.stale = stale]
  BY <1>1
<1> QED  BY <1>2, <1>3 DEF Begun, Calls, Stales

LEMMA TruthCallIs ==
    ASSUME NEW v \in Vectors, NEW name \in Operations, NEW truth \in BOOLEAN,
           NEW c, c = [Call(v, name) EXCEPT !.returned = truth]
    PROVE  Begun(c) /\ c.name = name /\ c.on = v
<1>1. PICK d : d = Call(v, name)
  OBVIOUS
<1>2. d \in Calls /\ ~d.threw /\ d.name = name /\ d.on = v
  BY <1>1, CallIs DEF Begun
<1>3. c = [d EXCEPT !.returned = truth]
  BY <1>1
<1> QED  BY <1>2, <1>3 DEF Begun, Calls

\* Where it may throw, everything is still as it was.
LEMMA LeadsEnds ==
    ASSUME NEW xs, Rest(Memory, xs, {}), NEW c, c.name \notin {"assign", "copy_assign"}, NEW s, NEW r,
           \A A : Memory \in A => Ends(Memory, s, r, A)
    PROVE  Leads(Memory, s, c, xs, r)
<1>1. PICK A : A = {Memory}
  OBVIOUS
<1>2. Ends(Memory, s, r, A)
  BY <1>1
<1>3. TornIn(Memory, c) = {}
  BY DEF TornIn
<1>4. \A a \in A : Rest(a, xs, TornIn(a, c))
  BY <1>1, <1>3
<1> QED  BY <1>2, <1>4 DEF Leads

LEMMA LeadsHalts ==
    ASSUME NEW xs, Rest(Memory, xs, {}), NEW c, c.name \notin {"assign", "copy_assign"}, c.stale, NEW s, NEW r,
           \A A : Memory \in A => Halts(Memory, s, A)
    PROVE  Leads(Memory, s, c, xs, r)
<1>1. PICK A : A = {Memory}
  OBVIOUS
<1>2. Halts(Memory, s, A)
  BY <1>1
<1>3. TornIn(Memory, c) = {}
  BY DEF TornIn
<1>4. \A a \in A : Rest(a, xs, TornIn(a, c))
  BY <1>1, <1>3
<1> QED  BY <1>2, <1>4 DEF Leads

LEMMA TornIs ==
    ASSUME NEW v \in Vectors, NEW c, c.name \in {"assign", "copy_assign"}, c.on = v, NEW g
    PROVE  TornIn(g, c) = TornAt(g, v)
  BY DEF TornIn, TornAt

LEMMA LeadsAssigns ==
    ASSUME NEW v \in Vectors, NEW c, c.name \in {"assign", "copy_assign"}, c.on = v, NEW s, NEW r, NEW xs,
           Assigns(Memory, s, r, xs, v)
    PROVE  Leads(Memory, s, c, xs, r)
<1>1. PICK g : Ends(Memory, s, r, {g}) /\ Rest(g, xs, TornAt(g, v))
  BY DEF Assigns
<1>2. \A a \in {g} : Rest(a, xs, TornIn(a, c))
  BY <1>1, TornIs
<1> QED  BY <1>1, <1>2 DEF Leads

LEMMA LeadsMisreads ==
    ASSUME NEW v \in Vectors, NEW c, c.name \in {"assign", "copy_assign"}, c.on = v, c.stale, NEW s, NEW r,
           NEW xs, Misreads(Memory, s, xs, v)
    PROVE  Leads(Memory, s, c, xs, r)
<1>1. PICK g : Halts(Memory, s, {g}) /\ Rest(g, xs, TornAt(g, v))
  BY DEF Misreads
<1>2. \A a \in {g} : Rest(a, xs, TornIn(a, c))
  BY <1>1, TornIs
<1> QED  BY <1>1, <1>2 DEF Leads

LEMMA InputIs ==
    ASSUME NEW n, NEW xs \in Inputs(n)
    PROVE  xs \in Seq(Values) /\ Len(xs) \in Nat
<1>1. PICK m \in 0..n : xs \in [1..m -> Values]
  BY DEF Inputs, BoundedSeq, SeqOf
<1>2. m \in Nat
  BY <1>1
<1> QED  BY <1>1, <1>2

LEMMA AssignKeeps ==
    ASSUME IInv, NEW v \in Vectors, Assign(v)
    PROVE  IInv'
<1>1. PICK xs \in Inputs(MaxSize), b \in Free :
        Run(v, "assign",
            destroy_all(v) \o assign_impl(v, Len(xs), AssignPuts(choose_data(v, Len(xs), b), xs),
                                          choose_data(v, Len(xs), b)), xs)
  BY DEF Assign, AssignPuts, Steps
<1>2. PICK n, to, made, s, c, r : /\ n = Len(xs) /\ to = choose_data(v, n, b) /\ made = AssignPuts(to, xs)
                                  /\ s = destroy_all(v) \o assign_impl(v, n, made, to)
                                  /\ c = Call(v, "assign") /\ r = [contents EXCEPT ![v] = xs]
  OBVIOUS
<1>3. Do(c, s, r)
  BY <1>1, <1>2 DEF Run
<1>4. Rest(Memory, contents, {})
  BY <1>3, DoAtRest
<1>5. xs \in Seq(Values) /\ n \in Nat
  BY <1>2, InputIs
<1>6. Chosen(to, v, n)
  BY <1>2, <1>4, <1>5, ChooseData
<1>7. \A m : Lost(Memory, m, Elements(Memory, v)) => Making(m, made, to.ptr, xs, n)
  BY <1>2, <1>5, PutsMake
<1>8. Assigns(Memory, s, r, contents, v)
  BY <1>2, <1>4, <1>5, <1>6, <1>7, AssignEnds
<1>9. Begun(c) /\ c.name = "assign" /\ c.on = v
  BY <1>2, CallIs DEF Operations
<1>10. Leads(Memory, s, c, contents, r)
  BY <1>8, <1>9, LeadsAssigns
<1> QED  BY <1>3, <1>9, <1>10, DoKeeps

LEMMA AssignOwnKeeps ==
    ASSUME IInv, NEW v \in Vectors, AssignOwn(v)
    PROVE  IInv'
<1>1. PICK n \in 1..MaxSize, i \in 0..(size(v) - 1), b \in Free :
        RunOwn(v, "assign", TRUE,
               destroy_all(v) \o assign_impl(v, n, OwnMade(v, i, n, choose_data(v, n, b)),
                                             choose_data(v, n, b)), contents[v])
  BY DEF AssignOwn, OwnMade, Steps
<1>2. PICK to, made, s, c, r : /\ to = choose_data(v, n, b) /\ made = OwnMade(v, i, n, to)
                               /\ s = destroy_all(v) \o assign_impl(v, n, made, to)
                               /\ c = [Call(v, "assign") EXCEPT !.stale = TRUE]
                               /\ r = [contents EXCEPT ![v] = contents[v]]
  OBVIOUS
<1>3. Do(c, s, r)
  BY <1>1, <1>2 DEF RunOwn
<1>4. Rest(Memory, contents, {})
  BY <1>3, DoAtRest
<1>5. n \in Nat \ {0}
  BY MaxSizeAssumption
<1>6. Chosen(to, v, n)
  BY <1>2, <1>4, <1>5, ChooseData
<1>7. Misreads(Memory, s, contents, v)
  BY <1>2, <1>4, <1>5, <1>6, AssignOwnHalts
<1>8. Begun(c) /\ c.name = "assign" /\ c.on = v /\ c.stale
  <2>1. PICK stale : stale = TRUE
    OBVIOUS
  <2>2. "assign" \in Operations /\ stale \in BOOLEAN /\ c = [Call(v, "assign") EXCEPT !.stale = stale]
    BY <1>2, <2>1 DEF Operations
  <2>3. Stales(c, v, "assign", stale)
    BY <2>2, StaleCallIs
  <2> QED  BY <2>1, <2>3 DEF Stales
<1>9. Leads(Memory, s, c, contents, r)
  BY <1>7, <1>8, LeadsMisreads
<1> QED  BY <1>3, <1>8, <1>9, DoKeeps

LEMMA CopyAssignKeeps ==
    ASSUME IInv, NEW v \in Vectors, NEW w \in Vectors, CopyAssign(v, w)
    PROVE  IInv'
<1>1. v # w /\ \E b \in Free :
        Run(v, "copy_assign",
            destroy_all(v) \o assign_impl(v, size(w), CopyMade(w, choose_data(v, size(w), b)),
                                          choose_data(v, size(w), b)), contents[w])
  BY DEF CopyAssign, CopyMade, Steps
<1>2. PICK b \in Free :
        Run(v, "copy_assign",
            destroy_all(v) \o assign_impl(v, size(w), CopyMade(w, choose_data(v, size(w), b)),
                                          choose_data(v, size(w), b)), contents[w])
  BY <1>1
<1>3. PICK n, to, made, s, c, r, ys : /\ n = size(w) /\ to = choose_data(v, n, b) /\ made = CopyMade(w, to)
                                      /\ s = destroy_all(v) \o assign_impl(v, n, made, to)
                                      /\ c = Call(v, "copy_assign") /\ r = [contents EXCEPT ![v] = ys]
                                      /\ ys = contents[w]
  OBVIOUS
<1>4. Do(c, s, r)
  BY <1>2, <1>3 DEF Run
<1>5. Rest(Memory, contents, {})
  BY <1>4, DoAtRest
<1>6. ys \in Seq(Values) /\ Len(ys) = n /\ n \in Nat
  BY <1>3, <1>5, Found, FoundElements
<1>7. Chosen(to, v, n)
  BY <1>3, <1>5, <1>6, ChooseData
<1>8. \A m : Lost(Memory, m, Elements(Memory, v)) => Making(m, made, to.ptr, ys, n)
  BY <1>1, <1>3, <1>5, CopiesMake
<1>9. Assigns(Memory, s, r, contents, v)
  BY <1>3, <1>5, <1>6, <1>7, <1>8, AssignEnds
<1>10. Begun(c) /\ c.name = "copy_assign" /\ c.on = v
  BY <1>3, CallIs DEF Operations
<1>11. Leads(Memory, s, c, contents, r)
  BY <1>9, <1>10, LeadsAssigns
<1> QED  BY <1>4, <1>10, <1>11, DoKeeps

LEMMA MoveAssignKeeps ==
    ASSUME IInv, NEW v \in Vectors, NEW w \in Vectors, MoveAssign(v, w)
    PROVE  IInv'
<1>1. PICK s, c, r : /\ s = destroy_all(v) \o FreeOld(v) \o take_impl(v, w)
                     /\ c = Call(v, "move_assign") /\ r = [contents EXCEPT ![v] = contents[w], ![w] = <<>>]
  OBVIOUS
<1>2. v # w /\ Do(c, s, r)
  BY <1>1 DEF MoveAssign
<1>3. Rest(Memory, contents, {})
  BY <1>2, DoAtRest
<1>4. \A A : Ends(Memory, s, r, A)
  BY <1>1, <1>2, <1>3, MoveAssignEnds
<1>5. Begun(c) /\ c.name \notin {"assign", "copy_assign"}
  BY <1>1, CallIs DEF Operations
<1>6. Leads(Memory, s, c, contents, r)
  BY <1>3, <1>4, <1>5, LeadsEnds
<1> QED  BY <1>2, <1>5, <1>6, DoKeeps

LEMMA RecreateKeeps ==
    ASSUME IInv, NEW v \in Vectors, Recreate(v)
    PROVE  IInv'
<1>1. PICK s, c, r : /\ s = destroy_all(v) \o FreeOld(v) \o <<Point(v, v, <<v, 0>>, StaticCapacity)>>
                     /\ c = Call(v, "destroy") /\ r = [contents EXCEPT ![v] = <<>>]
  OBVIOUS
<1>2. Do(c, s, r)
  BY <1>1 DEF Recreate, Run
<1>3. Rest(Memory, contents, {})
  BY <1>2, DoAtRest
<1>4. ASSUME NEW A
      PROVE  Ends(Memory, s, r, A)
  BY <1>1, <1>3, RecreateRuns DEF Ends
<1>5. Begun(c) /\ c.name \notin {"assign", "copy_assign"}
  BY <1>1, CallIs DEF Operations
<1>6. Leads(Memory, s, c, contents, r)
  BY <1>3, <1>4, <1>5, LeadsEnds
<1> QED  BY <1>2, <1>5, <1>6, DoKeeps

LEMMA ClearKeeps ==
    ASSUME IInv, NEW v \in Vectors, Clear(v)
    PROVE  IInv'
<1>1. PICK s, c, r : s = clear(v) /\ c = Call(v, "clear") /\ r = [contents EXCEPT ![v] = <<>>]
  OBVIOUS
<1>2. Do(c, s, r)
  BY <1>1 DEF Clear, Run
<1>3. Rest(Memory, contents, {})
  BY <1>2, DoAtRest
<1>4. ASSUME NEW A
      PROVE  Ends(Memory, s, r, A)
  BY <1>1, <1>3, ClearRuns DEF Ends
<1>5. Begun(c) /\ c.name \notin {"assign", "copy_assign"}
  BY <1>1, CallIs DEF Operations
<1>6. Leads(Memory, s, c, contents, r)
  BY <1>3, <1>4, <1>5, LeadsEnds
<1> QED  BY <1>2, <1>5, <1>6, DoKeeps

LEMMA ReserveKeeps ==
    ASSUME IInv, NEW v \in Vectors, Reserve(v)
    PROVE  IInv'
<1>1. PICK n \in 0..(MaxSize + 1), b \in Free :
        Run(v, "reserve", reserve(v, n, Reserved(v, n, b)), contents[v])
  BY DEF Reserve
<1>2. PICK s, c, r : /\ s = reserve(v, n, Reserved(v, n, b))
                     /\ c = Call(v, "reserve") /\ r = [contents EXCEPT ![v] = contents[v]]
  OBVIOUS
<1>3. Do(c, s, r)
  BY <1>1, <1>2 DEF Run
<1>4. Rest(Memory, contents, {})
  BY <1>3, DoAtRest
<1>5. n \in Nat
  BY MaxSizeAssumption
<1>6. ASSUME NEW A, Memory \in A
      PROVE  Ends(Memory, s, r, A)
  BY <1>2, <1>4, <1>5, <1>6, ReserveEnds
<1>7. Begun(c) /\ c.name \notin {"assign", "copy_assign"}
  BY <1>2, CallIs DEF Operations
<1>8. Leads(Memory, s, c, contents, r)
  BY <1>4, <1>6, <1>7, LeadsEnds
<1> QED  BY <1>3, <1>7, <1>8, DoKeeps

LEMMA ShrinkToFitKeeps ==
    ASSUME IInv, NEW v \in Vectors, ShrinkToFit(v)
    PROVE  IInv'
<1>1. PICK b \in Free :
        Do([Call(v, "shrink_to_fit") EXCEPT !.returned = ~is_static(v) /\ size(v) # m_capacity[v]],
           shrink_to_fit(v, b), contents)
  BY DEF ShrinkToFit
<1>2. PICK truth : truth = (~is_static(v) /\ size(v) # m_capacity[v])
  OBVIOUS
<1>3. truth \in BOOLEAN
  BY <1>2
<1>4. PICK s, c : s = shrink_to_fit(v, b) /\ c = [Call(v, "shrink_to_fit") EXCEPT !.returned = truth]
  OBVIOUS
<1>5. Do(c, s, contents)
  BY <1>1, <1>2, <1>4
<1>6. Rest(Memory, contents, {})
  BY <1>5, DoAtRest
<1>7. \A A : Memory \in A => Ends(Memory, s, contents, A)
  BY <1>4, <1>6, ShrinkToFitEnds
<1>8. Begun(c) /\ c.name \notin {"assign", "copy_assign"}
  <2>1. "shrink_to_fit" \in Operations /\ c = [Call(v, "shrink_to_fit") EXCEPT !.returned = truth]
    BY <1>4 DEF Operations
  <2> QED  BY <1>3, <2>1, TruthCallIs
<1>9. Leads(Memory, s, c, contents, contents)
  BY <1>6, <1>7, <1>8, LeadsEnds
<1> QED  BY <1>5, <1>8, <1>9, DoKeeps

LEMMA RevertToStaticKeeps ==
    ASSUME IInv, NEW v \in Vectors, RevertToStatic(v)
    PROVE  IInv'
<1>1. PICK b \in Free :
        Do([Call(v, "revert_to_static") EXCEPT !.returned = is_static(v) \/ size(v) <= StaticCapacity],
           IF is_static(v) \/ size(v) > StaticCapacity THEN <<>> ELSE shrink_to_fit(v, b), contents)
  BY DEF RevertToStatic
<1>2. PICK truth : truth = (is_static(v) \/ size(v) <= StaticCapacity)
  OBVIOUS
<1>3. truth \in BOOLEAN
  BY <1>2
<1>4. PICK s, c : /\ s = (IF is_static(v) \/ size(v) > StaticCapacity THEN <<>> ELSE shrink_to_fit(v, b))
                  /\ c = [Call(v, "revert_to_static") EXCEPT !.returned = truth]
  OBVIOUS
<1>5. Do(c, s, contents)
  BY <1>1, <1>2, <1>4
<1>6. Rest(Memory, contents, {})
  BY <1>5, DoAtRest
<1>7. ASSUME NEW A, Memory \in A
      PROVE  Ends(Memory, s, contents, A)
  <2>1. CASE s = <<>>
    BY <1>6, <2>1, RunsNone DEF Ends
  <2>2. CASE s = shrink_to_fit(v, b)
    BY <1>6, <1>7, <2>2, ShrinkToFitEnds
  <2> QED  BY <1>4, <2>1, <2>2
<1>8. Begun(c) /\ c.name \notin {"assign", "copy_assign"}
  <2>1. "revert_to_static" \in Operations /\ c = [Call(v, "revert_to_static") EXCEPT !.returned = truth]
    BY <1>4 DEF Operations
  <2> QED  BY <1>3, <2>1, TruthCallIs
<1>9. Leads(Memory, s, c, contents, contents)
  BY <1>6, <1>7, <1>8, LeadsEnds
<1> QED  BY <1>5, <1>8, <1>9, DoKeeps

LEMMA InsertKeeps ==
    ASSUME IInv, NEW v \in Vectors, Insert(v), EmptyRanges = FALSE
    PROVE  IInv'
<1>1. PICK k \in 0..size(v), xs \in Inputs(MaxSize - size(v)), b \in Free :
        /\ xs # <<>>
        /\ Run(v, "insert",
               grow_at(v, k, Len(xs), choose_data(v, size(v) + Len(xs), b))
               \o Puts(choose_data(v, size(v) + Len(xs), b), k, xs),
               SubSeq(contents[v], 1, k) \o xs \o SubSeq(contents[v], k + 1, size(v)))
  BY DEF Insert, Puts, Steps
<1>2. PICK n, to, s, c, w : /\ n = Len(xs) /\ to = choose_data(v, size(v) + n, b)
                            /\ s = grow_at(v, k, n, to) \o Puts(to, k, xs)
                            /\ c = Call(v, "insert")
                            /\ w = SubSeq(contents[v], 1, k) \o xs \o SubSeq(contents[v], k + 1, size(v))
  OBVIOUS
<1>3. PICK r : r = [contents EXCEPT ![v] = w]
  OBVIOUS
<1>4. Do(c, s, r)
  BY <1>1, <1>2, <1>3 DEF Run
<1>5. Rest(Memory, contents, {})
  BY <1>4, DoAtRest
<1>6. size(v) \in Nat /\ Len(contents[v]) = size(v)
  BY <1>5, Found, FoundElements
<1>7. xs \in Seq(Values) /\ n \in Nat
  BY <1>2, InputIs
<1>8. Chosen(to, v, size(v) + n)
  <2>1. size(v) + n \in Nat
    BY <1>6, <1>7
  <2> QED  BY <1>2, <1>5, <2>1, ChooseData
<1>9. w = Inserted(contents[v], k, xs)
  BY <1>2, <1>6 DEF Inserted
<1>10. ASSUME NEW A, Memory \in A
       PROVE  Ends(Memory, s, r, A)
  <2>1. Ends(Memory, grow_at(v, k, Len(xs), to) \o Puts(to, k, xs),
             [contents EXCEPT ![v] = Inserted(contents[v], k, xs)], A)
    BY <1>1, <1>2, <1>5, <1>7, <1>8, <1>10, InsertRuns
  <2> QED  BY <1>2, <1>3, <1>9, <2>1
<1>11. Begun(c) /\ c.name \notin {"assign", "copy_assign"}
  BY <1>2, CallIs DEF Operations
<1>12. Leads(Memory, s, c, contents, r)
  BY <1>5, <1>10, <1>11, LeadsEnds
<1> QED  BY <1>4, <1>11, <1>12, DoKeeps

LEMMA EraseKeeps ==
    ASSUME IInv, NEW v \in Vectors, Erase(v), EmptyRanges = FALSE
    PROVE  IInv'
<1>1. PICK k, num : /\ k \in 0..size(v) /\ num \in 0..(size(v) - k) /\ num > 0
                    /\ Run(v, "erase", shrink_at(v, k, num),
                           SubSeq(contents[v], 1, k) \o SubSeq(contents[v], k + num + 1, size(v)))
  BY DEF Erase
<1>2. PICK s, c, w : /\ s = shrink_at(v, k, num) /\ c = Call(v, "erase")
                     /\ w = SubSeq(contents[v], 1, k) \o SubSeq(contents[v], k + num + 1, size(v))
  OBVIOUS
<1>3. PICK r : r = [contents EXCEPT ![v] = w]
  OBVIOUS
<1>4. Do(c, s, r)
  BY <1>1, <1>2, <1>3 DEF Run
<1>5. Rest(Memory, contents, {})
  BY <1>4, DoAtRest
<1>6. size(v) \in Nat /\ Len(contents[v]) = size(v)
  BY <1>5, Found, FoundElements
<1>7. k \in Nat /\ num \in Nat \ {0} /\ k + num <= size(v)
  BY <1>1, <1>6
<1>8. r = [contents EXCEPT ![v] = Erased(contents[v], k, num)]
  BY <1>2, <1>3, <1>6 DEF Erased
<1>9. \A A : Ends(Memory, s, r, A)
  BY <1>2, <1>5, <1>7, <1>8, EraseEnds
<1>10. Begun(c) /\ c.name \notin {"assign", "copy_assign"}
  BY <1>2, CallIs DEF Operations
<1>11. Leads(Memory, s, c, contents, r)
  BY <1>5, <1>9, <1>10, LeadsEnds
<1> QED  BY <1>4, <1>10, <1>11, DoKeeps

LEMMA ResizeKeeps ==
    ASSUME IInv, NEW v \in Vectors, Resize(v)
    PROVE  IInv'
<1>1. PICK n \in 0..MaxSize, x \in Values, b \in Free :
        Run(v, "resize",
            reserve(v, n, Reserved(v, n, b))
            \o (IF n <= size(v)
                THEN Drops(size(v), n, Reserved(v, n, b))
                     \o <<Point(v, Reserved(v, n, b).ptr, <<Reserved(v, n, b).ptr, n>>, Reserved(v, n, b).cap)>>
                ELSE CountedPuts(v, size(v), n, Reserved(v, n, b), x)),
            [i \in 1..n |-> IF i <= size(v) THEN contents[v][i] ELSE x])
  BY DEF Resize, Drops, CountedPuts, Steps, Alternate
<1>2. PICK to, c, w : /\ to = Reserved(v, n, b) /\ c = Call(v, "resize")
                      /\ w = [i \in 1..n |-> IF i <= size(v) THEN contents[v][i] ELSE x]
  OBVIOUS
<1>3. PICK s : s = reserve(v, n, to) \o (IF n <= size(v)
                                         THEN Drops(size(v), n, to) \o <<Point(v, to.ptr, <<to.ptr, n>>, to.cap)>>
                                         ELSE CountedPuts(v, size(v), n, to, x))
  OBVIOUS
<1>4. PICK r : r = [contents EXCEPT ![v] = w]
  OBVIOUS
<1>5. Do(c, s, r)
  BY <1>1, <1>2, <1>3, <1>4 DEF Run
<1>6. Rest(Memory, contents, {})
  BY <1>5, DoAtRest
<1>7. size(v) \in Nat /\ Len(contents[v]) = size(v) /\ n \in Nat
  BY <1>6, Found, FoundElements, MaxSizeAssumption
<1>8. r = [contents EXCEPT ![v] = Stretched(contents[v], n, x)]
  BY <1>2, <1>4, <1>7 DEF Stretched
<1>9. ASSUME NEW A, Memory \in A
      PROVE  Ends(Memory, s, r, A)
  <2>1. CASE n <= size(v)
    <3>1. n \in 0..size(v)
      BY <1>7, <2>1
    <3>2. Ends(Memory,
               reserve(v, n, to) \o (Drops(size(v), n, to) \o <<Point(v, to.ptr, <<to.ptr, n>>, to.cap)>>),
               [contents EXCEPT ![v] = Stretched(contents[v], n, x)], A)
      BY <1>2, <1>6, <3>1, ResizeDownEnds
    <3> QED  BY <1>3, <1>8, <2>1, <3>2
  <2>2. CASE ~(n <= size(v))
    <3>1. n > size(v)
      BY <1>7, <2>2
    <3>2. Ends(Memory, reserve(v, n, to) \o CountedPuts(v, size(v), n, to, x),
               [contents EXCEPT ![v] = Stretched(contents[v], n, x)], A)
      BY <1>2, <1>6, <1>7, <1>9, <3>1, ResizeUpEnds
    <3> QED  BY <1>3, <1>8, <2>2, <3>2
  <2> QED  BY <2>1, <2>2
<1>10. Begun(c) /\ c.name \notin {"assign", "copy_assign"}
  BY <1>2, CallIs DEF Operations
<1>11. Leads(Memory, s, c, contents, r)
  BY <1>6, <1>9, <1>10, LeadsEnds
<1> QED  BY <1>5, <1>10, <1>11, DoKeeps

LEMMA ResizeOwnKeeps ==
    ASSUME IInv, NEW v \in Vectors, ResizeOwn(v)
    PROVE  IInv'
<1>1. PICK n \in (size(v) + 1)..MaxSize, i \in 0..(size(v) - 1), b \in Free :
        RunOwn(v, "resize", n > m_capacity[v],
               reserve(v, n, Reserved(v, n, b)) \o CountedCopies(v, i, size(v), n, Reserved(v, n, b)),
               [j \in 1..n |-> contents[v][IF j <= size(v) THEN j ELSE i + 1]])
  BY DEF ResizeOwn, CountedCopies, Alternate
<1>2. PICK to, s, w, stale : /\ to = Reserved(v, n, b)
                             /\ s = reserve(v, n, to) \o CountedCopies(v, i, size(v), n, to)
                             /\ w = [j \in 1..n |-> contents[v][IF j <= size(v) THEN j ELSE i + 1]]
                             /\ stale = (n > m_capacity[v])
  OBVIOUS
<1>3. PICK c, r : c = [Call(v, "resize") EXCEPT !.stale = stale] /\ r = [contents EXCEPT ![v] = w]
  OBVIOUS
<1>4. Do(c, s, r)
  BY <1>1, <1>2, <1>3 DEF RunOwn
<1>5. Rest(Memory, contents, {})
  BY <1>4, DoAtRest
<1>6. /\ size(v) \in Nat /\ Len(contents[v]) = size(v) /\ n \in Nat /\ n > size(v)
      /\ m_capacity[v] \in Nat /\ stale \in BOOLEAN
  <2>1. /\ size(v) \in Nat /\ Len(contents[v]) = size(v) /\ m_capacity[v] \in Nat
    BY <1>5, Found, FoundElements
  <2>2. n \in Nat /\ n > size(v)
    BY <2>1, MaxSizeAssumption
  <2> QED  BY <1>2, <2>1, <2>2
<1>7. r = [contents EXCEPT ![v] = Stretched(contents[v], n, contents[v][i + 1])]
  <2>1. w = Stretched(contents[v], n, contents[v][i + 1])
    BY <1>2, <1>6 DEF Stretched
  <2> QED  BY <1>3, <2>1
<1>8. Begun(c) /\ c.name = "resize" /\ c.stale = stale
  <2>1. "resize" \in Operations
    BY DEF Operations
  <2>2. Stales(c, v, "resize", stale)
    BY <1>3, <1>6, <2>1, StaleCallIs
  <2> QED  BY <2>2 DEF Stales
<1>9. Leads(Memory, s, c, contents, r)
  <2>1. CASE n <= m_capacity[v]
    <3>1. ASSUME NEW A, Memory \in A
          PROVE  Ends(Memory, s, r, A)
      <4>1. Ends(Memory, reserve(v, n, to) \o CountedCopies(v, i, size(v), n, to),
                 [contents EXCEPT ![v] = Stretched(contents[v], n, contents[v][i + 1])], A)
        BY <1>2, <1>5, <1>6, <2>1, <3>1, ResizeOwnEnds
      <4> QED  BY <1>2, <1>7, <4>1
    <3> QED  BY <1>5, <1>8, <3>1, LeadsEnds
  <2>2. CASE n > m_capacity[v]
    <3>1. ASSUME NEW A, Memory \in A
          PROVE  Halts(Memory, s, A)
      BY <1>2, <1>5, <1>6, <2>2, <3>1, ResizeOwnHalts
    <3>2. c.stale
      BY <1>2, <1>8, <2>2
    <3> QED  BY <1>5, <1>8, <3>1, <3>2, LeadsHalts
  <2> QED  BY <1>6, <2>1, <2>2
<1> QED  BY <1>4, <1>8, <1>9, DoKeeps

LEMMA InsertOwnKeeps ==
    ASSUME IInv, NEW v \in Vectors, InsertOwn(v)
    PROVE  IInv'
<1>1. PICK k \in 0..size(v), i \in 0..(size(v) - 1), num \in 1..(MaxSize - size(v)), b \in Free :
        RunOwn(v, "insert", choose_data(v, size(v) + num, b).ptr # m_begin[v] \/ i \in k..(k + num - 1),
               grow_at(v, k, num, choose_data(v, size(v) + num, b))
               \o Copies(v, i, choose_data(v, size(v) + num, b), k, num),
               IF choose_data(v, size(v) + num, b).ptr # m_begin[v] \/ i \in k..(k + num - 1)
               THEN contents[v]
               ELSE SubSeq(contents[v], 1, k)
                    \o [j \in 1..num |-> contents[v][(IF i < k THEN i ELSE i - num) + 1]]
                    \o SubSeq(contents[v], k + 1, size(v)))
  BY DEF InsertOwn, Copies, Steps
<1>2. PICK to, xs, stale : /\ to = choose_data(v, size(v) + num, b)
                           /\ xs = [j \in 1..num |-> contents[v][(IF i < k THEN i ELSE i - num) + 1]]
                           /\ stale = (to.ptr # m_begin[v] \/ i \in k..(k + num - 1))
  OBVIOUS
<1>3. PICK s, w : /\ s = grow_at(v, k, num, to) \o Copies(v, i, to, k, num)
                  /\ w = (IF stale THEN contents[v]
                          ELSE SubSeq(contents[v], 1, k) \o xs \o SubSeq(contents[v], k + 1, size(v)))
  OBVIOUS
<1>4. PICK c, r : c = [Call(v, "insert") EXCEPT !.stale = stale] /\ r = [contents EXCEPT ![v] = w]
  OBVIOUS
<1>5. Do(c, s, r)
  BY <1>1, <1>2, <1>3, <1>4 DEF RunOwn
<1>6. Rest(Memory, contents, {})
  BY <1>5, DoAtRest
<1>7. size(v) \in Nat /\ Len(contents[v]) = size(v) /\ num \in Nat \ {0} /\ stale \in BOOLEAN
  <2>1. size(v) \in Nat /\ Len(contents[v]) = size(v)
    BY <1>6, Found, FoundElements
  <2>2. num \in Nat \ {0}
    BY <2>1, MaxSizeAssumption
  <2> QED  BY <1>2, <2>1, <2>2
<1>8. Chosen(to, v, size(v) + num)
  <2>1. size(v) + num \in Nat
    BY <1>7
  <2> QED  BY <1>2, <1>6, <2>1, ChooseData
<1>9. Begun(c) /\ c.name = "insert" /\ c.stale = stale
  <2>1. "insert" \in Operations
    BY DEF Operations
  <2>2. Stales(c, v, "insert", stale)
    BY <1>4, <1>7, <2>1, StaleCallIs
  <2> QED  BY <2>2 DEF Stales
<1>10. Leads(Memory, s, c, contents, r)
  <2>1. CASE stale
    <3>1. to.ptr # m_begin[v] \/ i \in k..(k + num - 1)
      BY <1>2, <2>1
    <3>2. ASSUME NEW A, Memory \in A
          PROVE  Halts(Memory, s, A)
      BY <1>3, <1>6, <1>7, <1>8, <3>1, <3>2, InsertOwnHalts
    <3> QED  BY <1>6, <1>9, <2>1, <3>2, LeadsHalts
  <2>2. CASE ~stale
    <3>1. to.ptr = m_begin[v] /\ i \notin k..(k + num - 1)
      BY <1>2, <2>2
    <3>2. xs = [j \in 1..num |-> contents[v][(IF i < k THEN i ELSE i - num) + 1]]
      BY <1>2
    <3>3. r = [contents EXCEPT ![v] = Inserted(contents[v], k, xs)]
      BY <1>3, <1>4, <1>7, <2>2 DEF Inserted
    <3>4. ASSUME NEW A, Memory \in A
          PROVE  Ends(Memory, s, r, A)
      <4>1. Ends(Memory, grow_at(v, k, num, to) \o Copies(v, i, to, k, num),
                 [contents EXCEPT ![v] = Inserted(contents[v], k, xs)], A)
        BY <1>6, <1>7, <1>8, <3>1, <3>2, <3>4, InsertOwnRuns
      <4> QED  BY <1>3, <3>3, <4>1
    <3> QED  BY <1>6, <1>9, <3>4, LeadsEnds
  <2> QED  BY <1>7, <2>1, <2>2
<1> QED  BY <1>5, <1>9, <1>10, DoKeeps

LEMMA StutterKeeps ==
    ASSUME IInv, UNCHANGED vars
    PROVE  IInv'
<1>1. /\ m_begin' = m_begin /\ m_end' = m_end /\ m_capacity' = m_capacity /\ block' = block /\ object' = object
      /\ todo' = todo /\ call' = call /\ contents' = contents /\ goal' = goal /\ fault' = fault
  BY DEF vars
<1>2. Memory' = Memory
  BY <1>1 DEF Memory
<1>3. {v \in Vectors : Torn(v)'} = {v \in Vectors : Torn(v)}
  BY <1>1 DEF Torn, size
<1>4. Settled'
  BY <1>1, <1>2, <1>3 DEF IInv, Settled
<1> QED  BY <1>1, <1>2, <1>4 DEF IInv, Shape, Underway, Faulted

\* The memory invariant, of every step of every operation: before its last, the
\* steps that are left lead to vectors at rest that contain what std::vectors would.
THEOREM MemoryInvariance ==
    ASSUME CopyThrows = {}, EmptyRanges = FALSE
    PROVE  Spec => []IInv
<1>1. Init => IInv
  BY InitIInv
<1>2. ASSUME IInv, [Next]_vars
      PROVE  IInv'
  <2>1. CASE Advance
    BY <1>2, <2>1, AdvanceKeeps
  <2>2. CASE Throw
    BY <1>2, <2>2, ThrowKeeps
  <2>3. ASSUME NEW v \in Vectors,
               \/ Assign(v) \/ Recreate(v) \/ Reserve(v) \/ ShrinkToFit(v) \/ RevertToStatic(v)
               \/ Clear(v) \/ Insert(v) \/ Erase(v) \/ Resize(v)
               \/ AssignOwn(v) \/ InsertOwn(v) \/ ResizeOwn(v)
        PROVE  IInv'
    <3>1. CASE Assign(v)
      BY <1>2, <3>1, AssignKeeps
    <3>2. CASE Recreate(v)
      BY <1>2, <3>2, RecreateKeeps
    <3>3. CASE Reserve(v)
      BY <1>2, <3>3, ReserveKeeps
    <3>4. CASE ShrinkToFit(v)
      BY <1>2, <3>4, ShrinkToFitKeeps
    <3>5. CASE RevertToStatic(v)
      BY <1>2, <3>5, RevertToStaticKeeps
    <3>6. CASE Clear(v)
      BY <1>2, <3>6, ClearKeeps
    <3>7. CASE Insert(v)
      BY <1>2, <3>7, InsertKeeps
    <3>8. CASE Erase(v)
      BY <1>2, <3>8, EraseKeeps
    <3>9. CASE Resize(v)
      BY <1>2, <3>9, ResizeKeeps
    <3>10. CASE AssignOwn(v)
      BY <1>2, <3>10, AssignOwnKeeps
    <3>11. CASE InsertOwn(v)
      BY <1>2, <3>11, InsertOwnKeeps
    <3>12. CASE ResizeOwn(v)
      BY <1>2, <3>12, ResizeOwnKeeps
    <3> QED  BY <2>3, <3>1, <3>2, <3>3, <3>4, <3>5, <3>6, <3>7, <3>8, <3>9, <3>10, <3>11, <3>12
  <2>4. ASSUME NEW v \in Vectors, NEW w \in Vectors, CopyAssign(v, w) \/ MoveAssign(v, w)
        PROVE  IInv'
    BY <1>2, <2>4, CopyAssignKeeps, MoveAssignKeeps
  <2>5. CASE UNCHANGED vars
    BY <1>2, <2>5, StutterKeeps
  <2> QED  BY <1>2, <2>1, <2>2, <2>3, <2>4, <2>5 DEF Next
<1> QED  BY <1>1, <1>2, PTL DEF Spec

-----------------------------------------------------------------------------
(* What it shows of the vectors at rest.                                   *)

LEMMA AtRestIs ==
    ASSUME IInv, AtRest
    PROVE  Shape /\ Rest(Memory, contents, {v \in Vectors : Torn(v)})
  BY DEF IInv, AtRest, Settled, Faulted, Shape

LEMMA WhereIs ==
    ASSUME Housing(Memory), NEW v \in Vectors
    PROVE  /\ m_begin[v] = Begin(Memory, v) /\ size(v) = Size(Memory, v)
           /\ m_end[v] = <<m_begin[v], size(v)>> /\ m_capacity[v] = Cap(Memory, m_begin[v])
           /\ size(v) \in Nat /\ m_capacity[v] \in Nat /\ size(v) <= m_capacity[v]
           /\ m_begin[v] \in Blocks \cup {v}
           /\ Elements(Memory, v) = Cells(m_begin[v], 0, size(v))
<1>1. Housed(Memory, v)
  BY DEF Housing
<1>2. Memory.at[v] = Place(m_begin[v], m_end[v], m_capacity[v])
  BY DEF Memory
<1>3. m_begin[v] = Begin(Memory, v) /\ m_end[v][2] = Size(Memory, v)
  BY <1>2 DEF Begin, Size, Place
<1>4. Place(m_begin[v], m_end[v], m_capacity[v])
      = Place(m_begin[v], <<m_begin[v], size(v)>>, Cap(Memory, m_begin[v]))
  BY <1>1, <1>2, <1>3 DEF Housed, size
<1>5. m_end[v] = <<m_begin[v], size(v)>> /\ m_capacity[v] = Cap(Memory, m_begin[v])
  BY <1>4 DEF Place
<1> QED  BY <1>1, <1>3, <1>5 DEF Housed, size, Elements

\* The steps of an operation misuse no memory, but for those of a call that was
\* given an element of the vector which is gone or elsewhere when they read it.
THEOREM LifetimesOfSmallVector ==
    ASSUME CopyThrows = {}, EmptyRanges = FALSE
    PROVE  Spec => []NoLifetimeFault
<1>1. IInv => NoLifetimeFault
  BY DEF IInv, Faulted, NoLifetimeFault
<1> QED  BY <1>1, MemoryInvariance, PTL

\* Between operations, the elements from m_begin to m_end are alive, and nothing else.
THEOREM ElementsOfSmallVector ==
    ASSUME CopyThrows = {}, EmptyRanges = FALSE
    PROVE  Spec => []ElementsAlive
<1>1. ASSUME IInv, AtRest
      PROVE  DOMAIN object = UNION {{At(v, i) : i \in 0..(size(v) - 1)} : v \in {w \in Vectors : ~Torn(w)}}
  <2>1. PICK T : T = {v \in Vectors : Torn(v)}
    OBVIOUS
  <2>2. Rest(Memory, contents, T)
    BY <1>1, <2>1, AtRestIs
  <2>3. Housing(Memory) /\ DOMAIN object = UNION {Elements(Memory, v) : v \in Vectors \ T}
    <3>1. Lives(Memory) = DOMAIN object
      BY DEF Lives, Memory
    <3> QED  BY <2>2, <3>1 DEF Rest
  <2>4. \A v \in Vectors : Elements(Memory, v) = {At(v, i) : i \in 0..(size(v) - 1)}
    BY <2>3, WhereIs DEF Cells, At
  <2>5. Vectors \ T = {w \in Vectors : ~Torn(w)}
    BY <2>1
  <2> QED  BY <2>3, <2>4, <2>5
<1>2. IInv => ElementsAlive
  BY <1>1 DEF ElementsAlive
<1> QED  BY <1>2, MemoryInvariance, PTL

\* A small_vector contains what a std::vector would after the same calls.
THEOREM SmallVectorIsVector ==
    ASSUME CopyThrows = {}, EmptyRanges = FALSE
    PROVE  Spec => []LikeStdVector
<1>1. ASSUME IInv, AtRest, NEW v \in Vectors, ~Torn(v)
      PROVE  contents[v] = [i \in 1..size(v) |-> Element(v, i - 1)]
  <2>1. PICK T : T = {u \in Vectors : Torn(u)}
    OBVIOUS
  <2>2. Rest(Memory, contents, T) /\ v \in Vectors \ T
    BY <1>1, <2>1, AtRestIs
  <2>3. Housing(Memory) /\ Elements(Memory, v) \subseteq DOMAIN object
        /\ Holds(Memory, v, contents[v]) /\ contents[v] \in Seq(Values)
    <3>1. Lives(Memory) = DOMAIN object
      BY DEF Lives, Memory
    <3> QED  BY <2>2, <3>1 DEF Rest
  <2>4. PICK n, a : n = size(v) /\ a = m_begin[v]
    OBVIOUS
  <2>5. /\ n \in Nat /\ n = Size(Memory, v) /\ a = Begin(Memory, v)
        /\ Elements(Memory, v) = Cells(a, 0, n)
    BY <2>3, <2>4, WhereIs
  <2>6. Memory.object = object
    BY DEF Memory
  <2>7. ASSUME NEW j \in 1..n
        PROVE  Element(v, j - 1) = contents[v][j]
    <3>1. PICK i \in 0..(n - 1) : i = j - 1 /\ i + 1 = j
      BY <2>5
    <3>2. <<a, i>> \in DOMAIN object
      BY <2>3, <2>5 DEF Cells
    <3>3. object[<<a, i>>] = contents[v][i + 1]
      BY <2>3, <2>5, <2>6 DEF Holds
    <3> QED  BY <2>4, <3>1, <3>2, <3>3 DEF Element, At
  <2>8. contents[v] = [j \in 1..n |-> contents[v][j]]
    BY <2>3, <2>5 DEF Holds
  <2> QED  BY <2>4, <2>7, <2>8
<1>2. IInv => LikeStdVector
  BY <1>1 DEF LikeStdVector
<1> QED  BY <1>2, MemoryInvariance, PTL

\* Every allocated block is used by exactly one vector, which knows its capacity.
THEOREM BuffersOfSmallVector ==
    ASSUME CopyThrows = {}, EmptyRanges = FALSE
    PROVE  Spec => []BuffersOwned
<1>1. ASSUME IInv, AtRest
      PROVE  Shape /\ Housing(Memory) /\ block \in [Blocks -> Nat] /\ contents \in [Vectors -> Seq(Values)]
             /\ \A b \in Blocks : block[b] # 0 => \E v \in Vectors : m_begin[v] = b
  <2>1. Shape /\ Housing(Memory) /\ contents \in [Vectors -> Seq(Values)]
    BY <1>1, AtRestIs DEF Rest
  <2>2. Memory.block = block
    BY DEF Memory
  <2>3. \A v \in Vectors : m_begin[v] = Begin(Memory, v)
    BY <2>1, WhereIs
  <2> QED  BY <2>1, <2>2, <2>3 DEF Housing
<1>2. ASSUME IInv, AtRest, NEW at \in DOMAIN object
      PROVE  at \in Buffers \X Nat /\ object[at] \in Values \cup {Moved}
  <2>1. PICK T : T = {v \in Vectors : Torn(v)}
    OBVIOUS
  <2>2. Rest(Memory, contents, T)
    BY <1>2, <2>1, AtRestIs
  <2>3. Lives(Memory) = DOMAIN object /\ Memory.object = object
    BY DEF Lives, Memory
  <2>4. PICK v \in Vectors : at \in Elements(Memory, v) /\ Holds(Memory, v, contents[v])
    BY <2>2, <2>3 DEF Rest
  <2>5. Housing(Memory) /\ contents[v] \in Seq(Values)
    BY <2>2 DEF Rest
  <2>6. /\ size(v) \in Nat /\ size(v) = Size(Memory, v) /\ m_begin[v] = Begin(Memory, v)
        /\ m_begin[v] \in Blocks \cup {v} /\ Elements(Memory, v) = Cells(m_begin[v], 0, size(v))
    BY <2>5, WhereIs
  <2>7. PICK i \in 0..(size(v) - 1) : at = <<m_begin[v], i>>
    BY <2>4, <2>6 DEF Cells
  <2>8. object[at] = contents[v][i + 1] /\ Len(contents[v]) = size(v)
    BY <2>3, <2>4, <2>6, <2>7 DEF Holds
  <2>9. i \in Nat /\ i + 1 \in 1..size(v)
    BY <2>6
  <2> QED  BY <2>5, <2>6, <2>7, <2>8, <2>9 DEF Buffers
<1>3. ASSUME IInv, AtRest, NEW v \in Vectors
      PROVE  /\ m_begin[v] \in Blocks \cup {v} /\ m_end[v] = <<m_begin[v], size(v)>>
             /\ size(v) \in Nat /\ m_capacity[v] \in Nat /\ size(v) <= m_capacity[v]
             /\ m_capacity[v] = IF is_static(v) THEN StaticCapacity ELSE block[m_begin[v]]
  <2>1. /\ m_begin[v] \in Blocks \cup {v} /\ m_end[v] = <<m_begin[v], size(v)>>
        /\ size(v) \in Nat /\ m_capacity[v] \in Nat /\ size(v) <= m_capacity[v]
        /\ m_capacity[v] = Cap(Memory, m_begin[v])
    BY <1>1, <1>3, WhereIs
  <2>2. Memory.block = block
    BY DEF Memory
  <2>3. Cap(Memory, m_begin[v]) = IF is_static(v) THEN StaticCapacity ELSE block[m_begin[v]]
    BY <2>1, <2>2, BuffersAssumption DEF Cap, is_static
  <2> QED  BY <2>1, <2>3
<1>4. ASSUME IInv, AtRest
      PROVE  TypeOK
  <2>1. Shape /\ block \in [Blocks -> Nat] /\ contents \in [Vectors -> Seq(Values)]
    BY <1>1, <1>4
  <2>2. \A v \in Vectors : /\ m_begin[v] \in Buffers /\ m_end[v] \in Buffers \X Nat /\ m_capacity[v] \in Nat
    BY <1>3, <1>4 DEF Buffers
  <2>3. m_begin \in [Vectors -> Buffers] /\ m_end \in [Vectors -> Buffers \X Nat] /\ m_capacity \in [Vectors -> Nat]
    BY <2>1, <2>2 DEF Shape
  <2>4. DOMAIN object \subseteq Buffers \X Nat /\ \A at \in DOMAIN object : object[at] \in Values \cup {Moved}
    BY <1>2, <1>4
  <2>5. call.name \in Operations /\ call.on \in Vectors \cup {Nobody}
        /\ call.returned \in BOOLEAN /\ call.stale \in BOOLEAN /\ call.threw \in BOOLEAN /\ fault \in BOOLEAN
    BY <2>1 DEF Shape, Calls
  <2> QED  BY <2>1, <2>3, <2>4, <2>5 DEF TypeOK
<1>5. ASSUME IInv, AtRest, NEW b \in Blocks, block[b] # 0
      PROVE  Cardinality({v \in Vectors : m_begin[v] = b}) = 1
  <2>1. PICK u \in Vectors : m_begin[u] = b
    BY <1>1, <1>5
  <2>2. \A v \in Vectors : m_begin[v] = Begin(Memory, v)
    BY <1>1, <1>5, WhereIs
  <2>3. {v \in Vectors : m_begin[v] = b} = {u}
    BY <1>1, <1>5, <2>1, <2>2 DEF Housing
  <2> QED  BY <2>3, FS_Singleton
<1>6. IInv => BuffersOwned
  <2>1. ASSUME IInv, AtRest, NEW v \in Vectors
        PROVE  m_end[v][1] = m_begin[v]
    BY <1>3, <2>1
  <2> QED  BY <1>3, <1>4, <1>5, <2>1 DEF BuffersOwned
<1> QED  BY <1>6, MemoryInvariance, PTL
======================================================================
