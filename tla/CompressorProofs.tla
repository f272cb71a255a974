-------------------------- MODULE CompressorProofs --------------------------
(***************************************************************************)
(* What holds of Compressor for every set of codes and addresses, every    *)
(* size of a portion and logs of every length: the container's own count   *)
(* is exact, the counted codes and the connections do not depend on how    *)
(* the log is cut into portions, every figure of the report is a number    *)
(* (the average is a sum over a set), and the sessions of a log with one   *)
(* connection per address are those of the whole log.                      *)
(***************************************************************************)
EXTENDS Compressor, TLAPS, FiniteSetTheorems, NaturalsInduction
-----------------------------------------------------------------------------
(***************************************************************************)
(* Counting.                                                               *)
(***************************************************************************)

\* Taking a part out of a finite set takes its number off the number.
LEMMA Without ==
  ASSUME NEW S, IsFiniteSet(S), NEW T, T \subseteq S
  PROVE  /\ IsFiniteSet(T) /\ IsFiniteSet(S \ T)
         /\ Cardinality(S) \in Nat /\ Cardinality(T) \in Nat /\ Cardinality(S \ T) \in Nat
         /\ Cardinality(S \ T) = Cardinality(S) - Cardinality(T)
<1>1. S \cap T = T
  OBVIOUS
<1>2. IsFiniteSet(T)
  BY FS_Subset
<1>3. IsFiniteSet(S \ T) /\ Cardinality(S \ T) = Cardinality(S) - Cardinality(S \cap T)
  BY FS_Difference
<1> QED
  BY <1>1, <1>2, <1>3, FS_CardinalityType

\* The notes of a code in a finite set of notes, with one note more.
LEMMA OfMore ==
  ASSUME NEW S, IsFiniteSet(S), NEW x, x \notin S, NEW c
  PROVE  /\ IsFiniteSet(Of(c, S)) /\ Cardinality(Of(c, S)) \in Nat
         /\ Cardinality(Of(c, S \cup {x})) = Cardinality(Of(c, S)) + (IF x.code = c THEN 1 ELSE 0)
<1>1. IsFiniteSet(Of(c, S)) /\ Cardinality(Of(c, S)) \in Nat
  <2>1. Of(c, S) \subseteq S
    BY DEF Of
  <2> QED
    BY <2>1, FS_Subset, FS_CardinalityType
<1>2. CASE x.code = c
  <2>1. Of(c, S \cup {x}) = Of(c, S) \cup {x} /\ x \notin Of(c, S)
    BY <1>2 DEF Of
  <2> QED
    BY <1>1, <1>2, <2>1, FS_AddElement
<1>3. CASE x.code # c
  <2>1. Of(c, S \cup {x}) = Of(c, S)
    BY <1>3 DEF Of
  <2> QED
    BY <1>1, <1>3, <2>1
<1> QED
  BY <1>1, <1>2, <1>3

\* What handle_time erases, and the number it takes off sz.
LEMMA ErasedNumber ==
  ASSUME NEW S, IsFiniteSet(S)
  PROVE  /\ Erased(S) \subseteq S
         /\ Removed(S) = Cardinality(Erased(S)) /\ Removed(S) \in Nat
<1>1. Erased(S) \subseteq S /\ Of(closing, S) \subseteq S /\ Matched(S) \subseteq S
  BY DEF Erased, Of, Matched
<1>2. Of(closing, S) \cap Matched(S) = {}
  BY DEF Of, Matched, closing, connection
<1>3. /\ IsFiniteSet(Of(closing, S)) /\ Cardinality(Of(closing, S)) \in Nat
      /\ IsFiniteSet(Matched(S)) /\ Cardinality(Matched(S)) \in Nat
  BY <1>1, FS_Subset, FS_CardinalityType
<1>4. Cardinality(Erased(S)) = Cardinality(Of(closing, S)) + Cardinality(Matched(S))
  BY <1>2, <1>3, FS_Union, FS_EmptySet DEF Erased
<1> QED
  BY <1>1, <1>3, <1>4 DEF Removed

\* The connections in a set of notes.
Open(S) == Cardinality(Of(connection, S))
-----------------------------------------------------------------------------
(***************************************************************************)
(* The maximum and the sum in max_time and average_time.  Induction over   *)
(* a finite set is by its smallest part that is a counterexample.          *)
(***************************************************************************)

\* A set of numbers has a least one.
LEMMA Least ==
  ASSUME NEW T, T \subseteq Nat, T # {}
  PROVE  \E n \in T : \A m \in T : n <= m
<1> DEFINE R == OpToRel(<, Nat)
<1>1. R = {p \in Nat \X Nat : p[1] < p[2]}
  BY DEF OpToRel
<1>2. IsWellFoundedOn(R, Nat)
  BY NatLessThanWellFounded
<1>3. PICK n \in T : \A m \in T : <<m, n>> \notin R
  <2> HIDE DEF R
  <2> QED
    BY <1>2, WFMin
<1>4. ASSUME NEW m \in T PROVE n <= m
  <2>1. <<m, n>> \in Nat \X Nat /\ <<m, n>> \notin R
    BY <1>3
  <2>2. ~ m < n
    BY <1>1, <2>1
  <2>3. n \in Nat /\ m \in Nat
    BY <1>3, <1>4
  <2> QED
    BY <2>2, <2>3
<1> QED
  BY <1>3, <1>4

\* A set of finite sets has a smallest one.
LEMMA Smallest ==
  ASSUME NEW B, B # {}, \A T \in B : IsFiniteSet(T)
  PROVE  \E T \in B : \A U \in B : ~(Cardinality(U) < Cardinality(T))
<1> DEFINE sizes == {Cardinality(T) : T \in B}
<1>1. \A T \in B : Cardinality(T) \in Nat /\ Cardinality(T) \in sizes
  BY FS_CardinalityType
<1>2. PICK k \in sizes : \A m \in sizes : k <= m
  <2>1. sizes # {} /\ sizes \subseteq Nat
    BY <1>1
  <2> HIDE DEF sizes
  <2> QED
    BY <2>1, Least
<1>3. PICK T \in B : k = Cardinality(T)
  BY <1>2
<1>4. ASSUME NEW U \in B PROVE ~(Cardinality(U) < Cardinality(T))
  <2>1. k <= Cardinality(U) /\ Cardinality(U) \in Nat /\ k \in Nat
    BY <1>1, <1>2, <1>3, <1>4
  <2> QED
    BY <1>3, <2>1
<1> QED
  BY <1>3, <1>4

\* A finite set of numbers has a greatest one.
LEMMA Greatest ==
  ASSUME NEW S, S \subseteq Int, IsFiniteSet(S), S # {}
  PROVE  Max(S) \in S /\ \A y \in S : y <= Max(S)
<1> DEFINE Headed(T) == \E x \in T : \A y \in T : x >= y
           bad       == {T \in SUBSET S : T # {} /\ ~Headed(T)}
<1>1. ASSUME NEW T \in bad PROVE \E U \in bad : Cardinality(U) < Cardinality(T)
  <2>1. PICK z : z \in T
    OBVIOUS
  <2>2. IsFiniteSet(T) /\ Cardinality(T) \in Nat
    BY FS_Subset, FS_CardinalityType
  <2>3. Cardinality(T \ {z}) < Cardinality(T)
    <3>1. Cardinality(T \ {z}) = Cardinality(T) - 1
      BY <2>1, <2>2, FS_RemoveElement
    <3> QED
      BY <2>2, <3>1
  <2>4. ASSUME T \ {z} = {} PROVE FALSE
    <3>1. T = {z} /\ z \in Int
      BY <2>1, <2>4
    <3> QED
      BY <3>1
  <2>5. ASSUME Headed(T \ {z}) PROVE FALSE
    <3>1. PICK x \in T \ {z} : \A y \in T \ {z} : x >= y
      BY <2>5
    <3>2. x \in Int /\ z \in Int /\ T \subseteq Int
      BY <2>1, <3>1
    <3>3. CASE x >= z
      BY <3>1, <3>2, <3>3
    <3>4. CASE z >= x
      BY <2>1, <3>1, <3>2, <3>4
    <3> QED
      BY <3>2, <3>3, <3>4
  <2> QED
    BY <2>3, <2>4, <2>5
<1>2. bad = {}
  <2>1. \A T \in bad : IsFiniteSet(T)
    BY FS_Subset
  <2> HIDE DEF bad
  <2> QED
    BY <1>1, <2>1, Smallest
<1>3. Headed(S)
  BY <1>2
<1> QED
  BY <1>3 DEF Max

\* The only one.
LEMMA GreatestIs ==
  ASSUME NEW S, S \subseteq Int, NEW m \in S, \A y \in S : y <= m
  PROVE  Max(S) = m
<1>1. Max(S) \in S /\ m <= Max(S)
  BY DEF Max
<1>2. Max(S) <= m /\ Max(S) \in Int /\ m \in Int
  BY <1>1
<1> QED
  BY <1>1, <1>2

\* Two numbers.
LEMMA TwoFinite == ASSUME NEW a, NEW b PROVE IsFiniteSet({a, b})
<1>1. IsFiniteSet({a})
  BY FS_Singleton
<1>2. IsFiniteSet({a} \cup {b})
  BY <1>1, FS_AddElement
<1>3. {a} \cup {b} = {a, b}
  OBVIOUS
<1> QED
  BY <1>2, <1>3

\* The spans of the notes S, added up.
Total(first, S) == MapThenSumSet(LAMBDA x : Span(first, x), S)

\* The sum of the spans: the fold that adds them up is defined on every part of a
\* finite set, and a number.
LEMMA SumType ==
  ASSUME NEW S, IsFiniteSet(S), NEW first, \A x \in S : Span(first, x) \in Int
  PROVE  Total(first, S) \in Int
<1> DEFINE some(T)   == CHOOSE x \in T : TRUE
           body(g, T) == IF T = {} THEN 0 ELSE Span(first, some(T)) + g[T \ {some(T)}]
           sum       == CHOOSE g : g = [T \in SUBSET S |-> body(g, T)]
           small(n)  == {T \in SUBSET S : Cardinality(T) <= n}
           part(n)   == \E g \in [small(n) -> Int] : \A T \in small(n) : g[T] = body(g, T)
<1>1. Total(first, S) = sum[S]
  BY DEF Total, MapThenSumSet, MapThenFoldSet
<1>2. ASSUME NEW T \in SUBSET S
      PROVE  /\ Cardinality(T) \in Nat /\ (Cardinality(T) = 0 <=> T = {})
             /\ T # {} => /\ some(T) \in T /\ Cardinality(T \ {some(T)}) = Cardinality(T) - 1
                          /\ T \ {some(T)} \in SUBSET S
  <2>1. IsFiniteSet(T)
    BY FS_Subset
  <2> QED
    BY <2>1, FS_EmptySet, FS_CardinalityType, FS_RemoveElement
<1> HIDE DEF some
<1>3. part(0)
  <2>1. \A T \in small(0) : T = {}
    <3> SUFFICES ASSUME NEW T \in SUBSET S, Cardinality(T) <= 0 PROVE T = {}
      OBVIOUS
    <3>1. Cardinality(T) \in Nat /\ (Cardinality(T) = 0 <=> T = {})
      BY <1>2
    <3> QED
      BY <3>1
  <2>2. [T \in small(0) |-> 0] \in [small(0) -> Int]
    OBVIOUS
  <2> QED
    BY <2>1, <2>2
<1>4. ASSUME NEW n \in Nat, part(n) PROVE part(n + 1)
  <2>1. PICK g \in [small(n) -> Int] : \A T \in small(n) : g[T] = body(g, T)
    BY <1>4
  <2> DEFINE h == [T \in small(n + 1) |-> body(g, T)]
  <2>2. ASSUME NEW T \in small(n + 1), T # {}
        PROVE  T \ {some(T)} \in small(n)
    BY <1>2, <2>2
  <2>3. h \in [small(n + 1) -> Int]
    <3> SUFFICES ASSUME NEW T \in small(n + 1) PROVE body(g, T) \in Int
      OBVIOUS
    <3>1. CASE T = {}
      BY <3>1
    <3>2. CASE T # {}
      <4>1. g[T \ {some(T)}] \in Int /\ some(T) \in S
        BY <1>2, <2>1, <2>2, <3>2
      <4> QED
        BY <3>2, <4>1
    <3> QED
      BY <3>1, <3>2
  <2>4. ASSUME NEW T \in small(n + 1) PROVE h[T] = body(h, T)
    <3>1. CASE T = {}
      BY <3>1
    <3>2. CASE T # {}
      <4>1. T \ {some(T)} \in small(n) /\ T \ {some(T)} \in small(n + 1)
        BY <1>2, <2>2, <3>2
      <4>2. h[T \ {some(T)}] = g[T \ {some(T)}]
        BY <2>1, <4>1
      <4> QED
        BY <3>2, <4>2
    <3> QED
      BY <3>1, <3>2
  <2> HIDE DEF h
  <2> QED
    BY <2>3, <2>4
<1>5. part(Cardinality(S))
  <2> DEFINE bad == {n \in Nat : ~part(n)}
  <2>1. SUFFICES bad = {}
    <3> HIDE DEF part
    <3> QED
     BY <1>2
  <2>2. SUFFICES ASSUME bad # {} PROVE FALSE
    OBVIOUS
  <2>3. PICK n \in bad : \A m \in bad : n <= m
    <3>1. bad \subseteq Nat
      OBVIOUS
    <3> HIDE DEF bad
    <3> QED
      BY <2>2, <3>1, Least
  <2> HIDE DEF part
  <2>4. n \in Nat /\ n # 0 /\ ~part(n)
    BY <1>3, <2>3
  <2>5. n - 1 \in Nat /\ part(n - 1)
    BY <2>3, <2>4
  <2>6. part((n - 1) + 1)
    BY <1>4, <2>5
  <2> QED
    BY <2>4, <2>6
<1>6. small(Cardinality(S)) = SUBSET S
  BY FS_Subset, <1>2
<1>7. \E g : g = [T \in SUBSET S |-> body(g, T)]
  <2>1. PICK g \in [SUBSET S -> Int] : \A T \in SUBSET S : g[T] = body(g, T)
    BY <1>5, <1>6
  <2>2. g = [T \in SUBSET S |-> body(g, T)]
    BY <2>1
  <2> QED
    BY <2>2
<1>8. sum = [T \in SUBSET S |-> body(sum, T)]
  BY <1>7
<1> HIDE DEF sum
<1>9. \A T \in SUBSET S : sum[T] = body(sum, T)
  BY <1>8
<1> DEFINE bad == {T \in SUBSET S : sum[T] \notin Int}
<1>10. bad = {}
  <2> SUFFICES ASSUME bad # {} PROVE FALSE
    OBVIOUS
  <2>1. PICK T \in bad : \A U \in bad : ~(Cardinality(U) < Cardinality(T))
    <3>1. \A T \in bad : IsFiniteSet(T)
      BY FS_Subset
    <3> HIDE DEF bad
    <3> QED
      BY <3>1, Smallest
  <2>2. T \in SUBSET S /\ sum[T] = body(sum, T) /\ sum[T] \notin Int
    BY <1>9, <2>1
  <2>3. T # {}
    BY <2>2
  <2>4. some(T) \in S /\ T \ {some(T)} \in SUBSET S
    BY <1>2, <2>2, <2>3
  <2>5. Cardinality(T \ {some(T)}) < Cardinality(T)
    BY <1>2, <2>2, <2>3
  <2>6. sum[T \ {some(T)}] \in Int
    BY <2>1, <2>4, <2>5
  <2>7. sum[T] = Span(first, some(T)) + sum[T \ {some(T)}]
    BY <2>2, <2>3
  <2> QED
    BY <2>2, <2>4, <2>6, <2>7
<1> QED
  BY <1>1, <1>10
-----------------------------------------------------------------------------
(***************************************************************************)
(* make_compress on a container S whose notes number k.                    *)
(***************************************************************************)

\* The container shrinks, its count stays exact, and it has room again.
LEMMA CompressSize ==
  ASSUME NEW S, IsFiniteSet(S), Cardinality(S) <= MaxLogRead,
         Compress(S, Cardinality(S))
  PROVE  transfer' \subseteq S /\ sz' = Cardinality(transfer') /\ sz' < MaxLogRead
<1> DEFINE rest == S \ Counted(S)
           left == Cardinality(S) - Cardinality(Counted(S))
           size == left - Removed(rest)
<1>1. Counted(S) \subseteq S /\ rest \subseteq S
  BY DEF Counted
<1>2. /\ IsFiniteSet(rest) /\ left = Cardinality(rest) /\ left \in Nat
      /\ Cardinality(Counted(S)) \in Nat /\ Cardinality(S) \in Nat
  BY <1>1, Without
<1>3. left <= MaxLogRead /\ MaxLogRead \in Nat /\ MaxLogRead > 0
  BY <1>2, LimitAssumption
<1>4. CASE left = 0
  BY <1>1, <1>2, <1>3, <1>4 DEF Compress
<1>5. CASE left # 0
  <2>1. Erased(rest) \subseteq rest /\ Removed(rest) = Cardinality(Erased(rest))
    BY <1>2, ErasedNumber
  <2>2. size = Cardinality(rest \ Erased(rest)) /\ size \in Nat /\ size <= left
    <3>1. /\ Cardinality(rest \ Erased(rest)) = Cardinality(rest) - Cardinality(Erased(rest))
          /\ Cardinality(rest \ Erased(rest)) \in Nat /\ Cardinality(Erased(rest)) \in Nat
      BY <1>2, <2>1, Without
    <3>2. size = left - Cardinality(Erased(rest))
      BY <2>1
    <3> HIDE DEF rest, left, size
    <3> QED
      BY <1>2, <3>1, <3>2
  <2>3. /\ transfer' = IF size = Limit THEN {} ELSE rest \ Erased(rest)
        /\ sz' = IF size = Limit THEN 0 ELSE size
    BY <1>5 DEF Compress
  <2>4. CASE size = Limit
    BY <1>3, <2>3, <2>4, FS_EmptySet
  <2>5. CASE size # Limit
    <3>1. transfer' = rest \ Erased(rest) /\ sz' = size
      BY <2>3, <2>5
    <3>2. size < MaxLogRead
      BY <1>2, <1>3, <2>2, <2>5, LimitAssumption
    <3> QED
      BY <1>1, <2>2, <3>1, <3>2
  <2> QED
    BY <2>4, <2>5
<1> QED
  BY <1>4, <1>5
-----------------------------------------------------------------------------
(***************************************************************************)
(* The figures are numbers: average_time and max_time on the notes S.      *)
(***************************************************************************)
Typed == /\ DOMAIN info \subseteq CountCodes \cup {longest, average, sessions}
         /\ \A c \in DOMAIN info : info[c] \in Nat
         /\ done \in BOOLEAN /\ cleared \in BOOLEAN

\* Every connection that is matched is measured against an end of its address.
LEMMA SpanType ==
  ASSUME NEW S \in SUBSET Note, NEW first \in FirstEnds(S), NEW x \in Matched(S)
  PROVE  /\ first[x.addr] \in Of(closing, S) /\ first[x.addr].addr = x.addr
         /\ Span(first, x) \in Int
<1>1. x.addr \in Ends(S) /\ x \in Note
  BY DEF Matched, Of
<1>2. /\ first \in [Ends(S) -> Of(closing, S)]
      /\ \A a \in Ends(S) : first[a].addr = a
  BY DEF FirstEnds
<1>3. first[x.addr] \in Of(closing, S) /\ first[x.addr].addr = x.addr
  BY <1>1, <1>2
<1>4. first[x.addr] \in Note
  BY <1>3 DEF Of
<1>5. first[x.addr].at \in Nat /\ x.at \in Nat
  BY <1>1, <1>4 DEF Note
<1> QED
  BY <1>3, <1>5 DEF Span

\* The spans of a portion.
LEMMA SpansFinite ==
  ASSUME NEW S \in SUBSET Note, IsFiniteSet(S), NEW first \in FirstEnds(S)
  PROVE  /\ IsFiniteSet({Span(first, x) : x \in Matched(S)})
         /\ {Span(first, x) : x \in Matched(S)} \subseteq Int
         /\ IsFiniteSet(Matched(S))
<1> DEFINE spans == {Span(first, x) : x \in Matched(S)}
           f     == [x \in Matched(S) |-> Span(first, x)]
<1>1. IsFiniteSet(Matched(S))
  <2>1. Matched(S) \subseteq S
    BY DEF Matched, Of
  <2> QED
    BY <2>1, FS_Subset
<1>2. f \in Surjection(Matched(S), spans)
  BY DEF Surjection
<1>3. IsFiniteSet(spans)
  <2> HIDE DEF f, spans
  <2> QED
    BY <1>1, <1>2, FS_Surjection
<1>4. spans \subseteq Int
  BY SpanType
<1> QED
  BY <1>1, <1>3, <1>4

\* The longest session so far is the greatest of the old value and the spans.
LEMMA LongestType ==
  ASSUME NEW S \in SUBSET Note, IsFiniteSet(S), NEW first \in FirstEnds(S),
         Value(longest) \in Nat
  PROVE  /\ Longest(S, first) \in Nat /\ Value(longest) <= Longest(S, first)
         /\ Longest(S, first) \in {Value(longest)} \cup {Span(first, x) : x \in Matched(S)}
         /\ \A x \in Matched(S) : Span(first, x) <= Longest(S, first)
<1> DEFINE old   == {Value(longest), 0}
           spans == {Span(first, x) : x \in Matched(S)}
<1>1. IsFiniteSet(spans) /\ spans \subseteq Int
  BY SpansFinite
<1>2. IsFiniteSet(old) /\ old \subseteq Int
  <2>1. IsFiniteSet(old)
    BY TwoFinite, Zenon
  <2> QED
    BY <2>1
<1>3. Longest(S, first) = Max(old \cup spans)
  BY DEF Longest
<1>4. \A x \in Matched(S) : Span(first, x) \in spans
  OBVIOUS
<1>5. Value(longest) \in old /\ 0 \in old /\ \A v \in old : v = 0 \/ v = Value(longest)
  OBVIOUS
<1> HIDE DEF old, spans
<1>6. /\ Longest(S, first) \in old \cup spans
      /\ \A v \in old \cup spans : v <= Longest(S, first)
  <2>1. IsFiniteSet(old \cup spans) /\ old \cup spans \subseteq Int /\ old \cup spans # {}
    BY <1>1, <1>2, <1>5, FS_Union
  <2> QED
    BY <1>3, <2>1, Greatest
<1>7. /\ Longest(S, first) \in Int /\ 0 <= Longest(S, first)
      /\ Value(longest) <= Longest(S, first)
  BY <1>1, <1>2, <1>5, <1>6
<1>8. Longest(S, first) \in {Value(longest)} \cup spans
  <2>1. CASE Longest(S, first) = 0
    BY <1>7, <2>1
  <2> QED
    BY <1>5, <1>6, <2>1
<1> QED
  BY <1>4, <1>6, <1>7, <1>8 DEF spans

\* The average is a number, and never falls.
LEMMA AverageType ==
  ASSUME NEW S \in SUBSET Note, IsFiniteSet(S), NEW first \in FirstEnds(S),
         Value(average) \in Nat
  PROVE  Average(S, first) \in Nat
<1>1. Mean(S, first) \in Int
  <2>1. CASE Matched(S) = {}
    BY <2>1 DEF Mean
  <2>2. CASE Matched(S) # {}
    <3> DEFINE num == Cardinality(Matched(S))
    <3>1. IsFiniteSet(Matched(S)) /\ \A x \in Matched(S) : Span(first, x) \in Int
      BY SpansFinite, SpanType
    <3>2. Total(first, Matched(S)) \in Int
      BY <3>1, SumType
    <3>3. num \in Nat /\ num # 0
      BY <2>2, <3>1, FS_CardinalityType, FS_EmptySet
    <3>4. Mean(S, first) = Total(first, Matched(S)) \div num
      BY <2>2 DEF Mean, Total
    <3> HIDE DEF num
    <3> QED
      BY <3>2, <3>3, <3>4
  <2> QED
    BY <2>1, <2>2
<1> DEFINE both == {Value(average), Mean(S, first)}
<1>2. both \subseteq Int /\ both # {} /\ Value(average) \in both
  BY <1>1
<1>3. IsFiniteSet(both)
  BY TwoFinite, Zenon
<1>4. Average(S, first) = Max(both)
  BY DEF Average
<1> HIDE DEF both
<1>5. Max(both) \in both /\ Value(average) <= Max(both)
  BY <1>2, <1>3, Greatest
<1>6. Max(both) \in Int
  BY <1>2, <1>5
<1> QED
  BY <1>4, <1>5, <1>6

\* What the report has of a code: the part of Value that is in a function.
LEMMA ValueTallied ==
  ASSUME NEW S, IsFiniteSet(S), NEW c \in CountCodes \cup {sessions}, Value(c) \in Nat
  PROVE  (IF c \in DOMAIN Tallied(S) THEN Tallied(S)[c] ELSE 0)
           = Value(c) + (IF c = sessions THEN 0 ELSE Cardinality(Of(c, S)))
<1> DEFINE T == {x.code : x \in Counted(S)}
           f == [d \in T |-> Value(d) + Cardinality(Of(d, S))]
<1>1. Tallied(S) = [d \in T \cup DOMAIN info |-> IF d \in T THEN f[d] ELSE info[d]]
  BY DEF Tallied, With
<1>2. sessions \notin CountCodes
  BY DEF sessions, CountCodes
<1>3. CASE c \in T
  <2>1. c # sessions
    BY <1>2, <1>3 DEF Counted
  <2> QED
    BY <1>1, <1>3, <2>1
<1>4. CASE c \notin T
  <2>1. (IF c \in DOMAIN Tallied(S) THEN Tallied(S)[c] ELSE 0) = Value(c)
    BY <1>1, <1>4 DEF Value
  <2>2. c # sessions => Of(c, S) = {}
    BY <1>4 DEF Of, Counted
  <2> QED
    BY <2>1, <2>2, FS_EmptySet
<1> QED
  BY <1>3, <1>4

\* No note of a counted code is left, and all have been added to its figure.
LEMMA CompressCounts ==
  ASSUME NEW S, IsFiniteSet(S), Compress(S, Cardinality(S)),
         NEW c \in CountCodes, Value(c) \in Nat
  PROVE  Value(c)' = Value(c) + Cardinality(Of(c, S)) /\ Of(c, transfer') = {}
<1> DEFINE rest == S \ Counted(S)
           value(m) == IF c \in DOMAIN m THEN m[c] ELSE 0
<1>1. transfer' \subseteq rest
  BY DEF Compress
<1>2. Of(c, transfer') = {}
  BY <1>1 DEF Of, Counted
<1>3. value(info') = value(Tallied(S))
  <2>1. CASE info' = Tallied(S)
    BY <2>1
  <2>2. ASSUME NEW first, info' = Timed(Tallied(S), rest, first)
        PROVE  value(info') = value(Tallied(S))
    <3>1. c \notin {sessions, longest, average}
      BY DEF sessions, longest, average, CountCodes
    <3> QED
      BY <2>2, <3>1 DEF Timed, With
  <2> QED
    BY <2>1, <2>2 DEF Compress
<1>4. c # sessions
  BY DEF sessions, CountCodes
<1>5. value(Tallied(S)) = Value(c) + Cardinality(Of(c, S))
  BY <1>4, ValueTallied
<1>6. Value(c)' = value(info')
  BY DEF Value
<1> QED
  BY <1>2, <1>3, <1>5, <1>6

\* A connection leaves the container when it is counted as a session, or when
\* the container is cleared.
LEMMA CompressConnections ==
  ASSUME NEW S, IsFiniteSet(S), Compress(S, Cardinality(S)), Value(sessions) \in Nat
  PROVE  /\ Value(sessions)' \in Nat /\ Open(S) \in Nat /\ Open(transfer') \in Nat
         /\ Value(sessions)' + Open(transfer') <= Value(sessions) + Open(S)
         /\ ~cleared' => Value(sessions)' + Open(transfer') = Value(sessions) + Open(S)
<1> DEFINE rest == S \ Counted(S)
           left == Cardinality(S) - Cardinality(Counted(S))
           size == left - Removed(rest)
           value(m) == IF sessions \in DOMAIN m THEN m[sessions] ELSE 0
<1>1. Of(connection, rest) = Of(connection, S)
  BY DEF Of, Counted, connection, CountCodes
<1>2. IsFiniteSet(Of(connection, S)) /\ Open(S) \in Nat
  <2>1. Of(connection, S) \subseteq S
    BY DEF Of
  <2> QED
    BY <2>1, FS_Subset, FS_CardinalityType DEF Open
<1>3. value(Tallied(S)) = Value(sessions)
  BY ValueTallied
<1>4. Value(sessions)' = value(info')
  BY DEF Value
<1>5. CASE left = 0
  <2>1. transfer' = rest /\ info' = Tallied(S)
    BY <1>5 DEF Compress
  <2> QED
    BY <1>1, <1>2, <1>3, <1>4, <2>1 DEF Open
<1>6. CASE left # 0
  <2>1. /\ transfer' = IF size = Limit THEN {} ELSE rest \ Erased(rest)
        /\ cleared' = (cleared \/ size = Limit)
    BY <1>6 DEF Compress
  <2>2. PICK first : info' = Timed(Tallied(S), rest, first)
    BY <1>6 DEF Compress
  <2>3. Value(sessions)' = Value(sessions) + Cardinality(Matched(rest))
    BY <1>4, <2>2 DEF Timed, With, sessions, longest, average
  <2>4. Matched(rest) \subseteq Of(connection, S)
    BY <1>1 DEF Matched
  <2>5. /\ Cardinality(Matched(rest)) \in Nat
        /\ Cardinality(Of(connection, S) \ Matched(rest)) \in Nat
        /\ Cardinality(Of(connection, S) \ Matched(rest)) = Open(S) - Cardinality(Matched(rest))
    BY <1>2, <2>4, Without DEF Open
  <2>6. CASE size = Limit
    <3>1. Of(connection, transfer') = {}
      BY <2>1, <2>6 DEF Of
    <3>2. cleared' /\ Open(transfer') = 0
      BY <2>1, <2>6, <3>1, FS_EmptySet DEF Open
    <3> QED
      BY <1>2, <2>3, <2>5, <3>2
  <2>7. CASE size # Limit
    <3>1. transfer' = rest \ Erased(rest)
      BY <2>1, <2>7
    <3>2. Of(connection, rest \ Erased(rest)) = Of(connection, rest) \ Matched(rest)
      BY DEF Of, Erased, closing, connection
    <3>3. Open(transfer') = Cardinality(Of(connection, S) \ Matched(rest))
      BY <1>1, <3>1, <3>2 DEF Open
    <3> QED
      BY <1>2, <2>3, <2>5, <3>3
  <2> QED
    BY <2>6, <2>7
<1> QED
  BY <1>5, <1>6

-----------------------------------------------------------------------------
(***************************************************************************)
(* The inductive invariant.  Beside the three properties it says that the  *)
(* numbers of the lines tell them apart, so that a new line is never in    *)
(* the container already, and that the figures are numbers.                *)
(***************************************************************************)
LinesNumbered == /\ log \in Seq(Note) /\ IsFiniteSet(Lines)
                 /\ \A i \in 1..Len(log) : log[i].n = i

Figures == \A c \in CountCodes \cup {sessions} : Value(c) \in Nat

\* The counted codes and the connections, of the container S and the lines L.
Balanced(S, L) ==
  /\ \A c \in CountCodes : Value(c) + Cardinality(Of(c, S)) = Cardinality(Of(c, L))
  /\ Value(sessions) + Open(S) <= Open(L)
  /\ ~cleared => Value(sessions) + Open(S) = Open(L)

IInv == /\ LinesNumbered
        /\ transfer \subseteq Lines
        /\ SizeExact
        /\ Figures
        /\ Balanced(transfer, Lines)

LEMMA InitIInv == Init => IInv
<1> SUFFICES ASSUME Init PROVE IInv
  OBVIOUS
<1>1. Lines = {} /\ transfer = {} /\ log = <<>> /\ DOMAIN info = {} /\ sz = 0
  BY DEF Init, Lines
<1>2. IsFiniteSet({}) /\ Cardinality({}) = 0 /\ \A c : Of(c, {}) = {}
  BY FS_EmptySet DEF Of
<1>3. \A c : Value(c) = 0
  BY <1>1 DEF Value
<1>4. SizeExact
  BY <1>1, <1>2, LimitAssumption DEF SizeExact
<1>5. Figures
  BY <1>3 DEF Figures
<1>6. Balanced({}, {})
  <2>1. Open({}) = 0
    BY <1>2 DEF Open
  <2>2. \A c : Cardinality(Of(c, {})) = 0
    BY <1>2
  <2> QED
    BY <1>3, <2>1, <2>2 DEF Balanced
<1> QED
  BY <1>1, <1>2, <1>4, <1>5, <1>6 DEF IInv, LinesNumbered

\* make_compress keeps the figures balanced.
LEMMA CompressBalanced ==
  ASSUME NEW S, IsFiniteSet(S), NEW L, IsFiniteSet(L), Compress(S, Cardinality(S)),
         Figures, Balanced(S, L)
  PROVE  /\ Figures'
         /\ \A c \in CountCodes :
              Value(c)' + Cardinality(Of(c, transfer')) = Cardinality(Of(c, L))
         /\ Value(sessions)' + Open(transfer') <= Open(L)
         /\ ~cleared' => Value(sessions)' + Open(transfer') = Open(L)
<1>1. ASSUME NEW c \in CountCodes
      PROVE  /\ Value(c)' \in Nat
             /\ Value(c)' + Cardinality(Of(c, transfer')) = Cardinality(Of(c, L))
  <2>1. Value(c) \in Nat
    BY DEF Figures
  <2>2. Value(c)' = Value(c) + Cardinality(Of(c, S)) /\ Of(c, transfer') = {}
    BY <2>1, CompressCounts
  <2>3. Of(c, S) \subseteq S
    BY DEF Of
  <2>4. Cardinality(Of(c, S)) \in Nat
    BY <2>3, FS_Subset, FS_CardinalityType
  <2>5. Value(c) + Cardinality(Of(c, S)) = Cardinality(Of(c, L))
    BY DEF Balanced
  <2> QED
    BY <2>1, <2>2, <2>4, <2>5, FS_EmptySet
<1>2. Value(sessions) \in Nat
  BY DEF Figures
<1>3. /\ Value(sessions)' \in Nat /\ Open(S) \in Nat /\ Open(transfer') \in Nat
      /\ Value(sessions)' + Open(transfer') <= Value(sessions) + Open(S)
      /\ ~cleared' => Value(sessions)' + Open(transfer') = Value(sessions) + Open(S)
  BY <1>2, CompressConnections
<1>4. Open(L) \in Nat
  <2>1. Of(connection, L) \subseteq L
    BY DEF Of
  <2> QED
    BY <2>1, FS_Subset, FS_CardinalityType DEF Open
<1>5. cleared => cleared'
  BY DEF Compress
<1>6. Figures'
  BY <1>1, <1>3 DEF Figures
<1>7. /\ Value(sessions) + Open(S) <= Open(L)
      /\ ~cleared => Value(sessions) + Open(S) = Open(L)
  BY DEF Balanced
<1>8. /\ Value(sessions)' + Open(transfer') <= Open(L)
      /\ ~cleared' => Value(sessions)' + Open(transfer') = Open(L)
  BY <1>2, <1>3, <1>4, <1>5, <1>7
<1> QED
  BY <1>1, <1>6, <1>8

\* What the lines and the container are after a line has been read.
LEMMA ReadBalanced ==
  ASSUME IInv, NEW x, x \notin Lines
  PROVE  /\ IsFiniteSet(transfer \cup {x}) /\ IsFiniteSet(Lines \cup {x})
         /\ Cardinality(transfer \cup {x}) = sz + 1 /\ sz \in Nat
         /\ Balanced(transfer \cup {x}, Lines \cup {x})
<1>1. IsFiniteSet(transfer) /\ IsFiniteSet(Lines) /\ x \notin transfer
  BY FS_Subset DEF IInv, LinesNumbered
<1>2. /\ IsFiniteSet(transfer \cup {x}) /\ IsFiniteSet(Lines \cup {x})
      /\ Cardinality(transfer \cup {x}) = sz + 1 /\ sz \in Nat
  BY <1>1, FS_AddElement, FS_CardinalityType DEF IInv, SizeExact
<1>3. ASSUME NEW c
      PROVE  /\ Cardinality(Of(c, transfer)) \in Nat /\ Cardinality(Of(c, Lines)) \in Nat
             /\ \E d \in {0, 1} :
                  /\ Cardinality(Of(c, transfer \cup {x})) = Cardinality(Of(c, transfer)) + d
                  /\ Cardinality(Of(c, Lines \cup {x})) = Cardinality(Of(c, Lines)) + d
  <2> DEFINE d == IF x.code = c THEN 1 ELSE 0
  <2>1. /\ Cardinality(Of(c, transfer)) \in Nat
        /\ Cardinality(Of(c, transfer \cup {x})) = Cardinality(Of(c, transfer)) + d
    BY <1>1, OfMore
  <2>2. /\ Cardinality(Of(c, Lines)) \in Nat
        /\ Cardinality(Of(c, Lines \cup {x})) = Cardinality(Of(c, Lines)) + d
    BY <1>1, OfMore
  <2> QED
    BY <2>1, <2>2
<1>4. Figures /\ Balanced(transfer, Lines)
  BY DEF IInv
<1>5. ASSUME NEW c \in CountCodes
      PROVE  Value(c) + Cardinality(Of(c, transfer \cup {x})) = Cardinality(Of(c, Lines \cup {x}))
  <2>1. Value(c) \in Nat /\ Value(c) + Cardinality(Of(c, transfer)) = Cardinality(Of(c, Lines))
    BY <1>4 DEF Figures, Balanced
  <2> QED
    BY <1>3, <2>1
<1>6. /\ Value(sessions) + Open(transfer \cup {x}) <= Open(Lines \cup {x})
      /\ ~cleared => Value(sessions) + Open(transfer \cup {x}) = Open(Lines \cup {x})
  <2>1. /\ Value(sessions) \in Nat
        /\ Value(sessions) + Open(transfer) <= Open(Lines)
        /\ ~cleared => Value(sessions) + Open(transfer) = Open(Lines)
    BY <1>4 DEF Figures, Balanced
  <2>2. /\ Open(transfer) \in Nat /\ Open(Lines) \in Nat
        /\ \E d \in {0, 1} : /\ Open(transfer \cup {x}) = Open(transfer) + d
                             /\ Open(Lines \cup {x}) = Open(Lines) + d
    BY <1>3 DEF Open
  <2> QED
    BY <2>1, <2>2
<1> QED
  BY <1>2, <1>5, <1>6 DEF Balanced

\* A new line has a number of its own.
LEMMA ReadNumbered ==
  ASSUME IInv, NEW c \in Codes, NEW a \in Addrs, NEW gap \in Gaps, ReadLine(c, a, gap)
  PROVE  \E x : /\ x \notin Lines /\ log' = Append(log, x)
                /\ x \in Note /\ \A y \in Lines : y.n < x.n
                /\ Lines' = Lines \cup {x} /\ LinesNumbered'
                /\ IF sz + 1 = MaxLogRead
                   THEN Compress(transfer \cup {x}, sz + 1)
                   ELSE /\ transfer' = transfer \cup {x} /\ sz' = sz + 1
                        /\ UNCHANGED <<info, cleared>>
<1> DEFINE last == IF log = <<>> THEN 0 ELSE log[Len(log)].at
           x == [code |-> c, addr |-> a, at |-> last + gap, n |-> Len(log) + 1]
<1>1. log \in Seq(Note) /\ Len(log) \in Nat /\ \A i \in 1..Len(log) : log[i].n = i
  BY DEF IInv, LinesNumbered
<1>2. x \in Note
  <2>1. last \in Nat
    <3>1. CASE log = <<>>
      BY <3>1
    <3>2. CASE log # <<>>
      <4>1. Len(log) \in 1..Len(log)
        BY <1>1, <3>2
      <4>2. log[Len(log)] \in Note
        BY <1>1, <4>1
      <4> QED
        BY <3>2, <4>2 DEF Note
    <3> QED
      BY <3>1, <3>2
  <2>2. last + gap \in Nat
    BY <2>1, NoteAssumption
  <2> QED
    BY <1>1, <2>2 DEF Note
<1>3. x.n = Len(log) + 1
  OBVIOUS
<1>4. log' = Append(log, x)
  BY DEF ReadLine
<1> HIDE DEF x
<1>5. x \notin Lines /\ \A y \in Lines : y.n < x.n
  BY <1>1, <1>3 DEF Lines
<1>6. /\ log' \in Seq(Note) /\ Len(log') = Len(log) + 1
      /\ log'[Len(log) + 1] = x
      /\ \A i \in 1..Len(log) : log'[i] = log[i]
  BY <1>1, <1>2, <1>4
<1>7. Lines' = Lines \cup {x}
  <2>1. Lines' = {log'[i] : i \in 1..Len(log) + 1}
    BY <1>6 DEF Lines
  <2> QED
    BY <1>1, <1>6, <2>1 DEF Lines
<1>8. LinesNumbered'
  <2>1. IsFiniteSet(Lines')
    BY <1>7, FS_AddElement DEF IInv, LinesNumbered
  <2>2. \A i \in 1..Len(log') : log'[i].n = i
    BY <1>1, <1>3, <1>6
  <2> QED
    BY <1>6, <2>1, <2>2 DEF LinesNumbered
<1>9. IF sz + 1 = MaxLogRead
      THEN Compress(transfer \cup {x}, sz + 1)
      ELSE transfer' = transfer \cup {x} /\ sz' = sz + 1 /\ UNCHANGED <<info, cleared>>
  BY DEF ReadLine, x
<1> QED
  BY <1>2, <1>4, <1>5, <1>7, <1>8, <1>9

\* One step per action; a line is followed by make_compress or not.
LEMMA NextIInv == IInv /\ [Next]_vars => IInv'
<1> SUFFICES ASSUME IInv, [Next]_vars PROVE IInv'
  OBVIOUS
<1>1. CASE Finish
  <2>1. IsFiniteSet(transfer) /\ sz = Cardinality(transfer) /\ sz < MaxLogRead /\ sz \in Nat
    BY FS_Subset, FS_CardinalityType DEF IInv, LinesNumbered, SizeExact
  <2>2. Compress(transfer, Cardinality(transfer)) /\ Cardinality(transfer) <= MaxLogRead
    BY <1>1, <2>1, LimitAssumption DEF Finish
  <2>3. transfer' \subseteq transfer /\ sz' = Cardinality(transfer') /\ sz' < MaxLogRead
    BY <2>1, <2>2, CompressSize
  <2>4. Lines' = Lines /\ LinesNumbered'
    BY <1>1 DEF IInv, Finish, Lines, LinesNumbered
  <2>5. IsFiniteSet(Lines) /\ Figures /\ Balanced(transfer, Lines)
    BY DEF IInv, LinesNumbered
  <2>6. Figures' /\ Balanced(transfer, Lines)'
    BY <2>1, <2>2, <2>4, <2>5, CompressBalanced DEF Balanced, Open
  <2> QED
    BY <2>3, <2>4, <2>6 DEF IInv, SizeExact
<1>2. ASSUME NEW c \in Codes, NEW a \in Addrs, NEW gap \in Gaps, ReadLine(c, a, gap)
      PROVE  IInv'
  <2>1. PICK x : /\ x \notin Lines
                 /\ Lines' = Lines \cup {x} /\ LinesNumbered'
                 /\ IF sz + 1 = MaxLogRead
                    THEN Compress(transfer \cup {x}, sz + 1)
                    ELSE /\ transfer' = transfer \cup {x} /\ sz' = sz + 1
                         /\ UNCHANGED <<info, cleared>>
    BY <1>2, ReadNumbered
  <2>2. /\ IsFiniteSet(transfer \cup {x}) /\ IsFiniteSet(Lines \cup {x})
        /\ Cardinality(transfer \cup {x}) = sz + 1 /\ sz \in Nat
        /\ Balanced(transfer \cup {x}, Lines \cup {x})
    BY <2>1, ReadBalanced
  <2>3. sz < MaxLogRead /\ transfer \cup {x} \subseteq Lines' /\ Figures
    BY <2>1 DEF IInv, SizeExact
  <2>4. CASE sz + 1 = MaxLogRead
    <3>1. Compress(transfer \cup {x}, Cardinality(transfer \cup {x}))
      BY <2>1, <2>2, <2>4
    <3>2. /\ transfer' \subseteq transfer \cup {x}
          /\ sz' = Cardinality(transfer') /\ sz' < MaxLogRead
      BY <2>2, <2>4, <3>1, CompressSize, LimitAssumption
    <3>3. Figures' /\ Balanced(transfer, Lines)'
      BY <2>1, <2>2, <2>3, <3>1, CompressBalanced DEF Balanced, Open
    <3> QED
      BY <2>1, <2>3, <3>2, <3>3 DEF IInv, SizeExact
  <2>5. CASE sz + 1 # MaxLogRead
    <3>1. transfer' = transfer \cup {x} /\ sz' = sz + 1 /\ info' = info /\ cleared' = cleared
      BY <2>1, <2>5
    <3>2. Figures' /\ Balanced(transfer, Lines)'
      BY <2>1, <2>2, <2>3, <3>1 DEF Figures, Balanced, Open, Value, Of
    <3>3. SizeExact'
      BY <2>2, <2>3, <2>5, <3>1, LimitAssumption DEF SizeExact
    <3> QED
      BY <2>1, <2>3, <3>1, <3>2, <3>3 DEF IInv
  <2> QED
    BY <2>4, <2>5
<1>3. CASE UNCHANGED vars
  <2>1. log' = log /\ transfer' = transfer /\ sz' = sz /\ info' = info /\ cleared' = cleared
    BY <1>3 DEF vars
  <2>2. LinesNumbered' /\ Lines' = Lines /\ SizeExact'
    BY <2>1 DEF IInv, LinesNumbered, Lines, SizeExact
  <2>3. Figures'
    BY <2>1 DEF IInv, Figures, Value
  <2>4. Balanced(transfer, Lines)'
    BY <2>1, <2>2 DEF IInv, Balanced, Open, Value
  <2> QED
    BY <2>1, <2>2, <2>3, <2>4 DEF IInv
<1> QED
  BY <1>1, <1>2, <1>3 DEF Next

LEMMA Invariance == Spec => []IInv
  BY InitIInv, NextIInv, PTL DEF Spec
-----------------------------------------------------------------------------
(***************************************************************************)
(* The types.                                                              *)
(***************************************************************************)

\* make_compress leaves numbers in the report, for the codes it knows.
LEMMA CompressTyped ==
  ASSUME NEW S \in SUBSET Note, IsFiniteSet(S), NEW k, Compress(S, k), Typed
  PROVE  /\ DOMAIN info' \subseteq CountCodes \cup {longest, average, sessions}
         /\ \A c \in DOMAIN info' : info'[c] \in Nat
         /\ cleared' \in BOOLEAN
<1> DEFINE rest     == S \ Counted(S)
           Known    == CountCodes \cup {longest, average, sessions}
           Fine(m)  == DOMAIN m \subseteq Known /\ \A c \in DOMAIN m : m[c] \in Nat
           T        == {x.code : x \in Counted(S)}
           f        == [c \in T |-> Value(c) + Cardinality(Of(c, S))]
<1>1. \A c : Value(c) \in Nat
  BY DEF Typed, Value
<1>2. Fine(Tallied(S))
  <2>1. Tallied(S) = [c \in DOMAIN info \cup T |-> IF c \in T THEN f[c] ELSE info[c]]
    BY DEF Tallied, With
  <2>2. T \subseteq CountCodes
    BY DEF Counted
  <2>3. ASSUME NEW c \in T PROVE f[c] \in Nat
    <3>1. Of(c, S) \subseteq S
      BY DEF Of
    <3>2. Cardinality(Of(c, S)) \in Nat
      BY <3>1, FS_Subset, FS_CardinalityType
    <3> QED
      BY <1>1, <3>2
  <2> HIDE DEF T, f
  <2> QED
    BY <2>1, <2>2, <2>3 DEF Typed
<1>3. ASSUME NEW first \in FirstEnds(rest), info' = Timed(Tallied(S), rest, first)
      PROVE  Fine(info')
  <2> DEFINE m == Tallied(S)
  <2>1. rest \in SUBSET Note /\ IsFiniteSet(rest)
    BY FS_Subset
  <2>2. Longest(rest, first) \in Nat /\ Average(rest, first) \in Nat
    <3> HIDE DEF rest
    <3> QED
      BY <1>1, <1>3, <2>1, LongestType, AverageType
  <2>3. Value(sessions) + Cardinality(Matched(rest)) \in Nat
    <3>1. IsFiniteSet(Matched(rest))
      <4> HIDE DEF rest
      <4> QED
        BY <1>3, <2>1, SpansFinite
    <3> QED
      BY <1>1, <3>1, FS_CardinalityType
  <2>4. info' = [c \in DOMAIN m \cup {sessions, longest, average} |->
                   IF c \in {sessions, longest, average}
                   THEN IF c = sessions THEN Value(sessions) + Cardinality(Matched(rest))
                        ELSE IF c = longest THEN Longest(rest, first) ELSE Average(rest, first)
                   ELSE m[c]]
    BY <1>3 DEF Timed, With
  <2> HIDE DEF m, rest
  <2>5. DOMAIN info' = DOMAIN m \cup {sessions, longest, average}
    BY <2>4
  <2>6. ASSUME NEW c \in DOMAIN info' PROVE info'[c] \in Nat
    <3>1. CASE c \in {sessions, longest, average}
      BY <2>2, <2>3, <2>4, <3>1
    <3>2. CASE c \notin {sessions, longest, average}
      <4>1. info'[c] = m[c] /\ c \in DOMAIN m
        BY <2>4, <3>2
      <4> QED
        BY <1>2, <4>1 DEF m
    <3> QED
      BY <3>1, <3>2
  <2> QED
    BY <1>2, <2>5, <2>6 DEF m
<1>4. Fine(info')
  BY <1>2, <1>3 DEF Compress
<1> QED
  BY <1>4 DEF Compress, Typed

LEMMA InitTyped == Init => Typed
  BY DEF Init, Typed

\* The container has notes only.
LEMMA LinesNotes == LinesNumbered => Lines \subseteq Note
  BY DEF LinesNumbered, Lines

LEMMA NextTyped == IInv /\ IInv' /\ Typed /\ [Next]_vars => Typed'
<1> SUFFICES ASSUME IInv, IInv', Typed, [Next]_vars PROVE Typed'
  OBVIOUS
<1>1. transfer \subseteq Note /\ IsFiniteSet(transfer)
  BY LinesNotes, FS_Subset DEF IInv, LinesNumbered
<1>2. CASE Finish
  <2>1. Compress(transfer, sz) /\ done' = TRUE
    BY <1>2 DEF Finish
  <2> QED
    BY <1>1, <2>1, CompressTyped DEF Typed
<1>3. ASSUME NEW c \in Codes, NEW a \in Addrs, NEW gap \in Gaps, ReadLine(c, a, gap)
      PROVE  Typed'
  <2>1. PICK x : /\ Lines' = Lines \cup {x} /\ LinesNumbered'
                 /\ IF sz + 1 = MaxLogRead
                    THEN Compress(transfer \cup {x}, sz + 1)
                    ELSE /\ transfer' = transfer \cup {x} /\ sz' = sz + 1
                         /\ UNCHANGED <<info, cleared>>
    BY <1>3, ReadNumbered
  <2>2. Lines' \subseteq Note
    BY <2>1 DEF LinesNumbered, Lines
  <2>3. transfer \cup {x} \in SUBSET Note /\ IsFiniteSet(transfer \cup {x})
    BY <1>1, <2>1, <2>2, FS_AddElement
  <2>4. done' = done
    BY <1>3 DEF ReadLine
  <2>5. CASE sz + 1 = MaxLogRead
    <3>1. Compress(transfer \cup {x}, sz + 1)
      BY <2>1, <2>5
    <3> QED
      BY <2>3, <2>4, <3>1, CompressTyped DEF Typed
  <2>6. CASE sz + 1 # MaxLogRead
    BY <2>1, <2>4, <2>6 DEF Typed
  <2> QED
    BY <2>5, <2>6
<1>4. CASE UNCHANGED vars
  BY <1>4 DEF vars, Typed
<1> QED
  BY <1>2, <1>3, <1>4 DEF Next

LEMMA TypedOK == IInv /\ Typed => TypeOK
<1> SUFFICES ASSUME IInv, Typed PROVE TypeOK
  OBVIOUS
<1>1. sz \in Int
  BY FS_Subset, FS_CardinalityType DEF IInv, LinesNumbered, SizeExact
<1> QED
  BY <1>1 DEF IInv, LinesNumbered, Typed, TypeOK
-----------------------------------------------------------------------------
(***************************************************************************)
(* The sessions, for a log with one connection per address.  Of the        *)
(* container S and the lines L:                                            *)
(***************************************************************************)
Marks(L)   == Of(connection, L) \cup Of(closing, L)
OneConn(L) == \A x, y \in Marks(L) : x.addr = y.addr /\ x.n < y.n => y.code = closing

\* a connection that waits has all its ends with it,
Waits(S, L) == \A x \in Of(connection, S), y \in Of(closing, L) :
                 x.addr = y.addr => y \in S
\* a connection that is gone has an end,
Gone(S, L)  == Of(connection, L) \ S
Ended(S, L) == \A x \in Gone(S, L) : \E y \in Of(closing, L) : x.addr = y.addr
\* and if the ends are noted once, v is the longest time between the two.
Unique(L)   == \A x, y \in Of(closing, L) : x.addr = y.addr => x = y
Pairs(S, L) == {p \in Gone(S, L) \X Of(closing, L) : p[1].addr = p[2].addr}
LongestOf(v, S, L) == /\ v = 0 \/ \E p \in Pairs(S, L) : v = Lasted(p)
                      /\ \A p \in Pairs(S, L) : Lasted(p) <= v

SessionInv ==
  /\ done => Of(closing, transfer) = {}
  /\ OneConn(Lines) /\ ~cleared =>
       /\ Waits(transfer, Lines) /\ Ended(transfer, Lines)
       /\ Unique(Lines) => LongestOf(Value(longest), transfer, Lines)

LEMMA OneConnLines == OneConnection <=> OneConn(Lines)
  BY DEF OneConnection, OneConn, SessionNotes, Marks

\* A line more.
LEMMA ReadSession ==
  ASSUME NEW S, NEW L \in SUBSET Note, S \subseteq L, NEW x \in Note, x \notin L,
         \A y \in L : y.n < x.n,
         OneConn(L \cup {x}), Waits(S, L), Ended(S, L)
  PROVE  /\ Waits(S \cup {x}, L \cup {x}) /\ Ended(S \cup {x}, L \cup {x})
         /\ Unique(L \cup {x}) => Unique(L) /\ Pairs(S \cup {x}, L \cup {x}) = Pairs(S, L)
<1> DEFINE S1 == S \cup {x}
           L1 == L \cup {x}
<1>1. \A c : Of(c, L) \subseteq Of(c, L1) /\ Of(c, S) \subseteq Of(c, S1)
  BY DEF Of
<1>2. Gone(S1, L1) = Gone(S, L)
  BY DEF Gone, Of
<1>3. ASSUME NEW u \in Of(connection, S1), NEW v \in Of(closing, L1), u.addr = v.addr
      PROVE  v \in S1
  <2>1. CASE v = x
    BY <2>1
  <2>2. CASE v # x /\ u = x
    <3>1. v \in L /\ v.n < u.n /\ v \in Marks(L1) /\ u \in Marks(L1)
      BY <2>2 DEF Of, Marks
    <3>2. u.code = closing
      BY <1>3, <3>1 DEF OneConn
    <3> QED
      BY <3>2 DEF Of, closing, connection
  <2>3. CASE v # x /\ u # x
    <3>1. u \in Of(connection, S) /\ v \in Of(closing, L)
      BY <2>3 DEF Of
    <3> QED
      BY <1>3, <3>1 DEF Waits
  <2> QED
    BY <2>1, <2>2, <2>3
<1>4. Waits(S1, L1)
  BY <1>3 DEF Waits
<1>5. Ended(S1, L1)
  BY <1>1, <1>2 DEF Ended
<1>6. ASSUME Unique(L1) PROVE Unique(L) /\ Pairs(S1, L1) = Pairs(S, L)
  <2>1. Unique(L)
    BY <1>1, <1>6 DEF Unique
  <2>2. ASSUME NEW u \in Gone(S, L), NEW v \in Of(closing, L1), u.addr = v.addr
        PROVE  v \in Of(closing, L)
    <3>1. PICK w \in Of(closing, L) : u.addr = w.addr
      BY DEF Ended
    <3>2. w = v
      BY <1>1, <1>6, <2>2, <3>1 DEF Unique
    <3> QED
      BY <3>1, <3>2
  <2>3. \A p : p \in Pairs(S1, L1) <=> p \in Pairs(S, L)
    BY <1>1, <1>2, <2>2 DEF Pairs
  <2> QED
    BY <2>1, <2>3
<1> QED
  BY <1>4, <1>5, <1>6

\* After make_compress the ends are gone, whatever is left.
LEMMA CompressEnds ==
  ASSUME NEW S, IsFiniteSet(S), Compress(S, Cardinality(S))
  PROVE  Of(closing, transfer') = {}
<1> DEFINE rest == S \ Counted(S)
           left == Cardinality(S) - Cardinality(Counted(S))
<1>1. CASE left = 0
  <2>1. Counted(S) \subseteq S
    BY DEF Counted
  <2>2. IsFiniteSet(rest) /\ Cardinality(rest) = left
    BY <2>1, Without
  <2>3. rest = {}
    <3> HIDE DEF rest, left
    <3> QED
      BY <1>1, <2>2, FS_EmptySet
  <2>4. transfer' = rest
    BY <1>1 DEF Compress
  <2> QED
    BY <2>3, <2>4 DEF Of
<1>2. CASE left # 0
  <2>1. transfer' \subseteq rest \ Erased(rest)
    BY <1>2 DEF Compress
  <2> QED
    BY <2>1 DEF Of, Erased
<1> QED
  BY <1>1, <1>2

\* What make_compress does with the connections, unless it clears the container:
\* those that are matched go, each with its end in the portion.
LEMMA CompressGone ==
  ASSUME NEW S \in SUBSET Note, IsFiniteSet(S), NEW L, S \subseteq L,
         Compress(S, Cardinality(S)), Typed, ~cleared'
  PROVE  \E M, first :
           /\ M \subseteq Of(connection, S) /\ Gone(transfer', L) = Gone(S, L) \cup M
           /\ \A x \in Of(connection, transfer'), y \in Of(closing, S) : x.addr # y.addr
           /\ \A x \in M : first[x.addr] \in Of(closing, S) /\ first[x.addr].addr = x.addr
           /\ \A x \in M : Span(first, x) <= Value(longest)'
           /\ Value(longest)' \in {Value(longest)} \cup {Span(first, x) : x \in M}
           /\ Value(longest) <= Value(longest)' /\ Value(longest) \in Nat
<1> DEFINE rest == S \ Counted(S)
           left == Cardinality(S) - Cardinality(Counted(S))
           size == left - Removed(rest)
           value(m) == IF longest \in DOMAIN m THEN m[longest] ELSE 0
<1>1. Of(connection, rest) = Of(connection, S) /\ Of(closing, rest) = Of(closing, S)
  BY DEF Of, Counted, connection, closing, CountCodes
<1>2. value(Tallied(S)) = Value(longest) /\ Value(longest) \in Nat
  <2>1. longest \notin CountCodes
    BY DEF longest, CountCodes
  <2> QED
    BY <2>1 DEF Tallied, With, Counted, Value, Typed
<1>3. Value(longest)' = value(info')
  BY DEF Value
<1>4. CASE left = 0
  <2>1. Counted(S) \subseteq S
    BY DEF Counted
  <2>2. IsFiniteSet(rest) /\ Cardinality(rest) = left
    BY <2>1, Without
  <2>3. rest = {}
    <3> HIDE DEF rest, left
    <3> QED
      BY <1>4, <2>2, FS_EmptySet
  <2>4. transfer' = rest /\ info' = Tallied(S)
    BY <1>4 DEF Compress
  <2>5. Of(connection, S) = {} /\ Of(connection, transfer') = {}
    BY <1>1, <2>3, <2>4 DEF Of
  <2>6. Gone(transfer', L) = Gone(S, L)
    BY <2>3, <2>4, <2>5 DEF Gone, Of
  <2>7. Value(longest)' = Value(longest)
    BY <1>2, <1>3, <2>4
  <2> WITNESS {}, <<>>
  <2> QED
    BY <1>2, <2>5, <2>6, <2>7
<1>5. CASE left # 0
  <2>1. transfer' = rest \ Erased(rest)
    BY <1>5 DEF Compress
  <2>2. PICK first \in FirstEnds(rest) : info' = Timed(Tallied(S), rest, first)
    BY <1>5 DEF Compress
  <2>3. Value(longest)' = Longest(rest, first)
    BY <1>3, <2>2 DEF Timed, With, sessions, longest, average
  <2>4. rest \in SUBSET Note /\ IsFiniteSet(rest)
    BY FS_Subset
  <2> HIDE DEF rest
  <2>5. /\ Longest(rest, first) \in {Value(longest)} \cup {Span(first, x) : x \in Matched(rest)}
        /\ \A x \in Matched(rest) : Span(first, x) <= Longest(rest, first)
        /\ Value(longest) <= Longest(rest, first)
    BY <1>2, <2>2, <2>4, LongestType
  <2>6. \A x \in Matched(rest) : first[x.addr] \in Of(closing, S) /\ first[x.addr].addr = x.addr
    BY <1>1, <2>2, <2>4, SpanType
  <2>7. Matched(rest) \subseteq Of(connection, S)
    BY <1>1 DEF Matched
  <2>8. Gone(transfer', L) = Gone(S, L) \cup Matched(rest)
    <3>1. Of(connection, transfer') = Of(connection, S) \ Matched(rest)
      BY <1>1, <2>1 DEF Of, Erased, closing, connection
    <3>2. \A T : Gone(T, L) = Of(connection, L) \ Of(connection, T)
      BY DEF Gone, Of
    <3>3. Of(connection, S) \subseteq Of(connection, L)
      BY DEF Of
    <3> QED
      BY <2>7, <3>1, <3>2, <3>3
  <2>9. ASSUME NEW x \in Of(connection, transfer'), NEW y \in Of(closing, S)
        PROVE  x.addr # y.addr
    <3>1. x \in Of(connection, rest) /\ x \notin Matched(rest)
      BY <2>1 DEF Of, Erased
    <3>2. x.addr \notin Ends(rest)
      BY <3>1 DEF Matched
    <3> QED
      BY <1>1, <3>2 DEF Ends
  <2> WITNESS Matched(rest), first
  <2> QED
    BY <1>2, <2>3, <2>5, <2>6, <2>7, <2>8, <2>9
<1> QED
  BY <1>4, <1>5

LEMMA CompressSession ==
  ASSUME NEW S \in SUBSET Note, IsFiniteSet(S), NEW L \in SUBSET Note, S \subseteq L,
         Compress(S, Cardinality(S)), Typed, ~cleared', Waits(S, L), Ended(S, L)
  PROVE  /\ Waits(transfer', L) /\ Ended(transfer', L)
         /\ Unique(L) /\ LongestOf(Value(longest), S, L) =>
              LongestOf(Value(longest)', transfer', L)
<1>1. PICK M, first :
        /\ M \subseteq Of(connection, S) /\ Gone(transfer', L) = Gone(S, L) \cup M
        /\ \A x \in Of(connection, transfer'), y \in Of(closing, S) : x.addr # y.addr
        /\ \A x \in M : first[x.addr] \in Of(closing, S) /\ first[x.addr].addr = x.addr
        /\ \A x \in M : Span(first, x) <= Value(longest)'
        /\ Value(longest)' \in {Value(longest)} \cup {Span(first, x) : x \in M}
        /\ Value(longest) <= Value(longest)' /\ Value(longest) \in Nat
  BY CompressGone
<1>2. Of(closing, S) \subseteq Of(closing, L) /\ transfer' \subseteq S
  BY DEF Of, Compress
<1>3. Waits(transfer', L)
  <2> SUFFICES ASSUME NEW x \in Of(connection, transfer'), NEW y \in Of(closing, L),
                      x.addr = y.addr
               PROVE  FALSE
    BY DEF Waits
  <2>1. x \in Of(connection, S)
    BY <1>2 DEF Of
  <2>2. y \in Of(closing, S)
    BY <2>1 DEF Waits, Of
  <2> QED
    BY <1>1, <2>2
<1>4. Ended(transfer', L)
  BY <1>1, <1>2 DEF Ended
<1>5. ASSUME Unique(L), LongestOf(Value(longest), S, L)
      PROVE  LongestOf(Value(longest)', transfer', L)
  <2>1. \A p : p \in Pairs(transfer', L) <=>
               p \in Pairs(S, L) \/ p \in {q \in M \X Of(closing, L) : q[1].addr = q[2].addr}
    BY <1>1 DEF Pairs
  <2>2. ASSUME NEW x \in M, NEW y \in Of(closing, L), x.addr = y.addr
        PROVE  Lasted(<<x, y>>) = Span(first, x)
    <3>1. first[x.addr] = y
      BY <1>1, <1>2, <1>5, <2>2 DEF Unique
    <3> QED
      BY <3>1 DEF Lasted, Span
  <2>3. ASSUME NEW p \in Pairs(transfer', L) PROVE Lasted(p) <= Value(longest)'
    <3>1. CASE p \in Pairs(S, L)
      <4>1. Lasted(p) <= Value(longest)
        BY <1>5, <3>1 DEF LongestOf
      <4>2. Lasted(p) \in Int
        <5>1. p[1] \in Note /\ p[2] \in Note
          BY <3>1 DEF Pairs, Gone, Of
        <5>2. p[1].at \in Nat /\ p[2].at \in Nat
          BY <5>1 DEF Note
        <5> QED
          BY <5>2 DEF Lasted
      <4>3. Value(longest)' \in Int
        <5>1. \A x \in M : Span(first, x) \in Int
          <6> SUFFICES ASSUME NEW x \in M PROVE Span(first, x) \in Int
            OBVIOUS
          <6>1. first[x.addr] \in Note /\ x \in Note
            BY <1>1 DEF Of
          <6>2. first[x.addr].at \in Nat /\ x.at \in Nat
            BY <6>1 DEF Note
          <6> QED
            BY <6>2 DEF Span
        <5> QED
          BY <1>1, <5>1
      <4> QED
        BY <1>1, <4>1, <4>2, <4>3
    <3>2. CASE p \notin Pairs(S, L)
      <4>1. PICK x \in M, y \in Of(closing, L) : p = <<x, y>> /\ x.addr = y.addr
        BY <2>1, <3>2
      <4> QED
        BY <1>1, <2>2, <4>1
    <3> QED
      BY <3>1, <3>2
  <2>4. Value(longest)' = 0 \/ \E p \in Pairs(transfer', L) : Value(longest)' = Lasted(p)
    <3>1. CASE Value(longest)' = Value(longest)
      BY <1>5, <2>1, <3>1 DEF LongestOf
    <3>2. ASSUME NEW x \in M, Value(longest)' = Span(first, x)
          PROVE  \E p \in Pairs(transfer', L) : Value(longest)' = Lasted(p)
      <4>1. first[x.addr] \in Of(closing, L) /\ x.addr = first[x.addr].addr
        BY <1>1, <1>2
      <4>2. Lasted(<<x, first[x.addr]>>) = Value(longest)'
        BY <2>2, <3>2, <4>1
      <4>3. <<x, first[x.addr]>> \in Pairs(transfer', L)
        BY <2>1, <4>1
      <4> QED
        BY <4>2, <4>3
    <3> QED
      BY <1>1, <3>1, <3>2
  <2> QED
    BY <2>3, <2>4 DEF LongestOf
<1> QED
  BY <1>3, <1>4, <1>5

LEMMA InitSession == Init => SessionInv
<1> SUFFICES ASSUME Init PROVE SessionInv
  OBVIOUS
<1>1. ~done /\ Lines = {} /\ Value(longest) = 0
  BY DEF Init, Lines, Value
<1> QED
  BY <1>1 DEF SessionInv, Waits, Ended, Gone, Of, LongestOf, Pairs

\* A step that leaves the lines alone or adds one: make_compress on S, or S waits.
LEMMA NextSession == IInv /\ Typed /\ SessionInv /\ [Next]_vars => SessionInv'
<1> SUFFICES ASSUME IInv, Typed, SessionInv, [Next]_vars PROVE SessionInv'
  OBVIOUS
<1>1. /\ transfer \subseteq Note /\ IsFiniteSet(transfer) /\ Lines \subseteq Note
      /\ transfer \subseteq Lines /\ sz = Cardinality(transfer)
  BY LinesNotes, FS_Subset DEF IInv, LinesNumbered, SizeExact
<1>2. CASE Finish
  <2>1. Compress(transfer, Cardinality(transfer)) /\ Lines' = Lines
    BY <1>1, <1>2 DEF Finish, Lines
  <2>2. Of(closing, transfer)' = {}
    BY <1>1, <2>1, CompressEnds
  <2>3. ~cleared' => ~cleared
    BY <2>1 DEF Compress
  <2> QED
    BY <1>1, <2>1, <2>2, <2>3, CompressSession DEF SessionInv
<1>3. ASSUME NEW c \in Codes, NEW a \in Addrs, NEW gap \in Gaps, ReadLine(c, a, gap)
      PROVE  SessionInv'
  <2>1. PICK x : /\ x \notin Lines /\ x \in Note /\ \A y \in Lines : y.n < x.n
                 /\ Lines' = Lines \cup {x}
                 /\ IF sz + 1 = MaxLogRead
                    THEN Compress(transfer \cup {x}, sz + 1)
                    ELSE /\ transfer' = transfer \cup {x} /\ sz' = sz + 1
                         /\ UNCHANGED <<info, cleared>>
    BY <1>3, ReadNumbered
  <2>2. ~done'
    BY <1>3 DEF ReadLine
  <2> SUFFICES ASSUME OneConn(Lines \cup {x}), ~cleared'
               PROVE  /\ Waits(transfer', Lines \cup {x}) /\ Ended(transfer', Lines \cup {x})
                      /\ Unique(Lines \cup {x}) =>
                           LongestOf(Value(longest)', transfer', Lines \cup {x})
    BY <2>1, <2>2 DEF SessionInv
  <2>3. OneConn(Lines) /\ ~cleared
    <3>1. Marks(Lines) \subseteq Marks(Lines \cup {x})
      BY DEF Marks, Of
    <3> QED
      BY <2>1, <3>1 DEF OneConn, Compress
  <2> DEFINE S == transfer \cup {x}
             L == Lines \cup {x}
  <2>4. /\ Waits(transfer, Lines) /\ Ended(transfer, Lines)
        /\ Unique(Lines) => LongestOf(Value(longest), transfer, Lines)
    BY <2>3 DEF SessionInv
  <2>5. /\ Waits(S, L) /\ Ended(S, L)
        /\ Unique(L) => Unique(Lines) /\ Pairs(S, L) = Pairs(transfer, Lines)
    BY <1>1, <2>1, <2>4, ReadSession
  <2>6. Unique(L) => LongestOf(Value(longest), S, L)
    BY <2>4, <2>5 DEF LongestOf
  <2>7. CASE sz + 1 = MaxLogRead
    <3>1. S \in SUBSET Note /\ L \in SUBSET Note /\ S \subseteq L
      BY <1>1, <2>1
    <3>2. IsFiniteSet(S) /\ Compress(S, Cardinality(S))
      BY <2>1, <2>7, ReadBalanced
    <3> HIDE DEF S, L
    <3>3. /\ Waits(transfer', L) /\ Ended(transfer', L)
          /\ Unique(L) => LongestOf(Value(longest)', transfer', L)
      BY <2>5, <2>6, <3>1, <3>2, CompressSession
    <3> QED
      BY <3>3 DEF L
  <2>8. CASE sz + 1 # MaxLogRead
    <3>1. transfer' = S /\ Value(longest)' = Value(longest)
      BY <2>1, <2>8 DEF Value
    <3> QED
      BY <2>5, <2>6, <3>1
  <2> QED
    BY <2>7, <2>8
<1>4. CASE UNCHANGED vars
  <2>1. transfer' = transfer /\ Lines' = Lines /\ done' = done /\ cleared' = cleared
    BY <1>4 DEF vars, Lines
  <2>2. Value(longest)' = Value(longest)
    BY <1>4 DEF vars, Value
  <2> QED
    BY <2>1, <2>2 DEF SessionInv
<1> QED
  BY <1>2, <1>3, <1>4 DEF Next

\* When the log is done, the connections that are gone are those of the sessions.
LEMMA SessionsGone ==
  ASSUME LinesNumbered, OneConn(Lines), Waits(transfer, Lines), Ended(transfer, Lines),
         Of(closing, transfer) = {}
  PROVE  /\ \A s \in Sessions : s \in Pairs(transfer, Lines)
         /\ \A s, t \in Sessions : s[1] = t[1] => s = t
         /\ \A x \in Gone(transfer, Lines) : \E s \in Sessions : s[1] = x
<1>1. \A x \in Lines : x \in Note /\ x.n \in Nat
  BY LinesNotes DEF Note
<1>2. \A x, y \in Lines : x.n = y.n => x = y
  BY DEF LinesNumbered, Lines
<1>3. SessionNotes = Marks(Lines) /\ SessionNotes \subseteq Lines
  BY DEF SessionNotes, Marks, Of
<1>4. ASSUME NEW s \in Sessions PROVE s \in Pairs(transfer, Lines)
  <2>1. /\ s[1] \in Of(connection, Lines) /\ s[2] \in Of(closing, Lines)
        /\ s[1].addr = s[2].addr /\ s \in Of(connection, Lines) \X Of(closing, Lines)
    BY DEF Sessions
  <2>2. s[1] \notin transfer
    BY <2>1 DEF Waits, Of
  <2> QED
    BY <2>1, <2>2 DEF Pairs, Gone
<1>5. ASSUME NEW s \in Sessions, NEW t \in Sessions, s[1] = t[1], s[2].n < t[2].n
      PROVE  FALSE
  <2>1. /\ s[2] \in Of(closing, Lines) /\ s[2].addr = s[1].addr /\ s[1].n < s[2].n
        /\ s[1] \in Of(connection, Lines) /\ t[2] \in Of(closing, Lines)
        /\ \A x \in SessionNotes : x.addr = t[1].addr => x.n \notin t[1].n+1 .. t[2].n-1
    BY DEF Sessions
  <2>2. s[2].n \notin t[1].n+1 .. t[2].n-1
    BY <1>5, <2>1 DEF SessionNotes
  <2>3. s[1].n \in Nat /\ s[2].n \in Nat /\ t[2].n \in Nat
    BY <1>1, <2>1 DEF Of
  <2> QED
    BY <1>5, <2>1, <2>2, <2>3
<1>6. ASSUME NEW s \in Sessions, NEW t \in Sessions, s[1] = t[1]
      PROVE  s = t
  <2>1. /\ s \in Of(connection, Lines) \X Of(closing, Lines)
        /\ t \in Of(connection, Lines) \X Of(closing, Lines)
    BY DEF Sessions
  <2>2. s[2] \in Lines /\ t[2] \in Lines
    BY <2>1 DEF Of
  <2>3. s[2].n = t[2].n
    BY <1>1, <1>5, <1>6, <2>2
  <2>4. s[2] = t[2]
    BY <1>2, <2>2, <2>3
  <2> QED
    BY <1>6, <2>1, <2>4
<1>7. ASSUME NEW x \in Gone(transfer, Lines) PROVE \E s \in Sessions : s[1] = x
  <2> DEFINE later == {y.n : y \in {z \in Of(closing, Lines) : z.addr = x.addr}}
  <2>1. x \in Of(connection, Lines) /\ x \in Lines
    BY DEF Gone, Of
  <2>2. later # {} /\ later \subseteq Nat
    BY <1>1 DEF Ended, Of
  <2>3. PICK k \in later : \A m \in later : k <= m
    <3> HIDE DEF later
    <3> QED
      BY <2>2, Least
  <2>4. PICK y \in Of(closing, Lines) : y.addr = x.addr /\ y.n = k
    BY <2>3
  <2>5. y \in Lines /\ x \in Marks(Lines) /\ y \in Marks(Lines) /\ x.code # y.code
    BY <2>1, <2>4 DEF Of, Marks, connection, closing
  <2>6. x.n < y.n
    <3>1. ~(y.n < x.n)
      BY <2>1, <2>4, <2>5 DEF OneConn, Of
    <3>2. x.n # y.n
      BY <1>2, <2>1, <2>5
    <3> QED
      BY <1>1, <2>1, <2>5, <3>1, <3>2
  <2>7. ASSUME NEW z \in SessionNotes, z.addr = x.addr, z.n \in x.n+1 .. y.n-1
        PROVE  FALSE
    <3>1. z \in Marks(Lines) /\ z \in Lines /\ x.n \in Nat /\ y.n \in Nat /\ z.n \in Nat
      BY <1>1, <1>3, <2>1, <2>5
    <3>2. x.n < z.n /\ z.n < y.n
      BY <2>7, <3>1
    <3>3. z \in Of(closing, Lines)
      BY <2>5, <2>7, <3>1, <3>2 DEF OneConn, Of
    <3>4. z.n \in later
      BY <2>7, <3>3
    <3> QED
      BY <2>3, <2>4, <3>1, <3>2, <3>4
  <2>8. <<x, y>> \in Sessions
    BY <2>1, <2>4, <2>6, <2>7 DEF Sessions
  <2> QED
    BY <2>8
<1> QED
  BY <1>4, <1>6, <1>7

\* Its figures: as many sessions as connections that are gone, and if every
\* session has its own end the longest of them.
LEMMA SessionsNumber ==
  ASSUME LinesNumbered, OneConn(Lines), Waits(transfer, Lines), Ended(transfer, Lines),
         Of(closing, transfer) = {}
  PROVE  IsFiniteSet(Sessions) /\ Cardinality(Sessions) = Cardinality(Gone(transfer, Lines))
<1> DEFINE gone == Gone(transfer, Lines)
           f    == [s \in Sessions |-> s[1]]
<1>1. IsFiniteSet(gone)
  <2>1. gone \subseteq Lines
    BY DEF Gone, Of
  <2> QED
    BY <2>1, FS_Subset DEF LinesNumbered
<1>2. /\ \A s \in Sessions : s[1] \in gone
      /\ \A s, t \in Sessions : s[1] = t[1] => s = t
      /\ \A x \in gone : \E s \in Sessions : s[1] = x
  BY SessionsGone DEF Pairs
<1> HIDE DEF gone
<1>3. f \in Injection(Sessions, gone) /\ f \in Surjection(Sessions, gone)
  BY <1>2 DEF Injection, Surjection, IsInjective
<1> HIDE DEF f
<1> QED
  BY <1>1, <1>3, FS_Injection DEF gone

LEMMA EachUnique ==
  ASSUME LinesNumbered, OneConn(Lines), Waits(transfer, Lines), Ended(transfer, Lines),
         Of(closing, transfer) = {}, OneEach
  PROVE  Unique(Lines) /\ \A p \in Pairs(transfer, Lines) : p \in Sessions
<1> DEFINE ends == Of(closing, Lines)
           f    == [s \in Sessions |-> s[2]]
<1>1. \A s \in Sessions : /\ s \in Of(connection, Lines) \X ends
                          /\ s[1].addr = s[2].addr /\ s[1] \in Marks(Lines)
                          /\ s[1] \in Lines /\ s[1].code = connection
  BY DEF Sessions, Marks, Of
<1>2. ASSUME NEW s \in Sessions, NEW t \in Sessions, s[1].addr = t[1].addr
      PROVE  s[1] = t[1]
  <2>1. ~(s[1].n < t[1].n) /\ ~(t[1].n < s[1].n)
    BY <1>1, <1>2 DEF OneConn, closing, connection
  <2>2. s[1].n \in Nat /\ t[1].n \in Nat
    BY <1>1, LinesNotes DEF Note
  <2>3. s[1].n = t[1].n
    BY <2>1, <2>2
  <2>4. \A x, y \in Lines : x.n = y.n => x = y
    BY DEF LinesNumbered, Lines
  <2> QED
    BY <1>1, <2>3, <2>4
<1>3. IsFiniteSet(ends)
  <2>1. ends \subseteq Lines
    BY DEF Of
  <2> QED
    BY <2>1, FS_Subset DEF LinesNumbered
<1>4. \A s, t \in Sessions : s[1] = t[1] => s = t
  BY SessionsGone
<1>5. f \in Injection(Sessions, ends)
  <2>1. \A s \in Sessions : s[2] \in ends
    BY <1>1
  <2>2. \A s, t \in Sessions : s[2] = t[2] => s = t
    BY <1>1, <1>2, <1>4
  <2> HIDE DEF ends
  <2> QED
    BY <2>1, <2>2 DEF Injection, IsInjective
<1>6. f \in Surjection(Sessions, ends)
  <2>1. Cardinality(Sessions) = Cardinality(ends)
    BY DEF OneEach
  <2> HIDE DEF f, ends
  <2> QED
    BY <1>3, <1>5, <2>1, FS_Injection
<1>7. \A y \in ends : \E s \in Sessions : s[2] = y
  BY <1>6 DEF Surjection
<1>8. Unique(Lines)
  <2> SUFFICES ASSUME NEW x \in ends, NEW y \in ends, x.addr = y.addr PROVE x = y
    BY DEF Unique
  <2>1. PICK s \in Sessions : s[2] = x
    BY <1>7
  <2>2. PICK t \in Sessions : t[2] = y
    BY <1>7
  <2>3. s[1] = t[1]
    BY <1>1, <1>2, <2>1, <2>2
  <2> QED
    BY <1>4, <2>1, <2>2, <2>3
<1>9. ASSUME NEW p \in Pairs(transfer, Lines) PROVE p \in Sessions
  <2>1. /\ p \in Gone(transfer, Lines) \X ends /\ p[1] \in Gone(transfer, Lines)
        /\ p[2] \in ends /\ p[1].addr = p[2].addr
    BY DEF Pairs
  <2>2. PICK s \in Sessions : s[1] = p[1]
    BY <2>1, SessionsGone
  <2>3. s[2] = p[2]
    BY <1>1, <1>8, <2>1, <2>2 DEF Unique
  <2>4. s = p
    BY <1>1, <2>1, <2>2, <2>3
  <2> QED
    BY <2>4
<1> QED
  BY <1>8, <1>9

LEMMA SessionsReported == IInv /\ Typed /\ SessionInv => ReportsSessions
<1> SUFFICES ASSUME IInv, Typed, SessionInv, done, OneConnection, ~cleared
             PROVE  /\ Value(sessions) = Cardinality(Sessions)
                    /\ OneEach => Value(longest) = Max({0} \cup {Lasted(s) : s \in Sessions})
  BY DEF ReportsSessions
<1>1. /\ LinesNumbered /\ OneConn(Lines) /\ Of(closing, transfer) = {}
      /\ Waits(transfer, Lines) /\ Ended(transfer, Lines)
      /\ Unique(Lines) => LongestOf(Value(longest), transfer, Lines)
  BY OneConnLines DEF IInv, SessionInv
<1>2. IsFiniteSet(Sessions) /\ Cardinality(Sessions) = Cardinality(Gone(transfer, Lines))
  BY <1>1, SessionsNumber
<1>3. Value(sessions) = Cardinality(Sessions)
  <2>1. Gone(transfer, Lines) = Of(connection, Lines) \ Of(connection, transfer)
    BY DEF Gone, Of
  <2>2. Of(connection, transfer) \subseteq Of(connection, Lines)
    BY DEF IInv, Of
  <2>3. IsFiniteSet(Of(connection, Lines))
    <3>1. Of(connection, Lines) \subseteq Lines
      BY DEF Of
    <3> QED
      BY <1>1, <3>1, FS_Subset DEF LinesNumbered
  <2>4. /\ Cardinality(Gone(transfer, Lines)) = Open(Lines) - Open(transfer)
        /\ Open(Lines) \in Nat /\ Open(transfer) \in Nat
    BY <2>1, <2>2, <2>3, Without DEF Open
  <2>5. Value(sessions) + Open(transfer) = Open(Lines) /\ Value(sessions) \in Nat
    BY DEF IInv, Balanced, Figures
  <2> QED
    BY <1>2, <2>4, <2>5
<1>4. ASSUME OneEach PROVE Value(longest) = Max({0} \cup {Lasted(s) : s \in Sessions})
  <2> DEFINE times == {0} \cup {Lasted(s) : s \in Sessions}
  <2>1. Unique(Lines) /\ \A p \in Pairs(transfer, Lines) : p \in Sessions
    BY <1>1, <1>4, EachUnique
  <2>2. \A s \in Sessions : s \in Pairs(transfer, Lines)
    BY <1>1, SessionsGone
  <2>3. Value(longest) \in Nat
    BY DEF Typed, Value
  <2>4. Value(longest) \in times /\ \A y \in times : y <= Value(longest)
    BY <1>1, <2>1, <2>2, <2>3 DEF LongestOf
  <2>5. times \subseteq Int
    <3> SUFFICES ASSUME NEW s \in Sessions PROVE Lasted(s) \in Int
      OBVIOUS
    <3>1. s[1] \in Note /\ s[2] \in Note
      BY <1>1, LinesNotes DEF Sessions, Of
    <3>2. s[1].at \in Nat /\ s[2].at \in Nat
      BY <3>1 DEF Note
    <3> QED
      BY <3>2 DEF Lasted
  <2> HIDE DEF times
  <2>6. Value(longest) = Max(times)
    BY <2>4, <2>5, GreatestIs
  <2> QED
    BY <2>6 DEF times
<1> QED
  BY <1>3, <1>4

LEMMA SessionInvariance == Spec => [](IInv /\ Typed /\ SessionInv)
<1>1. Init => Typed /\ SessionInv
  BY InitTyped, InitSession
<1>2. IInv /\ IInv' /\ (Typed /\ SessionInv) /\ [Next]_vars => (Typed /\ SessionInv)'
  BY NextTyped, NextSession
<1> QED
  BY <1>1, <1>2, Invariance, PTL DEF Spec
-----------------------------------------------------------------------------
\* sz, kept by hand in insert, make_compress and handle_time, is the number of
\* notes in the container, which never reaches MAX_LOG_READ between two lines:
\* the equality tests of the code are not jumped over.
THEOREM SizeCorrect == Spec => []SizeExact
<1>1. IInv => SizeExact
  BY DEF IInv
<1> QED
  BY <1>1, Invariance, PTL

\* The counted codes of the report do not depend on the size of a portion.
THEOREM CountsCorrect == Spec => []CountsExact
<1>1. IInv => CountsExact
  BY DEF IInv, Balanced, CountsExact
<1> QED
  BY <1>1, Invariance, PTL

\* Every connection is a counted session or waits in the container; none is
\* counted twice, and none is lost before the container is cleared.
THEOREM ConnectionsCorrect == Spec => []ConnectionsKept
<1>1. IInv => ConnectionsKept
  BY DEF IInv, Balanced, ConnectionsKept, Open
<1> QED
  BY <1>1, Invariance, PTL

\* Every figure of the report is a number, the average and the longest session
\* too, whatever the order in which the ends of an address are listed.
THEOREM TypeCorrect == Spec => []TypeOK
  BY SessionInvariance, TypedOK, PTL

\* For a log with one connection per address that was never cleared, the number
\* of sessions and the longest of them are those of the whole log, although the
\* portions may part a connection from its end.
THEOREM SessionsCorrect == Spec => []ReportsSessions
  BY SessionInvariance, SessionsReported, PTL
=============================================================================
