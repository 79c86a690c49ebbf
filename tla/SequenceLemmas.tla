---------------------------- MODULE SequenceLemmas ----------------------------
(***************************************************************************)
(* Facts about finite sets and sequences that the proofs of several        *)
(* components need: one element more or less, and ascending sequences.     *)
(***************************************************************************)
EXTENDS Integers, Sequences, FiniteSets, TLAPS, FiniteSetTheorems, SequenceTheorems

\* What one element's joining or leaving does to the size of a finite set.
LEMMA OneJoinsOrLeaves ==
  ASSUME NEW S, NEW T, NEW x, IsFiniteSet(S), T \ {x} = S \ {x}
  PROVE  /\ Cardinality(S) \in Nat /\ Cardinality(T) \in Nat
         /\ (x \in S <=> x \in T) => Cardinality(T) = Cardinality(S)
         /\ x \in S /\ x \notin T => Cardinality(T) = Cardinality(S) - 1
         /\ x \notin S /\ x \in T => Cardinality(T) = Cardinality(S) + 1
<1>1. Cardinality(S) \in Nat
  BY FS_CardinalityType
<1>2. (x \in S <=> x \in T) => T = S
  OBVIOUS
<1>3. x \in S /\ x \notin T => T = S \ {x}
  OBVIOUS
<1>4. x \notin S /\ x \in T => T = S \cup {x}
  OBVIOUS
<1>5. x \in S => Cardinality(S \ {x}) = Cardinality(S) - 1 /\ IsFiniteSet(S \ {x})
  BY FS_RemoveElement
<1>6. x \notin S => Cardinality(S \cup {x}) = Cardinality(S) + 1 /\ IsFiniteSet(S \cup {x})
  BY FS_AddElement
<1>7. IsFiniteSet(T)
  BY <1>2, <1>3, <1>4, <1>5, <1>6
<1>8. Cardinality(T) \in Nat
  BY <1>7, FS_CardinalityType
<1> QED
  BY <1>1, <1>2, <1>3, <1>4, <1>5, <1>6, <1>8

\* One more element at the end of a sequence.
LEMMA OneMore ==
  ASSUME NEW S, NEW q \in Seq(S), NEW x \in S
  PROVE  /\ q \o <<x>> \in Seq(S)
         /\ Len(q) \in Nat /\ Len(q \o <<x>>) = Len(q) + 1
         /\ \A k \in 1 .. Len(q) : (q \o <<x>>)[k] = q[k]
         /\ (q \o <<x>>)[Len(q) + 1] = x
<1>1. <<x>> \in Seq(S) /\ Len(<<x>>) = 1 /\ <<x>>[1] = x
  OBVIOUS
<1>2. Len(q) \in Nat
  BY LenProperties
<1>3. /\ q \o <<x>> \in Seq(S)
      /\ Len(q \o <<x>>) = Len(q) + 1
      /\ \A k \in 1 .. Len(q) + 1 :
           (q \o <<x>>)[k] = IF k <= Len(q) THEN q[k] ELSE <<x>>[k - Len(q)]
  BY <1>1, ConcatProperties
<1>4. Len(q) + 1 \in 1 .. Len(q) + 1 /\ ~ (Len(q) + 1 <= Len(q)) /\ Len(q) + 1 - Len(q) = 1
  BY <1>2
<1>5. (q \o <<x>>)[Len(q) + 1] = x
  BY <1>1, <1>3, <1>4
<1>6. \A k \in 1 .. Len(q) : (q \o <<x>>)[k] = q[k]
  BY <1>2, <1>3
<1> QED
  BY <1>2, <1>3, <1>5, <1>6

\* A sequence without its first element.
LEMMA OneLess ==
  ASSUME NEW S, NEW q \in Seq(S), q # <<>>
  PROVE  /\ Head(q) = q[1] /\ Head(q) \in S /\ 1 \in 1 .. Len(q)
         /\ Tail(q) \in Seq(S)
         /\ Len(q) \in Nat /\ Len(Tail(q)) = Len(q) - 1
         /\ \A k \in 1 .. Len(Tail(q)) : k + 1 \in 1 .. Len(q) /\ Tail(q)[k] = q[k + 1]
         /\ \A k \in 1 .. Len(q) : k = 1 \/ (k - 1 \in 1 .. Len(Tail(q)) /\ q[k] = Tail(q)[k - 1])
<1>1. Len(q) \in Nat \ {0}
  BY EmptySeq
<1>2. /\ Head(q) \in S /\ Tail(q) \in Seq(S) /\ Len(Tail(q)) = Len(q) - 1
      /\ \A k \in 1 .. Len(Tail(q)) : Tail(q)[k] = q[k + 1]
  BY HeadTailProperties
<1>3. Head(q) = q[1]
  OBVIOUS
<1>4. \A k \in 1 .. Len(Tail(q)) : k + 1 \in 1 .. Len(q)
  BY <1>1, <1>2
<1>5. ASSUME NEW k \in 1 .. Len(q), k # 1
      PROVE  k - 1 \in 1 .. Len(Tail(q)) /\ q[k] = Tail(q)[k - 1]
  BY <1>1, <1>2, <1>5
<1> QED
  BY <1>1, <1>2, <1>3, <1>4, <1>5
-----------------------------------------------------------------------------
\* Each element is less than those that follow it.
Ascending(q) == \A k, l \in 1 .. Len(q) : k < l => q[k] < q[l]

\* Something larger goes to the end of an ascending sequence.
LEMMA OneMoreAscends ==
  ASSUME NEW q \in Seq(Int), Ascending(q),
         NEW x \in Int, \A k \in 1 .. Len(q) : q[k] < x
  PROVE  Ascending(q \o <<x>>)
<1>1. /\ Len(q) \in Nat /\ Len(q \o <<x>>) = Len(q) + 1
      /\ \A k \in 1 .. Len(q) : (q \o <<x>>)[k] = q[k]
      /\ (q \o <<x>>)[Len(q) + 1] = x
  BY OneMore
<1>2. ASSUME NEW k \in 1 .. Len(q) + 1, NEW l \in 1 .. Len(q) + 1, k < l
      PROVE  (q \o <<x>>)[k] < (q \o <<x>>)[l]
  <2>1. k \in 1 .. Len(q)
    BY <1>1, <1>2
  <2>2. CASE l \in 1 .. Len(q)
    BY <1>1, <1>2, <2>1, <2>2 DEF Ascending
  <2>3. CASE l = Len(q) + 1
    BY <1>1, <2>1, <2>3
  <2> QED
    BY <1>1, <2>2, <2>3
<1> QED
  BY <1>1, <1>2 DEF Ascending

\* The first element of an ascending sequence is less than what is left.
LEMMA OneLessAscends ==
  ASSUME NEW q \in Seq(Int), q # <<>>, Ascending(q)
  PROVE  Ascending(Tail(q)) /\ \A k \in 1 .. Len(Tail(q)) : Head(q) < Tail(q)[k]
<1>1. /\ Head(q) = q[1] /\ 1 \in 1 .. Len(q) /\ Len(q) \in Nat /\ Len(Tail(q)) = Len(q) - 1
      /\ \A k \in 1 .. Len(Tail(q)) : k + 1 \in 1 .. Len(q) /\ Tail(q)[k] = q[k + 1]
  BY OneLess
<1>2. \A k \in 1 .. Len(Tail(q)) : Head(q) < Tail(q)[k]
  BY <1>1 DEF Ascending
<1>3. Ascending(Tail(q))
  BY <1>1 DEF Ascending
<1> QED
  BY <1>2, <1>3
-----------------------------------------------------------------------------
\* A function on the numbers up to n is a sequence of that length.
LEMMA FunctionIsSequence ==
  ASSUME NEW S, NEW n \in Nat, NEW f \in [1 .. n -> S]
  PROVE  f \in Seq(S) /\ Len(f) = n
<1>1. f \in Seq(S)
  BY SeqDef
<1>2. DOMAIN f = 1 .. Len(f) /\ Len(f) \in Nat
  BY <1>1, LenProperties
<1>3. 1 .. n = 1 .. Len(f)
  BY <1>2
<1> QED
  BY <1>1, <1>2, <1>3

\* Two sequences, one behind the other, and the elements of both.
LEMMA Joined ==
  ASSUME NEW S, NEW q \in Seq(S), NEW r \in Seq(S)
  PROVE  /\ q \o r \in Seq(S) /\ Len(q) \in Nat /\ Len(r) \in Nat
         /\ Len(q \o r) = Len(q) + Len(r) /\ Len(q \o r) \in Nat
         /\ \A i \in 1 .. Len(q) : i \in 1 .. Len(q \o r) /\ (q \o r)[i] = q[i]
         /\ \A i \in 1 .. Len(r) : Len(q) + i \in 1 .. Len(q \o r) /\ (q \o r)[Len(q) + i] = r[i]
         /\ \A i \in 1 .. Len(q \o r) :
              i \in 1 .. Len(q) \/ (i - Len(q) \in 1 .. Len(r) /\ (q \o r)[i] = r[i - Len(q)])
<1>1. Len(q) \in Nat /\ Len(r) \in Nat
  BY LenProperties
<1>2. /\ q \o r \in Seq(S) /\ Len(q \o r) = Len(q) + Len(r)
      /\ \A i \in 1 .. Len(q) + Len(r) : (q \o r)[i] = IF i <= Len(q) THEN q[i] ELSE r[i - Len(q)]
  BY ConcatProperties
<1>3. \A i \in 1 .. Len(q) : i \in 1 .. Len(q) + Len(r) /\ (q \o r)[i] = q[i]
  BY <1>1, <1>2
<1>4. \A i \in 1 .. Len(r) : Len(q) + i \in 1 .. Len(q) + Len(r) /\ (q \o r)[Len(q) + i] = r[i]
  <2> TAKE i \in 1 .. Len(r)
  <2>1. /\ Len(q) + i \in 1 .. Len(q) + Len(r) /\ ~ (Len(q) + i <= Len(q))
        /\ (Len(q) + i) - Len(q) = i
    BY <1>1
  <2> QED
    BY <1>2, <2>1
<1>5. \A i \in 1 .. Len(q) + Len(r) :
        i \in 1 .. Len(q) \/ (i - Len(q) \in 1 .. Len(r) /\ (q \o r)[i] = r[i - Len(q)])
  BY <1>1, <1>2
<1>6. Len(q) + Len(r) \in Nat
  BY <1>1
<1> QED
  BY <1>1, <1>2, <1>3, <1>4, <1>5, <1>6

\* As many different numbers up to n as n are all of them.
LEMMA AllOfThem ==
  ASSUME NEW n \in Nat, NEW q \in Seq(Int), Len(q) >= n,
         \A i \in 1 .. Len(q) : q[i] \in 1 .. n,
         \A i, j \in 1 .. Len(q) : q[i] = q[j] => i = j
  PROVE  \A v \in 1 .. n : \E i \in 1 .. Len(q) : q[i] = v
<1> DEFINE R == {q[i] : i \in 1 .. Len(q)}
<1>1. Len(q) \in Nat /\ q \in [1 .. Len(q) -> Int]
  BY LenProperties
<1>2. q \in Bijection(1 .. Len(q), R)
  <2>1. q \in [1 .. Len(q) -> R]
    BY <1>1
  <2> QED
    BY <2>1 DEF Bijection, Injection, Surjection, IsInjective
<1> DEFINE l == Len(q)
<1> HIDE DEF R, l
<1>3. IsFiniteSet(1 .. l) /\ Cardinality(1 .. l) = l
  <2>1. l \in Nat
    BY <1>1 DEF l
  <2> QED
    BY <2>1, FS_Interval
<1>4. IsFiniteSet(R) /\ Cardinality(R) = l
  BY <1>2, <1>3, FS_Bijection DEF ExistsBijection, l
<1>5. IsFiniteSet(1 .. n) /\ Cardinality(1 .. n) = n
  BY FS_Interval
<1>6. R \in SUBSET (1 .. n)
  BY DEF R
<1>7. R = 1 .. n
  <2>1. Cardinality(R) <= Cardinality(1 .. n) /\ (Cardinality(1 .. n) = Cardinality(R) => 1 .. n = R)
    BY <1>5, <1>6, FS_Subset
  <2>2. l <= n /\ l >= n /\ l \in Nat
    BY <1>1, <1>4, <1>5, <2>1 DEF l
  <2>3. l = n
    BY <2>2
  <2> QED
    BY <1>4, <1>5, <2>1, <2>3
<1> QED
  BY <1>7 DEF R

\* Some number is the least of any that there are.
LEMMA LeastOfThem ==
  ASSUME NEW n \in Nat, NEW U, U \subseteq 1 .. n, U # {}
  PROVE  \E x \in U : \A y \in U : x <= y
<1> DEFINE Below(x) == {y \in U : y < x}
           T == {Below(x) : x \in U}
           R == StrictSubsetOrdering(1 .. n)
<1>1. IsWellFoundedOn(R, SUBSET (1 .. n))
  <2>1. IsFiniteSet(1 .. n)
    BY FS_Interval
  <2> QED
    BY <2>1, FS_StrictSubsetOrderingWellFounded, FS_FiniteSubsetsOfFinite
<1>2. T \subseteq SUBSET (1 .. n) /\ T # {}
  OBVIOUS
<1>3. PICK t \in T : \A u \in T : <<u, t>> \notin R
  <2> HIDE DEF T, R
  <2> QED
    BY <1>1, <1>2, WFMin
<1>4. PICK x \in U : t = Below(x)
  BY <1>3
<1>5. ASSUME NEW y \in U, y < x PROVE FALSE
  <2>0. \A u \in U : u \in Int
    OBVIOUS
  <2>1. \A u \in U : u < y => u < x
    BY <1>5, <2>0
  <2>2. Below(y) \subseteq Below(x) /\ y \in Below(x)
    BY <1>5, <2>1
  <2>3. y \notin Below(y)
    BY <2>0
  <2>4. <<Below(y), Below(x)>> \in R
    BY <2>2, <2>3 DEF StrictSubsetOrdering
  <2> QED
    BY <1>3, <1>4, <2>4
<1> QED
  BY <1>5

\* A sequence is its first element and the rest.
LEMMA HeadThenTail ==
  ASSUME NEW S, NEW q \in Seq(S), q # <<>>
  PROVE  <<Head(q)>> \o Tail(q) = q
<1>1. /\ Head(q) = q[1] /\ Head(q) \in S /\ Tail(q) \in Seq(S)
      /\ Len(q) \in Nat /\ Len(Tail(q)) = Len(q) - 1
      /\ \A k \in 1 .. Len(q) : k = 1 \/ (k - 1 \in 1 .. Len(Tail(q)) /\ q[k] = Tail(q)[k - 1])
  BY OneLess
<1> DEFINE h == <<Head(q)>>
           t == Tail(q)
<1>2. h \in Seq(S) /\ Len(h) = 1 /\ h[1] = q[1]
  BY <1>1
<1>3. /\ t \in Seq(S) /\ Len(t) \in Nat /\ Len(q) \in Nat /\ Len(t) = Len(q) - 1
      /\ \A k \in 1 .. Len(q) : k = 1 \/ (k - 1 \in 1 .. Len(t) /\ q[k] = t[k - 1])
  BY <1>1
<1> HIDE DEF h, t
<1>4. /\ h \o t \in Seq(S) /\ Len(h \o t) = Len(h) + Len(t)
      /\ \A i \in 1 .. Len(h) + Len(t) : (h \o t)[i] = IF i <= Len(h) THEN h[i] ELSE t[i - Len(h)]
  BY <1>2, <1>3, ConcatProperties
<1>5. Len(h \o t) = Len(q) /\ Len(h) + Len(t) = Len(q)
  BY <1>2, <1>3, <1>4
<1>6. \A k \in 1 .. Len(q) : (h \o t)[k] = q[k]
  BY <1>2, <1>3, <1>4, <1>5
<1>7. h \o t = q
  BY <1>4, <1>5, <1>6, SeqEqual
<1> QED
  BY <1>7 DEF h, t
=============================================================================
