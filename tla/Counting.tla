------------------------------ MODULE Counting ------------------------------
(***************************************************************************)
(* Facts about the natural numbers and about sequences that the proofs of  *)
(* several components rest on: induction, stated of a set, the enumeration *)
(* of a finite set of numbers in increasing order, what a quotient is, and *)
(* what Append, Tail and \o make of sequences of whatever entries.         *)
(***************************************************************************)
EXTENDS Integers, FiniteSetTheorems, SequenceTheorems, WellFoundedInduction, TLAPS

(***************************************************************************)
(* A set of naturals with zero in it and the successor of each of its      *)
(* members is all of them: of those left out the least would have a        *)
(* predecessor that is not.                                                *)
(***************************************************************************)
LEMMA SetInduction ==
    ASSUME NEW T \in SUBSET Nat, 0 \in T, \A n \in T : n + 1 \in T
    PROVE  T = Nat
<1> DEFINE R == {ss \in Nat \X Nat : ss[1] < ss[2]}
           D == Nat \ T
<1>1. IsWellFoundedOn(R, Nat)
  BY NatLessThanWellFounded DEF OpToRel
<1> SUFFICES ASSUME D # {} PROVE FALSE
  OBVIOUS
<1>2. PICK x \in D : \A y \in D : ~(<<y, x>> \in R)
  <2> HIDE DEF R
  <2>1. D \subseteq Nat
    OBVIOUS
  <2>2. QED
    BY <1>1, <2>1, WFMin, Zenon
<1>3. x \in Nat /\ x # 0 /\ x \notin T
  BY <1>2
<1>4. x - 1 \in Nat /\ x - 1 < x /\ (x - 1) + 1 = x
  BY <1>3
<1>5. <<x - 1, x>> \in R
  BY <1>3, <1>4
<1>6. x - 1 \in T
  BY <1>2, <1>4, <1>5
<1>7. QED
  BY <1>3, <1>4, <1>6

(***************************************************************************)
(* Of some of the first n numbers one is the greatest.                     *)
(***************************************************************************)
LEMMA HasGreatest ==
    ASSUME NEW n \in Nat, NEW T \in SUBSET (1..n), T # {}
    PROVE  \E g \in T : \A j \in T : g >= j
<1> DEFINE Bounded(m) == \A U \in SUBSET (1..m) : U # {} => \E g \in U : \A j \in U : g >= j
           R == {m \in Nat : Bounded(m)}
<1>1. 0 \in R
  <2>1. \A U \in SUBSET (1..0) : U = {}
    OBVIOUS
  <2>2. QED
    BY <2>1
<1>2. ASSUME NEW m \in R PROVE m + 1 \in R
  <2>1. m \in Nat /\ m + 1 \in Nat
    OBVIOUS
  <2> SUFFICES ASSUME NEW U \in SUBSET (1..(m + 1)), U # {}
               PROVE  \E g \in U : \A j \in U : g >= j
    BY <2>1
  <2>2. CASE m + 1 \in U
    BY <2>1, <2>2
  <2>3. CASE m + 1 \notin U
    <3>1. U \in SUBSET (1..m)
      BY <2>1, <2>3
    <3>2. QED
      BY <3>1
  <2>4. QED
    BY <2>2, <2>3
<1>3. R = Nat
  <2> HIDE DEF R
  <2>1. R \subseteq Nat
    BY DEF R
  <2>2. QED
    BY <1>1, <1>2, <2>1, SetInduction
<1>4. Bounded(n)
  BY <1>3
<1>5. QED
  BY <1>4

(***************************************************************************)
(* The members of a finite set of numbers can be counted off in increasing *)
(* order.                                                                  *)
(***************************************************************************)
Increasing(f, T) ==
    /\ f \in [1..Cardinality(T) -> T]
    /\ \A i, j \in 1..Cardinality(T) : i < j => f[i] < f[j]

(***************************************************************************)
(* So has a set that starts at 0; and every set of numbers has a least one. *)
(***************************************************************************)
LEMMA HasGreatestFromZero ==
    ASSUME NEW n \in Nat, NEW T \in SUBSET (0..n), T # {}
    PROVE  \E g \in T : \A j \in T : g >= j
<1> DEFINE U == {i \in 1..(n + 1) : i - 1 \in T}
<1>1. U \in SUBSET (1..(n + 1)) /\ n + 1 \in Nat
  OBVIOUS
<1>2. \A j \in T : j + 1 \in U
  OBVIOUS
<1>3. \A i \in U : i - 1 \in T
  OBVIOUS
<1>4. U # {}
  BY <1>2
<1> HIDE DEF U
<1>5. PICK g \in U : \A j \in U : g >= j
  BY <1>1, <1>4, HasGreatest
<1>6. \A j \in T : g - 1 >= j
  BY <1>1, <1>2, <1>5
<1>7. QED
  BY <1>3, <1>5, <1>6

LEMMA HasLeast ==
    ASSUME NEW T \in SUBSET Nat, T # {}
    PROVE  \E g \in T : \A j \in T : g <= j
<1> DEFINE R == {ss \in Nat \X Nat : ss[1] < ss[2]}
<1>1. IsWellFoundedOn(R, Nat)
  BY NatLessThanWellFounded DEF OpToRel
<1>2. PICK g \in T : \A j \in T : ~(<<j, g>> \in R)
  <2> HIDE DEF R
  <2>1. QED
    BY <1>1, WFMin, Zenon
<1>3. ASSUME NEW j \in T PROVE g <= j
  <2>1. <<j, g>> \in Nat \X Nat /\ ~(<<j, g>> \in R)
    BY <1>2
  <2>2. ~(j < g)
    BY <2>1
  <2>3. QED
    BY <2>2
<1>4. QED
  BY <1>3

LEMMA Enumerated ==
    ASSUME NEW n \in Nat, NEW T \in SUBSET (1..n)
    PROVE  Cardinality(T) \in Nat /\ \E f : Increasing(f, T)
<1> DEFINE Enumerable(S) == Cardinality(S) \in Nat /\ \E f : Increasing(f, S)
           Up == {m \in Nat : \A S \in SUBSET (1..m) : IsFiniteSet(S) /\ Enumerable(S)}
<1>1. 0 \in Up
  <2> SUFFICES ASSUME NEW S \in SUBSET (1..0) PROVE IsFiniteSet(S) /\ Enumerable(S)
    OBVIOUS
  <2>1. S = {}
    OBVIOUS
  <2>2. IsFiniteSet(S) /\ Cardinality(S) = 0
    BY <2>1, FS_EmptySet
  <2>3. Increasing([i \in 1..0 |-> 0], S)
    BY <2>2 DEF Increasing
  <2>4. QED
    BY <2>2, <2>3
<1>2. ASSUME NEW m \in Up PROVE m + 1 \in Up
  <2>0. m \in Nat /\ \A S \in SUBSET (1..m) : IsFiniteSet(S) /\ Enumerable(S)
    BY <1>2
  <2> SUFFICES ASSUME NEW S \in SUBSET (1..(m + 1)) PROVE IsFiniteSet(S) /\ Enumerable(S)
    BY <2>0
  <2> DEFINE Rest == S \ {m + 1}
             c == Cardinality(Rest)
  <2>1. Rest \in SUBSET (1..m)
    BY <2>0
  <2>2. IsFiniteSet(Rest) /\ c \in Nat
    BY <2>0, <2>1
  <2>3. PICK g : Increasing(g, Rest)
    BY <2>0, <2>1
  <2>4. CASE m + 1 \notin S
    <3>1. Rest = S
      BY <2>4
    <3>2. QED
      BY <3>1, <2>2, <2>3
  <2>5. CASE m + 1 \in S
    <3> DEFINE f == [i \in 1..(c + 1) |-> IF i <= c THEN g[i] ELSE m + 1]
    <3>1. S = Rest \cup {m + 1} /\ m + 1 \notin Rest
      BY <2>5
    <3>2. IsFiniteSet(S) /\ Cardinality(S) = c + 1
      <4> HIDE DEF Rest
      <4>1. IsFiniteSet(Rest \cup {m + 1}) /\ Cardinality(Rest \cup {m + 1}) = c + 1
        BY <2>2, <3>1, FS_AddElement
      <4>2. QED
        BY <3>1, <4>1
    <3>3. \A i \in 1..c : g[i] \in Rest /\ g[i] \in S /\ g[i] \in Nat /\ g[i] < m + 1
      <4>1. \A i \in 1..c : g[i] \in Rest
        BY <2>3 DEF Increasing
      <4>2. \A y \in Rest : y \in S /\ y \in Nat /\ y < m + 1
        BY <2>0, <2>1
      <4> HIDE DEF Rest, c
      <4>3. QED
        BY <4>1, <4>2
    <3>4. \A i, j \in 1..c : i < j => g[i] < g[j]
      BY <2>3 DEF Increasing
    <3> HIDE DEF c, Rest
    <3>5. f \in [1..(c + 1) -> S]
      BY <2>2, <2>5, <3>3
    <3>6. \A i, j \in 1..(c + 1) : i < j => f[i] < f[j]
      BY <2>2, <3>3, <3>4
    <3>7. Increasing(f, S)
      BY <3>2, <3>5, <3>6 DEF Increasing
    <3>8. QED
      BY <2>2, <3>2, <3>7
  <2>6. QED
    BY <2>4, <2>5
<1>3. Up = Nat
  <2> HIDE DEF Up
  <2>1. Up \in SUBSET Nat
    BY DEF Up
  <2>2. QED
    BY <1>1, <1>2, <2>1, SetInduction
<1>4. QED
  BY <1>3

(***************************************************************************)
(* None is left out: it is an injection between sets of one size.          *)
(***************************************************************************)
LEMMA IncreasingOnto ==
    ASSUME NEW n \in Nat, NEW T \in SUBSET (1..n), NEW f, Increasing(f, T)
    PROVE  \A i \in T : \E k \in 1..Cardinality(T) : f[k] = i
<1> DEFINE c == Cardinality(T)
<1>1. c \in Nat
  BY Enumerated
<1>2. f \in [1..c -> T] /\ \A i, j \in 1..c : i < j => f[i] < f[j]
  BY DEF Increasing
<1>3. IsFiniteSet(T)
  <2>1. IsFiniteSet(1..n)
    BY FS_Interval
  <2>2. QED
    BY <2>1, FS_Subset
<1>4. IsInjective(f)
  <2>1. \A x \in T : x \in Nat
    OBVIOUS
  <2>2. \A i \in 1..c : f[i] \in Nat
    BY <1>2, <2>1
  <2>3. DOMAIN f = 1..c
    BY <1>2
  <2> SUFFICES ASSUME NEW i \in 1..c, NEW j \in 1..c, f[i] = f[j] PROVE i = j
    BY <2>3 DEF IsInjective
  <2>4. ~(i < j) /\ ~(j < i)
    BY <1>2, <2>2
  <2>5. QED
    BY <1>1, <2>4
<1>5. f \in Injection(1..c, T)
  BY <1>2, <1>4 DEF Injection
<1>6. Cardinality(1..c) = c
  BY <1>1, FS_Interval
<1>7. f \in Surjection(1..c, T)
  BY <1>3, <1>5, <1>6, FS_Injection
<1>8. QED
  BY <1>7 DEF Surjection

(***************************************************************************)
(* One more is a divisor more.                                             *)
(***************************************************************************)
LEMMA Mono ==
    ASSUME NEW a \in Int, NEW b \in Int, NEW d \in Int, d > 0, a >= b + 1
    PROVE  d * a >= d * b + d
  OBVIOUS

(***************************************************************************)
(* What a quotient is.                                                     *)
(***************************************************************************)
LEMMA DivFact ==
    ASSUME NEW x \in Int, NEW d \in Int, d > 0
    PROVE  (x \div d) \in Int /\ d * (x \div d) <= x /\ x < d * (x \div d) + d
  OBVIOUS

(***************************************************************************)
(* It is the only number of which that is true.                            *)
(***************************************************************************)
LEMMA DivUnique ==
    ASSUME NEW x \in Int, NEW d \in Int, d > 0, NEW q \in Int, d * q <= x, x < d * q + d
    PROVE  x \div d = q
<1> DEFINE p == x \div d
<1>1. p \in Int /\ d * p <= x /\ x < d * p + d
  BY DivFact
<1> HIDE DEF p
<1>2. d * p \in Int /\ d * q \in Int
  BY <1>1
<1>3. CASE p >= q + 1
  <2>1. d * p >= d * q + d
    BY <1>1, <1>3, Mono
  <2>2. QED
    BY <1>1, <1>2, <2>1
<1>4. CASE q >= p + 1
  <2>1. d * q >= d * p + d
    BY <1>1, <1>4, Mono
  <2>2. QED
    BY <1>1, <1>2, <2>1
<1>5. QED
  BY <1>1, <1>3, <1>4 DEF p

(***************************************************************************)
(* Sequences of whatever entries.                                          *)
(***************************************************************************)
IsSeq(s) == \E S : s \in Seq(S)

(***************************************************************************)
(* The length of a sequence of whatever entries.                           *)
(***************************************************************************)
LEMMA SeqFacts ==
    ASSUME NEW s, IsSeq(s)
    PROVE  Len(s) \in Nat /\ DOMAIN s = 1..Len(s) /\ (s = <<>> <=> Len(s) = 0)
  BY LenProperties, EmptySeq DEF IsSeq

(***************************************************************************)
(* The empty sequence is one.                                              *)
(***************************************************************************)
LEMMA EmptyIsSeq == IsSeq(<<>>) /\ Len(<<>>) = 0 /\ DOMAIN <<>> = {}
  BY DEF IsSeq

(***************************************************************************)
(* What Append makes.                                                      *)
(***************************************************************************)
LEMMA Appended ==
    ASSUME NEW s, IsSeq(s), NEW e
    PROVE  /\ IsSeq(Append(s, e)) /\ Len(Append(s, e)) = Len(s) + 1 /\ Len(s) \in Nat
           /\ DOMAIN Append(s, e) = 1..(Len(s) + 1)
           /\ \A i \in 1..Len(s) : Append(s, e)[i] = s[i]
           /\ Append(s, e)[Len(s) + 1] = e
<1>1. PICK S : s \in Seq(S)
  BY DEF IsSeq
<1> DEFINE U == S \cup {e}
<1>2. s \in Seq(U) /\ e \in U
  BY <1>1
<1> HIDE DEF U
<1>3. /\ Append(s, e) \in Seq(U) /\ Len(Append(s, e)) = Len(s) + 1
      /\ \A i \in 1..Len(s) : Append(s, e)[i] = s[i]
      /\ Append(s, e)[Len(s) + 1] = e
  BY <1>2, AppendProperties
<1>4. Len(s) \in Nat /\ DOMAIN Append(s, e) = 1..(Len(s) + 1)
  BY <1>2, <1>3, LenProperties
<1>5. QED
  BY <1>3, <1>4 DEF IsSeq

(***************************************************************************)
(* What Tail leaves.                                                       *)
(***************************************************************************)
LEMMA Tailed ==
    ASSUME NEW s, IsSeq(s), s # <<>>
    PROVE  /\ IsSeq(Tail(s)) /\ Len(Tail(s)) = Len(s) - 1 /\ Len(s) \in Nat \ {0}
           /\ Head(s) = s[1] /\ \A i \in 1..Len(Tail(s)) : Tail(s)[i] = s[i + 1]
<1>1. PICK S : s \in Seq(S)
  BY DEF IsSeq
<1>2. /\ Tail(s) \in Seq(S) /\ Len(Tail(s)) = Len(s) - 1 /\ Head(s) = s[1]
      /\ \A i \in 1..Len(Tail(s)) : Tail(s)[i] = s[i + 1]
  BY <1>1, HeadTailProperties
<1>3. QED
  BY <1>1, <1>2, SeqFacts DEF IsSeq

(***************************************************************************)
(* Sequences with the same entries are the same.                           *)
(***************************************************************************)
LEMMA SameSeq ==
    ASSUME NEW s, NEW t, IsSeq(s), IsSeq(t), Len(s) = Len(t), \A i \in 1..Len(s) : s[i] = t[i]
    PROVE  s = t
<1>1. PICK S : s \in Seq(S)
  BY DEF IsSeq
<1>2. PICK T : t \in Seq(T)
  BY DEF IsSeq
<1> DEFINE U == S \cup T
<1>3. s \in Seq(U) /\ t \in Seq(U)
  BY <1>1, <1>2
<1> HIDE DEF U
<1>4. QED
  BY <1>3, SeqEqual

(***************************************************************************)
(* A function on the first naturals is a sequence.                         *)
(***************************************************************************)
LEMMA MappedSeq ==
    ASSUME NEW n \in Nat, NEW f, f = [i \in 1..n |-> f[i]]
    PROVE  IsSeq(f) /\ Len(f) = n
<1> DEFINE U == {f[i] : i \in 1..n}
<1>1. f \in [1..n -> U]
  OBVIOUS
<1> HIDE DEF U
<1>2. f \in Seq(U)
  BY <1>1, SeqDef
<1>3. DOMAIN f = 1..n /\ DOMAIN f = 1..Len(f) /\ Len(f) \in Nat
  BY <1>1, <1>2, LenProperties
<1>4. QED
  BY <1>2, <1>3 DEF IsSeq

(***************************************************************************)
(* What one sequence behind another is.                                    *)
(***************************************************************************)
LEMMA JoinedSeq ==
    ASSUME NEW s, NEW t, IsSeq(s), IsSeq(t)
    PROVE  /\ IsSeq(s \o t) /\ Len(s \o t) = Len(s) + Len(t)
           /\ \A i \in 1..Len(s) : (s \o t)[i] = s[i]
           /\ \A i \in 1..Len(t) : (s \o t)[Len(s) + i] = t[i]
<1>1. PICK S : s \in Seq(S)
  BY DEF IsSeq
<1>2. PICK T : t \in Seq(T)
  BY DEF IsSeq
<1> DEFINE U == S \cup T
<1>3. s \in Seq(U) /\ t \in Seq(U)
  BY <1>1, <1>2
<1> HIDE DEF U
<1>4. /\ s \o t \in Seq(U) /\ Len(s \o t) = Len(s) + Len(t)
      /\ \A i \in 1..(Len(s) + Len(t)) :
            (s \o t)[i] = IF i <= Len(s) THEN s[i] ELSE t[i - Len(s)]
  BY <1>3, ConcatProperties
<1>5. Len(s) \in Nat /\ Len(t) \in Nat
  BY <1>3, LenProperties
<1>6. \A i \in 1..Len(t) : (s \o t)[Len(s) + i] = t[i]
  <2> SUFFICES ASSUME NEW i \in 1..Len(t) PROVE (s \o t)[Len(s) + i] = t[i]
    OBVIOUS
  <2>1. Len(s) + i \in 1..(Len(s) + Len(t)) /\ ~(Len(s) + i <= Len(s)) /\ (Len(s) + i) - Len(s) = i
    BY <1>5
  <2>2. QED
    BY <1>4, <2>1
<1>7. \A i \in 1..Len(s) : (s \o t)[i] = s[i]
  BY <1>4, <1>5
<1>8. QED
  BY <1>4, <1>6, <1>7 DEF IsSeq

=============================================================================
