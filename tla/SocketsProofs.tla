---------------------------- MODULE SocketsProofs ---------------------------
(***************************************************************************)
(* Proofs about Sockets, for any windows, outputs and backends, any        *)
(* daemons, clients and scripts. Each conversation has an invariant of its *)
(* own: WatchInv, the types of the focus and of what is sent and not read; *)
(* ListInv, that each answer is a layout since the call began and the list *)
(* is made of them, which with what the walk of a tree finds               *)
(* (WalkFindsWindows) gives HitIsShown; ProcessInv, what each process      *)
(* believes of the socket file; ServedInv, an account of every connection. *)
(* A step of one conversation is a stutter of the others, so the four hold *)
(* together (SocketsInv), and the theorems follow at the end.              *)
(***************************************************************************)
EXTENDS Sockets, Counting, SequenceTheorems, TLAPS

-----------------------------------------------------------------------------
(* Flattened sequences, and numbers in order *)

(***************************************************************************)
(* Where each entry of a flattened sequence comes from: the entry k is     *)
(* ss[row[k]][col[k]], the rows one after the other, and all of them.      *)
(***************************************************************************)
FlatTo(ss, n, flat, row, col) ==
    /\ IsSeq(flat)
    /\ \A k \in 1..Len(flat) :
        /\ row[k] \in 1..n /\ col[k] \in 1..Len(ss[row[k]])
        /\ flat[k] = ss[row[k]][col[k]]
        /\ \A l \in 1..Len(flat) :
            k < l => row[k] < row[l] \/ (row[k] = row[l] /\ col[k] < col[l])
    /\ \A i \in 1..n : \A c \in 1..Len(ss[i]) :
        \E k \in 1..Len(flat) : row[k] = i /\ col[k] = c

\* FlattenSeq, from its entry i on what it makes of those before.
FlatAt(ss, f, i) == IF i = 1 THEN ss[i] ELSE f[i - 1] \o ss[i]

(***************************************************************************)
(* The recursion of FlattenSeq has a solution.                             *)
(***************************************************************************)
LEMMA FlatSolves ==
    ASSUME NEW ss, NEW N \in Nat
    PROVE  \E f : f = [i \in 1..N |-> FlatAt(ss, f, i)]
<1> DEFINE Solved(n) == \E f : f = [i \in 1..n |-> FlatAt(ss, f, i)]
           T == {n \in Nat : Solved(n)}
<1>1. 0 \in T
  <2> DEFINE e == [i \in 1..0 |-> 0]
  <2>1. e = [i \in 1..0 |-> FlatAt(ss, e, i)]
    OBVIOUS
  <2>2. QED
    BY <2>1
<1>2. ASSUME NEW n \in T PROVE n + 1 \in T
  <2>1. PICK g : g = [i \in 1..n |-> FlatAt(ss, g, i)]
    BY <1>2
  <2> DEFINE h == [i \in 1..(n + 1) |-> IF i = n + 1 THEN FlatAt(ss, g, i) ELSE g[i]]
  <2>2. n \in Nat
    BY <1>2
  <2>3. \A i \in 1..(n + 1) : i # 1 => h[i - 1] = g[i - 1]
    BY <2>2
  <2>4. \A i \in 1..(n + 1) : FlatAt(ss, h, i) = FlatAt(ss, g, i)
    <3> HIDE DEF h
    <3>1. QED
      BY <2>3 DEF FlatAt
  <2>5. \A i \in 1..n : g[i] = FlatAt(ss, g, i)
    BY <2>1
  <2>6. \A i \in 1..(n + 1) : h[i] = FlatAt(ss, h, i)
    BY <2>2, <2>4, <2>5
  <2>7. h = [i \in 1..(n + 1) |-> h[i]]
    OBVIOUS
  <2> HIDE DEF h
  <2>8. h = [i \in 1..(n + 1) |-> FlatAt(ss, h, i)]
    BY <2>6, <2>7
  <2>9. QED
    BY <2>2, <2>8
<1>3. T = Nat
  <2> HIDE DEF T
  <2>1. T \in SUBSET Nat
    BY DEF T
  <2>2. QED
    BY <1>1, <1>2, <2>1, SetInduction
<1>4. QED
  BY <1>3

(***************************************************************************)
(* One more row.                                                           *)
(***************************************************************************)
LEMMA FlatGrows ==
    ASSUME NEW ss, NEW n \in Nat, IsSeq(ss[n + 1]), NEW flat, NEW row, NEW col,
           FlatTo(ss, n, flat, row, col)
    PROVE  \E r, c : FlatTo(ss, n + 1, flat \o ss[n + 1], r, c)
<1> DEFINE new == ss[n + 1]
           all == flat \o new
           a == Len(flat)
           b == Len(new)
<1>1. IsSeq(flat) /\ IsSeq(new)
  BY DEF FlatTo
<1>2. a \in Nat /\ b \in Nat
  BY <1>1, SeqFacts
<1>3. /\ IsSeq(all) /\ Len(all) = a + b
      /\ \A i \in 1..a : all[i] = flat[i]
      /\ \A i \in 1..b : all[a + i] = new[i]
  BY <1>1, JoinedSeq
<1> DEFINE r == [k \in 1..(a + b) |-> IF k <= a THEN row[k] ELSE n + 1]
           c == [k \in 1..(a + b) |-> IF k <= a THEN col[k] ELSE k - a]
<1>4. \A k \in 1..a : r[k] = row[k] /\ c[k] = col[k] /\ k \in 1..(a + b)
  BY <1>2
<1>5. \A k \in 1..(a + b) : k > a =>
        r[k] = n + 1 /\ c[k] = k - a /\ k - a \in 1..b /\ all[k] = new[k - a]
  <2> SUFFICES ASSUME NEW k \in 1..(a + b), k > a
               PROVE  r[k] = n + 1 /\ c[k] = k - a /\ k - a \in 1..b /\ all[k] = new[k - a]
    OBVIOUS
  <2>1. k - a \in 1..b /\ a + (k - a) = k /\ ~(k <= a)
    BY <1>2
  <2>2. all[a + (k - a)] = new[k - a]
    BY <1>3, <2>1
  <2>3. QED
    BY <2>1, <2>2
<1>6. \A k \in 1..a :
        /\ row[k] \in 1..n /\ col[k] \in 1..Len(ss[row[k]]) /\ flat[k] = ss[row[k]][col[k]]
        /\ \A l \in 1..a : k < l => row[k] < row[l] \/ (row[k] = row[l] /\ col[k] < col[l])
  BY DEF FlatTo
<1>7. \A i \in 1..n : \A e \in 1..Len(ss[i]) : \E k \in 1..a : row[k] = i /\ col[k] = e
  BY DEF FlatTo
<1> HIDE DEF r, c, all, a, b
<1>8. ASSUME NEW k \in 1..Len(all)
      PROVE  /\ r[k] \in 1..(n + 1) /\ c[k] \in 1..Len(ss[r[k]])
             /\ all[k] = ss[r[k]][c[k]]
             /\ \A l \in 1..Len(all) : k < l => r[k] < r[l] \/ (r[k] = r[l] /\ c[k] < c[l])
  <2>0. k \in 1..(a + b) /\ Len(all) = a + b
    BY <1>3
  <2>1. CASE k <= a
    <3>1. k \in 1..a
      BY <1>2, <2>0, <2>1
    <3>2. /\ r[k] \in 1..n /\ c[k] \in 1..Len(ss[r[k]]) /\ all[k] = ss[r[k]][c[k]]
          /\ r[k] = row[k] /\ c[k] = col[k]
      BY <1>3, <1>4, <1>6, <3>1
    <3>3. ASSUME NEW l \in 1..(a + b), k < l
          PROVE  r[k] < r[l] \/ (r[k] = r[l] /\ c[k] < c[l])
      <4>1. CASE l <= a
        <5>1. l \in 1..a
          BY <1>2, <4>1
        <5>2. QED
          BY <1>4, <1>6, <3>1, <3>3, <5>1
      <4>2. CASE l > a
        BY <1>5, <3>2, <4>2
      <4>3. QED
        BY <1>2, <4>1, <4>2
    <3>4. r[k] \in 1..(n + 1)
      BY <3>2
    <3>5. QED
      BY <2>0, <3>2, <3>3, <3>4
  <2>2. CASE k > a
    <3>1. r[k] = n + 1 /\ c[k] = k - a /\ k - a \in 1..b /\ all[k] = new[k - a]
      BY <1>5, <2>0, <2>2
    <3>2. \A l \in 1..(a + b) : k < l => r[l] = n + 1 /\ c[l] = l - a
      BY <1>2, <1>5, <2>0, <2>2
    <3>3. \A l \in 1..(a + b) : k < l => c[k] < c[l] /\ r[k] = r[l]
      BY <1>2, <2>0, <3>1, <3>2
    <3>4. Len(ss[r[k]]) = b /\ ss[r[k]] = new
      BY <3>1 DEF b
    <3>5. QED
      BY <2>0, <3>1, <3>3, <3>4
  <2>3. QED
    BY <1>2, <2>0, <2>1, <2>2
<1>9. ASSUME NEW i \in 1..(n + 1), NEW e \in 1..Len(ss[i])
      PROVE  \E k \in 1..Len(all) : r[k] = i /\ c[k] = e
  <2>1. CASE i \in 1..n
    <3>1. PICK k \in 1..a : row[k] = i /\ col[k] = e
      BY <1>7, <2>1
    <3>2. QED
      BY <1>3, <1>4, <3>1
  <2>2. CASE i = n + 1
    <3>1. e \in 1..b
      BY <2>2 DEF b
    <3>2. a + e \in 1..(a + b) /\ a + e > a /\ (a + e) - a = e
      BY <1>2, <3>1
    <3>3. r[a + e] = i /\ c[a + e] = e
      BY <1>5, <2>2, <3>2
    <3>4. QED
      BY <1>3, <3>2, <3>3
  <2>3. QED
    BY <2>1, <2>2
<1>10. FlatTo(ss, n + 1, all, r, c)
  BY <1>3, <1>8, <1>9 DEF FlatTo
<1>11. QED
  BY <1>10 DEF all

(***************************************************************************)
(* A flattened sequence has the entries of the others, one of them after   *)
(* the other.                                                              *)
(***************************************************************************)
LEMMA Flattened ==
    ASSUME NEW ss, IsSeq(ss), \A i \in 1..Len(ss) : IsSeq(ss[i])
    PROVE  \E row, col : FlatTo(ss, Len(ss), FlattenSeq(ss), row, col)
<1>0. Len(ss) \in Nat /\ (ss = <<>> <=> Len(ss) = 0)
  BY SeqFacts
<1>1. CASE Len(ss) = 0
  <2>1. FlattenSeq(ss) = <<>>
    BY <1>0, <1>1 DEF FlattenSeq
  <2>2. FlatTo(ss, Len(ss), <<>>, <<>>, <<>>)
    BY <1>1, EmptyIsSeq DEF FlatTo
  <2>3. QED
    BY <2>1, <2>2
<1>2. CASE Len(ss) # 0
  <2> DEFINE N == Len(ss)
             F == CHOOSE f : f = [i \in 1..N |-> FlatAt(ss, f, i)]
  <2>1. F = [i \in 1..N |-> FlatAt(ss, F, i)]
    BY <1>0, FlatSolves
  <2>2. FlattenSeq(ss) = F[N]
    BY <1>2 DEF FlattenSeq, FlatAt
  <2> HIDE DEF F
  <2>3. \A i \in 1..N : F[i] = FlatAt(ss, F, i)
    BY <2>1
  <2> DEFINE Flat(n) == \E row, col : FlatTo(ss, n, F[n], row, col)
             T == {n \in Nat : n + 1 <= N => Flat(n + 1)}
  <2>4. 0 \in T
    <3>1. F[1] = ss[1] /\ IsSeq(ss[1])
      BY <1>0, <1>2, <2>3 DEF FlatAt
    <3>2. /\ IsSeq(<<>> \o ss[1]) /\ Len(<<>> \o ss[1]) = Len(ss[1])
          /\ \A i \in 1..Len(ss[1]) : (<<>> \o ss[1])[i] = ss[1][i]
      <4>1. /\ IsSeq(<<>> \o ss[1]) /\ Len(<<>> \o ss[1]) = 0 + Len(ss[1])
            /\ \A i \in 1..Len(ss[1]) : (<<>> \o ss[1])[0 + i] = ss[1][i]
        BY <3>1, EmptyIsSeq, JoinedSeq
      <4>2. Len(ss[1]) \in Nat
        BY <3>1, SeqFacts
      <4>3. QED
        BY <4>1, <4>2
    <3>3. <<>> \o ss[1] = ss[1]
      BY <3>1, <3>2, SameSeq
    <3>4. FlatTo(ss, 0, <<>>, <<>>, <<>>)
      BY EmptyIsSeq DEF FlatTo
    <3>5. \E row, col : FlatTo(ss, 0 + 1, <<>> \o ss[0 + 1], row, col)
      <4>1. 0 \in Nat /\ IsSeq(ss[0 + 1])
        BY <3>1
      <4>2. QED
        BY <3>4, <4>1, FlatGrows
    <3>6. QED
      BY <3>1, <3>3, <3>5
  <2>5. ASSUME NEW n \in T PROVE n + 1 \in T
    <3> SUFFICES ASSUME (n + 1) + 1 <= N PROVE Flat((n + 1) + 1)
      BY <2>5
    <3>1. n \in Nat /\ n + 1 \in Nat /\ n + 1 <= N /\ (n + 1) + 1 \in 1..N
      BY <1>0, <2>5
    <3>2. PICK row, col : FlatTo(ss, n + 1, F[n + 1], row, col)
      BY <2>5, <3>1
    <3>3. F[(n + 1) + 1] = F[n + 1] \o ss[(n + 1) + 1]
      <4>1. (n + 1) + 1 # 1 /\ ((n + 1) + 1) - 1 = n + 1
        BY <3>1
      <4>2. QED
        BY <2>3, <3>1, <4>1 DEF FlatAt
    <3>4. IsSeq(ss[(n + 1) + 1])
      BY <3>1
    <3>5. \E r, c : FlatTo(ss, (n + 1) + 1, F[n + 1] \o ss[(n + 1) + 1], r, c)
      BY <3>1, <3>2, <3>4, FlatGrows
    <3>6. QED
      BY <3>3, <3>5
  <2>6. T = Nat
    <3> HIDE DEF T
    <3>1. T \in SUBSET Nat
      BY DEF T
    <3>2. QED
      BY <2>4, <2>5, <3>1, SetInduction
  <2>7. N - 1 \in Nat /\ (N - 1) + 1 = N
    BY <1>0, <1>2
  <2>8. N - 1 \in T
    BY <2>6, <2>7
  <2>9. Flat(N)
    BY <2>7, <2>8
  <2>10. QED
    BY <2>2, <2>9
<1>3. QED
  BY <1>1, <1>2

(***************************************************************************)
(* The numbers of a set, one after the other.                              *)
(***************************************************************************)
LEMMA Ordered ==
    ASSUME NEW n \in Nat, NEW T \in SUBSET (1..n)
    PROVE  /\ IsSeq(InOrder(T)) /\ DOMAIN InOrder(T) = 1..Len(InOrder(T))
           /\ \A k \in 1..Len(InOrder(T)) : InOrder(T)[k] \in T
           /\ \A k, l \in 1..Len(InOrder(T)) : k < l => InOrder(T)[k] < InOrder(T)[l]
           /\ \A i \in T : \E k \in 1..Len(InOrder(T)) : InOrder(T)[k] = i
<1> DEFINE c == Cardinality(T)
           f == InOrder(T)
<1>1. c \in Nat /\ \E g : Increasing(g, T)
  BY Enumerated
<1>2. f \in [1..c -> T] /\ \A i, j \in 1..c : i < j => f[i] < f[j]
  <2>1. PICK g : Increasing(g, T)
    BY <1>1
  <2>2. g \in [1..c -> T] /\ \A i, j \in DOMAIN g : i < j => g[i] < g[j]
    BY <2>1 DEF Increasing
  <2>3. f \in [1..c -> T] /\ \A i, j \in DOMAIN f : i < j => f[i] < f[j]
    BY <2>2 DEF InOrder
  <2>4. QED
    BY <2>3
<1> HIDE DEF f
<1>5. \A i \in T : \E k \in 1..c : f[k] = i
  <2>1. Increasing(f, T)
    BY <1>2 DEF Increasing
  <2>2. QED
    BY <2>1, IncreasingOnto
<1>6. f = [k \in 1..c |-> f[k]]
  BY <1>2
<1>7. IsSeq(f) /\ Len(f) = c
  BY <1>1, <1>6, MappedSeq
<1>8. /\ DOMAIN f = 1..Len(f)
      /\ \A k \in 1..Len(f) : f[k] \in T
      /\ \A k, l \in 1..Len(f) : k < l => f[k] < f[l]
      /\ \A i \in T : \E k \in 1..Len(f) : f[k] = i
  BY <1>2, <1>5, <1>7
<1>9. QED
  BY <1>7, <1>8 DEF f

(***************************************************************************)
(* The least of some of the first n numbers.                               *)
(***************************************************************************)
LEMMA LeastOf ==
    ASSUME NEW n \in Nat, NEW T \in SUBSET (1..n), T # {}
    PROVE  Min(T) \in T /\ \A i \in T : Min(T) <= i
<1>1. PICK i \in T : TRUE
  OBVIOUS
<1>2. PICK k \in 1..Len(InOrder(T)) : InOrder(T)[k] = i
  BY <1>1, Ordered
<1>3. Len(InOrder(T)) \in Nat /\ 1 \in 1..Len(InOrder(T))
  BY <1>2, Ordered, SeqFacts
<1> DEFINE f == InOrder(T)
<1>4. /\ \A a \in 1..Len(f) : f[a] \in T
      /\ \A a, b \in 1..Len(f) : a < b => f[a] < f[b]
      /\ \A j \in T : \E a \in 1..Len(f) : f[a] = j
  BY Ordered
<1> HIDE DEF f
<1>5. f[1] \in T
  BY <1>3, <1>4 DEF f
<1>6. \A j \in T : f[1] <= j
  <2> SUFFICES ASSUME NEW j \in T PROVE f[1] <= j
    OBVIOUS
  <2>1. PICK a \in 1..Len(f) : f[a] = j
    BY <1>4
  <2>2. a = 1 \/ 1 < a
    BY <1>3 DEF f
  <2>3. CASE 1 < a
    <3>1. f[1] < f[a]
      BY <1>3, <1>4, <2>1, <2>3 DEF f
    <3>0. \A x \in T : x \in Nat
      OBVIOUS
    <3>2. f[1] \in Nat /\ f[a] \in Nat
      BY <1>5, <2>1, <3>0
    <3>3. QED
      BY <2>1, <3>1, <3>2
  <2>4. CASE a = 1
    BY <1>5, <2>1, <2>4
  <2>5. QED
    BY <2>2, <2>3, <2>4
<1>7. \E x \in T : \A y \in T : x <= y
  BY <1>5, <1>6
<1>8. QED
  BY <1>7 DEF Min

(***************************************************************************)
(* The members of a finite set, in some order.                             *)
(***************************************************************************)
LEMMA Listed ==
    ASSUME NEW S, IsFiniteSet(S)
    PROVE  /\ IsSeq(SetToSeq(S)) /\ DOMAIN SetToSeq(S) = 1..Len(SetToSeq(S))
           /\ \A k \in 1..Len(SetToSeq(S)) : SetToSeq(S)[k] \in S
           /\ \A k, l \in 1..Len(SetToSeq(S)) : SetToSeq(S)[k] = SetToSeq(S)[l] => k = l
           /\ \A x \in S : \E k \in 1..Len(SetToSeq(S)) : SetToSeq(S)[k] = x
<1> DEFINE c == Cardinality(S)
           f == SetToSeq(S)
<1>1. c \in Nat /\ ExistsBijection(1..c, S)
  BY FS_CardinalityType
<1>2. PICK g : g \in Bijection(1..c, S)
  BY <1>1 DEF ExistsBijection
<1>3. g \in [1..c -> S] /\ IsInjective(g)
  BY <1>2 DEF Bijection, Injection
<1>4. f \in [1..c -> S] /\ IsInjective(f)
  BY <1>3 DEF SetToSeq
<1> HIDE DEF f
<1>5. \A x \in S : \E k \in 1..c : f[k] = x
  <2>1. f \in Injection(1..c, S)
    BY <1>4 DEF Injection
  <2>2. Cardinality(1..c) = c
    BY <1>1, FS_Interval
  <2>3. f \in Surjection(1..c, S)
    BY <2>1, <2>2, FS_Injection
  <2>4. QED
    BY <2>3 DEF Surjection
<1>6. f = [k \in 1..c |-> f[k]]
  BY <1>4
<1>7. IsSeq(f) /\ Len(f) = c
  BY <1>1, <1>6, MappedSeq
<1>8. /\ DOMAIN f = 1..Len(f)
      /\ \A k \in 1..Len(f) : f[k] \in S
      /\ \A k, l \in 1..Len(f) : f[k] = f[l] => k = l
      /\ \A x \in S : \E k \in 1..Len(f) : f[k] = x
  BY <1>4, <1>5, <1>7 DEF IsInjective
<1>9. QED
  BY <1>7, <1>8 DEF f

(***************************************************************************)
(* A sequence turned round.                                                *)
(***************************************************************************)
LEMMA Turned ==
    ASSUME NEW s, IsSeq(s)
    PROVE  /\ IsSeq(Reverse(s)) /\ Len(Reverse(s)) = Len(s)
           /\ \A i \in 1..Len(s) : Reverse(s)[i] = s[(Len(s) - i) + 1]
<1>1. Len(s) \in Nat
  BY SeqFacts
<1>2. Reverse(s) = [i \in 1..Len(s) |-> s[(Len(s) - i) + 1]]
  BY DEF Reverse
<1>3. /\ \A i \in 1..Len(s) : Reverse(s)[i] = s[(Len(s) - i) + 1]
      /\ Reverse(s) = [i \in 1..Len(s) |-> Reverse(s)[i]]
  BY <1>2
<1>4. QED
  BY <1>1, <1>3, MappedSeq

(***************************************************************************)
(* Turned round twice it is itself.                                        *)
(***************************************************************************)
LEMMA TurnedTwice ==
    ASSUME NEW s, IsSeq(s)
    PROVE  Reverse(Reverse(s)) = s
<1> DEFINE r == Reverse(s)
           q == Reverse(r)
<1>1. IsSeq(r) /\ Len(r) = Len(s) /\ \A i \in 1..Len(s) : r[i] = s[(Len(s) - i) + 1]
  BY Turned
<1>2. Len(s) \in Nat
  BY SeqFacts
<1> HIDE DEF r
<1>3. IsSeq(q) /\ Len(q) = Len(s) /\ \A i \in 1..Len(s) : q[i] = r[(Len(s) - i) + 1]
  BY <1>1, Turned
<1> HIDE DEF q
<1>4. \A i \in 1..Len(s) : q[i] = s[i]
  <2> SUFFICES ASSUME NEW i \in 1..Len(s) PROVE q[i] = s[i]
    OBVIOUS
  <2> DEFINE j == (Len(s) - i) + 1
  <2>1. j \in 1..Len(s) /\ (Len(s) - j) + 1 = i
    BY <1>2
  <2> HIDE DEF j
  <2>2. r[j] = s[i]
    BY <1>1, <2>1
  <2>3. q[i] = r[j]
    BY <1>3 DEF j
  <2>4. QED
    BY <2>2, <2>3
<1>5. QED
  BY <1>1, <1>3, <1>4, SameSeq DEF q, r

-----------------------------------------------------------------------------
(* The tree, a level at a time *)

\* What a node gives way to.
Row(node, order) == IF IsWindowNode(node) THEN <<node>> ELSE Children(node, order)

Rows(nodes, order) == [n \in DOMAIN nodes |-> Row(nodes[n], order)]

(***************************************************************************)
(* Where each node comes from when a level gives way to the next.          *)
(***************************************************************************)
LEMMA Unfolds ==
    ASSUME NEW nodes, NEW order, IsSeq(nodes),
           \A n \in 1..Len(nodes) : IsSeq(Row(nodes[n], order))
    PROVE  /\ \A n \in 1..Len(nodes) : Rows(nodes, order)[n] = Row(nodes[n], order)
           /\ \E row, col : FlatTo(Rows(nodes, order), Len(nodes), Unfolded(nodes, order), row, col)
<1> DEFINE ss == Rows(nodes, order)
<1>1. Len(nodes) \in Nat /\ DOMAIN nodes = 1..Len(nodes)
  BY SeqFacts
<1>2. ss = [n \in 1..Len(nodes) |-> ss[n]] /\ \A n \in 1..Len(nodes) : ss[n] = Row(nodes[n], order)
  BY <1>1 DEF Rows
<1>3. Unfolded(nodes, order) = FlattenSeq(ss)
  BY DEF Unfolded, Rows, Row
<1> HIDE DEF ss
<1>4. IsSeq(ss) /\ Len(ss) = Len(nodes)
  BY <1>1, <1>2, MappedSeq
<1>5. \E row, col : FlatTo(ss, Len(ss), FlattenSeq(ss), row, col)
  BY <1>2, <1>4, Flattened
<1>6. QED
  BY <1>2, <1>3, <1>4, <1>5 DEF ss

(***************************************************************************)
(* The walk through a tree takes it apart in four steps.                   *)
(***************************************************************************)
LEMMA Levels ==
    ASSUME NEW tree, NEW order
    PROVE  Walked(tree, order) =
               Unfolded(Unfolded(Unfolded(Unfolded(<<tree>>, order), order), order), order)
<1> DEFINE U(s) == Unfolded(s, order)
           At(f, n) == IF n = 0 THEN <<tree>> ELSE U(f[n - 1])
           h == [n \in 0..4 |-> IF n = 0 THEN <<tree>>
                                ELSE IF n = 1 THEN U(<<tree>>)
                                ELSE IF n = 2 THEN U(U(<<tree>>))
                                ELSE IF n = 3 THEN U(U(U(<<tree>>)))
                                ELSE U(U(U(U(<<tree>>))))]
           L == CHOOSE f : f = [n \in 0..4 |-> At(f, n)]
<1>1. Walked(tree, order) = L[4]
  BY DEF Walked, TreeDepth
<1> HIDE DEF U
<1>2. \A n \in 0..4 : h[n] = At(h, n)
  <2>1. h[0] = <<tree>> /\ h[1] = U(h[0]) /\ h[2] = U(h[1]) /\ h[3] = U(h[2]) /\ h[4] = U(h[3])
    OBVIOUS
  <2> HIDE DEF h
  <2>2. \A n \in 0..4 : n = 0 \/ n = 1 \/ n = 2 \/ n = 3 \/ n = 4
    OBVIOUS
  <2>3. At(h, 0) = <<tree>> /\ At(h, 1) = U(h[0]) /\ At(h, 2) = U(h[1]) /\ At(h, 3) = U(h[2])
        /\ At(h, 4) = U(h[3])
    OBVIOUS
  <2> HIDE DEF At
  <2>4. QED
    BY <2>1, <2>2, <2>3
<1>3. h = [n \in 0..4 |-> h[n]]
  OBVIOUS
<1> HIDE DEF h
<1>4. h = [n \in 0..4 |-> At(h, n)]
  BY <1>2, <1>3
<1>5. L = [n \in 0..4 |-> At(L, n)]
  BY <1>4
<1> HIDE DEF L
<1>6. \A n \in 0..4 : L[n] = At(L, n)
  BY <1>5
<1>7. L[0] = <<tree>> /\ L[1] = U(L[0]) /\ L[2] = U(L[1]) /\ L[3] = U(L[2]) /\ L[4] = U(L[3])
  BY <1>6
<1>8. L[4] = U(U(U(U(<<tree>>))))
  BY <1>7
<1>9. QED
  BY <1>1, <1>8 DEF U

\* Names of the entries of the rows, and of the entries of the whole.
Distinct(ss, n, kk) ==
    \A i, j \in 1..n : \A c \in 1..Len(ss[i]) : \A d \in 1..Len(ss[j]) :
        kk[i][c] = kk[j][d] => i = j /\ c = d

Keyed(ss, n, flat, row, col, kk, key) ==
    /\ \A k, l \in 1..Len(flat) : key[k] = key[l] => k = l
    /\ \A k \in 1..Len(flat) : /\ key[k] = kk[row[k]][col[k]] /\ flat[k] = ss[row[k]][col[k]]
                              /\ row[k] \in 1..n /\ col[k] \in 1..Len(ss[row[k]])
    /\ \A i \in 1..n : \A c \in 1..Len(ss[i]) : \E k \in 1..Len(flat) : key[k] = kk[i][c]

(***************************************************************************)
(* What is told apart in the rows is told apart in the whole.              *)
(***************************************************************************)
LEMMA FlatKeyed ==
    ASSUME NEW ss, NEW n \in Nat, NEW flat, NEW row, NEW col, FlatTo(ss, n, flat, row, col),
           NEW kk, Distinct(ss, n, kk)
    PROVE  \E key : Keyed(ss, n, flat, row, col, kk, key)
<1> DEFINE key == [k \in 1..Len(flat) |-> kk[row[k]][col[k]]]
<1>1. Len(flat) \in Nat
  BY SeqFacts DEF FlatTo
<1>2. \A k \in 1..Len(flat) :
        /\ row[k] \in 1..n /\ col[k] \in 1..Len(ss[row[k]]) /\ flat[k] = ss[row[k]][col[k]]
        /\ key[k] = kk[row[k]][col[k]]
  BY DEF FlatTo
<1>3. ASSUME NEW k \in 1..Len(flat), NEW l \in 1..Len(flat), k < l
      PROVE  ~(row[k] = row[l] /\ col[k] = col[l])
  <2>1. row[k] < row[l] \/ (row[k] = row[l] /\ col[k] < col[l])
    BY <1>3 DEF FlatTo
  <2>2. row[k] \in Int /\ row[l] \in Int /\ col[k] \in Int /\ col[l] \in Int
    BY <1>2
  <2>3. QED
    BY <2>1, <2>2
<1>4. ASSUME NEW k \in 1..Len(flat), NEW l \in 1..Len(flat), key[k] = key[l]
      PROVE  k = l
  <2>1. kk[row[k]][col[k]] = kk[row[l]][col[l]]
    BY <1>2, <1>4
  <2> HIDE DEF key
  <2> DEFINE i == row[k]
             j == row[l]
             c == col[k]
             d == col[l]
  <2>a. i \in 1..n /\ j \in 1..n /\ c \in 1..Len(ss[i]) /\ d \in 1..Len(ss[j])
    BY <1>2
  <2>b. kk[i][c] = kk[j][d]
    BY <2>1
  <2> HIDE DEF i, j, c, d
  <2>c. i = j /\ c = d
    BY <2>a, <2>b DEF Distinct
  <2>2. row[k] = row[l] /\ col[k] = col[l]
    BY <2>c DEF i, j, c, d
  <2>3. ~(k < l) /\ ~(l < k)
    BY <1>3, <2>2
  <2>4. QED
    BY <1>1, <2>3
<1>5. \A i \in 1..n : \A c \in 1..Len(ss[i]) : \E k \in 1..Len(flat) : key[k] = kk[i][c]
  BY <1>2, SMTT(30) DEF FlatTo
<1> HIDE DEF key
<1>6. Keyed(ss, n, flat, row, col, kk, key)
  BY <1>2, <1>4, <1>5 DEF Keyed
<1>7. QED
  BY <1>6

(***************************************************************************)
(* Nothing before or behind a sequence.                                    *)
(***************************************************************************)
LEMMA JoinedNothing ==
    ASSUME NEW s, IsSeq(s)
    PROVE  <<>> \o s = s /\ s \o <<>> = s /\ Reverse(<<>>) = <<>>
<1>1. PICK S : s \in Seq(S)
  BY DEF IsSeq
<1>2. <<>> \o s = s /\ s \o <<>> = s
  BY <1>1, ConcatEmptySeq
<1>3. IsSeq(Reverse(<<>>)) /\ Len(Reverse(<<>>)) = 0
  BY Turned, EmptyIsSeq
<1>4. QED
  BY <1>2, <1>3, SeqFacts

Fits(m) == desk \in Desks /\ m \in Layouts(desk)

(***************************************************************************)
(* What a desk and a layout of it are.                                     *)
(***************************************************************************)
LEMMA Fitted ==
    ASSUME NEW m, Fits(m)
    PROVE  /\ IsFiniteSet(Plugged(m)) /\ Plugged(m) \subseteq Outs /\ None \notin Outs
           /\ \A o \in Outs : desk.outputs[o].area \in Rects
           /\ Len(desk.layout.home) \in Nat /\ DOMAIN m.home = 1..Len(desk.layout.home)
           /\ \A ws \in DOMAIN m.home : m.home[ws] \in Plugged(m)
           /\ Len(desk.windows) \in Nat /\ DOMAIN desk.windows = 1..Len(desk.windows)
           /\ \A i \in DOMAIN desk.windows :
                /\ desk.windows[i].ws \in DOMAIN m.home /\ desk.windows[i].rect \in Rects
                /\ desk.windows[i].floating \in BOOLEAN /\ desk.windows[i].id # None
                /\ desk.windows[i].hidden \in BOOLEAN /\ desk.windows[i].pinned \in BOOLEAN
                /\ desk.windows[i].full \in BOOLEAN /\ desk.windows[i].inView \in BOOLEAN
                /\ desk.windows[i].mapped \in BOOLEAN
                /\ desk.backend # "hyprland" => desk.windows[i].mapped
                /\ \A j \in DOMAIN desk.windows : desk.windows[j].id = desk.windows[i].id => j = i
<1>1. OutputsOK(desk) /\ LayoutOK(desk) /\ WindowsOK(desk)
  BY DeskAssumption DEF Fits
<1>2. /\ m.home \in [DOMAIN desk.layout.home -> Outs]
      /\ \A ws \in DOMAIN desk.layout.home : m.shows[m.home[ws]] # 0
  BY DEF Fits, Layouts, Outs
<1>3. Len(desk.windows) \in Nat /\ DOMAIN desk.windows = 1..Len(desk.windows)
  BY <1>1, LenProperties DEF WindowsOK
<1>4. \A i \in DOMAIN desk.windows :
        LET w == desk.windows[i]
        IN /\ w.id # None /\ w.rect \in Rects /\ w.ws \in DOMAIN desk.layout.home
           /\ {w.floating, w.full, w.pinned, w.mapped, w.hidden, w.inView} \subseteq BOOLEAN
           /\ desk.backend # "hyprland" => w.mapped
           /\ \A j \in DOMAIN desk.windows : desk.windows[j].id = w.id => j = i
  BY <1>1 DEF WindowsOK
<1>5. Len(desk.layout.home) \in Nat /\ DOMAIN desk.layout.home = 1..Len(desk.layout.home)
  BY <1>1 DEF LayoutOK
<1>6. IsFiniteSet(Outs) /\ None \notin Outs /\ \A o \in Outs : desk.outputs[o].area \in Rects
  BY <1>1 DEF OutputsOK, Outs
<1>7. /\ DOMAIN m.home = DOMAIN desk.layout.home
      /\ \A ws \in DOMAIN m.home : m.home[ws] \in Plugged(m)
  BY <1>2 DEF Plugged
<1>8. Plugged(m) \subseteq Outs /\ IsFiniteSet(Plugged(m))
  BY <1>6, FS_Subset DEF Plugged
<1>9. \A i \in DOMAIN desk.windows :
        /\ desk.windows[i].ws \in DOMAIN m.home /\ desk.windows[i].rect \in Rects
        /\ desk.windows[i].floating \in BOOLEAN /\ desk.windows[i].id # None
        /\ desk.windows[i].hidden \in BOOLEAN /\ desk.windows[i].pinned \in BOOLEAN
        /\ desk.windows[i].full \in BOOLEAN /\ desk.windows[i].inView \in BOOLEAN
        /\ desk.windows[i].mapped \in BOOLEAN
        /\ desk.backend # "hyprland" => desk.windows[i].mapped
        /\ \A j \in DOMAIN desk.windows : desk.windows[j].id = desk.windows[i].id => j = i
  BY <1>4, <1>7
<1>10. QED
  BY <1>3, <1>5, <1>6, <1>7, <1>8, <1>9

(***************************************************************************)
(* What an output shows is on it.                                          *)
(***************************************************************************)
LEMMA Placings ==
    ASSUME NEW m, Fits(m), NEW o \in Outs
    PROVE  /\ m.shows[o] # 0 => m.home[m.shows[o]] = o
           /\ m.special[o] # 0 => m.home[m.special[o]] = o
<1>1. m \in Layouts(desk)
  BY DEF Fits
<1>2. QED
  BY <1>1 DEF Layouts, Outs

\* The windows of a workspace, by their places on the desk.
Spots(ws, floating) ==
    InOrder({i \in DOMAIN desk.windows :
                desk.windows[i].ws = ws /\ desk.windows[i].floating = floating})

(***************************************************************************)
(* The leaves of a workspace are its windows, front to back.               *)
(***************************************************************************)
LEMMA Leaves ==
    ASSUME NEW m, Fits(m), NEW ws, NEW floating
    PROVE  LET spots == Spots(ws, floating)
               leaves == OnWorkspace(m, ws, floating)
           IN /\ IsSeq(leaves) /\ Len(leaves) = Len(spots) /\ Len(spots) \in Nat
              /\ \A n \in 1..Len(spots) :
                    /\ spots[n] \in DOMAIN desk.windows
                    /\ desk.windows[spots[n]].ws = ws /\ desk.windows[spots[n]].floating = floating
                    /\ leaves[n] = Leaf(m, desk.windows[spots[n]])
              /\ \A k, l \in 1..Len(spots) : k < l => spots[k] < spots[l]
              /\ \A i \in DOMAIN desk.windows :
                    desk.windows[i].ws = ws /\ desk.windows[i].floating = floating
                    => \E k \in 1..Len(spots) : spots[k] = i
<1> DEFINE T == {i \in DOMAIN desk.windows :
                    desk.windows[i].ws = ws /\ desk.windows[i].floating = floating}
           spots == Spots(ws, floating)
           leaves == OnWorkspace(m, ws, floating)
<1>1. Len(desk.windows) \in Nat /\ T \in SUBSET (1..Len(desk.windows))
  BY Fitted
<1> HIDE DEF T
<1>2. spots = InOrder(T)
  BY DEF Spots, T
<1>3. /\ IsSeq(spots) /\ DOMAIN spots = 1..Len(spots)
      /\ \A k \in 1..Len(spots) : spots[k] \in T
      /\ \A k, l \in 1..Len(spots) : k < l => spots[k] < spots[l]
      /\ \A i \in T : \E k \in 1..Len(spots) : spots[k] = i
  BY <1>1, <1>2, Ordered
<1>4. leaves = [n \in DOMAIN spots |-> Leaf(m, desk.windows[spots[n]])]
  BY DEF OnWorkspace, Spots
<1> HIDE DEF spots, leaves
<1>5. Len(spots) \in Nat
  BY <1>3, SeqFacts
<1>6. /\ leaves = [n \in 1..Len(spots) |-> leaves[n]]
      /\ \A n \in 1..Len(spots) : leaves[n] = Leaf(m, desk.windows[spots[n]])
  BY <1>3, <1>4
<1>7. IsSeq(leaves) /\ Len(leaves) = Len(spots)
  BY <1>5, <1>6, MappedSeq
<1>8. \A i : i \in T <=> /\ i \in DOMAIN desk.windows /\ desk.windows[i].ws = ws
                         /\ desk.windows[i].floating = floating
  BY DEF T
<1>9. QED
  BY <1>3, <1>5, <1>6, <1>7, <1>8 DEF spots, leaves

(***************************************************************************)
(* A window's node gives way to itself.                                    *)
(***************************************************************************)
LEMMA LeafRow ==
    ASSUME NEW m, NEW w, NEW order
    PROVE  Row(Leaf(m, w), order) = <<Leaf(m, w)>>
  BY DEF Row, Leaf, IsWindowNode

(***************************************************************************)
(* Any other gives way to what it holds: for a list what floats first, the *)
(* last first.                                                             *)
(***************************************************************************)
LEMMA BranchRow ==
    ASSUME NEW type, NEW nodes, NEW floating, NEW order
    PROVE  /\ order = "list" =>
                Row(Branch(type, nodes, floating), order) = Reverse(floating) \o nodes
           /\ order # "list" =>
                Row(Branch(type, nodes, floating), order) = nodes \o floating
<1>1. ~IsWindowNode(Branch(type, nodes, floating))
  BY DEF IsWindowNode, Branch
<1>2. /\ Branch(type, nodes, floating).nodes = nodes
      /\ Branch(type, nodes, floating).floating_nodes = floating
  BY DEF Branch
<1>3. QED
  BY <1>1, <1>2 DEF Row, Children

(***************************************************************************)
(* Where nothing floats that is what it holds.                             *)
(***************************************************************************)
LEMMA PlainRow ==
    ASSUME NEW type, NEW nodes, NEW order, IsSeq(nodes)
    PROVE  Row(Branch(type, nodes, <<>>), order) = nodes
<1> DEFINE none == <<>>
<1>1. <<>> \o nodes = nodes /\ nodes \o <<>> = nodes /\ Reverse(<<>>) = <<>>
  BY JoinedNothing
<1>2. none \o nodes = nodes /\ nodes \o none = nodes /\ Reverse(none) = none
  BY <1>1
<1> HIDE DEF none
<1>3. /\ order = "list" => Row(Branch(type, nodes, none), order) = Reverse(none) \o nodes
      /\ order # "list" => Row(Branch(type, nodes, none), order) = nodes \o none
  BY BranchRow
<1>4. Row(Branch(type, nodes, none), order) = nodes
  BY <1>2, <1>3
<1>5. QED
  BY <1>4 DEF none

\* A level of the tree: the nodes of the outputs, or of the workspaces, each once.
OutputLevel(m, s, key) ==
    /\ IsSeq(s)
    /\ \A k \in 1..Len(s) : key[k] \in Plugged(m) /\ s[k] = OutputNode(m, key[k])
    /\ \A k, l \in 1..Len(s) : key[k] = key[l] => k = l
    /\ \A o \in Plugged(m) : \E k \in 1..Len(s) : key[k] = o

SpaceLevel(m, s, key) ==
    /\ IsSeq(s)
    /\ \A k \in 1..Len(s) : key[k] \in DOMAIN m.home /\ s[k] = WorkspaceNode(m, key[k])
    /\ \A k, l \in 1..Len(s) : key[k] = key[l] => k = l
    /\ \A ws \in DOMAIN m.home : \E k \in 1..Len(s) : key[k] = ws

(***************************************************************************)
(* Under the root are the outputs.                                         *)
(***************************************************************************)
LEMMA UnderRoot ==
    ASSUME NEW m, Fits(m), NEW order
    PROVE  \E key : OutputLevel(m, Unfolded(<<Tree(m)>>, order), key)
<1> DEFINE outs == SetToSeq(Plugged(m))
           nodes == [n \in DOMAIN outs |-> OutputNode(m, outs[n])]
           root == <<Tree(m)>>
           s == Unfolded(root, order)
           ss == Rows(root, order)
<1>1. /\ IsSeq(outs) /\ DOMAIN outs = 1..Len(outs)
      /\ \A k \in 1..Len(outs) : outs[k] \in Plugged(m)
      /\ \A k, l \in 1..Len(outs) : outs[k] = outs[l] => k = l
      /\ \A o \in Plugged(m) : \E k \in 1..Len(outs) : outs[k] = o
  BY Fitted, Listed
<1>2. Tree(m) = Branch("root", nodes, <<>>)
  BY DEF Tree
<1> HIDE DEF outs
<1>3. /\ IsSeq(nodes) /\ Len(nodes) = Len(outs)
      /\ \A n \in 1..Len(outs) : nodes[n] = OutputNode(m, outs[n])
  <2>1. Len(outs) \in Nat
    BY <1>1, SeqFacts
  <2>2. /\ nodes = [n \in 1..Len(outs) |-> nodes[n]]
        /\ \A n \in 1..Len(outs) : nodes[n] = OutputNode(m, outs[n])
    BY <1>1
  <2> HIDE DEF nodes
  <2>3. QED
    BY <2>1, <2>2, MappedSeq
<1> HIDE DEF nodes
<1>4. Row(Tree(m), order) = nodes
  <2>1. Row(Branch("root", nodes, <<>>), order) = nodes
    BY <1>3, PlainRow
  <2>2. QED
    BY <1>2, <2>1
<1>5. IsSeq(root) /\ Len(root) = 1 /\ root[1] = Tree(m)
  <2>1. root \in Seq({Tree(m)}) /\ Len(root) = 1 /\ root[1] = Tree(m)
    OBVIOUS
  <2>2. QED
    BY <2>1 DEF IsSeq
<1> HIDE DEF root
<1>6. \A n \in 1..Len(root) : root[n] = Tree(m)
  BY <1>5
<1>7. /\ \A n \in 1..Len(root) : ss[n] = nodes
      /\ \E row, col : FlatTo(ss, Len(root), s, row, col)
  <2>1. \A n \in 1..Len(root) : IsSeq(Row(root[n], order))
    BY <1>3, <1>4, <1>6
  <2>2. /\ \A n \in 1..Len(root) : ss[n] = Row(root[n], order)
        /\ \E row, col : FlatTo(ss, Len(root), s, row, col)
    BY <1>5, <2>1, Unfolds
  <2> HIDE DEF s, ss
  <2>3. QED
    BY <1>4, <1>6, <2>2
<1> HIDE DEF s, ss
<1>8. PICK row, col : FlatTo(ss, 1, s, row, col)
  BY <1>5, <1>7
<1>9. ss[1] = nodes
  BY <1>5, <1>7
<1> DEFINE kk == [i \in 1..1 |-> outs]
<1>10. Distinct(ss, 1, kk)
  <2>1. \A i \in 1..1 : kk[i] = outs /\ ss[i] = nodes /\ i = 1
    BY <1>9
  <2> HIDE DEF kk
  <2>2. QED
    BY <1>1, <1>3, <2>1 DEF Distinct
<1>11. kk[1] = outs
  OBVIOUS
<1> HIDE DEF kk
<1>12. PICK key : Keyed(ss, 1, s, row, col, kk, key)
  <2>1. 1 \in Nat
    OBVIOUS
  <2>2. QED
    BY <1>8, <1>10, <2>1, FlatKeyed
<1>13. \A k \in 1..Len(s) : key[k] \in Plugged(m) /\ s[k] = OutputNode(m, key[k])
  <2> SUFFICES ASSUME NEW k \in 1..Len(s) PROVE key[k] \in Plugged(m) /\ s[k] = OutputNode(m, key[k])
    OBVIOUS
  <2>1. row[k] = 1 /\ col[k] \in 1..Len(outs)
    BY <1>3, <1>9, <1>12 DEF Keyed
  <2>2. key[k] = outs[col[k]] /\ s[k] = nodes[col[k]]
    BY <1>9, <1>11, <1>12, <2>1 DEF Keyed
  <2>3. QED
    BY <1>1, <1>3, <2>1, <2>2
<1>14. \A o \in Plugged(m) : \E k \in 1..Len(s) : key[k] = o
  <2> SUFFICES ASSUME NEW o \in Plugged(m) PROVE \E k \in 1..Len(s) : key[k] = o
    OBVIOUS
  <2>1. PICK c \in 1..Len(outs) : outs[c] = o
    BY <1>1
  <2>2. c \in 1..Len(ss[1]) /\ kk[1][c] = o /\ 1 \in 1..1
    BY <1>3, <1>9, <1>11, <2>1
  <2>3. QED
    BY <1>12, <2>2 DEF Keyed
<1>15. IsSeq(s)
  BY <1>8 DEF FlatTo
<1>16. OutputLevel(m, s, key)
  BY <1>12, <1>13, <1>14, <1>15 DEF OutputLevel, Keyed
<1>17. QED
  BY <1>16 DEF s, root

(***************************************************************************)
(* Under the outputs are the workspaces.                                   *)
(***************************************************************************)
LEMMA UnderOutputs ==
    ASSUME NEW m, Fits(m), NEW order, NEW nodes, NEW on, OutputLevel(m, nodes, on)
    PROVE  \E key : SpaceLevel(m, Unfolded(nodes, order), key)
<1> DEFINE Home(o) == InOrder({ws \in DOMAIN m.home : m.home[ws] = o})
           Kids(o) == [n \in DOMAIN Home(o) |-> WorkspaceNode(m, Home(o)[n])]
           s == Unfolded(nodes, order)
           ss == Rows(nodes, order)
           N == Len(nodes)
<1>0. /\ IsSeq(nodes)
      /\ \A k \in 1..N : on[k] \in Plugged(m) /\ nodes[k] = OutputNode(m, on[k])
      /\ \A k, l \in 1..N : on[k] = on[l] => k = l
      /\ \A o \in Plugged(m) : \E k \in 1..N : on[k] = o
  BY DEF OutputLevel
<1>1. ASSUME NEW o \in Plugged(m)
      PROVE  /\ IsSeq(Home(o)) /\ DOMAIN Home(o) = 1..Len(Home(o))
             /\ \A k \in 1..Len(Home(o)) : Home(o)[k] \in DOMAIN m.home /\ m.home[Home(o)[k]] = o
             /\ \A k, l \in 1..Len(Home(o)) : Home(o)[k] = Home(o)[l] => k = l
             /\ \A ws \in DOMAIN m.home :
                    m.home[ws] = o => \E k \in 1..Len(Home(o)) : Home(o)[k] = ws
  <2> DEFINE T == {ws \in DOMAIN m.home : m.home[ws] = o}
             n == Len(desk.layout.home)
  <2>1. n \in Nat /\ T \in SUBSET (1..n)
    BY Fitted
  <2>2. \A ws : ws \in T <=> ws \in DOMAIN m.home /\ m.home[ws] = o
    OBVIOUS
  <2>3. Home(o) = InOrder(T)
    OBVIOUS
  <2> HIDE DEF T, Home
  <2>4. /\ IsSeq(Home(o)) /\ DOMAIN Home(o) = 1..Len(Home(o))
        /\ \A k \in 1..Len(Home(o)) : Home(o)[k] \in T
        /\ \A k, l \in 1..Len(Home(o)) : k < l => Home(o)[k] < Home(o)[l]
        /\ \A i \in T : \E k \in 1..Len(Home(o)) : Home(o)[k] = i
    BY <2>1, <2>3, Ordered
  <2>5. Len(Home(o)) \in Nat
    BY <2>4, SeqFacts
  <2>6. \A k \in 1..Len(Home(o)) : Home(o)[k] \in Nat
    <3>1. \A x \in T : x \in Nat
      BY <2>1
    <3>2. QED
      BY <2>4, <3>1
  <2>7. \A k, l \in 1..Len(Home(o)) : Home(o)[k] = Home(o)[l] => k = l
    <3> SUFFICES ASSUME NEW k \in 1..Len(Home(o)), NEW l \in 1..Len(Home(o)),
                        Home(o)[k] = Home(o)[l]
                 PROVE  k = l
      OBVIOUS
    <3>1. ~(k < l) /\ ~(l < k)
      BY <2>4, <2>6
    <3>2. QED
      BY <2>5, <3>1
  <2>8. QED
    BY <2>2, <2>4, <2>7
<1> HIDE DEF Home
<1>2. ASSUME NEW o \in Plugged(m)
      PROVE  /\ IsSeq(Kids(o)) /\ Len(Kids(o)) = Len(Home(o))
             /\ \A n \in 1..Len(Home(o)) : Kids(o)[n] = WorkspaceNode(m, Home(o)[n])
             /\ Row(OutputNode(m, o), order) = Kids(o)
  <2>1. Len(Home(o)) \in Nat
    BY <1>1, SeqFacts
  <2>2. /\ Kids(o) = [n \in 1..Len(Home(o)) |-> Kids(o)[n]]
        /\ \A n \in 1..Len(Home(o)) : Kids(o)[n] = WorkspaceNode(m, Home(o)[n])
    BY <1>1
  <2>3. OutputNode(m, o) = Branch("output", Kids(o), <<>>)
    BY DEF OutputNode, Home
  <2> HIDE DEF Kids
  <2>4. IsSeq(Kids(o)) /\ Len(Kids(o)) = Len(Home(o))
    BY <2>1, <2>2, MappedSeq
  <2>5. Row(Branch("output", Kids(o), <<>>), order) = Kids(o)
    BY <2>4, PlainRow
  <2>6. QED
    BY <2>2, <2>3, <2>4, <2>5
<1> HIDE DEF Kids
<1>3. /\ \A n \in 1..N : ss[n] = Kids(on[n])
      /\ \E row, col : FlatTo(ss, N, s, row, col)
  <2>1. \A n \in 1..N : Row(nodes[n], order) = Kids(on[n]) /\ IsSeq(Kids(on[n]))
    BY <1>0, <1>2
  <2>2. \A n \in 1..N : IsSeq(Row(nodes[n], order))
    BY <2>1
  <2>3. /\ \A n \in 1..N : ss[n] = Row(nodes[n], order)
        /\ \E row, col : FlatTo(ss, N, s, row, col)
    BY <1>0, <2>2, Unfolds
  <2> HIDE DEF s, ss
  <2>4. QED
    BY <2>1, <2>3
<1>n. N \in Nat
  BY <1>0, SeqFacts
<1> HIDE DEF s, ss, N
<1>4. PICK row, col : FlatTo(ss, N, s, row, col)
  BY <1>3
<1> DEFINE kk == [i \in 1..N |-> Home(on[i])]
<1>5. \A i \in 1..N : /\ kk[i] = Home(on[i]) /\ on[i] \in Plugged(m)
                      /\ Len(ss[i]) = Len(Home(on[i]))
                      /\ \A n \in 1..Len(ss[i]) : ss[i][n] = WorkspaceNode(m, Home(on[i])[n])
  BY <1>0, <1>2, <1>3 DEF N
<1> HIDE DEF kk
<1>6. Distinct(ss, N, kk)
  <2> SUFFICES ASSUME NEW i \in 1..N, NEW j \in 1..N, NEW c \in 1..Len(ss[i]),
                      NEW d \in 1..Len(ss[j]), kk[i][c] = kk[j][d]
               PROVE  i = j /\ c = d
    BY DEF Distinct
  <2>1. Home(on[i])[c] = Home(on[j])[d]
    BY <1>5
  <2>2. m.home[Home(on[i])[c]] = on[i] /\ m.home[Home(on[j])[d]] = on[j]
    BY <1>1, <1>5
  <2>3. i = j
    BY <1>0, <2>1, <2>2 DEF N
  <2>4. QED
    BY <1>1, <1>5, <2>1, <2>3
<1>7. PICK key : Keyed(ss, N, s, row, col, kk, key)
  BY <1>4, <1>6, <1>n, FlatKeyed
<1>8. \A k \in 1..Len(s) : key[k] \in DOMAIN m.home /\ s[k] = WorkspaceNode(m, key[k])
  <2> SUFFICES ASSUME NEW k \in 1..Len(s)
               PROVE  key[k] \in DOMAIN m.home /\ s[k] = WorkspaceNode(m, key[k])
    OBVIOUS
  <2> DEFINE i == row[k]
             c == col[k]
  <2>1. /\ i \in 1..N /\ c \in 1..Len(ss[i]) /\ key[k] = kk[i][c] /\ s[k] = ss[i][c]
    BY <1>7 DEF Keyed
  <2> HIDE DEF i, c
  <2>2. key[k] = Home(on[i])[c] /\ s[k] = WorkspaceNode(m, Home(on[i])[c])
    BY <1>5, <2>1
  <2>3. Home(on[i])[c] \in DOMAIN m.home
    BY <1>1, <1>5, <2>1
  <2>4. QED
    BY <2>2, <2>3
<1>9. \A ws \in DOMAIN m.home : \E k \in 1..Len(s) : key[k] = ws
  <2> SUFFICES ASSUME NEW ws \in DOMAIN m.home PROVE \E k \in 1..Len(s) : key[k] = ws
    OBVIOUS
  <2>1. m.home[ws] \in Plugged(m)
    BY Fitted
  <2>2. PICK i \in 1..N : on[i] = m.home[ws]
    BY <1>0, <2>1 DEF N
  <2>3. PICK c \in 1..Len(Home(on[i])) : Home(on[i])[c] = ws
    BY <1>1, <2>1, <2>2
  <2>4. c \in 1..Len(ss[i]) /\ kk[i][c] = ws
    BY <1>5, <2>3
  <2>5. QED
    BY <1>7, <2>4, SMTT(30) DEF Keyed
<1>10. IsSeq(s)
  BY <1>4 DEF FlatTo
<1>11. SpaceLevel(m, s, key)
  BY <1>7, <1>8, <1>9, <1>10 DEF SpaceLevel, Keyed
<1>12. QED
  BY <1>11 DEF s

\* What hangs from a workspace: its floating windows, and the container of the others.
Container(m, ws) == Branch("con", OnWorkspace(m, ws, FALSE), <<>>)

Item(m, ws, c) ==
    IF c <= Len(Spots(ws, TRUE)) THEN Leaf(m, desk.windows[Spots(ws, TRUE)[c]])
    ELSE Container(m, ws)

Items(ws) == Len(Spots(ws, TRUE)) + 1

\* The row of a workspace: its items, each once, and for the list as they are numbered.
SpaceRow(m, ws, order, p) ==
    LET row == Row(WorkspaceNode(m, ws), order)
    IN /\ IsSeq(row) /\ Len(row) = Items(ws)
       /\ \A c \in 1..Items(ws) : p[c] \in 1..Items(ws) /\ row[c] = Item(m, ws, p[c])
       /\ \A d \in 1..Items(ws) : \E c \in 1..Items(ws) : p[c] = d
       /\ order = "list" => \A c \in 1..Items(ws) : p[c] = c

(***************************************************************************)
(* A workspace gives way to its items.                                     *)
(***************************************************************************)
LEMMA SpaceRowed ==
    ASSUME NEW m, Fits(m), NEW ws, NEW order
    PROVE  \E p : SpaceRow(m, ws, order, p)
<1> DEFINE F == OnWorkspace(m, ws, TRUE)
           f == Len(Spots(ws, TRUE))
           con == Container(m, ws)
           one == <<con>>
           back == Reverse(F)
           row == Row(WorkspaceNode(m, ws), order)
           sf == Spots(ws, TRUE)
<1>1. /\ IsSeq(F) /\ Len(F) = f /\ f \in Nat /\ f = Len(sf)
      /\ \A c \in 1..f : F[c] = Leaf(m, desk.windows[sf[c]])
  <2> DEFINE up == TRUE
  <2>1. sf = Spots(ws, up) /\ F = OnWorkspace(m, ws, up)
    OBVIOUS
  <2> HIDE DEF up, sf, F
  <2>2. /\ IsSeq(F) /\ Len(F) = Len(sf) /\ Len(sf) \in Nat
        /\ \A c \in 1..Len(sf) : F[c] = Leaf(m, desk.windows[sf[c]])
    BY <2>1, Leaves
  <2>3. f = Len(sf)
    BY DEF sf
  <2> HIDE DEF f
  <2>4. QED
    BY <2>2, <2>3
<1>a. \A c : Item(m, ws, c) = IF c <= f THEN Leaf(m, desk.windows[sf[c]]) ELSE con
  BY DEF Item
<1> HIDE DEF sf
<1>2. WorkspaceNode(m, ws) = Branch("workspace", one, back)
  BY DEF WorkspaceNode, Container
<1> HIDE DEF F
<1>3. IsSeq(one) /\ Len(one) = 1 /\ one[1] = con
  <2>1. one \in Seq({con}) /\ Len(one) = 1 /\ one[1] = con
    OBVIOUS
  <2>2. QED
    BY <2>1 DEF IsSeq
<1> HIDE DEF one, con
<1>4. /\ IsSeq(back) /\ Len(back) = f /\ Reverse(back) = F
      /\ \A c \in 1..f : back[c] = F[(f - c) + 1]
  BY <1>1, Turned, TurnedTwice
<1> HIDE DEF back
<1>5. /\ order = "list" => row = F \o one
      /\ order # "list" => row = one \o back
  BY <1>2, <1>4, BranchRow
<1> HIDE DEF row
<1> HIDE DEF f
<1>6. \A c \in 1..f : Item(m, ws, c) = F[c]
  BY <1>1, <1>a
<1>7. Item(m, ws, f + 1) = con
  BY <1>1, <1>a
<1>8. CASE order = "list"
  <2> DEFINE p == [c \in 1..(f + 1) |-> c]
  <2>1. /\ IsSeq(row) /\ Len(row) = f + 1 /\ row[f + 1] = con
        /\ \A c \in 1..f : row[c] = F[c]
    <3>1. row = F \o one
      BY <1>5, <1>8
    <3>q. IsSeq(F) /\ IsSeq(one)
      BY <1>1, <1>3
    <3>2. /\ IsSeq(F \o one) /\ Len(F \o one) = Len(F) + Len(one)
          /\ \A i \in 1..Len(F) : (F \o one)[i] = F[i]
          /\ \A i \in 1..Len(one) : (F \o one)[Len(F) + i] = one[i]
      BY <3>q, JoinedSeq
    <3>3. /\ IsSeq(row) /\ Len(row) = f + 1 /\ row[f + 1] = one[1]
          /\ \A c \in 1..f : row[c] = F[c]
      BY <1>1, <1>3, <3>1, <3>2
    <3>4. QED
      BY <1>3, <3>3
  <2>2. \A c \in 1..(f + 1) : row[c] = Item(m, ws, c)
    <3>1. \A c \in 1..(f + 1) : c \in 1..f \/ c = f + 1
      BY <1>1
    <3>2. QED
      BY <1>6, <1>7, <2>1, <3>1
  <2>3. \A c \in 1..(f + 1) : p[c] = c
    OBVIOUS
  <2> HIDE DEF p
  <2>4. SpaceRow(m, ws, order, p)
    BY <2>1, <2>2, <2>3 DEF SpaceRow, Items, f, row
  <2>5. QED
    BY <2>4
<1>9. CASE order # "list"
  <2> DEFINE p == [c \in 1..(f + 1) |-> IF c = 1 THEN f + 1 ELSE (f - c) + 2]
  <2>1. row = one \o back
    BY <1>5, <1>9
  <2>2. /\ IsSeq(row) /\ Len(row) = 1 + f /\ row[1] = one[1]
        /\ \A i \in 1..f : row[1 + i] = back[i]
    <3>q. IsSeq(one) /\ IsSeq(back)
      BY <1>3, <1>4
    <3>1. /\ IsSeq(one \o back) /\ Len(one \o back) = Len(one) + Len(back)
          /\ \A i \in 1..Len(one) : (one \o back)[i] = one[i]
          /\ \A i \in 1..Len(back) : (one \o back)[Len(one) + i] = back[i]
      BY <3>q, JoinedSeq
    <3>2. QED
      BY <1>1, <1>3, <1>4, <2>1, <3>1
  <2>3. \A c \in 1..(f + 1) : p[c] \in 1..(f + 1) /\ row[c] = Item(m, ws, p[c])
    <3> SUFFICES ASSUME NEW c \in 1..(f + 1)
                 PROVE  p[c] \in 1..(f + 1) /\ row[c] = Item(m, ws, p[c])
      OBVIOUS
    <3>1. CASE c = 1
      <4>1. QED
        BY <1>1, <1>3, <1>7, <2>2, <3>1
    <3>2. CASE c # 1
      <4> DEFINE i == c - 1
                 j == (f - i) + 1
      <4>1. i \in 1..f /\ 1 + i = c /\ j \in 1..f /\ p[c] = j
        BY <1>1, <3>2
      <4> HIDE DEF p, i
      <4>2. row[1 + i] = back[i] /\ back[i] = F[j]
        BY <1>4, <2>2, <4>1
      <4> HIDE DEF j
      <4>3. F[j] = Item(m, ws, j) /\ j \in 1..(f + 1)
        BY <1>1, <1>6, <4>1
      <4>4. QED
        BY <4>1, <4>2, <4>3
    <3>3. QED
      BY <3>1, <3>2
  <2>4. \A d \in 1..(f + 1) : \E c \in 1..(f + 1) : p[c] = d
    <3> SUFFICES ASSUME NEW d \in 1..(f + 1) PROVE \E c \in 1..(f + 1) : p[c] = d
      OBVIOUS
    <3>1. CASE d = f + 1
      <4>1. 1 \in 1..(f + 1) /\ p[1] = d
        BY <1>1, <3>1
      <4>2. QED
        BY <4>1
    <3>2. CASE d # f + 1
      <4>1. (f - d) + 2 \in 1..(f + 1) /\ p[(f - d) + 2] = d
        BY <1>1, <3>2
      <4>2. QED
        BY <4>1
    <3>3. QED
      BY <3>1, <3>2
  <2> HIDE DEF p
  <2>5. Len(row) = f + 1
    BY <1>1, <2>2
  <2>6. SpaceRow(m, ws, order, p)
    BY <1>9, <2>2, <2>3, <2>4, <2>5 DEF SpaceRow, Items, f, row
  <2>7. QED
    BY <2>6
<1>10. QED
  BY <1>8, <1>9

\* The third level: the items of every workspace, for the list one after the other.
ItemLevel(m, order, s, sp, pos) ==
    /\ IsSeq(s)
    /\ \A k \in 1..Len(s) : /\ sp[k] \in DOMAIN m.home /\ pos[k] \in 1..Items(sp[k])
                            /\ s[k] = Item(m, sp[k], pos[k])
    /\ \A ws \in DOMAIN m.home : \A c \in 1..Items(ws) :
        \E k \in 1..Len(s) : sp[k] = ws /\ pos[k] = c
    /\ order = "list" =>
        \A k, l \in 1..Len(s) : k < l /\ sp[k] = sp[l] => pos[k] < pos[l]

(***************************************************************************)
(* Under the workspaces are their items.                                   *)
(***************************************************************************)
LEMMA UnderSpaces ==
    ASSUME NEW m, Fits(m), NEW order, NEW nodes, NEW of, SpaceLevel(m, nodes, of)
    PROVE  \E sp, pos : ItemLevel(m, order, Unfolded(nodes, order), sp, pos)
<1> DEFINE s == Unfolded(nodes, order)
           ss == Rows(nodes, order)
           N == Len(nodes)
           P == [i \in 1..N |-> CHOOSE p : SpaceRow(m, of[i], order, p)]
<1>1. /\ IsSeq(nodes)
      /\ \A k \in 1..N : of[k] \in DOMAIN m.home /\ nodes[k] = WorkspaceNode(m, of[k])
      /\ \A k, l \in 1..N : of[k] = of[l] => k = l
      /\ \A ws \in DOMAIN m.home : \E k \in 1..N : of[k] = ws
  BY DEF SpaceLevel
<1>2. \A i \in 1..N : SpaceRow(m, of[i], order, P[i])
  <2> SUFFICES ASSUME NEW i \in 1..N PROVE SpaceRow(m, of[i], order, P[i])
    OBVIOUS
  <2>1. \E p : SpaceRow(m, of[i], order, p)
    BY SpaceRowed
  <2>2. QED
    BY <2>1
<1> HIDE DEF P
<1>3. \A i \in 1..N : IsSeq(Row(nodes[i], order))
  BY <1>1, <1>2 DEF SpaceRow
<1>4. /\ \A n \in 1..N : ss[n] = Row(nodes[n], order)
      /\ \E row, col : FlatTo(ss, N, s, row, col)
  BY <1>1, <1>3, Unfolds
<1> HIDE DEF s, ss
<1>5. PICK row, col : FlatTo(ss, N, s, row, col)
  BY <1>4
<1>6. \A i \in 1..N :
        /\ Len(ss[i]) = Items(of[i])
        /\ \A c \in 1..Items(of[i]) : /\ P[i][c] \in 1..Items(of[i])
                                      /\ ss[i][c] = Item(m, of[i], P[i][c])
        /\ \A d \in 1..Items(of[i]) : \E c \in 1..Items(of[i]) : P[i][c] = d
        /\ order = "list" => \A c \in 1..Items(of[i]) : P[i][c] = c
  BY <1>1, <1>2, <1>4 DEF SpaceRow
<1> HIDE DEF N
<1>7. \A k \in 1..Len(s) :
        /\ row[k] \in 1..N /\ col[k] \in 1..Len(ss[row[k]]) /\ s[k] = ss[row[k]][col[k]]
        /\ \A l \in 1..Len(s) : k < l => row[k] < row[l] \/ (row[k] = row[l] /\ col[k] < col[l])
  BY <1>5 DEF FlatTo
<1> DEFINE sp == [k \in 1..Len(s) |-> of[row[k]]]
           pos == [k \in 1..Len(s) |-> P[row[k]][col[k]]]
<1>8. \A k \in 1..Len(s) : sp[k] = of[row[k]] /\ pos[k] = P[row[k]][col[k]]
  OBVIOUS
<1> HIDE DEF sp, pos
<1>9. ASSUME NEW k \in 1..Len(s)
      PROVE  /\ sp[k] \in DOMAIN m.home /\ pos[k] \in 1..Items(sp[k])
             /\ s[k] = Item(m, sp[k], pos[k])
  <2> DEFINE i == row[k]
             c == col[k]
  <2>1. i \in 1..N /\ c \in 1..Len(ss[i]) /\ s[k] = ss[i][c]
        /\ sp[k] = of[i] /\ pos[k] = P[i][c]
    BY <1>7, <1>8
  <2> HIDE DEF i, c
  <2>2. c \in 1..Items(of[i])
    BY <1>6, <2>1
  <2>3. QED
    BY <1>1, <1>6, <2>1, <2>2, SMTT(30) DEF N
<1>10. ASSUME NEW ws \in DOMAIN m.home, NEW d \in 1..Items(ws)
       PROVE  \E k \in 1..Len(s) : sp[k] = ws /\ pos[k] = d
  <2>1. PICK i \in 1..N : of[i] = ws
    BY <1>1 DEF N
  <2>2. PICK c \in 1..Items(of[i]) : P[i][c] = d
    BY <1>6, <2>1
  <2>3. c \in 1..Len(ss[i])
    BY <1>6, <2>2
  <2>4. PICK k \in 1..Len(s) : row[k] = i /\ col[k] = c
    BY <1>5, <2>3 DEF FlatTo
  <2>5. QED
    BY <1>8, <2>1, <2>2, <2>4
<1>11. ASSUME order = "list", NEW k \in 1..Len(s), NEW l \in 1..Len(s), k < l, sp[k] = sp[l]
       PROVE  pos[k] < pos[l]
  <2>1. /\ row[k] \in 1..N /\ row[l] \in 1..N /\ of[row[k]] = of[row[l]]
        /\ row[k] < row[l] \/ (row[k] = row[l] /\ col[k] < col[l])
    BY <1>7, <1>8, <1>11
  <2>2. row[k] = row[l]
    BY <1>1, <2>1 DEF N
  <2>3. col[k] < col[l]
    BY <2>1, <2>2
  <2>4. \A n \in 1..Len(s) : pos[n] = col[n]
    <3> SUFFICES ASSUME NEW n \in 1..Len(s) PROVE pos[n] = col[n]
      OBVIOUS
    <3> DEFINE i == row[n]
               c == col[n]
    <3>1. i \in 1..N /\ c \in 1..Len(ss[i]) /\ pos[n] = P[i][c]
      BY <1>7, <1>8
    <3> HIDE DEF i
    <3>2. P[i][c] = c
      BY <1>6, <1>11, <3>1
    <3>3. QED
      BY <3>1, <3>2
  <2>5. QED
    BY <2>3, <2>4
<1>12. IsSeq(s)
  BY <1>5 DEF FlatTo
<1>13. ItemLevel(m, order, s, sp, pos)
  BY <1>9, <1>10, <1>11, <1>12 DEF ItemLevel
<1>14. QED
  BY <1>13 DEF s

\* The fourth level: the windows, for the list those of a workspace front to back.
WindowLevel(m, order, s, win) ==
    /\ IsSeq(s)
    /\ \A k \in 1..Len(s) : /\ win[k] \in DOMAIN desk.windows
                            /\ s[k] = Leaf(m, desk.windows[win[k]])
    /\ \A i \in DOMAIN desk.windows : \E k \in 1..Len(s) : win[k] = i
    /\ order = "list" /\ Tiles(desk) =>
        \A k, l \in 1..Len(s) :
            k < l /\ desk.windows[win[k]].ws = desk.windows[win[l]].ws => win[k] <= win[l]

(***************************************************************************)
(* Under the items are the windows.                                        *)
(***************************************************************************)
LEMMA UnderItems ==
    ASSUME NEW m, Fits(m), NEW order, NEW nodes, NEW sp, NEW pos,
           ItemLevel(m, order, nodes, sp, pos)
    PROVE  \E win : WindowLevel(m, order, Unfolded(nodes, order), win)
<1> DEFINE s == Unfolded(nodes, order)
           ss == Rows(nodes, order)
           N == Len(nodes)
           up == TRUE
           down == FALSE
           floats(ws) == Spots(ws, up)
           tiled(ws) == Spots(ws, down)
           f(ws) == Len(floats(ws))
           W == desk.windows
<1>1. /\ IsSeq(nodes)
      /\ \A k \in 1..N : /\ sp[k] \in DOMAIN m.home /\ pos[k] \in 1..Items(sp[k])
                         /\ nodes[k] = Item(m, sp[k], pos[k])
      /\ \A ws \in DOMAIN m.home : \A c \in 1..Items(ws) :
            \E k \in 1..N : sp[k] = ws /\ pos[k] = c
      /\ order = "list" => \A k, l \in 1..N : k < l /\ sp[k] = sp[l] => pos[k] < pos[l]
  BY DEF ItemLevel
<1>2. \A ws : Items(ws) = f(ws) + 1
  BY DEF Items
<1>3. \A ws, c : c <= f(ws) => Item(m, ws, c) = Leaf(m, W[floats(ws)[c]])
  BY DEF Item
<1>4. \A ws, c : ~(c <= f(ws)) => Item(m, ws, c) = Branch("con", OnWorkspace(m, ws, down), <<>>)
  BY DEF Item, Container
<1>5. up \in BOOLEAN /\ down \in BOOLEAN /\ up # down
      /\ \A b \in BOOLEAN : b = up \/ b = down
  OBVIOUS
<1>6. \A i \in DOMAIN W : W[i].floating \in BOOLEAN /\ W[i].ws \in DOMAIN m.home
  BY Fitted
<1>7. ASSUME Tiles(desk), NEW i \in DOMAIN W, NEW j \in DOMAIN W,
             W[i].ws = W[j].ws, W[i].floating = up, W[j].floating = down
      PROVE  i < j
  BY <1>7 DEF Tiles
<1> HIDE DEF up, down
<1>8. ASSUME NEW ws
      PROVE  /\ f(ws) \in Nat
             /\ \A c \in 1..f(ws) : /\ floats(ws)[c] \in DOMAIN W /\ W[floats(ws)[c]].ws = ws
                                    /\ W[floats(ws)[c]].floating = up
             /\ \A c, d \in 1..f(ws) : c < d => floats(ws)[c] < floats(ws)[d]
             /\ \A i \in DOMAIN W : W[i].ws = ws /\ W[i].floating = up
                    => \E c \in 1..f(ws) : floats(ws)[c] = i
  BY Leaves
<1>9. ASSUME NEW ws
      PROVE  /\ IsSeq(OnWorkspace(m, ws, down))
             /\ Len(OnWorkspace(m, ws, down)) = Len(tiled(ws)) /\ Len(tiled(ws)) \in Nat
             /\ \A c \in 1..Len(tiled(ws)) :
                    /\ tiled(ws)[c] \in DOMAIN W /\ W[tiled(ws)[c]].ws = ws
                    /\ W[tiled(ws)[c]].floating = down
                    /\ OnWorkspace(m, ws, down)[c] = Leaf(m, W[tiled(ws)[c]])
             /\ \A c, d \in 1..Len(tiled(ws)) : c < d => tiled(ws)[c] < tiled(ws)[d]
             /\ \A i \in DOMAIN W : W[i].ws = ws /\ W[i].floating = down
                    => \E c \in 1..Len(tiled(ws)) : tiled(ws)[c] = i
  BY Leaves
<1> HIDE DEF f, floats, tiled, W
<1> DEFINE isLeaf(n) == pos[n] <= f(sp[n])
           spot(n, c) == IF isLeaf(n) THEN floats(sp[n])[pos[n]] ELSE tiled(sp[n])[c]
           size(n) == IF isLeaf(n) THEN 1 ELSE Len(tiled(sp[n]))
<1>10. ASSUME NEW n \in 1..N
       PROVE  /\ IsSeq(Row(nodes[n], order)) /\ Len(Row(nodes[n], order)) = size(n)
              /\ \A c \in 1..size(n) : Row(nodes[n], order)[c] = Leaf(m, W[spot(n, c)])
  <2>1. CASE isLeaf(n)
    <3> DEFINE leaf == Leaf(m, W[floats(sp[n])[pos[n]]])
    <3>1. Row(nodes[n], order) = <<leaf>>
      BY <1>1, <1>3, <2>1, LeafRow
    <3> HIDE DEF leaf
    <3>2. IsSeq(<<leaf>>) /\ Len(<<leaf>>) = 1 /\ <<leaf>>[1] = leaf
      <4>1. <<leaf>> \in Seq({leaf}) /\ Len(<<leaf>>) = 1 /\ <<leaf>>[1] = leaf
        OBVIOUS
      <4>2. QED
        BY <4>1 DEF IsSeq
    <3>3. size(n) = 1 /\ \A c : spot(n, c) = floats(sp[n])[pos[n]]
      BY <2>1
    <3> HIDE DEF spot, size, isLeaf
    <3>4. \A c \in 1..1 : c = 1
      OBVIOUS
    <3>5. QED
      BY <3>1, <3>2, <3>3, <3>4 DEF leaf
  <2>2. CASE ~isLeaf(n)
    <3> DEFINE own == OnWorkspace(m, sp[n], down)
    <3>1. nodes[n] = Branch("con", own, <<>>)
      BY <1>1, <1>4, <2>2
    <3>2. IsSeq(own)
      BY <1>9
    <3> HIDE DEF own
    <3>3. Row(nodes[n], order) = own
      BY <3>1, <3>2, PlainRow
    <3>4. size(n) = Len(tiled(sp[n])) /\ \A c : spot(n, c) = tiled(sp[n])[c]
      BY <2>2
    <3> HIDE DEF spot, size, isLeaf
    <3>5. QED
      BY <1>9, <3>2, <3>3, <3>4 DEF own
  <2>3. QED
    BY <2>1, <2>2
<1>11. ASSUME NEW n \in 1..N, NEW c \in 1..size(n)
       PROVE  spot(n, c) \in DOMAIN W /\ W[spot(n, c)].ws = sp[n]
  <2>1. pos[n] \in 1..(f(sp[n]) + 1) /\ f(sp[n]) \in Nat
    BY <1>1, <1>2, <1>8
  <2>2. CASE isLeaf(n)
    <3>1. pos[n] \in 1..f(sp[n])
      BY <2>1, <2>2
    <3>2. QED
      BY <1>8, <2>2, <3>1
  <2>3. CASE ~isLeaf(n)
    BY <1>9, <2>3
  <2>4. QED
    BY <2>2, <2>3
<1>12. ASSUME order = "list", Tiles(desk), NEW a \in 1..N, NEW b \in 1..N,
              NEW c \in 1..size(a), NEW d \in 1..size(b), sp[a] = sp[b],
              a < b \/ (a = b /\ c < d)
       PROVE  spot(a, c) < spot(b, d)
  <2>1. /\ pos[a] \in 1..(f(sp[a]) + 1) /\ f(sp[a]) \in Nat
        /\ pos[b] \in 1..(f(sp[a]) + 1)
    BY <1>1, <1>2, <1>8, <1>12
  <2>2. CASE a = b
    <3>1. ~isLeaf(a)
      BY <1>12, <2>2
    <3>2. QED
      BY <1>9, <1>12, <2>2, <3>1
  <2>3. CASE a < b
    <3>1. pos[a] < pos[b]
      BY <1>1, <1>12, <2>3
    <3>2. pos[a] \in 1..f(sp[a]) /\ isLeaf(a)
      BY <2>1, <3>1
    <3>3. CASE isLeaf(b)
      <4>1. pos[b] \in 1..f(sp[a])
        BY <1>12, <2>1, <3>3
      <4>2. QED
        BY <1>8, <1>12, <3>1, <3>2, <3>3, <4>1
    <3>4. CASE ~isLeaf(b)
      <4> DEFINE i == floats(sp[a])[pos[a]]
                 j == tiled(sp[b])[d]
      <4>1. i \in DOMAIN W /\ W[i].ws = sp[a] /\ W[i].floating = up
        BY <1>8, <3>2
      <4>2. j \in DOMAIN W /\ W[j].ws = sp[b] /\ W[j].floating = down
        BY <1>9, <3>4
      <4>3. spot(a, c) = i /\ spot(b, d) = j
        BY <3>2, <3>4
      <4> HIDE DEF i, j, spot
      <4>4. QED
        BY <1>7, <1>12, <4>1, <4>2, <4>3
    <3>5. QED
      BY <3>3, <3>4
  <2>4. QED
    BY <1>12, <2>2, <2>3
<1>13. ASSUME NEW i \in DOMAIN W
       PROVE  \E n \in 1..N : \E c \in 1..size(n) : spot(n, c) = i
  <2> DEFINE ws == W[i].ws
  <2>1. ws \in DOMAIN m.home /\ f(ws) \in Nat
    BY <1>6, <1>8
  <2>2. CASE W[i].floating = up
    <3>1. PICK c \in 1..f(ws) : floats(ws)[c] = i
      BY <1>8, <2>2
    <3>a. c \in 1..Items(ws)
      <4>1. c \in 1..(f(ws) + 1)
        BY <2>1
      <4>2. QED
        BY <1>2, <4>1
    <3>2. PICK n \in 1..N : sp[n] = ws /\ pos[n] = c
      BY <1>1, <2>1, <3>a
    <3>3. isLeaf(n) /\ spot(n, 1) = i /\ 1 \in 1..size(n)
      BY <2>1, <3>1, <3>2
    <3>4. QED
      BY <3>3
  <2>3. CASE W[i].floating = down
    <3>1. PICK c \in 1..Len(tiled(ws)) : tiled(ws)[c] = i
      BY <1>9, <2>3
    <3>2. f(ws) + 1 \in 1..Items(ws)
      BY <1>2, <2>1
    <3>3. PICK n \in 1..N : sp[n] = ws /\ pos[n] = f(ws) + 1
      BY <1>1, <2>1, <3>2
    <3>4. ~isLeaf(n) /\ spot(n, c) = i /\ c \in 1..size(n)
      BY <2>1, <3>1, <3>3
    <3>5. QED
      BY <3>4
  <2>4. QED
    BY <1>5, <1>6, <2>2, <2>3
<1> HIDE DEF spot, size
<1>14. /\ \A n \in 1..N : ss[n] = Row(nodes[n], order)
       /\ \E row, col : FlatTo(ss, N, s, row, col)
  BY <1>1, <1>10, Unfolds
<1> HIDE DEF s, ss, N
<1>15. PICK row, col : FlatTo(ss, N, s, row, col)
  BY <1>14
<1>16. /\ IsSeq(s)
       /\ \A k \in 1..Len(s) :
            /\ row[k] \in 1..N /\ col[k] \in 1..size(row[k])
            /\ s[k] = Leaf(m, W[spot(row[k], col[k])])
            /\ \A l \in 1..Len(s) :
                k < l => row[k] < row[l] \/ (row[k] = row[l] /\ col[k] < col[l])
       /\ \A n \in 1..N : \A c \in 1..size(n) : \E k \in 1..Len(s) : row[k] = n /\ col[k] = c
  <2>1. \A n \in 1..N : /\ Len(ss[n]) = size(n)
                        /\ \A c \in 1..size(n) : ss[n][c] = Leaf(m, W[spot(n, c)])
    BY <1>10, <1>14
  <2>2. IsSeq(s)
    BY <1>15 DEF FlatTo
  <2>3. ASSUME NEW k \in 1..Len(s)
        PROVE  /\ row[k] \in 1..N /\ col[k] \in 1..size(row[k])
               /\ s[k] = Leaf(m, W[spot(row[k], col[k])])
               /\ \A l \in 1..Len(s) :
                    k < l => row[k] < row[l] \/ (row[k] = row[l] /\ col[k] < col[l])
    <3>1. /\ row[k] \in 1..N /\ col[k] \in 1..Len(ss[row[k]])
          /\ s[k] = ss[row[k]][col[k]]
      BY <1>15 DEF FlatTo
    <3>2. \A l \in 1..Len(s) :
            k < l => row[k] < row[l] \/ (row[k] = row[l] /\ col[k] < col[l])
      BY <1>15, Zenon DEF FlatTo
    <3>3. col[k] \in 1..size(row[k])
      BY <2>1, <3>1
    <3>4. s[k] = Leaf(m, W[spot(row[k], col[k])])
      BY <2>1, <3>1, <3>3
    <3>5. QED
      BY <3>1, <3>2, <3>3, <3>4
  <2>4. ASSUME NEW n \in 1..N, NEW c \in 1..size(n)
        PROVE  \E k \in 1..Len(s) : row[k] = n /\ col[k] = c
    <3>1. c \in 1..Len(ss[n])
      BY <2>1
    <3>2. QED
      BY <1>15, <3>1 DEF FlatTo
  <2>5. QED
    BY <2>2, <2>3, <2>4
<1> DEFINE win == [k \in 1..Len(s) |-> spot(row[k], col[k])]
<1>17. \A k \in 1..Len(s) : win[k] = spot(row[k], col[k])
  OBVIOUS
<1> HIDE DEF win
<1>18. \A k \in 1..Len(s) :
        win[k] \in DOMAIN W /\ s[k] = Leaf(m, W[win[k]]) /\ W[win[k]].ws = sp[row[k]]
  BY <1>11, <1>16, <1>17
<1>19. \A i \in DOMAIN W : \E k \in 1..Len(s) : win[k] = i
  BY <1>13, <1>16, <1>17
<1>20. ASSUME order = "list", Tiles(desk), NEW k \in 1..Len(s), NEW l \in 1..Len(s), k < l,
              W[win[k]].ws = W[win[l]].ws
       PROVE  win[k] <= win[l]
  <2>1. sp[row[k]] = sp[row[l]]
    BY <1>18, <1>20
  <2>2. /\ row[k] \in 1..N /\ row[l] \in 1..N
        /\ col[k] \in 1..size(row[k]) /\ col[l] \in 1..size(row[l])
        /\ row[k] < row[l] \/ (row[k] = row[l] /\ col[k] < col[l])
    BY <1>16, <1>20
  <2>3. spot(row[k], col[k]) < spot(row[l], col[l])
    BY <1>12, <1>20, <2>1, <2>2
  <2>4. win[k] < win[l]
    BY <1>17, <2>3
  <2>5. win[k] \in Int /\ win[l] \in Int
    <3>1. \A i \in DOMAIN W : i \in Int
      BY Fitted DEF W
    <3>2. QED
      BY <1>18, <3>1
  <2>6. QED
    BY <2>4, <2>5
<1>21. WindowLevel(m, order, s, win)
  BY <1>16, <1>18, <1>19, <1>20 DEF WindowLevel, W
<1>22. QED
  BY <1>21 DEF s

(***************************************************************************)
(* The walk through the tree of a layout finds the windows of the desk, all *)
(* of them, and for the list those of a workspace front to back (wm/sway.rs *)
(* collect_windows, find_focused).                                          *)
(***************************************************************************)
THEOREM WalkFindsWindows ==
    ASSUME NEW m, Fits(m), NEW order
    PROVE  \E win : WindowLevel(m, order, Walked(Tree(m), order), win)
<1> DEFINE one == Unfolded(<<Tree(m)>>, order)
           two == Unfolded(one, order)
           three == Unfolded(two, order)
           four == Unfolded(three, order)
<1>1. Walked(Tree(m), order) = four
  BY Levels
<1>2. PICK on : OutputLevel(m, one, on)
  BY UnderRoot
<1> HIDE DEF one
<1>3. PICK of : SpaceLevel(m, two, of)
  BY <1>2, UnderOutputs
<1> HIDE DEF two
<1>4. PICK sp, pos : ItemLevel(m, order, three, sp, pos)
  BY <1>3, UnderSpaces
<1> HIDE DEF three
<1>5. \E win : WindowLevel(m, order, four, win)
  BY <1>4, UnderItems
<1>6. QED
  BY <1>1, <1>5

-----------------------------------------------------------------------------
(* What the backends answer *)

(***************************************************************************)
(* The lesser and the greater of two.                                      *)
(***************************************************************************)
LEMMA OfTwo ==
    ASSUME NEW a \in Int, NEW b \in Int
    PROVE  /\ Max({a, b}) = IF a >= b THEN a ELSE b
           /\ Min({a, b}) = IF a <= b THEN a ELSE b
  BY DEF Max, Min

(***************************************************************************)
(* What two rectangles share is what lies in both.                         *)
(***************************************************************************)
LEMMA Shared ==
    ASSUME NEW a \in Rects, NEW b \in Rects
    PROVE  /\ Intersect(a, b) = None \/ Intersect(a, b) \in Rects
           /\ \A x, y \in Int :
                Intersect(a, b) # None /\ Within(Intersect(a, b), x, y)
                <=> Within(a, x, y) /\ Within(b, x, y)
<1> DEFINE x0 == Max({a.x, b.x})
           y0 == Max({a.y, b.y})
           r == Min({Right(a), Right(b)})
           e == Min({Bottom(a), Bottom(b)})
           box == [x |-> x0, y |-> y0, w |-> r - x0, h |-> e - y0]
<1>1. /\ a.x \in Int /\ b.x \in Int /\ a.y \in Int /\ b.y \in Int
      /\ Right(a) \in Int /\ Right(b) \in Int /\ Bottom(a) \in Int /\ Bottom(b) \in Int
  BY DEF Rects, Right, Bottom
<1>2. /\ x0 = IF a.x >= b.x THEN a.x ELSE b.x
      /\ y0 = IF a.y >= b.y THEN a.y ELSE b.y
      /\ r = IF Right(a) <= Right(b) THEN Right(a) ELSE Right(b)
      /\ e = IF Bottom(a) <= Bottom(b) THEN Bottom(a) ELSE Bottom(b)
  BY <1>1, OfTwo
<1>3. Intersect(a, b) = IF r <= x0 \/ e <= y0 THEN None ELSE box
  BY DEF Intersect
<1> HIDE DEF x0, y0, r, e
<1>4. \A x, y \in Int : Within(box, x, y) <=> x0 <= x /\ x < r /\ y0 <= y /\ y < e
  BY <1>1, <1>2 DEF Within, Right, Bottom
<1>5. \A x, y \in Int : Within(a, x, y) /\ Within(b, x, y)
                        <=> x0 <= x /\ x < r /\ y0 <= y /\ y < e
  BY <1>1, <1>2 DEF Within
<1>6. ~(r <= x0 \/ e <= y0) => box \in Rects
  BY <1>1, <1>2 DEF Rects
<1> HIDE DEF box
<1>7. None \notin Rects
  BY DeskAssumption
<1>8. \A x, y \in Int : (r <= x0 \/ e <= y0) => ~(x0 <= x /\ x < r /\ y0 <= y /\ y < e)
  BY <1>1, <1>2
<1>9. QED
  BY <1>3, <1>4, <1>5, <1>6, <1>7, <1>8

(***************************************************************************)
(* What a window of a list is made of.                                     *)
(***************************************************************************)
LEMMA Made ==
    ASSUME NEW id, NEW rect, NEW mapped, NEW hidden
    PROVE  LET w == WmWindow(id, rect, mapped, hidden)
           IN w.id = id /\ w.rect = rect /\ w.mapped = mapped /\ w.hidden = hidden
  BY DEF WmWindow

\* The window i of a list is shown under p.
Under(windows, i, p) ==
    /\ windows[i].mapped /\ ~windows[i].hidden /\ windows[i].rect # None
    /\ Within(windows[i].rect, p[1], p[2])

(***************************************************************************)
(* The window found under the pointer is the first of the list that is     *)
(* shown there.                                                            *)
(***************************************************************************)
LEMMA FirstUnder ==
    ASSUME NEW windows, NEW n \in Nat, DOMAIN windows = 1..n, NEW p
    PROVE  \/ WindowAt(windows, p) = None /\ \A i \in 1..n : ~Under(windows, i, p)
           \/ \E k \in 1..n : /\ WindowAt(windows, p) = windows[k].id /\ Under(windows, k, p)
                              /\ \A i \in 1..n : Under(windows, i, p) => k <= i
<1> DEFINE hits == {i \in DOMAIN windows :
                       /\ windows[i].mapped /\ ~windows[i].hidden /\ windows[i].rect # None
                       /\ Within(windows[i].rect, p[1], p[2])}
<1>1. WindowAt(windows, p) = IF hits = {} THEN None ELSE windows[Min(hits)].id
  BY DEF WindowAt
<1>2. \A i : i \in hits <=> i \in 1..n /\ Under(windows, i, p)
  BY DEF Under
<1> HIDE DEF hits
<1>3. CASE hits = {}
  BY <1>1, <1>2, <1>3
<1>4. CASE hits # {}
  <2>1. hits \in SUBSET (1..n)
    BY <1>2
  <2>2. Min(hits) \in hits /\ \A i \in hits : Min(hits) <= i
    BY <1>4, <2>1, LeastOf
  <2>3. QED
    BY <1>1, <1>2, <1>4, <2>2
<1>5. QED
  BY <1>3, <1>4

(***************************************************************************)
(* Windows are known by their ids.                                         *)
(***************************************************************************)
LEMMA KnownById ==
    ASSUME NEW m, Fits(m), NEW i \in DOMAIN desk.windows
    PROVE  Win(desk.windows[i].id) = desk.windows[i]
<1>1. DOMAIN desk.windows = 1..Len(desk.windows) /\ \A j \in DOMAIN desk.windows :
            desk.windows[j].id = desk.windows[i].id => j = i
  BY Fitted
<1>2. Range(desk.windows) = {desk.windows[j] : j \in DOMAIN desk.windows}
  BY DEF Range
<1>3. \A w \in Range(desk.windows) : w.id = desk.windows[i].id => w = desk.windows[i]
  BY <1>1, <1>2
<1>4. desk.windows[i] \in Range(desk.windows)
  BY <1>2
<1>5. QED
  BY <1>3, <1>4 DEF Win

(***************************************************************************)
(* A rectangle carried elsewhere.                                          *)
(***************************************************************************)
LEMMA Carried ==
    ASSUME NEW r \in Rects, NEW a \in Int, NEW b \in Int
    PROVE  [r EXCEPT !.x = @ + a, !.y = @ + b]
               = [x |-> r.x + a, y |-> r.y + b, w |-> r.w, h |-> r.h]
<1> DEFINE q == [r EXCEPT !.x = r.x + a, !.y = r.y + b]
<1>1. r.x + a \in Int /\ r.y + b \in Int
  BY DEF Rects
<1>2. q \in Rects /\ q.x = r.x + a /\ q.y = r.y + b /\ q.w = r.w /\ q.h = r.h
  BY <1>1 DEF Rects
<1> HIDE DEF q
<1>3. q = [x |-> q.x, y |-> q.y, w |-> q.w, h |-> q.h]
  BY <1>2 DEF Rects
<1>4. QED
  BY <1>2, <1>3 DEF q

(***************************************************************************)
(* Where a window lies on the desktop.                                     *)
(***************************************************************************)
LEMMA LiesAt ==
    ASSUME NEW m, Fits(m), NEW i \in DOMAIN desk.windows
    PROVE  LET w == desk.windows[i]
               o == desk.outputs[m.home[w.ws]].area
           IN /\ Lies(m, w) \in Rects /\ Lies(m, w) # None
              /\ Lies(m, w) = [x |-> w.rect.x + o.x, y |-> w.rect.y + o.y,
                               w |-> w.rect.w, h |-> w.rect.h]
              /\ m.home[w.ws] \in Plugged(m) /\ m.home[w.ws] \in Outs /\ o \in Rects
<1> DEFINE w == desk.windows[i]
           o == desk.outputs[m.home[w.ws]].area
<1>1. /\ w.rect \in Rects /\ w.ws \in DOMAIN m.home /\ m.home[w.ws] \in Outs
      /\ m.home[w.ws] \in Plugged(m) /\ o \in Rects
  BY Fitted
<1>2. Lies(m, w) = [w.rect EXCEPT !.x = @ + o.x, !.y = @ + o.y]
  BY DEF Lies
<1> HIDE DEF w, o
<1> DEFINE r == w.rect
           at == [x |-> r.x + o.x, y |-> r.y + o.y, w |-> r.w, h |-> r.h]
<1>a. r.x \in Int /\ r.y \in Int /\ r.w \in Nat /\ r.h \in Nat /\ o.x \in Int /\ o.y \in Int
  BY <1>1 DEF Rects
<1>b. [r EXCEPT !.x = @ + o.x, !.y = @ + o.y] = at
  BY <1>1, <1>a, Carried
<1>c. at \in Rects
  BY <1>a DEF Rects
<1>3. /\ Lies(m, w) = [x |-> w.rect.x + o.x, y |-> w.rect.y + o.y,
                       w |-> w.rect.w, h |-> w.rect.h]
      /\ Lies(m, w) \in Rects
  BY <1>2, <1>b, <1>c
<1>4. QED
  BY <1>1, <1>3, DeskAssumption DEF w, o

(***************************************************************************)
(* A list with the windows of the desk, all of them and those of a         *)
(* workspace front to back, that is right about each is right about a      *)
(* click.                                                                  *)
(***************************************************************************)
Complete(windows, m, n, win) ==
    /\ n \in Nat /\ DOMAIN windows = 1..n
    /\ \A k \in 1..n : /\ win[k] \in DOMAIN desk.windows
                       /\ windows[k].id = desk.windows[win[k]].id
    /\ \A i \in DOMAIN desk.windows : \E k \in 1..n : win[k] = i

Shows(windows, m, n, win) ==
    /\ Complete(windows, m, n, win)
    /\ \A k \in 1..n : \A p \in desk.points :
            Under(windows, k, p) <=> ShownAt(m, desk.windows[win[k]], p)
    /\ \A k, l \in 1..n :
            k < l /\ desk.windows[win[k]].ws = desk.windows[win[l]].ws => win[k] <= win[l]

(***************************************************************************)
(* A list that shows the windows of a layout, in their order, is true of   *)
(* it.                                                                     *)
(***************************************************************************)
LEMMA ListShows ==
    ASSUME NEW m, Fits(m), desk.backend \in {"hyprland", "sway"}, NEW n, NEW win,
           Shows(list, m, n, win)
    PROVE  TrueOf(m)
<1> DEFINE W == desk.windows
<1>1. /\ n \in Nat /\ DOMAIN list = 1..n
      /\ \A k \in 1..n : win[k] \in DOMAIN W /\ list[k].id = W[win[k]].id
      /\ \A i \in DOMAIN W : \E k \in 1..n : win[k] = i
      /\ \A k \in 1..n : \A p \in desk.points : Under(list, k, p) <=> ShownAt(m, W[win[k]], p)
      /\ \A k, l \in 1..n : k < l /\ W[win[k]].ws = W[win[l]].ws => win[k] <= win[l]
  BY DEF Shows, Complete
<1>2. \A i \in DOMAIN W : /\ W[i].id # None /\ Win(W[i].id) = W[i] /\ i \in Int
                          /\ \A j \in DOMAIN W : W[j].id = W[i].id => j = i
  BY Fitted, KnownById
<1>3. \A w \in Range(W) : \E i \in DOMAIN W : w = W[i]
  BY DEF Range
<1> HIDE DEF W
<1>4. ASSUME NEW p \in desk.points
      PROVE  LET hit == WindowAt(list, p)
             IN IF hit = None THEN ~\E w \in Range(W) : ShownAt(m, w, p)
                ELSE ShownAt(m, Win(hit), p) /\ Frontmost(m, hit, p)
  <2> DEFINE hit == WindowAt(list, p)
  <2>1. CASE hit = None /\ \A k \in 1..n : ~Under(list, k, p)
    <3>1. \A i \in DOMAIN W : ~ShownAt(m, W[i], p)
      BY <1>1, <2>1
    <3>2. QED
      BY <1>3, <2>1, <3>1
  <2>2. CASE \E k \in 1..n : /\ hit = list[k].id /\ Under(list, k, p)
                             /\ \A i \in 1..n : Under(list, i, p) => k <= i
    <3>1. PICK k \in 1..n : /\ hit = list[k].id /\ Under(list, k, p)
                            /\ \A i \in 1..n : Under(list, i, p) => k <= i
      BY <2>2
    <3> HIDE DEF hit
    <3>2. win[k] \in DOMAIN W /\ hit = W[win[k]].id
      BY <1>1, <3>1
    <3>3. hit # None /\ Win(hit) = W[win[k]] /\ ShownAt(m, W[win[k]], p)
      BY <1>1, <1>2, <3>1, <3>2
    <3>4. ASSUME NEW i \in DOMAIN W, NEW j \in DOMAIN W, W[j].id = hit,
                 ShownAt(m, W[i], p), W[i].ws = W[j].ws
          PROVE  j <= i
      <4>1. j = win[k] /\ j \in Int /\ i \in Int
        BY <1>2, <3>2, <3>4
      <4>2. PICK l \in 1..n : win[l] = i
        BY <1>1
      <4>3. k <= l
        BY <1>1, <3>1, <3>4, <4>2
      <4>4. CASE k = l
        BY <4>1, <4>2, <4>4
      <4>5. CASE k < l
        BY <1>1, <3>4, <4>1, <4>2, <4>5
      <4>6. QED
        BY <1>1, <4>3, <4>4, <4>5
    <3>5. Frontmost(m, hit, p)
      BY <3>4 DEF Frontmost, W
    <3>6. QED
      BY <3>3, <3>5 DEF hit
  <2>3. QED
    BY <1>1, <2>1, <2>2, FirstUnder DEF Under
<1>5. \A w, p : Said(m, w, p) <=> ShownAt(m, w, p)
  BY DEF Said
<1>6. QED
  BY <1>4, <1>5 DEF TrueOf, W

(***************************************************************************)
(* A point is a pair of numbers.                                           *)
(***************************************************************************)
LEMMA PointsAreNumbers ==
    ASSUME NEW m, Fits(m), NEW p \in desk.points
    PROVE  p[1] \in Int /\ p[2] \in Int
<1>1. OutputsOK(desk)
  BY DeskAssumption DEF Fits
<1>2. p \in Int \X Int
  BY <1>1 DEF OutputsOK
<1>3. QED
  BY <1>2

(***************************************************************************)
(* Hyprland's logical areas are what the outputs are laid out as.          *)
(***************************************************************************)
LEMMA LogicalAreas ==
    ASSUME NEW m, Fits(m), desk.backend = "hyprland", NEW o \in Outs
    PROVE  LogicalArea(desk.outputs[o]) = desk.outputs[o].area
<1> DEFINE mode == desk.outputs[o]
<1>1. LaidOut(mode) /\ mode.area \in Rects
  BY DeskAssumption, Fitted DEF Fits, Outs
<1> HIDE DEF mode
<1> DEFINE side == mode.transform % 2 = 1
           width == IF side THEN mode.height ELSE mode.width
           height == IF side THEN mode.width ELSE mode.height
           s1 == mode.scale[1]
           s2 == mode.scale[2]
<1>2. /\ width \in Nat /\ height \in Nat /\ s1 \in Nat \ {0} /\ s2 \in Nat
      /\ Nearest(mode.area.w, width * s2, s1)
      /\ Nearest(mode.area.h, height * s2, s1)
  BY <1>1 DEF LaidOut
<1>3. ASSUME NEW q \in Nat, NEW a \in Nat, NEW b \in Nat \ {0}, Nearest(q, a, b)
      PROVE  Rounded(a, b) = q
  <2>1. (2 * b) * q <= 2 * a + b /\ 2 * a + b < (2 * b) * q + 2 * b
    BY <1>3 DEF Nearest
  <2>2. 2 * b \in Int /\ 2 * b > 0 /\ 2 * a + b \in Int
    OBVIOUS
  <2>3. (2 * a + b) \div (2 * b) = q
    BY <2>1, <2>2, DivUnique
  <2>4. QED
    BY <2>3 DEF Rounded
<1>4. LogicalArea(mode) = [x |-> mode.area.x, y |-> mode.area.y,
                           w |-> Rounded(width * s2, s1), h |-> Rounded(height * s2, s1)]
  BY DEF LogicalArea
<1> HIDE DEF width, height, s1, s2
<1>5. width * s2 \in Nat /\ height * s2 \in Nat /\ mode.area.w \in Nat /\ mode.area.h \in Nat
  BY <1>1, <1>2 DEF Rects
<1>6. /\ Rounded(width * s2, s1) = mode.area.w
      /\ Rounded(height * s2, s1) = mode.area.h
  BY <1>2, <1>3, <1>5
<1>7. LogicalArea(mode) = [x |-> mode.area.x, y |-> mode.area.y,
                           w |-> mode.area.w, h |-> mode.area.h]
  BY <1>4, <1>6
<1>8. mode.area = [x |-> mode.area.x, y |-> mode.area.y,
                   w |-> mode.area.w, h |-> mode.area.h]
  BY <1>1 DEF Rects
<1>9. QED
  BY <1>7, <1>8 DEF mode

\* Hyprland's list offers the window i under p: the clients were asked for in the
\* layout r, the monitors in m.
Offered(r, m, i, p) ==
    LET w == desk.windows[i]
        o == r.home[w.ws]
    IN /\ w.mapped /\ ~w.hidden /\ o \in Plugged(m)
       /\ w.pinned \/ w.ws \in {m.shows[o], m.special[o]}
       /\ Within(Lies(r, w), p[1], p[2])
       /\ ~w.floating \/ w.full => Within(desk.outputs[o].area, p[1], p[2])

(***************************************************************************)
(* What Hyprland's list says of a window (wm/hyprland.rs parse_clients).   *)
(***************************************************************************)
LEMMA HyprlandOffers ==
    ASSUME NEW m, Fits(m), desk.backend = "hyprland", NEW r, Fits(r)
    PROVE  LET L == ParseClients(RawClients(r), RawMonitors(m))
           IN /\ DOMAIN L = 1..Len(desk.windows)
              /\ \A i \in DOMAIN desk.windows :
                    /\ L[i].id = desk.windows[i].id
                    /\ \A p \in desk.points : Under(L, i, p) <=> Offered(r, m, i, p)
<1> DEFINE W == desk.windows
           n == Len(W)
           L == ParseClients(RawClients(r), RawMonitors(m))
<1>1. n \in Nat /\ DOMAIN W = 1..n
  BY Fitted
<1>2. DOMAIN L = 1..n
  BY <1>1 DEF ParseClients, RawClients
<1>3. ASSUME NEW i \in DOMAIN W
      PROVE  /\ L[i].id = W[i].id
             /\ \A p \in desk.points : Under(L, i, p) <=> Offered(r, m, i, p)
  <2> DEFINE w == W[i]
             o == r.home[w.ws]
             area == desk.outputs[o].area
             lies == Lies(r, w)
             known == o \in Plugged(m)
             clipped == ~w.floating \/ w.full
             rect == IF ~clipped THEN lies
                     ELSE IF known THEN Intersect(lies, LogicalArea(desk.outputs[o])) ELSE None
             visible == /\ known
                        /\ \/ w.pinned \/ w.ws = m.shows[o]
                           \/ m.special[o] # 0 /\ w.ws = m.special[o]
             gone == w.hidden \/ ~visible \/ rect = None
  <2> DEFINE c == RawClients(r)[i]
             mons == RawMonitors(m)
  <2>1. /\ c.address = w.id /\ c.rect = lies /\ c.monitor = o /\ c.workspace = w.ws
        /\ c.mapped = w.mapped /\ c.hidden = w.hidden /\ c.floating = w.floating
        /\ c.pinned = w.pinned /\ c.fullscreen = w.full
    BY DEF RawClients
  <2>2. /\ DOMAIN mons = Plugged(m)
        /\ known => /\ mons[o].mode = desk.outputs[o] /\ mons[o].active = m.shows[o]
                    /\ mons[o].special = m.special[o]
    BY DEF RawMonitors
  <2>3. L[i] = WmWindow(c.address, Clipped(c, mons), c.mapped,
                        \/ c.hidden
                        \/ ~(c.monitor \in DOMAIN mons
                             /\ VisibleWorkspace(mons[c.monitor], c))
                        \/ Clipped(c, mons) = None)
    BY DEF ParseClients, RawClients
  <2> HIDE DEF c, mons
  <2>a. w.floating \in BOOLEAN /\ w.full \in BOOLEAN /\ w.mapped \in BOOLEAN
        /\ w.hidden \in BOOLEAN /\ w.pinned \in BOOLEAN
    BY Fitted
  <2>4. Clipped(c, mons) = rect
    BY <2>1, <2>2, <2>a DEF Clipped
  <2>5. (c.monitor \in DOMAIN mons /\ VisibleWorkspace(mons[c.monitor], c)) <=> visible
    BY <2>1, <2>2 DEF VisibleWorkspace
  <2>6. L[i].id = w.id /\ L[i].rect = rect /\ L[i].mapped = w.mapped
        /\ (L[i].hidden <=> gone)
    <3> DEFINE out == \/ c.hidden
                      \/ ~(c.monitor \in DOMAIN mons
                           /\ VisibleWorkspace(mons[c.monitor], c))
                      \/ Clipped(c, mons) = None
    <3> HIDE DEF rect, visible
    <3>1. out <=> w.hidden \/ ~visible \/ rect = None
      BY <2>1, <2>4, <2>5
    <3>2. L[i] = WmWindow(w.id, rect, w.mapped, out)
      BY <2>1, <2>3, <2>4
    <3> HIDE DEF out
    <3>3. L[i].id = w.id /\ L[i].rect = rect /\ L[i].mapped = w.mapped /\ L[i].hidden = out
      BY <3>2, Made
    <3>4. QED
      BY <3>1, <3>3
  <2>7. /\ lies \in Rects /\ lies # None /\ o \in Outs /\ area \in Rects
    BY LiesAt
  <2>8. LogicalArea(desk.outputs[o]) = area
    BY <2>7, LogicalAreas
  <2>9. w.ws # 0
    <3>1. Len(desk.layout.home) \in Nat /\ DOMAIN r.home = 1..Len(desk.layout.home)
          /\ w.ws \in DOMAIN r.home
      BY Fitted
    <3>2. QED
      BY <3>1
  <2>10. ASSUME NEW p \in desk.points
         PROVE  Under(L, i, p) <=> Offered(r, m, i, p)
    <3>1. p[1] \in Int /\ p[2] \in Int
      BY PointsAreNumbers
    <3>2. Under(L, i, p) <=> /\ w.mapped /\ ~w.hidden /\ visible
                             /\ rect # None /\ Within(rect, p[1], p[2])
      <4> HIDE DEF rect, visible, w
      <4>1. QED
        BY <2>6 DEF Under
    <3>3. known => (rect # None /\ Within(rect, p[1], p[2])
                    <=> Within(lies, p[1], p[2]) /\ (clipped => Within(area, p[1], p[2])))
      <4> HIDE DEF lies, area, known, clipped
      <4>1. CASE clipped
        BY <2>7, <2>8, <3>1, <4>1, Shared
      <4>2. CASE ~clipped
        BY <2>7, <4>2
      <4>3. QED
        BY <4>1, <4>2
    <3>4. visible <=> known /\ (w.pinned \/ w.ws \in {m.shows[o], m.special[o]})
      BY <2>9
    <3>5. Offered(r, m, i, p)
          <=> /\ w.mapped /\ ~w.hidden /\ known
              /\ w.pinned \/ w.ws \in {m.shows[o], m.special[o]}
              /\ Within(lies, p[1], p[2]) /\ (clipped => Within(area, p[1], p[2]))
      BY DEF Offered
    <3> HIDE DEF visible, known, rect, lies, clipped, area, o, w
    <3>6. QED
      BY <3>2, <3>3, <3>4, <3>5
  <2>11. QED
    BY <2>6, <2>10
<1>4. QED
  BY <1>2, <1>3

(***************************************************************************)
(* Asked while the workspaces stay on their outputs, it is right of the    *)
(* moment the monitors were asked for.                                     *)
(***************************************************************************)
LEMMA HyprlandShows ==
    ASSUME NEW m, Fits(m), desk.backend = "hyprland", NEW r, Fits(r), r.home = m.home
    PROVE  \E n, win : Shows(ParseClients(RawClients(r), RawMonitors(m)), m, n, win)
<1> DEFINE W == desk.windows
           n == Len(W)
           L == ParseClients(RawClients(r), RawMonitors(m))
           win == [i \in 1..n |-> i]
<1>1. n \in Nat /\ DOMAIN W = 1..n
  BY Fitted
<1>2. /\ DOMAIN L = 1..n
      /\ \A i \in 1..n : L[i].id = W[i].id
      /\ \A i \in 1..n : \A p \in desk.points : Under(L, i, p) <=> Offered(r, m, i, p)
  BY <1>1, HyprlandOffers
<1> HIDE DEF L
<1>3. ASSUME NEW i \in 1..n, NEW p \in desk.points
      PROVE  Offered(r, m, i, p) <=> ShownAt(m, W[i], p)
  <2> DEFINE w == W[i]
  <2>1. m.home[w.ws] \in Plugged(m)
    BY <1>1, LiesAt
  <2>2. Lies(r, w) = Lies(m, w)
    BY DEF Lies
  <2>3. QED
    BY <2>1, <2>2 DEF Offered, ShownAt, OnShow
<1>4. \A i \in 1..n : win[i] = i
  OBVIOUS
<1> HIDE DEF win
<1>5. Shows(L, m, n, win)
  BY <1>1, <1>2, <1>3, <1>4 DEF Shows, Complete
<1>6. QED
  BY <1>5 DEF L

(***************************************************************************)
(* Wherever the workspaces were meanwhile, a window it finds was on show,  *)
(* when the clients were asked for or when the monitors were.              *)
(***************************************************************************)
LEMMA HyprlandFinds ==
    ASSUME NEW m, Fits(m), desk.backend = "hyprland", NEW r, Fits(r),
           list = ParseClients(RawClients(r), RawMonitors(m)),
           NEW p \in desk.points, WindowAt(list, p) # None
    PROVE  LET w == Win(WindowAt(list, p)) IN ShownAt(m, w, p) \/ ShownAt(r, w, p)
<1> DEFINE W == desk.windows
           n == Len(W)
<1>1. /\ n \in Nat /\ DOMAIN W = 1..n /\ DOMAIN list = 1..n
      /\ \A i \in 1..n : list[i].id = W[i].id
      /\ \A i \in 1..n : Under(list, i, p) <=> Offered(r, m, i, p)
  <2> DEFINE L == ParseClients(RawClients(r), RawMonitors(m))
  <2>1. list = L
    OBVIOUS
  <2>2. /\ DOMAIN L = 1..Len(W)
        /\ \A i \in DOMAIN W : L[i].id = W[i].id /\ (Under(L, i, p) <=> Offered(r, m, i, p))
    BY HyprlandOffers
  <2>3. Len(W) \in Nat /\ DOMAIN W = 1..Len(W)
    BY Fitted
  <2> HIDE DEF L, W
  <2>4. QED
    BY <2>1, <2>2, <2>3
<1> HIDE DEF n
<1>2. PICK k \in 1..n : WindowAt(list, p) = list[k].id /\ Under(list, k, p)
  BY <1>1, FirstUnder
<1>3. Win(WindowAt(list, p)) = W[k] /\ Offered(r, m, k, p)
  BY <1>1, <1>2, KnownById
<1> DEFINE w == W[k]
           o == r.home[w.ws]
<1>4. k \in DOMAIN W
  BY <1>1
<1>5. CASE w.pinned
  <2>1. ShownAt(r, w, p)
    BY <1>3, <1>5 DEF Offered, ShownAt, OnShow
  <2>2. QED
    BY <1>3, <2>1
<1>6. CASE ~w.pinned
  <2>1. w.ws \in {m.shows[o], m.special[o]} /\ o \in Outs /\ w.ws # 0
    <3>1. o \in Outs
      BY <1>4, LiesAt
    <3>2. Len(desk.layout.home) \in Nat /\ DOMAIN r.home = 1..Len(desk.layout.home)
          /\ w.ws \in DOMAIN r.home
      BY <1>4, Fitted
    <3>3. QED
      BY <1>3, <1>6, <3>1, <3>2 DEF Offered
  <2>2. m.home[w.ws] = o
    BY <2>1, Placings
  <2>3. Lies(m, w) = Lies(r, w)
    BY <2>2 DEF Lies
  <2>4. ShownAt(m, w, p)
    BY <1>3, <1>6, <2>2, <2>3 DEF Offered, ShownAt, OnShow
  <2>5. QED
    BY <1>3, <2>4
<1>7. QED
  BY <1>5, <1>6

(***************************************************************************)
(* Sway's list (wm/sway.rs) is right of the moment of its one answer.      *)
(***************************************************************************)
LEMMA SwayShows ==
    ASSUME NEW m, Fits(m), desk.backend = "sway"
    PROVE  \E n, win : Shows(SwayClients(Tree(m)), m, n, win)
<1> DEFINE W == desk.windows
           found == Walked(Tree(m), "list")
           n == Len(found)
           L == SwayClients(Tree(m))
<1>1. PICK win : WindowLevel(m, "list", found, win)
  BY WalkFindsWindows
<1>2. Tiles(desk)
  BY DeskAssumption DEF Fits
<1>3. /\ IsSeq(found) /\ n \in Nat /\ DOMAIN found = 1..n
      /\ \A k \in 1..n : win[k] \in DOMAIN W /\ found[k] = Leaf(m, W[win[k]])
      /\ \A i \in DOMAIN W : \E k \in 1..n : win[k] = i
      /\ \A k, l \in 1..n : k < l /\ W[win[k]].ws = W[win[l]].ws => win[k] <= win[l]
  BY <1>1, <1>2, SeqFacts DEF WindowLevel
<1>4. L = [i \in DOMAIN found |->
              WmWindow(found[i].id, found[i].rect, TRUE, ~found[i].visible)]
  BY DEF SwayClients, CollectWindows, WindowFields
<1> HIDE DEF found, n, L
<1>5. DOMAIN L = 1..n
  BY <1>3, <1>4
<1>6. ASSUME NEW k \in 1..n
      PROVE  LET w == W[win[k]]
             IN /\ L[k].id = w.id /\ L[k].rect = Lies(m, w) /\ L[k].mapped
                /\ L[k].hidden <=> ~OnShow(m, w)
  <2> DEFINE w == W[win[k]]
             leaf == Leaf(m, w)
             gone == ~leaf.visible
             yes == TRUE
  <2>1. found[k] = leaf
    BY <1>3
  <2>2. leaf.id = w.id /\ leaf.rect = Lies(m, w) /\ (leaf.visible <=> OnShow(m, w))
    BY DEF Leaf
  <2> HIDE DEF leaf
  <2>3. L[k] = WmWindow(leaf.id, leaf.rect, yes, gone)
    BY <1>3, <1>4, <2>1
  <2>4. yes /\ (gone <=> ~OnShow(m, w))
    BY <2>2
  <2> HIDE DEF yes, gone, w
  <2>5. L[k].id = leaf.id /\ L[k].rect = leaf.rect /\ L[k].mapped = yes /\ L[k].hidden = gone
    BY <2>3, Made
  <2>6. QED
    BY <2>2, <2>4, <2>5 DEF w
<1>7. ASSUME NEW k \in 1..n, NEW p \in desk.points
      PROVE  Under(L, k, p) <=> ShownAt(m, W[win[k]], p)
  <2> DEFINE i == win[k]
             w == W[i]
             o == m.home[w.ws]
             area == desk.outputs[o].area
             lies == Lies(m, w)
             over == w.floating /\ ~w.full
  <2>1. i \in DOMAIN W
    BY <1>3
  <2>a. lies \in Rects /\ lies # None /\ o \in Outs /\ area \in Rects /\ w.rect \in Rects
    BY <2>1, LiesAt, Fitted
  <2>b. lies = [x |-> w.rect.x + area.x, y |-> w.rect.y + area.y,
                w |-> w.rect.w, h |-> w.rect.h]
    BY <2>1, LiesAt
  <2>2. p[1] \in Int /\ p[2] \in Int
    BY PointsAreNumbers
  <2>3. ~over => /\ w.rect.x >= 0 /\ Right(w.rect) <= area.w
                 /\ w.rect.y >= 0 /\ Bottom(w.rect) <= area.h
    BY <1>2, <2>1, <2>a, Fitted DEF Tiles, Outs
  <2>4. ~over /\ Within(lies, p[1], p[2]) => Within(area, p[1], p[2])
    <3> SUFFICES ASSUME ~over, Within(lies, p[1], p[2]) PROVE Within(area, p[1], p[2])
      OBVIOUS
    <3> DEFINE r == w.rect
    <3>1. /\ r.x \in Int /\ r.y \in Int /\ r.w \in Nat /\ r.h \in Nat
          /\ area.x \in Int /\ area.y \in Int /\ area.w \in Nat /\ area.h \in Nat
      BY <2>a DEF Rects
    <3>2. /\ r.x >= 0 /\ r.x + r.w <= area.w /\ r.y >= 0 /\ r.y + r.h <= area.h
      BY <2>3 DEF Right, Bottom
    <3> HIDE DEF lies, over, area
    <3>a. /\ lies.x = r.x + area.x /\ lies.y = r.y + area.y
          /\ lies.w = r.w /\ lies.h = r.h
      BY <2>b
    <3> HIDE DEF r
    <3>3. /\ r.x + area.x <= p[1] /\ p[1] < r.x + area.x + r.w
          /\ r.y + area.y <= p[2] /\ p[2] < r.y + area.y + r.h
      BY <2>2, <3>1, <3>a DEF Within, Right, Bottom
    <3>4. QED
      BY <2>2, <3>1, <3>2, <3>3 DEF Within, Right, Bottom
  <2>5. ShownAt(m, w, p) <=> OnShow(m, w) /\ Within(lies, p[1], p[2])
    BY <2>a, <2>2, <2>4 DEF ShownAt
  <2>6. L[k].rect = lies /\ L[k].mapped /\ (L[k].hidden <=> ~OnShow(m, w))
    BY <1>6
  <2> HIDE DEF lies, w
  <2>7. QED
    BY <2>a, <2>5, <2>6 DEF Under, w
<1>8. \A k \in 1..n : L[k].id = W[win[k]].id
  BY <1>6
<1>9. Shows(L, m, n, win)
  BY <1>3, <1>5, <1>7, <1>8 DEF Shows, Complete
<1>10. QED
  BY <1>9 DEF L

(***************************************************************************)
(* Niri's rectangles (wm/niri.rs) are where the windows lie, or none.      *)
(***************************************************************************)
LEMMA NiriPlaces ==
    ASSUME NEW m, Fits(m), NEW q, NEW i \in DOMAIN desk.windows
    PROVE  NiriRect(desk.windows[i], m, q)
               = IF desk.windows[i].inView /\ m.home[desk.windows[i].ws] \in Plugged(q)
                 THEN Lies(m, desk.windows[i]) ELSE None
<1> DEFINE w == desk.windows[i]
           o == m.home[w.ws]
           area == desk.outputs[o].area
           tile == LayoutOf(w)
<1>1. Lies(m, w) = [x |-> w.rect.x + area.x, y |-> w.rect.y + area.y,
                    w |-> w.rect.w, h |-> w.rect.h]
  BY LiesAt
<1>2. w.rect \in Rects /\ w.inView \in BOOLEAN
  BY Fitted
<1>3. /\ tile.pos = IF w.inView THEN <<w.rect.x, w.rect.y>> ELSE None
      /\ tile.size = <<w.rect.w, w.rect.h>>
  BY DEF LayoutOf
<1>4. <<w.rect.x, w.rect.y>> # None
  <2>1. <<w.rect.x, w.rect.y>> \in Int \X Int
    BY <1>2 DEF Rects
  <2>2. QED
    BY <2>1, DeskAssumption
<1>5. NiriRect(w, m, q) = IF tile.pos = None \/ o \notin Plugged(q) THEN None
                          ELSE [x |-> tile.pos[1] + area.x, y |-> tile.pos[2] + area.y,
                                w |-> tile.size[1], h |-> tile.size[2]]
  BY DEF NiriRect, ResolveRect
<1> HIDE DEF tile, area, o
<1>6. CASE w.inView
  <2>1. tile.pos[1] = w.rect.x /\ tile.pos[2] = w.rect.y /\ tile.pos # None
        /\ tile.size[1] = w.rect.w /\ tile.size[2] = w.rect.h
    BY <1>3, <1>4, <1>6
  <2>2. NiriRect(w, m, q) = IF o \in Plugged(q) THEN Lies(m, w) ELSE None
    BY <1>1, <1>5, <2>1
  <2>3. QED
    BY <1>6, <2>2 DEF o
<1>7. CASE ~w.inView
  BY <1>3, <1>5, <1>7
<1>8. QED
  BY <1>6, <1>7

\* The window i lies under p on its workspace.
Lain(m, i, p) ==
    desk.windows[i].inView /\ Within(Lies(m, desk.windows[i]), p[1], p[2])

(***************************************************************************)
(* Niri's list offers a window where it lies, if its output was listed.    *)
(***************************************************************************)
LEMMA NiriOffers ==
    ASSUME NEW m, Fits(m), NEW q, desk.backend = "niri", list = NiriClients(m, q)
    PROVE  /\ DOMAIN list = 1..Len(desk.windows)
           /\ \A i \in DOMAIN desk.windows :
                /\ list[i].id = desk.windows[i].id
                /\ \A p : /\ Under(list, i, p)
                             <=> Lain(m, i, p) /\ m.home[desk.windows[i].ws] \in Plugged(q)
                          /\ Lain(m, i, p) <=> Said(m, desk.windows[i], p)
<1> DEFINE W == desk.windows
           n == Len(W)
<1>1. n \in Nat /\ DOMAIN W = 1..n /\ DOMAIN list = 1..n
  BY Fitted DEF NiriClients
<1>2. ASSUME NEW i \in 1..n
      PROVE  /\ list[i].id = W[i].id
             /\ \A p : Under(list, i, p) <=> Lain(m, i, p) /\ m.home[W[i].ws] \in Plugged(q)
  <2> DEFINE rect == NiriRect(W[i], m, q)
             gone == rect = None
             yes == TRUE
  <2>1. list[i] = WmWindow(W[i].id, rect, yes, gone)
    BY <1>1 DEF NiriClients
  <2>2. rect = IF W[i].inView /\ m.home[W[i].ws] \in Plugged(q) THEN Lies(m, W[i]) ELSE None
    BY <1>1, NiriPlaces
  <2>3. Lies(m, W[i]) # None /\ W[i].inView \in BOOLEAN
    BY <1>1, LiesAt, Fitted
  <2>4. yes /\ (gone <=> rect = None)
    OBVIOUS
  <2> HIDE DEF rect, gone, yes
  <2>5. list[i].id = W[i].id /\ list[i].rect = rect /\ list[i].mapped = yes
        /\ list[i].hidden = gone
    BY <2>1, Made
  <2>6. QED
    BY <2>2, <2>3, <2>4, <2>5 DEF Under, Lain
<1>3. \A i, p : Lain(m, i, p) <=> Said(m, W[i], p)
  BY DEF Said, Lain
<1>4. QED
  BY <1>1, <1>2, <1>3

(***************************************************************************)
(* Wherever the workspaces were meanwhile, a window that Niri's list finds *)
(* lay there when its second answer came.                                  *)
(***************************************************************************)
LEMMA NiriFinds ==
    ASSUME NEW m, Fits(m), NEW q, desk.backend = "niri", list = NiriClients(m, q),
           NEW p, WindowAt(list, p) # None
    PROVE  Said(m, Win(WindowAt(list, p)), p)
<1> DEFINE n == Len(desk.windows)
<1>1. n \in Nat /\ DOMAIN desk.windows = 1..n /\ DOMAIN list = 1..n
  BY Fitted, NiriOffers
<1> HIDE DEF n
<1>2. PICK k \in 1..n : WindowAt(list, p) = list[k].id /\ Under(list, k, p)
  BY <1>1, FirstUnder
<1>3. k \in DOMAIN desk.windows
  BY <1>1
<1>4. list[k].id = desk.windows[k].id /\ Said(m, desk.windows[k], p)
  BY <1>2, <1>3, NiriOffers
<1>5. QED
  BY <1>2, <1>3, <1>4, KnownById

(***************************************************************************)
(* Niri's list is right of the moment its second answer came, if the       *)
(* workspaces were where they are in the third.                            *)
(***************************************************************************)
LEMMA NiriTrue ==
    ASSUME NEW m, Fits(m), NEW q, Fits(q), q.home = m.home,
           desk.backend = "niri", list = NiriClients(m, q)
    PROVE  TrueOf(m)
<1> DEFINE W == desk.windows
           n == Len(W)
<1>1. n \in Nat /\ DOMAIN W = 1..n /\ DOMAIN list = 1..n
  BY Fitted, NiriOffers
<1>2. \A i \in 1..n : \A p : Under(list, i, p) <=> Said(m, W[i], p)
  <2>1. \A i \in 1..n : m.home[W[i].ws] \in Plugged(q)
    BY <1>1, Fitted
  <2>2. QED
    BY <1>1, <2>1, NiriOffers
<1>3. \A w \in Range(W) : \E i \in 1..n : w = W[i]
  BY <1>1 DEF Range
<1> HIDE DEF W, n
<1>4. ASSUME NEW p \in desk.points
      PROVE  LET hit == WindowAt(list, p)
             IN IF hit = None THEN ~\E w \in Range(W) : Said(m, w, p)
                ELSE Said(m, Win(hit), p)
  <2>1. CASE WindowAt(list, p) = None
    <3>1. \/ \A i \in 1..n : ~Under(list, i, p)
          \/ \E k \in 1..n : list[k].id = None
      BY <1>1, <2>1, FirstUnder
    <3>2. \A k \in 1..n : list[k].id # None
      BY <1>1, NiriOffers, Fitted DEF W, n
    <3>3. QED
      BY <1>2, <1>3, <2>1, <3>1, <3>2
  <2>2. CASE WindowAt(list, p) # None
    BY <2>2, NiriFinds
  <2>3. QED
    BY <2>1, <2>2
<1>5. desk.backend \notin {"hyprland", "sway"}
  OBVIOUS
<1>6. QED
  BY <1>4, <1>5 DEF TrueOf, W

(***************************************************************************)
(* A foreign toplevel manager's list (wm/foreign_toplevel.rs) finds nothing. *)
(***************************************************************************)
LEMMA ForeignTrue ==
    ASSUME NEW m, Fits(m), desk.backend = "foreign", list = ForeignClients
    PROVE  TrueOf(m) /\ \A p : WindowAt(list, p) = None
<1> DEFINE W == desk.windows
           n == Len(W)
<1>1. n \in Nat /\ DOMAIN list = 1..n
  BY Fitted DEF ForeignClients
<1>2. \A i \in 1..n : list[i].rect = None
  BY Fitted DEF ForeignClients, WmWindow
<1>3. \A p : WindowAt(list, p) = None
  BY <1>1, <1>2, FirstUnder DEF Under
<1>4. \A w, p : ~Said(m, w, p)
  BY DEF Said
<1>5. QED
  BY <1>3, <1>4 DEF TrueOf

(***************************************************************************)
(* The first focused leaf of the tree is the focused window.               *)
(***************************************************************************)
LEMMA FocusFound ==
    ASSUME NEW m, Fits(m)
    PROVE  FindFocused(Tree(m)) = IF desk.focused = None THEN <<>>
                                  ELSE <<Leaf(m, Win(desk.focused))>>
<1> DEFINE W == desk.windows
           leaves == Walked(Tree(m), "focus")
           n == Len(leaves)
           focused == {k \in DOMAIN leaves : leaves[k].focused}
<1>1. PICK win : WindowLevel(m, "focus", leaves, win)
  BY WalkFindsWindows
<1>2. /\ n \in Nat /\ DOMAIN leaves = 1..n
      /\ \A k \in 1..n : win[k] \in DOMAIN W /\ leaves[k] = Leaf(m, W[win[k]])
      /\ \A i \in DOMAIN W : \E k \in 1..n : win[k] = i
  BY <1>1, SeqFacts DEF WindowLevel
<1>3. FindFocused(Tree(m)) = IF focused = {} THEN <<>> ELSE <<leaves[Min(focused)]>>
  BY DEF FindFocused
<1> HIDE DEF leaves, n
<1>4. \A k : k \in focused <=> k \in 1..n /\ W[win[k]].id = desk.focused
  <2> SUFFICES ASSUME NEW k PROVE k \in focused <=> k \in 1..n /\ W[win[k]].id = desk.focused
    OBVIOUS
  <2>1. ASSUME k \in 1..n
        PROVE  leaves[k].focused <=> W[win[k]].id = desk.focused
    <3>1. leaves[k] = Leaf(m, W[win[k]])
      BY <1>2, <2>1
    <3>2. Leaf(m, W[win[k]]).focused <=> W[win[k]].id = desk.focused
      BY DEF Leaf
    <3>3. QED
      BY <3>1, <3>2
  <2>2. QED
    BY <1>2, <2>1
<1> HIDE DEF focused
<1>5. \A i \in DOMAIN W : W[i].id # None /\ Win(W[i].id) = W[i]
  BY Fitted, KnownById
<1>6. desk.focused = None \/ \E i \in DOMAIN W : W[i].id = desk.focused
  <2>1. desk.focused \in {None} \cup {w.id : w \in Range(W)}
    BY DeskAssumption DEF Fits, WindowsOK
  <2>2. QED
    BY <2>1 DEF Range
<1> HIDE DEF W
<1>7. CASE desk.focused = None
  <2>1. focused = {}
    BY <1>2, <1>4, <1>5, <1>7
  <2>2. QED
    BY <1>3, <1>7, <2>1
<1>8. CASE desk.focused # None
  <2>1. focused # {} /\ focused \in SUBSET (1..n)
    BY <1>2, <1>4, <1>6, <1>8
  <2>2. Min(focused) \in focused
    BY <1>2, <2>1, LeastOf
  <2> DEFINE k == Min(focused)
  <2> HIDE DEF k
  <2>3. k \in 1..n /\ W[win[k]].id = desk.focused
    BY <1>4, <2>2 DEF k
  <2>4. leaves[k] = Leaf(m, W[win[k]]) /\ Win(desk.focused) = W[win[k]]
    BY <1>2, <1>5, <2>3
  <2>5. QED
    BY <1>3, <1>8, <2>1, <2>4 DEF k
<1>9. QED
  BY <1>7, <1>8

(***************************************************************************)
(* The active window of each backend.                                      *)
(***************************************************************************)
LEMMA ActiveTrue ==
    ASSUME NEW r, list = ActiveFrom(r),
           NEW m, Fits(m), m = IF desk.backend = "niri" THEN r[2] ELSE r[1],
           desk.backend = "niri" => Fits(r[3])
    PROVE  \/ ActiveIn(m)
           \/ desk.backend = "niri" /\ r[3].home # m.home /\ ActiveAs(None)
<1> DEFINE f == desk.focused
           w == Win(f)
<1>1. desk.backend \in {"hyprland", "sway", "niri", "foreign"}
  BY DeskAssumption DEF Fits, BackendOK
<1>2. f = None \/ \E i \in DOMAIN desk.windows : w = desk.windows[i]
  <2>1. f \in {None} \cup {v.id : v \in Range(desk.windows)}
    BY DeskAssumption DEF Fits, WindowsOK
  <2>2. f = None \/ \E i \in DOMAIN desk.windows : desk.windows[i].id = f
    BY <2>1 DEF Range
  <2>3. QED
    BY <2>2, KnownById
<1> HIDE DEF w
<1>3. CASE desk.backend = "hyprland"
  <2>1. list = IF f = None THEN <<>> ELSE <<WmWindow(f, Lies(m, w), TRUE, FALSE)>>
    BY <1>3 DEF ActiveFrom, HyprlandActive, Active, w
  <2>2. QED
    BY <1>3, <2>1 DEF ActiveIn, ActiveAs, w
<1>4. CASE desk.backend = "sway"
  <2>1. FindFocused(Tree(m)) = IF f = None THEN <<>> ELSE <<Leaf(m, w)>>
    BY FocusFound DEF w
  <2>2. list = SwayActive(m)
    BY <1>4 DEF ActiveFrom
  <2>3. CASE f = None
    <3>1. list = <<>>
      BY <2>1, <2>2, <2>3 DEF SwayActive
    <3>2. QED
      BY <2>3, <3>1 DEF ActiveIn, ActiveAs
  <2>4. CASE f # None
    <3> DEFINE leaf == Leaf(m, w)
    <3>1. w.id = f
      <4>1. PICK i \in DOMAIN desk.windows : desk.windows[i].id = f
        <5>1. f \in {None} \cup {v.id : v \in Range(desk.windows)}
          BY DeskAssumption DEF Fits, WindowsOK
        <5>2. QED
          BY <2>4, <5>1 DEF Range
      <4>2. Win(desk.windows[i].id) = desk.windows[i]
        BY KnownById
      <4>3. QED
        BY <4>1, <4>2 DEF w
    <3>2. leaf.id = w.id /\ leaf.rect = Lies(m, w)
      BY DEF Leaf
    <3> HIDE DEF leaf
    <3>3. FindFocused(Tree(m)) = <<leaf>> /\ <<leaf>> # <<>> /\ <<leaf>>[1] = leaf
      BY <2>1, <2>4 DEF leaf
    <3>4. list = <<WmWindow(leaf.id, leaf.rect, TRUE, FALSE)>>
      BY <2>2, <3>3 DEF SwayActive, WindowFields
    <3>5. QED
      BY <1>4, <2>4, <3>1, <3>2, <3>4 DEF ActiveIn, ActiveAs, w
  <2>5. QED
    BY <2>3, <2>4
<1>5. CASE desk.backend = "niri"
  <2>1. list = IF f = None THEN <<>> ELSE <<WmWindow(f, NiriRect(w, m, r[3]), TRUE, FALSE)>>
    BY <1>5 DEF ActiveFrom, NiriActive, Active, w
  <2>2. f # None => NiriRect(w, m, r[3])
                        = IF w.inView /\ m.home[w.ws] \in Plugged(r[3]) THEN Lies(m, w) ELSE None
    BY <1>2, NiriPlaces
  <2>3. f # None => w.inView \in BOOLEAN /\ w.ws \in DOMAIN m.home
    BY <1>2, Fitted
  <2>4. f # None /\ r[3].home = m.home => m.home[w.ws] \in Plugged(r[3])
    BY <1>2, <1>5, Fitted
  <2> HIDE DEF f
  <2>5. CASE f # None /\ w.inView /\ m.home[w.ws] \notin Plugged(r[3])
    <3>1. ActiveAs(None)
      BY <2>1, <2>2, <2>5 DEF ActiveAs, f
    <3>2. QED
      BY <1>5, <2>4, <2>5, <3>1
  <2>6. CASE ~(f # None /\ w.inView /\ m.home[w.ws] \notin Plugged(r[3]))
    BY <1>5, <2>1, <2>2, <2>3, <2>6 DEF ActiveIn, ActiveAs, w, f
  <2>7. QED
    BY <2>5, <2>6
<1>6. CASE desk.backend = "foreign"
  BY <1>6 DEF ActiveFrom, ForeignActive, Active, ActiveIn, ActiveAs
<1>7. QED
  BY <1>1, <1>3, <1>4, <1>5, <1>6

-----------------------------------------------------------------------------
(* A call, while workspaces move *)

Answer == IF call = "clients" THEN WindowsFrom(replies) ELSE ActiveFrom(replies)

(***************************************************************************)
(* Each answer is a layout since the call began, and what the call returns *)
(* is made of its answers.                                                 *)
(***************************************************************************)
ListInv ==
    /\ desk \in Desks /\ shuffles \in 0..MaxShuffles
    /\ layout \in Layouts(desk) /\ \A m \in moments : m \in Layouts(desk)
    /\ call \in {"idle", "clients", "active"}
    /\ IsSeq(replies) /\ Len(replies) <= Queries(call)
    /\ call = "idle" => replies = <<>>
    /\ call # "idle" => layout \in moments
    /\ \A k \in 1..Len(replies) : replies[k] \in moments
    /\ call # "idle" /\ Len(replies) = Queries(call) => list = Answer

(***************************************************************************)
(* A call makes at least one query.                                        *)
(***************************************************************************)
LEMMA QueriesCount == ASSUME NEW c PROVE Queries(c) \in 1..3
  BY DEF Queries

(***************************************************************************)
(* A list that finds nothing but what was there, and is true of one moment *)
(* unless workspaces changed outputs.                                      *)
(***************************************************************************)
LEMMA ClientsShown ==
    ASSUME ListInv, call = "clients", Len(replies) = Queries(call)
    PROVE  HitsTrue /\ (Mixed \/ \E m \in moments : TrueOf(m))
<1>1. desk.backend \in {"hyprland", "sway", "niri", "foreign"}
  BY DeskAssumption DEF ListInv, BackendOK
<1>2. \A k \in 1..Len(replies) : replies[k] \in moments /\ Fits(replies[k])
  BY DEF ListInv, Fits
<1>3. list = WindowsFrom(replies)
  BY DEF ListInv, Answer
<1>4. CASE desk.backend = "hyprland"
  <2> DEFINE r == replies[1]
             m == replies[2]
  <2>1. Len(replies) = 2 /\ Queries(call) = 2
    BY <1>4 DEF Queries
  <2>2. 1 \in 1..Len(replies) /\ 2 \in 1..Len(replies)
    BY <2>1
  <2>3. m \in moments /\ Fits(m) /\ r \in moments /\ Fits(r)
    BY <1>2, <2>2
  <2>4. list = ParseClients(RawClients(r), RawMonitors(m))
    BY <1>3, <1>4 DEF WindowsFrom
  <2> HIDE DEF r, m
  <2>5. \A w, n, p : Said(n, w, p) <=> ShownAt(n, w, p)
    BY <1>4 DEF Said
  <2>6. HitsTrue
    <3> SUFFICES ASSUME NEW p \in desk.points, WindowAt(list, p) # None
                 PROVE  \E n \in moments : Said(n, Win(WindowAt(list, p)), p)
      BY DEF HitsTrue
    <3>1. \/ ShownAt(m, Win(WindowAt(list, p)), p)
          \/ ShownAt(r, Win(WindowAt(list, p)), p)
      BY <1>4, <2>3, <2>4, HyprlandFinds
    <3>2. QED
      BY <2>3, <2>5, <3>1
  <2>7. ASSUME ~Mixed PROVE TrueOf(m)
    <3>1. r.home = m.home
      BY <2>1, <2>3, <2>7 DEF Mixed
    <3>2. \E n, win : Shows(list, m, n, win)
      BY <1>4, <2>3, <2>4, <3>1, HyprlandShows
    <3>3. QED
      BY <1>4, <2>3, <3>2, ListShows
  <2>8. QED
    BY <2>3, <2>6, <2>7
<1>5. ASSUME NEW m \in moments, TrueOf(m)
      PROVE  HitsTrue
  BY <1>5 DEF TrueOf, HitsTrue
<1>6. CASE desk.backend = "sway"
  <2> DEFINE m == replies[1]
  <2>1. Len(replies) = 1
    BY <1>6 DEF Queries
  <2>2. 1 \in 1..Len(replies)
    BY <2>1
  <2>3. m \in moments /\ Fits(m)
    BY <1>2, <2>2
  <2>4. list = SwayClients(Tree(m))
    BY <1>3, <1>6 DEF WindowsFrom
  <2> HIDE DEF m
  <2>5. \E n, win : Shows(list, m, n, win)
    BY <1>6, <2>3, <2>4, SwayShows
  <2>6. TrueOf(m)
    BY <1>6, <2>3, <2>5, ListShows
  <2>7. QED
    BY <1>5, <2>3, <2>6
<1>7. CASE desk.backend = "niri"
  <2> DEFINE m == replies[2]
             q == replies[3]
  <2>1. Len(replies) = 3 /\ Queries(call) = 3
    BY <1>7 DEF Queries
  <2>2. 2 \in 1..Len(replies) /\ 3 \in 1..Len(replies)
    BY <2>1
  <2>3. m \in moments /\ Fits(m) /\ q \in moments /\ Fits(q)
    BY <1>2, <2>2
  <2>4. list = NiriClients(m, q)
    BY <1>3, <1>7 DEF WindowsFrom
  <2> HIDE DEF m, q
  <2>5. HitsTrue
    BY <1>7, <2>3, <2>4, NiriFinds DEF HitsTrue
  <2>6. ASSUME ~Mixed PROVE TrueOf(m)
    <3>1. q.home = m.home
      BY <2>1, <2>3, <2>6 DEF Mixed
    <3>2. QED
      BY <1>7, <2>3, <2>4, <3>1, NiriTrue
  <2>7. QED
    BY <2>3, <2>5, <2>6
<1>8. CASE desk.backend = "foreign"
  <2> DEFINE m == replies[1]
  <2>1. Len(replies) = 1
    BY <1>8 DEF Queries
  <2>2. 1 \in 1..Len(replies)
    BY <2>1
  <2>3. m \in moments /\ Fits(m)
    BY <1>2, <2>2
  <2>4. list = ForeignClients
    BY <1>3, <1>8 DEF WindowsFrom
  <2> HIDE DEF m
  <2>5. TrueOf(m)
    BY <1>8, <2>3, <2>4, ForeignTrue
  <2>6. QED
    BY <1>5, <2>3, <2>5
<1>9. QED
  BY <1>1, <1>4, <1>6, <1>7, <1>8

(***************************************************************************)
(* The active window is where it was at one moment, or without a place.    *)
(***************************************************************************)
LEMMA ActiveShown ==
    ASSUME ListInv, call = "active", Len(replies) = Queries(call)
    PROVE  (Mixed /\ ActiveAs(None)) \/ \E m \in moments : ActiveIn(m)
<1>1. \A k \in 1..Len(replies) : replies[k] \in moments /\ Fits(replies[k])
  BY DEF ListInv, Fits
<1>2. list = ActiveFrom(replies)
  BY DEF ListInv, Answer
<1>3. Len(replies) = IF desk.backend = "niri" THEN 3 ELSE 1
  BY DEF Queries
<1> DEFINE k == IF desk.backend = "niri" THEN 2 ELSE 1
           m == replies[k]
<1>4. k \in 1..Len(replies) /\ (desk.backend = "niri" => 3 \in 1..Len(replies))
  BY <1>3
<1>5. /\ m \in moments /\ Fits(m)
      /\ desk.backend = "niri" => replies[3] \in moments /\ Fits(replies[3])
  BY <1>1, <1>4
<1>6. m = IF desk.backend = "niri" THEN replies[2] ELSE replies[1]
  OBVIOUS
<1> HIDE DEF m
<1>7. \/ ActiveIn(m)
      \/ desk.backend = "niri" /\ replies[3].home # m.home /\ ActiveAs(None)
  BY <1>2, <1>5, <1>6, ActiveTrue
<1>8. desk.backend = "niri" => Queries(call) > 1
  BY DEF Queries
<1>9. QED
  BY <1>5, <1>7, <1>8 DEF Mixed

(***************************************************************************)
(* The invariant says what is claimed of a call.                           *)
(***************************************************************************)
LEMMA ListInvShows == ListInv => HitIsShown
<1> SUFFICES ASSUME ListInv PROVE HitIsShown
  OBVIOUS
<1>1. CallComplete /\ call = "clients" =>
        HitsTrue /\ (Mixed \/ \E m \in moments : TrueOf(m))
  BY ClientsShown DEF CallComplete
<1>2. CallComplete /\ call = "active" =>
        (Mixed /\ ActiveAs(None)) \/ \E m \in moments : ActiveIn(m)
  BY ActiveShown DEF CallComplete
<1>3. QED
  BY <1>1, <1>2 DEF HitIsShown

(***************************************************************************)
(* It holds before the first call.                                         *)
(***************************************************************************)
LEMMA ListInvInit == ListInit => ListInv
<1> SUFFICES ASSUME ListInit PROVE ListInv
  OBVIOUS
<1>1. desk \in Desks /\ layout = desk.layout /\ call = "idle" /\ replies = <<>>
      /\ moments = {} /\ shuffles = 0
  BY DEF ListInit
<1>2. LayoutOK(desk) /\ MaxShuffles \in Nat
  BY <1>1, DeskAssumption
<1>3. layout \in Layouts(desk)
  BY <1>1, <1>2 DEF LayoutOK
<1>4. IsSeq(replies) /\ Len(replies) = 0
  BY <1>1, EmptyIsSeq
<1>5. Len(replies) <= Queries(call) /\ 0 \in 0..MaxShuffles
  BY <1>2, <1>4, QueriesCount
<1>6. QED
  BY <1>1, <1>3, <1>4, <1>5 DEF ListInv

(***************************************************************************)
(* A layout taken apart, and put together.                                 *)
(***************************************************************************)
LEMMA LayoutParts ==
    ASSUME desk \in Desks, NEW m \in Layouts(desk)
    PROVE  LET spaces == DOMAIN desk.layout.home
           IN /\ m = [shows |-> m.shows, special |-> m.special, home |-> m.home]
              /\ m.shows \in [Outs -> (spaces \ desk.specials) \cup {0}]
              /\ m.special \in [Outs -> desk.specials \cup {0}]
              /\ m.home \in [spaces -> Outs]
              /\ \A o \in Outs : m.shows[o] # 0 => m.home[m.shows[o]] = o
              /\ \A o \in Outs : m.special[o] # 0 => m.home[m.special[o]] = o
              /\ \A ws \in spaces : m.shows[m.home[ws]] # 0
              /\ desk.specials \subseteq spaces /\ 0 \notin spaces
<1>1. LayoutOK(desk)
  BY DeskAssumption
<1>2. desk.specials \subseteq DOMAIN desk.layout.home /\ 0 \notin DOMAIN desk.layout.home
  BY <1>1 DEF LayoutOK
<1>3. QED
  BY <1>2 DEF Layouts, Outs

LEMMA LayoutMade ==
    ASSUME desk \in Desks, NEW shows, NEW special, NEW home,
           shows \in [Outs -> (DOMAIN desk.layout.home \ desk.specials) \cup {0}],
           special \in [Outs -> desk.specials \cup {0}],
           home \in [DOMAIN desk.layout.home -> Outs],
           \A o \in Outs : shows[o] # 0 => home[shows[o]] = o,
           \A o \in Outs : special[o] # 0 => home[special[o]] = o,
           \A ws \in DOMAIN desk.layout.home : shows[home[ws]] # 0
    PROVE  [shows |-> shows, special |-> special, home |-> home] \in Layouts(desk)
  BY DEF Layouts, Outs

(***************************************************************************)
(* What the user makes of a layout is one: a workspace is switched to,     *)
(***************************************************************************)
LEMMA SwitchFits ==
    ASSUME desk \in Desks, layout \in Layouts(desk), NEW ws \in Ordinary
    PROVE  [layout EXCEPT !.shows[layout.home[ws]] = ws] \in Layouts(desk)
<1> DEFINE spaces == DOMAIN desk.layout.home
           shows == [layout.shows EXCEPT ![layout.home[ws]] = ws]
<1>1. ws \in spaces \ desk.specials
  BY LayoutParts DEF Ordinary
<1>2. shows \in [Outs -> (spaces \ desk.specials) \cup {0}]
  BY <1>1, LayoutParts
<1>3. \A o \in Outs : shows[o] = IF o = layout.home[ws] THEN ws ELSE layout.shows[o]
  BY LayoutParts
<1>4. [layout EXCEPT !.shows[layout.home[ws]] = ws]
          = [shows |-> shows, special |-> layout.special, home |-> layout.home]
  BY LayoutParts
<1> HIDE DEF shows
<1>5. \A o \in Outs : shows[o] # 0 => layout.home[shows[o]] = o
  BY <1>3, LayoutParts
<1>6. \A s \in spaces : shows[layout.home[s]] # 0
  BY <1>1, <1>3, LayoutParts
<1>7. QED
  BY <1>2, <1>4, <1>5, <1>6, LayoutParts, LayoutMade

(***************************************************************************)
(* a special workspace is shown or hidden,                                 *)
(***************************************************************************)
LEMMA ToggleFits ==
    ASSUME desk \in Desks, layout \in Layouts(desk), NEW ws \in desk.specials,
           NEW o \in Plugged(layout)
    PROVE  LET hidden == [q \in Outs |-> IF layout.special[q] = ws THEN 0 ELSE layout.special[q]]
           IN /\ [layout EXCEPT !.special = hidden] \in Layouts(desk)
              /\ [shows |-> layout.shows, special |-> [hidden EXCEPT ![o] = ws],
                  home |-> [layout.home EXCEPT ![ws] = o]] \in Layouts(desk)
<1> DEFINE spaces == DOMAIN desk.layout.home
           hidden == [q \in Outs |-> IF layout.special[q] = ws THEN 0 ELSE layout.special[q]]
           over == [hidden EXCEPT ![o] = ws]
           home == [layout.home EXCEPT ![ws] = o]
<1>1. ws \in spaces /\ ws # 0 /\ o \in Outs /\ layout.shows[o] # 0
  BY LayoutParts DEF Plugged
<1>2. /\ hidden \in [Outs -> desk.specials \cup {0}]
      /\ \A q \in Outs : hidden[q] # 0 => hidden[q] = layout.special[q] /\ hidden[q] # ws
  BY LayoutParts
<1>3. [layout EXCEPT !.special = hidden]
          = [shows |-> layout.shows, special |-> hidden, home |-> layout.home]
  BY LayoutParts
<1> HIDE DEF hidden
<1>5. [layout EXCEPT !.special = hidden] \in Layouts(desk)
  BY <1>2, <1>3, LayoutParts, LayoutMade
<1>6. /\ over \in [Outs -> desk.specials \cup {0}]
      /\ \A q \in Outs : over[q] = IF q = o THEN ws ELSE hidden[q]
  BY <1>2
<1>7. /\ home \in [spaces -> Outs]
      /\ \A s \in spaces : home[s] = IF s = ws THEN o ELSE layout.home[s]
  BY <1>1, LayoutParts
<1> HIDE DEF over, home
<1>8. \A q \in Outs : over[q] # 0 => home[over[q]] = q
  <2> SUFFICES ASSUME NEW q \in Outs, over[q] # 0 PROVE home[over[q]] = q
    OBVIOUS
  <2>1. CASE q = o
    BY <1>1, <1>6, <1>7, <2>1
  <2>2. CASE q # o
    <3>1. over[q] = layout.special[q] /\ over[q] # ws
      BY <1>2, <1>6, <2>2
    <3>2. over[q] \in spaces /\ layout.home[over[q]] = q
      BY <3>1, LayoutParts
    <3>3. QED
      BY <1>7, <3>1, <3>2
  <2>3. QED
    BY <2>1, <2>2
<1>9. \A q \in Outs : layout.shows[q] # 0 => home[layout.shows[q]] = q
  BY <1>7, LayoutParts
<1>10. \A s \in spaces : layout.shows[home[s]] # 0
  BY <1>1, <1>7, LayoutParts
<1>11. [shows |-> layout.shows, special |-> over, home |-> home] \in Layouts(desk)
  BY <1>6, <1>7, <1>8, <1>9, <1>10, LayoutParts, LayoutMade
<1>12. QED
  BY <1>5, <1>11 DEF hidden, over, home

(***************************************************************************)
(* a workspace goes to another output,                                     *)
(***************************************************************************)
LEMMA MoveFits ==
    ASSUME desk \in Desks, layout \in Layouts(desk), NEW ws \in Ordinary, NEW o \in Outs,
           layout.home[ws] # o, NEW front \in {ws, layout.shows[o]} \ {0},
           NEW left \in IF layout.shows[layout.home[ws]] = ws
                        THEN {s \in Ordinary \ {ws} : layout.home[s] = layout.home[ws]}
                        ELSE {layout.shows[layout.home[ws]]}
    PROVE  [shows |-> [layout.shows EXCEPT ![o] = front, ![layout.home[ws]] = left],
            special |-> layout.special, home |-> [layout.home EXCEPT ![ws] = o]]
               \in Layouts(desk)
<1> DEFINE spaces == DOMAIN desk.layout.home
           from == layout.home[ws]
           shows == [layout.shows EXCEPT ![o] = front, ![from] = left]
           home == [layout.home EXCEPT ![ws] = o]
<1>1. ws \in spaces \ desk.specials /\ from \in Outs /\ from # o
  BY LayoutParts DEF Ordinary
<1>2. left \in spaces \ desk.specials /\ left # ws /\ layout.home[left] = from
  BY <1>1, LayoutParts DEF Ordinary
<1>3. front \in spaces \ desk.specials /\ front # 0
      /\ (front # ws => layout.home[front] = o)
  BY <1>1, LayoutParts
<1>5. /\ shows \in [Outs -> (spaces \ desk.specials) \cup {0}]
      /\ \A q \in Outs : shows[q] = IF q = from THEN left ELSE
                                    IF q = o THEN front ELSE layout.shows[q]
  BY <1>1, <1>2, <1>3, LayoutParts
<1>6. /\ home \in [spaces -> Outs]
      /\ \A s \in spaces : home[s] = IF s = ws THEN o ELSE layout.home[s]
  BY <1>1, LayoutParts
<1> HIDE DEF shows, home, from
<1>7. \A q \in Outs : shows[q] # 0 => home[shows[q]] = q
  <2> SUFFICES ASSUME NEW q \in Outs, shows[q] # 0 PROVE home[shows[q]] = q
    OBVIOUS
  <2>1. CASE q = from
    BY <1>2, <1>5, <1>6, <2>1
  <2>2. CASE q = o
    BY <1>1, <1>3, <1>5, <1>6, <2>2
  <2>3. CASE q # from /\ q # o
    <3>1. shows[q] = layout.shows[q] /\ layout.home[shows[q]] = q /\ shows[q] \in spaces
      BY <1>5, <2>3, LayoutParts
    <3>2. shows[q] # ws
      BY <2>3, <3>1 DEF from
    <3>3. QED
      BY <1>6, <3>1, <3>2
  <2>4. QED
    BY <2>1, <2>2, <2>3
<1>8. \A q \in Outs : layout.special[q] # 0 => home[layout.special[q]] = q
  <2>1. \A q \in Outs : layout.special[q] # 0 =>
            /\ layout.special[q] \in spaces /\ layout.special[q] # ws
            /\ layout.home[layout.special[q]] = q
    BY <1>1, LayoutParts
  <2>2. QED
    BY <1>6, <2>1
<1>9. \A s \in spaces : shows[home[s]] # 0
  <2> SUFFICES ASSUME NEW s \in spaces PROVE shows[home[s]] # 0
    OBVIOUS
  <2>1. left # 0 /\ layout.home[s] \in Outs /\ layout.shows[layout.home[s]] # 0
    BY <1>2, LayoutParts
  <2>2. home[s] \in Outs /\ (s # ws => home[s] = layout.home[s]) /\ (s = ws => home[s] = o)
    BY <1>6
  <2>3. QED
    BY <1>1, <1>3, <1>5, <2>1, <2>2
<1>10. [shows |-> shows, special |-> layout.special, home |-> home] \in Layouts(desk)
  BY <1>5, <1>6, <1>7, <1>8, <1>9, LayoutParts, LayoutMade
<1>11. QED
  BY <1>10 DEF shows, home, from

(***************************************************************************)
(* and an output is unplugged.                                             *)
(***************************************************************************)
LEMMA UnplugFits ==
    ASSUME desk \in Desks, layout \in Layouts(desk), NEW o \in Plugged(layout),
           NEW to \in Plugged(layout), o # to
    PROVE  [shows |-> [layout.shows EXCEPT ![o] = 0],
            special |-> [layout.special EXCEPT ![o] = 0],
            home |-> [ws \in DOMAIN layout.home |->
                        IF layout.home[ws] = o THEN to ELSE layout.home[ws]]]
               \in Layouts(desk)
<1> DEFINE spaces == DOMAIN desk.layout.home
           shows == [layout.shows EXCEPT ![o] = 0]
           special == [layout.special EXCEPT ![o] = 0]
           home == [ws \in DOMAIN layout.home |->
                        IF layout.home[ws] = o THEN to ELSE layout.home[ws]]
<1>1. o \in Outs /\ to \in Outs /\ layout.shows[to] # 0
  BY DEF Plugged
<1>3. /\ shows \in [Outs -> (spaces \ desk.specials) \cup {0}]
      /\ \A q \in Outs : shows[q] = IF q = o THEN 0 ELSE layout.shows[q]
  BY <1>1, LayoutParts
<1>4. /\ special \in [Outs -> desk.specials \cup {0}]
      /\ \A q \in Outs : special[q] = IF q = o THEN 0 ELSE layout.special[q]
  BY <1>1, LayoutParts
<1>5. /\ home \in [spaces -> Outs]
      /\ \A s \in spaces : home[s] = IF layout.home[s] = o THEN to ELSE layout.home[s]
  BY <1>1, LayoutParts
<1> HIDE DEF shows, special, home
<1>6. \A q \in Outs : shows[q] # 0 => home[shows[q]] = q
  <2>1. \A q \in Outs : shows[q] # 0 =>
            q # o /\ shows[q] \in spaces /\ layout.home[shows[q]] = q
    BY <1>3, LayoutParts
  <2>2. QED
    BY <1>5, <2>1
<1>7. \A q \in Outs : special[q] # 0 => home[special[q]] = q
  <2>1. \A q \in Outs : special[q] # 0 =>
            q # o /\ special[q] \in spaces /\ layout.home[special[q]] = q
    BY <1>4, LayoutParts
  <2>2. QED
    BY <1>5, <2>1
<1>8. \A s \in spaces : shows[home[s]] # 0
  <2>1. \A s \in spaces : layout.home[s] \in Outs /\ layout.shows[layout.home[s]] # 0
    BY LayoutParts
  <2>2. QED
    BY <1>1, <1>3, <1>5, <2>1
<1>9. [shows |-> shows, special |-> special, home |-> home] \in Layouts(desk)
  BY <1>3, <1>4, <1>5, <1>6, <1>7, <1>8, LayoutMade
<1>10. QED
  BY <1>9 DEF shows, special, home

(***************************************************************************)
(* A change of the layout that leaves it possible.                         *)
(***************************************************************************)
LEMMA ShuffleKeeps ==
    ASSUME ListInv, NEW m, Shuffle(m), m \in Layouts(desk)
    PROVE  ListInv'
<1>1. /\ layout' = m /\ moments' = moments \cup {m} /\ shuffles' = shuffles + 1
      /\ desk' = desk /\ call' = call /\ replies' = replies /\ list' = list
      /\ call # "idle" /\ Len(replies) < Queries(call) /\ shuffles < MaxShuffles
  BY DEF Shuffle
<1>2. shuffles' \in 0..MaxShuffles
  BY <1>1, DeskAssumption DEF ListInv
<1>3. /\ Queries(call)' = Queries(call)
      /\ Queries(call) \in 1..3 /\ Len(replies) \in Nat
  BY <1>1, QueriesCount, SeqFacts DEF Queries, ListInv
<1>4. layout' \in Layouts(desk') /\ \A n \in moments' : n \in Layouts(desk')
  BY <1>1 DEF ListInv
<1>5. (Len(replies) = Queries(call))' = FALSE
  BY <1>1, <1>3
<1>6. QED
  BY <1>1, <1>2, <1>3, <1>4, <1>5 DEF ListInv

(***************************************************************************)
(* Every step of a call, and every change of the layout, keeps it.         *)
(***************************************************************************)
LEMMA ListInvStep == ListInv /\ [ListNext]_listVars => ListInv'
<1> SUFFICES ASSUME ListInv, [ListNext]_listVars PROVE ListInv'
  OBVIOUS
<1>0. /\ desk \in Desks /\ layout \in Layouts(desk) /\ shuffles \in 0..MaxShuffles
      /\ Len(replies) \in Nat /\ Queries(call) \in 1..3
  BY QueriesCount, SeqFacts DEF ListInv
<1>1. CASE Ask
  <2>1. /\ call' \in {"clients", "active"} /\ moments' = {layout} /\ replies' = <<>>
        /\ desk' = desk /\ layout' = layout /\ shuffles' = shuffles
    BY <1>1 DEF Ask
  <2>2. IsSeq(replies') /\ Len(replies') = 0
    BY <2>1, EmptyIsSeq
  <2>3. Queries(call)' \in 1..3
    BY QueriesCount DEF Queries
  <2>4. layout' \in Layouts(desk') /\ \A m \in moments' : m \in Layouts(desk')
    BY <2>1 DEF ListInv
  <2>6. Len(replies') <= Queries(call)' /\ ~(Len(replies') = Queries(call)')
        /\ \A k \in 1..Len(replies') : replies'[k] \in moments'
    BY <2>2, <2>3
  <2>7. layout' \in moments' /\ call' # "idle" /\ call' \in {"idle", "clients", "active"}
    BY <2>1
  <2>8. QED
    BY <1>0, <2>1, <2>2, <2>4, <2>6, <2>7 DEF ListInv
<1>2. CASE Replied
  <2>1. /\ call # "idle" /\ Len(replies) < Queries(call) /\ replies' = Append(replies, layout)
        /\ desk' = desk /\ layout' = layout /\ call' = call /\ moments' = moments
        /\ shuffles' = shuffles
        /\ list' = IF Len(replies') < Queries(call) THEN list
                   ELSE IF call = "clients" THEN WindowsFrom(replies') ELSE ActiveFrom(replies')
    BY <1>2 DEF Replied
  <2>2. /\ IsSeq(replies') /\ Len(replies') = Len(replies) + 1
        /\ \A k \in 1..Len(replies) : replies'[k] = replies[k]
        /\ replies'[Len(replies) + 1] = layout
    BY <2>1, Appended DEF ListInv
  <2>3. Queries(call)' = Queries(call)
    BY <2>1 DEF Queries
  <2>4. \A k \in 1..Len(replies') : replies'[k] \in moments'
    <3> SUFFICES ASSUME NEW k \in 1..Len(replies') PROVE replies'[k] \in moments'
      OBVIOUS
    <3>1. k \in 1..Len(replies) \/ k = Len(replies) + 1
      BY <1>0, <2>2
    <3>2. QED
      BY <2>1, <2>2, <3>1 DEF ListInv
  <2>5. layout' \in Layouts(desk') /\ \A m \in moments' : m \in Layouts(desk')
    BY <2>1 DEF ListInv
  <2>7. Len(replies') = Queries(call)' => list' = Answer'
    <3>0. desk' = desk
      BY <2>1
    <3>1. /\ WindowsFrom(replies)' = WindowsFrom(replies')
          /\ ActiveFrom(replies)' = ActiveFrom(replies')
      BY <3>0 DEF WindowsFrom, ActiveFrom, ParseClients, RawClients, RawMonitors, SwayClients,
           Tree, OutputNode, WorkspaceNode, OnWorkspace, Leaf, Lies, OnShow, Outs, Plugged, NiriClients,
           NiriRect, ForeignClients, HyprlandActive, SwayActive, NiriActive, ForeignActive,
           Active, Win
    <3>2. QED
      BY <1>0, <2>1, <2>2, <2>3, <3>1 DEF Answer
  <2>8. Len(replies') <= Queries(call)'
    BY <1>0, <2>1, <2>2, <2>3
  <2>9. QED
    BY <1>0, <2>1, <2>2, <2>4, <2>5, <2>7, <2>8 DEF ListInv
<1>3. CASE CallFails \/ CallReturns
  <2>1. /\ call' = "idle" /\ replies' = <<>>
        /\ desk' = desk /\ layout' = layout /\ moments' = moments /\ shuffles' = shuffles
    BY <1>3 DEF CallFails, CallReturns
  <2>2. IsSeq(replies') /\ Len(replies') = 0
    BY <2>1, EmptyIsSeq
  <2>3. Queries(call)' \in 1..3
    BY QueriesCount DEF Queries
  <2>4. layout' \in Layouts(desk') /\ \A m \in moments' : m \in Layouts(desk')
    BY <2>1 DEF ListInv
  <2>6. Len(replies') <= Queries(call)' /\ \A k \in 1..Len(replies') : replies'[k] \in moments'
    BY <2>2, <2>3
  <2>7. QED
    BY <1>0, <2>1, <2>2, <2>4, <2>6 DEF ListInv
<1>4. CASE WorkspaceSwitched
  <2>1. PICK ws \in Ordinary : Shuffle([layout EXCEPT !.shows[layout.home[ws]] = ws])
    BY <1>4 DEF WorkspaceSwitched
  <2>2. [layout EXCEPT !.shows[layout.home[ws]] = ws] \in Layouts(desk)
    BY <1>0, SwitchFits
  <2>3. QED
    BY <2>1, <2>2, ShuffleKeeps
<1>5. CASE SpecialToggled
  <2> DEFINE Hidden(ws) ==
                [q \in Outs |-> IF layout.special[q] = ws THEN 0 ELSE layout.special[q]]
             Off(ws) == [layout EXCEPT !.special = Hidden(ws)]
             On(ws, o) == [shows |-> layout.shows, special |-> [Hidden(ws) EXCEPT ![o] = ws],
                           home |-> [layout.home EXCEPT ![ws] = o]]
  <2>1. PICK ws \in desk.specials, o \in Plugged(layout) :
            Shuffle(Off(ws)) \/ Shuffle(On(ws, o))
    BY <1>5 DEF SpecialToggled
  <2>2. Off(ws) \in Layouts(desk) /\ On(ws, o) \in Layouts(desk)
    BY <1>0, ToggleFits
  <2> HIDE DEF Off, On
  <2>3. QED
    BY <2>1, <2>2, ShuffleKeeps
<1>6. CASE WorkspaceMoved
  <2> DEFINE Moved(ws, o, front, left) ==
                [shows |-> [layout.shows EXCEPT ![o] = front, ![layout.home[ws]] = left],
                 special |-> layout.special, home |-> [layout.home EXCEPT ![ws] = o]]
             Lefts(ws) == IF layout.shows[layout.home[ws]] = ws
                          THEN {s \in Ordinary \ {ws} : layout.home[s] = layout.home[ws]}
                          ELSE {layout.shows[layout.home[ws]]}
  <2>1. PICK ws \in Ordinary, o \in Outs :
            \E front \in {ws, layout.shows[o]} \ {0}, left \in Lefts(ws) :
                layout.home[ws] # o /\ Shuffle(Moved(ws, o, front, left))
    BY <1>6 DEF WorkspaceMoved
  <2>2. PICK front \in {ws, layout.shows[o]} \ {0}, left \in Lefts(ws) :
            layout.home[ws] # o /\ Shuffle(Moved(ws, o, front, left))
    BY <2>1
  <2>3. Moved(ws, o, front, left) \in Layouts(desk)
    BY <1>0, <2>2, MoveFits
  <2> HIDE DEF Moved
  <2>4. QED
    BY <2>2, <2>3, ShuffleKeeps
<1>7. CASE OutputUnplugged
  <2> DEFINE Gone(o, to) ==
                [shows |-> [layout.shows EXCEPT ![o] = 0],
                 special |-> [layout.special EXCEPT ![o] = 0],
                 home |-> [ws \in DOMAIN layout.home |->
                             IF layout.home[ws] = o THEN to ELSE layout.home[ws]]]
  <2>1. PICK o \in Plugged(layout), to \in Plugged(layout) : o # to /\ Shuffle(Gone(o, to))
    BY <1>7 DEF OutputUnplugged
  <2>2. Gone(o, to) \in Layouts(desk)
    BY <1>0, <2>1, UnplugFits
  <2> HIDE DEF Gone
  <2>3. QED
    BY <2>1, <2>2, ShuffleKeeps
<1>8. CASE UNCHANGED listVars
  <2>1. /\ desk' = desk /\ layout' = layout /\ call' = call /\ replies' = replies
        /\ list' = list /\ moments' = moments /\ shuffles' = shuffles
    BY <1>8 DEF listVars
  <2>2. layout' \in Layouts(desk') /\ \A m \in moments' : m \in Layouts(desk')
    BY <2>1 DEF ListInv
  <2>3. Answer' = Answer
    BY <2>1 DEF Answer, WindowsFrom, ActiveFrom, ParseClients, RawClients, RawMonitors, SwayClients,
         Tree, OutputNode, WorkspaceNode, OnWorkspace, Leaf, Lies, OnShow, Outs, Plugged, NiriClients,
         NiriRect, ForeignClients, HyprlandActive, SwayActive, NiriActive, ForeignActive,
         Active, Win
  <2>4. Queries(call)' = Queries(call)
    BY <2>1 DEF Queries
  <2>5. QED
    BY <2>1, <2>2, <2>3, <2>4 DEF ListInv
<1>9. QED
  BY <1>1, <1>2, <1>3, <1>4, <1>5, <1>6, <1>7, <1>8 DEF ListNext

-----------------------------------------------------------------------------
(* The focus: what is under way has types *)

KeptAt(s, x, g, n) ==
    IF n = 0 THEN <<>> ELSE IF s[n] = x THEN g[n - 1] ELSE Append(g[n - 1], s[n])

(***************************************************************************)
(* The recursion that defines Kept has a solution: one over the first N    *)
(* entries is extended by an entry.                                        *)
(***************************************************************************)
LEMMA KeptSolves ==
    ASSUME NEW s, NEW x, Len(s) \in Nat
    PROVE  Kept(s, x) = [n \in 0..Len(s) |-> KeptAt(s, x, Kept(s, x), n)]
<1> DEFINE Solved(N) == \E g : g = [n \in 0..N |-> KeptAt(s, x, g, n)]
           T == {N \in Nat : Solved(N)}
<1>1. 0 \in T
  <2>1. [n \in 0..0 |-> <<>>] = [n \in 0..0 |-> KeptAt(s, x, [m \in 0..0 |-> <<>>], n)]
    BY DEF KeptAt
  <2>2. QED
    BY <2>1
<1>2. ASSUME NEW N \in T PROVE N + 1 \in T
  <2>1. PICK g : g = [n \in 0..N |-> KeptAt(s, x, g, n)]
    BY <1>2
  <2> DEFINE h == [n \in 0..(N + 1) |-> IF n = N + 1 THEN KeptAt(s, x, g, n) ELSE g[n]]
  <2>2. N \in Nat
    BY <1>2
  <2>3. \A n \in 0..(N + 1) : n # 0 => h[n - 1] = g[n - 1]
    BY <2>2
  <2>4. \A n \in 0..(N + 1) : KeptAt(s, x, h, n) = KeptAt(s, x, g, n)
    <3> HIDE DEF h
    <3>1. QED
      BY <2>3 DEF KeptAt
  <2>5. \A n \in 0..N : g[n] = KeptAt(s, x, g, n)
    BY <2>1
  <2>6. \A n \in 0..(N + 1) : h[n] = KeptAt(s, x, h, n)
    BY <2>2, <2>4, <2>5
  <2>7. h = [n \in 0..(N + 1) |-> h[n]]
    OBVIOUS
  <2> HIDE DEF h
  <2>8. h = [n \in 0..(N + 1) |-> KeptAt(s, x, h, n)]
    BY <2>6, <2>7
  <2>9. QED
    BY <2>2, <2>8
<1>3. T = Nat
  <2> HIDE DEF T
  <2>1. T \in SUBSET Nat
    BY DEF T
  <2>2. QED
    BY <1>1, <1>2, <2>1, SetInduction
<1>4. Solved(Len(s))
  BY <1>3
<1>5. QED
  BY <1>4 DEF Kept, KeptAt

(***************************************************************************)
(* Kept, an entry at a time.                                               *)
(***************************************************************************)
LEMMA KeptRule ==
    ASSUME NEW s, NEW x, Len(s) \in Nat
    PROVE  /\ Kept(s, x)[0] = <<>>
           /\ \A n \in 1..Len(s) :
                Kept(s, x)[n] = IF s[n] = x THEN Kept(s, x)[n - 1]
                                ELSE Append(Kept(s, x)[n - 1], s[n])
<1>1. \A n \in 0..Len(s) : Kept(s, x)[n] = KeptAt(s, x, Kept(s, x), n)
  BY KeptSolves
<1>2. QED
  BY <1>1 DEF KeptAt

(***************************************************************************)
(* The greatest of some of the first n numbers.                            *)
(***************************************************************************)
LEMMA GreatestOf ==
    ASSUME NEW n \in Nat, NEW T \in SUBSET (1..n), T # {}
    PROVE  Max(T) \in T
  BY HasGreatest, Zenon DEF Max

\* An event of a foreign toplevel manager.
IsEvent(e) ==
    /\ e.kind \in {"toplevel", "state", "enter", "leave", "done", "closed"}
    /\ e.kind = "state" => e.on \in BOOLEAN
    /\ e.kind = "enter" => e.output \in Outputs

Readable(e) ==
    /\ backend = "hyprland" => e \in Outputs \cup {NoOutput}
    /\ backend = "foreign" => IsEvent(e)

Handle == [outputs : Seq(Outputs), activated : BOOLEAN, done : BOOLEAN, closed : BOOLEAN]

IsHandles(tops) == \A t \in DOMAIN tops : tops[t] \in Handle

\* Where the compositor's windows are.
Placed ==
    /\ active \in Range(Toplevels) \cup {NoOutput}
    /\ DOMAIN where \subseteq Range(Toplevels) /\ where \in [DOMAIN where -> Outputs]
    /\ active = NoOutput \/ active \in DOMAIN where

Underway == IsSeq(stream) /\ \A i \in 1..Len(stream) : Readable(stream[i])

\* The types of all that is not the compositor's.
Followed ==
    /\ backend \in Backends \cup {"none"}
    /\ pump \in {"off", "connect", "listen", "query", "done"}
    /\ backend = "none" => pump = "off"
    /\ forwarder \in {"detecting", "waiting", "done"}
    /\ inner \in Channel /\ outer \in Channel
    /\ last \in Outputs \cup {NoOutput} /\ shown \in Outputs \cup {NoOutput}
    /\ told \in BOOLEAN /\ closing \in BOOLEAN /\ reading \in BOOLEAN
    /\ changes \in 0..MaxChanges /\ failures \in 0..MaxFailures

(***************************************************************************)
(* The types of the state rest on those of what is under way: the events   *)
(* in the stream, and what earlier ones said of the windows.               *)
(***************************************************************************)
WatchInv == Placed /\ Followed /\ Underway /\ IsHandles(handles)

(***************************************************************************)
(* They are the types of the module.                                       *)
(***************************************************************************)
LEMMA WatchTyped == WatchInv => WatchTypeOK
<1>1. Placed => Range(where) \subseteq Outputs
  BY DEF Placed, Range
<1>2. QED
  BY <1>1 DEF WatchInv, WatchTypeOK, Placed, Followed

(***************************************************************************)
(* The focus is an output, or none.                                        *)
(***************************************************************************)
LEMMA FocusType ==
    /\ Placed => Focus \in Outputs \cup {NoOutput}
    /\ Placed' => Focus' \in Outputs \cup {NoOutput}
  BY DEF Placed, Focus

(***************************************************************************)
(* What the handles say of the focus is an output, or none.                *)
(***************************************************************************)
LEMMA CurrentType ==
    ASSUME NEW tops, IsHandles(tops)
    PROVE  CurrentFocusedOutput(tops) \in Outputs \cup {NoOutput}
<1> DEFINE claims == {i \in CollectSnapshot(tops) : tops[Toplevels[i]].activated}
           t == PickActivated(tops)
<1>1. Len(Toplevels) \in Nat /\ DOMAIN Toplevels = 1..Len(Toplevels)
  BY WatchAssumption, LenProperties
<1>2. /\ claims \in SUBSET (1..Len(Toplevels))
      /\ \A i \in claims : Toplevels[i] \in DOMAIN tops
  BY <1>1 DEF CollectSnapshot
<1>3. t = IF claims = {} THEN NoOutput ELSE Toplevels[Max(claims)]
  BY DEF PickActivated
<1> HIDE DEF claims, t
<1>4. t = NoOutput \/ t \in DOMAIN tops
  BY <1>1, <1>2, <1>3, GreatestOf
<1>5. CurrentFocusedOutput(tops) = IF t = NoOutput THEN NoOutput
          ELSE IF tops[t].outputs = <<>> THEN NoOutput ELSE Head(tops[t].outputs)
  BY DEF CurrentFocusedOutput, t
<1>6. t \in DOMAIN tops => tops[t].outputs \in Seq(Outputs)
  BY DEF IsHandles, Handle
<1>7. QED
  BY <1>4, <1>5, <1>6, HeadTailProperties

(***************************************************************************)
(* What is kept of outputs are outputs.                                    *)
(***************************************************************************)
LEMMA WithoutType ==
    ASSUME NEW s \in Seq(Outputs), NEW x
    PROVE  Without(s, x) \in Seq(Outputs)
<1> DEFINE K(n) == Kept(s, x)[n]
           T == {n \in Nat : n <= Len(s) => K(n) \in Seq(Outputs)}
<1>1. Len(s) \in Nat /\ \A i \in 1..Len(s) : s[i] \in Outputs
  BY LenProperties, ElementOfSeq
<1>2. /\ K(0) = <<>>
      /\ \A n \in 1..Len(s) :
            K(n) = IF s[n] = x THEN K(n - 1) ELSE Append(K(n - 1), s[n])
  BY <1>1, KeptRule
<1> HIDE DEF K
<1>3. 0 \in T
  <2>1. <<>> \in Seq(Outputs)
    OBVIOUS
  <2>2. QED
    BY <1>2, <2>1
<1>4. ASSUME NEW n \in T PROVE n + 1 \in T
  <2> SUFFICES ASSUME n + 1 <= Len(s) PROVE K(n + 1) \in Seq(Outputs)
    BY <1>4
  <2>1. n \in Nat /\ n + 1 \in 1..Len(s) /\ (n + 1) - 1 = n /\ K(n) \in Seq(Outputs)
    BY <1>1, <1>4
  <2>2. K(n + 1) = IF s[n + 1] = x THEN K(n) ELSE Append(K(n), s[n + 1])
    BY <1>2, <2>1
  <2>3. s[n + 1] \in Outputs
    BY <1>1, <2>1
  <2>4. QED
    BY <2>1, <2>2, <2>3, AppendProperties
<1>5. T = Nat
  <2> HIDE DEF T
  <2>1. T \in SUBSET Nat
    BY DEF T
  <2>2. QED
    BY <1>3, <1>4, <2>1, SetInduction
<1>6. K(Len(s)) \in Seq(Outputs)
  BY <1>1, <1>5
<1>7. QED
  BY <1>6 DEF Without, K

(***************************************************************************)
(* A window as it is first heard of.                                       *)
(***************************************************************************)
LEMMA BuilderType ==
    ASSUME NEW outputs \in Seq(Outputs), NEW activated \in BOOLEAN, NEW done \in BOOLEAN
    PROVE  ToplevelBuilder(outputs, activated, done) \in Handle
  BY DEF ToplevelBuilder, Handle

(***************************************************************************)
(* A handle with one field changed.                                        *)
(***************************************************************************)
LEMMA HandleSet ==
    ASSUME NEW h \in Handle, NEW s \in Seq(Outputs), NEW b \in BOOLEAN
    PROVE  /\ [h EXCEPT !.outputs = s] \in Handle /\ [h EXCEPT !.activated = b] \in Handle
           /\ [h EXCEPT !.done = b] \in Handle /\ [h EXCEPT !.closed = b] \in Handle
  BY DEF Handle

(***************************************************************************)
(* An event leaves handles.                                                *)
(***************************************************************************)
LEMMA AppliedType ==
    ASSUME NEW tops, IsHandles(tops), NEW e, IsEvent(e)
    PROVE  IsHandles(Applied(tops, e))
<1> DEFINE new == Applied(tops, e)
<1>1. CASE e.kind = "toplevel"
  <2> DEFINE h == ToplevelBuilder(<<>>, FALSE, FALSE)
  <2>1. h \in Handle
    <3>1. <<>> \in Seq(Outputs) /\ FALSE \in BOOLEAN
      OBVIOUS
    <3>2. QED
      BY <3>1, BuilderType
  <2>2. new = [y \in DOMAIN tops \cup {e.of} |-> IF y = e.of THEN h ELSE tops[y]]
    BY <1>1 DEF Applied, Put
  <2> HIDE DEF h, new
  <2>3. QED
    BY <2>1, <2>2 DEF IsHandles, new
<1>2. CASE e.kind # "toplevel"
  <2> DEFINE h == tops[e.of]
             g == Changed(h, e)
  <2>1. new = [tops EXCEPT ![e.of] = g]
    BY <1>2 DEF Applied
  <2>2. ASSUME e.of \in DOMAIN tops
        PROVE  g \in Handle
    <3>1. h \in Handle
      BY <2>2 DEF IsHandles
    <3> HIDE DEF h
    <3>2. h.outputs \in Seq(Outputs)
      BY <3>1 DEF Handle
    <3>3. CASE e.kind = "state"
      <4>1. g = [h EXCEPT !.activated = e.on] /\ e.on \in BOOLEAN
        BY <3>3 DEF IsEvent, Changed
      <4> HIDE DEF g
      <4>2. QED
        BY <3>1, <3>2, <4>1, HandleSet
    <3>4. CASE e.kind = "enter"
      <4> DEFINE s == Append(h.outputs, e.output)
      <4>1. s \in Seq(Outputs)
        BY <3>2, <3>4, AppendProperties DEF IsEvent
      <4>2. g = [h EXCEPT !.outputs = s]
        BY <3>4 DEF Changed
      <4> HIDE DEF g, s
      <4>3. QED
        BY <3>1, <4>1, <4>2, HandleSet
    <3>5. CASE e.kind = "leave"
      <4> DEFINE s == Without(h.outputs, e.output)
      <4>1. s \in Seq(Outputs)
        BY <3>2, WithoutType
      <4>2. g = [h EXCEPT !.outputs = s]
        BY <3>5 DEF Changed
      <4> HIDE DEF g, s
      <4>3. QED
        BY <3>1, <4>1, <4>2, HandleSet
    <3>6. CASE e.kind = "done"
      <4>1. g = [h EXCEPT !.done = TRUE]
        BY <3>6 DEF Changed
      <4> HIDE DEF g
      <4>2. QED
        BY <3>1, <3>2, <4>1, HandleSet
    <3>7. CASE e.kind = "closed"
      <4>1. g = [h EXCEPT !.closed = TRUE]
        BY <3>7 DEF Changed
      <4> HIDE DEF g
      <4>2. QED
        BY <3>1, <3>2, <4>1, HandleSet
    <3>8. QED
      BY <1>2, <3>3, <3>4, <3>5, <3>6, <3>7 DEF IsEvent
  <2> HIDE DEF g, new
  <2>3. DOMAIN new = DOMAIN tops
    BY <2>1
  <2>4. \A t \in DOMAIN tops : new[t] = IF t = e.of THEN g ELSE tops[t]
    BY <2>1
  <2>5. QED
    BY <2>2, <2>3, <2>4 DEF IsHandles, new
<1>3. QED
  BY <1>1, <1>2

DispatchAt(tops, events, g, n) == IF n = 0 THEN tops ELSE Applied(g[n - 1], events[n])

(***************************************************************************)
(* The recursion over the events has a solution.                           *)
(***************************************************************************)
LEMMA DispatchSolves ==
    ASSUME NEW tops, NEW events, Len(events) \in Nat
    PROVE  AppliedUpto(tops, events)
               = [n \in 0..Len(events) |-> DispatchAt(tops, events, AppliedUpto(tops, events), n)]
<1> DEFINE Solved(N) == \E g : g = [n \in 0..N |-> DispatchAt(tops, events, g, n)]
           T == {N \in Nat : Solved(N)}
<1>1. 0 \in T
  <2>1. [n \in 0..0 |-> tops] = [n \in 0..0 |-> DispatchAt(tops, events, [m \in 0..0 |-> tops], n)]
    BY DEF DispatchAt
  <2>2. QED
    BY <2>1
<1>2. ASSUME NEW N \in T PROVE N + 1 \in T
  <2>1. PICK g : g = [n \in 0..N |-> DispatchAt(tops, events, g, n)]
    BY <1>2
  <2> DEFINE h == [n \in 0..(N + 1) |->
                      IF n = N + 1 THEN DispatchAt(tops, events, g, n) ELSE g[n]]
  <2>2. N \in Nat
    BY <1>2
  <2>3. \A n \in 0..(N + 1) : n # 0 => h[n - 1] = g[n - 1]
    BY <2>2
  <2>4. \A n \in 0..(N + 1) : DispatchAt(tops, events, h, n) = DispatchAt(tops, events, g, n)
    <3> HIDE DEF h
    <3>1. QED
      BY <2>3 DEF DispatchAt
  <2>5. \A n \in 0..N : g[n] = DispatchAt(tops, events, g, n)
    BY <2>1
  <2>6. \A n \in 0..(N + 1) : h[n] = DispatchAt(tops, events, h, n)
    BY <2>2, <2>4, <2>5
  <2>7. h = [n \in 0..(N + 1) |-> h[n]]
    OBVIOUS
  <2> HIDE DEF h
  <2>8. h = [n \in 0..(N + 1) |-> DispatchAt(tops, events, h, n)]
    BY <2>6, <2>7
  <2>9. QED
    BY <2>2, <2>8
<1>3. T = Nat
  <2> HIDE DEF T
  <2>1. T \in SUBSET Nat
    BY DEF T
  <2>2. QED
    BY <1>1, <1>2, <2>1, SetInduction
<1>4. Solved(Len(events))
  BY <1>3
<1>5. QED
  BY <1>4 DEF AppliedUpto, DispatchAt

(***************************************************************************)
(* A dispatch of events leaves handles.                                    *)
(***************************************************************************)
LEMMA DispatchedType ==
    ASSUME NEW tops, IsHandles(tops), NEW events, IsSeq(events),
           \A i \in 1..Len(events) : IsEvent(events[i])
    PROVE  IsHandles(Dispatched(tops, events))
<1> DEFINE A(n) == AppliedUpto(tops, events)[n]
           T == {n \in Nat : n <= Len(events) => IsHandles(A(n))}
<1>1. Len(events) \in Nat
  BY SeqFacts
<1>2. /\ A(0) = tops
      /\ \A n \in 1..Len(events) : A(n) = Applied(A(n - 1), events[n])
  <2>1. \A n \in 0..Len(events) :
            AppliedUpto(tops, events)[n] = DispatchAt(tops, events, AppliedUpto(tops, events), n)
    BY <1>1, DispatchSolves
  <2>2. QED
    BY <1>1, <2>1 DEF DispatchAt
<1> HIDE DEF A
<1>3. 0 \in T
  BY <1>2
<1>4. ASSUME NEW n \in T PROVE n + 1 \in T
  <2> SUFFICES ASSUME n + 1 <= Len(events) PROVE IsHandles(A(n + 1))
    BY <1>4
  <2>1. n \in Nat /\ n + 1 \in 1..Len(events) /\ (n + 1) - 1 = n /\ IsHandles(A(n))
    BY <1>1, <1>4
  <2>2. A(n + 1) = Applied(A(n), events[n + 1]) /\ IsEvent(events[n + 1])
    BY <1>2, <2>1
  <2>3. QED
    BY <2>1, <2>2, AppliedType
<1>5. T = Nat
  <2> HIDE DEF T
  <2>1. T \in SUBSET Nat
    BY DEF T
  <2>2. QED
    BY <1>3, <1>4, <2>1, SetInduction
<1>6. IsHandles(A(Len(events)))
  BY <1>1, <1>5
<1>7. QED
  BY <1>6 DEF Dispatched, A

(***************************************************************************)
(* A value sent is a channel's, and one seen is.                           *)
(***************************************************************************)
LEMMA ChannelTypes ==
    /\ Empty \in Channel
    /\ \A value \in Outputs \cup {NoOutput} : Sent(value) \in Channel
    /\ \A channel \in Channel :
        Seen(channel) \in Channel /\ channel.value \in Outputs \cup {NoOutput}
  BY DEF Channel, Empty, Sent, Seen

(***************************************************************************)
(* At the start nothing is under way.                                      *)
(***************************************************************************)
LEMMA WatchInvInit == WatchInit => WatchInv
<1> SUFFICES ASSUME WatchInit PROVE WatchInv
  OBVIOUS
<1>1. Placed
  BY DEF WatchInit, Placed
<1>2. Followed
  <2>1. 0 \in 0..MaxChanges /\ 0 \in 0..MaxFailures
    BY WatchAssumption
  <2>2. QED
    BY <2>1, ChannelTypes DEF WatchInit, Followed
<1>3. Underway
  <2>1. 1..0 = {}
    OBVIOUS
  <2>2. QED
    BY <2>1, EmptyIsSeq DEF WatchInit, Underway
<1>4. IsHandles(handles)
  BY EmptyIsSeq DEF WatchInit, IsHandles
<1>5. QED
  BY <1>1, <1>2, <1>3, <1>4 DEF WatchInv

(***************************************************************************)
(* What the compositor announces can be read by who has subscribed.        *)
(***************************************************************************)
LEMMA AnnouncedReadable ==
    ASSUME Placed', NEW news, IsSeq(news),
           \A i \in 1..Len(news) : IsEvent(news[i]),
           Subscribed => backend \in {"hyprland", "sway", "niri", "foreign"}
    PROVE  /\ IsSeq(Announced(news))
           /\ \A i \in 1..Len(Announced(news)) : Readable(Announced(news)[i])
<1> DEFINE a == Announced(news)
           f == Focus'
<1>1. f \in Outputs \cup {NoOutput}
  BY FocusType
<1>2. \/ a = <<>>
      \/ backend = "hyprland" /\ a = << f >>
      \/ backend \in {"sway", "niri"} /\ a = << "event" >>
      \/ backend = "foreign" /\ a = news
  BY DEF Announced
<1> HIDE DEF a, f
<1>3. CASE a = <<>>
  <2>1. 1..0 = {}
    OBVIOUS
  <2>2. QED
    BY <1>3, <2>1, EmptyIsSeq DEF a
<1>4. CASE backend = "hyprland" /\ a = << f >>
  <2>1. IsSeq(a) /\ Len(a) = 1 /\ a[1] = f
    <3>1. << f >> \in Seq({f}) /\ Len(<< f >>) = 1 /\ << f >>[1] = f
      OBVIOUS
    <3>2. QED
      BY <1>4, <3>1 DEF IsSeq
  <2>2. \A i \in 1..1 : i = 1
    OBVIOUS
  <2>3. QED
    BY <1>1, <1>4, <2>1, <2>2 DEF Readable, a
<1>5. CASE backend \in {"sway", "niri"} /\ a = << "event" >>
  <2>1. IsSeq(a)
    <3>1. << "event" >> \in Seq({"event"})
      OBVIOUS
    <3>2. QED
      BY <1>5, <3>1 DEF IsSeq
  <2>2. backend # "hyprland" /\ backend # "foreign"
    BY <1>5
  <2>3. QED
    BY <2>1, <2>2 DEF Readable, a
<1>6. CASE backend = "foreign" /\ a = news
  BY <1>6 DEF Readable, a
<1>7. QED
  BY <1>2, <1>3, <1>4, <1>5, <1>6

(***************************************************************************)
(* The list of one event, and of two or four.                              *)
(***************************************************************************)
LEMMA Events ==
    ASSUME NEW a, NEW b, NEW c, NEW d, IsEvent(a), IsEvent(b), IsEvent(c), IsEvent(d)
    PROVE  /\ IsSeq(<< a >>) /\ \A i \in 1..Len(<< a >>) : IsEvent(<< a >>[i])
           /\ IsSeq(<< a, b >>) /\ \A i \in 1..Len(<< a, b >>) : IsEvent(<< a, b >>[i])
           /\ IsSeq(<< a, b, c, d >>)
           /\ \A i \in 1..Len(<< a, b, c, d >>) : IsEvent(<< a, b, c, d >>[i])
<1>1. /\ << a >> \in Seq({a, b, c, d}) /\ << a, b >> \in Seq({a, b, c, d})
      /\ << a, b, c, d >> \in Seq({a, b, c, d})
  OBVIOUS
<1>2. ASSUME NEW s, s \in Seq({a, b, c, d})
      PROVE  IsSeq(s) /\ \A i \in 1..Len(s) : IsEvent(s[i])
  <2>1. \A i \in 1..Len(s) : s[i] \in {a, b, c, d}
    BY <1>2, ElementOfSeq
  <2>2. QED
    BY <1>2, <2>1 DEF IsSeq
<1>3. QED
  BY <1>1, <1>2

(***************************************************************************)
(* A step of the compositor's, whatever it announces.                      *)
(***************************************************************************)
LEMMA TellKeeps ==
    ASSUME WatchInv, Placed', NEW news, IsSeq(news),
           \A i \in 1..Len(news) : IsEvent(news[i]), Tell(news)
    PROVE  WatchInv'
<1> DEFINE a == Announced(news)
           more == (told \/ a # <<>>)
<1>1. /\ stream' = stream \o a /\ told' = more /\ changes' = changes + 1
      /\ changes < MaxChanges
      /\ UNCHANGED <<backend, pump, handles, last, failures, inner, outer, forwarder,
                     closing, reading, shown>>
  BY DEF Tell
<1>2. Subscribed => backend \in {"hyprland", "sway", "niri", "foreign"}
  BY WatchAssumption DEF WatchInv, Followed, Subscribed
<1>3. IsSeq(a) /\ \A i \in 1..Len(a) : Readable(a[i])
  BY <1>2, AnnouncedReadable
<1>4. more \in BOOLEAN
  OBVIOUS
<1> HIDE DEF a, more
<1>5. Underway'
  <2>1. /\ IsSeq(stream \o a) /\ Len(stream \o a) = Len(stream) + Len(a)
        /\ \A i \in 1..Len(stream) : (stream \o a)[i] = stream[i]
        /\ \A i \in 1..Len(a) : (stream \o a)[Len(stream) + i] = a[i]
        /\ Len(stream) \in Nat /\ Len(a) \in Nat
    BY <1>3, JoinedSeq, SeqFacts DEF WatchInv, Underway
  <2>2. ASSUME NEW i \in 1..Len(stream \o a) PROVE Readable((stream \o a)[i])
    <3>1. CASE i <= Len(stream)
      BY <2>1, <3>1 DEF WatchInv, Underway
    <3>2. CASE i > Len(stream)
      <4>1. i - Len(stream) \in 1..Len(a) /\ Len(stream) + (i - Len(stream)) = i
        BY <2>1, <3>2
      <4>2. QED
        BY <1>3, <2>1, <4>1
    <3>3. QED
      BY <2>1, <3>1, <3>2
  <2>3. stream' = stream \o a /\ backend' = backend
    BY <1>1
  <2>4. QED
    BY <2>1, <2>2, <2>3 DEF Underway, Readable
<1>6. Followed'
  <2>1. changes + 1 \in 0..MaxChanges
    BY <1>1, WatchAssumption DEF WatchInv, Followed
  <2>2. QED
    BY <1>1, <1>4, <2>1 DEF WatchInv, Followed
<1>7. IsHandles(handles)'
  BY <1>1 DEF WatchInv, IsHandles
<1>8. QED
  BY <1>5, <1>6, <1>7 DEF WatchInv

(***************************************************************************)
(* The compositor's steps.                                                 *)
(***************************************************************************)
LEMMA CompositorKeeps == WatchInv /\ CompositorNext => WatchInv'
<1> SUFFICES ASSUME WatchInv, CompositorNext PROVE WatchInv'
  OBVIOUS
<1>1. \A t : /\ \A on \in BOOLEAN : IsEvent(Activated(t, on))
             /\ \A o \in Outputs : IsEvent(Entered(t, o)) /\ IsEvent(Left(t, o))
             /\ IsEvent(Closed(t)) /\ IsEvent(Opened(t)) /\ IsEvent(Done(t))
  BY DEF IsEvent, Activated, Entered, Left, Closed, Opened, Done
<1>2. Placed
  BY DEF WatchInv
<1>3. CASE FocusMoves
  <2>1. PICK t \in DOMAIN where \ {active} :
            /\ active' = t /\ where' = where
            /\ Tell(IF active = NoOutput THEN <<Activated(t, TRUE)>>
                    ELSE <<Activated(active, FALSE), Activated(t, TRUE)>>)
    BY <1>3 DEF FocusMoves
  <2> DEFINE a == Activated(active, FALSE)
             b == Activated(t, TRUE)
             news == IF active = NoOutput THEN << b >> ELSE << a, b >>
  <2>2. IsEvent(a) /\ IsEvent(b)
    BY <1>1
  <2>3. Placed'
    BY <1>2, <2>1 DEF Placed
  <2>4. Tell(news)
    BY <2>1
  <2> HIDE DEF a, b
  <2>5. IsSeq(news) /\ \A i \in 1..Len(news) : IsEvent(news[i])
    BY <2>2, Events
  <2> HIDE DEF news
  <2>6. QED
    BY <2>3, <2>4, <2>5, TellKeeps
<1>4. CASE WindowCarried
  <2>1. PICK o \in Outputs :
            /\ active # NoOutput
            /\ where' = [where EXCEPT ![active] = o] /\ active' = active
            /\ Tell(<<Entered(active, o), Left(active, where[active])>>)
    BY <1>4 DEF WindowCarried
  <2> DEFINE a == Entered(active, o)
             b == Left(active, where[active])
             news == << a, b >>
  <2>2. IsEvent(a) /\ IsEvent(b)
    <3>1. where[active] \in Outputs
      BY <1>2, <2>1 DEF Placed
    <3>2. QED
      BY <1>1, <3>1
  <2>3. Placed'
    BY <1>2, <2>1 DEF Placed
  <2>4. Tell(news)
    BY <2>1
  <2> HIDE DEF a, b
  <2>5. IsSeq(news) /\ \A i \in 1..Len(news) : IsEvent(news[i])
    BY <2>2, Events
  <2> HIDE DEF news
  <2>6. QED
    BY <2>3, <2>4, <2>5, TellKeeps
<1>5. CASE ActiveCloses
  <2>1. /\ active' = NoOutput /\ where' = Restrict(where, DOMAIN where \ {active})
        /\ Tell(<<Closed(active)>>)
    BY <1>5 DEF ActiveCloses
  <2> DEFINE a == Closed(active)
             news == << a >>
  <2>2. IsEvent(a)
    BY <1>1
  <2>3. Placed'
    <3>1. where' = [x \in DOMAIN where \ {active} |-> where[x]]
      BY <2>1 DEF Restrict
    <3>2. QED
      BY <1>2, <2>1, <3>1 DEF Placed
  <2>4. Tell(news)
    BY <2>1
  <2> HIDE DEF a
  <2>5. IsSeq(news) /\ \A i \in 1..Len(news) : IsEvent(news[i])
    BY <2>2, Events
  <2> HIDE DEF news
  <2>6. QED
    BY <2>3, <2>4, <2>5, TellKeeps
<1>6. CASE WindowOpens
  <2>1. PICK t \in Range(Toplevels) \ DOMAIN where, o \in Outputs :
            /\ active' = t /\ where' = Put(where, t, o)
            /\ Tell(<<Opened(t), Entered(t, o), Activated(t, TRUE), Done(t)>>)
    BY <1>6 DEF WindowOpens
  <2> DEFINE a == Opened(t)
             b == Entered(t, o)
             c == Activated(t, TRUE)
             d == Done(t)
             news == << a, b, c, d >>
  <2>2. IsEvent(a) /\ IsEvent(b) /\ IsEvent(c) /\ IsEvent(d)
    BY <1>1
  <2>3. Placed'
    BY <1>2, <2>1 DEF Placed, Put
  <2>4. Tell(news)
    BY <2>1
  <2> HIDE DEF a, b, c, d
  <2>5. IsSeq(news) /\ \A i \in 1..Len(news) : IsEvent(news[i])
    BY <2>2, Events
  <2> HIDE DEF news
  <2>6. QED
    BY <2>3, <2>4, <2>5, TellKeeps
<1>7. QED
  BY <1>3, <1>4, <1>5, <1>6 DEF CompositorNext

\* What a step that leaves the compositor's windows alone leaves of Placed.
StillPlaced == WatchInv /\ UNCHANGED compositor

(***************************************************************************)
(* Windows that stay where they are.                                       *)
(***************************************************************************)
LEMMA PlacedKept == StillPlaced => Placed' /\ changes' = changes /\ Focus' = Focus
<1> SUFFICES ASSUME StillPlaced
             PROVE  Placed' /\ changes' = changes /\ Focus' = Focus
  OBVIOUS
<1>1. active' = active /\ where' = where /\ changes' = changes
  BY DEF StillPlaced, compositor
<1>2. QED
  BY <1>1 DEF StillPlaced, WatchInv, Placed, Focus

(***************************************************************************)
(* Publishing a focus leaves channels, and a task that listens or is done. *)
(***************************************************************************)
LEMMA PublishTypes ==
    ASSUME WatchInv, NEW value \in Outputs \cup {NoOutput}, Publish(value)
    PROVE  inner' \in Channel /\ pump' \in {"listen", "done"}
  BY ChannelTypes DEF Publish, WatchInv, Followed

(***************************************************************************)
(* What is still to be read when the first events have been.               *)
(***************************************************************************)
LEMMA LaterRead ==
    ASSUME Underway, NEW n \in 1..Len(stream)
    PROVE  /\ IsSeq(SubSeq(stream, 1, n)) /\ Len(SubSeq(stream, 1, n)) = n
           /\ \A i \in 1..n : Readable(SubSeq(stream, 1, n)[i])
           /\ IsSeq(SubSeq(stream, n + 1, Len(stream)))
           /\ \A i \in 1..Len(SubSeq(stream, n + 1, Len(stream))) :
                Readable(SubSeq(stream, n + 1, Len(stream))[i])
<1> DEFINE first == SubSeq(stream, 1, n)
           rest == SubSeq(stream, n + 1, Len(stream))
<1>1. PICK S : stream \in Seq(S)
  BY DEF Underway, IsSeq
<1>2. Len(stream) \in Nat /\ n \in Nat
  BY <1>1, LenProperties
<1>3. /\ first \in Seq(S) /\ Len(first) = n /\ \A i \in 1..n : first[i] = stream[i]
  BY <1>1, <1>2, SubSeqProperties
<1>4. /\ rest \in Seq(S) /\ Len(rest) = Len(stream) - n
      /\ \A i \in 1..(Len(stream) - n) : rest[i] = stream[i + n]
  BY <1>1, <1>2, SubSeqProperties
<1> HIDE DEF first, rest
<1>5. IsSeq(first) /\ IsSeq(rest)
  BY <1>3, <1>4 DEF IsSeq
<1>6. \A i \in 1..n : Readable(first[i])
  BY <1>2, <1>3 DEF Underway
<1>7. \A i \in 1..Len(rest) : Readable(rest[i])
  <2> SUFFICES ASSUME NEW i \in 1..Len(rest) PROVE Readable(rest[i])
    OBVIOUS
  <2>1. i \in 1..(Len(stream) - n) /\ i + n \in 1..Len(stream)
    BY <1>2, <1>4
  <2>2. QED
    BY <1>4, <2>1 DEF Underway
<1>8. QED
  BY <1>3, <1>5, <1>6, <1>7 DEF first, rest

(***************************************************************************)
(* A stream of which nothing was read, or the first entry.                 *)
(***************************************************************************)
LEMMA StreamRead ==
    ASSUME WatchInv, backend' = backend
    PROVE  /\ stream' = stream => Underway'
           /\ stream # <<>> /\ stream' = Tail(stream) => Underway' /\ Readable(Head(stream))
<1>1. Underway
  BY DEF WatchInv
<1>2. stream' = stream => Underway'
  BY <1>1 DEF Underway, Readable
<1>3. ASSUME stream # <<>>, stream' = Tail(stream)
      PROVE  Underway' /\ Readable(Head(stream))
  <2>1. /\ IsSeq(Tail(stream)) /\ Len(Tail(stream)) = Len(stream) - 1
        /\ Len(stream) \in Nat \ {0} /\ Head(stream) = stream[1]
        /\ \A i \in 1..Len(Tail(stream)) : Tail(stream)[i] = stream[i + 1]
    BY <1>1, <1>3, Tailed DEF Underway
  <2>2. \A i \in 1..Len(Tail(stream)) : i + 1 \in 1..Len(stream)
    BY <2>1
  <2>3. \A i \in 1..Len(Tail(stream)) : Readable(Tail(stream)[i])
    BY <1>1, <2>1, <2>2 DEF Underway
  <2>4. Readable(Head(stream))
    BY <1>1, <2>1 DEF Underway
  <2>5. QED
    BY <1>3, <2>1, <2>3, <2>4 DEF Underway, Readable
<1>4. QED
  BY <1>2, <1>3

(***************************************************************************)
(* The windows as two round trips find them.                               *)
(***************************************************************************)
LEMMA SettledType == Placed => IsHandles(Settled)
<1> SUFFICES ASSUME Placed, NEW t \in DOMAIN where
             PROVE  Settled[t] \in Handle
  BY DEF IsHandles, Settled
<1> DEFINE outputs == << where[t] >>
           on == (t = active)
           yes == TRUE
<1>1. outputs \in Seq(Outputs)
  <2>1. where[t] \in Outputs
    BY DEF Placed
  <2>2. QED
    BY <2>1
<1>2. on \in BOOLEAN /\ yes \in BOOLEAN
  OBVIOUS
<1>3. Settled[t] = ToplevelBuilder(outputs, on, yes)
  BY DEF Settled
<1> HIDE DEF outputs, on, yes
<1>4. QED
  BY <1>1, <1>2, <1>3, BuilderType

(***************************************************************************)
(* The steps of the backend's task.                                        *)
(***************************************************************************)
LEMMA SubscribesKeeps == WatchInv /\ PumpSubscribes => WatchInv'
<1> SUFFICES ASSUME WatchInv, PumpSubscribes PROVE WatchInv'
  OBVIOUS
<1>1. /\ pump = "connect"
      /\ stream' = IF backend = "niri" THEN <<"event">> ELSE <<>>
      /\ told' = (backend \in {"niri", "foreign"})
      /\ UNCHANGED <<backend, compositor, failures, outer, forwarder, closing, reading, shown>>
      /\ Placed' /\ changes' = changes
  BY PlacedKept DEF PumpSubscribes, StillPlaced
<1>2. /\ IsHandles(handles') /\ last' \in Outputs \cup {NoOutput}
      /\ pump' \in {"listen", "done"} /\ inner' \in Channel
  <2>1. CASE backend = "foreign"
    <3>1. handles' = Settled /\ last' = CurrentFocusedOutput(handles') /\ Publish(last')
      BY <2>1 DEF PumpSubscribes
    <3>2. IsHandles(handles')
      BY <3>1, SettledType DEF WatchInv
    <3>3. last' \in Outputs \cup {NoOutput}
      BY <3>1, <3>2, CurrentType
    <3>4. QED
      BY <3>1, <3>2, <3>3, PublishTypes
  <2>2. CASE backend # "foreign"
    BY <2>2 DEF PumpSubscribes, WatchInv, Followed
  <2>3. QED
    BY <2>1, <2>2
<1>3. Underway'
  <2>1. CASE backend = "niri"
    <3>1. IsSeq(stream')
      <4>1. << "event" >> \in Seq({"event"})
        OBVIOUS
      <4>2. QED
        BY <1>1, <2>1, <4>1 DEF IsSeq
    <3>2. backend' # "hyprland" /\ backend' # "foreign"
      BY <1>1, <2>1
    <3>3. QED
      BY <3>1, <3>2 DEF Underway, Readable
  <2>2. CASE backend # "niri"
    <3>1. stream' = <<>> /\ 1..0 = {}
      BY <1>1, <2>2
    <3>2. QED
      BY <3>1, EmptyIsSeq DEF Underway
  <2>3. QED
    BY <2>1, <2>2
<1>4. Followed'
  <2>1. told' \in BOOLEAN
    BY <1>1
  <2>2. backend # "none"
    BY <1>1 DEF WatchInv, Followed
  <2>3. QED
    BY <1>1, <1>2, <2>1, <2>2 DEF WatchInv, Followed
<1>5. QED
  BY <1>1, <1>2, <1>3, <1>4 DEF WatchInv

(***************************************************************************)
(* A dispatch of some of the events under way.                             *)
(***************************************************************************)
LEMMA DispatchesKeeps == WatchInv /\ PumpDispatches => WatchInv'
<1> SUFFICES ASSUME WatchInv, PumpDispatches PROVE WatchInv'
  OBVIOUS
<1>1. /\ backend = "foreign" /\ pump = "listen"
      /\ last' = CurrentFocusedOutput(handles')
      /\ IF last' # last THEN Publish(last') ELSE UNCHANGED <<pump, inner>>
      /\ UNCHANGED <<backend, compositor, failures, told, outer, forwarder, closing, reading,
                     shown>>
      /\ Placed' /\ changes' = changes
  BY PlacedKept DEF PumpDispatches, StillPlaced
<1>2. PICK n \in 1..Len(stream) :
          /\ handles' = Dispatched(handles, SubSeq(stream, 1, n))
          /\ stream' = SubSeq(stream, n + 1, Len(stream))
  BY DEF PumpDispatches
<1> DEFINE first == SubSeq(stream, 1, n)
           rest == SubSeq(stream, n + 1, Len(stream))
<1>3. /\ IsSeq(first) /\ Len(first) = n /\ \A i \in 1..n : Readable(first[i])
      /\ IsSeq(rest) /\ \A i \in 1..Len(rest) : Readable(rest[i])
  BY LaterRead DEF WatchInv
<1>4. handles' = Dispatched(handles, first) /\ stream' = rest
  BY <1>2
<1> HIDE DEF first, rest
<1>5. \A i \in 1..Len(first) : IsEvent(first[i])
  BY <1>1, <1>3 DEF Readable
<1>6. IsHandles(handles')
  BY <1>3, <1>4, <1>5, DispatchedType DEF WatchInv
<1>7. last' \in Outputs \cup {NoOutput}
  BY <1>1, <1>6, CurrentType
<1>8. inner' \in Channel /\ pump' \in {"listen", "done"}
  BY <1>1, <1>7, PublishTypes DEF WatchInv, Followed
<1>9. Underway'
  BY <1>1, <1>3, <1>4 DEF Underway, Readable
<1>10. Followed'
  BY <1>1, <1>7, <1>8 DEF WatchInv, Followed
<1>11. QED
  BY <1>1, <1>6, <1>9, <1>10 DEF WatchInv

(***************************************************************************)
(* A name read off the stream is one that can be published.                *)
(***************************************************************************)
LEMMA ReadsKeep == WatchInv /\ (PumpReadsName \/ PumpReadsEvent) => WatchInv'
<1> SUFFICES ASSUME WatchInv, PumpReadsName \/ PumpReadsEvent PROVE WatchInv'
  OBVIOUS
<1>1. /\ backend \in {"hyprland", "sway", "niri"} /\ stream # <<>> /\ stream' = Tail(stream)
      /\ UNCHANGED <<backend, compositor, handles, last, failures, told, outer, forwarder,
                     closing, reading, shown>>
      /\ Placed' /\ changes' = changes
  BY PlacedKept DEF PumpReadsName, PumpReadsEvent, StillPlaced
<1>2. Underway' /\ Readable(Head(stream))
  BY <1>1, StreamRead
<1>3. inner' \in Channel /\ pump' \in {"listen", "done", "query"}
  <2>1. CASE PumpReadsName
    <3>1. Head(stream) \in Outputs \cup {NoOutput} /\ Publish(Head(stream))
      BY <1>2, <2>1 DEF PumpReadsName, Readable
    <3>2. QED
      BY <3>1, PublishTypes
  <2>2. CASE PumpReadsEvent
    BY <2>2 DEF PumpReadsEvent, WatchInv, Followed
  <2>3. QED
    BY <2>1, <2>2
<1>4. Followed'
  BY <1>1, <1>3 DEF WatchInv, Followed
<1>5. IsHandles(handles)'
  BY <1>1 DEF WatchInv, IsHandles
<1>6. QED
  BY <1>1, <1>2, <1>4, <1>5 DEF WatchInv

(***************************************************************************)
(* What leaves the stream and the handles alone.                           *)
(***************************************************************************)
LEMMA QuietKeeps ==
    ASSUME WatchInv, UNCHANGED <<compositor, backend, stream, handles>>, Followed'
    PROVE  WatchInv'
<1>1. Placed'
  BY PlacedKept DEF StillPlaced
<1>2. Underway'
  BY StreamRead
<1>3. IsHandles(handles)'
  BY DEF WatchInv, IsHandles
<1>4. QED
  BY <1>1, <1>2, <1>3 DEF WatchInv

(***************************************************************************)
(* The task's other steps.                                                 *)
(***************************************************************************)
LEMMA QueryKeeps ==
    WatchInv /\ (QueryAnswered \/ QueryFails \/ PumpCannotConnect \/ StreamEnds \/ PumpToldToStop)
        => WatchInv'
<1> SUFFICES ASSUME WatchInv, \/ QueryAnswered \/ QueryFails \/ PumpCannotConnect
                              \/ StreamEnds \/ PumpToldToStop
             PROVE  WatchInv'
  OBVIOUS
<1>1. /\ UNCHANGED <<compositor, backend, handles, last, stream, outer, forwarder, closing,
                     reading, shown>>
      /\ pump \in {"connect", "listen", "query"} /\ backend # "none"
  BY DEF QueryAnswered, QueryFails, PumpCannotConnect, StreamEnds, PumpToldToStop,
         WatchInv, Followed
<1>2. changes' = changes
  BY <1>1, PlacedKept DEF StillPlaced
<1>3. failures' \in 0..MaxFailures
  BY WatchAssumption DEF QueryAnswered, QueryFails, PumpCannotConnect, StreamEnds,
                         PumpToldToStop, WatchInv, Followed
<1>4. told' \in BOOLEAN
  <2>1. CASE QueryFails
    BY <2>1 DEF QueryFails
  <2>2. CASE ~QueryFails
    BY <2>2 DEF QueryAnswered, PumpCannotConnect, StreamEnds, PumpToldToStop, WatchInv, Followed
  <2>3. QED
    BY <2>1, <2>2
<1>5. inner' \in Channel /\ pump' \in {"listen", "done"}
  <2>1. CASE QueryAnswered
    <3>1. Focus \in Outputs \cup {NoOutput} /\ Publish(Focus)
      BY <2>1, FocusType DEF QueryAnswered, WatchInv
    <3>2. QED
      BY <3>1, PublishTypes
  <2>2. CASE ~QueryAnswered
    BY <2>2 DEF QueryFails, PumpCannotConnect, StreamEnds, PumpToldToStop, WatchInv, Followed
  <2>3. QED
    BY <2>1, <2>2
<1>6. Followed'
  BY <1>1, <1>2, <1>3, <1>4, <1>5 DEF WatchInv, Followed
<1>7. QED
  BY <1>1, <1>6, QuietKeeps

(***************************************************************************)
(* The forwarder's steps and the toolbar's.                                *)
(***************************************************************************)
LEMMA FollowKeeps ==
    WatchInv /\ (ForwarderNext \/ ToolbarNext \/ ToolbarCloses) => WatchInv'
<1> SUFFICES ASSUME WatchInv, ForwarderNext \/ ToolbarNext \/ ToolbarCloses PROVE WatchInv'
  OBVIOUS
<1>1. UNCHANGED <<compositor, backend, handles, last, stream, failures, told>>
  BY DEF ForwarderNext, ToolbarNext, Detect, Forward, SourceEnds, ForwarderToldToStop,
         ToolbarFollows, ToolbarLoopEnds, ToolbarCloses, task
<1>2. changes' = changes
  BY <1>1, PlacedKept DEF StillPlaced
<1>3. /\ pump' \in {"off", "connect", "listen", "query", "done"}
      /\ backend = "none" => pump' = "off"
      /\ forwarder' \in {"detecting", "waiting", "done"}
  BY DEF ForwarderNext, ToolbarNext, Detect, Forward, SourceEnds, ForwarderToldToStop,
         ToolbarFollows, ToolbarLoopEnds, ToolbarCloses, task, WatchInv, Followed
<1>4. inner' \in Channel /\ outer' \in Channel /\ shown' \in Outputs \cup {NoOutput}
  <2>1. CASE Forward
    BY <2>1, ChannelTypes DEF Forward, WatchInv, Followed
  <2>2. CASE ToolbarFollows
    BY <2>2, ChannelTypes DEF ToolbarFollows, WatchInv, Followed
  <2>3. CASE ~Forward /\ ~ToolbarFollows
    BY <2>3 DEF ForwarderNext, ToolbarNext, Detect, SourceEnds, ForwarderToldToStop,
                ToolbarLoopEnds, ToolbarCloses, WatchInv, Followed
  <2>4. QED
    BY <2>1, <2>2, <2>3
<1>5. closing' \in BOOLEAN /\ reading' \in BOOLEAN
  BY DEF ForwarderNext, ToolbarNext, Detect, Forward, SourceEnds, ForwarderToldToStop,
         ToolbarFollows, ToolbarLoopEnds, ToolbarCloses, WatchInv, Followed
<1>6. Followed'
  BY <1>1, <1>2, <1>3, <1>4, <1>5 DEF WatchInv, Followed
<1>7. QED
  BY <1>1, <1>6, QuietKeeps

(***************************************************************************)
(* Every step keeps the types, and what they rest on.                      *)
(***************************************************************************)
LEMMA WatchInvStep == WatchInv /\ [WatchNext]_watchVars => WatchInv'
<1> SUFFICES ASSUME WatchInv, [WatchNext]_watchVars PROVE WatchInv'
  OBVIOUS
<1>1. CASE CompositorNext
  BY <1>1, CompositorKeeps
<1>2. CASE PumpNext \/ StreamEnds
  BY <1>2, SubscribesKeeps, DispatchesKeeps, ReadsKeep, QueryKeeps DEF PumpNext
<1>3. CASE ForwarderNext \/ ToolbarNext \/ ToolbarCloses
  BY <1>3, FollowKeeps
<1>4. CASE UNCHANGED watchVars
  <2>1. /\ UNCHANGED <<compositor, backend, handles, last, stream, failures, told, pump>>
        /\ UNCHANGED <<inner, outer, forwarder, closing, reading, shown>>
    BY <1>4 DEF watchVars, task
  <2>2. changes' = changes
    BY <2>1, PlacedKept DEF StillPlaced
  <2>3. Followed'
    BY <2>1, <2>2 DEF WatchInv, Followed
  <2>4. QED
    BY <2>1, <2>3, QuietKeeps
<1>5. QED
  BY <1>1, <1>2, <1>3, <1>4 DEF WatchNext

-----------------------------------------------------------------------------
(* The processes and the socket file *)

USE SocketAssumption

ProcessType ==
    /\ daemon \in [Daemons -> Alive \cup {"off", "refused", "ended"}]
    /\ file \in Daemons \cup {NoFile}

\* The file is as a process that lives alone believes it to be.
Believes(d) ==
    /\ daemon[d] # "refused"
    /\ daemon[d] = "removing" => file # NoFile
    /\ daemon[d] = "binding" => file = NoFile
    /\ daemon[d] \in Listening => file = d

(***************************************************************************)
(* SoleDaemonServes is not inductive: what a process does to the file      *)
(* rests on what it found there, which only those that run can spoil.      *)
(***************************************************************************)
ProcessInv ==
    /\ ProcessType
    /\ \A d \in Daemons \ overlapped :
        /\ Believes(d)
        /\ daemon[d] \in Alive => \A e \in Daemons : daemon[e] \in Alive => e = d

(***************************************************************************)
(* It holds before any process has started.                                *)
(***************************************************************************)
LEMMA InvInit == SocketInit => ProcessInv
  BY DEF SocketInit, ProcessInv, ProcessType, Believes, Alive, Listening

(***************************************************************************)
(* A process that starts while another runs makes both overlapped, so it   *)
(* takes nothing from a process that is alone.                             *)
(***************************************************************************)
LEMMA InvStart ==
    ASSUME ProcessInv, NEW d \in Daemons, Start(d)
    PROVE  ProcessInv'
<1>1. daemon' = [daemon EXCEPT ![d] = IF file = NoFile THEN "binding" ELSE "removing"]
      /\ file' = file /\ daemon[d] = "off"
  BY DEF Start
<1>2. ProcessType'
  BY <1>1 DEF ProcessInv, ProcessType, Alive
<1>3. ASSUME NEW e \in Daemons \ overlapped'
      PROVE  /\ Believes(e)'
             /\ daemon'[e] \in Alive => \A f \in Daemons : daemon'[f] \in Alive => f = e
  <2>1. e \in Daemons \ overlapped
    BY <1>3 DEF Start
  <2>2. Believes(e)
    BY <2>1 DEF ProcessInv
  <2>3. CASE Running = {}
    <3>1. \A f \in Daemons : daemon[f] \notin Alive
      BY <2>3 DEF Running
    <3>2. QED
      BY <1>1, <2>2, <3>1 DEF ProcessInv, ProcessType, Believes, Alive, Listening
  <2>4. CASE Running # {}
    <3>1. e # d /\ e \notin Running
      BY <1>3, <2>4 DEF Start
    <3>2. daemon'[e] = daemon[e] /\ daemon[e] \notin Alive
      BY <1>1, <2>1, <3>1 DEF Running, ProcessInv, ProcessType
    <3>3. QED
      BY <1>1, <2>2, <3>2 DEF Believes, Alive, Listening
  <2>5. QED
    BY <2>3, <2>4
<1>4. QED
  BY <1>2, <1>3 DEF ProcessInv

(***************************************************************************)
(* Whatever a running process does to itself and to the file, no other     *)
(* process is alone meanwhile.                                             *)
(***************************************************************************)
LEMMA InvOfOne ==
    ASSUME ProcessInv, NEW d \in Daemons, daemon[d] \in Alive,
           NEW to \in Alive \cup {"refused", "ended"},
           daemon' = [daemon EXCEPT ![d] = to],
           file' \in Daemons \cup {NoFile}, overlapped' = overlapped,
           d \notin overlapped => Believes(d)'
    PROVE  ProcessInv'
<1>1. ProcessType'
  BY DEF ProcessInv, ProcessType, Alive
<1>2. ASSUME NEW e \in Daemons \ overlapped
      PROVE  /\ Believes(e)'
             /\ daemon'[e] \in Alive => \A f \in Daemons : daemon'[f] \in Alive => f = e
  <2>1. Believes(e) /\ (daemon[e] \in Alive => e = d)
    BY DEF ProcessInv
  <2>2. CASE e = d
    BY <2>2 DEF ProcessInv, ProcessType, Alive
  <2>3. CASE e # d
    <3>1. daemon'[e] = daemon[e] /\ daemon[e] \notin Alive
      BY <2>1, <2>3 DEF ProcessInv, ProcessType
    <3>2. QED
      BY <2>1, <3>1 DEF Believes, Alive, Listening
  <2>4. QED
    BY <2>2, <2>3
<1>3. QED
  BY <1>1, <1>2 DEF ProcessInv

(***************************************************************************)
(* Every step of serve(), and its death.                                   *)
(***************************************************************************)
LEMMA InvServe ==
    ASSUME ProcessInv, NEW d \in Daemons,
           RemoveStale(d) \/ Bind(d) \/ QuitAsked(d) \/ RemoveOwn(d) \/ Crash(d)
    PROVE  ProcessInv'
<1>1. ProcessType /\ (d \notin overlapped => Believes(d))
  BY DEF ProcessInv
<1>2. CASE RemoveStale(d)
  <2>1. d \notin overlapped => Believes(d)'
    BY <1>1, <1>2 DEF RemoveStale, Believes, ProcessType, Listening
  <2>2. QED
    BY <1>2, <2>1, InvOfOne DEF RemoveStale, Alive
<1>3. CASE Bind(d)
  <2>1. d \notin overlapped => Believes(d)'
    BY <1>1, <1>3 DEF Bind, Believes, ProcessType, Listening
  <2>2. QED
    BY <1>1, <1>3, <2>1, InvOfOne DEF Bind, ProcessType, Alive
<1>4. CASE QuitAsked(d)
  <2>1. d \notin overlapped => Believes(d)'
    BY <1>1, <1>4 DEF QuitAsked, Believes, ProcessType, Listening
  <2>2. QED
    BY <1>1, <1>4, <2>1, InvOfOne DEF QuitAsked, ProcessType, Alive
<1>5. CASE RemoveOwn(d)
  <2>1. d \notin overlapped => Believes(d)'
    BY <1>1, <1>5 DEF RemoveOwn, Ends, Believes, ProcessType, Listening
  <2>2. QED
    BY <1>5, <2>1, InvOfOne DEF RemoveOwn, Ends, Alive
<1>6. CASE Crash(d)
  <2>1. d \notin overlapped => Believes(d)'
    BY <1>1, <1>6 DEF Crash, Ends, Believes, ProcessType, Listening
  <2>2. QED
    BY <1>1, <1>6, <2>1, InvOfOne DEF Crash, Ends, ProcessType
<1>7. QED
  BY <1>2, <1>3, <1>4, <1>5, <1>6

(***************************************************************************)
(* Clients and the tasks that serve them leave the file alone.             *)
(***************************************************************************)
LEMMA InvNext == ProcessInv /\ [SocketNext]_socketVars => ProcessInv'
<1> SUFFICES ASSUME ProcessInv, [SocketNext]_socketVars PROVE ProcessInv'
  OBVIOUS
<1>1. CASE UNCHANGED process
  BY <1>1 DEF process, ProcessInv, ProcessType, Believes
<1>2. ASSUME NEW c \in Clients,
             \/ Connect(c) \/ Accept(c) \/ Told(c) \/ CutOff(c)
             \/ ReadLine(c) \/ Execute(c) \/ Reply(c) \/ EndOfInput(c)
      PROVE  UNCHANGED process
  BY <1>2 DEF Connect, Accept, Told, CutOff, ReadLine, Execute, Reply, EndOfInput
<1>3. ASSUME NEW d \in Daemons,
             \/ Start(d) \/ RemoveStale(d) \/ Bind(d)
             \/ QuitAsked(d) \/ RemoveOwn(d) \/ Crash(d)
      PROVE  ProcessInv'
  BY <1>3, InvStart, InvServe
<1>4. CASE UNCHANGED socketVars
  BY <1>1, <1>4 DEF socketVars
<1>5. QED
  BY <1>1, <1>2, <1>3, <1>4 DEF SocketNext

(***************************************************************************)
(* A daemon that lives alone has found the file as it believes it to be.   *)
(***************************************************************************)
LEMMA ServesAlone == ProcessInv => SoleDaemonServes
  BY DEF ProcessInv, Believes, SoleDaemonServes, Listening

-----------------------------------------------------------------------------
(* What is kept of a sequence *)

\* t begins with what s is.
Begins(s, t) ==
    /\ IsSeq(s) /\ IsSeq(t) /\ Len(s) <= Len(t)
    /\ \A i \in 1..Len(s) : t[i] = s[i]

(***************************************************************************)
(* A sequence begins with what it was before it grew by an entry.          *)
(***************************************************************************)
LEMMA GrownBegins ==
    ASSUME NEW s, IsSeq(s), NEW e, NEW t, t = s \/ t = Append(s, e)
    PROVE  Begins(s, t) /\ Begins(t, t)
<1>1. Len(s) \in Nat
  BY SeqFacts
<1>2. CASE t = s
  BY <1>1, <1>2 DEF Begins
<1>3. CASE t = Append(s, e)
  <2>1. IsSeq(t) /\ Len(t) = Len(s) + 1 /\ \A i \in 1..Len(s) : t[i] = s[i]
    BY <1>3, Appended
  <2>2. QED
    BY <1>1, <2>1 DEF Begins
<1>4. QED
  BY <1>2, <1>3

(***************************************************************************)
(* Beginning with s is having s as a prefix.                               *)
(***************************************************************************)
LEMMA BeginsIsPrefix ==
    ASSUME NEW s, NEW t, Begins(s, t)
    PROVE  IsPrefix(s, t)
<1>1. PICK S : s \in Seq(S)
  BY DEF Begins, IsSeq
<1>2. PICK T : t \in Seq(T)
  BY DEF Begins, IsSeq
<1> DEFINE U == S \cup T
<1>3. s \in Seq(U) /\ t \in Seq(U)
  BY <1>1, <1>2
<1> HIDE DEF U
<1>4. Len(s) \in Nat /\ Len(t) \in Nat /\ Len(s) <= Len(t)
  BY <1>3, LenProperties DEF Begins
<1>5. SubSeq(s, 1, Len(s)) = [i \in 1..Len(s) |-> s[i]]
      /\ SubSeq(t, 1, Len(s)) = [i \in 1..Len(s) |-> t[i]]
  BY <1>3, <1>4
<1>6. QED
  BY <1>4, <1>5 DEF IsPrefix, Begins

(***************************************************************************)
(* The more entries are gone through, the more are kept.                   *)
(***************************************************************************)
LEMMA KeptGrows ==
    ASSUME NEW s, NEW x, Len(s) \in Nat, NEW n \in 0..Len(s)
    PROVE  \A m \in 0..n : Begins(Kept(s, x)[m], Kept(s, x)[n])
<1> DEFINE K(m) == Kept(s, x)[m]
           T == {N \in Nat : N <= Len(s) => \A m \in 0..N : Begins(K(m), K(N))}
<1>1. 0 \in T
  BY KeptRule, EmptyIsSeq DEF Begins
<1>2. ASSUME NEW N \in T PROVE N + 1 \in T
  <2> SUFFICES ASSUME N + 1 <= Len(s), NEW m \in 0..(N + 1) PROVE Begins(K(m), K(N + 1))
    BY <1>2
  <2>1. N \in Nat /\ \A j \in 0..N : Begins(K(j), K(N))
    BY <1>2
  <2>2. N + 1 \in 1..Len(s) /\ (N + 1) - 1 = N /\ N \in 0..N
    BY <2>1
  <2>3. K(N + 1) = K(N) \/ K(N + 1) = Append(K(N), s[N + 1])
    <3>1. \A i \in 1..Len(s) :
             K(i) = IF s[i] = x THEN K(i - 1) ELSE Append(K(i - 1), s[i])
      BY KeptRule
    <3> HIDE DEF K
    <3>2. K(N + 1) = IF s[N + 1] = x THEN K(N) ELSE Append(K(N), s[N + 1])
      BY <2>2, <3>1
    <3>3. QED
      BY <3>2
  <2> HIDE DEF K
  <2>4. IsSeq(K(N))
    <3>1. Begins(K(N), K(N))
      BY <2>1, <2>2
    <3>2. QED
      BY <3>1 DEF Begins
  <2>5. Begins(K(N), K(N + 1)) /\ Begins(K(N + 1), K(N + 1))
    BY <2>3, <2>4, GrownBegins
  <2>6. CASE m = N + 1
    BY <2>5, <2>6
  <2>7. CASE m # N + 1
    <3>1. Begins(K(m), K(N)) /\ Begins(K(N), K(N + 1))
      BY <2>1, <2>5, <2>7
    <3>2. Len(K(m)) \in Nat /\ Len(K(N)) \in Nat /\ Len(K(N + 1)) \in Nat
      BY <3>1, SeqFacts DEF Begins
    <3>3. QED
      BY <3>1, <3>2 DEF Begins
  <2>8. QED
    BY <2>6, <2>7
<1>3. T = Nat
  <2> HIDE DEF T
  <2>1. T \in SUBSET Nat
    BY DEF T
  <2>2. QED
    BY <1>1, <1>2, <2>1, SetInduction
<1>4. QED
  BY <1>3

(***************************************************************************)
(* What is kept of the first entries is the same in any sequence with      *)
(* those.                                                                  *)
(***************************************************************************)
LEMMA KeptAgree ==
    ASSUME NEW s, NEW t, NEW x, Len(s) \in Nat, Len(t) \in Nat, Len(s) <= Len(t),
           \A i \in 1..Len(s) : t[i] = s[i]
    PROVE  Kept(s, x)[Len(s)] = Kept(t, x)[Len(s)]
<1> DEFINE T == {N \in Nat : N <= Len(s) => Kept(s, x)[N] = Kept(t, x)[N]}
<1>1. 0 \in T
  BY KeptRule
<1>2. ASSUME NEW N \in T PROVE N + 1 \in T
  <2> SUFFICES ASSUME N + 1 <= Len(s) PROVE Kept(s, x)[N + 1] = Kept(t, x)[N + 1]
    BY <1>2
  <2>1. N \in Nat /\ Kept(s, x)[N] = Kept(t, x)[N]
    BY <1>2
  <2>2. N + 1 \in 1..Len(s) /\ N + 1 \in 1..Len(t) /\ (N + 1) - 1 = N /\ t[N + 1] = s[N + 1]
    BY <2>1
  <2>3. QED
    BY <2>1, <2>2, KeptRule
<1>3. T = Nat
  <2> HIDE DEF T
  <2>1. T \in SUBSET Nat
    BY DEF T
  <2>2. QED
    BY <1>1, <1>2, <2>1, SetInduction
<1>4. QED
  BY <1>3

(***************************************************************************)
(* What is left of a sequence with one entry more.                         *)
(***************************************************************************)
LEMMA WithoutAppend ==
    ASSUME NEW s, IsSeq(s), NEW e, NEW x
    PROVE  /\ IsSeq(Without(s, x))
           /\ Without(Append(s, e), x) =
                IF e = x THEN Without(s, x) ELSE Append(Without(s, x), e)
<1> DEFINE t == Append(s, e)
           n == Len(s)
<1>1. n \in Nat /\ Len(t) = n + 1 /\ t[n + 1] = e /\ \A i \in 1..n : t[i] = s[i]
  BY Appended
<1> HIDE DEF t
<1>2. Kept(s, x)[n] = Kept(t, x)[n]
  BY <1>1, KeptAgree
<1>3. \A i \in 1..(n + 1) :
         Kept(t, x)[i] = IF t[i] = x THEN Kept(t, x)[i - 1]
                         ELSE Append(Kept(t, x)[i - 1], t[i])
  BY <1>1, KeptRule
<1>4. n + 1 \in 1..(n + 1) /\ (n + 1) - 1 = n /\ n \in 0..n
  BY <1>1
<1>5. Kept(t, x)[n + 1] = IF e = x THEN Kept(t, x)[n] ELSE Append(Kept(t, x)[n], e)
  BY <1>1, <1>3, <1>4
<1>6. Begins(Kept(s, x)[n], Kept(s, x)[n])
  BY <1>1, <1>4, KeptGrows
<1>7. QED
  BY <1>1, <1>2, <1>5, <1>6 DEF Without, Begins, t

(***************************************************************************)
(* What is left of a beginning is the beginning of what is left.           *)
(***************************************************************************)
LEMMA WithoutBegins ==
    ASSUME NEW s, NEW t, Begins(s, t), NEW x
    PROVE  Begins(Without(s, x), Without(t, x))
<1>1. Len(s) \in Nat /\ Len(t) \in Nat /\ Len(s) <= Len(t) /\ \A i \in 1..Len(s) : t[i] = s[i]
  BY SeqFacts DEF Begins
<1>2. Kept(s, x)[Len(s)] = Kept(t, x)[Len(s)]
  BY <1>1, KeptAgree
<1>3. Len(t) \in 0..Len(t) /\ Len(s) \in 0..Len(t)
  BY <1>1
<1>4. Begins(Kept(t, x)[Len(s)], Kept(t, x)[Len(t)])
  BY <1>1, <1>3, KeptGrows
<1>5. QED
  BY <1>2, <1>4 DEF Without

-----------------------------------------------------------------------------
(* What a line is due, and what the lines a task has read are due. *)

JobOn(line) == IF IsArgs(line) THEN Routed(line) ELSE line

Jobs(lines) == [i \in DOMAIN lines |-> JobOn(lines[i])]

DueBy(script, n) == Jobs(Kept(script, Blank)[n])

DoneBy(script, n) == Without(DueBy(script, n), Malformed)

(***************************************************************************)
(* A job for each line.                                                    *)
(***************************************************************************)
LEMMA JobsFacts ==
    ASSUME NEW s, IsSeq(s)
    PROVE  /\ IsSeq(Jobs(s)) /\ Len(Jobs(s)) = Len(s)
           /\ \A i \in 1..Len(s) : Jobs(s)[i] = JobOn(s[i])
<1>1. Len(s) \in Nat /\ DOMAIN s = 1..Len(s)
  BY SeqFacts
<1>2. Jobs(s) = [i \in 1..Len(s) |-> JobOn(s[i])]
  BY <1>1 DEF Jobs
<1>3. \A i \in 1..Len(s) : Jobs(s)[i] = JobOn(s[i])
  BY <1>2
<1>4. Jobs(s) = [i \in 1..Len(s) |-> Jobs(s)[i]]
  BY <1>2
<1>5. QED
  BY <1>1, <1>3, <1>4, MappedSeq

(***************************************************************************)
(* One line more is one job more.                                          *)
(***************************************************************************)
LEMMA JobsAppend ==
    ASSUME NEW s, IsSeq(s), NEW e
    PROVE  Jobs(Append(s, e)) = Append(Jobs(s), JobOn(e))
<1> DEFINE t == Append(s, e)
           u == Append(Jobs(s), JobOn(e))
<1>1. /\ IsSeq(t) /\ Len(t) = Len(s) + 1 /\ Len(s) \in Nat
      /\ \A i \in 1..Len(s) : t[i] = s[i]
      /\ t[Len(s) + 1] = e
  BY Appended
<1>2. /\ IsSeq(Jobs(s)) /\ Len(Jobs(s)) = Len(s)
      /\ \A i \in 1..Len(s) : Jobs(s)[i] = JobOn(s[i])
  BY JobsFacts
<1>3. /\ IsSeq(u) /\ Len(u) = Len(s) + 1
      /\ \A i \in 1..Len(s) : u[i] = Jobs(s)[i]
      /\ u[Len(s) + 1] = JobOn(e)
  BY <1>2, Appended
<1>4. /\ IsSeq(Jobs(t)) /\ Len(Jobs(t)) = Len(t)
      /\ \A i \in 1..Len(t) : Jobs(t)[i] = JobOn(t[i])
  BY <1>1, JobsFacts
<1> HIDE DEF t, u
<1>5. ASSUME NEW i \in 1..Len(t) PROVE Jobs(t)[i] = u[i]
  <2>1. CASE i = Len(s) + 1
    BY <1>1, <1>3, <1>4, <2>1
  <2>2. CASE i \in 1..Len(s)
    BY <1>1, <1>2, <1>3, <1>4, <2>2
  <2>3. QED
    BY <1>1, <2>1, <2>2
<1>6. Jobs(t) = u
  BY <1>1, <1>3, <1>4, <1>5, SameSeq
<1>7. QED
  BY <1>6 DEF t, u

(***************************************************************************)
(* What one line more adds to what is due: a job, unless it is blank.      *)
(***************************************************************************)
LEMMA DueByRule ==
    ASSUME NEW s, Len(s) \in Nat
    PROVE  /\ DueBy(s, 0) = <<>> /\ DoneBy(s, 0) = <<>>
           /\ \A n \in 0..Len(s) : IsSeq(DueBy(s, n)) /\ IsSeq(DoneBy(s, n))
           /\ \A n \in 1..Len(s) :
                DueBy(s, n) = IF s[n] = Blank THEN DueBy(s, n - 1)
                              ELSE Append(DueBy(s, n - 1), JobOn(s[n]))
<1>1. \A n \in 0..Len(s) : IsSeq(Kept(s, Blank)[n])
  <2> SUFFICES ASSUME NEW n \in 0..Len(s) PROVE IsSeq(Kept(s, Blank)[n])
    OBVIOUS
  <2>1. Begins(Kept(s, Blank)[n], Kept(s, Blank)[n])
    <3>1. n \in 0..n
      OBVIOUS
    <3>2. QED
      BY <3>1, KeptGrows
  <2>2. QED
    BY <2>1 DEF Begins
<1>2. DueBy(s, 0) = <<>>
  <2>1. Kept(s, Blank)[0] = <<>>
    BY KeptRule
  <2>2. IsSeq(Jobs(<<>>)) /\ Len(Jobs(<<>>)) = 0
    BY EmptyIsSeq, JobsFacts
  <2>3. QED
    BY <2>1, <2>2, SeqFacts DEF DueBy
<1>3. \A n \in 0..Len(s) : IsSeq(DueBy(s, n))
  BY <1>1, JobsFacts DEF DueBy
<1>4. \A n \in 0..Len(s) : IsSeq(DoneBy(s, n))
  BY <1>3, WithoutAppend DEF DoneBy
<1>5. DoneBy(s, 0) = <<>>
  <2>1. Len(<<>>) \in Nat /\ Len(<<>>) = 0
    BY EmptyIsSeq
  <2>2. Kept(<<>>, Malformed)[0] = <<>>
    BY <2>1, KeptRule
  <2>3. QED
    BY <1>2, <2>1, <2>2 DEF DoneBy, Without
<1>6. ASSUME NEW n \in 1..Len(s)
      PROVE  DueBy(s, n) = IF s[n] = Blank THEN DueBy(s, n - 1)
                           ELSE Append(DueBy(s, n - 1), JobOn(s[n]))
  <2>1. Kept(s, Blank)[n] = IF s[n] = Blank THEN Kept(s, Blank)[n - 1]
                            ELSE Append(Kept(s, Blank)[n - 1], s[n])
    BY KeptRule
  <2>2. n - 1 \in 0..Len(s)
    OBVIOUS
  <2>3. IsSeq(Kept(s, Blank)[n - 1])
    BY <1>1, <2>2
  <2>4. Jobs(Append(Kept(s, Blank)[n - 1], s[n])) = Append(DueBy(s, n - 1), JobOn(s[n]))
    BY <2>3, JobsAppend DEF DueBy
  <2>5. QED
    BY <2>1, <2>4 DEF DueBy
<1>7. QED
  BY <1>2, <1>3, <1>4, <1>5, <1>6

(***************************************************************************)
(* What was due and done before is the beginning of what is after.         *)
(***************************************************************************)
LEMMA DueByGrows ==
    ASSUME NEW s, Len(s) \in Nat, NEW n \in 0..Len(s), NEW m \in 0..n
    PROVE  Begins(DueBy(s, m), DueBy(s, n)) /\ Begins(DoneBy(s, m), DoneBy(s, n))
<1> DEFINE K(i) == Kept(s, Blank)[i]
<1>1. Begins(K(m), K(n))
  BY KeptGrows
<1>2. IsSeq(K(m)) /\ IsSeq(K(n)) /\ Len(K(m)) \in Nat /\ Len(K(n)) \in Nat
  BY <1>1, SeqFacts DEF Begins
<1>3. Begins(Jobs(K(m)), Jobs(K(n)))
  <2> HIDE DEF K
  <2>1. /\ IsSeq(Jobs(K(m))) /\ Len(Jobs(K(m))) = Len(K(m))
        /\ \A i \in 1..Len(K(m)) : Jobs(K(m))[i] = JobOn(K(m)[i])
    BY <1>2, JobsFacts
  <2>2. /\ IsSeq(Jobs(K(n))) /\ Len(Jobs(K(n))) = Len(K(n))
        /\ \A i \in 1..Len(K(n)) : Jobs(K(n))[i] = JobOn(K(n)[i])
    BY <1>2, JobsFacts
  <2>3. QED
    BY <1>1, <1>2, <2>1, <2>2 DEF Begins
<1>4. QED
  BY <1>3, WithoutBegins DEF DueBy, DoneBy

-----------------------------------------------------------------------------
(* Over the wire *)

(***************************************************************************)
(* A selection comes back from the wire as it was sent.                    *)
(***************************************************************************)
LEMMA SelectionOverWire ==
    ASSUME NEW s, IsSelection(s)
    PROVE  SelectionFromSpec(SelectionToSpec(s)) = s
<1>1. CASE s \in [kind : {"Full", "PerOutput", "Focused", "Window", "Interactive"}]
  <2>1. /\ s = [kind |-> s.kind]
        /\ s.kind \in {"Full", "PerOutput", "Focused", "Window", "Interactive"}
    BY <1>1
  <2>2. QED
    BY <2>1 DEF SelectionToSpec, SelectionFromSpec, Named
<1>2. CASE s.kind = "Output" /\ s = [kind |-> "Output", name |-> s.name]
  BY <1>2 DEF SelectionToSpec, SelectionFromSpec
<1>3. CASE s.kind = "Region" /\ s = [kind |-> "Region",
                                rect |-> <<s.rect[1], s.rect[2], s.rect[3], s.rect[4]>>]
  <2> DEFINE spec == [kind |-> "region", x |-> s.rect[1], y |-> s.rect[2],
                      w |-> s.rect[3], h |-> s.rect[4]]
  <2>1. SelectionToSpec(s) = spec
    BY <1>3 DEF SelectionToSpec
  <2>2. SelectionFromSpec(spec)
          = [kind |-> "Region", rect |-> <<spec.x, spec.y, spec.w, spec.h>>]
    BY DEF SelectionFromSpec
  <2>3. QED
    BY <1>3, <2>1, <2>2
<1>4. QED
  BY <1>1, <1>2, <1>3 DEF IsSelection

\* What one sink becomes with no kind of its own.
Resolved(s, kind) ==
    IF IsClipboard(s) /\ s.target = Unset THEN Clipboard(kind) ELSE s

OneSpec(s) ==
    IF IsFile(s) THEN [kind |-> "file", path |-> s.path]
    ELSE [kind |-> "clipboard", clipboard_kind |-> s.target]

OneSink(s) ==
    IF s.kind = "file" THEN File(s.path)
    ELSE Clipboard(IF s.clipboard_kind = Unset THEN DefaultKind ELSE s.clipboard_kind)

(***************************************************************************)
(* A sink comes back from the wire with its kind, or with the default one. *)
(***************************************************************************)
LEMMA SinkOverWire ==
    ASSUME NEW s \in SinkSpecs
    PROVE  /\ OneSink(OneSpec(s)) = Resolved(s, DefaultKind)
           /\ \A kind : kind # Unset => OneSink(OneSpec(Resolved(s, kind))) = Resolved(s, kind)
<1>1. CASE \E p \in Paths \cup {Unset} : s = File(p)
  BY <1>1 DEF OneSink, OneSpec, Resolved, File, Clipboard, IsFile, IsClipboard
<1>2. CASE \E k \in Kinds \cup {Unset} : s = Clipboard(k)
  <2>1. PICK k : s = Clipboard(k)
    BY <1>2
  <2>2. \A j : /\ Clipboard(j).kind = "Clipboard" /\ Clipboard(j).target = j
    BY DEF Clipboard
  <2>3. \A j : OneSpec(Clipboard(j)) = [kind |-> "clipboard", clipboard_kind |-> j]
    BY <2>2 DEF OneSpec, IsFile
  <2>4. \A j : OneSink(OneSpec(Clipboard(j)))
                = Clipboard(IF j = Unset THEN DefaultKind ELSE j)
    BY <2>3 DEF OneSink
  <2>5. \A kind : Resolved(s, kind) = Clipboard(IF k = Unset THEN kind ELSE k)
    BY <2>1, <2>2 DEF Resolved, IsClipboard
  <2>6. QED
    BY <2>1, <2>4, <2>5
<1>3. QED
  BY <1>1, <1>2 DEF SinkSpecs

(***************************************************************************)
(* A sequence with no index is the empty one.                              *)
(***************************************************************************)
LEMMA NoEntries ==
    ASSUME NEW f, f = [i \in {} |-> f[i]]
    PROVE  f = <<>>
<1>1. f = [i \in 1..0 |-> f[i]]
  OBVIOUS
<1>2. IsSeq(f) /\ Len(f) = 0
  BY <1>1, MappedSeq
<1>3. QED
  BY <1>2, SeqFacts

(***************************************************************************)
(* The sinks come back as those of the same arguments without a daemon.    *)
(***************************************************************************)
LEMMA SinksOverWire ==
    ASSUME NEW to \in Seq(SinkSpecs), NEW type
    PROVE  SinksFromSpecs(SinksToSpecs(IF type = Unset THEN to ELSE Typed(to, type)))
             = IF to = <<>> THEN DefaultSinks
               ELSE Typed(to, IF type = Unset THEN DefaultKind ELSE type)
<1> DEFINE given == IF type = Unset THEN to ELSE Typed(to, type)
           specs == SinksToSpecs(given)
           kind == IF type = Unset THEN DefaultKind ELSE type
           D == DOMAIN to
<1>1. /\ D = 1..Len(to) /\ Len(to) \in Nat /\ to = [i \in D |-> to[i]]
      /\ \A i \in D : to[i] \in SinkSpecs
  BY LenProperties, ElementOfSeq
<1>2. to = <<>> <=> D = {}
  <2>1. to = <<>> <=> Len(to) = 0
    BY EmptySeq
  <2>2. Len(to) = 0 => D = {}
    BY <1>1
  <2>3. Len(to) # 0 => 1 \in D
    BY <1>1
  <2>4. QED
    BY <2>1, <2>2, <2>3
<1>3. \A k : Typed(to, k) = [i \in D |-> Resolved(to[i], k)]
  BY DEF Typed, Resolved
<1>4. DOMAIN given = D /\ \A i \in D : given[i] = IF type = Unset THEN to[i]
                                                  ELSE Resolved(to[i], type)
  BY <1>3
<1> HIDE DEF given
<1>5. specs = [i \in D |-> OneSpec(given[i])]
  BY <1>4 DEF SinksToSpecs, OneSpec
<1> HIDE DEF specs
<1>6. specs = <<>> <=> D = {}
  <2>1. D = {} => specs = <<>>
    <3> SUFFICES ASSUME D = {} PROVE specs = <<>>
      OBVIOUS
    <3>1. specs = [i \in {} |-> specs[i]]
      BY <1>5
    <3>2. QED
      BY <3>1, NoEntries
  <2>2. specs = <<>> => D = {}
    <3>1. DOMAIN specs = D
      BY <1>5
    <3>2. QED
      BY <3>1, EmptyIsSeq
  <2>3. QED
    BY <2>1, <2>2
<1>7. CASE D = {}
  BY <1>2, <1>6, <1>7 DEF SinksFromSpecs, specs, given
<1>8. CASE D # {}
  <2>1. SinksFromSpecs(specs) = [i \in D |-> OneSink(specs[i])]
    <3>1. specs # <<>> /\ DOMAIN specs = D
      BY <1>5, <1>6, <1>8
    <3>2. SinksFromSpecs(specs) = [i \in DOMAIN specs |-> OneSink(specs[i])]
      BY <3>1 DEF SinksFromSpecs, OneSink
    <3>3. QED
      BY <3>1, <3>2
  <2>2. ASSUME NEW i \in D PROVE OneSink(specs[i]) = Resolved(to[i], kind)
    <3>1. specs[i] = OneSpec(given[i]) /\ to[i] \in SinkSpecs
      BY <1>1, <1>5
    <3>2. QED
      BY <1>4, <3>1, SinkOverWire
  <2>3. SinksFromSpecs(specs) = Typed(to, kind)
    BY <1>3, <2>1, <2>2
  <2>4. QED
    BY <1>2, <1>8, <2>3 DEF specs, given
<1>9. QED
  BY <1>7, <1>8

(***************************************************************************)
(* What a client sends says what its arguments come to: of a screenshot,   *)
(* the job that the same arguments are without a daemon; of `draw`, the    *)
(* overlay without flags or the toggle (cli/mod.rs, build_request;         *)
(* daemon.rs, dispatch; run() of cli/screenshot.rs and of cli/draw.rs).    *)
(***************************************************************************)
LEMMA SameJob ==
    ASSUME NEW line, IsLine(line), IsArgs(line)
    PROVE  JobOf(BuildRequest(line)) = Routed(line) /\ Routed(line) # Malformed
<1>1. CASE line.command = "draw"
  <2>1. CASE line.toggle_passthrough
    <3>1. BuildRequest(line) = Named("passthrough_toggle")
      BY <1>1, <2>1 DEF BuildRequest
    <3>2. JobOf(BuildRequest(line)) = Named("passthrough_toggle")
      BY <3>1 DEF JobOf, Named
    <3>3. Routed(line) = Named("passthrough_toggle")
      BY <1>1, <2>1 DEF Routed
    <3>4. Named("passthrough_toggle") # Malformed
      BY DEF Named, Malformed
    <3>5. QED
      BY <3>2, <3>3, <3>4
  <2>2. CASE ~line.toggle_passthrough
    <3>1. BuildRequest(line) = Named("draw_toggle")
      BY <1>1, <2>2 DEF BuildRequest
    <3>2. JobOf(BuildRequest(line)) = Overlay(FALSE, DefaultSinks, FALSE)
      BY <3>1 DEF JobOf, Named
    <3>3. DirectJob(PlainDraw)
            = Overlay(PlainDraw.passthrough, DirectSinks(PlainDraw),
                      EffectiveCursor(PlainDraw.cursor))
      BY DEF DirectJob, PlainDraw
    <3>4. /\ DirectJob(PlainDraw).passthrough = PlainDraw.passthrough
          /\ DirectJob(PlainDraw).sinks = DirectSinks(PlainDraw)
      BY <3>3 DEF Overlay
    <3>5. PlainDraw.passthrough = FALSE /\ DirectSinks(PlainDraw) = DefaultSinks
      BY DEF PlainDraw, DirectSinks
    <3>6. Routed(line) = Overlay(FALSE, DefaultSinks, FALSE)
      BY <1>1, <2>2, <3>4, <3>5 DEF Routed
    <3>7. Overlay(FALSE, DefaultSinks, FALSE) # Malformed
      BY DEF Overlay, Malformed
    <3>8. QED
      BY <3>2, <3>6, <3>7
  <2>3. QED
    BY <2>1, <2>2
<1>2. CASE line.command = "screenshot"
  <2>1. /\ IsSelection(line.selection) /\ line.to \in Seq(SinkSpecs)
    BY <1>2 DEF IsLine, Blank, Malformed
  <2> DEFINE given == IF line.clipboard_type = Unset THEN line.to
                      ELSE Typed(line.to, line.clipboard_type)
             kind == IF line.clipboard_type = Unset THEN DefaultKind
                     ELSE line.clipboard_type
  <2>2. BuildRequest(line)
          = [kind |-> "screenshot", selection |-> SelectionToSpec(line.selection),
             cursor |-> line.cursor, edit |-> line.edit, delay_secs |-> line.delay,
             sinks |-> SinksToSpecs(given)]
    BY <1>2 DEF BuildRequest
  <2>3. Routed(line)
          = [kind |-> "screenshot", selection |-> line.selection,
             sinks |-> DirectSinks(line),
             edit |-> line.edit, delay |-> EffectiveDelay(line.delay),
             cursor |-> EffectiveCursor(line.cursor)]
    BY <1>2 DEF Routed, DirectJob
  <2>4. SelectionFromSpec(SelectionToSpec(line.selection)) = line.selection
    BY <2>1, SelectionOverWire
  <2>5. SinksFromSpecs(SinksToSpecs(given)) = DirectSinks(line)
    <3>1. SinksFromSpecs(SinksToSpecs(given))
            = IF line.to = <<>> THEN DefaultSinks ELSE Typed(line.to, kind)
      BY <2>1, SinksOverWire
    <3>2. QED
      BY <3>1 DEF DirectSinks
  <2> HIDE DEF given, kind
  <2>6. JobOf(BuildRequest(line))
          = [kind |-> "screenshot",
             selection |-> SelectionFromSpec(SelectionToSpec(line.selection)),
             sinks |-> SinksFromSpecs(SinksToSpecs(given)), edit |-> line.edit,
             delay |-> EffectiveDelay(line.delay), cursor |-> EffectiveCursor(line.cursor)]
    BY <2>2 DEF JobOf
  <2>7. Routed(line) # Malformed
    BY <2>3 DEF Malformed
  <2>8. QED
    BY <2>3, <2>4, <2>5, <2>6, <2>7
<1>3. QED
  BY <1>1, <1>2 DEF IsArgs

-----------------------------------------------------------------------------
(* The account of one connection *)

(***************************************************************************)
(* What one line more adds to what is done: a job, if it is a request.     *)
(***************************************************************************)
LEMMA DoneByRule ==
    ASSUME NEW s, Len(s) \in Nat, NEW n \in 1..Len(s)
    PROVE  DoneBy(s, n) =
             IF s[n] = Blank \/ JobOn(s[n]) = Malformed THEN DoneBy(s, n - 1)
             ELSE Append(DoneBy(s, n - 1), JobOn(s[n]))
<1>1. n - 1 \in 0..Len(s)
  OBVIOUS
<1>2. IsSeq(DueBy(s, n - 1))
  BY <1>1, DueByRule
<1>3. DueBy(s, n) = IF s[n] = Blank THEN DueBy(s, n - 1)
                    ELSE Append(DueBy(s, n - 1), JobOn(s[n]))
  BY DueByRule
<1>4. Without(Append(DueBy(s, n - 1), JobOn(s[n])), Malformed)
        = IF JobOn(s[n]) = Malformed THEN Without(DueBy(s, n - 1), Malformed)
          ELSE Append(Without(DueBy(s, n - 1), Malformed), JobOn(s[n]))
  BY <1>2, WithoutAppend
<1>5. QED
  BY <1>3, <1>4 DEF DoneBy

\* What responses are about.
About(responses) == [i \in DOMAIN responses |-> responses[i].job]

(***************************************************************************)
(* What a sequence of responses is about.                                  *)
(***************************************************************************)
LEMMA AboutFacts ==
    ASSUME NEW s, IsSeq(s)
    PROVE  /\ IsSeq(About(s)) /\ Len(About(s)) = Len(s)
           /\ \A i \in 1..Len(s) : About(s)[i] = s[i].job
<1>1. Len(s) \in Nat /\ DOMAIN s = 1..Len(s)
  BY SeqFacts
<1>2. About(s) = [i \in 1..Len(s) |-> s[i].job]
  BY <1>1 DEF About
<1>3. \A i \in 1..Len(s) : About(s)[i] = s[i].job
  BY <1>2
<1>4. About(s) = [i \in 1..Len(s) |-> About(s)[i]]
  BY <1>2
<1>5. QED
  BY <1>1, <1>3, <1>4, MappedSeq

(***************************************************************************)
(* One response more.                                                      *)
(***************************************************************************)
LEMMA AboutAppend ==
    ASSUME NEW s, IsSeq(s), NEW kind, NEW job
    PROVE  About(Append(s, Response(kind, job))) = Append(About(s), job)
<1> DEFINE e == Response(kind, job)
           t == Append(s, e)
           u == Append(About(s), job)
<1>1. e.job = job
  BY DEF Response
<1> HIDE DEF e
<1>2. /\ IsSeq(t) /\ Len(t) = Len(s) + 1 /\ Len(s) \in Nat
      /\ \A i \in 1..Len(s) : t[i] = s[i]
      /\ t[Len(s) + 1] = e
  BY Appended
<1>3. /\ IsSeq(About(s)) /\ Len(About(s)) = Len(s)
      /\ \A i \in 1..Len(s) : About(s)[i] = s[i].job
  BY AboutFacts
<1>4. /\ IsSeq(u) /\ Len(u) = Len(s) + 1
      /\ \A i \in 1..Len(s) : u[i] = About(s)[i]
      /\ u[Len(s) + 1] = job
  BY <1>3, Appended
<1>5. /\ IsSeq(About(t)) /\ Len(About(t)) = Len(t)
      /\ \A i \in 1..Len(t) : About(t)[i] = t[i].job
  BY <1>2, AboutFacts
<1> HIDE DEF t, u
<1>6. ASSUME NEW i \in 1..Len(t) PROVE About(t)[i] = u[i]
  <2>1. CASE i = Len(s) + 1
    BY <1>1, <1>2, <1>4, <1>5, <2>1
  <2>2. CASE i \in 1..Len(s)
    BY <1>2, <1>3, <1>4, <1>5, <2>2
  <2>3. QED
    BY <1>2, <2>1, <2>2
<1>7. About(t) = u
  BY <1>2, <1>4, <1>5, <1>6, SameSeq
<1>8. QED
  BY <1>7 DEF t, u, e

\* What a client may have written.
IsScript(script) == IsSeq(script) /\ \A i \in 1..Len(script) : IsLine(script[i])

\* The lines of the script that are left to read.
Unread(script, rest) ==
    /\ IsSeq(rest) /\ Len(rest) <= Len(script)
    /\ \A i \in 1..Len(rest) : rest[i] = script[(Len(script) - Len(rest)) + i]

\* Of the lines read, the first heard have their response and the first
\* made were carried out.
Account(script, heard, made, out, done) ==
    About(out) = DueBy(script, heard) /\ done = DoneBy(script, made)

\* Where a task is says how its account stands.
Stands(phase, script, rest, out, done) ==
    LET n == Len(script) - Len(rest)
    IN \/ /\ phase \in {"none", "backlog", "reading"}
          /\ Account(script, n, n, out, done)
       \/ /\ phase = "dispatching" /\ n # 0 /\ IsArgs(script[n])
          /\ Account(script, n - 1, n - 1, out, done)
       \/ /\ phase = "replying" /\ n # 0 /\ IsArgs(script[n])
          /\ Account(script, n - 1, n, out, done)

(***************************************************************************)
(* A line read: passed over, answered at once, or to be carried out.       *)
(***************************************************************************)
LEMMA LineRead ==
    ASSUME NEW script, IsScript(script), NEW rest, Unread(script, rest), rest # <<>>,
           NEW out, IsSeq(out), NEW done, Stands("reading", script, rest, out, done)
    PROVE  LET line == Head(rest)
           IN /\ Unread(script, Tail(rest))
              /\ IsArgs(line) =>
                    /\ line # Malformed
                    /\ Stands("dispatching", script, Tail(rest), out, done)
              /\ ~IsArgs(line) => line \in {Blank, Malformed}
              /\ line = Blank => /\ line # Malformed
                                 /\ Stands("reading", script, Tail(rest), out, done)
              /\ line = Malformed =>
                    Stands("reading", script, Tail(rest),
                           Append(out, Response("Error", line)), done)
<1> DEFINE line == Head(rest)
           after == Tail(rest)
           n == Len(script) - Len(rest)
<1>1. /\ IsSeq(rest) /\ Len(rest) <= Len(script) /\ Len(script) \in Nat
      /\ \A i \in 1..Len(rest) : rest[i] = script[n + i]
  BY SeqFacts DEF Unread, IsScript
<1>2. /\ IsSeq(after) /\ Len(after) = Len(rest) - 1 /\ Len(rest) \in Nat \ {0}
      /\ line = rest[1] /\ \A i \in 1..Len(after) : after[i] = rest[i + 1]
  BY <1>1, Tailed
<1> HIDE DEF line, after
<1>3. /\ n \in Nat /\ n + 1 \in 1..Len(script) /\ n \in 0..Len(script)
      /\ Len(script) - Len(after) = n + 1 /\ (n + 1) - 1 = n /\ n + 1 # 0
      /\ line = script[n + 1]
  BY <1>1, <1>2
<1>4. Unread(script, after)
  <2>1. ASSUME NEW i \in 1..Len(after) PROVE after[i] = script[(n + 1) + i]
    <3>1. i + 1 \in 1..Len(rest) /\ after[i] = rest[i + 1] /\ n + (i + 1) = (n + 1) + i
      BY <1>2, <1>3
    <3>2. QED
      BY <1>1, <3>1
  <2>2. Len(after) <= Len(script)
    BY <1>1, <1>2
  <2>3. QED
    BY <1>2, <1>3, <2>1, <2>2 DEF Unread
<1>5. IsLine(line)
  BY <1>3 DEF IsScript
<1>6. Account(script, n, n, out, done)
  BY DEF Stands
<1> HIDE DEF n
<1>7. IsArgs(line) =>
        line # Malformed /\ Stands("dispatching", script, after, out, done)
  <2>1. ~IsArgs(Malformed)
    BY DEF IsArgs, Malformed
  <2>2. IsArgs(line) => Stands("dispatching", script, after, out, done)
    BY <1>3, <1>6 DEF Stands
  <2>3. QED
    BY <2>1, <2>2
<1>8. ~IsArgs(line) => line \in {Blank, Malformed}
  BY <1>5 DEF IsLine, IsArgs
<1>9. /\ DueBy(script, n + 1) = IF line = Blank THEN DueBy(script, n)
                                ELSE Append(DueBy(script, n), JobOn(line))
      /\ DoneBy(script, n + 1) =
            IF line = Blank \/ JobOn(line) = Malformed THEN DoneBy(script, n)
            ELSE Append(DoneBy(script, n), JobOn(line))
  <2>1. DueBy(script, n + 1) = IF line = Blank THEN DueBy(script, (n + 1) - 1)
                               ELSE Append(DueBy(script, (n + 1) - 1), JobOn(line))
    BY <1>1, <1>3, DueByRule
  <2>2. DoneBy(script, n + 1) =
            IF line = Blank \/ JobOn(line) = Malformed THEN DoneBy(script, (n + 1) - 1)
            ELSE Append(DoneBy(script, (n + 1) - 1), JobOn(line))
    BY <1>1, <1>3, DoneByRule
  <2>3. QED
    BY <1>3, <2>1, <2>2
<1>10. line = Blank => line # Malformed /\ Stands("reading", script, after, out, done)
  <2>1. Blank # Malformed
    BY DEF Blank, Malformed
  <2>2. line = Blank => Account(script, n + 1, n + 1, out, done)
    BY <1>6, <1>9 DEF Account
  <2>3. QED
    BY <1>3, <2>1, <2>2 DEF Stands
<1>11. ASSUME line = Malformed
       PROVE  Stands("reading", script, after, Append(out, Response("Error", line)), done)
  <2>1. line # Blank /\ JobOn(line) = Malformed
    BY <1>11 DEF Blank, Malformed, JobOn, IsArgs
  <2>2. About(Append(out, Response("Error", line))) = Append(About(out), line)
    BY AboutAppend
  <2>3. Account(script, n + 1, n + 1, Append(out, Response("Error", line)), done)
    BY <1>6, <1>9, <1>11, <2>1, <2>2 DEF Account
  <2>4. QED
    BY <1>3, <2>3 DEF Stands
<1>12. QED
  BY <1>4, <1>7, <1>8, <1>10, <1>11 DEF line, after

(***************************************************************************)
(* A line carried out, and then answered.                                  *)
(***************************************************************************)
LEMMA LineDone ==
    ASSUME NEW script, IsScript(script), NEW rest, Unread(script, rest),
           NEW out, IsSeq(out), NEW done
    PROVE  /\ Stands("dispatching", script, rest, out, done) =>
                Stands("replying", script, rest, out,
                       Append(done, JobOf(BuildRequest(script[Len(script) - Len(rest)]))))
           /\ Stands("replying", script, rest, out, done) =>
                \A kind : Stands("reading", script, rest,
                                 Append(out, Response(kind, done[Len(done)])), done)
<1> DEFINE n == Len(script) - Len(rest)
           job == JobOn(script[n])
<1>1. Len(script) \in Nat /\ Len(rest) \in Nat /\ Len(rest) <= Len(script)
  BY SeqFacts DEF IsScript, Unread
<1>2. n \in 0..Len(script)
  BY <1>1
<1> HIDE DEF n
<1> SUFFICES ASSUME n # 0, IsArgs(script[n])
             PROVE  /\ Account(script, n - 1, n - 1, out, done) =>
                         Account(script, n - 1, n, out,
                                 Append(done, JobOf(BuildRequest(script[n]))))
                    /\ Account(script, n - 1, n, out, done) =>
                         \A kind : Account(script, n, n,
                                           Append(out, Response(kind, done[Len(done)])), done)
  BY DEF Stands, n
<1>3. n \in 1..Len(script) /\ n - 1 \in 0..Len(script)
  BY <1>1, <1>2
<1>4. IsLine(script[n])
  BY <1>3 DEF IsScript
<1>5. /\ JobOf(BuildRequest(script[n])) = job /\ job # Malformed
      /\ script[n] # Blank
  <2>1. ~IsArgs(Blank)
    BY DEF IsArgs, Blank
  <2>2. QED
    BY <1>4, <2>1, SameJob DEF JobOn
<1> HIDE DEF job
<1>6. /\ DueBy(script, n) = Append(DueBy(script, n - 1), job)
      /\ DoneBy(script, n) = Append(DoneBy(script, n - 1), job)
  <2>1. DueBy(script, n) = IF script[n] = Blank THEN DueBy(script, n - 1)
                           ELSE Append(DueBy(script, n - 1), job)
    BY <1>1, <1>3, DueByRule DEF job
  <2>2. DoneBy(script, n) =
            IF script[n] = Blank \/ job = Malformed THEN DoneBy(script, n - 1)
            ELSE Append(DoneBy(script, n - 1), job)
    BY <1>1, <1>3, DoneByRule DEF job
  <2>3. QED
    BY <1>5, <2>1, <2>2
<1>7. IsSeq(DoneBy(script, n - 1))
  BY <1>1, <1>3, DueByRule
<1>8. DoneBy(script, n)[Len(DoneBy(script, n))] = job
  BY <1>6, <1>7, Appended
<1>9. \A kind : About(Append(out, Response(kind, job))) = Append(About(out), job)
  BY AboutAppend
<1>10. QED
  BY <1>5, <1>6, <1>8, <1>9 DEF Account

-----------------------------------------------------------------------------
(* The account is kept, whatever the daemons and the other clients do *)

Phases == {"none", "backlog", "reading", "dispatching", "replying"}

Lost(c) == server[c] \in Daemons /\ daemon[server[c]] = "ended"

(***************************************************************************)
(* AnsweredTruly speaks of what was answered; that it was carried out once *)
(* rests on where the task is and on which lines it has read, and for a    *)
(* client that was cut off on where the task was when the daemon ended.    *)
(***************************************************************************)
Served(c) ==
    /\ IsScript(sent[c]) /\ Unread(sent[c], input[c]) /\ IsSeq(output[c])
    /\ handler[c] \in Phases => Stands(handler[c], sent[c], input[c], output[c], executed[c])
    /\ handler[c] = "ended" =>
         \/ input[c] = <<>> /\ Stands("reading", sent[c], input[c], output[c], executed[c])
         \/ /\ Lost(c)
            /\ \E phase \in Phases :
                 Stands(phase, sent[c], input[c], output[c], executed[c])
    /\ client[c] \in {"idle", "unreached"} =>
         /\ server[c] \notin Daemons /\ handler[c] = "none"
         /\ output[c] = <<>> /\ executed[c] = <<>>

Domains ==
    /\ DOMAIN client = Clients /\ DOMAIN server = Clients
    /\ DOMAIN sent = Clients /\ DOMAIN input = Clients
    /\ handler \in [Clients -> Phases \cup {"ended"}]
    /\ DOMAIN output = Clients /\ DOMAIN executed = Clients

ServedInv ==
    /\ daemon \in [Daemons -> Alive \cup {"off", "refused", "ended"}]
    /\ file \in Daemons \cup {NoFile}
    /\ Domains
    /\ \A c \in Clients : Served(c)

ConnectionOf(c) ==
    <<client[c], server[c], sent[c], input[c], handler[c], output[c], executed[c]>>

(***************************************************************************)
(* The account of a client that was told nothing, whatever it wrote.       *)
(***************************************************************************)
LEMMA NothingStands ==
    /\ IsScript(<<>>) /\ Unread(<<>>, <<>>)
    /\ \A script : IsScript(script) =>
         /\ Unread(script, script)
         /\ \A phase \in {"none", "backlog", "reading"} :
              Stands(phase, script, script, <<>>, <<>>)
<1>1. IsScript(<<>>)
  BY EmptyIsSeq DEF IsScript
<1>2. ASSUME NEW script, IsScript(script)
      PROVE  /\ Unread(script, script)
             /\ \A phase \in {"none", "backlog", "reading"} :
                  Stands(phase, script, script, <<>>, <<>>)
  <2>1. Len(script) \in Nat /\ IsSeq(script)
    BY <1>2, SeqFacts DEF IsScript
  <2>2. Unread(script, script)
    BY <2>1 DEF Unread
  <2>3. DueBy(script, 0) = <<>> /\ DoneBy(script, 0) = <<>>
    BY <2>1, DueByRule
  <2>4. About(<<>>) = <<>>
    BY EmptyIsSeq, AboutFacts, SeqFacts
  <2>5. Account(script, 0, 0, <<>>, <<>>)
    BY <2>3, <2>4 DEF Account
  <2>6. QED
    BY <2>1, <2>2, <2>5 DEF Stands
<1>3. QED
  BY <1>1, <1>2

(***************************************************************************)
(* No account is open at the start.                                        *)
(***************************************************************************)
LEMMA ServedInit == SocketInit => ServedInv
<1> SUFFICES ASSUME SocketInit PROVE ServedInv
  OBVIOUS
<1>1. ASSUME NEW c \in Clients PROVE Served(c)
  <2>1. /\ client[c] = "idle" /\ server[c] = NoFile /\ handler[c] = "none"
        /\ sent[c] = <<>> /\ input[c] = <<>>
        /\ output[c] = <<>> /\ executed[c] = <<>>
    BY DEF SocketInit
  <2>2. Stands("none", <<>>, <<>>, <<>>, <<>>) /\ Unread(<<>>, <<>>) /\ IsScript(<<>>)
    BY NothingStands
  <2>3. QED
    BY <2>1, <2>2, EmptyIsSeq, SocketAssumption DEF Served
<1>2. QED
  BY <1>1 DEF SocketInit, ServedInv, Domains, Phases

(***************************************************************************)
(* What happens to others leaves an account as it stands, and an end of    *)
(* its daemon leaves it where it was.                                      *)
(***************************************************************************)
LEMMA ServedKept ==
    ASSUME ServedInv, NEW c \in Clients, Lost(c) => Lost(c)',
           /\ client'[c] = client[c] /\ server'[c] = server[c]
           /\ sent'[c] = sent[c] /\ input'[c] = input[c]
           /\ output'[c] = output[c] /\ executed'[c] = executed[c],
           handler'[c] = handler[c] \/ (handler'[c] = "ended" /\ Lost(c)')
    PROVE  Served(c)'
<1>1. Served(c) /\ handler[c] \in Phases \cup {"ended"}
  BY DEF ServedInv, Domains
<1>2. CASE handler'[c] = handler[c]
  BY <1>1, <1>2 DEF Served
<1>3. CASE handler'[c] = "ended" /\ Lost(c)'
  <2>1. \E phase \in Phases : Stands(phase, sent[c], input[c], output[c], executed[c])
    BY <1>1 DEF Served, Phases
  <2>2. client[c] \notin {"idle", "unreached"}
    BY <1>1, <1>3 DEF Served, Lost
  <2>3. QED
    BY <1>1, <1>3, <2>1, <2>2 DEF Served, Phases
<1>4. QED
  BY <1>2, <1>3

(***************************************************************************)
(* A daemon that ends takes its tasks with it; nothing ends twice.         *)
(***************************************************************************)
LEMMA ServedServe ==
    ASSUME ServedInv, NEW d \in Daemons,
           \/ Start(d) \/ RemoveStale(d) \/ Bind(d)
           \/ QuitAsked(d) \/ RemoveOwn(d) \/ Crash(d)
    PROVE  ServedInv'
<1>1. /\ daemon \in [Daemons -> Alive \cup {"off", "refused", "ended"}]
      /\ daemon[d] # "ended" /\ \A e \in Daemons \ {d} : daemon'[e] = daemon[e]
      /\ daemon' \in [Daemons -> Alive \cup {"off", "refused", "ended"}]
      /\ file' \in Daemons \cup {NoFile}
      /\ UNCHANGED <<client, server, sent, input, output, executed>>
  BY DEF ServedInv, Start, RemoveStale, Bind, QuitAsked, RemoveOwn, Crash, Ends, Alive,
         connection
<1>2. \A c \in Clients : Lost(c) => Lost(c)'
  BY <1>1 DEF Lost
<1>3. /\ handler' \in [Clients -> Phases \cup {"ended"}]
      /\ \A c \in Clients : \/ handler'[c] = handler[c]
                            \/ handler'[c] = "ended" /\ Lost(c)'
  <2>1. handler \in [Clients -> Phases \cup {"ended"}]
    BY DEF ServedInv, Domains
  <2>2. CASE RemoveOwn(d) \/ Crash(d)
    <3>1. /\ daemon' = [daemon EXCEPT ![d] = "ended"]
          /\ handler' = [c \in Clients |-> IF server[c] = d THEN "ended" ELSE handler[c]]
          /\ server' = server
      BY <2>2 DEF RemoveOwn, Crash, Ends
    <3>2. QED
      BY <1>1, <2>1, <3>1 DEF Lost
  <2>3. CASE ~(RemoveOwn(d) \/ Crash(d))
    <3>1. handler' = handler
      BY <2>3 DEF Start, RemoveStale, Bind, QuitAsked, connection
    <3>2. QED
      BY <2>1, <3>1
  <2>4. QED
    BY <2>2, <2>3
<1>4. ASSUME NEW c \in Clients PROVE Served(c)'
  BY <1>1, <1>2, <1>3, ServedKept
<1>5. QED
  BY <1>1, <1>3, <1>4 DEF ServedInv, Domains

(***************************************************************************)
(* What is done for one client changes nothing of another.                 *)
(***************************************************************************)
LEMMA ServedOthers ==
    ASSUME ServedInv, NEW c \in Clients, UNCHANGED process, Domains',
           \A e \in Clients \ {c} : ConnectionOf(e)' = ConnectionOf(e),
           Served(c)'
    PROVE  ServedInv'
<1>1. ASSUME NEW e \in Clients PROVE Served(e)'
  <2>1. CASE e = c
    BY <2>1
  <2>2. CASE e # c
    <3>1. /\ client'[e] = client[e] /\ server'[e] = server[e] /\ sent'[e] = sent[e]
          /\ input'[e] = input[e] /\ output'[e] = output[e] /\ executed'[e] = executed[e]
          /\ handler'[e] = handler[e] /\ daemon' = daemon
      BY <2>2 DEF ConnectionOf, process
    <3>2. Lost(e) => Lost(e)'
      BY <3>1 DEF Lost
    <3>3. QED
      BY <3>1, <3>2, ServedKept
  <2>3. QED
    BY <2>1, <2>2
<1>2. QED
  BY <1>1 DEF ServedInv, process

(***************************************************************************)
(* A client that connects has the account of one that was told nothing.    *)
(***************************************************************************)
LEMMA ServedConnect ==
    ASSUME ServedInv, NEW c \in Clients, Connect(c)
    PROVE  ServedInv'
<1>1. Served(c) /\ Domains
  BY DEF ServedInv
<1>2. /\ UNCHANGED process /\ output' = output /\ executed' = executed
      /\ client[c] = "idle"
  BY DEF Connect
<1>3. output[c] = <<>> /\ executed[c] = <<>> /\ handler[c] = "none" /\ server[c] \notin Daemons
  BY <1>1, <1>2 DEF Served
<1>4. CASE file = NoFile \/ (file \in Daemons /\ daemon[file] \notin Listening)
  <2>1. /\ client' = [client EXCEPT ![c] = "unreached"]
        /\ UNCHANGED <<server, sent, input, handler>>
    BY <1>4 DEF Connect
  <2>2. Served(c)'
    BY <1>1, <1>2, <1>3, <2>1 DEF Served, Domains, Phases
  <2>3. Domains' /\ \A e \in Clients \ {c} : ConnectionOf(e)' = ConnectionOf(e)
    BY <1>1, <1>2, <2>1 DEF Domains, ConnectionOf
  <2>4. QED
    BY <1>2, <2>2, <2>3, ServedOthers
<1>5. CASE ~(file = NoFile \/ (file \in Daemons /\ daemon[file] \notin Listening))
  <2>1. /\ client' = [client EXCEPT ![c] = "waiting"]
        /\ server' = [server EXCEPT ![c] = file]
        /\ handler' = [handler EXCEPT ![c] = "backlog"]
        /\ \E script \in Scripts :
            /\ sent' = [sent EXCEPT ![c] = script]
            /\ input' = [input EXCEPT ![c] = script]
    BY <1>5 DEF Connect
  <2>2. PICK script \in Scripts : /\ sent' = [sent EXCEPT ![c] = script]
                                  /\ input' = [input EXCEPT ![c] = script]
    BY <2>1
  <2>3. IsScript(script)
    <3>1. script \in Seq(Range(script)) /\ \A line \in Range(script) : IsLine(line)
      BY ScriptsAssumption
    <3>2. \A i \in 1..Len(script) : script[i] \in Range(script)
      BY <3>1, ElementOfSeq
    <3>3. QED
      BY <3>1, <3>2 DEF IsScript, IsSeq
  <2>4. Stands("backlog", script, script, <<>>, <<>>) /\ Unread(script, script)
    BY <2>3, NothingStands
  <2>5. Served(c)'
    BY <1>1, <1>2, <1>3, <2>1, <2>2, <2>3, <2>4 DEF Served, Domains, Phases
  <2>6. Domains' /\ \A e \in Clients \ {c} : ConnectionOf(e)' = ConnectionOf(e)
    BY <1>1, <1>2, <2>1, <2>2 DEF Domains, ConnectionOf, Phases
  <2>7. QED
    BY <1>2, <2>5, <2>6, ServedOthers
<1>6. QED
  BY <1>4, <1>5

(***************************************************************************)
(* The client's other steps, and those of the task that read nothing.      *)
(***************************************************************************)
LEMMA ServedPauses ==
    ASSUME ServedInv, NEW c \in Clients,
           Accept(c) \/ Told(c) \/ CutOff(c) \/ EndOfInput(c)
    PROVE  ServedInv'
<1>1. Served(c) /\ Domains
  BY DEF ServedInv
<1>2. UNCHANGED <<process, server, sent, input, output, executed>>
  BY DEF Accept, Told, CutOff, EndOfInput
<1>3. \A script, rest, out, done : \A phase \in {"none", "backlog", "reading"} :
         Stands(phase, script, rest, out, done) => Stands("reading", script, rest, out, done)
  BY DEF Stands
<1>4. CASE Accept(c)
  <2>1. /\ handler[c] = "backlog" /\ client' = client
        /\ handler' = [handler EXCEPT ![c] = "reading"]
    BY <1>4 DEF Accept
  <2>2. handler'[c] = "reading" /\ client[c] \notin {"idle", "unreached"}
    BY <1>1, <2>1 DEF Served, Domains
  <2>3. Stands("reading", sent[c], input[c], output[c], executed[c])
    BY <1>1, <1>3, <2>1 DEF Served, Phases
  <2>4. Served(c)'
    BY <1>1, <1>2, <2>1, <2>2, <2>3 DEF Served
  <2>5. Domains' /\ \A e \in Clients \ {c} : ConnectionOf(e)' = ConnectionOf(e)
    BY <1>1, <1>2, <2>1 DEF Domains, ConnectionOf, Phases
  <2>6. QED
    BY <1>2, <2>4, <2>5, ServedOthers
<1>5. CASE EndOfInput(c)
  <2>1. /\ handler[c] = "reading" /\ input[c] = <<>> /\ client' = client
        /\ handler' = [handler EXCEPT ![c] = "ended"]
    BY <1>5 DEF EndOfInput
  <2>2. handler'[c] = "ended" /\ client[c] \notin {"idle", "unreached"}
    BY <1>1, <2>1 DEF Served, Domains
  <2>3. Stands("reading", sent[c], input[c], output[c], executed[c])
    BY <1>1, <2>1 DEF Served, Phases
  <2>4. Served(c)'
    BY <1>1, <1>2, <2>1, <2>2, <2>3 DEF Served, Phases
  <2>5. Domains' /\ \A e \in Clients \ {c} : ConnectionOf(e)' = ConnectionOf(e)
    BY <1>1, <1>2, <2>1 DEF Domains, ConnectionOf, Phases
  <2>6. QED
    BY <1>2, <2>4, <2>5, ServedOthers
<1>6. CASE Told(c) \/ CutOff(c)
  <2>1. /\ client[c] = "waiting" /\ handler' = handler
        /\ \E to \in {"told", "cut"} : client' = [client EXCEPT ![c] = to]
    BY <1>6 DEF Told, CutOff
  <2>2. client'[c] \notin {"idle", "unreached"}
    BY <1>1, <2>1 DEF Domains
  <2>3. daemon' = daemon
    BY <1>2 DEF process
  <2>4. Served(c)'
    BY <1>1, <1>2, <2>1, <2>2, <2>3 DEF Served, Lost
  <2>5. Domains' /\ \A e \in Clients \ {c} : ConnectionOf(e)' = ConnectionOf(e)
    BY <1>1, <1>2, <2>1 DEF Domains, ConnectionOf
  <2>6. QED
    BY <1>2, <2>4, <2>5, ServedOthers
<1>7. QED
  BY <1>4, <1>5, <1>6

(***************************************************************************)
(* A line read.                                                            *)
(***************************************************************************)
LEMMA ServedReadLine ==
    ASSUME ServedInv, NEW c \in Clients, ReadLine(c)
    PROVE  ServedInv'
<1>1. Served(c) /\ Domains
  BY DEF ServedInv
<1> DEFINE line == Head(input[c])
<1>2. /\ handler[c] = "reading" /\ input[c] # <<>>
      /\ input' = [input EXCEPT ![c] = Tail(input[c])]
      /\ handler' = IF IsArgs(line) THEN [handler EXCEPT ![c] = "dispatching"] ELSE handler
      /\ output' = IF line = Malformed
                   THEN [output EXCEPT ![c] = Append(output[c], Response("Error", line))]
                   ELSE output
      /\ UNCHANGED <<process, client, server, sent, executed>>
  BY DEF ReadLine
<1>3. /\ IsScript(sent[c]) /\ Unread(sent[c], input[c]) /\ IsSeq(output[c])
      /\ Stands("reading", sent[c], input[c], output[c], executed[c])
      /\ client[c] \notin {"idle", "unreached"}
  BY <1>1, <1>2 DEF Served, Phases
<1>4. /\ Unread(sent[c], Tail(input[c]))
      /\ IsArgs(line) =>
            /\ line # Malformed
            /\ Stands("dispatching", sent[c], Tail(input[c]), output[c], executed[c])
      /\ ~IsArgs(line) => line \in {Blank, Malformed}
      /\ line = Blank =>
            /\ line # Malformed
            /\ Stands("reading", sent[c], Tail(input[c]), output[c], executed[c])
      /\ line = Malformed =>
            Stands("reading", sent[c], Tail(input[c]),
                   Append(output[c], Response("Error", line)), executed[c])
  BY <1>2, <1>3, LineRead
<1> HIDE DEF line
<1>5. Domains' /\ \A e \in Clients \ {c} : ConnectionOf(e)' = ConnectionOf(e)
  BY <1>1, <1>2 DEF Domains, ConnectionOf, Phases
<1>6. IsSeq(Append(output[c], Response("Error", line)))
  BY <1>3, Appended
<1>7. /\ input'[c] = Tail(input[c])
      /\ handler'[c] = IF IsArgs(line) THEN "dispatching" ELSE "reading"
      /\ output'[c] = IF line = Malformed
                      THEN Append(output[c], Response("Error", line)) ELSE output[c]
  BY <1>1, <1>2 DEF Domains
<1>8. /\ IsSeq(output'[c])
      /\ handler'[c] \in {"reading", "dispatching"}
      /\ Stands(handler'[c], sent[c], Tail(input[c]), output'[c], executed[c])
  BY <1>3, <1>4, <1>6, <1>7
<1>9. Served(c)'
  BY <1>2, <1>3, <1>4, <1>7, <1>8 DEF Served
<1>10. QED
  BY <1>2, <1>5, <1>9, ServedOthers

(***************************************************************************)
(* A line carried out, and its response.                                   *)
(***************************************************************************)
LEMMA ServedDispatch ==
    ASSUME ServedInv, NEW c \in Clients, Execute(c) \/ Reply(c)
    PROVE  ServedInv'
<1>1. Served(c) /\ Domains
  BY DEF ServedInv
<1>2. /\ UNCHANGED <<process, client, server, sent, input>>
      /\ handler[c] \in {"dispatching", "replying"}
  BY DEF Execute, Reply
<1>3. /\ IsScript(sent[c]) /\ Unread(sent[c], input[c]) /\ IsSeq(output[c])
      /\ Stands(handler[c], sent[c], input[c], output[c], executed[c])
      /\ client[c] \notin {"idle", "unreached"}
  BY <1>1, <1>2 DEF Served, Phases
<1>4. CASE Execute(c)
  <2>1. /\ handler[c] = "dispatching" /\ output' = output
        /\ executed' = [executed EXCEPT ![c] =
                          Append(executed[c], JobOf(BuildRequest(Current(c))))]
        /\ handler' = [handler EXCEPT ![c] = "replying"]
    BY <1>4 DEF Execute
  <2>2. Stands("replying", sent[c], input[c], output[c],
               Append(executed[c], JobOf(BuildRequest(Current(c)))))
    BY <1>3, <2>1, LineDone DEF Current
  <2>3. /\ handler'[c] = "replying"
        /\ executed'[c] = Append(executed[c], JobOf(BuildRequest(Current(c))))
    BY <1>1, <2>1 DEF Domains
  <2>4. Served(c)'
    BY <1>2, <1>3, <2>1, <2>2, <2>3 DEF Served
  <2>5. Domains' /\ \A e \in Clients \ {c} : ConnectionOf(e)' = ConnectionOf(e)
    BY <1>1, <1>2, <2>1 DEF Domains, ConnectionOf, Phases
  <2>6. QED
    BY <1>2, <2>4, <2>5, ServedOthers
<1>5. CASE Reply(c)
  <2>1. PICK kind : output' = [output EXCEPT ![c] =
                       Append(output[c], Response(kind, executed[c][Len(executed[c])]))]
    BY <1>5 DEF Reply
  <2>2. /\ handler[c] = "replying" /\ executed' = executed
        /\ handler' = [handler EXCEPT ![c] = "reading"]
    BY <1>5 DEF Reply
  <2> DEFINE more == Append(output[c], Response(kind, executed[c][Len(executed[c])]))
  <2>3. Stands("reading", sent[c], input[c], more, executed[c])
    BY <1>3, <2>2, LineDone
  <2>4. IsSeq(more)
    BY <1>3, Appended
  <2>5. output' = [output EXCEPT ![c] = more]
    BY <2>1
  <2> HIDE DEF more
  <2>6. handler'[c] = "reading" /\ output'[c] = more
    BY <1>1, <2>2, <2>5 DEF Domains
  <2>7. Served(c)'
    BY <1>2, <1>3, <2>2, <2>3, <2>4, <2>6 DEF Served
  <2>8. Domains' /\ \A e \in Clients \ {c} : ConnectionOf(e)' = ConnectionOf(e)
    BY <1>1, <1>2, <2>2, <2>5 DEF Domains, ConnectionOf, Phases
  <2>9. QED
    BY <1>2, <2>7, <2>8, ServedOthers
<1>6. QED
  BY <1>4, <1>5

(***************************************************************************)
(* Every step keeps every account.                                         *)
(***************************************************************************)
LEMMA ServedNext == ServedInv /\ [SocketNext]_socketVars => ServedInv'
<1> SUFFICES ASSUME ServedInv, [SocketNext]_socketVars PROVE ServedInv'
  OBVIOUS
<1>1. CASE UNCHANGED socketVars
  BY <1>1 DEF socketVars, process, connection, ServedInv, Domains, Served, Lost
<1>2. ASSUME NEW d \in Daemons,
             \/ Start(d) \/ RemoveStale(d) \/ Bind(d)
             \/ QuitAsked(d) \/ RemoveOwn(d) \/ Crash(d)
      PROVE  ServedInv'
  BY <1>2, ServedServe
<1>3. ASSUME NEW c \in Clients,
             \/ Connect(c) \/ Accept(c) \/ Told(c) \/ CutOff(c)
             \/ ReadLine(c) \/ Execute(c) \/ Reply(c) \/ EndOfInput(c)
      PROVE  ServedInv'
  BY <1>3, ServedConnect, ServedPauses, ServedReadLine, ServedDispatch
<1>4. QED
  BY <1>1, <1>2, <1>3 DEF SocketNext

(***************************************************************************)
(* An account that stands is a truthful one.                               *)
(***************************************************************************)
LEMMA StandsTruly ==
    ASSUME NEW script, IsScript(script), NEW rest, Unread(script, rest),
           NEW out, NEW done, NEW phase \in Phases, Stands(phase, script, rest, out, done)
    PROVE  LET due == Jobs(Without(script, Blank))
               answered == Without(About(out), Malformed)
           IN /\ IsPrefix(About(out), due)
              /\ IsPrefix(done, Without(due, Malformed))
              /\ Len(done) \in {Len(answered), Len(answered) + 1}
              /\ phase = "reading" /\ rest = <<>> => About(out) = due
<1> DEFINE n == Len(script) - Len(rest)
           due == Jobs(Without(script, Blank))
<1>1. Len(script) \in Nat /\ Len(rest) \in Nat /\ n \in 0..Len(script)
  BY SeqFacts DEF IsScript, Unread
<1>2. due = DueBy(script, Len(script))
        /\ Without(due, Malformed) = DoneBy(script, Len(script))
  BY DEF DueBy, DoneBy, Without
<1>3. phase = "reading" /\ rest = <<>> => About(out) = due
  <2> SUFFICES ASSUME phase = "reading", rest = <<>> PROVE About(out) = due
    OBVIOUS
  <2>1. n = Len(script)
    BY <1>1, EmptyIsSeq
  <2>2. QED
    BY <1>2, <2>1 DEF Stands, Account
<1> HIDE DEF n, due
<1>4. ASSUME NEW heard \in 0..Len(script), NEW made \in 0..Len(script),
             Account(script, heard, made, out, done)
      PROVE  /\ IsPrefix(About(out), due) /\ IsPrefix(done, Without(due, Malformed))
             /\ Without(About(out), Malformed) = DoneBy(script, heard)
  <2>1. Len(script) \in 0..Len(script)
    BY <1>1
  <2>2. /\ Begins(DueBy(script, heard), DueBy(script, Len(script)))
        /\ Begins(DoneBy(script, made), DoneBy(script, Len(script)))
    BY <1>1, <2>1, DueByGrows
  <2>3. QED
    BY <1>2, <1>4, <2>2, BeginsIsPrefix DEF Account, DoneBy
<1>5. CASE Account(script, n, n, out, done)
  BY <1>1, <1>3, <1>4, <1>5 DEF Account, due
<1>6. CASE n # 0 /\ Account(script, n - 1, n - 1, out, done)
  <2>1. n - 1 \in 0..Len(script)
    BY <1>1, <1>6
  <2>2. QED
    BY <1>3, <1>4, <1>6, <2>1 DEF Account, due
<1>7. CASE n # 0 /\ IsArgs(script[n]) /\ Account(script, n - 1, n, out, done)
  <2>1. n - 1 \in 0..Len(script) /\ n \in 1..Len(script)
    BY <1>1, <1>7
  <2>2. script[n] # Blank /\ JobOn(script[n]) # Malformed
    <3>1. ~IsArgs(Blank)
      BY DEF IsArgs, Blank
    <3>2. IsLine(script[n])
      BY <2>1 DEF IsScript
    <3>3. QED
      BY <1>7, <3>1, <3>2, SameJob DEF JobOn
  <2>3. DoneBy(script, n) = Append(DoneBy(script, n - 1), JobOn(script[n]))
    BY <1>1, <2>1, <2>2, DoneByRule
  <2>4. IsSeq(DoneBy(script, n - 1))
    BY <1>1, <2>1, DueByRule
  <2>5. Len(done) = Len(DoneBy(script, n - 1)) + 1
    BY <1>7, <2>3, <2>4, Appended DEF Account
  <2>6. QED
    BY <1>1, <1>3, <1>4, <1>7, <2>1, <2>5 DEF due
<1>8. QED
  BY <1>5, <1>6, <1>7 DEF Stands, n

(***************************************************************************)
(* An account that is kept is told truthfully.                             *)
(***************************************************************************)
LEMMA AnswersKept == ServedInv => AnsweredTruly
<1> SUFFICES ASSUME ServedInv, NEW c \in Clients
             PROVE  /\ client[c] = "unreached" => executed[c] = <<>> /\ output[c] = <<>>
                    /\ IsPrefix(Answers(c), Due(c))
                    /\ LET answered == Without(Answers(c), Malformed)
                       IN /\ IsPrefix(executed[c], Without(Due(c), Malformed))
                          /\ Len(executed[c]) \in {Len(answered), Len(answered) + 1}
                    /\ handler[c] = "ended" /\ daemon[server[c]] = "serving" =>
                          Len(output[c]) = Len(Due(c))
  BY DEF AnsweredTruly
<1>1. Served(c) /\ handler[c] \in Phases \cup {"ended"}
  BY DEF ServedInv, Domains
<1>2. Due(c) = Jobs(Without(sent[c], Blank)) /\ Answers(c) = About(output[c])
  BY DEF Due, Answers, Jobs, JobOn, About
<1>3. IsScript(sent[c]) /\ Unread(sent[c], input[c]) /\ IsSeq(output[c])
  BY <1>1 DEF Served
<1>4. \E phase \in Phases : Stands(phase, sent[c], input[c], output[c], executed[c])
  BY <1>1 DEF Served, Phases
<1>5. /\ IsPrefix(Answers(c), Due(c))
      /\ LET answered == Without(Answers(c), Malformed)
         IN /\ IsPrefix(executed[c], Without(Due(c), Malformed))
            /\ Len(executed[c]) \in {Len(answered), Len(answered) + 1}
  BY <1>2, <1>3, <1>4, StandsTruly
<1>6. ASSUME handler[c] = "ended", daemon[server[c]] = "serving"
      PROVE  Len(output[c]) = Len(Due(c))
  <2>1. input[c] = <<>> /\ Stands("reading", sent[c], input[c], output[c], executed[c])
    BY <1>1, <1>6 DEF Served, Lost
  <2>2. Answers(c) = Due(c)
    BY <1>2, <1>3, <2>1, StandsTruly DEF Phases
  <2>3. QED
    BY <1>2, <1>3, <2>2, AboutFacts
<1>7. client[c] = "unreached" => executed[c] = <<>> /\ output[c] = <<>>
  BY <1>1 DEF Served
<1>8. QED
  BY <1>5, <1>6, <1>7

(***************************************************************************)
(* What is left to read is the end of what was written.                    *)
(***************************************************************************)
LEMMA UnreadIsSuffix ==
    ASSUME NEW script, NEW rest, IsScript(script), Unread(script, rest)
    PROVE  IsSuffix(rest, script)
<1>1. IsSeq(script) /\ IsSeq(rest) /\ Len(script) \in Nat /\ Len(rest) \in Nat
  BY SeqFacts DEF IsScript, Unread
<1>2. /\ IsSeq(Reverse(script)) /\ Len(Reverse(script)) = Len(script)
      /\ \A i \in 1..Len(script) : Reverse(script)[i] = script[(Len(script) - i) + 1]
  BY <1>1, Turned
<1>3. /\ IsSeq(Reverse(rest)) /\ Len(Reverse(rest)) = Len(rest)
      /\ \A i \in 1..Len(rest) : Reverse(rest)[i] = rest[(Len(rest) - i) + 1]
  BY <1>1, Turned
<1>4. ASSUME NEW i \in 1..Len(rest)
      PROVE  Reverse(script)[i] = Reverse(rest)[i]
  <2>1. /\ (Len(rest) - i) + 1 \in 1..Len(rest) /\ i \in 1..Len(script)
        /\ (Len(script) - Len(rest)) + ((Len(rest) - i) + 1) = (Len(script) - i) + 1
    BY <1>1 DEF Unread
  <2>2. rest[(Len(rest) - i) + 1]
            = script[(Len(script) - Len(rest)) + ((Len(rest) - i) + 1)]
    BY <2>1 DEF Unread
  <2>3. QED
    BY <1>2, <1>3, <2>1, <2>2
<1>5. Begins(Reverse(rest), Reverse(script))
  BY <1>1, <1>2, <1>3, <1>4 DEF Begins, Unread
<1>6. QED
  BY <1>5, BeginsIsPrefix DEF IsSuffix

(***************************************************************************)
(* The types the accounts do not speak of: a client is connected to a      *)
(* daemon because the socket file led to one.                              *)
(***************************************************************************)
Connected ==
    /\ overlapped \subseteq Daemons
    /\ client \in [Clients -> {"idle", "waiting", "told", "unreached", "cut"}]
    /\ server \in [Clients -> Daemons \cup {NoFile}]

(***************************************************************************)
(* At the start no client has connected.                                   *)
(***************************************************************************)
LEMMA ConnectedInit == SocketInit => Connected
  BY DEF SocketInit, Connected

(***************************************************************************)
(* Every step of the sockets keeps them.                                   *)
(***************************************************************************)
LEMMA ConnectedNext == ServedInv /\ Connected /\ [SocketNext]_socketVars => Connected'
<1> SUFFICES ASSUME ServedInv, Connected, [SocketNext]_socketVars PROVE Connected'
  OBVIOUS
<1>1. ASSUME NEW d \in Daemons,
             \/ Start(d) \/ RemoveStale(d) \/ Bind(d) \/ QuitAsked(d) \/ RemoveOwn(d) \/ Crash(d)
      PROVE  Connected'
  <2>1. client' = client /\ server' = server
    BY <1>1 DEF Start, RemoveStale, Bind, QuitAsked, RemoveOwn, Crash, Ends, connection
  <2>2. overlapped' \subseteq Daemons
    BY <1>1 DEF Start, RemoveStale, Bind, QuitAsked, RemoveOwn, Crash, Ends, Running, Connected
  <2>3. QED
    BY <2>1, <2>2 DEF Connected
<1>2. ASSUME NEW c \in Clients, Connect(c)
      PROVE  Connected'
  <2>1. overlapped' = overlapped
    BY <1>2 DEF Connect, process
  <2>2. client' \in [Clients -> {"idle", "waiting", "told", "unreached", "cut"}]
    BY <1>2 DEF Connect, Connected
  <2>3. server' \in [Clients -> Daemons \cup {NoFile}]
    BY <1>2 DEF Connect, Connected, ServedInv
  <2>4. QED
    BY <2>1, <2>2, <2>3 DEF Connected
<1>3. ASSUME NEW c \in Clients,
             \/ Accept(c) \/ Told(c) \/ CutOff(c)
             \/ ReadLine(c) \/ Execute(c) \/ Reply(c) \/ EndOfInput(c)
      PROVE  Connected'
  <2>1. overlapped' = overlapped /\ server' = server
    BY <1>3 DEF Accept, Told, CutOff, ReadLine, Execute, Reply, EndOfInput, process
  <2>2. client' \in [Clients -> {"idle", "waiting", "told", "unreached", "cut"}]
    BY <1>3 DEF Accept, Told, CutOff, ReadLine, Execute, Reply, EndOfInput, Connected
  <2>3. QED
    BY <2>1, <2>2 DEF Connected
<1>4. CASE UNCHANGED socketVars
  BY <1>4 DEF socketVars, process, connection, Connected
<1>5. QED
  BY <1>1, <1>2, <1>3, <1>4 DEF SocketNext

-----------------------------------------------------------------------------
(* The three together *)

(***************************************************************************)
(* Each conversation keeps its own invariant, and the steps of the others  *)
(* change nothing it speaks of.                                            *)
(***************************************************************************)
SocketsInv ==
    /\ topic \in {"focus", "windows", "daemon"}
    /\ WatchInv /\ ListInv /\ ProcessInv /\ ServedInv /\ Connected

(***************************************************************************)
(* They start as each of them does.                                        *)
(***************************************************************************)
LEMMA SocketsInvInit == Init => SocketsInv
<1>1. Init => /\ topic \in {"focus", "windows", "daemon"}
              /\ WatchInit /\ ListInit /\ SocketInit
  BY DEF Init
<1>2. QED
  BY <1>1, WatchInvInit, ListInvInit, InvInit, ServedInit, ConnectedInit DEF SocketsInv

(***************************************************************************)
(* A step of one conversation is a step of it and a stutter of the others. *)
(***************************************************************************)
LEMMA SocketsInvStep == SocketsInv /\ [Next]_vars => SocketsInv'
<1> SUFFICES ASSUME SocketsInv, [Next]_vars PROVE SocketsInv'
  OBVIOUS
<1>1. /\ [WatchNext]_watchVars /\ [ListNext]_listVars /\ [SocketNext]_socketVars
      /\ topic' = topic
  BY DEF Next, vars
<1>2. QED
  BY <1>1, WatchInvStep, ListInvStep, InvNext, ServedNext, ConnectedNext DEF SocketsInv

(***************************************************************************)
(* So they hold throughout.                                                *)
(***************************************************************************)
LEMMA SocketsInvKept == Spec => []SocketsInv
  BY SocketsInvInit, SocketsInvStep, PTL DEF Spec

(***************************************************************************)
(* The three conversations keep their types for any windows, outputs,      *)
(* backends, daemons, clients and scripts, whatever was sent and is not    *)
(* read: an event, an answer, a line.                                      *)
(***************************************************************************)
THEOREM TypesHold == Spec => []TypeOK
<1>1. SocketsInv => WatchTypeOK
  BY WatchTyped DEF SocketsInv
<1>2. SocketsInv => ListTypeOK
  BY DEF SocketsInv, ListInv, ListTypeOK
<1>3. SocketsInv => SocketTypeOK
  <2> SUFFICES ASSUME SocketsInv PROVE SocketTypeOK
    OBVIOUS
  <2>1. \A c \in Clients : IsSuffix(input[c], sent[c])
    BY UnreadIsSuffix DEF SocketsInv, ServedInv, Served
  <2>2. handler \in [Clients -> {"none", "backlog", "reading", "dispatching", "replying",
                                 "ended"}]
    BY DEF SocketsInv, ServedInv, Domains, Phases
  <2>3. /\ daemon \in [Daemons -> Alive \cup {"off", "refused", "ended"}]
        /\ file \in Daemons \cup {NoFile}
    BY DEF SocketsInv, ServedInv
  <2>4. QED
    BY <2>1, <2>2, <2>3 DEF SocketsInv, Connected, SocketTypeOK
<1>4. SocketsInv => TypeOK
  BY <1>1, <1>2, <1>3 DEF TypeOK, SocketsInv
<1>5. QED
  BY SocketsInvKept, <1>4, PTL

(***************************************************************************)
(* For any outputs, workspaces and windows, on every backend, and whatever *)
(* the user switches, moves or unplugs between the queries of a call: what *)
(* the selector finds under the pointer was there at a moment of the call. *)
(* If no workspace changed outputs the whole list is true of one moment:   *)
(* nothing there is missed, and on Hyprland and Sway a hit lies before all *)
(* others of its workspace.  So with the active window's place             *)
(* (wm/mod.rs, window_at; wm/hyprland.rs, sway.rs, niri.rs,                *)
(* foreign_toplevel.rs).                                                   *)
(***************************************************************************)
THEOREM HitShown == Spec => []HitIsShown
<1>1. SocketsInv => HitIsShown
  BY ListInvShows DEF SocketsInv
<1>2. QED
  BY SocketsInvKept, <1>1, PTL

(***************************************************************************)
(* A daemon that lives alone is never refused its address and, as long as  *)
(* it serves, the socket file leads to it, whatever daemons came and died  *)
(* before it (daemon.rs:57, serve).                                        *)
(***************************************************************************)
THEOREM SoleServes == Spec => []SoleDaemonServes
<1>1. SocketsInv => SoleDaemonServes
  BY ServesAlone DEF SocketsInv
<1>2. QED
  BY SocketsInvKept, <1>1, PTL

(***************************************************************************)
(* Whatever daemons come and die and however clients and tasks interleave, *)
(* responses come in the order of a client's lines, each for what its line *)
(* asks: of a screenshot, the very capture that the same arguments make    *)
(* without a daemon; of `draw`, the overlay that `draw` opens without      *)
(* flags and without the pointer, or the toggle.  Each job answered was    *)
(* carried out, once (daemon.rs, handle_client and dispatch; cli/mod.rs,   *)
(* build_request and dispatch_via_daemon).  It is no theorem that `draw`   *)
(* through a daemon is `draw` without one: its flags are lost on the way.  *)
(***************************************************************************)
THEOREM AnsweredSafe == Spec => []AnsweredTruly
<1>1. SocketsInv => AnsweredTruly
  BY AnswersKept DEF SocketsInv
<1>2. QED
  BY SocketsInvKept, <1>1, PTL

=============================================================================
