-------------------------------- MODULE Lists -------------------------------
(***************************************************************************)
(* What the modules about the sockets need of collections: Vec::retain,    *)
(* HashMap::insert, and a finite set of numbers put in order.              *)
(***************************************************************************)
EXTENDS Integers, Sequences, FiniteSets

\* The entries of s other than x, of its first n entries for each n.
Kept(s, x) ==
    LET upto[n \in 0..Len(s)] ==
            IF n = 0 THEN <<>>
            ELSE IF s[n] = x THEN upto[n - 1] ELSE Append(upto[n - 1], s[n])
    IN upto

Without(s, x) == Kept(s, x)[Len(s)]

\* HashMap::insert.
Put(f, x, v) == [y \in DOMAIN f \cup {x} |-> IF y = x THEN v ELSE f[y]]

\* A finite set of numbers, the least first.
InOrder(T) ==
    CHOOSE f \in [1..Cardinality(T) -> T] : \A i, j \in DOMAIN f : i < j => f[i] < f[j]

=============================================================================
