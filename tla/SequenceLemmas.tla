--------------------------- MODULE SequenceLemmas ---------------------------
(***************************************************************************)
(* Lemmas the proofs about the planners and the limiter share: induction   *)
(* over numbers, the function behind a recursive definition, and what the  *)
(* filters of a list keep.                                                 *)
(*                                                                         *)
(* A recursive definition f[i \in 0..N] is a CHOOSE.  A lemma like         *)
(* AmongSteps turns it into a function f with f[0] and f[i] = step(f[i-1]);*)
(* what it computes is then shown with Induct, for a set of numbers.       *)
(***************************************************************************)
EXTENDS Filters, SequencesExt, TLAPS, SequenceTheorems, WellFoundedInduction

-----------------------------------------------------------------------------
(* Induction over numbers, and recursive functions over 0..N. *)

(* A set of numbers has a least one: the form of induction these proofs use. *)
LEMMA WellFoundedMin ==
  ASSUME NEW R, IsWellFoundedOn(R, Nat), NEW S, S \subseteq Nat, S # {}
  PROVE  \E x \in S : \A y \in S : ~ (<<y, x>> \in R)
BY WFMin

(* The same with the order spelt out.                                        *)
LEMMA MinOf ==
  ASSUME NEW R, IsWellFoundedOn(R, Nat), \A a, b \in Nat : a < b => <<a, b>> \in R,
         NEW S, S \subseteq Nat, S # {}
  PROVE  \E n \in S : \A m \in S : n <= m
<1>1. PICK n \in S : \A m \in S : ~(<<m, n>> \in R)
  BY WellFoundedMin, Zenon
<1>2. \A m \in S : m \in Nat /\ n \in Nat /\ ~(m < n)
  BY <1>1
<1>3. QED
  BY <1>2

(* A nonempty set of numbers has a least element.                            *)
LEMMA LeastNumber ==
  ASSUME NEW S, S \subseteq Nat, S # {}
  PROVE  \E n \in S : \A m \in S : n <= m
<1>1. \A a, b \in Nat : a < b => <<a, b>> \in OpToRel(<, Nat)
  BY Zenon DEF OpToRel
<1>2. QED
  BY <1>1, MinOf, NatLessThanWellFounded, Zenon

(* Induction up to N, about a set of numbers.                                *)
LEMMA Induct ==
  ASSUME NEW N \in Nat, NEW P, 0 \in P, \A i \in 1..N : (i - 1) \in P => i \in P
  PROVE  \A i \in 0..N : i \in P
<1> DEFINE others == {i \in 0..N : i \notin P}
<1>1. SUFFICES ASSUME others # {} PROVE FALSE
  OBVIOUS
<1>2. PICK n \in others : \A m \in others : n <= m
  <2>1. others \subseteq Nat
    OBVIOUS
  <2>2. QED
    BY <1>1, <2>1, LeastNumber, Zenon
<1>3. n \in 1..N
  BY <1>2
<1>4. (n - 1) \in 0..N /\ ~(n <= n - 1)
  BY <1>3
<1>5. (n - 1) \in P
  BY <1>2, <1>4
<1>6. QED
  BY <1>2, <1>3, <1>5

(* The functions on 0..N that begin with a base and go on by steps.          *)
Recursion(V, N, base, step) ==
    {f \in [0..N -> V] : f[0] = base /\ \A i \in 1..N : f[i] = step[i][f[i - 1]]}

(* What a recursive definition over 0..N needs: there is one.                *)
LEMMA RecursionExists ==
  ASSUME NEW V, NEW N \in Nat, NEW base \in V, NEW step \in [1..N -> [V -> V]]
  PROVE  \E f : f \in Recursion(V, N, base, step)
<1> DEFINE Good(n, f) == f[0] = base /\ \A i \in 1..n : f[i] = step[i][f[i - 1]]
           P == {n \in 0..N : \E f \in [0..n -> V] : Good(n, f)}
<1>1. 0 \in P
  <2>1. [i \in 0..0 |-> base] \in [0..0 -> V] /\ Good(0, [i \in 0..0 |-> base])
    OBVIOUS
  <2> HIDE DEF Good
  <2>2. QED
    BY <2>1
<1>2. ASSUME NEW n \in 1..N, (n - 1) \in P
      PROVE  n \in P
  <2>1. PICK f \in [0..(n - 1) -> V] : Good(n - 1, f)
    BY <1>2, Zenon
  <2> DEFINE g == [i \in 0..n |-> IF i = n THEN step[n][f[n - 1]] ELSE f[i]]
  <2>2. f[n - 1] \in V /\ step[n][f[n - 1]] \in V
    OBVIOUS
  <2>3. g \in [0..n -> V]
    BY <2>2
  <2>4. g[0] = base
    BY <2>1
  <2>5. ASSUME NEW i \in 1..n
        PROVE  g[i] = step[i][g[i - 1]]
    <3>1. g[i - 1] = f[i - 1]
      OBVIOUS
    <3>2. CASE i = n
      BY <3>1, <3>2
    <3>3. CASE i # n
      <4>1. i \in 1..(n - 1)
        BY <3>3
      <4>2. QED
        BY <2>1, <3>1, <3>3, <4>1
    <3>4. QED
      BY <3>2, <3>3
  <2>6. Good(n, g)
    BY <2>4, <2>5
  <2> HIDE DEF g, Good
  <2>7. QED
    BY <2>3, <2>6
<1> HIDE DEF P
<1>3. N \in P
  <2>1. \A n \in 1..N : (n - 1) \in P => n \in P
    BY <1>2
  <2>2. \A n \in 0..N : n \in P
    BY <1>1, <2>1, Induct, Zenon
  <2>3. QED
    BY <2>2
<1>4. QED
  BY <1>3 DEF P, Recursion

-----------------------------------------------------------------------------
(* The function behind Among.                                                *)
AmongRun(f, T, seq, S) ==
    /\ f[0] = <<>> /\ \A i \in 0..Len(seq) : f[i] \in Seq(T)
    /\ \A i \in 1..Len(seq) : f[i] = IF seq[i] \in S THEN Append(f[i - 1], seq[i]) ELSE f[i - 1]
    /\ Among(seq, S) = f[Len(seq)]

(* Such a function exists.                                                   *)
LEMMA AmongSteps ==
  ASSUME NEW T, NEW seq \in Seq(T), NEW S
  PROVE  \E f : AmongRun(f, T, seq, S)
<1> DEFINE N == Len(seq)
           V == Seq(T)
           step == [i \in 1..N |-> [v \in V |-> IF seq[i] \in S THEN Append(v, seq[i]) ELSE v]]
           Body(f) == [i \in 0..N |-> IF i = 0 THEN <<>> ELSE IF seq[i] \in S THEN Append(f[i - 1], seq[i]) ELSE f[i - 1]]
           run == CHOOSE f : f = Body(f)
<1>1. N \in Nat /\ <<>> \in V
  OBVIOUS
<1>2. \A i \in 1..N, v \in V : (IF seq[i] \in S THEN Append(v, seq[i]) ELSE v) \in V
  OBVIOUS
<1>3. Among(seq, S) = run[N]
  BY DEF Among
<1> HIDE DEF N, V, run
<1>4. step \in [1..N -> [V -> V]]
  BY <1>2
<1>5. \A i \in 1..N, v \in V : step[i][v] = IF seq[i] \in S THEN Append(v, seq[i]) ELSE v
  OBVIOUS
<1> HIDE DEF step
<1>6. PICK f : f \in Recursion(V, N, <<>>, step)
  BY <1>1, <1>4, RecursionExists, Zenon
<1>7. f \in [0..N -> V] /\ f[0] = <<>> /\ \A i \in 1..N : f[i - 1] \in V /\ f[i] = step[i][f[i - 1]]
  BY <1>1, <1>6 DEF Recursion
<1>8. f = Body(f)
  <2>1. \A i \in 1..N : f[i] = IF seq[i] \in S THEN Append(f[i - 1], seq[i]) ELSE f[i - 1]
    BY <1>5, <1>7, Zenon
  <2>2. f = [i \in 0..N |-> f[i]]
    BY <1>7
  <2>3. ASSUME NEW i \in 0..N
        PROVE  f[i] = Body(f)[i]
    <3>1. Body(f)[i] = IF i = 0 THEN <<>> ELSE IF seq[i] \in S THEN Append(f[i - 1], seq[i]) ELSE f[i - 1]
      OBVIOUS
    <3>2. i = 0 \/ i \in 1..N
      BY <1>1
    <3> HIDE DEF Body
    <3>3. CASE i = 0
      BY <1>7, <3>1, <3>3, Zenon
    <3>4. CASE i # 0
      BY <2>1, <3>1, <3>2, <3>4, Zenon
    <3>5. QED
      BY <3>3, <3>4
  <2>4. QED
    BY <2>2, <2>3
<1>9. run = Body(run)
  <2> HIDE DEF Body
  <2>1. QED
    BY <1>8 DEF run
<1>10. \A i \in 0..N : Body(run)[i] = IF i = 0 THEN <<>> ELSE IF seq[i] \in S THEN Append(run[i - 1], seq[i]) ELSE run[i - 1]
  OBVIOUS
<1> HIDE DEF Body
<1>11. \A i \in 0..N : run[i] = IF i = 0 THEN <<>> ELSE IF seq[i] \in S THEN Append(run[i - 1], seq[i]) ELSE run[i - 1]
  BY <1>9, <1>10, Zenon
<1>12. run[0] = <<>> /\ \A i \in 1..N : run[i] = IF seq[i] \in S THEN Append(run[i - 1], seq[i]) ELSE run[i - 1]
  <2>1. 0 \in 0..N /\ \A i \in 1..N : i \in 0..N /\ i # 0
    BY <1>1
  <2>2. QED
    BY <1>11, <2>1, Zenon
<1>13. \A i \in 0..N : run[i] \in V
  <2> DEFINE P == {i \in 0..N : run[i] \in V}
  <2>1. 0 \in P
    BY <1>1, <1>12
  <2>2. ASSUME NEW i \in 1..N, (i - 1) \in P
        PROVE  i \in P
    <3>1. run[i - 1] \in V
      BY <2>2
    <3>2. run[i] \in V
      BY <1>2, <1>12, <3>1, Zenon
    <3>3. QED
      BY <1>1, <3>2
  <2> HIDE DEF P
  <2>3. \A i \in 0..N : i \in P
    BY <1>1, <2>1, <2>2, Induct
  <2>4. QED
    BY <2>3 DEF P
<1>14. QED
  BY <1>3, <1>12, <1>13 DEF N, V, AmongRun

Distinct(s) == \A j, k \in DOMAIN s : s[j] = s[k] => j = k

(* What appending an element does to a sequence.                             *)
LEMMA AppendFacts ==
  ASSUME NEW T, NEW s \in Seq(T), NEW x \in T
  PROVE  /\ Append(s, x) \in Seq(T) /\ Len(Append(s, x)) = Len(s) + 1 /\ Len(s) \in Nat
         /\ \A i \in 1..Len(s) : Append(s, x)[i] = s[i]
         /\ Append(s, x)[Len(s) + 1] = x
         /\ ToSet(Append(s, x)) = ToSet(s) \cup {x}
         /\ Distinct(s) /\ x \notin ToSet(s) => Distinct(Append(s, x))
<1> DEFINE a == Append(s, x)
           n == Len(s)
<1>1. /\ a \in Seq(T) /\ Len(a) = n + 1 /\ n \in Nat
      /\ \A i \in 1..n : a[i] = s[i]
      /\ a[n + 1] = x
      /\ DOMAIN a = 1..(n + 1) /\ DOMAIN s = 1..n
  OBVIOUS
<1> HIDE DEF a, n
<1>2. ToSet(a) = ToSet(s) \cup {x}
  <2>1. \A i \in 1..(n + 1) : i \in 1..n \/ i = n + 1
    BY <1>1
  <2>2. \A i \in 1..n : i \in 1..(n + 1)
    BY <1>1
  <2>3. (n + 1) \in 1..(n + 1)
    BY <1>1
  <2>4. QED
    BY <1>1, <2>1, <2>2, <2>3 DEF ToSet
<1>3. ASSUME Distinct(s), x \notin ToSet(s), NEW j \in DOMAIN a, NEW k \in DOMAIN a, a[j] = a[k]
      PROVE  j = k
  <2>1. /\ j \in 1..n \/ j = n + 1
        /\ k \in 1..n \/ k = n + 1
    BY <1>1, <1>3
  <2>2. \A i \in 1..n : s[i] # x
    BY <1>1, <1>3 DEF ToSet
  <2>3. QED
    BY <1>1, <1>3, <2>1, <2>2 DEF Distinct
<1>4. QED
  BY <1>1, <1>2, <1>3 DEF a, n, Distinct

Prefix(s, n) == {s[i] : i \in 1..n}

(* A prefix and the element after it.                                        *)
LEMMA PrefixGrows ==
  ASSUME NEW s, NEW n \in Nat, n > 0
  PROVE  Prefix(s, n) = Prefix(s, n - 1) \cup {s[n]}
<1>1. \A i \in 1..n : i \in 1..(n - 1) \/ i = n
  OBVIOUS
<1>2. \A i \in 1..(n - 1) : i \in 1..n
  OBVIOUS
<1>3. n \in 1..n
  OBVIOUS
<1>4. QED
  BY <1>1, <1>2, <1>3 DEF Prefix

(* What Among keeps.                                                         *)
LEMMA AmongFacts ==
  ASSUME NEW T, NEW seq \in Seq(T), NEW S
  PROVE  /\ Among(seq, S) \in Seq(T) /\ Len(Among(seq, S)) <= Len(seq)
         /\ ToSet(Among(seq, S)) = ToSet(seq) \cap S
         /\ Distinct(seq) => Distinct(Among(seq, S))
         /\ Len(seq) > 0 /\ seq[1] \in S => Len(Among(seq, S)) > 0 /\ Among(seq, S)[1] = seq[1]
<1> DEFINE N == Len(seq)
<1>1. N \in Nat /\ \A i \in 1..N : seq[i] \in T
  OBVIOUS
<1>a. PICK f : AmongRun(f, T, seq, S)
  BY AmongSteps, Zenon
<1>2. /\ f[0] = <<>> /\ \A i \in 0..N : f[i] \in Seq(T)
      /\ \A i \in 1..N : f[i] = IF seq[i] \in S THEN Append(f[i - 1], seq[i]) ELSE f[i - 1]
      /\ Among(seq, S) = f[N]
  BY <1>a, Zenon DEF AmongRun
<1> DEFINE Kept(i) == /\ Len(f[i]) \in Nat /\ Len(f[i]) <= i
                      /\ ToSet(f[i]) = Prefix(seq, i) \cap S
                      /\ Distinct(seq) => Distinct(f[i])
                      /\ i > 0 /\ seq[1] \in S => Len(f[i]) > 0 /\ f[i][1] = seq[1]
           P == {i \in 0..N : Kept(i)}
<1> HIDE DEF N
<1>3. 0 \in P
  BY <1>1, <1>2 DEF ToSet, Prefix, Distinct
<1>4. ASSUME NEW i \in 1..N, (i - 1) \in P
      PROVE  i \in P
  <2> DEFINE s == f[i - 1]
             x == seq[i]
  <2>1. /\ s \in Seq(T) /\ x \in T /\ i \in Nat /\ i > 0 /\ i - 1 \in 0..N
        /\ f[i] = IF x \in S THEN Append(s, x) ELSE s
    BY <1>1, <1>2
  <2>2. Kept(i - 1)
    BY <1>4
  <2>3. Prefix(seq, i) = Prefix(seq, i - 1) \cup {x}
    BY <2>1, PrefixGrows
  <2>4. Distinct(seq) => x \notin Prefix(seq, i - 1)
    <3>1. DOMAIN seq = 1..N
      BY DEF N
    <3>2. \A j \in 1..(i - 1) : j \in 1..N /\ j # i
      BY <1>1
    <3>3. QED
      BY <3>1, <3>2 DEF Distinct, Prefix
  <2> HIDE DEF s, x
  <2>5. CASE x \in S
    <3>1. f[i] = Append(s, x)
      BY <2>1, <2>5
    <3>2. /\ Len(f[i]) = Len(s) + 1 /\ ToSet(f[i]) = ToSet(s) \cup {x}
          /\ Distinct(s) /\ x \notin ToSet(s) => Distinct(f[i])
          /\ \A j \in 1..Len(s) : f[i][j] = s[j]
          /\ f[i][Len(s) + 1] = x
      BY <2>1, <3>1, AppendFacts
    <3>3. /\ Len(s) \in Nat /\ Len(s) <= i - 1 /\ ToSet(s) = Prefix(seq, i - 1) \cap S
          /\ Distinct(seq) => Distinct(s)
          /\ i - 1 > 0 /\ seq[1] \in S => Len(s) > 0 /\ s[1] = seq[1]
      BY <2>2 DEF s
    <3>4. /\ Len(f[i]) \in Nat /\ Len(f[i]) <= i
      BY <2>1, <3>2, <3>3
    <3>5. ToSet(f[i]) = Prefix(seq, i) \cap S
      BY <2>3, <2>5, <3>2, <3>3
    <3>6. Distinct(seq) => Distinct(f[i])
      BY <2>4, <3>2, <3>3
    <3>7. seq[1] \in S => Len(f[i]) > 0 /\ f[i][1] = seq[1]
      <4>1. CASE i = 1
        <5>1. Len(s) = 0 /\ x = seq[1]
          BY <3>3, <4>1 DEF x
        <5>2. QED
          BY <3>2, <5>1
      <4>2. CASE i - 1 > 0
        BY <3>2, <3>3, <4>2
      <4>3. QED
        BY <2>1, <4>1, <4>2
    <3>8. Kept(i)
      BY <2>1, <3>4, <3>5, <3>6, <3>7
    <3> HIDE DEF Kept
    <3>9. QED
      BY <1>1, <3>8 DEF P
  <2>6. CASE x \notin S
    <3>1. f[i] = s
      BY <2>1, <2>6
    <3>3. /\ Len(s) \in Nat /\ Len(s) <= i - 1 /\ ToSet(s) = Prefix(seq, i - 1) \cap S
          /\ Distinct(seq) => Distinct(s)
          /\ i - 1 > 0 /\ seq[1] \in S => Len(s) > 0 /\ s[1] = seq[1]
      BY <2>2 DEF s
    <3>5. ToSet(f[i]) = Prefix(seq, i) \cap S
      BY <2>3, <2>6, <3>1, <3>3
    <3>7. seq[1] \in S => Len(f[i]) > 0 /\ f[i][1] = seq[1]
      <4>1. CASE i = 1
        BY <2>6, <4>1 DEF x
      <4>2. CASE i - 1 > 0
        BY <3>1, <3>3, <4>2
      <4>3. QED
        BY <2>1, <4>1, <4>2
    <3>6. Len(f[i]) \in Nat /\ Len(f[i]) <= i
      BY <2>1, <3>1, <3>3
    <3>8. Kept(i)
      BY <2>1, <3>1, <3>3, <3>5, <3>6, <3>7
    <3> HIDE DEF Kept
    <3>9. QED
      BY <1>1, <3>8 DEF P
  <2>7. QED
    BY <2>5, <2>6
<1> HIDE DEF P
<1>5. N \in P
  <2>1. \A i \in 0..N : i \in P
    BY <1>1, <1>3, <1>4, Induct
  <2>2. QED
    BY <1>1, <2>1
<1>6. Kept(N)
  BY <1>5 DEF P
<1>7. ToSet(seq) = Prefix(seq, N)
  BY DEF ToSet, Prefix, N
<1>8. Among(seq, S) \in Seq(T)
  BY <1>1, <1>2
<1>9. QED
  BY <1>1, <1>2, <1>6, <1>7, <1>8 DEF N

-----------------------------------------------------------------------------
(* What a cut sequence keeps.                                                *)
LEMMA UpToFacts ==
  ASSUME NEW T, NEW n \in Nat, NEW s \in Seq(T)
  PROVE  /\ UpTo(n, s) \in Seq(T) /\ Len(UpTo(n, s)) = IF Len(s) < n THEN Len(s) ELSE n
         /\ \A i \in 1..Len(UpTo(n, s)) : UpTo(n, s)[i] = s[i] /\ i \in 1..Len(s)
         /\ ToSet(UpTo(n, s)) \subseteq ToSet(s)
         /\ Distinct(s) => Distinct(UpTo(n, s))
<1> DEFINE m == IF Len(s) < n THEN Len(s) ELSE n
           u == SubSeq(s, 1, m)
<1>1. m \in Nat /\ m <= Len(s) /\ Len(s) \in Nat
  OBVIOUS
<1> HIDE DEF m
<1>2. u \in Seq(T) /\ Len(u) = m /\ \A i \in 1..m : u[i] = s[i]
  BY <1>1
<1>3. DOMAIN u = 1..m /\ DOMAIN s = 1..Len(s)
  BY <1>1, <1>2
<1> HIDE DEF u
<1>4. \A i \in 1..m : i \in 1..Len(s)
  BY <1>1
<1>5. ToSet(u) \subseteq ToSet(s)
  BY <1>2, <1>3, <1>4 DEF ToSet
<1>6. Distinct(s) => Distinct(u)
  BY <1>2, <1>3, <1>4 DEF Distinct
<1>7. UpTo(n, s) = u
  BY DEF UpTo, u, m
<1>8. QED
  BY <1>2, <1>4, <1>5, <1>6, <1>7 DEF m

(* What the concatenation of two sequences holds.                            *)
LEMMA ConcatFacts ==
  ASSUME NEW T, NEW s \in Seq(T), NEW t \in Seq(T)
  PROVE  /\ s \o t \in Seq(T) /\ Len(s \o t) = Len(s) + Len(t)
         /\ \A i \in 1..Len(s) : (s \o t)[i] = s[i]
         /\ \A i \in 1..Len(t) : (s \o t)[Len(s) + i] = t[i]
         /\ ToSet(s \o t) = ToSet(s) \cup ToSet(t)
<1> DEFINE c == s \o t
           m == Len(s)
           n == Len(t)
<1>1. m \in Nat /\ n \in Nat /\ DOMAIN s = 1..m /\ DOMAIN t = 1..n
  OBVIOUS
<1>2. c \in Seq(T) /\ Len(c) = m + n
  OBVIOUS
<1>3. \A i \in 1..m : c[i] = s[i]
  OBVIOUS
<1>4. \A i \in 1..n : c[m + i] = t[i]
  OBVIOUS
<1>5. DOMAIN c = 1..(m + n)
  BY <1>2
<1> HIDE DEF c, m, n
<1>6. ToSet(c) = ToSet(s) \cup ToSet(t)
  <2>1. ASSUME NEW i \in 1..(m + n)
        PROVE  c[i] \in ToSet(s) \cup ToSet(t)
    <3>1. CASE i \in 1..m
      BY <1>1, <1>3, <3>1 DEF ToSet
    <3>2. CASE i \notin 1..m
      <4>1. i - m \in 1..n /\ m + (i - m) = i
        BY <1>1, <3>2
      <4>2. c[i] = t[i - m]
        BY <1>4, <4>1
      <4>3. QED
        BY <1>1, <4>1, <4>2 DEF ToSet
    <3>3. QED
      BY <3>1, <3>2
  <2>2. \A i \in 1..m : i \in 1..(m + n)
    BY <1>1
  <2>3. \A i \in 1..n : m + i \in 1..(m + n)
    BY <1>1
  <2>4. ToSet(s) \subseteq ToSet(c)
    BY <1>1, <1>3, <1>5, <2>2 DEF ToSet
  <2>5. ToSet(t) \subseteq ToSet(c)
    BY <1>1, <1>4, <1>5, <2>3 DEF ToSet
  <2>6. ToSet(c) \subseteq ToSet(s) \cup ToSet(t)
    BY <1>5, <2>1 DEF ToSet
  <2>7. QED
    BY <2>4, <2>5, <2>6
<1>7. QED
  BY <1>2, <1>3, <1>4, <1>6 DEF c, m, n
=============================================================================
