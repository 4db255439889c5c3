----------------------------- MODULE DataLemmas -----------------------------
(***************************************************************************)
(* Lemmas about naturals and sequences that the proofs of several modules  *)
(* cite.  A function defined by recursion is shown to satisfy its equation *)
(* by a least counterexample: a set of naturals has a least element, and   *)
(* the place where the recursion would first go wrong would be one.        *)
(***************************************************************************)
EXTENDS Integers, Sequences, SequencesExt, SequenceTheorems, WellFoundedInduction, TLAPS

\* A set of naturals has a least element.
LEMMA LeastNat ==
  ASSUME NEW S \in SUBSET Nat, S # {}
  PROVE  \E n \in S : \A m \in S : n <= m
<1> DEFINE R == OpToRel(<, Nat)
<1>1. IsWellFoundedOn(R, Nat)
  BY NatLessThanWellFounded
<1>2. \A m, n \in Nat : m < n => <<m, n>> \in R
  BY DEF R, OpToRel
<1> HIDE DEF R
<1>3. PICK n \in S : \A m \in S : <<m, n>> \notin R
  BY <1>1, WFMin
<1>4. \A m \in S : ~(m < n)
  BY <1>2, <1>3
<1>5. QED
  BY <1>4

LEMMA MinOfTwo ==
  ASSUME NEW a \in Int, NEW b \in Int
  PROVE  Min({a, b}) = IF a <= b THEN a ELSE b
<1> DEFINE m == IF a <= b THEN a ELSE b
<1>1. m \in {a, b} /\ \A y \in {a, b} : m <= y
  OBVIOUS
<1>2. \A x \in {a, b} : (\A y \in {a, b} : x <= y) => x = m
  OBVIOUS
<1> HIDE DEF m
<1>3. (CHOOSE x \in {a, b} : \A y \in {a, b} : x <= y) = m
  BY <1>1, <1>2
<1>4. QED
  BY <1>3 DEF Min, m

LEMMA MaxOfTwo ==
  ASSUME NEW a \in Int, NEW b \in Int
  PROVE  Max({a, b}) = IF a >= b THEN a ELSE b
<1> DEFINE m == IF a >= b THEN a ELSE b
<1>1. m \in {a, b} /\ \A y \in {a, b} : m >= y
  OBVIOUS
<1>2. \A x \in {a, b} : (\A y \in {a, b} : x >= y) => x = m
  OBVIOUS
<1> HIDE DEF m
<1>3. (CHOOSE x \in {a, b} : \A y \in {a, b} : x >= y) = m
  BY <1>1, <1>2
<1>4. QED
  BY <1>3 DEF Max, m

LEMMA MinOfNaturals ==
  ASSUME NEW S, S \subseteq Nat, S # {}
  PROVE  Min(S) \in S /\ \A x \in S : Min(S) <= x
<1>1. \E x \in S : \A y \in S : x <= y
  BY LeastNat
<1>2. QED
  BY <1>1 DEF Min

LEMMA RangeOf ==
  ASSUME NEW S, NEW list \in Seq(S)
  PROVE  /\ \A x : x \in Range(list) <=> \E i \in 1 .. Len(list) : x = list[i]
         /\ list = <<>> => Range(list) = {}
<1>1. DOMAIN list = 1 .. Len(list)
  BY LenProperties
<1>2. \A x : x \in Range(list) <=> \E i \in 1 .. Len(list) : x = list[i]
  BY <1>1 DEF Range
<1>3. list = <<>> => Len(list) = 0
  OBVIOUS
<1>4. QED
  BY <1>2, <1>3

\* f starts with v, and goes on from k - 1 to k as H says.
Follows(f, n, V, v, H) ==
    /\ f \in [0 .. n -> V] /\ f[0] = v
    /\ \A k \in 1 .. n : f[k] = H[<<k, f[k - 1]>>]

\* There is a function defined by recursion.
LEMMA Recursion ==
  ASSUME NEW V, NEW v \in V, NEW n \in Nat, NEW H \in [(1 .. n) \X V -> V]
  PROVE  \E f : Follows(f, n, V, v, H)
<1> DEFINE Defined(m) == \E f : Follows(f, m, V, v, H)
    Bad == {m \in 0 .. n : ~Defined(m)}
<1>1. Defined(0)
  <2> DEFINE f == [k \in 0 .. 0 |-> v]
  <2>1. f \in [0 .. 0 -> V] /\ f[0] = v /\ \A k \in 1 .. 0 : f[k] = H[<<k, f[k - 1]>>]
    OBVIOUS
  <2> HIDE DEF f
  <2>2. QED
    BY <2>1 DEF Follows
<1>2. ASSUME NEW m \in 1 .. n, Defined(m - 1) PROVE Defined(m)
  <2>1. PICK f \in [0 .. m - 1 -> V] :
             f[0] = v /\ \A k \in 1 .. m - 1 : f[k] = H[<<k, f[k - 1]>>]
    BY <1>2 DEF Follows
  <2> DEFINE g == [k \in 0 .. m |-> IF k < m THEN f[k] ELSE H[<<m, f[m - 1]>>]]
  <2>2. <<m, f[m - 1]>> \in (1 .. n) \X V
    BY <2>1
  <2>3. H[<<m, f[m - 1]>>] \in V
    BY <2>2
  <2>4. g \in [0 .. m -> V] /\ g[0] = v
    BY <2>1, <2>3
  <2>5. ASSUME NEW k \in 1 .. m PROVE g[k] = H[<<k, g[k - 1]>>]
    <3>1. g[k - 1] = f[k - 1]
      OBVIOUS
    <3>2. CASE k = m
      <4>1. g[k] = H[<<m, f[m - 1]>>] /\ g[k - 1] = f[m - 1]
        BY <3>1, <3>2
      <4> HIDE DEF g
      <4>2. QED
        BY <3>2, <4>1
    <3>3. CASE k # m
      <4>1. k \in 1 .. m - 1 /\ g[k] = f[k]
        BY <3>3
      <4>2. QED
        BY <2>1, <3>1, <4>1
    <3>4. QED
      BY <3>2, <3>3
  <2> HIDE DEF g
  <2>6. QED
    BY <2>4, <2>5 DEF Follows
<1> HIDE DEF Defined
<1>3. Bad = {}
  <2>1. SUFFICES ASSUME Bad # {} PROVE FALSE
    OBVIOUS
  <2>2. PICK m \in Bad : \A j \in Bad : m <= j
    <3>1. Bad \in SUBSET Nat
      OBVIOUS
    <3> HIDE DEF Bad
    <3>2. QED
      BY <2>1, <3>1, LeastNat
  <2>3. m # 0 /\ m - 1 \in 0 .. n /\ m - 1 \notin Bad /\ m \in 1 .. n
    BY <1>1, <2>2
  <2>4. QED
    BY <1>2, <2>2, <2>3
<1>4. Defined(n)
  BY <1>3
<1>5. QED
  BY <1>4 DEF Defined

\* A fact about numbers that holds of 0 and of the successors of those it
\* holds of, here as a set of naturals.
LEMMA UpTo ==
  ASSUME NEW n \in Nat, NEW S, 0 \in S, \A k \in 1 .. n : k - 1 \in S => k \in S
  PROVE  \A k \in 0 .. n : k \in S
<1> DEFINE Bad == {k \in 0 .. n : k \notin S}
<1>1. SUFFICES ASSUME Bad # {} PROVE FALSE
  OBVIOUS
<1>2. Bad \in SUBSET Nat
  OBVIOUS
<1>3. PICK m \in Bad : \A j \in Bad : m <= j
  <2> HIDE DEF Bad
  <2>1. QED
    BY <1>1, <1>2, LeastNat
<1>4. m # 0 /\ m - 1 \in 0 .. n /\ m - 1 \notin Bad /\ m \in 1 .. n
  BY <1>3
<1>5. QED
  BY <1>3, <1>4

-----------------------------------------------------------------------------
(* FlattenSeq of the community modules.                                    *)

\* f holds what the first sequences of seqs are together.
Joins(f, seqs, T) ==
    /\ f \in [0 .. Len(seqs) -> Seq(T)]
    /\ f[0] = <<>>
    /\ \A k \in 1 .. Len(seqs) : f[k] = f[k - 1] \o seqs[k]

LEMMA JoinsExist ==
  ASSUME NEW T, NEW seqs \in Seq(Seq(T))
  PROVE  \E f : Joins(f, seqs, T)
<1> DEFINE n == Len(seqs)
           H == [p \in (1 .. n) \X Seq(T) |-> p[2] \o seqs[p[1]]]
<1>1. n \in Nat /\ <<>> \in Seq(T) /\ \A k \in 1 .. n : seqs[k] \in Seq(T)
  BY LenProperties, EmptySeq
<1>2. H \in [(1 .. n) \X Seq(T) -> Seq(T)]
  <2> SUFFICES ASSUME NEW p \in (1 .. n) \X Seq(T) PROVE p[2] \o seqs[p[1]] \in Seq(T)
    OBVIOUS
  <2>1. p[2] \in Seq(T) /\ seqs[p[1]] \in Seq(T)
    BY <1>1
  <2>2. QED
    BY <2>1, ConcatProperties
<1>3. \A k \in 1 .. n, s \in Seq(T) : H[<<k, s>>] = s \o seqs[k]
  OBVIOUS
<1> HIDE DEF H, n
<1>4. PICK f : Follows(f, n, Seq(T), <<>>, H)
  BY <1>1, <1>2, Recursion
<1>5. \A k \in 1 .. n : f[k] = f[k - 1] \o seqs[k]
  <2> TAKE k \in 1 .. n
  <2>1. k - 1 \in 0 .. n
    BY <1>1
  <2>2. f[k - 1] \in Seq(T)
    BY <2>1, <1>4 DEF Follows
  <2>3. QED
    BY <1>3, <1>4, <2>2 DEF Follows
<1>6. QED
  BY <1>4, <1>5 DEF Joins, Follows, n

LEMMA FlattenIs ==
  ASSUME NEW T, NEW seqs \in Seq(Seq(T)), NEW f, Joins(f, seqs, T)
  PROVE  FlattenSeq(seqs) = f[Len(seqs)]
<1> DEFINE n == Len(seqs)
<1>1. n \in Nat /\ f \in [0 .. n -> Seq(T)] /\ f[0] = <<>>
      /\ \A k \in 1 .. n : f[k] = f[k - 1] \o seqs[k] /\ seqs[k] \in Seq(T)
  BY LenProperties DEF Joins
<1>2. CASE n = 0
  <2>1. seqs = <<>>
    BY <1>2, EmptySeq
  <2>2. QED
    BY <1>1, <1>2, <2>1 DEF FlattenSeq
<1>3. CASE n # 0
  <2> DEFINE Eq(g) == g = [i \in 1 .. n |-> IF i = 1 THEN seqs[i] ELSE g[i - 1] \o seqs[i]]
             F == CHOOSE g : Eq(g)
             h == [i \in 1 .. n |-> f[i]]
  <2>1. FlattenSeq(seqs) = F[n]
    BY <1>1, <1>3 DEF FlattenSeq
  <2>2. Eq(h)
    <3>1. ASSUME NEW i \in 1 .. n
          PROVE  f[i] = IF i = 1 THEN seqs[i] ELSE h[i - 1] \o seqs[i]
      <4>1. CASE i = 1
        <5>1. f[0] \o seqs[1] = seqs[1]
          BY <1>1, <1>3, ConcatEmptySeq
        <5>2. QED
          BY <1>1, <4>1, <5>1, 1 - 1 = 0
      <4>2. CASE i # 1
        <5>1. h[i - 1] = f[i - 1]
          BY <1>1, <4>2
        <5> HIDE DEF h
        <5>2. QED
          BY <1>1, <4>2, <5>1
      <4>3. QED
        BY <4>1, <4>2
    <3>2. QED
      BY <3>1
  <2>3. Eq(F)
    <3> HIDE DEF h
    <3> HIDE DEF Eq
    <3>1. QED
      BY <2>2
  <2>4. \A i \in 1 .. n : F[i] = IF i = 1 THEN seqs[i] ELSE F[i - 1] \o seqs[i]
    <3> HIDE DEF F
    <3>1. QED
      BY <2>3
  <2> HIDE DEF F, h, Eq
  <2> DEFINE S == {k \in 0 .. n : k = 0 \/ F[k] = f[k]}
  <2>5. 0 \in S
    BY <1>1
  <2>6. ASSUME NEW k \in 1 .. n, k - 1 \in S PROVE k \in S
    <3>1. CASE k = 1
      <4>1. f[0] \o seqs[1] = seqs[1]
        BY <1>1, <1>3, ConcatEmptySeq
      <4>2. F[1] = seqs[1] /\ f[1] = f[0] \o seqs[1]
        <5>1. 1 \in 1 .. n /\ 1 - 1 = 0
          BY <1>1, <1>3
        <5>2. F[1] = seqs[1]
          BY <2>4, <5>1
        <5>3. f[1] = f[1 - 1] \o seqs[1]
          BY <1>1, <5>1
        <5>4. QED
          BY <5>1, <5>2, <5>3
      <4>3. QED
        BY <3>1, <4>1, <4>2
    <3>2. CASE k # 1
      <4>1. F[k - 1] = f[k - 1]
        BY <1>1, <2>6, <3>2
      <4>2. F[k] = F[k - 1] \o seqs[k] /\ f[k] = f[k - 1] \o seqs[k]
        BY <1>1, <2>4, <3>2
      <4>3. F[k] = f[k]
        BY <4>1, <4>2
      <4>4. QED
        BY <4>3
    <3>3. QED
      BY <3>1, <3>2
  <2> HIDE DEF S
  <2>7. n \in S
    <3> HIDE DEF n
    <3>1. \A k \in 0 .. n : k \in S
      BY <1>1, <2>5, <2>6, UpTo
    <3>2. QED
      BY <1>1, <3>1
  <2>8. QED
    BY <1>3, <2>1, <2>7 DEF S
<1>4. QED
  BY <1>2, <1>3

\* FlattenSeq of a beginning is the beginning of FlattenSeq.
LEMMA FlattenPrefix ==
  ASSUME NEW T, NEW seqs \in Seq(Seq(T)), NEW f, Joins(f, seqs, T), NEW k \in 0 .. Len(seqs)
  PROVE  FlattenSeq(SubSeq(seqs, 1, k)) = f[k]
<1> DEFINE some == SubSeq(seqs, 1, k)
           g == [j \in 0 .. k |-> f[j]]
<1>1. Len(seqs) \in Nat /\ k \in Nat /\ \A j \in 1 .. Len(seqs) : seqs[j] \in Seq(T)
  BY LenProperties
<1>2. some \in Seq(Seq(T)) /\ Len(some) = k /\ \A j \in 1 .. k : some[j] = seqs[j]
  BY <1>1
<1> HIDE DEF some
<1>3. Joins(g, some, T)
  <2>1. f \in [0 .. Len(seqs) -> Seq(T)] /\ f[0] = <<>>
        /\ \A j \in 1 .. Len(seqs) : f[j] = f[j - 1] \o seqs[j]
    BY DEF Joins
  <2>2. g \in [0 .. k -> Seq(T)] /\ g[0] = <<>>
    BY <1>1, <2>1
  <2>3. ASSUME NEW j \in 1 .. k PROVE g[j] = g[j - 1] \o some[j]
    <3>1. g[j] = f[j] /\ g[j - 1] = f[j - 1] 
      BY <1>1
    <3>2. some[j] = seqs[j]
      BY <1>2
    <3>3. j \in 1 .. Len(seqs)
      BY <1>1
    <3>4. f[j] = f[j - 1] \o seqs[j]
      BY <2>1, <3>3
    <3> HIDE DEF g
    <3>5. QED
      BY <3>1, <3>2, <3>4
  <2> HIDE DEF g
  <2>4. QED
    BY <1>2, <2>2, <2>3 DEF Joins
<1>4. FlattenSeq(some) = g[Len(some)]
  <2> HIDE DEF g
  <2>1. QED
    BY <1>2, <1>3, FlattenIs
<1>5. QED
  BY <1>1, <1>2, <1>4 DEF some

LEMMA FlattenEmpty ==
  ASSUME NEW seqs, Len(seqs) = 0
  PROVE  FlattenSeq(seqs) = seqs
  BY DEF FlattenSeq

LEMMA FlattenAppend ==
  ASSUME NEW T, NEW seqs \in Seq(Seq(T)), NEW s \in Seq(T)
  PROVE  /\ FlattenSeq(seqs) \in Seq(T)
         /\ FlattenSeq(Append(seqs, s)) = FlattenSeq(seqs) \o s
<1> DEFINE n == Len(seqs)
           all == Append(seqs, s)
<1>1. /\ n \in Nat /\ all \in Seq(Seq(T)) /\ Len(all) = n + 1
      /\ all[n + 1] = s /\ \A j \in 1 .. n : all[j] = seqs[j]
  BY LenProperties, AppendProperties
<1> HIDE DEF all
<1>2. PICK f : Joins(f, all, T)
  BY <1>1, JoinsExist
<1>3. FlattenSeq(all) = f[n + 1]
  BY <1>1, <1>2, FlattenIs
<1> DEFINE g == [j \in 0 .. n |-> f[j]]
<1>4. Joins(g, seqs, T)
  <2>1. f \in [0 .. n + 1 -> Seq(T)] /\ f[0] = <<>>
        /\ \A j \in 1 .. n + 1 : f[j] = f[j - 1] \o all[j]
    BY <1>1, <1>2 DEF Joins
  <2>2. g \in [0 .. n -> Seq(T)] /\ g[0] = <<>>
    BY <1>1, <2>1
  <2>3. ASSUME NEW j \in 1 .. n PROVE g[j] = g[j - 1] \o seqs[j]
    <3>1. g[j] = f[j] /\ g[j - 1] = f[j - 1] 
      BY <1>1
    <3>2. all[j] = seqs[j]
      BY <1>1
    <3>3. j \in 1 .. n + 1
      BY <1>1
    <3>4. f[j] = f[j - 1] \o all[j]
      BY <2>1, <3>3
    <3> HIDE DEF g
    <3>5. QED
      BY <3>1, <3>2, <3>4
  <2> HIDE DEF g
  <2>4. QED
    BY <2>2, <2>3 DEF Joins
<1>5. FlattenSeq(seqs) = g[n]
  <2> HIDE DEF g
  <2>1. QED
    BY <1>4, FlattenIs
<1>6. f[n + 1] = f[n] \o s /\ f[n] \in Seq(T) /\ g[n] = f[n]
  <2>1. f \in [0 .. n + 1 -> Seq(T)]
        /\ \A j \in 1 .. n + 1 : f[j] = f[j - 1] \o all[j]
    BY <1>1, <1>2 DEF Joins
  <2>2. n + 1 \in 1 .. n + 1 /\ (n + 1) - 1 = n /\ n \in 0 .. n + 1 /\ n \in 0 .. n
    BY <1>1
  <2>3. f[n + 1] = f[n] \o s
    BY <1>1, <2>1, <2>2
  <2>4. QED
    BY <2>1, <2>2, <2>3
<1>7. QED
  BY <1>3, <1>5, <1>6 DEF all

\* Where the first k sequences end in FlattenSeq of all
Ends(seqs, k) == Len(FlattenSeq(SubSeq(seqs, 1, k)))

\* Each sequence is found in FlattenSeq of all behind those before it.
LEMMA FlattenAt ==
  ASSUME NEW T, NEW seqs \in Seq(Seq(T))
  PROVE  /\ FlattenSeq(seqs) \in Seq(T)
         /\ Ends(seqs, 0) = 0 /\ Ends(seqs, Len(seqs)) = Len(FlattenSeq(seqs))
         /\ \A k \in 0 .. Len(seqs) : Ends(seqs, k) \in 0 .. Len(FlattenSeq(seqs))
         /\ \A k \in 1 .. Len(seqs) :
               /\ Ends(seqs, k) = Ends(seqs, k - 1) + Len(seqs[k])
               /\ \A m \in 1 .. Len(seqs[k]) :
                     FlattenSeq(seqs)[Ends(seqs, k - 1) + m] = seqs[k][m]
<1> DEFINE n == Len(seqs)
<1>1. PICK f : Joins(f, seqs, T)
  BY JoinsExist
<1>2. /\ n \in Nat /\ f \in [0 .. n -> Seq(T)] /\ f[0] = <<>>
      /\ \A k \in 1 .. n : f[k] = f[k - 1] \o seqs[k] /\ seqs[k] \in Seq(T)
  BY <1>1, LenProperties DEF Joins
<1>3. FlattenSeq(seqs) = f[n] /\ f[n] \in Seq(T)
  BY <1>1, <1>2, FlattenIs
<1>4. \A k \in 0 .. n : Ends(seqs, k) = Len(f[k]) /\ Len(f[k]) \in Nat
  <2> TAKE k \in 0 .. n
  <2>1. FlattenSeq(SubSeq(seqs, 1, k)) = f[k]
    BY <1>1, FlattenPrefix
  <2>2. f[k] \in Seq(T)
    BY <1>2
  <2>3. QED
    BY <2>1, <2>2, LenProperties DEF Ends
<1>5. ASSUME NEW k \in 1 .. n
      PROVE  /\ k - 1 \in 0 .. n /\ f[k - 1] \in Seq(T) /\ seqs[k] \in Seq(T)
             /\ Len(f[k]) = Len(f[k - 1]) + Len(seqs[k])
             /\ \A i \in 1 .. Len(f[k - 1]) : f[k][i] = f[k - 1][i]
             /\ \A m \in 1 .. Len(seqs[k]) : f[k][Len(f[k - 1]) + m] = seqs[k][m]
  <2> DEFINE a == f[k - 1]
             b == seqs[k]
  <2>1. k - 1 \in 0 .. n
    BY <1>2
  <2>2. a \in Seq(T) /\ b \in Seq(T) /\ f[k] = a \o b
    BY <1>2, <2>1
  <2> HIDE DEF a, b
  <2>3. /\ Len(a \o b) = Len(a) + Len(b) /\ Len(a) \in Nat /\ Len(b) \in Nat
        /\ \A i \in 1 .. Len(a) + Len(b) :
              (a \o b)[i] = IF i <= Len(a) THEN a[i] ELSE b[i - Len(a)]
    BY <2>2, ConcatProperties, LenProperties
  <2>4. \A i \in 1 .. Len(a) : (a \o b)[i] = a[i]
    BY <2>3
  <2>5. ASSUME NEW m \in 1 .. Len(b) PROVE (a \o b)[Len(a) + m] = b[m]
    <3>1. Len(a) + m \in 1 .. Len(a) + Len(b) /\ ~(Len(a) + m <= Len(a))
          /\ Len(a) + m - Len(a) = m
      BY <2>3
    <3>2. QED
      BY <2>3, <3>1
  <2>6. QED
    BY <2>1, <2>2, <2>3, <2>4, <2>5 DEF a, b
<1>6. ASSUME NEW k \in 0 .. n
      PROVE  /\ Len(f[k]) <= Len(f[n])
             /\ \A i \in 1 .. Len(f[k]) : f[n][i] = f[k][i]
  <2> DEFINE Kept(j) == /\ Len(f[k]) <= Len(f[j])
                        /\ \A i \in 1 .. Len(f[k]) : f[j][i] = f[k][i]
             S == {j \in 0 .. n : j >= k => Kept(j)}
  <2>1. Kept(k)
    BY <1>4
  <2>2. ASSUME NEW j \in 1 .. n, j - 1 \in S PROVE j \in S
    <3>1. CASE j = k
      BY <2>1, <3>1
    <3>2. CASE j < k
      BY <3>2
    <3>3. CASE j > k
      <4>1. Kept(j - 1) /\ j - 1 \in 0 .. n
        BY <2>2, <3>3
      <4>2. /\ Len(f[j]) = Len(f[j - 1]) + Len(seqs[j]) /\ Len(seqs[j]) \in Nat
            /\ Len(f[k]) \in Nat /\ Len(f[j - 1]) \in Nat
            /\ \A i \in 1 .. Len(f[j - 1]) : f[j][i] = f[j - 1][i]
        BY <1>4, <1>5, <4>1, LenProperties
      <4>3. Len(f[k]) <= Len(f[j])
        <5> DEFINE a == Len(f[k])
                   b == Len(f[j - 1])
                   c == Len(seqs[j])
                   d == Len(f[j])
        <5>1. a \in Nat /\ b \in Nat /\ c \in Nat /\ d = b + c /\ a <= b
          BY <4>1, <4>2
        <5> HIDE DEF a, b, c, d
        <5>2. a <= d
          BY <5>1
        <5>3. QED
          BY <5>2 DEF a, d
      <4>4. ASSUME NEW i \in 1 .. Len(f[k]) PROVE f[j][i] = f[k][i]
        <5>1. i \in 1 .. Len(f[j - 1])
          BY <4>1, <4>2
        <5>2. QED
          BY <4>1, <4>2, <5>1
      <4>5. QED
        BY <4>3, <4>4
    <3>4. QED
      BY <1>2, <3>1, <3>2, <3>3
  <2>3. 0 \in S
    BY <1>2, <2>1
  <2>4. n \in S
    <3> HIDE DEF S
    <3> HIDE DEF n
    <3>1. \A j \in 0 .. n : j \in S
      BY <1>2, <2>2, <2>3, UpTo
    <3>2. QED
      BY <1>2, <3>1
  <2>5. QED
    BY <1>2, <2>4
<1>7. ASSUME NEW k \in 1 .. n, NEW m \in 1 .. Len(seqs[k])
      PROVE  f[n][Len(f[k - 1]) + m] = seqs[k][m]
  <2> DEFINE a == Len(f[k - 1])
             b == Len(f[k])
             c == Len(seqs[k])
  <2>1. a \in Nat /\ b = a + c /\ c \in Nat /\ m \in 1 .. c /\ f[k][a + m] = seqs[k][m]
    BY <1>4, <1>5, LenProperties
  <2>2. k \in 0 .. n
    BY <1>2
  <2>3. \A i \in 1 .. b : f[n][i] = f[k][i]
    BY <1>6, <2>2
  <2> HIDE DEF a, b, c
  <2>4. a + m \in 1 .. b
    BY <2>1
  <2>5. f[n][a + m] = seqs[k][m]
    BY <2>1, <2>3, <2>4
  <2>6. QED
    BY <2>5 DEF a
<1>8. Len(<<>>) = 0
  OBVIOUS
<1>9. /\ Ends(seqs, 0) = 0 /\ Ends(seqs, n) = Len(f[n])
      /\ \A k \in 0 .. n : Ends(seqs, k) \in 0 .. Len(f[n])
  BY <1>2, <1>4, <1>6, <1>8
<1>10. ASSUME NEW k \in 1 .. n
       PROVE  /\ Ends(seqs, k) = Ends(seqs, k - 1) + Len(seqs[k])
              /\ Ends(seqs, k - 1) = Len(f[k - 1])
  <2>1. k \in 0 .. n /\ k - 1 \in 0 .. n
    BY <1>2
  <2>2. Ends(seqs, k) = Len(f[k]) /\ Ends(seqs, k - 1) = Len(f[k - 1])
    BY <1>4, <2>1
  <2>3. Len(f[k]) = Len(f[k - 1]) + Len(seqs[k])
    BY <1>5
  <2>4. QED
    BY <2>2, <2>3
<1>11. QED
  BY <1>3, <1>7, <1>9, <1>10
=============================================================================
