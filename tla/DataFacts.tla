------------------------------- MODULE DataFacts -------------------------------
(***************************************************************************)
(* Facts about numbers and sequences that the proofs of several components *)
(* rest on: division, induction over the numbers, folds over a sequence    *)
(* and sequences put one after the other.                                  *)
(*                                                                         *)
(* The library's induction theorems take the statement as an operator.     *)
(* Here it is a set of numbers (Least, Induction), which the order's being *)
(* well founded gives; the recursion inside FoldLeft and FlattenSeq is a   *)
(* function CHOOSE picks, once one is known to exist.                      *)
(***************************************************************************)
EXTENDS Integers, SequencesExt, WellFoundedInduction, TLAPS

(***************************************************************************)
(* Division by a positive number, of any sign, rounds down.                *)
(***************************************************************************)
LEMMA Division ==
  ASSUME NEW d \in Nat \ {0}, NEW m \in Int
  PROVE  \E q \in Int, r \in 0 .. d - 1 : m \div d = q /\ m % d = r /\ m = d * q + r
<1>1. m \div d \in Int
  OBVIOUS
<1>2. d * (m \div d) <= m /\ m < d * (m \div d) + d
  OBVIOUS
<1>3. d * (m \div d) \in Int
  BY <1>1
<1>4. m % d = m - d * (m \div d)
  OBVIOUS
<1>5. m - d * (m \div d) \in 0 .. d - 1
  BY <1>1, <1>2, <1>3
<1>6. m = d * (m \div d) + (m - d * (m \div d))
  BY <1>3
<1> QED
  BY <1>1, <1>4, <1>5, <1>6, Zenon

\* The same for those who only ask for the quotient.
LEMMA Quotients ==
  ASSUME NEW d \in Nat \ {0}, NEW m \in Int
  PROVE  \E q \in Int, r \in 0 .. d - 1 : m \div d = q /\ m = d * q + r
<1>1. PICK q \in Int, r \in 0 .. d - 1 : m \div d = q /\ m % d = r /\ m = d * q + r
  BY Division, Zenon
<1> QED BY <1>1, Zenon

(***************************************************************************)
(* Quotient and remainder are the only ones there are.                     *)
(***************************************************************************)
LEMMA DivisionUnique ==
  ASSUME NEW d \in Nat \ {0}, NEW m \in Int,
         NEW q \in Int, NEW r \in 0 .. d - 1, m = d * q + r
  PROVE  m \div d = q /\ m % d = r
<1>1. PICK p \in Int, s \in 0 .. d - 1 : m \div d = p /\ m % d = s /\ m = d * p + s
  BY Division, Zenon
<1>2. PICK n \in Int : n = q - p
  OBVIOUS
<1>3. d * n \in Int /\ d * n = s - r
  <2>1. d * q \in Int /\ d * p \in Int /\ d * n = d * q - d * p
    BY <1>2
  <2> QED
    BY <1>1, <2>1
<1>4. n = 0
  <2>1. CASE n >= 1
    <3>1. d * n >= d
      BY <2>1
    <3> QED
      BY <1>3, <3>1
  <2>2. CASE n <= -1
    <3>1. d * n <= -d
      BY <2>2
    <3> QED
      BY <1>3, <3>1
  <2> QED
    BY <2>1, <2>2
<1> QED
  BY <1>1, <1>2, <1>3, <1>4

(***************************************************************************)
(* A quotient does not fall when the number grows, and grows by no more.   *)
(***************************************************************************)
LEMMA QuotientMonotone ==
  ASSUME NEW d \in Nat \ {0}, NEW m \in Int, NEW n \in Int, NEW k \in Nat,
         m <= n, n <= m + d * k
  PROVE  n \div d - m \div d \in 0 .. k
<1>1. PICK q \in Int, r \in 0 .. d - 1 : m \div d = q /\ m = d * q + r
  BY Quotients, Zenon
<1>2. PICK p \in Int, s \in 0 .. d - 1 : n \div d = p /\ n = d * p + s
  BY Quotients, Zenon
<1>3. PICK a \in Int : a = p - q
  OBVIOUS
<1>4. d * a \in Int /\ d * a = n - m + r - s /\ d * k \in Int
  <2>1. d * q \in Int /\ d * p \in Int /\ d * a = d * p - d * q /\ d * k \in Int
    BY <1>3
  <2> QED
    BY <1>1, <1>2, <2>1
<1>5. a >= 0
  <2> SUFFICES ASSUME a <= -1 PROVE FALSE
    BY <1>3
  <2>1. d * a <= -d
    OBVIOUS
  <2> QED
    BY <1>4, <2>1
<1>6. a <= k
  <2> SUFFICES ASSUME a >= k + 1 PROVE FALSE
    BY <1>3
  <2>1. d * a >= d * (k + 1) /\ d * (k + 1) = d * k + d
    OBVIOUS
  <2> QED
    BY <1>4, <2>1
<1> QED
  BY <1>1, <1>2, <1>3, <1>5, <1>6

------------------------------------------------------------------------------
(***************************************************************************)
(* Induction, for sets of numbers.                                         *)
(***************************************************************************)

\* A set of natural numbers that is not empty has a least one.
LEMMA Least ==
  ASSUME NEW T \in SUBSET Nat, T # {}
  PROVE  \E n \in T : \A m \in T : n <= m
<1> DEFINE R == {ss \in Nat \X Nat : ss[1] < ss[2]}
<1>1. IsWellFoundedOn(R, Nat)
  BY NatLessThanWellFounded DEF OpToRel
<1>2. PICK n \in T : \A m \in T : ~(<<m, n>> \in R)
  <2> HIDE DEF R
  <2> QED BY <1>1, WFMin
<1>3. \A m \in T : m < n => <<m, n>> \in R
  OBVIOUS
<1> HIDE DEF R
<1>4. \A m \in T : ~(m < n)
  BY <1>2, <1>3, Zenon
<1> QED BY <1>4, SMT

\* A set with 0 and the successor of each of its numbers has all of them.
LEMMA Induction ==
  ASSUME NEW P, 0 \in P, \A n \in Nat : n \in P => n + 1 \in P
  PROVE  \A n \in Nat : n \in P
<1>1. SUFFICES ASSUME Nat \ P # {} PROVE FALSE
  OBVIOUS
<1>2. PICK n \in Nat \ P : \A m \in Nat \ P : n <= m
  BY <1>1, Least, Zenon
<1> QED BY <1>2, SMT

------------------------------------------------------------------------------
(***************************************************************************)
(* Folds.  FoldLeft folds over the subsets of a sequence's domain, the     *)
(* greatest index last; there is a function that does.                     *)
(***************************************************************************)
LEMMA Greatest ==
  ASSUME NEW k \in Nat, NEW s \in SUBSET (1 .. k), k \in s
  PROVE  Max(s) = k
<1>1. \A x \in s : (\A y \in s : x >= y) => x = k
  OBVIOUS
<1>2. \A y \in s : k >= y
  OBVIOUS
<1> QED BY <1>1, <1>2, Zenon DEF Max

LEMMA MaxIn ==
  ASSUME NEW n \in Nat, NEW s \in SUBSET (1 .. n), s # {}
  PROVE  Max(s) \in s
<1> DEFINE above == {m \in Nat : \A y \in s : y <= m}
<1>1. n \in above /\ above \in SUBSET Nat
  OBVIOUS
<1>2. PICK m \in above : \A k \in above : m <= k
  <2> HIDE DEF above
  <2> QED BY Zenon, <1>1, Least
<1>3. m \in s
  <2> SUFFICES ASSUME m \notin s PROVE FALSE
    OBVIOUS
  <2>1. m - 1 \in above
    <3>1. \A y \in s : y <= m /\ y # m /\ y \in 1 .. n
      BY <1>2
    <3>2. PICK y \in s : TRUE
      OBVIOUS
    <3>3. \A z \in s : z <= m - 1
      BY <1>2, <3>1
    <3>4. m - 1 \in Nat
      BY <1>2, <3>1, <3>2
    <3> QED BY Zenon, <3>3, <3>4
  <2> QED BY <1>2, <2>1
<1>4. \A y \in s : m >= y
  BY <1>2
<1> QED BY Zenon, <1>3, <1>4 DEF Max

\* f is a fold of step from base over the sets of indices up to k.
IsFold(f, k, T, base, step) ==
  /\ f \in [SUBSET (1 .. k) -> T]
  /\ f[{}] = base
  /\ \A s \in SUBSET (1 .. k) :
       s # {} => f[s] = step[Max(s)][f[s \ {Max(s)}]]

LEMMA FoldExists ==
  ASSUME NEW n \in Nat, NEW T, NEW base \in T, NEW step \in [1 .. n -> [T -> T]]
  PROVE  \E f : IsFold(f, n, T, base, step)
<1> DEFINE P == {k \in Nat : k <= n => \E f : IsFold(f, k, T, base, step)}
<1>1. 0 \in P
  <2> DEFINE f == [s \in SUBSET (1 .. 0) |-> base]
  <2>1. SUBSET (1 .. 0) = {{}}
    OBVIOUS
  <2>2. IsFold(f, 0, T, base, step)
    BY <2>1 DEF IsFold
  <2> HIDE DEF f
  <2> QED BY <2>2
<1>2. ASSUME NEW k \in Nat, k \in P PROVE k + 1 \in P
  <2>1. SUFFICES ASSUME k + 1 <= n PROVE \E f : IsFold(f, k + 1, T, base, step)
    OBVIOUS
  <2>2. PICK f : IsFold(f, k, T, base, step)
    BY <1>2, <2>1
  <2> DEFINE g == [s \in SUBSET (1 .. k + 1) |->
                     IF k + 1 \in s THEN step[k + 1][f[s \ {k + 1}]] ELSE f[s]]
  <2>3. \A s \in SUBSET (1 .. k + 1) : s \ {k + 1} \in SUBSET (1 .. k)
    OBVIOUS
  <2>4. \A s \in SUBSET (1 .. k) : s \in SUBSET (1 .. k + 1) /\ k + 1 \notin s
    OBVIOUS
  <2>5. \A s \in SUBSET (1 .. k) : f[s] \in T /\ g[s] = f[s]
    BY <2>2, <2>4 DEF IsFold
  <2>6. k + 1 \in 1 .. n /\ step[k + 1] \in [T -> T]
    BY <2>1
  <2>7. g \in [SUBSET (1 .. k + 1) -> T]
    <3>1. \A s \in SUBSET (1 .. k + 1) : step[k + 1][f[s \ {k + 1}]] \in T
      BY <2>3, <2>5, <2>6
    <3>2. \A s \in SUBSET (1 .. k + 1) : k + 1 \notin s => s \in SUBSET (1 .. k)
      OBVIOUS
    <3> QED BY <2>5, <3>1, <3>2
  <2>8. g[{}] = base
    BY <2>2, <2>5 DEF IsFold
  <2>9. ASSUME NEW s \in SUBSET (1 .. k + 1), s # {}
        PROVE g[s] = step[Max(s)][g[s \ {Max(s)}]]
    <3>1. CASE k + 1 \in s
      <4>1. Max(s) = k + 1
        BY <3>1, Greatest
      <4>2. g[s \ {k + 1}] = f[s \ {k + 1}]
        BY <2>3, <2>5
      <4>3. g[s] = step[k + 1][f[s \ {k + 1}]]
        BY <3>1
      <4> HIDE DEF g
      <4> QED BY <4>1, <4>2, <4>3
    <3>2. CASE k + 1 \notin s
      <4>1. s \in SUBSET (1 .. k)
        BY <3>2
      <4>2. s \ {Max(s)} \in SUBSET (1 .. k)
        BY <4>1
      <4>3. f[s] = step[Max(s)][f[s \ {Max(s)}]]
        BY <2>2, <2>9, <4>1 DEF IsFold
      <4> HIDE DEF g
      <4> QED BY <2>5, <4>1, <4>2, <4>3
    <3> QED BY <3>1, <3>2
  <2> HIDE DEF g
  <2>10. IsFold(g, k + 1, T, base, step)
    BY <2>7, <2>8, <2>9 DEF IsFold
  <2> QED BY <2>10
<1>3. n \in P
  <2> HIDE DEF P
  <2> QED BY <1>1, <1>2, Induction
<1> QED BY <1>3

------------------------------------------------------------------------------
\* One sequence after another, and an empty one, and another.
LEMMA SeqJoin ==
  ASSUME NEW S, NEW a \in Seq(S), NEW b \in Seq(S)
  PROVE  a \o b \in Seq(S) /\ Len(a \o b) = Len(a) + Len(b)
OBVIOUS

LEMMA SeqAppend ==
  ASSUME NEW S, NEW s \in Seq(S), NEW e \in S
  PROVE  Append(s, e) = s \o <<e>> /\ <<e>> \in Seq(S)
OBVIOUS

LEMMA SeqJoinEmpty ==
  ASSUME NEW S, NEW a \in Seq(S)
  PROVE  a \o <<>> = a /\ <<>> \o a = a
OBVIOUS

LEMMA SeqOfNone ==
  ASSUME NEW S, NEW a \in Seq(S), Len(a) = 0
  PROVE  a = <<>>
OBVIOUS

LEMMA SeqJoinTwice ==
  ASSUME NEW S, NEW a \in Seq(S), NEW b \in Seq(S), NEW c \in Seq(S)
  PROVE  (a \o b) \o c = a \o (b \o c)
OBVIOUS

------------------------------------------------------------------------------
(***************************************************************************)
(* FlattenSeq: what the first sequences make, one sequence after the       *)
(* other.                                                                  *)
(***************************************************************************)
IsFlat(f, seqs, S) ==
  /\ f \in [0 .. Len(seqs) -> Seq(S)]
  /\ f[0] = <<>>
  /\ \A i \in 1 .. Len(seqs) : f[i] = f[i - 1] \o seqs[i]

\* There is only one way to do it, and FlattenSeq returns where it ends.
LEMMA FlatIsFlatten ==
  ASSUME NEW S, NEW seqs \in Seq(Seq(S)), NEW f, IsFlat(f, seqs, S)
  PROVE  FlattenSeq(seqs) = f[Len(seqs)]
<1>1. PICK n \in Nat : n = Len(seqs)
  OBVIOUS
<1>2. CASE n = 0
  <2>1. seqs = <<>>
    BY Zenon, <1>1, <1>2, SeqOfNone
  <2>2. f[Len(seqs)] = <<>>
    BY <1>1, <1>2 DEF IsFlat
  <2> QED BY <1>1, <1>2, <2>1, <2>2 DEF FlattenSeq
<1>3. CASE n # 0
  <2> DEFINE Body(g) == [i \in 1 .. n |-> IF i = 1 THEN seqs[i] ELSE g[i - 1] \o seqs[i]]
             F == CHOOSE g : g = Body(g)
  <2>1. FlattenSeq(seqs) = F[n]
    BY <1>1, <1>3 DEF FlattenSeq
  <2>0. /\ \A i \in 1 .. n : seqs[i] \in Seq(S)
        /\ \A i \in 0 .. n : f[i] \in Seq(S)
    BY SMTT(40), <1>1 DEF IsFlat
  <2>2. \A i \in 1 .. n : f[i] = f[i - 1] \o seqs[i]
    BY Zenon, <1>1 DEF IsFlat
  <2>3. f[1] = seqs[1]
    <3>1. f[1] = <<>> \o seqs[1]
      <4>1. f[1] = f[1 - 1] \o seqs[1]
        <5>1. 1 \in 1 .. n
          BY <1>3
        <5> QED BY <2>2, <5>1, Zenon
      <4>2. 1 - 1 = 0
        OBVIOUS
      <4>3. f[0] = <<>>
        BY Zenon DEF IsFlat
      <4> QED BY <4>1, <4>2, <4>3
    <3>2. seqs[1] \in Seq(S)
      BY <1>3, <2>0
    <3> QED BY <3>1, <3>2, SeqJoinEmpty
  <2>4. \E g : g = Body(g)
    <3> DEFINE g == [i \in 1 .. n |-> f[i]]
    <3>1. \A i \in 1 .. n : g[i] = IF i = 1 THEN seqs[i] ELSE g[i - 1] \o seqs[i]
      <4>1. \A i \in 1 .. n : i # 1 => i - 1 \in 1 .. n
        OBVIOUS
      <4> QED BY <2>2, <2>3, <4>1
    <3>2. g = Body(g)
      BY <3>1
    <3> QED BY <3>2
  <2>5. F = Body(F)
    <3> HIDE DEF Body
    <3> QED BY <2>4, Zenon
  <2>6. \A i \in 1 .. n : F[i] = IF i = 1 THEN seqs[i] ELSE F[i - 1] \o seqs[i]
    BY <2>5
  <2> HIDE DEF F, Body
  <2> DEFINE P == {i \in Nat : i + 1 \in 1 .. n => F[i + 1] = f[i + 1]}
  <2>7. 0 \in P
    BY <1>3, <2>3, <2>6
  <2>8. ASSUME NEW i \in Nat, i \in P PROVE i + 1 \in P
    <3>1. SUFFICES ASSUME i + 2 \in 1 .. n PROVE F[i + 2] = f[i + 2]
      OBVIOUS
    <3>2. F[i + 1] = f[i + 1]
      BY <2>8, <3>1
    <3>3. PICK j \in 1 .. n : j = i + 2 /\ j # 1 /\ j - 1 = i + 1
      BY <3>1
    <3>4. F[j] = F[j - 1] \o seqs[j] /\ f[j] = f[j - 1] \o seqs[j]
      BY Zenon, <2>2, <2>6, <3>3
    <3>5. F[j - 1] = f[j - 1]
      BY <3>2, <3>3
    <3>6. F[j] = f[j]
      BY Zenon, <3>4, <3>5
    <3> QED BY <3>3, <3>6
  <2>9. \A i \in Nat : i \in P
    <3> HIDE DEF P
    <3> QED BY <2>7, <2>8, Induction
  <2>10. F[n] = f[n]
    <3>1. n - 1 \in P
      BY <1>3, <2>9
    <3> QED BY <1>3, <3>1
  <2> QED BY <1>1, <2>1, <2>10
<1> QED BY <1>2, <1>3

\* The first n of them one after the other, for each n.
Flats(n, seqs, S) ==
  {f \in [0 .. n -> Seq(S)] :
     f[0] = <<>> /\ \A i \in 1 .. n : f[i] = f[i - 1] \o seqs[i]}

LEMMA FlatExists ==
  ASSUME NEW S, NEW seqs \in Seq(Seq(S))
  PROVE  \E f : IsFlat(f, seqs, S)
<1> DEFINE P == {n \in Nat : n <= Len(seqs) => Flats(n, seqs, S) # {}}
<1>1. 0 \in P
  <2> DEFINE f == [i \in 0 .. 0 |-> <<>>]
  <2>1. f \in Flats(0, seqs, S)
    BY DEF Flats
  <2> HIDE DEF f
  <2> QED BY <2>1
<1>2. ASSUME NEW n \in Nat, n \in P PROVE n + 1 \in P
  <2>1. SUFFICES ASSUME n + 1 <= Len(seqs) PROVE Flats(n + 1, seqs, S) # {}
    OBVIOUS
  <2>2. PICK f : f \in Flats(n, seqs, S)
    BY <1>2, <2>1
  <2>3. /\ f \in [0 .. n -> Seq(S)] /\ f[0] = <<>>
        /\ \A i \in 1 .. n : f[i] = f[i - 1] \o seqs[i]
    BY Zenon, <2>2 DEF Flats
  <2> DEFINE end == f[n] \o seqs[n + 1]
             g == [i \in 0 .. n + 1 |-> IF i <= n THEN f[i] ELSE end]
  <2>4. end \in Seq(S)
    <3>1. f[n] \in Seq(S) /\ seqs[n + 1] \in Seq(S)
      BY <2>1, <2>3
    <3> QED BY Zenon, <3>1, SeqJoin
  <2>5. end = f[n] \o seqs[n + 1]
    OBVIOUS
  <2> HIDE DEF end
  <2>6. g \in [0 .. n + 1 -> Seq(S)] /\ g[0] = <<>> /\ g[n + 1] = end
    BY <2>3, <2>4
  <2>7. \A i \in 0 .. n : g[i] = f[i]
    OBVIOUS
  <2> HIDE DEF g
  <2>8. ASSUME NEW i \in 1 .. n + 1 PROVE g[i] = g[i - 1] \o seqs[i]
    <3>1. CASE i = n + 1
      <4>1. n \in 0 .. n /\ i - 1 = n
        BY <3>1
      <4> QED BY <2>5, <2>6, <2>7, <3>1, <4>1
    <3>2. CASE i # n + 1
      <4>1. i \in 1 .. n /\ i \in 0 .. n /\ i - 1 \in 0 .. n
        BY <3>2
      <4>2. g[i] = f[i] /\ g[i - 1] = f[i - 1] /\ f[i] = f[i - 1] \o seqs[i]
        BY Zenon, <2>3, <2>7, <4>1
      <4> QED BY Zenon, <4>2
    <3> QED BY <3>1, <3>2
  <2> QED BY Zenon, <2>6, <2>8 DEF Flats
<1>3. Len(seqs) \in P
  <2> HIDE DEF P
  <2>1. Len(seqs) \in Nat
    OBVIOUS
  <2> QED BY <1>1, <1>2, <2>1, Induction
<1>4. Flats(Len(seqs), seqs, S) # {}
  BY <1>3
<1>5. PICK f : f \in Flats(Len(seqs), seqs, S)
  BY <1>4
<1> QED BY Zenon, <1>5 DEF IsFlat, Flats

LEMMA FlattenEmpty == FlattenSeq(<<>>) = <<>>
BY DEF FlattenSeq

\* A sequence of sequences, and another, one after the other.
LEMMA FlattenConcat ==
  ASSUME NEW S, NEW a \in Seq(Seq(S)), NEW b \in Seq(Seq(S))
  PROVE  /\ FlattenSeq(a) \in Seq(S)
         /\ FlattenSeq(a \o b) = FlattenSeq(a) \o FlattenSeq(b)
<1>1. PICK f : IsFlat(f, a, S)
  BY FlatExists
<1>2. PICK g : IsFlat(g, b, S)
  BY FlatExists
<1>3. PICK m \in Nat, n \in Nat : m = Len(a) /\ n = Len(b)
  OBVIOUS
<1>4. FlattenSeq(a) = f[m] /\ FlattenSeq(b) = g[n]
  BY <1>1, <1>2, <1>3, FlatIsFlatten
<1>5. /\ f \in [0 .. m -> Seq(S)] /\ f[0] = <<>>
      /\ \A i \in 1 .. m : f[i] = f[i - 1] \o a[i]
  BY Zenon, <1>1, <1>3 DEF IsFlat
<1>6. /\ g \in [0 .. n -> Seq(S)] /\ g[0] = <<>>
      /\ \A i \in 1 .. n : g[i] = g[i - 1] \o b[i]
  BY Zenon, <1>2, <1>3 DEF IsFlat
<1>7. f[m] \in Seq(S) /\ \A i \in 1 .. n : b[i] \in Seq(S)
  BY <1>3, <1>5
<1>8. /\ a \o b \in Seq(Seq(S)) /\ Len(a \o b) = m + n
      /\ \A i \in 1 .. m : (a \o b)[i] = a[i]
      /\ \A i \in 1 .. n : (a \o b)[m + i] = b[i]
  BY <1>3
<1> DEFINE G == [i \in 0 .. n |-> f[m] \o g[i]]
           h == [i \in 0 .. m + n |-> IF i <= m THEN f[i] ELSE G[i - m]]
<1>9. G \in [0 .. n -> Seq(S)] /\ \A i \in 0 .. n : G[i] = f[m] \o g[i]
  <2>1. \A i \in 0 .. n : f[m] \o g[i] \in Seq(S)
    <3>1. \A i \in 0 .. n : g[i] \in Seq(S)
      BY <1>6
    <3> QED BY Zenon, <1>7, <3>1, SeqJoin
  <2> QED BY <2>1
<1>10. G[0] = f[m]
  BY <1>6, <1>7, <1>9, SeqJoinEmpty
<1>11. ASSUME NEW i \in 1 .. n PROVE G[i] = G[i - 1] \o b[i]
  <2>1. i - 1 \in 0 .. n /\ i \in 0 .. n
    OBVIOUS
  <2>2. g[i - 1] \in Seq(S)
    BY <1>6, <2>1
  <2>3. (f[m] \o g[i - 1]) \o b[i] = f[m] \o (g[i - 1] \o b[i])
    <3>1. b[i] \in Seq(S) /\ f[m] \in Seq(S)
      BY Zenon, <1>7
    <3>2. PICK x \in Seq(S), y \in Seq(S), z \in Seq(S) :
            x = f[m] /\ y = g[i - 1] /\ z = b[i]
      BY Zenon, <2>2, <3>1
    <3>3. (x \o y) \o z = x \o (y \o z)
      BY SMTT(40), SeqJoinTwice
    <3> QED BY Zenon, <3>2, <3>3
  <2> HIDE DEF G
  <2> QED BY Zenon, <1>6, <1>9, <2>1, <2>3
<1> HIDE DEF G
<1>12. h \in [0 .. m + n -> Seq(S)] /\ h[0] = <<>>
  <2>1. \A i \in 0 .. m + n : i > m => G[i - m] \in Seq(S)
    <3>1. \A i \in 0 .. m + n : i > m => i - m \in 0 .. n
      OBVIOUS
    <3> QED BY Zenon, <1>9, <3>1
  <2>2. \A i \in 0 .. m + n : i <= m => f[i] \in Seq(S)
    <3>1. \A i \in 0 .. m + n : i <= m => i \in 0 .. m
      OBVIOUS
    <3> QED BY Zenon, <1>5, <3>1
  <2>3. \A i \in 0 .. m + n : h[i] \in Seq(S)
    <3>1. \A i \in 0 .. m + n : i <= m \/ i > m
      OBVIOUS
    <3>2. \A i \in 0 .. m + n : h[i] = IF i <= m THEN f[i] ELSE G[i - m]
      OBVIOUS
    <3> HIDE DEF h
    <3> QED BY Zenon, <2>1, <2>2, <3>1, <3>2
  <2>4. h = [i \in 0 .. m + n |-> h[i]]
    OBVIOUS
  <2>5. h[0] = f[0]
    OBVIOUS
  <2> HIDE DEF h
  <2>6. h \in [0 .. m + n -> Seq(S)]
    BY Zenon, <2>3, <2>4
  <2> QED BY <1>5, <2>5, <2>6
<1>13. (\A i \in 0 .. m : h[i] = f[i]) /\ \A i \in 0 .. n : h[m + i] = G[i]
  <2>1. \A i \in 0 .. m : h[i] = f[i]
    OBVIOUS
  <2>2. ASSUME NEW i \in 0 .. n PROVE h[m + i] = G[i]
    <3>1. CASE i = 0
      BY <1>10, <2>1, <3>1
    <3>2. CASE i # 0
      BY <3>2
    <3> QED BY <3>1, <3>2
  <2> HIDE DEF h
  <2> QED BY <2>1, <2>2
<1> HIDE DEF h
<1>14. ASSUME NEW i \in 1 .. m + n PROVE h[i] = h[i - 1] \o (a \o b)[i]
  <2>1. CASE i <= m
    <3>1. i \in 1 .. m /\ i \in 0 .. m /\ i - 1 \in 0 .. m
      BY <2>1
    <3> QED BY Zenon, <1>5, <1>8, <1>13, <3>1
  <2>2. CASE i > m
    <3>1. PICK j \in 1 .. n : i = m + j /\ i - 1 = m + (j - 1) /\ j - 1 \in 0 .. n /\ j \in 0 .. n
      <4>1. i - m \in 1 .. n
        BY <2>2
      <4> QED BY <4>1
    <3>2. h[m + j] = G[j] /\ h[m + (j - 1)] = G[j - 1] /\ (a \o b)[m + j] = b[j]
      BY Zenon, <1>8, <1>13, <3>1
    <3>3. G[j] = G[j - 1] \o b[j]
      BY Zenon, <1>11
    <3>4. h[i] = G[j] /\ h[i - 1] = G[j - 1] /\ (a \o b)[i] = b[j]
      BY Zenon, <3>1, <3>2
    <3> QED BY ONLY <3>3, <3>4
  <2>3. i <= m \/ i > m
    OBVIOUS
  <2> QED BY Zenon, <2>1, <2>2, <2>3
<1>15. IsFlat(h, a \o b, S)
  BY Zenon, <1>8, <1>12, <1>14 DEF IsFlat
<1>16. FlattenSeq(a \o b) = h[m + n]
  BY Zenon, <1>8, <1>15, FlatIsFlatten
<1>17. h[m + n] = f[m] \o g[n]
  <2>1. n \in 0 .. n
    OBVIOUS
  <2> QED BY Zenon, <1>9, <1>13, <2>1
<1> QED BY Zenon, <1>4, <1>7, <1>16, <1>17

LEMMA FlattenOne ==
  ASSUME NEW S, NEW s \in Seq(S)
  PROVE  FlattenSeq(<<s>>) = s
BY DEF FlattenSeq

\* Around one of its elements a sequence falls apart.
LEMMA SeqParts ==
  ASSUME NEW S, NEW s \in Seq(S), NEW j \in 1 .. Len(s)
  PROVE  /\ SubSeq(s, 1, j - 1) \in Seq(S) /\ SubSeq(s, j + 1, Len(s)) \in Seq(S)
         /\ SubSeq(s, 1, j) \in Seq(S) /\ SubSeq(s, j, Len(s)) \in Seq(S)
         /\ s[j] \in S /\ <<s[j]>> \in Seq(S)
         /\ Len(SubSeq(s, 1, j - 1)) = j - 1 /\ Len(SubSeq(s, 1, j)) = j
         /\ SubSeq(s, 1, j) = SubSeq(s, 1, j - 1) \o <<s[j]>>
         /\ SubSeq(s, j, Len(s)) = <<s[j]>> \o SubSeq(s, j + 1, Len(s))
OBVIOUS

\* Sequences with the same elements are the same.
LEMMA SeqSame ==
  ASSUME NEW S, NEW a \in Seq(S), NEW b \in Seq(S), Len(a) = Len(b),
         \A i \in 1 .. Len(a) : a[i] = b[i]
  PROVE  a = b
OBVIOUS

\* A sequence that is cut, before the cut and after it.
LEMMA SeqCut ==
  ASSUME NEW S, NEW s \in Seq(S), NEW j \in 0 .. Len(s)
  PROVE  /\ SubSeq(s, 1, j) \in Seq(S) /\ SubSeq(s, j + 1, Len(s)) \in Seq(S)
         /\ Len(SubSeq(s, 1, j)) = j
         /\ s = SubSeq(s, 1, j) \o SubSeq(s, j + 1, Len(s))
<1>1. PICK n \in Nat : n = Len(s)
  OBVIOUS
<1>2. CASE j = 0
  <2>1. SubSeq(s, 1, j) = <<>> /\ SubSeq(s, j + 1, Len(s)) = s
    BY <1>2
  <2> QED BY <1>2, <2>1
<1>3. CASE j = n
  <2>1. SubSeq(s, 1, j) = s /\ SubSeq(s, j + 1, Len(s)) = <<>>
    BY <1>1, <1>3
  <2> QED BY <1>1, <1>3, <2>1
<1>4. CASE j # 0 /\ j # n
  <2>1. PICK a, b : a = SubSeq(s, 1, j) /\ b = SubSeq(s, j + 1, Len(s))
    OBVIOUS
  <2>2. /\ a \in Seq(S) /\ Len(a) = j /\ \A i \in 1 .. j : a[i] = s[i]
        /\ b \in Seq(S) /\ Len(b) = n - j /\ \A i \in 1 .. n - j : b[i] = s[j + i]
    BY SMTT(40), <1>1, <1>4, <2>1
  <2>3. a \o b = s
    <3>1. PICK c : c = a \o b
      OBVIOUS
    <3>2. c \in Seq(S) /\ Len(c) = n
      <4>1. c \in Seq(S) /\ Len(c) = j + (n - j)
        BY Zenon, <2>2, <3>1, SeqJoin
      <4> QED BY <4>1
    <3>3. \A i \in 1 .. j : c[i] = a[i]
      BY <2>2, <3>1
    <3>4. \A i \in j + 1 .. n : c[i] = b[i - j] /\ i - j \in 1 .. n - j /\ j + (i - j) = i
      BY <1>1, <2>2, <3>1
    <3>5. \A i \in 1 .. n : i \in 1 .. j \/ i \in j + 1 .. n
      OBVIOUS
    <3>6. \A i \in 1 .. n : c[i] = s[i]
      BY ONLY <2>2, <3>3, <3>4, <3>5, ZenonT(60)
    <3>7. Len(c) = Len(s) /\ \A i \in 1 .. Len(c) : c[i] = s[i]
      BY Zenon, <1>1, <3>2, <3>6
    <3> QED BY Zenon, <3>1, <3>2, <3>7, SeqSame
  <2> QED BY <2>1, <2>2, <2>3
<1> QED BY <1>1, <1>2, <1>3, <1>4

\* What a cut leaves of two sequences.
LEMMA SeqCutJoin ==
  ASSUME NEW S, NEW a \in Seq(S), NEW b \in Seq(S), NEW r \in 0 .. Len(b)
  PROVE  SubSeq(a \o b, 1, Len(a) + r) = a \o SubSeq(b, 1, r)
<1>1. CASE r = 0
  <2>1. SubSeq(b, 1, r) = <<>>
    BY <1>1
  <2>2. SubSeq(a \o b, 1, Len(a) + r) = a
    BY <1>1
  <2> QED BY <2>1, <2>2
<1>2. CASE r # 0
  BY <1>2
<1> QED BY <1>1, <1>2

\* A cut within the first of two sequences.
LEMMA SeqCutFirst ==
  ASSUME NEW S, NEW a \in Seq(S), NEW b \in Seq(S), NEW n \in 0 .. Len(a)
  PROVE  SubSeq(a \o b, 1, n) = SubSeq(a, 1, n)
OBVIOUS

\* Where a cut of sequences one after the other falls: after the first k of
\* them and r elements of the next.
LEMMA FlattenCut ==
  ASSUME NEW S, NEW seqs \in Seq(Seq(S)), NEW n \in 0 .. Len(FlattenSeq(seqs)) - 1
  PROVE  \E k \in 0 .. Len(seqs) - 1 : \E r \in 0 .. Len(seqs[k + 1]) - 1 :
           SubSeq(FlattenSeq(seqs), 1, n) =
             FlattenSeq(SubSeq(seqs, 1, k)) \o SubSeq(seqs[k + 1], 1, r)
<1>1. PICK m \in Nat : m = Len(seqs)
  OBVIOUS
<1> DEFINE Start(j) == FlattenSeq(SubSeq(seqs, 1, j))
           T == {j \in 0 .. m : Len(Start(j)) > n}
<1>2. \A j \in 0 .. m : SubSeq(seqs, 1, j) \in Seq(Seq(S)) /\ SubSeq(seqs, j + 1, m) \in Seq(Seq(S))
                       /\ seqs = SubSeq(seqs, 1, j) \o SubSeq(seqs, j + 1, m)
  BY Zenon, <1>1, SeqCut
<1>3. \A j \in 0 .. m : Start(j) \in Seq(S) /\ Len(Start(j)) \in Nat
  <2>1. \A j \in 0 .. m : Start(j) \in Seq(S)
    BY Zenon, <1>2, FlattenConcat
  <2> HIDE DEF Start
  <2> QED BY <2>1
<1>4. m \in T
  <2>1. SubSeq(seqs, 1, m) = seqs
    BY <1>1
  <2>2. Len(FlattenSeq(seqs)) > n
    <3>1. FlattenSeq(seqs) \in Seq(S)
      BY Zenon, FlattenConcat
    <3>2. PICK l \in Nat : l = Len(FlattenSeq(seqs))
      BY <3>1
    <3> QED BY <3>2
  <2>3. m \in 0 .. m
    OBVIOUS
  <2> QED BY Zenon, <2>1, <2>2, <2>3
<1> HIDE DEF Start
<1>5. PICK j \in T : \A i \in T : j <= i
  <2>1. T \in SUBSET Nat
    OBVIOUS
  <2>2. T # {}
    BY <1>4
  <2> HIDE DEF T
  <2> QED BY Zenon, <2>1, <2>2, Least
<1>6. 0 \notin T
  <2>1. Start(0) = <<>>
    <3>1. SubSeq(seqs, 1, 0) = <<>>
      OBVIOUS
    <3> QED BY Zenon, <3>1, FlattenEmpty DEF Start
  <2>2. ~(Len(<<>>) > n)
    OBVIOUS
  <2> QED BY Zenon, <2>1, <2>2
<1>7. PICK k \in 0 .. m - 1 : k + 1 = j
  <2>1. j \in 0 .. m /\ j # 0
    BY <1>5, <1>6
  <2>2. j - 1 \in 0 .. m - 1 /\ (j - 1) + 1 = j
    BY <2>1
  <2> QED BY <2>2
<1>8. j \in 0 .. m /\ j \in 1 .. m /\ k \in 0 .. m /\ j - 1 = k /\ k \notin T
  BY <1>5, <1>7
<1>9. Len(Start(j)) > n /\ ~(Len(Start(k)) > n)
  BY Zenon, <1>5, <1>8
<1>10. PICK A \in Seq(S), B \in Seq(S), C \in Seq(S) :
         A = Start(k) /\ B = seqs[j] /\ C = FlattenSeq(SubSeq(seqs, j + 1, m))
  <2>1. seqs[j] \in Seq(S)
    BY <1>1, <1>8
  <2>2. FlattenSeq(SubSeq(seqs, j + 1, m)) \in Seq(S)
    BY Zenon, <1>2, <1>8, FlattenConcat
  <2>3. Start(k) \in Seq(S)
    BY Zenon, <1>3, <1>8
  <2> QED BY Zenon, <2>1, <2>2, <2>3
<1>12. Start(j) = A \o B
  <2>1. SubSeq(seqs, 1, j) = SubSeq(seqs, 1, k) \o <<seqs[j]>> /\ <<seqs[j]>> \in Seq(Seq(S))
    <3>1. SubSeq(seqs, 1, j) = SubSeq(seqs, 1, j - 1) \o <<seqs[j]>> /\ <<seqs[j]>> \in Seq(Seq(S))
      <4>1. j \in 1 .. Len(seqs)
        BY Zenon, <1>1, <1>8
      <4> QED BY ZenonT(60), <4>1, SeqParts
    <3> QED BY Zenon, <1>8, <3>1
  <2>2. FlattenSeq(SubSeq(seqs, 1, k) \o <<seqs[j]>>) = Start(k) \o FlattenSeq(<<seqs[j]>>)
    BY Zenon, <1>2, <1>8, <2>1, FlattenConcat DEF Start
  <2>3. FlattenSeq(<<seqs[j]>>) = B
    BY Zenon, <1>10, FlattenOne
  <2> QED BY Zenon, <1>10, <2>1, <2>2, <2>3 DEF Start
<1>13. FlattenSeq(seqs) = (A \o B) \o C
  <2>1. FlattenSeq(SubSeq(seqs, 1, j) \o SubSeq(seqs, j + 1, m)) = Start(j) \o C
    BY Zenon, <1>2, <1>8, <1>10, FlattenConcat DEF Start
  <2>2. seqs = SubSeq(seqs, 1, j) \o SubSeq(seqs, j + 1, m)
    BY Zenon, <1>2, <1>8
  <2> QED BY Zenon, <1>12, <2>1, <2>2
<1>14. PICK a \in Nat, b \in Nat : a = Len(A) /\ b = Len(B) /\ a <= n /\ n < a + b
  <2>1. Len(A) \in Nat /\ Len(B) \in Nat
    BY <1>10
  <2>2. Len(A \o B) = Len(A) + Len(B)
    BY Zenon, <1>10, SeqJoin
  <2>3. Len(A \o B) > n /\ ~(Len(A) > n)
    BY Zenon, <1>9, <1>10, <1>12
  <2> QED BY <2>1, <2>2, <2>3
<1>15. PICK r \in 0 .. b - 1 : n = a + r
  <2>1. n - a \in 0 .. b - 1 /\ n = a + (n - a)
    BY <1>14
  <2> QED BY <2>1
<1>16. SubSeq((A \o B) \o C, 1, n) = SubSeq(A \o B, 1, n)
  <2>1. A \o B \in Seq(S) /\ Len(A \o B) = a + b
    BY Zenon, <1>10, <1>14, SeqJoin
  <2>2. n \in 0 .. Len(A \o B)
    <3>1. n \in 0 .. a + b
      BY <1>14
    <3> QED BY Zenon, <2>1, <3>1
  <2>3. PICK x \in Seq(S), y \in Seq(S) : x = A \o B /\ y = C
    BY Zenon, <1>10, <2>1
  <2>4. SubSeq(x \o y, 1, n) = SubSeq(x, 1, n)
    BY <2>2, <2>3, SeqCutFirst
  <2> QED BY Zenon, <2>3, <2>4
<1>17. SubSeq(A \o B, 1, n) = A \o SubSeq(B, 1, r)
  <2>1. r \in 0 .. b
    BY <1>15
  <2> QED BY Zenon, <1>10, <1>14, <1>15, <2>1, SeqCutJoin
<1>18. SubSeq(FlattenSeq(seqs), 1, n) = Start(k) \o SubSeq(seqs[k + 1], 1, r)
  BY Zenon, <1>7, <1>10, <1>13, <1>16, <1>17 DEF Start
<1>19. k \in 0 .. Len(seqs) - 1 /\ r \in 0 .. Len(seqs[k + 1]) - 1
  BY Zenon, <1>1, <1>7, <1>10, <1>14, <1>15
<1> QED BY Zenon, <1>18, <1>19 DEF Start

==============================================================================
