--------------------------- MODULE ChunkingProofs ---------------------------
(***************************************************************************)
(* Theorems about Chunking, for any file: that its chunks are well formed, *)
(* keep the text and the boundaries, and are cited at their pages.         *)
(*                                                                         *)
(* Almost all of it is about the operators.  A fold over a sequence runs   *)
(* through a function of the indices, FoldSteps, whose value at an index   *)
(* is known from the one before; UpTo is induction over those indices for  *)
(* one given set of them, and rests on Least.                              *)
(***************************************************************************)
EXTENDS Chunking, FiniteSetTheorems, SequenceTheorems, WellFoundedInduction, TLAPS

-----------------------------------------------------------------------------
(* Folds. *)

\* A set of naturals has a least element.
LEMMA Least ==
  ASSUME NEW T \in SUBSET Nat, T # {}
  PROVE  \E x \in T : \A y \in T : x <= y
<1> DEFINE R == {ss \in Nat \X Nat : ss[1] < ss[2]}
<1>1. R = OpToRel(<, Nat)
  BY DEF OpToRel
<1>2. IsWellFoundedOn(R, Nat)
  BY <1>1, NatLessThanWellFounded
<1>3. PICK x \in T : \A y \in T : ~(<<y, x>> \in R)
  <2> HIDE DEF R
  <2> QED
    BY <1>2, WFMin
<1>4. \A y \in T : ~(y < x)
  BY <1>3
<1> QED
  BY <1>4

\* Induction up to n.
LEMMA UpTo ==
  ASSUME NEW n \in Nat, NEW P \in SUBSET (0 .. n), 0 \in P,
         \A k \in 1 .. n : k - 1 \in P => k \in P
  PROVE  P = 0 .. n
<1> DEFINE Bad == {k \in Nat : k \in 0 .. n /\ k \notin P}
<1>1. CASE Bad # {}
  <2>1. PICK k \in Bad : \A j \in Bad : k <= j
    <3> HIDE DEF Bad
    <3>1. Bad \in SUBSET Nat
      BY DEF Bad
    <3> QED
      BY <1>1, <3>1, Least
  <2>2. k \in 1 .. n /\ k - 1 \in 0 .. n /\ k - 1 \notin Bad
    BY <2>1
  <2> QED
    BY <2>1, <2>2
<1>2. CASE Bad = {}
  <2>1. \A k \in 0 .. n : k \in P
    BY <1>2
  <2> QED
    BY <2>1
<1> QED
  BY <1>1, <1>2

\* A set of numbers up to n has a greatest element.
LEMMA GreatestOf ==
  ASSUME NEW n \in Nat, NEW s \in SUBSET (1 .. n), s # {}
  PROVE  Max(s) \in s /\ \A x \in s : x <= Max(s)
<1> DEFINE Bounds == {b \in Nat : \A x \in s : x <= b}
<1>1. PICK b \in Bounds : \A c \in Bounds : b <= c
  BY Least, n \in Bounds
<1>2. b \in s
  <2> SUFFICES ASSUME b \notin s PROVE FALSE
    OBVIOUS
  <2>1. \A x \in s : x <= b - 1
    OBVIOUS
  <2>2. b - 1 \in Nat
    <3>1. PICK x \in s : TRUE
      OBVIOUS
    <3>2. x \in 1 .. n /\ x <= b - 1
      BY <2>1
    <3> QED
      BY <3>2
  <2>3. b - 1 \in Bounds
    BY <2>1, <2>2
  <2> QED
    BY <1>1, <2>3
<1>3. \E x \in s : \A y \in s : x >= y
  BY <1>2
<1> QED
  BY <1>3 DEF Max

LEMMA LastIndex ==
  ASSUME NEW n \in Nat \ {0}
  PROVE  Max(1 .. n) = n
<1>1. n \in 1 .. n
  OBVIOUS
<1>2. 1 .. n \in SUBSET (1 .. n) /\ 1 .. n # {}
  BY <1>1
<1>3. Max(1 .. n) \in 1 .. n /\ \A x \in 1 .. n : x <= Max(1 .. n)
  BY <1>2, GreatestOf
<1> QED
  BY <1>1, <1>3

LEMMA BelowTop ==
  ASSUME NEW m \in Nat, NEW s \in SUBSET Nat, NEW top \in s,
         \A x \in s : x <= top /\ x <= m + 1
  PROVE  \A x \in s \ {top} : x <= m
OBVIOUS

\* FoldLeft is defined with a function on the sets of the indices; there is one.
Folding(g, n, A, base, F) ==
  /\ g \in [SUBSET (1 .. n) -> A]
  /\ g[{}] = base
  /\ \A s \in SUBSET (1 .. n) : s # {} => g[s] = F[<<Max(s), g[s \ {Max(s)}]>>]

LEMMA FoldWitness ==
  ASSUME NEW n \in Nat, NEW A, NEW base \in A, NEW F \in [(1 .. n) \X A -> A]
  PROVE  \E g : Folding(g, n, A, base, F)
<1> DEFINE D == SUBSET (1 .. n)
           Step(g, s) == IF s = {} THEN base ELSE F[<<Max(s), g[s \ {Max(s)}]>>]
           \* The sets that end before m.
           Low(m) == {s \in D : \A x \in s : x <= m}
           Fits(m) == \E g \in [D -> A] : \A s \in Low(m) : g[s] = Step(g, s)
<1>1. \A s \in D : s # {} => Max(s) \in 1 .. n /\ s \ {Max(s)} \in D
  BY GreatestOf
<1>2. \A g \in [D -> A] : \A s \in D : Step(g, s) \in A
  <2> SUFFICES ASSUME NEW g \in [D -> A], NEW s \in D, s # {}
               PROVE  F[<<Max(s), g[s \ {Max(s)}]>>] \in A
    OBVIOUS
  <2> QED
    BY <1>1
<1>3. Fits(0)
  <2> DEFINE g == [s \in D |-> base]
  <2>1. g \in [D -> A]
    OBVIOUS
  <2>2. \A s \in Low(0) : s = {}
    OBVIOUS
  <2> QED
    BY <2>1, <2>2
<1>4. ASSUME NEW m \in Nat, Fits(m)
      PROVE  Fits(m + 1)
  <2>1. PICK g \in [D -> A] : \A s \in Low(m) : g[s] = Step(g, s)
    BY <1>4
  <2> DEFINE h == [s \in D |-> Step(g, s)]
  <2>2. h \in [D -> A]
    BY <1>2
  <2>3. \A s \in Low(m) : h[s] = g[s]
    BY <2>1
  <2>4. ASSUME NEW s \in Low(m + 1)
        PROVE  h[s] = Step(h, s)
    <3>1. CASE s = {}
      BY <3>1
    <3>2. CASE s # {}
      <4>1. Max(s) \in s /\ \A x \in s : x <= Max(s)
        BY <3>2, GreatestOf
      <4>2. s \ {Max(s)} \in Low(m)
        <5>1. s \in SUBSET (1 .. n) /\ \A x \in s : x \in 1 .. n /\ x <= m + 1
          OBVIOUS
        <5>2. \A x \in s \ {Max(s)} : x <= m
          <6> HIDE DEF D, Low, Fits, Step, h
          <6>1. s \in SUBSET Nat
            BY <5>1
          <6> QED
            BY <4>1, <5>1, <6>1, BelowTop
        <5>3. s \ {Max(s)} \in D
          BY <5>1
        <5> QED
          BY <5>2, <5>3
      <4>3. h[s \ {Max(s)}] = g[s \ {Max(s)}]
        BY <4>2, <2>3
      <4> QED
        BY <4>3
    <3> QED
      BY <3>1, <3>2
  <2> QED
    BY <2>2, <2>4
<1>5. Fits(n)
  <2> HIDE DEF Fits
  <2> DEFINE Bad == {m \in Nat : ~Fits(m)}
  <2>1. CASE Bad # {}
    <3>1. PICK m \in Bad : \A k \in Bad : m <= k
      BY <2>1, Least
    <3>2. m # 0
      BY <1>3
    <3>3. m - 1 \in Nat /\ m - 1 \notin Bad
      BY <3>1, <3>2
    <3>4. Fits(m - 1)
      BY <3>3
    <3>5. Fits((m - 1) + 1)
      BY <3>3, <3>4, <1>4
    <3> QED
      BY <3>5
  <2> QED
    BY <2>1
<1>6. Low(n) = D
  OBVIOUS
<1>7. PICK g \in [D -> A] : \A s \in D : g[s] = Step(g, s)
  BY <1>5, <1>6
<1> QED
  BY <1>7 DEF Folding

\* The sets that a fold from the left goes through.
LEMMA Prefix ==
  ASSUME NEW n \in Nat, NEW k \in 1 .. n
  PROVE  /\ 1 .. k \in SUBSET (1 .. n) /\ 1 .. k # {}
         /\ Max(1 .. k) = k
         /\ (1 .. k) \ {k} = 1 .. (k - 1)
<1>1. k \in 1 .. k
  OBVIOUS
<1> QED
  BY <1>1, LastIndex

\* What is folded up to k is one step from what is folded up to k - 1.
Steps(f, n, A, base, F, result) ==
  /\ f \in [0 .. n -> A]
  /\ f[0] = base
  /\ \A k \in 1 .. n : f[k] = F[<<k, f[k - 1]>>]
  /\ f[n] = result

FoldedBy(iter, n, A, base, F) ==
  /\ iter[{}] = base
  /\ \A s \in SUBSET (1 .. n) : s # {} /\ iter[s \ {Max(s)}] \in A
        => iter[s] = F[<<Max(s), iter[s \ {Max(s)}]>>]

LEMMA FoldSteps ==
  ASSUME NEW n \in Nat, NEW A, NEW base \in A, NEW F \in [(1 .. n) \X A -> A],
         NEW iter, FoldedBy(iter, n, A, base, F)
  PROVE  \E f : Steps(f, n, A, base, F, iter[1 .. n])
<1> DEFINE f == [k \in 0 .. n |-> iter[1 .. k]]
           Typed == {k \in 0 .. n : iter[1 .. k] \in A}
<1>1. iter[1 .. 0] = base /\ 0 \in 0 .. n
  <2>1. 1 .. 0 = {}
    OBVIOUS
  <2> QED
    BY <2>1 DEF FoldedBy
<1>2. ASSUME NEW k \in 1 .. n, iter[1 .. (k - 1)] \in A
      PROVE  /\ iter[1 .. k] = F[<<k, iter[1 .. (k - 1)]>>]
             /\ iter[1 .. k] \in A
  <2>1. /\ 1 .. k \in SUBSET (1 .. n) /\ 1 .. k # {}
        /\ Max(1 .. k) = k
        /\ (1 .. k) \ {k} = 1 .. (k - 1)
    BY Prefix
  <2>2. iter[1 .. k] = F[<<k, iter[1 .. (k - 1)]>>]
    BY <1>2, <2>1 DEF FoldedBy
  <2> QED
    BY <1>2, <2>2
<1>3. 0 \in Typed
  BY <1>1
<1>4. ASSUME NEW k \in 1 .. n, k - 1 \in Typed PROVE k \in Typed
  <2>1. iter[1 .. (k - 1)] \in A
    BY <1>4
  <2>2. iter[1 .. k] \in A
    BY <1>2, <2>1
  <2> QED
    BY <2>2
<1>5. Typed = 0 .. n
  <2>1. Typed \in SUBSET (0 .. n)
    OBVIOUS
  <2> HIDE DEF Typed
  <2> QED
    BY <1>3, <1>4, <2>1, UpTo
<1>6. \A k \in 0 .. n : iter[1 .. k] \in A
  BY <1>5
<1>7. Steps(f, n, A, base, F, iter[1 .. n])
  <2>1. f[0] = base /\ f \in [0 .. n -> A] /\ f[n] = iter[1 .. n]
    BY <1>1, <1>6
  <2>2. ASSUME NEW k \in 1 .. n PROVE f[k] = F[<<k, f[k - 1]>>]
    <3>1. k - 1 \in 0 .. n /\ k \in 0 .. n
      OBVIOUS
    <3>2. iter[1 .. k] = F[<<k, iter[1 .. (k - 1)]>>]
      BY <1>2, <1>6, <3>1
    <3> QED
      BY <3>1, <3>2
  <2> HIDE DEF f
  <2> QED
    BY <2>1, <2>2 DEF Steps
<1> QED
  BY <1>7

-----------------------------------------------------------------------------
(* Sums. *)

\* f is the sums of the first lengths.
Sums(lengths, f) ==
  /\ f \in [0 .. Len(lengths) -> Nat]
  /\ f[0] = 0
  /\ \A k \in 1 .. Len(lengths) : f[k] = f[k - 1] + lengths[k]

LEMMA TotalBySums ==
  ASSUME NEW lengths \in Seq(Nat)
  PROVE  \E f : Sums(lengths, f) /\ Total(lengths) = f[Len(lengths)]
<1> DEFINE n == Len(lengths)
           Eq(iter) == iter = [s \in SUBSET DOMAIN lengths |->
                                IF s = {} THEN 0 ELSE iter[s \ {Max(s)}] + lengths[Max(s)]]
           F == [p \in (1 .. n) \X Nat |-> p[2] + lengths[p[1]]]
           iter == CHOOSE iter : Eq(iter)
<1>1. n \in Nat /\ 0 \in Nat /\ DOMAIN lengths = 1 .. n /\ \A k \in 1 .. n : lengths[k] \in Nat
  OBVIOUS
<1>2. F \in [(1 .. n) \X Nat -> Nat]
  BY <1>1
<1>3. \A k \in 1 .. n, a \in Nat : F[<<k, a>>] = a + lengths[k]
  OBVIOUS
<1>4. Total(lengths) = iter[DOMAIN lengths]
  BY DEF Total, FoldLeft, MapThenFoldSet
<1>5. \A s \in SUBSET (1 .. n) : s # {} => Max(s) \in 1 .. n /\ s \ {Max(s)} \in SUBSET (1 .. n)
  BY <1>1, GreatestOf
<1> HIDE DEF F
<1>6. \E g : Eq(g)
  <2>1. PICK g : Folding(g, n, Nat, 0, F)
    <3> HIDE DEF n
    <3> QED
      BY ONLY <1>1, <1>2, FoldWitness
  <2>2. Eq(g)
    BY <2>1, <1>1, <1>3, <1>5 DEF Folding
  <2> QED
    BY <2>2
<1>7. Eq(iter)
  BY <1>6
<1> HIDE DEF iter
<1>8. PICK f : Steps(f, n, Nat, 0, F, iter[1 .. n])
  <2>1. FoldedBy(iter, n, Nat, 0, F)
    BY <1>1, <1>3, <1>5, <1>7 DEF FoldedBy
  <2> HIDE DEF Eq, n
  <2> QED
    BY ONLY <1>1, <1>2, <2>1, FoldSteps
<1>9. Sums(lengths, f)
  <2>1. f \in [0 .. n -> Nat] /\ f[0] = 0 /\ \A k \in 1 .. n : f[k] = F[<<k, f[k - 1]>>]
    BY <1>8 DEF Steps
  <2>2. ASSUME NEW k \in 1 .. n PROVE f[k] = f[k - 1] + lengths[k]
    <3>1. k - 1 \in 0 .. n
      BY <1>1
    <3> QED
      BY <1>3, <2>1, <3>1
  <2> QED
    BY <2>1, <2>2 DEF Sums
<1>10. f[n] = iter[1 .. n]
  BY <1>8 DEF Steps
<1> QED
  BY <1>1, <1>4, <1>9, <1>10

LEMMA TotalIs ==
  ASSUME NEW lengths \in Seq(Nat), NEW f, Sums(lengths, f)
  PROVE  Total(lengths) = f[Len(lengths)]
<1> DEFINE n == Len(lengths)
<1>1. PICK g : Sums(lengths, g) /\ Total(lengths) = g[n]
  BY TotalBySums
<1>2. n \in Nat
  OBVIOUS
<1> DEFINE Same == {k \in 0 .. n : f[k] = g[k]}
<1>3. 0 \in Same
  BY <1>1, <1>2 DEF Sums
<1>4. ASSUME NEW k \in 1 .. n, k - 1 \in Same PROVE k \in Same
  BY <1>1, <1>2, <1>4 DEF Sums
<1>5. Same = 0 .. n
  <2>1. Same \in SUBSET (0 .. n)
    OBVIOUS
  <2> HIDE DEF Same
  <2> QED
    BY <1>2, <1>3, <1>4, <2>1, UpTo
<1>6. n \in Same
  BY <1>2, <1>5
<1> QED
  BY <1>1, <1>6

LEMMA TotalInNat ==
  ASSUME NEW lengths \in Seq(Nat)
  PROVE  Total(lengths) \in Nat
<1>1. PICK f : Sums(lengths, f) /\ Total(lengths) = f[Len(lengths)]
  BY TotalBySums
<1> QED
  BY <1>1 DEF Sums

LEMMA TotalEmpty == Total(<<>>) = 0
<1> DEFINE f == [k \in 0 .. 0 |-> 0]
<1>1. Sums(<<>>, f)
  BY DEF Sums
<1>2. <<>> \in Seq(Nat) /\ Len(<<>>) = 0
  OBVIOUS
<1> HIDE DEF f
<1>3. Total(<<>>) = f[0]
  BY <1>1, <1>2, TotalIs
<1> QED
  BY <1>1, <1>3 DEF Sums

LEMMA TotalOfCat ==
  ASSUME NEW s \in Seq(Nat), NEW t \in Seq(Nat)
  PROVE  Total(s \o t) = Total(s) + Total(t)
<1>1. PICK f : Sums(s, f) /\ Total(s) = f[Len(s)]
  BY TotalBySums
<1>2. PICK g : Sums(t, g) /\ Total(t) = g[Len(t)]
  BY TotalBySums
<1>3. /\ Len(s) \in Nat /\ Len(t) \in Nat
      /\ s \o t \in Seq(Nat) /\ Len(s \o t) = Len(s) + Len(t)
      /\ \A k \in 1 .. Len(s) : (s \o t)[k] = s[k] /\ s[k] \in Nat
      /\ \A k \in 1 .. Len(t) : (s \o t)[Len(s) + k] = t[k] /\ t[k] \in Nat
  OBVIOUS
<1> DEFINE h == [k \in 0 .. Len(s) + Len(t) |->
                  IF k <= Len(s) THEN f[k] ELSE f[Len(s)] + g[k - Len(s)]]
<1>4. h[0] = 0 /\ h \in [0 .. Len(s) + Len(t) -> Nat]
  <2>1. /\ f[0] = 0 /\ \A k \in 0 .. Len(s) : f[k] \in Nat
        /\ \A k \in 0 .. Len(t) : g[k] \in Nat
    BY <1>1, <1>2 DEF Sums
  <2>2. 0 \in 0 .. Len(s) + Len(t) /\ 0 <= Len(s) /\ Len(s) \in 0 .. Len(s)
    BY ONLY <1>3
  <2>3. ASSUME NEW k \in 0 .. Len(s) + Len(t)
        PROVE  (IF k <= Len(s) THEN f[k] ELSE f[Len(s)] + g[k - Len(s)]) \in Nat
    <3>1. CASE k <= Len(s)
      <4>1. k \in 0 .. Len(s)
        BY ONLY <1>3, <2>3, <3>1
      <4> QED
        BY ONLY <2>1, <3>1, <4>1
    <3>2. CASE ~(k <= Len(s))
      <4>1. k - Len(s) \in 0 .. Len(t)
        BY ONLY <1>3, <2>3, <3>2
      <4>2. f[Len(s)] \in Nat /\ g[k - Len(s)] \in Nat
        BY ONLY <2>1, <2>2, <4>1
      <4>3. f[Len(s)] + g[k - Len(s)] \in Nat
        BY ONLY <4>2
      <4> QED
        BY ONLY <3>2, <4>3
    <3> QED
      BY <3>1, <3>2
  <2> QED
    BY ONLY <2>1, <2>2, <2>3
<1>5. ASSUME NEW k \in 1 .. Len(s) + Len(t)
      PROVE  h[k] = h[k - 1] + (s \o t)[k]
  <2>1. CASE k <= Len(s)
    BY <1>1, <1>3, <2>1 DEF Sums
  <2>2. CASE k > Len(s)
    <3>1. PICK j : j = k - Len(s)
      OBVIOUS
    <3>2. j \in 1 .. Len(t) /\ k = Len(s) + j
      BY <1>3, <2>2, <3>1
    <3>3. g[j] = g[j - 1] + t[j] /\ g[j - 1] \in Nat /\ f[Len(s)] \in Nat /\ t[j] \in Nat
      <4> HIDE DEF h
      <4>1. j - 1 \in 0 .. Len(t) /\ Len(s) \in 0 .. Len(s)
        BY <1>3, <3>2
      <4>2. g[j - 1] \in Nat /\ f[Len(s)] \in Nat
        BY ONLY <1>1, <1>2, <4>1 DEF Sums
      <4>3. g[j] = g[j - 1] + t[j]
        BY ONLY <1>2, <3>2 DEF Sums
      <4> QED
        BY <1>3, <3>2, <4>2, <4>3
    <3>4. h[k] = f[Len(s)] + g[j]
      BY <1>3, <2>2, <3>1
    <3>5. h[k - 1] = f[Len(s)] + g[j - 1]
      <4>1. CASE j = 1
        BY <1>2, <1>3, <3>2, <3>3, <4>1 DEF Sums
      <4>2. CASE j > 1
        BY <1>3, <3>2, <4>2
      <4> QED
        BY <3>2, <4>1, <4>2
    <3>6. (s \o t)[k] = t[j]
      BY <1>3, <3>2
    <3> HIDE DEF h
    <3> QED
      BY <3>3, <3>4, <3>5, <3>6
  <2> QED
    BY <1>3, <2>1, <2>2
<1>6. Sums(s \o t, h)
  <2> HIDE DEF h
  <2> QED
    BY <1>3, <1>4, <1>5 DEF Sums
<1>7. Total(s \o t) = h[Len(s) + Len(t)]
  <2> HIDE DEF h
  <2> QED
    BY <1>3, <1>6, TotalIs
<1>8. h[Len(s) + Len(t)] = f[Len(s)] + g[Len(t)]
  <2>1. CASE Len(t) = 0
    BY <1>1, <1>2, <1>3, <2>1 DEF Sums
  <2>2. CASE Len(t) > 0
    BY <1>1, <1>2, <1>3, <2>2 DEF Sums
  <2> QED
    BY <1>3, <2>1, <2>2
<1> QED
  BY <1>1, <1>2, <1>7, <1>8

LEMMA TotalOfOne ==
  ASSUME NEW n \in Nat
  PROVE  Total(<<n>>) = n
<1> DEFINE f == [k \in 0 .. 1 |-> IF k = 0 THEN 0 ELSE n]
<1>1. Sums(<<n>>, f)
  BY DEF Sums
<1>2. <<n>> \in Seq(Nat) /\ Len(<<n>>) = 1
  OBVIOUS
<1>3. f[1] = n
  OBVIOUS
<1> HIDE DEF f
<1> QED
  BY <1>1, <1>2, <1>3, TotalIs

-----------------------------------------------------------------------------
(* Pieces of text. *)

Piece == [of : Nat, from : Nat, size : Nat]

LEMMA Recut ==
  ASSUME NEW p \in Piece, NEW from \in Nat, NEW size \in Nat
  PROVE  [p EXCEPT !.from = from, !.size = size] = [of |-> p.of, from |-> from, size |-> size]
<1>1. PICK q : q = [p EXCEPT !.from = from]
  OBVIOUS
<1>2. q = [of |-> p.of, from |-> from, size |-> p.size]
  BY <1>1 DEF Piece
<1>3. q \in Piece
  BY <1>2 DEF Piece
<1>4. [q EXCEPT !.size = size] = [of |-> q.of, from |-> q.from, size |-> size]
  BY <1>3 DEF Piece
<1>5. q.of = p.of /\ q.from = from
  BY <1>2
<1>6. [p EXCEPT !.from = from, !.size = size] = [q EXCEPT !.size = size]
  BY <1>1
<1> QED
  BY <1>4, <1>5, <1>6

Body == Seq(Piece)

Sizes(body) == [i \in DOMAIN body |-> body[i].size]

LEMMA SizesOfBody ==
  ASSUME NEW body \in Seq(Piece)
  PROVE  /\ Sizes(body) \in Seq(Nat) /\ Length(body) = Total(Sizes(body))
         /\ Len(Sizes(body)) = Len(body)
         /\ \A i \in 1 .. Len(body) : Sizes(body)[i] = body[i].size
<1>1. DOMAIN body = 1 .. Len(body) /\ \A i \in 1 .. Len(body) : body[i].size \in Nat
  <2>1. DOMAIN body = 1 .. Len(body) /\ \A i \in 1 .. Len(body) : body[i] \in Piece
    OBVIOUS
  <2> QED
    BY <2>1 DEF Piece
<1>2. Sizes(body) \in [1 .. Len(body) -> Nat] /\ Len(body) \in Nat
  BY <1>1 DEF Sizes
<1> QED
  BY <1>2 DEF Length, Sizes

LEMMA LengthInNat ==
  ASSUME NEW body \in Seq(Piece)
  PROVE  Length(body) \in Nat
BY SizesOfBody, TotalInNat

LEMMA LengthEmpty == Length(<<>>) = 0
<1>1. Sizes(<<>>) = <<>> /\ <<>> \in Seq(Piece)
  BY DEF Sizes
<1> QED
  BY <1>1, SizesOfBody, TotalEmpty

LEMMA LengthOfOne ==
  ASSUME NEW p \in Piece
  PROVE  Length(<<p>>) = p.size
<1>1. Sizes(<<p>>) = <<p.size>> /\ <<p>> \in Seq(Piece) /\ p.size \in Nat
  BY DEF Sizes, Piece
<1> QED
  BY <1>1, SizesOfBody, TotalOfOne

LEMMA LengthOfCat ==
  ASSUME NEW a \in Seq(Piece), NEW b \in Seq(Piece)
  PROVE  Length(a \o b) = Length(a) + Length(b)
<1>1. a \o b \in Seq(Piece)
  OBVIOUS
<1>2. PICK sa : sa = Sizes(a)
  OBVIOUS
<1>3. PICK sb : sb = Sizes(b)
  OBVIOUS
<1>4. PICK sc : sc = Sizes(a \o b)
  OBVIOUS
<1>5. /\ sa \in Seq(Nat) /\ Len(sa) = Len(a) /\ \A i \in 1 .. Len(a) : sa[i] = a[i].size
      /\ sb \in Seq(Nat) /\ Len(sb) = Len(b) /\ \A i \in 1 .. Len(b) : sb[i] = b[i].size
      /\ sc \in Seq(Nat) /\ Len(sc) = Len(a \o b)
      /\ \A i \in 1 .. Len(a \o b) : sc[i] = (a \o b)[i].size
  BY <1>1, <1>2, <1>3, <1>4, SizesOfBody
<1>6. PICK sd : sd = sa \o sb
  OBVIOUS
<1>7. sc = sd
  <2>1. /\ sd \in Seq(Nat) /\ Len(sd) = Len(a) + Len(b) /\ Len(sc) = Len(a) + Len(b)
        /\ Len(a) \in Nat /\ Len(b) \in Nat
    <3>1. Len(sc) = Len(a) + Len(b) /\ Len(a) \in Nat /\ Len(b) \in Nat
      <4>1. Len(a \o b) = Len(a) + Len(b) /\ Len(a) \in Nat /\ Len(b) \in Nat
        OBVIOUS
      <4> QED
        BY ONLY <1>5, <4>1
    <3>2. sd \in Seq(Nat) /\ Len(sd) = Len(sa) + Len(sb)
      <4>1. sa \in Seq(Nat) /\ sb \in Seq(Nat)
        BY ONLY <1>5
      <4> QED
        BY ONLY <4>1, <1>6
    <3> QED
      BY ONLY <1>5, <3>1, <3>2
  <2>2. ASSUME NEW i \in 1 .. Len(a) + Len(b)
        PROVE  sc[i] = sd[i]
    <3>1. sc[i] = (a \o b)[i].size
      BY <1>5
    <3>2. CASE i <= Len(a)
      BY <1>5, <1>6, <3>1, <3>2
    <3>3. CASE i > Len(a)
      <4>1. i - Len(a) \in 1 .. Len(b)
        BY <3>3
      <4>2. (a \o b)[i] = b[i - Len(a)]
        BY <3>3
      <4>3. sd[i] = sb[i - Len(a)]
        <5>1. sa \in Seq(Nat) /\ sb \in Seq(Nat) /\ Len(sa) = Len(a) /\ Len(sb) = Len(b)
          BY ONLY <1>5
        <5>2. \A k \in 1 .. Len(sb) : sd[Len(sa) + k] = sb[k]
          BY ONLY <5>1, <1>6, ConcatProperties
        <5>3. Len(a) + (i - Len(a)) = i
          BY ONLY <2>1, <2>2
        <5> QED
          BY ONLY <4>1, <5>1, <5>2, <5>3
      <4> QED
        BY <1>5, <3>1, <4>1, <4>2, <4>3
    <3> QED
      BY ONLY <2>1, <3>2, <3>3, i \in 1 .. Len(a) + Len(b)
  <2> QED
    BY <1>5, <2>1, <2>2, SeqEqual
<1>8. Length(a) = Total(sa) /\ Length(b) = Total(sb) /\ Length(a \o b) = Total(sc)
  BY <1>1, <1>2, <1>3, <1>4, SizesOfBody
<1>9. Total(sc) = Total(sa) + Total(sb)
  BY <1>5, <1>6, <1>7, TotalOfCat
<1> QED
  BY <1>8, <1>9

LEMMA LengthOfAppend ==
  ASSUME NEW body \in Seq(Piece), NEW p \in Piece
  PROVE  Length(Append(body, p)) = Length(body) + p.size
<1>1. Append(body, p) = body \o <<p>> /\ <<p>> \in Seq(Piece)
  OBVIOUS
<1> QED
  BY <1>1, LengthOfCat, LengthOfOne

LEMMA LengthOfSuffix ==
  ASSUME NEW body \in Seq(Piece), NEW k \in 1 .. Len(body)
  PROVE  /\ SubSeq(body, k + 1, Len(body)) \in Seq(Piece)
         /\ Length(SubSeq(body, k, Len(body)))
              = body[k].size + Length(SubSeq(body, k + 1, Len(body)))
<1>1. SubSeq(body, k + 1, Len(body)) \in Seq(Piece) /\ body[k] \in Piece /\ <<body[k]>> \in Seq(Piece)
  OBVIOUS
<1>2. SubSeq(body, k, Len(body)) = <<body[k]>> \o SubSeq(body, k + 1, Len(body))
  OBVIOUS
<1> QED
  BY <1>1, <1>2, LengthOfCat, LengthOfOne

\* Each text is as long as its longest piece at least.
LEMMA PieceFits ==
  ASSUME NEW body \in Seq(Piece), NEW k \in 1 .. Len(body)
  PROVE  body[k].size <= Length(body)
<1>1. body = SubSeq(body, 1, k - 1) \o SubSeq(body, k, Len(body))
  OBVIOUS
<1>2. SubSeq(body, 1, k - 1) \in Seq(Piece) /\ SubSeq(body, k, Len(body)) \in Seq(Piece)
  OBVIOUS
<1>3. Length(body) = Length(SubSeq(body, 1, k - 1)) + Length(SubSeq(body, k, Len(body)))
  BY <1>1, <1>2, LengthOfCat
<1>4. Length(SubSeq(body, k, Len(body)))
        = body[k].size + Length(SubSeq(body, k + 1, Len(body)))
  BY LengthOfSuffix
<1>5. /\ Length(SubSeq(body, 1, k - 1)) \in Nat
      /\ Length(SubSeq(body, k + 1, Len(body))) \in Nat
  BY <1>2, LengthOfSuffix, LengthInNat
<1>6. body[k].size \in Nat
  <2>1. body[k] \in Piece
    OBVIOUS
  <2> QED
    BY <2>1 DEF Piece
<1> QED
  BY <1>3, <1>4, <1>5, <1>6

\* The tail that is carried: it starts inside the piece first, and is as long
\* as the overlap if the body is.
LEMMA CarriedIs ==
  ASSUME NEW body \in Seq(Piece), body # <<>>,
         \A k \in 1 .. Len(body) : body[k].size > 0,
         NEW overlap \in Nat \ {0}
  PROVE  \E first \in 1 .. Len(body), kept \in Nat \ {0} :
           /\ kept <= body[first].size
           /\ Carried(body, overlap)
                = <<[of   |-> body[first].of,
                     from |-> body[first].from + body[first].size - kept,
                     size |-> kept]>> \o SubSeq(body, first + 1, Len(body))
           /\ Carried(body, overlap) \in Seq(Piece)
           /\ Length(Carried(body, overlap)) = Smaller(overlap, Length(body))
<1> DEFINE n == Len(body)
           rest(k) == SubSeq(body, k + 1, n)
           Short == {k \in 1 .. n : Length(rest(k)) < overlap}
           IsFirst(k) == /\ Length(rest(k)) < overlap
                         /\ \A j \in 1 .. k - 1 : Length(rest(j)) >= overlap
<1>1. n \in Nat \ {0} /\ DOMAIN body = 1 .. n
  OBVIOUS
<1>2. n \in Short
  <2>1. rest(n) = <<>>
    BY <1>1
  <2>2. Length(rest(n)) = 0
    BY <2>1, LengthEmpty
  <2> QED
    BY <1>1, <2>2
<1>3. \A k \in 1 .. n : rest(k) \in Seq(Piece) /\ Length(rest(k)) \in Nat
  BY LengthOfSuffix, LengthInNat
<1>4. PICK least \in Short : \A j \in Short : least <= j
  <2>1. Short \in SUBSET Nat /\ Short # {}
    BY <1>1, <1>2
  <2> HIDE DEF Short
  <2> QED
    BY <2>1, Least
<1>5. least \in 1 .. n /\ IsFirst(least)
  <2>1. least \in 1 .. n /\ Length(rest(least)) < overlap
    OBVIOUS
  <2>2. ASSUME NEW j \in 1 .. least - 1
        PROVE  Length(rest(j)) >= overlap
    <3>1. j \in 1 .. n /\ ~(least <= j)
      BY <2>1, <1>1
    <3>2. j \notin Short
      BY <1>4, <3>1
    <3> QED
      BY <1>3, <3>1, <3>2
  <2> QED
    BY <2>1, <2>2
<1>6. PICK first : first = CHOOSE k \in DOMAIN body : IsFirst(k)
  OBVIOUS
<1>7. first \in 1 .. n /\ IsFirst(first)
  <2>1. \E k \in DOMAIN body : IsFirst(k)
    BY ONLY <1>1, <1>5
  <2> HIDE DEF IsFirst
  <2> QED
    BY ONLY <1>1, <1>6, <2>1
<1>8. PICK p \in Piece : p = body[first]
  BY <1>7
<1>9. p.size \in Nat \ {0} /\ p.from \in Nat /\ p.of \in Nat
  <2> HIDE DEF IsFirst, Short
  <2>1. p.size > 0
    BY <1>7, <1>8
  <2> QED
    BY ONLY <2>1, p \in Piece DEF Piece
<1>10. PICK tail \in Seq(Piece) : tail = rest(first)
  BY <1>3, <1>7
<1>11. Length(tail) \in Nat /\ Length(tail) < overlap
  BY ONLY <1>3, <1>7, <1>10
<1>12. PICK kept : kept = Smaller(p.size, overlap - Length(tail))
  OBVIOUS
<1>13. kept \in Nat \ {0} /\ kept <= p.size
  BY <1>9, <1>11, <1>12 DEF Smaller
<1> DEFINE cut == [of |-> p.of, from |-> p.from + p.size - kept, size |-> kept]
<1>14. cut \in Piece
  <2>1. p.from + p.size - kept \in Nat
    BY ONLY <1>9, <1>13
  <2> QED
    BY ONLY <1>9, <1>13, <2>1 DEF Piece
<1>15. Carried(body, overlap) = <<cut>> \o tail
  <2>1. Carried(body, overlap)
          = <<[p EXCEPT !.from = @ + p.size - kept, !.size = kept]>> \o tail
    BY <1>6, <1>8, <1>10, <1>12 DEF Carried
  <2>2. [p EXCEPT !.from = @ + p.size - kept, !.size = kept] = cut
    <3>1. p.from + p.size - kept \in Nat
      BY <1>9, <1>13
    <3> QED
      BY <1>13, <3>1, Recut
  <2> QED
    BY <2>1, <2>2
<1>16. Carried(body, overlap) \in Seq(Piece)
  BY <1>14, <1>15
<1>17. Length(Carried(body, overlap)) = kept + Length(tail)
  <2>1. <<cut>> \in Seq(Piece) /\ Length(<<cut>>) = kept
    BY <1>14, LengthOfOne
  <2> HIDE DEF cut
  <2> QED
    BY <1>15, <2>1, LengthOfCat
<1>18. Length(SubSeq(body, first, n)) = p.size + Length(tail)
  BY <1>7, <1>8, <1>10, LengthOfSuffix
<1>19. Length(SubSeq(body, first, n)) <= Length(body)
  <2>1. body = SubSeq(body, 1, first - 1) \o SubSeq(body, first, n)
    BY <1>7
  <2>2. SubSeq(body, 1, first - 1) \in Seq(Piece) /\ SubSeq(body, first, n) \in Seq(Piece)
    BY <1>7
  <2>3. /\ Length(body) = Length(SubSeq(body, 1, first - 1)) + Length(SubSeq(body, first, n))
        /\ Length(SubSeq(body, 1, first - 1)) \in Nat /\ Length(SubSeq(body, first, n)) \in Nat
    BY <2>1, <2>2, LengthOfCat, LengthInNat
  <2> QED
    BY <2>3
<1>20. Length(body) \in Nat
  BY LengthInNat
<1>21. Length(Carried(body, overlap)) = Smaller(overlap, Length(body))
  <2>1. CASE p.size >= overlap - Length(tail)
    BY <1>9, <1>11, <1>12, <1>17, <1>18, <1>19, <1>20, <2>1 DEF Smaller
  <2>2. CASE p.size < overlap - Length(tail)
    <3>1. kept = p.size
      BY <1>9, <1>11, <1>12, <2>2 DEF Smaller
    <3>2. first = 1
      <4> SUFFICES ASSUME first # 1 PROVE FALSE
        OBVIOUS
      <4>1. first - 1 \in 1 .. first - 1
        BY <1>7
      <4>2. Length(rest(first - 1)) >= overlap
        BY <1>7, <4>1
      <4>3. rest(first - 1) = SubSeq(body, first, n)
        BY <1>7
      <4>4. Length(SubSeq(body, first, n)) >= overlap
        BY ONLY <4>2, <4>3
      <4> QED
        BY ONLY <1>9, <1>11, <1>18, <2>2, <4>4, overlap \in Nat
    <3>3. SubSeq(body, 1, n) = body
      OBVIOUS
    <3>4. Length(body) = p.size + Length(tail)
      BY ONLY <1>18, <3>2, <3>3
    <3> QED
      BY <1>9, <1>11, <1>17, <1>20, <2>2, <3>1, <3>4 DEF Smaller
  <2> QED
    BY <1>9, <1>11, <2>1, <2>2
<1>22. cut = [of |-> body[first].of, from |-> body[first].from + body[first].size - kept, size |-> kept]
  BY <1>8
<1> HIDE DEF cut
<1> QED
  BY <1>7, <1>8, <1>10, <1>13, <1>15, <1>16, <1>21, <1>22

-----------------------------------------------------------------------------
(* Elements. *)

\* What Unstructured yields of a file, as far as the chunks depend on it.
LEMMA FilesAreRead ==
  ASSUME NEW f \in Files
  PROVE  f.blocks \in Seq(Block)
BY ChunkingAssumption DEF File

Element == [kind : Kinds, clause : BOOLEAN, label : BOOLEAN, page : Nat, size : Nat \ {0},
            rows : Seq(Nat), section : Seq(Nat)]

\* A table is cut at its rows.
RowsFit(e) ==
  e.rows # <<>> => /\ Total(e.rows) = e.size
                   /\ \A k \in 1 .. Len(e.rows) : e.rows[k] > 0

LEMMA PartitionedBlocks ==
  ASSUME file.blocks \in Seq(Block)
  PROVE  Partitioned \in Seq({file.blocks[j] : j \in DOMAIN file.blocks})
<1> DEFINE seq == file.blocks
           n == Len(seq)
           S == {seq[j] : j \in DOMAIN seq}
           A == Seq(S)
           sees(b) == file.mime = "pdf" /\ strategy = "fast" => file.layer[b.page] > 0
           op(a, k) == IF sees(seq[k]) THEN Append(a, seq[k]) ELSE a
           Eq(iter) == iter = [s \in SUBSET DOMAIN seq |->
                                IF s = {} THEN <<>> ELSE op(iter[s \ {Max(s)}], Max(s))]
           F == [p \in (1 .. n) \X A |-> op(p[2], p[1])]
           iter == CHOOSE iter : Eq(iter)
<1>1. n \in Nat /\ <<>> \in A /\ DOMAIN seq = 1 .. n /\ \A k \in 1 .. n : seq[k] \in S
  OBVIOUS
<1>2. Partitioned = iter[DOMAIN seq]
  BY DEF Partitioned, FoldLeft, MapThenFoldSet
<1> HIDE DEF S
<1>3. \A k \in 1 .. n, a \in A : op(a, k) \in A
  BY <1>1
<1> HIDE DEF A, sees, op
<1>4. F \in [(1 .. n) \X A -> A] /\ \A k \in 1 .. n, a \in A : F[<<k, a>>] = op(a, k)
  BY <1>3
<1>5. \A s \in SUBSET (1 .. n) : s # {} => Max(s) \in 1 .. n /\ s \ {Max(s)} \in SUBSET (1 .. n)
  BY <1>1, GreatestOf
<1> HIDE DEF F, n, seq
<1>6. \E g : Eq(g)
  <2>1. PICK g : Folding(g, n, A, <<>>, F)
    BY ONLY <1>1, <1>4, FoldWitness
  <2>2. Eq(g)
    BY ONLY <2>1, <1>1, <1>4, <1>5 DEF Folding
  <2> QED
    BY <2>2
<1>7. Eq(iter)
  BY <1>6
<1> HIDE DEF iter
<1>8. PICK f : Steps(f, n, A, <<>>, F, iter[1 .. n])
  <2>1. FoldedBy(iter, n, A, <<>>, F)
    BY ONLY <1>1, <1>4, <1>5, <1>7 DEF FoldedBy
  <2> QED
    BY ONLY <1>1, <1>4, <2>1, FoldSteps
<1>9. f[n] \in A
  BY <1>1, <1>8 DEF Steps
<1> QED
  BY <1>1, <1>2, <1>8, <1>9 DEF Steps, A, S, seq

\* The elements that blocks of B become.
ElementsOf(B) ==
  {e \in Element : \E b \in B : /\ e.kind = b.kind /\ e.clause = b.clause /\ e.page = b.page
                               /\ e.size = b.size /\ e.rows = b.rows}

LEMMA ConvertedElements ==
  ASSUME NEW B \in SUBSET Block, NEW blocks \in Seq(B)
  PROVE  Converted(blocks) \in Seq(ElementsOf(B))
<1> DEFINE seq == blocks
           n == Len(seq)
           E == ElementsOf(B)
           A == [stack : Seq(Nat), elements : Seq(E)]
           base == [stack |-> <<>>, elements |-> <<>>]
           stack(a, b) == IF b.kind # "title" THEN a.stack
                          ELSE Append(SubSeq(a.stack, 1, Smaller(b.depth, Len(a.stack))),
                                      Len(a.elements) + 1)
           element(a, b) == [kind |-> b.kind, clause |-> b.clause, label |-> b.label,
                             page |-> b.page, size |-> b.size, rows |-> b.rows,
                             section |-> stack(a, b)]
           op(a, k) == IF seq[k].size = 0 THEN a
                       ELSE [stack |-> stack(a, seq[k]),
                             elements |-> Append(a.elements, element(a, seq[k]))]
           Eq(iter) == iter = [s \in SUBSET DOMAIN seq |->
                                IF s = {} THEN base ELSE op(iter[s \ {Max(s)}], Max(s))]
           F == [p \in (1 .. n) \X A |-> op(p[2], p[1])]
           iter == CHOOSE iter : Eq(iter)
<1>1. n \in Nat /\ base \in A /\ DOMAIN seq = 1 .. n /\ \A k \in 1 .. n : seq[k] \in B
  OBVIOUS
<1>2. Converted(blocks) = iter[DOMAIN seq].elements
  BY DEF Converted, FoldLeft, MapThenFoldSet
<1>3. ASSUME NEW k \in 1 .. n, NEW a \in A
      PROVE  op(a, k) \in A
  <2>1. PICK b \in B : b = seq[k]
    BY <1>1
  <2>2. /\ b.kind \in Kinds /\ b.clause \in BOOLEAN /\ b.label \in BOOLEAN /\ b.page \in Nat /\ b.depth \in Nat
        /\ b.size \in Nat /\ b.rows \in Seq(Nat)
    BY DEF Block
  <2>3. a.stack \in Seq(Nat) /\ a.elements \in Seq(E)
    OBVIOUS
  <2>4. PICK depth : depth = Smaller(b.depth, Len(a.stack))
    OBVIOUS
  <2>5. depth \in 0 .. Len(a.stack)
    BY <2>2, <2>3, <2>4 DEF Smaller
  <2>6. SubSeq(a.stack, 1, depth) \in Seq(Nat) /\ Len(a.elements) + 1 \in Nat
    BY <2>3, <2>5
  <2>7. PICK st \in Seq(Nat) : st = stack(a, b)
    <3>1. Append(SubSeq(a.stack, 1, depth), Len(a.elements) + 1) \in Seq(Nat)
      BY <2>6
    <3>2. stack(a, b) \in Seq(Nat)
      <4>1. CASE b.kind = "title"
        BY ONLY <2>4, <3>1, <4>1
      <4>2. CASE b.kind # "title"
        BY ONLY <2>3, <4>2
      <4> QED
        BY <4>1, <4>2
    <3> HIDE DEF stack
    <3> QED
      BY <3>2
  <2> HIDE DEF stack, E
  <2>8. CASE b.size = 0
    BY <2>1, <2>8
  <2>9. CASE b.size # 0
    <3>1. PICK e : e = element(a, b)
      OBVIOUS
    <3>2. e \in Element
      BY <2>2, <2>7, <2>9, <3>1 DEF Element
    <3>3. e \in E
      BY <3>1, <3>2 DEF E, ElementsOf
    <3>4. op(a, k) = [stack |-> st, elements |-> Append(a.elements, e)]
      BY <2>1, <2>7, <2>9, <3>1
    <3>5. Append(a.elements, e) \in Seq(E)
      BY <2>3, <3>3
    <3> HIDE DEF op
    <3> QED
      BY <3>4, <3>5
  <2> QED
    BY <2>8, <2>9
<1> HIDE DEF A, op
<1>4. F \in [(1 .. n) \X A -> A] /\ \A k \in 1 .. n, a \in A : F[<<k, a>>] = op(a, k)
  BY <1>3
<1>5. \A s \in SUBSET (1 .. n) : s # {} => Max(s) \in 1 .. n /\ s \ {Max(s)} \in SUBSET (1 .. n)
  BY <1>1, GreatestOf
<1> HIDE DEF F, n, seq, base
<1>6. \E g : Eq(g)
  <2>1. PICK g : Folding(g, n, A, base, F)
    BY ONLY <1>1, <1>4, FoldWitness
  <2>2. Eq(g)
    BY ONLY <2>1, <1>1, <1>4, <1>5 DEF Folding
  <2> QED
    BY <2>2
<1>7. Eq(iter)
  BY <1>6
<1> HIDE DEF iter
<1>8. PICK f : Steps(f, n, A, base, F, iter[1 .. n])
  <2>1. FoldedBy(iter, n, A, base, F)
    BY ONLY <1>1, <1>4, <1>5, <1>7 DEF FoldedBy
  <2> QED
    BY ONLY <1>1, <1>4, <2>1, FoldSteps
<1>9. f[n] \in A
  BY <1>1, <1>8 DEF Steps
<1> QED
  BY <1>1, <1>2, <1>8, <1>9 DEF Steps, A

-----------------------------------------------------------------------------
(* Cutting texts. *)

\* p is a piece of q.
PartOf(p, q) ==
  /\ p \in Piece /\ p.of = q.of /\ p.size > 0
  /\ q.from <= p.from /\ p.from + p.size <= q.from + q.size

Covers(p, offset) == p.from <= offset /\ offset < p.from + p.size

LEMMA Multiples ==
  ASSUME NEW i \in Nat, NEW n \in Nat, i <= n, NEW step \in Nat
  PROVE  i * step <= n * step /\ i * step \in Nat
<1>1. PICK d \in Nat : n = i + d
  <2>1. n - i \in Nat /\ n = i + (n - i)
    OBVIOUS
  <2> QED
    BY <2>1
<1>2. n * step = i * step + d * step
  BY <1>1
<1>3. i * step \in Nat /\ d * step \in Nat
  OBVIOUS
<1> QED
  BY <1>2, <1>3

LEMMA CutParts ==
  ASSUME NEW piece \in Piece, piece.size > 0,
         NEW size \in Nat \ {0}, NEW overlap \in Nat, overlap < size
  PROVE  LET parts == Cut(piece, size, overlap)
         IN /\ parts \in Seq(Seq(Piece)) /\ Len(parts) > 0
            /\ \A k \in 1 .. Len(parts) : Len(parts[k]) = 1 /\ PartOf(parts[k][1], piece)
            /\ \A offset \in piece.from .. piece.from + piece.size - 1 :
                 \E k \in 1 .. Len(parts) : Covers(parts[k][1], offset)
<1>1. piece.size \in Nat \ {0} /\ piece.from \in Nat /\ piece.of \in Nat
  BY DEF Piece
<1>2. PICK step \in Nat \ {0} : step = size - overlap
  <2>1. size - overlap \in Nat \ {0}
    OBVIOUS
  <2> QED
    BY <2>1
<1>3. PICK n : n = (piece.size + step - 1) \div step
  OBVIOUS
<1>4. n \in Nat /\ step * n <= piece.size + step - 1 /\ piece.size + step - 1 < step * n + step
  <2>1. PICK m : m = piece.size + step - 1
    OBVIOUS
  <2>2. m \in Nat /\ n = m \div step
    BY <1>1, <1>3, <2>1
  <2>3. n \in Nat /\ step * n <= m /\ m < step * n + step
    BY ONLY <2>2, step \in Nat \ {0}
  <2> QED
    BY <2>1, <2>3
<1>5. n * step = step * n /\ n * step \in Nat /\ n # 0
  <2>1. n * step = step * n /\ n * step \in Nat
    BY <1>4
  <2>2. n # 0
    BY <1>1, <1>4
  <2> QED
    BY <2>1, <2>2
<1>6. piece.size <= n * step
  BY <1>1, <1>4, <1>5
<1> DEFINE pos(i) == (i - 1) * step
           p(i) == [of |-> piece.of, from |-> piece.from + pos(i),
                    size |-> Smaller(size, piece.size - pos(i))]
           parts == Cut(piece, size, overlap)
<1>7. ASSUME NEW i \in 1 .. n
      PROVE  /\ pos(i) \in Nat /\ pos(i) < piece.size
             /\ Smaller(size, piece.size - pos(i)) \in Nat \ {0}
             /\ PartOf(p(i), piece)
  <2>1. i - 1 \in Nat /\ n - 1 \in Nat /\ i - 1 <= n - 1
    BY <1>4
  <2>2. pos(i) \in Nat /\ pos(i) <= (n - 1) * step
    BY <2>1, Multiples
  <2>3. (n - 1) * step = n * step - step
    BY <1>4
  <2>4. pos(i) < piece.size
    BY <1>1, <1>4, <1>5, <2>2, <2>3
  <2> HIDE DEF pos
  <2>5. /\ Smaller(size, piece.size - pos(i)) \in Nat \ {0}
        /\ Smaller(size, piece.size - pos(i)) <= piece.size - pos(i)
    BY <1>1, <2>2, <2>4 DEF Smaller
  <2>6. PartOf(p(i), piece)
    BY <1>1, <2>2, <2>4, <2>5 DEF PartOf, Piece
  <2> QED
    BY <2>2, <2>4, <2>5, <2>6
<1>8. parts = [i \in 1 .. n |-> <<p(i)>>]
  <2>1. parts = [i \in 1 .. n |-> <<[piece EXCEPT !.from = @ + pos(i),
                                                 !.size = Smaller(size, @ - pos(i))]>>]
    BY <1>2, <1>3 DEF Cut
  <2>2. ASSUME NEW i \in 1 .. n
        PROVE  [piece EXCEPT !.from = @ + pos(i), !.size = Smaller(size, @ - pos(i))] = p(i)
    <3>1. pos(i) \in Nat /\ Smaller(size, piece.size - pos(i)) \in Nat
      BY <1>7
    <3> HIDE DEF pos
    <3>2. piece.from + pos(i) \in Nat
      BY <1>1, <3>1
    <3> QED
      BY <3>1, <3>2, Recut
  <2> HIDE DEF pos, p, parts
  <2> QED
    BY <2>1, <2>2
<1> HIDE DEF parts
<1>9. parts \in Seq(Seq(Piece)) /\ Len(parts) = n /\ \A k \in 1 .. n : parts[k] = <<p(k)>>
  <2>1. \A i \in 1 .. n : <<p(i)>> \in Seq(Piece)
    <3>1. \A i \in 1 .. n : p(i) \in Piece
      BY <1>7 DEF PartOf
    <3> HIDE DEF p
    <3> QED
      BY <3>1
  <2> HIDE DEF p
  <2> QED
    BY <1>4, <1>8, <2>1
<1>10. ASSUME NEW offset \in piece.from .. piece.from + piece.size - 1
       PROVE  \E k \in 1 .. n : Covers(p(k), offset)
  <2>1. PICK o \in Nat : offset = piece.from + o /\ o < piece.size
    <3>1. offset - piece.from \in Nat /\ offset = piece.from + (offset - piece.from)
      BY <1>1
    <3> QED
      BY <1>1, <3>1
  <2>2. PICK q : q = o \div step
    OBVIOUS
  <2>3. q \in Nat /\ step * q <= o /\ o < step * q + step
    BY <2>1, <2>2
  <2>4. q < n
    <3> SUFFICES ASSUME q >= n PROVE FALSE
      BY <1>4, <2>3
    <3>1. n * step <= q * step
      BY <1>4, <2>3, Multiples
    <3>2. q * step = step * q
      BY <2>3
    <3> QED
      BY <1>1, <1>5, <1>6, <2>1, <2>3, <3>1, <3>2
  <2>5. q + 1 \in 1 .. n /\ pos(q + 1) = step * q
    BY <1>4, <2>3, <2>4
  <2>6. step * q \in Nat
    BY <2>3
  <2>7. Covers(p(q + 1), offset)
    <3>1. PICK a \in Nat : a = pos(q + 1) /\ a <= o /\ o < a + step
      BY <2>3, <2>5, <2>6
    <3> HIDE DEF pos
    <3>2. PICK z : z = Smaller(size, piece.size - a)
      OBVIOUS
    <3>3. o < a + z /\ z \in Nat
      BY <1>1, <1>2, <2>1, <3>1, <3>2 DEF Smaller
    <3> QED
      BY <1>1, <2>1, <3>1, <3>2, <3>3 DEF Covers
  <2> QED
    BY <2>5, <2>7
<1> HIDE DEF p
<1>11. ASSUME NEW k \in 1 .. n
       PROVE  Len(parts[k]) = 1 /\ parts[k][1] = p(k)
  <2>1. parts[k] = <<p(k)>>
    BY <1>9
  <2> QED
    BY <2>1
<1> QED
  BY <1>4, <1>5, <1>7, <1>9, <1>10, <1>11 DEF parts

LEMMA PartOfSelf ==
  ASSUME NEW p \in Piece, p.size > 0
  PROVE  PartOf(p, p)
BY DEF PartOf, Piece

LEMMA CarriedParts ==
  ASSUME NEW body \in Seq(Piece), body # <<>>,
         \A k \in 1 .. Len(body) : body[k].size > 0,
         NEW overlap \in Nat \ {0}
  PROVE  LET carried == Carried(body, overlap)
         IN /\ carried \in Seq(Piece)
            /\ Length(carried) = Smaller(overlap, Length(body))
            /\ \E first \in 1 .. Len(body) :
                 /\ Len(carried) = Len(body) - first + 1
                 /\ \A q \in 1 .. Len(carried) : PartOf(carried[q], body[first + q - 1])
<1>1. PICK first \in 1 .. Len(body), kept \in Nat \ {0} :
         /\ kept <= body[first].size
         /\ Carried(body, overlap)
              = <<[of   |-> body[first].of,
                   from |-> body[first].from + body[first].size - kept,
                   size |-> kept]>> \o SubSeq(body, first + 1, Len(body))
         /\ Carried(body, overlap) \in Seq(Piece)
         /\ Length(Carried(body, overlap)) = Smaller(overlap, Length(body))
  BY CarriedIs
<1>2. PICK p \in Piece : p = body[first]
  OBVIOUS
<1>3. p.of \in Nat /\ p.from \in Nat /\ p.size \in Nat /\ p.size > 0
  BY <1>2 DEF Piece
<1>4. PICK cut : cut = [of |-> p.of, from |-> p.from + p.size - kept, size |-> kept]
  OBVIOUS
<1>5. PartOf(cut, p)
  <2>1. kept \in Nat \ {0} /\ kept <= p.size
    BY ONLY <1>1, <1>2, kept \in Nat \ {0}
  <2>2. PICK from : from = p.from + p.size - kept
    OBVIOUS
  <2>3. /\ from \in Nat /\ p.from <= from /\ kept > 0 /\ kept \in Nat
        /\ from + kept <= p.from + p.size
    BY ONLY <1>3, <2>1, <2>2
  <2>4. cut = [of |-> p.of, from |-> from, size |-> kept]
    BY ONLY <1>4, <2>2
  <2>5. cut \in Piece /\ cut.of = p.of /\ cut.from = from /\ cut.size = kept
    BY ONLY <1>3, <2>3, <2>4 DEF Piece
  <2> QED
    BY ONLY <2>3, <2>5 DEF PartOf
<1>6. cut \in Piece
  BY <1>5 DEF PartOf
<1>7. PICK rest \in Seq(Piece) : rest = SubSeq(body, first + 1, Len(body))
  BY LengthOfSuffix
<1>8. /\ Len(rest) = Len(body) - first
      /\ \A q \in 1 .. Len(rest) : rest[q] = body[first + q]
  BY <1>7
<1>9. PICK carried \in Seq(Piece) : carried = Carried(body, overlap)
  BY <1>1
<1>10. carried = <<cut>> \o rest
  BY <1>1, <1>2, <1>4, <1>7, <1>9
<1>11. Len(carried) = Len(body) - first + 1
  <2>1. <<cut>> \in Seq(Piece) /\ Len(<<cut>>) = 1
    BY <1>6
  <2>2. Len(carried) = 1 + Len(rest)
    BY ONLY <1>10, <2>1, rest \in Seq(Piece), ConcatProperties
  <2>3. Len(body) \in Nat
    OBVIOUS
  <2> QED
    BY ONLY <1>8, <2>2, <2>3, first \in 1 .. Len(body)
<1>12. ASSUME NEW q \in 1 .. Len(carried)
       PROVE  PartOf(carried[q], body[first + q - 1])
  <2>1. CASE q = 1
    BY <1>2, <1>5, <1>10, <2>1
  <2>2. CASE q > 1
    <3>1. q - 1 \in 1 .. Len(rest)
      BY <1>8, <1>11, <2>2
    <3>2. carried[q] = rest[q - 1]
      BY <1>10, <2>2, <3>1
    <3>3. rest[q - 1] = body[first + q - 1] /\ first + q - 1 \in 1 .. Len(body)
      BY <1>8, <1>11, <3>1
    <3>4. PICK r \in Piece : r = body[first + q - 1] /\ r.size > 0
      BY <3>3
    <3>5. PartOf(r, r)
      BY <3>4, PartOfSelf
    <3> QED
      BY <3>2, <3>3, <3>4, <3>5
  <2> QED
    BY <2>1, <2>2
<1> QED
  BY <1>1, <1>9, <1>11, <1>12

LEMMA PartOfPart ==
  ASSUME NEW p, NEW q, NEW r \in Piece, PartOf(p, q), PartOf(q, r)
  PROVE  PartOf(p, r)
BY DEF PartOf, Piece

StartOf(part) == part[1].of
EndOf(part) == part[Len(part)].of

\* part holds pieces of the first k texts of body, in their order.
Holding(part, body, k) ==
  /\ part \in Seq(Piece) /\ part # <<>>
  /\ \A q \in 1 .. Len(part) : \E j \in 1 .. k : PartOf(part[q], body[j])
  /\ \A q, r \in 1 .. Len(part) : q < r => part[q].of < part[r].of

\* Texts to be cut: none is empty, and they follow the document.
Texts(body) ==
  /\ body \in Seq(Piece) /\ body # <<>>
  /\ \A k \in 1 .. Len(body) : body[k].size > 0
  /\ \A j, k \in 1 .. Len(body) : j < k => body[j].of < body[k].of

LEMMA HoldingSizes ==
  ASSUME NEW part, NEW body, NEW k \in Nat, Holding(part, body, k)
  PROVE  /\ part \in Seq(Piece) /\ Len(part) \in Nat \ {0}
         /\ \A q \in 1 .. Len(part) : part[q] \in Piece /\ part[q].size > 0 /\ part[q].of \in Nat
         /\ StartOf(part) \in Nat /\ EndOf(part) \in Nat
<1>1. \A q \in 1 .. Len(part) : part[q] \in Piece /\ part[q].size > 0
  BY DEF Holding, PartOf
<1>2. part \in Seq(Piece) /\ Len(part) \in Nat \ {0}
  BY DEF Holding
<1>3. \A q \in 1 .. Len(part) : part[q].of \in Nat
  BY <1>1 DEF Piece
<1>4. 1 \in 1 .. Len(part) /\ Len(part) \in 1 .. Len(part)
  BY <1>2
<1> QED
  BY <1>1, <1>2, <1>3, <1>4 DEF StartOf, EndOf

\* The next text joins what is held, ...
LEMMA JoinedPart ==
  ASSUME NEW body, Texts(body), NEW k \in Nat, k + 1 \in 1 .. Len(body),
         NEW part \in Seq(Piece),
         \A q \in 1 .. Len(part) : \E j \in 1 .. k : PartOf(part[q], body[j]),
         \A q, r \in 1 .. Len(part) : q < r => part[q].of < part[r].of
  PROVE  LET joined == Append(part, body[k + 1])
         IN /\ Holding(joined, body, k + 1)
            /\ Length(joined) = Length(part) + body[k + 1].size
            /\ Len(joined) = Len(part) + 1 /\ joined[Len(joined)] = body[k + 1]
            /\ \A q \in 1 .. Len(part) : joined[q] = part[q]
<1>1. PICK p \in Piece : p = body[k + 1]
  BY DEF Texts
<1>2. PartOf(p, body[k + 1]) /\ p.of \in Nat
  <2>1. p.size > 0
    BY <1>1 DEF Texts
  <2> QED
    BY <1>1, <2>1 DEF PartOf, Piece
<1>3. PICK joined : joined = Append(part, p)
  OBVIOUS
<1>4. /\ joined \in Seq(Piece) /\ Len(joined) = Len(part) + 1 /\ Len(part) \in Nat
      /\ joined[Len(part) + 1] = p
      /\ \A q \in 1 .. Len(part) : joined[q] = part[q]
  BY <1>3
<1>5. \A q \in 1 .. Len(part) : part[q].of < p.of
  <2> TAKE q \in 1 .. Len(part)
  <2>1. PICK j \in 1 .. k : PartOf(part[q], body[j])
    OBVIOUS
  <2>2. j \in 1 .. Len(body) /\ j < k + 1
    BY DEF Texts
  <2>3. body[j].of < body[k + 1].of
    BY <2>2 DEF Texts
  <2> QED
    BY <1>1, <2>1, <2>3 DEF PartOf
<1>6. \A q \in 1 .. Len(joined) : \E j \in 1 .. k + 1 : PartOf(joined[q], body[j])
  <2> TAKE q \in 1 .. Len(joined)
  <2>1. CASE q = Len(part) + 1
    <3>1. k + 1 \in 1 .. k + 1
      BY DEF Texts
    <3> QED
      BY <1>2, <1>4, <2>1, <3>1
  <2>2. CASE q \in 1 .. Len(part)
    <3>1. PICK j \in 1 .. k : PartOf(part[q], body[j])
      BY <2>2
    <3>2. j \in 1 .. k + 1
      BY DEF Texts
    <3> QED
      BY <1>4, <2>2, <3>1, <3>2
  <2> QED
    BY <1>4, <2>1, <2>2
<1>7. \A q, r \in 1 .. Len(joined) : q < r => joined[q].of < joined[r].of
  <2> TAKE q, r \in 1 .. Len(joined)
  <2> HAVE q < r
  <2>1. q \in 1 .. Len(part) /\ (r \in 1 .. Len(part) \/ r = Len(part) + 1)
    <3>1. Len(joined) = Len(part) + 1 /\ Len(part) \in Nat
      BY <1>4
    <3> QED
      BY ONLY <3>1, q \in 1 .. Len(joined), r \in 1 .. Len(joined), q < r
  <2> QED
    BY <1>4, <1>5, <2>1
<1>8. Length(joined) = Length(part) + p.size
  BY <1>3, LengthOfAppend
<1>9. Holding(joined, body, k + 1)
  BY <1>4, <1>6, <1>7 DEF Holding
<1> QED
  BY <1>1, <1>3, <1>4, <1>8, <1>9

\* What is made of the first k texts of body: every part but the first is as
\* long as least at least.
Parts(all, body, k, least) ==
  /\ all \in Seq(Body) /\ all # <<>>
  /\ \A i \in 1 .. Len(all) : Holding(all[i], body, k)
  /\ \A j \in 1 .. k : \E i \in 1 .. Len(all) : \E q \in 1 .. Len(all[i]) : all[i][q] = body[j]
  /\ \A h, i \in 1 .. Len(all) : h <= i =>
       StartOf(all[h]) <= StartOf(all[i]) /\ EndOf(all[h]) <= EndOf(all[i])
  /\ EndOf(all[Len(all)]) = body[k].of
  /\ \A i \in 2 .. Len(all) : least <= Length(all[i])
  /\ Len(all) = 1 => all[1] = SubSeq(body, 1, k)

LEMMA HoldingMore ==
  ASSUME NEW part, NEW body, NEW k \in Nat, Holding(part, body, k)
  PROVE  Holding(part, body, k + 1)
<1>1. \A q \in 1 .. Len(part) : \E j \in 1 .. k + 1 : PartOf(part[q], body[j])
  <2> TAKE q \in 1 .. Len(part)
  <2>1. PICK j \in 1 .. k : PartOf(part[q], body[j])
    BY DEF Holding
  <2>2. j \in 1 .. k + 1
    OBVIOUS
  <2> QED
    BY <2>1, <2>2
<1> QED
  BY <1>1 DEF Holding

LEMMA PartsJoin ==
  ASSUME NEW body, Texts(body), NEW k \in 1 .. Len(body), k + 1 \in 1 .. Len(body),
         NEW least \in Nat, NEW done \in Seq(Body), NEW current \in Body,
         Parts(Append(done, current), body, k, least)
  PROVE  Parts(Append(done, Append(current, body[k + 1])), body, k + 1, least)
<1> DEFINE n == Len(done) + 1
<1>1. PICK all : all = Append(done, current)
  OBVIOUS
<1>2. /\ Len(all) = n /\ n \in Nat \ {0} /\ all[n] = current
      /\ \A i \in 1 .. Len(done) : all[i] = done[i]
      /\ all \in Seq(Body)
  BY <1>1, AppendProperties
<1>3. Parts(all, body, k, least)
  BY <1>1
<1>4. Holding(current, body, k) /\ EndOf(current) = body[k].of
  BY <1>2, <1>3 DEF Parts
<1>5. Len(current) \in Nat \ {0} /\ StartOf(current) \in Nat /\ EndOf(current) \in Nat
  BY <1>4, HoldingSizes
<1>6. PICK j0 : j0 = Append(current, body[k + 1])
  OBVIOUS
<1>7. /\ Holding(j0, body, k + 1)
      /\ Length(j0) = Length(current) + body[k + 1].size
      /\ Len(j0) = Len(current) + 1 /\ j0[Len(j0)] = body[k + 1]
      /\ \A q \in 1 .. Len(current) : j0[q] = current[q]
  <2>1. /\ current \in Seq(Piece)
        /\ \A q \in 1 .. Len(current) : \E j \in 1 .. k : PartOf(current[q], body[j])
        /\ \A q, r \in 1 .. Len(current) : q < r => current[q].of < current[r].of
    BY ONLY <1>4 DEF Holding
  <2>2. k \in Nat
    BY DEF Texts
  <2> QED
    BY ONLY <1>6, <2>1, <2>2, Texts(body), k + 1 \in 1 .. Len(body), JoinedPart
<1>8. j0 \in Body
  BY <1>7 DEF Holding, Body
<1>9. PICK new : new = Append(done, j0)
  OBVIOUS
<1>10. /\ Len(new) = n /\ new[n] = j0 /\ new \in Seq(Body)
       /\ \A i \in 1 .. Len(done) : new[i] = all[i]
  BY <1>2, <1>8, <1>9, AppendProperties
<1>11. \A i \in 1 .. n : i = n \/ i \in 1 .. Len(done)
  OBVIOUS
<1>12. \A i \in 1 .. n : Holding(new[i], body, k + 1)
  <2> TAKE i \in 1 .. n
  <2>1. CASE i = n
    BY <1>7, <1>10, <2>1
  <2>2. CASE i \in 1 .. Len(done)
    <3>1. Holding(all[i], body, k)
      BY <1>2, <1>3 DEF Parts
    <3>2. Holding(all[i], body, k + 1)
      BY <3>1, HoldingMore
    <3> QED
      BY <1>10, <2>2, <3>2
  <2> QED
    BY <1>11, <2>1, <2>2
<1>13. \A j \in 1 .. k + 1 : \E i \in 1 .. n : \E q \in 1 .. Len(new[i]) : new[i][q] = body[j]
  <2> TAKE j \in 1 .. k + 1
  <2>1. CASE j = k + 1
    <3>1. Len(j0) \in 1 .. Len(j0) /\ n \in 1 .. n
      BY <1>2, <1>5, <1>7
    <3> QED
      BY <1>7, <1>10, <2>1, <3>1
  <2>2. CASE j \in 1 .. k
    <3>1. PICK i \in 1 .. Len(all) : \E q \in 1 .. Len(all[i]) : all[i][q] = body[j]
      BY <1>3, <2>2 DEF Parts
    <3>2. PICK q \in 1 .. Len(all[i]) : all[i][q] = body[j]
      BY <3>1
    <3>3. CASE i = n
      <4>1. q \in 1 .. Len(current) /\ current[q] = body[j]
        BY <1>2, <3>2, <3>3
      <4>2. q \in 1 .. Len(j0) /\ j0[q] = body[j]
        BY <1>5, <1>7, <4>1
      <4> QED
        BY <1>2, <1>10, <3>3, <4>2
    <3>4. CASE i \in 1 .. Len(done)
      BY <1>10, <3>2, <3>4
    <3> QED
      BY <1>2, <1>11, <3>3, <3>4
  <2> QED
    BY <2>1, <2>2
<1>14. /\ StartOf(j0) = StartOf(current)
       /\ EndOf(current) <= EndOf(j0) /\ EndOf(j0) = body[k + 1].of /\ EndOf(j0) \in Nat
  <2>1. 1 \in 1 .. Len(current)
    BY <1>5
  <2>2. body[k].of < body[k + 1].of
    BY DEF Texts
  <2>3. body[k] \in Piece /\ body[k + 1] \in Piece
    BY DEF Texts
  <2>4. body[k].of \in Nat /\ body[k + 1].of \in Nat
    BY <2>3 DEF Piece
  <2>5. StartOf(j0) = StartOf(current)
    BY <1>7, <2>1 DEF StartOf
  <2>6. EndOf(j0) = body[k + 1].of
    BY <1>7 DEF EndOf
  <2> QED
    BY <1>4, <2>2, <2>4, <2>5, <2>6
<1>15. ASSUME NEW h \in 1 .. n, NEW i \in 1 .. n, h <= i
       PROVE  StartOf(new[h]) <= StartOf(new[i]) /\ EndOf(new[h]) <= EndOf(new[i])
  <2>1. StartOf(all[h]) <= StartOf(all[i]) /\ EndOf(all[h]) <= EndOf(all[i])
    BY <1>2, <1>3, <1>15 DEF Parts
  <2>2. CASE i \in 1 .. Len(done)
    <3>1. h \in 1 .. Len(done)
      BY <1>15, <2>2
    <3> QED
      BY <1>10, <2>1, <2>2, <3>1
  <2>3. CASE i = n /\ h = n
    BY <1>5, <1>10, <1>14, <2>3
  <2>4. CASE i = n /\ h \in 1 .. Len(done)
    <3>1. new[h] = all[h] /\ all[i] = current /\ new[i] = j0
      BY <1>2, <1>10, <2>4
    <3>2. Holding(all[h], body, k)
      BY <1>2, <1>3 DEF Parts
    <3>3. EndOf(all[h]) \in Nat
      BY <3>2, HoldingSizes
    <3> QED
      BY <1>5, <1>14, <2>1, <3>1, <3>3
  <2> QED
    BY <1>11, <2>2, <2>3, <2>4
<1>16. ASSUME NEW i \in 2 .. n
       PROVE  least <= Length(new[i])
  <2>1. least <= Length(all[i])
    BY <1>2, <1>3 DEF Parts
  <2>2. CASE i = n
    <3>1. Length(current) \in Nat /\ least <= Length(current)
      BY <1>2, <2>1, <2>2, LengthInNat DEF Body
    <3>2. body[k + 1] \in Piece
      BY DEF Texts
    <3>3. body[k + 1].size \in Nat
      BY <3>2 DEF Piece
    <3> QED
      BY <1>7, <1>10, <2>2, <3>1, <3>3
  <2>3. CASE i \in 1 .. Len(done)
    BY <1>10, <2>1, <2>3
  <2> QED
    BY <1>11, <2>2, <2>3
<1>17. n = 1 => new[1] = SubSeq(body, 1, k + 1)
  <2> HAVE n = 1
  <2>1. current = SubSeq(body, 1, k)
    BY <1>2, <1>3 DEF Parts
  <2>2. SubSeq(body, 1, k + 1) = Append(SubSeq(body, 1, k), body[k + 1])
    BY DEF Texts
  <2> QED
    BY <1>6, <1>10, <2>1, <2>2
<1>18. new # <<>> /\ EndOf(new[Len(new)]) = body[k + 1].of
  BY <1>2, <1>10, <1>14
<1>19. Parts(new, body, k + 1, least)
  BY <1>10, <1>12, <1>13, <1>15, <1>16, <1>17, <1>18 DEF Parts
<1> QED
  BY <1>6, <1>9, <1>19

LEMMA PartsCarry ==
  ASSUME NEW body, Texts(body), NEW k \in 1 .. Len(body), k + 1 \in 1 .. Len(body),
         NEW least \in Nat, NEW all \in Seq(Body), Parts(all, body, k, least),
         NEW part, Holding(part, body, k + 1), least <= Length(part),
         StartOf(all[Len(all)]) <= StartOf(part), part[Len(part)] = body[k + 1]
  PROVE  Parts(Append(all, part), body, k + 1, least)
<1> DEFINE m == Len(all)
           n == m + 1
<1>1. PICK new : new = Append(all, part)
  OBVIOUS
<1>2. part \in Body /\ Len(part) \in Nat \ {0} /\ StartOf(part) \in Nat
  <2>1. k + 1 \in Nat
    OBVIOUS
  <2> QED
    BY <2>1, HoldingSizes DEF Body
<1>3. m \in Nat \ {0}
  BY DEF Parts
<1>4. /\ Len(new) = n /\ new[n] = part /\ new \in Seq(Body) /\ new # <<>>
      /\ \A i \in 1 .. m : new[i] = all[i]
  <2>1. /\ Len(new) = n /\ new[n] = part /\ new \in Seq(Body)
        /\ \A i \in 1 .. m : new[i] = all[i]
    BY <1>1, <1>2, <1>3, AppendProperties
  <2> QED
    BY <1>3, <2>1
<1>5. \A i \in 1 .. n : i = n \/ i \in 1 .. m
  BY <1>3
<1>6. \A i \in 1 .. m : Holding(all[i], body, k) /\ StartOf(all[i]) \in Nat /\ EndOf(all[i]) \in Nat
  <2> TAKE i \in 1 .. m
  <2>1. Holding(all[i], body, k)
    BY DEF Parts
  <2>2. k \in Nat
    BY DEF Texts
  <2> QED
    BY <2>1, <2>2, HoldingSizes
<1>7. \A i \in 1 .. n : Holding(new[i], body, k + 1)
  <2> TAKE i \in 1 .. n
  <2>1. CASE i = n
    BY <1>4, <2>1
  <2>2. CASE i \in 1 .. m
    <3>1. k \in Nat
      BY DEF Texts
    <3>2. Holding(all[i], body, k + 1)
      BY <1>6, <2>2, <3>1, HoldingMore
    <3> QED
      BY <1>4, <2>2, <3>2
  <2> QED
    BY <1>5, <2>1, <2>2
<1>8. \A j \in 1 .. k + 1 : \E i \in 1 .. n : \E q \in 1 .. Len(new[i]) : new[i][q] = body[j]
  <2> TAKE j \in 1 .. k + 1
  <2>1. CASE j = k + 1
    <3>1. Len(part) \in 1 .. Len(part) /\ n \in 1 .. n
      BY <1>2, <1>3
    <3> QED
      BY <1>4, <2>1, <3>1
  <2>2. CASE j \in 1 .. k
    <3>1. PICK i \in 1 .. m : \E q \in 1 .. Len(all[i]) : all[i][q] = body[j]
      BY <2>2 DEF Parts
    <3>2. i \in 1 .. n
      BY <1>3
    <3> QED
      BY <1>4, <3>1, <3>2
  <2> QED
    BY <2>1, <2>2
<1>9. EndOf(part) = body[k + 1].of
  BY DEF EndOf
<1>10. body[k].of < body[k + 1].of /\ body[k].of \in Nat /\ body[k + 1].of \in Nat
  <2>1. body[k] \in Piece /\ body[k + 1] \in Piece
    BY DEF Texts
  <2>2. body[k].of < body[k + 1].of
    BY DEF Texts
  <2> QED
    BY <2>1, <2>2 DEF Piece
<1>11. ASSUME NEW h \in 1 .. n, NEW i \in 1 .. n, h <= i
       PROVE  StartOf(new[h]) <= StartOf(new[i]) /\ EndOf(new[h]) <= EndOf(new[i])
  <2>1. CASE i \in 1 .. m
    <3>1. h \in 1 .. m
      BY <1>11, <2>1
    <3>2. StartOf(all[h]) <= StartOf(all[i]) /\ EndOf(all[h]) <= EndOf(all[i])
      BY <1>11, <2>1, <3>1 DEF Parts
    <3> QED
      BY <1>4, <2>1, <3>1, <3>2
  <2>2. CASE i = n /\ h = n
    BY <1>2, <1>4, <1>9, <1>10, <2>2
  <2>3. CASE i = n /\ h \in 1 .. m
    <3>1. m \in 1 .. m /\ h <= m
      BY <1>3, <2>3
    <3>2. StartOf(all[h]) <= StartOf(all[m]) /\ EndOf(all[h]) <= EndOf(all[m])
      BY <2>3, <3>1 DEF Parts
    <3>3. EndOf(all[m]) = body[k].of
      BY DEF Parts
    <3>4. new[h] = all[h] /\ new[i] = part
      BY <1>4, <2>3
    <3>5. StartOf(all[h]) \in Nat /\ StartOf(all[m]) \in Nat /\ EndOf(all[h]) \in Nat
      BY <1>6, <2>3, <3>1
    <3>6. StartOf(all[m]) <= StartOf(part) /\ EndOf(all[m]) <= EndOf(part) /\ EndOf(part) \in Nat
      <4>1. StartOf(all[m]) <= StartOf(part)
        OBVIOUS
      <4>2. EndOf(all[m]) <= EndOf(part) /\ EndOf(part) \in Nat
        BY ONLY <1>9, <1>10, <3>3
      <4> QED
        BY ONLY <4>1, <4>2
    <3>7. StartOf(part) \in Nat /\ EndOf(all[m]) \in Nat
      BY <1>2, <1>6, <3>1
    <3> QED
      BY ONLY <3>2, <3>4, <3>5, <3>6, <3>7
  <2> QED
    BY <1>5, <2>1, <2>2, <2>3
<1>12. \A i \in 2 .. n : least <= Length(new[i])
  <2> TAKE i \in 2 .. n
  <2>1. CASE i = n
    BY <1>4, <2>1
  <2>2. CASE i \in 1 .. m
    <3>1. least <= Length(all[i])
      BY <2>2 DEF Parts
    <3> QED
      BY <1>4, <2>2, <3>1
  <2> QED
    BY <1>5, <2>1, <2>2
<1>13. n # 1 /\ EndOf(new[Len(new)]) = body[k + 1].of
  BY <1>3, <1>4, <1>9
<1>14. Parts(new, body, k + 1, least)
  BY <1>4, <1>7, <1>8, <1>11, <1>12, <1>13 DEF Parts
<1> QED
  BY <1>1, <1>14

LEMMA CarriedNone ==
  ASSUME NEW body
  PROVE  Carried(body, 0) = <<>>
BY DEF Carried

LEMMA CarriedHolds ==
  ASSUME NEW body \in Seq(Piece), NEW k \in Nat, k <= Len(body), NEW part, Holding(part, body, k),
         NEW overlap \in Nat
  PROVE  LET carried == Carried(part, overlap)
         IN /\ carried \in Seq(Piece)
            /\ \A q \in 1 .. Len(carried) : \E j \in 1 .. k : PartOf(carried[q], body[j])
            /\ \A q, r \in 1 .. Len(carried) : q < r => carried[q].of < carried[r].of
            /\ Len(carried) > 0 => StartOf(part) <= StartOf(carried)
            /\ Length(carried) = Smaller(overlap, Length(part))
<1>1. /\ part \in Seq(Piece) /\ Len(part) \in Nat \ {0}
      /\ \A q \in 1 .. Len(part) : part[q] \in Piece /\ part[q].size > 0 /\ part[q].of \in Nat
  BY HoldingSizes
<1>2. CASE overlap = 0
  <2>1. Carried(part, overlap) = <<>> /\ Length(Carried(part, overlap)) = 0
    BY <1>2, CarriedNone, LengthEmpty
  <2>2. Smaller(overlap, Length(part)) = 0
    BY <1>1, <1>2, LengthInNat DEF Smaller
  <2> QED
    BY <2>1, <2>2
<1>3. CASE overlap # 0
  <2>1. PICK carried : carried = Carried(part, overlap)
    OBVIOUS
  <2>2. part # <<>> /\ \A q \in 1 .. Len(part) : part[q].size > 0
    BY <1>1
  <2>3. /\ carried \in Seq(Piece)
        /\ Length(carried) = Smaller(overlap, Length(part))
        /\ \E first \in 1 .. Len(part) :
              /\ Len(carried) = Len(part) - first + 1
              /\ \A q \in 1 .. Len(carried) : PartOf(carried[q], part[first + q - 1])
    BY <1>1, <1>3, <2>1, <2>2, CarriedParts
  <2>4. PICK first \in 1 .. Len(part) :
              /\ Len(carried) = Len(part) - first + 1
              /\ \A q \in 1 .. Len(carried) : PartOf(carried[q], part[first + q - 1])
    BY <2>3
  <2>5. \A q \in 1 .. Len(carried) :
           /\ first + q - 1 \in 1 .. Len(part)
           /\ carried[q].of = part[first + q - 1].of
    BY <1>1, <2>4 DEF PartOf
  <2>6. \A q \in 1 .. Len(carried) : \E j \in 1 .. k : PartOf(carried[q], body[j])
    <3> TAKE q \in 1 .. Len(carried)
    <3>1. PICK j \in 1 .. k : PartOf(part[first + q - 1], body[j])
      BY <2>5 DEF Holding
    <3>2. body[j] \in Piece
      <4>1. j \in 1 .. Len(body)
        OBVIOUS
      <4> QED
        BY <4>1
    <3>3. PartOf(carried[q], body[j])
      BY <2>4, <3>1, <3>2, PartOfPart
    <3> QED
      BY <3>3
  <2>7. \A q, r \in 1 .. Len(carried) : q < r => carried[q].of < carried[r].of
    <3> TAKE q, r \in 1 .. Len(carried)
    <3> HAVE q < r
    <3>1. PICK qq \in 1 .. Len(part) : qq = first + q - 1 /\ carried[q].of = part[qq].of
      BY <2>5
    <3>2. PICK rr \in 1 .. Len(part) : rr = first + r - 1 /\ carried[r].of = part[rr].of
      BY <2>5
    <3>3. qq < rr
      BY <3>1, <3>2
    <3>4. part[qq].of < part[rr].of
      BY ONLY <3>3, Holding(part, body, k), qq \in 1 .. Len(part), rr \in 1 .. Len(part) DEF Holding
    <3> QED
      BY <3>1, <3>2, <3>4
  <2>8. Len(carried) > 0 => StartOf(part) <= StartOf(carried)
    <3> HAVE Len(carried) > 0
    <3>1. 1 \in 1 .. Len(carried) /\ 1 \in 1 .. Len(part)
      BY <1>1, <2>3
    <3>2. carried[1].of = part[first].of
      <4>1. first + 1 - 1 = first
        OBVIOUS
      <4> QED
        BY <2>5, <3>1, <4>1
    <3>3. part[1].of <= part[first].of
      <4>1. CASE first = 1
        BY <1>1, <3>1, <4>1
      <4>2. CASE 1 < first
        <5>1. part[1].of < part[first].of
          BY ONLY <4>2, <3>1, Holding(part, body, k), first \in 1 .. Len(part) DEF Holding
        <5> QED
          BY <1>1, <3>1, <5>1
      <4> QED
        BY <4>1, <4>2
    <3> QED
      BY <3>2, <3>3 DEF StartOf
  <2> QED
    BY <2>1, <2>3, <2>6, <2>7, <2>8
<1> QED
  BY <1>2, <1>3

Solid == {p \in Piece : p.size > 0}
SolidBody == Seq(Solid)

LEMMA SolidBodies ==
  ASSUME NEW body \in SolidBody
  PROVE  /\ body \in Seq(Piece) /\ body \in Body
         /\ \A k \in 1 .. Len(body) : body[k] \in Piece /\ body[k].size > 0
<1>1. body \in Seq(Solid) /\ \A k \in 1 .. Len(body) : body[k] \in Solid
  BY DEF SolidBody
<1>2. Solid \subseteq Piece
  BY DEF Solid
<1>3. body \in Seq(Piece)
  BY <1>1, <1>2
<1> QED
  BY <1>1, <1>3 DEF Solid, Body

LEMMA CarriedSolid ==
  ASSUME NEW body \in SolidBody, body # <<>>, NEW overlap \in Nat
  PROVE  Carried(body, overlap) \in SolidBody
<1>1. CASE overlap = 0
  <2>1. Carried(body, overlap) = <<>>
    BY <1>1, CarriedNone
  <2>2. <<>> \in SolidBody
    BY DEF SolidBody
  <2> QED
    BY <2>1, <2>2
<1>2. CASE overlap # 0
  <2>1. PICK carried : carried = Carried(body, overlap)
    OBVIOUS
  <2>2. /\ carried \in Seq(Piece)
        /\ \E first \in 1 .. Len(body) :
              \A q \in 1 .. Len(carried) : PartOf(carried[q], body[first + q - 1])
    BY <1>2, <2>1, SolidBodies, CarriedParts
  <2>3. \A q \in 1 .. Len(carried) : carried[q] \in Solid
    BY <2>2 DEF PartOf, Solid
  <2> QED
    BY <2>1, <2>2, <2>3 DEF SolidBody
<1> QED
  BY <1>1, <1>2

\* What _recursive_split has done with the first k texts.
Done == [parts : Seq(SolidBody), current : SolidBody]

\* One step of the fold that Gathered is.
Taken(done, piece, size, overlap) ==
  IF done.current # <<>> /\ Length(done.current) + piece.size > size
    THEN [parts   |-> Append(done.parts, done.current),
          current |-> Append(Carried(done.current, overlap), piece)]
    ELSE [done EXCEPT !.current = Append(@, piece)]

Gathering(f, body, size, overlap) ==
  /\ f \in [0 .. Len(body) -> Done]
  /\ f[0] = [parts |-> <<>>, current |-> <<>>]
  /\ \A k \in 1 .. Len(body) : f[k] = Taken(f[k - 1], body[k], size, overlap)
  /\ Gathered(body, size, overlap) = Append(f[Len(body)].parts, f[Len(body)].current)

LEMMA TakenDone ==
  ASSUME NEW done \in Done, NEW piece \in Solid, NEW size \in Nat, NEW overlap \in Nat
  PROVE  Taken(done, piece, size, overlap) \in Done
<1>1. done.parts \in Seq(SolidBody) /\ done.current \in SolidBody
  BY DEF Done
<1>2. CASE done.current # <<>> /\ Length(done.current) + piece.size > size
  <2>1. PICK carried : carried = Carried(done.current, overlap)
    OBVIOUS
  <2>2. carried \in SolidBody
    BY <1>1, <1>2, <2>1, CarriedSolid
  <2>3. Append(carried, piece) \in SolidBody
    BY <2>2, AppendProperties DEF SolidBody
  <2>4. Append(done.parts, done.current) \in Seq(SolidBody)
    BY <1>1, AppendProperties
  <2> QED
    BY <1>2, <2>1, <2>3, <2>4 DEF Taken, Done
<1>3. CASE ~(done.current # <<>> /\ Length(done.current) + piece.size > size)
  <2>1. PICK new : new = Append(done.current, piece)
    OBVIOUS
  <2>2. new \in SolidBody
    BY <1>1, <2>1, AppendProperties DEF SolidBody
  <2>3. Taken(done, piece, size, overlap) = [done EXCEPT !.current = new]
    BY <1>3, <2>1 DEF Taken, Done
  <2> QED
    BY <2>2, <2>3 DEF Done
<1> QED
  BY <1>2, <1>3

LEMMA GatheredFold ==
  ASSUME NEW body \in SolidBody, NEW size \in Nat, NEW overlap \in Nat
  PROVE  \E f : Gathering(f, body, size, overlap)
<1> DEFINE seq == body
           n == Len(seq)
           base == [parts |-> <<>>, current |-> <<>>]
           op(a, k) == Taken(a, seq[k], size, overlap)
           Eq(iter) == iter = [s \in SUBSET DOMAIN seq |->
                                IF s = {} THEN base ELSE op(iter[s \ {Max(s)}], Max(s))]
           F == [p \in (1 .. n) \X Done |-> op(p[2], p[1])]
           iter == CHOOSE iter : Eq(iter)
<1>1. n \in Nat /\ base \in Done /\ DOMAIN seq = 1 .. n /\ \A k \in 1 .. n : seq[k] \in Solid
  BY DEF Done, SolidBody
<1>2. Gathered(body, size, overlap) = Append(iter[DOMAIN seq].parts, iter[DOMAIN seq].current)
  BY DEF Gathered, FoldLeft, MapThenFoldSet, Taken
<1>3. \A k \in 1 .. n, a \in Done : op(a, k) \in Done
  BY <1>1, TakenDone
<1> HIDE DEF op
<1>4. F \in [(1 .. n) \X Done -> Done] /\ \A k \in 1 .. n, a \in Done : F[<<k, a>>] = op(a, k)
  BY <1>3
<1>5. \A s \in SUBSET (1 .. n) : s # {} => Max(s) \in 1 .. n /\ s \ {Max(s)} \in SUBSET (1 .. n)
  BY <1>1, GreatestOf
<1> HIDE DEF F, n, seq, base
<1>6. \E g : Eq(g)
  <2>1. PICK g : Folding(g, n, Done, base, F)
    BY ONLY <1>1, <1>4, FoldWitness
  <2>2. Eq(g)
    BY ONLY <2>1, <1>1, <1>4, <1>5 DEF Folding
  <2> QED
    BY <2>2
<1>7. Eq(iter)
  BY <1>6
<1> HIDE DEF iter
<1>8. PICK f : Steps(f, n, Done, base, F, iter[1 .. n])
  <2>1. FoldedBy(iter, n, Done, base, F)
    BY ONLY <1>1, <1>4, <1>5, <1>7 DEF FoldedBy
  <2> QED
    BY ONLY <1>1, <1>4, <2>1, FoldSteps
<1>9. \A k \in 1 .. n : f[k] = op(f[k - 1], k)
  <2> TAKE k \in 1 .. n
  <2>1. k - 1 \in 0 .. n
    BY <1>1
  <2>2. f[k - 1] \in Done
    BY ONLY <1>8, <2>1 DEF Steps
  <2>3. f[k] = F[<<k, f[k - 1]>>]
    BY <1>8 DEF Steps
  <2> QED
    BY <1>4, <2>2, <2>3
<1>10. Gathered(body, size, overlap) = Append(f[n].parts, f[n].current)
  BY <1>1, <1>2, <1>8 DEF Steps
<1>11. Gathering(f, body, size, overlap)
  BY <1>8, <1>9, <1>10 DEF Gathering, Steps, n, seq, base, op
<1> QED
  BY <1>11

LEMMA TextsSolid ==
  ASSUME NEW body, Texts(body)
  PROVE  body \in SolidBody /\ Len(body) \in Nat \ {0}
<1>1. \A k \in 1 .. Len(body) : body[k] \in Solid
  BY DEF Texts, Solid
<1>2. body \in Seq(Piece) /\ Len(body) \in Nat \ {0}
  BY DEF Texts
<1> QED
  BY <1>1, <1>2 DEF SolidBody

\* The first text is all there is.
LEMMA PartsOfFirst ==
  ASSUME NEW body, Texts(body), NEW least \in Nat
  PROVE  Parts(<<<<body[1]>>>>, body, 1, least)
<1>1. body \in Seq(Piece) /\ 1 \in 1 .. Len(body)
  BY TextsSolid DEF Texts
<1>2. PICK p \in Piece : p = body[1]
  BY <1>1
<1>3. p.size > 0 /\ p.of \in Nat /\ PartOf(p, p)
  BY <1>1, <1>2, PartOfSelf DEF Texts, Piece
<1>4. PICK part : part = <<p>>
  OBVIOUS
<1>5. part \in Body /\ Len(part) = 1 /\ part[1] = p /\ part # <<>>
  BY <1>4 DEF Body
<1>6. Holding(part, body, 1)
  <2>1. \A q \in 1 .. Len(part) : \E j \in 1 .. 1 : PartOf(part[q], body[j])
    BY <1>2, <1>3, <1>5
  <2>2. \A q, r \in 1 .. Len(part) : q < r => part[q].of < part[r].of
    BY <1>5
  <2> QED
    BY <1>5, <2>1, <2>2 DEF Holding, Body
<1>7. StartOf(part) \in Nat /\ EndOf(part) = p.of /\ EndOf(part) \in Nat
  BY <1>3, <1>5 DEF StartOf, EndOf
<1>8. PICK all : all = <<part>>
  OBVIOUS
<1>9. all \in Seq(Body) /\ Len(all) = 1 /\ all[1] = part /\ all # <<>>
  BY <1>5, <1>8
<1>10. SubSeq(body, 1, 1) = part
  <2>1. PICK s : s = SubSeq(body, 1, 1)
    OBVIOUS
  <2>2. s \in Seq(Piece) /\ Len(s) = 1 /\ s[1] = p
    BY <1>1, <1>2, <2>1
  <2> QED
    BY <1>5, <2>1, <2>2, SeqEqual DEF Body
<1>11. \A j \in 1 .. 1 : \E i \in 1 .. Len(all) : \E q \in 1 .. Len(all[i]) : all[i][q] = body[j]
  BY <1>2, <1>5, <1>9
<1>12. \A i \in 1 .. Len(all) : i = 1
  BY <1>9
<1>13. Parts(all, body, 1, least)
  BY <1>2, <1>6, <1>7, <1>9, <1>10, <1>11, <1>12 DEF Parts
<1> QED
  BY <1>2, <1>4, <1>8, <1>13

LEMMA GatheredParts ==
  ASSUME NEW body, Texts(body), NEW size \in Nat, NEW overlap \in Nat,
         NEW least \in Nat, least <= overlap, least <= size
  PROVE  Parts(Gathered(body, size, overlap), body, Len(body), least)
<1> DEFINE n == Len(body)
<1>1. body \in SolidBody /\ n \in Nat \ {0}
  BY TextsSolid
<1>2. PICK f : Gathering(f, body, size, overlap)
  BY <1>1, GatheredFold
<1>3. /\ \A k \in 0 .. n : f[k] \in Done
      /\ f[0] = [parts |-> <<>>, current |-> <<>>]
      /\ \A k \in 1 .. n : f[k] = Taken(f[k - 1], body[k], size, overlap)
      /\ Gathered(body, size, overlap) = Append(f[n].parts, f[n].current)
  BY <1>2 DEF Gathering
<1> DEFINE Right(k) == Parts(Append(f[k].parts, f[k].current), body, k, least)
<1>4. Right(1)
  <2>1. 1 \in 1 .. n /\ 1 - 1 = 0
    BY <1>1
  <2>2. f[1] = Taken(f[0], body[1], size, overlap)
    BY ONLY <1>3, <2>1
  <2>3. f[1] = [parts |-> <<>>, current |-> <<body[1]>>]
    BY <1>3, <2>2 DEF Taken
  <2>4. Append(f[1].parts, f[1].current) = <<<<body[1]>>>>
    BY <2>3
  <2> QED
    BY <2>4, PartsOfFirst
<1>5. ASSUME NEW k \in 1 .. n, k + 1 \in 1 .. n, Right(k)
      PROVE  Right(k + 1)
  <2>1. k \in 0 .. n /\ (k + 1) - 1 = k /\ k \in Nat
    BY <1>1
  <2>2. f[k] \in Done /\ f[k + 1] = Taken(f[k], body[k + 1], size, overlap)
    BY ONLY <1>3, <1>5, <2>1
  <2>3. PICK done \in Seq(Body), current \in SolidBody : done = f[k].parts /\ current = f[k].current
    <3>1. f[k].parts \in Seq(SolidBody) /\ f[k].current \in SolidBody
      BY <2>2 DEF Done
    <3>2. SolidBody \subseteq Body
      BY SolidBodies
    <3>3. f[k].parts \in Seq(Body)
      BY ONLY <3>1, <3>2
    <3> QED
      BY <3>1, <3>3
  <2>4. current \in Body /\ current \in Seq(Piece)
    BY SolidBodies
  <2>5. PICK all : all = Append(done, current)
    OBVIOUS
  <2>6. /\ all \in Seq(Body) /\ Len(all) = Len(done) + 1 /\ all[Len(all)] = current
        /\ Len(done) \in Nat
    BY <2>4, <2>5, AppendProperties
  <2>7. Parts(all, body, k, least)
    BY <1>5, <2>3, <2>5
  <2>8. Holding(current, body, k) /\ EndOf(current) = body[k].of
    <3>1. Len(all) \in 1 .. Len(all)
      BY <2>6
    <3> QED
      BY <2>6, <2>7, <3>1 DEF Parts
  <2>9. /\ current # <<>> /\ Len(current) \in Nat \ {0} /\ StartOf(current) \in Nat
        /\ Length(current) \in Nat
    BY <2>1, <2>4, <2>8, HoldingSizes, LengthInNat DEF Holding
  <2>10. CASE Length(current) + body[k + 1].size > size
    <3>1. PICK carried : carried = Carried(current, overlap)
      OBVIOUS
    <3>2. /\ carried \in Seq(Piece)
          /\ \A q \in 1 .. Len(carried) : \E j \in 1 .. k : PartOf(carried[q], body[j])
          /\ \A q, r \in 1 .. Len(carried) : q < r => carried[q].of < carried[r].of
          /\ Len(carried) > 0 => StartOf(current) <= StartOf(carried)
          /\ Length(carried) = Smaller(overlap, Length(current))
      BY <1>1, <2>1, <2>8, <3>1, SolidBodies, CarriedHolds
    <3>3. PICK part : part = Append(carried, body[k + 1])
      OBVIOUS
    <3>4. /\ Holding(part, body, k + 1)
          /\ Length(part) = Length(carried) + body[k + 1].size
          /\ Len(part) = Len(carried) + 1 /\ part[Len(part)] = body[k + 1]
          /\ \A q \in 1 .. Len(carried) : part[q] = carried[q]
      BY ONLY <1>5, <2>1, <3>2, <3>3, Texts(body), JoinedPart
    <3>5. body[k + 1].size \in Nat /\ body[k + 1].of \in Nat
      BY <1>1, <1>5, SolidBodies DEF Piece
    <3>6. least <= Length(part)
      <4>1. PICK all1 \in Nat : all1 = Length(current)
        BY ONLY <2>9
      <4>2. PICK more \in Nat : more = body[k + 1].size
        BY ONLY <3>5
      <4>3. PICK tail : tail = Length(carried)
        OBVIOUS
      <4>4. Length(part) = tail + more /\ all1 + more > size
        BY ONLY <2>10, <3>4, <4>1, <4>2, <4>3
      <4>5. tail = IF overlap < all1 THEN overlap ELSE all1
        BY ONLY <3>2, <4>1, <4>3 DEF Smaller
      <4>6. least <= tail + more
        BY ONLY <4>4, <4>5, least \in Nat, least <= overlap, least <= size, size \in Nat,
           overlap \in Nat, all1 \in Nat, more \in Nat
      <4> QED
        BY ONLY <4>4, <4>6
    <3>7. StartOf(current) <= StartOf(part)
      <4>1. Len(carried) \in Nat
        BY <3>2
      <4>2. CASE Len(carried) > 0
        <5>1. 1 \in 1 .. Len(carried)
          BY <4>1, <4>2
        <5> QED
          BY <3>2, <3>4, <4>2, <5>1 DEF StartOf
      <4>3. CASE Len(carried) = 0
        <5>1. StartOf(part) = body[k + 1].of
          BY <3>4, <4>3 DEF StartOf
        <5>2. PICK j \in 1 .. k : PartOf(current[1], body[j])
          BY <2>8, <2>9 DEF Holding
        <5>3. current[1].of = body[j].of
          BY <5>2 DEF PartOf
        <5>4. j \in 1 .. n /\ j < k + 1
          BY <1>1, <1>5
        <5>5. body[j].of < body[k + 1].of
          BY <1>5, <5>4 DEF Texts
        <5>6. body[j].of \in Nat
          BY <1>1, <5>4, SolidBodies DEF Piece
        <5> QED
          BY <3>5, <5>1, <5>3, <5>5, <5>6 DEF StartOf
      <4> QED
        BY <4>1, <4>2, <4>3
    <3>8. Parts(Append(all, part), body, k + 1, least)
      <4>1. k \in 1 .. Len(body) /\ k + 1 \in 1 .. Len(body)
        BY <1>5
      <4>2. StartOf(all[Len(all)]) <= StartOf(part)
        BY <2>6, <3>7
      <4> QED
        BY <2>6, <2>7, <3>4, <3>6, <4>1, <4>2, PartsCarry
    <3>9. f[k + 1] = [parts |-> all, current |-> part]
      BY <2>2, <2>3, <2>5, <2>9, <2>10, <3>1, <3>3 DEF Taken
    <3> QED
      BY <3>8, <3>9
  <2>11. CASE ~(Length(current) + body[k + 1].size > size)
    <3>1. PICK joined : joined = Append(current, body[k + 1])
      OBVIOUS
    <3>2. Parts(Append(done, joined), body, k + 1, least)
      BY <1>5, <2>4, <2>5, <2>7, <3>1, PartsJoin
    <3>3. f[k + 1] = [f[k] EXCEPT !.current = joined]
      BY <2>2, <2>3, <2>11, <3>1 DEF Taken, Done
    <3>4. f[k + 1].parts = done /\ f[k + 1].current = joined
      BY <2>2, <2>3, <3>3 DEF Done
    <3> QED
      BY <3>2, <3>4
  <2> QED
    BY <2>10, <2>11
<1>6. Right(n)
  <2> HIDE DEF Right
  <2> DEFINE P == {k \in 0 .. n : k = 0 \/ Right(k)}
  <2>1. 0 \in P
    BY <1>1
  <2>2. ASSUME NEW k \in 1 .. n, k - 1 \in P PROVE k \in P
    <3>1. CASE k = 1
      BY <1>4, <3>1
    <3>2. CASE k # 1
      <4>1. PICK j \in 1 .. n : j = k - 1
        BY <1>1, <3>2
      <4>2. j + 1 = k /\ j + 1 \in 1 .. n /\ Right(j)
        BY <2>2, <4>1
      <4>3. Right(j + 1)
        BY <1>5, <4>2
      <4> QED
        BY <4>2, <4>3
    <3> QED
      BY <3>1, <3>2
  <2>3. P = 0 .. n
    <3>1. P \in SUBSET (0 .. n) /\ n \in Nat
      BY <1>1
    <3> HIDE DEF P
    <3> QED
      BY <2>1, <2>2, <3>1, UpTo
  <2>4. n \in P /\ n # 0
    BY <1>1, <2>3
  <2> QED
    BY <2>4
<1> QED
  BY <1>3, <1>6

\* What a text becomes that may be cut: parts that follow it, that leave nothing
\* out, and that are long enough where several texts were cut.
Cuts(parts, body, least) ==
  /\ parts \in Seq(Body) /\ parts # <<>>
  /\ \A i \in 1 .. Len(parts) : Holding(parts[i], body, Len(body))
  /\ \A h, i \in 1 .. Len(parts) : h <= i => StartOf(parts[h]) <= StartOf(parts[i])
  /\ \A j \in 1 .. Len(body) : \A offset \in body[j].from .. body[j].from + body[j].size - 1 :
       \E i \in 1 .. Len(parts) : \E q \in 1 .. Len(parts[i]) :
         parts[i][q].of = body[j].of /\ Covers(parts[i][q], offset)
  /\ Len(parts) = 1 => parts[1] = body \/ Len(body) = 1
  /\ Len(body) > 1 => \A i \in 2 .. Len(parts) : least <= Length(parts[i])

LEMMA PartsAreCuts ==
  ASSUME NEW body, Texts(body), NEW least \in Nat, NEW parts, Parts(parts, body, Len(body), least)
  PROVE  Cuts(parts, body, least)
<1>1. body \in SolidBody /\ Len(body) \in Nat \ {0}
  BY TextsSolid
<1>2. Len(parts) = 1 => parts[1] = body
  <2>1. SubSeq(body, 1, Len(body)) = body
    BY <1>1 DEF SolidBody
  <2> QED
    BY <2>1 DEF Parts
<1>3. ASSUME NEW j \in 1 .. Len(body),
             NEW offset \in body[j].from .. body[j].from + body[j].size - 1
      PROVE  \E i \in 1 .. Len(parts) : \E q \in 1 .. Len(parts[i]) :
               parts[i][q].of = body[j].of /\ Covers(parts[i][q], offset)
  <2>1. PICK i \in 1 .. Len(parts) : \E q \in 1 .. Len(parts[i]) : parts[i][q] = body[j]
    BY DEF Parts
  <2>2. PICK q \in 1 .. Len(parts[i]) : parts[i][q] = body[j]
    BY <2>1
  <2>3. body[j].from \in Nat /\ body[j].size \in Nat
    <3>1. body[j] \in Piece
      BY <1>1, SolidBodies
    <3> QED
      BY <3>1 DEF Piece
  <2>4. Covers(body[j], offset)
    BY <2>3 DEF Covers
  <2>5. parts[i][q].of = body[j].of /\ Covers(parts[i][q], offset)
    BY <2>2, <2>4
  <2> QED
    BY <2>5
<1> QED
  BY <1>2, <1>3 DEF Parts, Cuts

LEMMA WholeIsCut ==
  ASSUME NEW body, Texts(body), NEW least \in Nat
  PROVE  Cuts(<<body>>, body, least)
<1>1. body \in SolidBody /\ Len(body) \in Nat \ {0} /\ body \in Body
  BY TextsSolid, SolidBodies
<1>2. PICK parts : parts = <<body>>
  OBVIOUS
<1>3. parts \in Seq(Body) /\ parts # <<>> /\ Len(parts) = 1 /\ parts[1] = body
  BY <1>1, <1>2
<1>4. \A k \in 1 .. Len(body) : body[k] \in Piece /\ body[k].size > 0 /\ PartOf(body[k], body[k])
  BY <1>1, SolidBodies, PartOfSelf
<1>5. Holding(body, body, Len(body))
  BY <1>4 DEF Holding, Texts
<1>6. StartOf(body) \in Nat
  BY <1>1, <1>5, HoldingSizes
<1>7. ASSUME NEW j \in 1 .. Len(body),
             NEW offset \in body[j].from .. body[j].from + body[j].size - 1
      PROVE  \E i \in 1 .. 1 : \E q \in 1 .. Len(parts[i]) :
               parts[i][q].of = body[j].of /\ Covers(parts[i][q], offset)
  <2>1. body[j].from \in Nat /\ body[j].size \in Nat
    BY <1>4 DEF Piece
  <2>2. Covers(body[j], offset)
    BY <2>1 DEF Covers
  <2> QED
    BY <1>3, <2>2
<1>8. \A i \in 1 .. Len(parts) : i = 1
  BY <1>3
<1>9. Cuts(parts, body, least)
  BY <1>3, <1>5, <1>6, <1>7, <1>8 DEF Cuts
<1> QED
  BY <1>2, <1>9

LEMMA RunIsCut ==
  ASSUME NEW body, Texts(body), Len(body) = 1, NEW least \in Nat,
         NEW size \in Nat \ {0}, NEW overlap \in Nat, overlap < size
  PROVE  Cuts(Cut(body[1], size, overlap), body, least)
<1>1. body \in SolidBody
  BY TextsSolid
<1>2. PICK p \in Piece : p = body[1] /\ p.size > 0
  BY <1>1, SolidBodies
<1>3. PICK parts : parts = Cut(p, size, overlap)
  OBVIOUS
<1>4. /\ parts \in Seq(Body) /\ Len(parts) > 0
      /\ \A k \in 1 .. Len(parts) : Len(parts[k]) = 1 /\ PartOf(parts[k][1], p)
      /\ \A offset \in p.from .. p.from + p.size - 1 :
           \E k \in 1 .. Len(parts) : Covers(parts[k][1], offset)
  <2>1. size \in Nat \ {0} /\ overlap \in Nat /\ overlap < size
    OBVIOUS
  <2>2. p \in Piece /\ p.size > 0
    BY <1>2
  <2> QED
    BY ONLY <1>3, <2>1, <2>2, CutParts DEF Body
<1>5. \A k \in 1 .. Len(parts) : Holding(parts[k], body, 1) /\ StartOf(parts[k]) = p.of
  <2> TAKE k \in 1 .. Len(parts)
  <2>1. parts[k] \in Seq(Piece) /\ Len(parts[k]) = 1 /\ PartOf(parts[k][1], p)
    BY <1>4 DEF Body
  <2>2. \A q \in 1 .. Len(parts[k]) : \E j \in 1 .. 1 : PartOf(parts[k][q], body[j])
    BY <1>2, <2>1
  <2>3. \A q, r \in 1 .. Len(parts[k]) : q < r => parts[k][q].of < parts[k][r].of
    BY <2>1
  <2>4. StartOf(parts[k]) = p.of
    BY <2>1 DEF StartOf, PartOf
  <2> QED
    BY <2>1, <2>2, <2>3, <2>4 DEF Holding
<1>6. ASSUME NEW j \in 1 .. Len(body),
             NEW offset \in body[j].from .. body[j].from + body[j].size - 1
      PROVE  \E i \in 1 .. Len(parts) : \E q \in 1 .. Len(parts[i]) :
               parts[i][q].of = body[j].of /\ Covers(parts[i][q], offset)
  <2>1. body[j] = p
    BY <1>2
  <2>2. PICK i \in 1 .. Len(parts) : Covers(parts[i][1], offset)
    BY <1>4, <2>1
  <2>3. 1 \in 1 .. Len(parts[i]) /\ parts[i][1].of = p.of
    BY <1>4 DEF PartOf
  <2> QED
    BY <2>1, <2>2, <2>3
<1>7. p.of \in Nat
  BY DEF Piece
<1>8. parts # <<>>
  BY <1>4
<1>9. \A k \in 1 .. Len(parts) : Holding(parts[k], body, Len(body))
  BY <1>5
<1>10. \A h, i \in 1 .. Len(parts) : h <= i => StartOf(parts[h]) <= StartOf(parts[i])
  BY ONLY <1>5, <1>7
<1>11. Cuts(parts, body, least)
  BY ONLY <1>4, <1>6, <1>8, <1>9, <1>10, Len(body) = 1 DEF Cuts
<1> QED
  BY <1>2, <1>3, <1>11

\* _recursive_split leaves nothing out, ...
LEMMA SplitIsCut ==
  ASSUME NEW body, Texts(body), NEW size \in Nat \ {0}, NEW overlap \in Nat, overlap < size,
         NEW least \in Nat, least <= overlap
  PROVE  Cuts(Split(body, size, overlap), body, least)
<1>1. CASE Length(body) <= size
  BY <1>1, WholeIsCut DEF Split
<1>2. CASE ~(Length(body) <= size) /\ Len(body) = 1
  BY <1>2, RunIsCut DEF Split
<1>3. CASE ~(Length(body) <= size) /\ Len(body) # 1
  <2>1. Parts(Gathered(body, size, overlap), body, Len(body), least)
    BY GatheredParts
  <2>2. Cuts(Gathered(body, size, overlap), body, least)
    BY <2>1, PartsAreCuts
  <2>3. Split(body, size, overlap) = Gathered(body, size, overlap)
    BY <1>3 DEF Split
  <2> QED
    BY <2>2, <2>3
<1> QED
  BY <1>1, <1>2, <1>3

-----------------------------------------------------------------------------
(* Chunks. *)

Chunk == [kind : {"narrative", "table"}, body : Body, page : Nat, section : Seq(Nat),
          clause : BOOLEAN, split : BOOLEAN]

\* els: what was parsed.
Parsed(els) ==
  /\ els \in Seq(Element)
  /\ \A i \in 1 .. Len(els) : RowsFit(els[i])
  /\ \/ \A i \in 1 .. Len(els) : els[i].page = 0
     \/ \A i \in 1 .. Len(els) : els[i].page > 0

LEMMA ParsedElements ==
  ASSUME NEW els, Parsed(els), NEW i \in 1 .. Len(els)
  PROVE  /\ els[i].kind \in Kinds /\ els[i].clause \in BOOLEAN /\ els[i].page \in Nat
         /\ els[i].size \in Nat \ {0} /\ els[i].rows \in Seq(Nat) /\ els[i].section \in Seq(Nat)
         /\ RowsFit(els[i])
<1>1. PICK e \in Element : e = els[i]
  BY DEF Parsed
<1>2. /\ e.kind \in Kinds /\ e.clause \in BOOLEAN /\ e.page \in Nat
      /\ e.size \in Nat \ {0} /\ e.rows \in Seq(Nat) /\ e.section \in Seq(Nat)
  BY DEF Element
<1>3. RowsFit(els[i])
  BY DEF Parsed
<1> QED
  BY <1>1, <1>2, <1>3

\* A chunk holds pieces of the text; a table or a clause comes first if it comes
\* at all, a table comes alone, and the parts of a table have its header.
Sound(els, c) ==
  /\ c \in Chunk /\ c.body # <<>>
  /\ \A p \in 1 .. Len(c.body) :
       /\ c.body[p].of \in 1 .. Len(els) /\ c.body[p].size > 0
       /\ c.body[p].from + c.body[p].size <= els[c.body[p].of].size
       /\ c.kind = "narrative" => els[c.body[p].of].kind # "table"
       /\ c.kind = "table" => c.body[p].of = StartOf(c.body)
       /\ els[c.body[p].of].clause => c.body[p].of = StartOf(c.body)
  /\ c.kind = "table" /\ c.split /\ els[StartOf(c.body)].rows # <<>>
       => c.body[1].from = 0 /\ Len(c.body) > 1

\* p is the first of the texts of body with real content, or the first of all.
FirstReal(els, body, p) ==
  /\ \A q \in 1 .. p - 1 : els[body[q].of].size <= Stray
  /\ \/ els[body[p].of].size > Stray
     \/ p = 1 /\ \A q \in 1 .. Len(body) : els[body[q].of].size <= Stray

Cited(els, c) ==
  \E p \in 1 .. Len(c.body) : FirstReal(els, c.body, p) /\ c.page = els[c.body[p].of].page

\* Text is gathered: it follows the document, has no table, and a clause comes first.
Gatherable(els, held) ==
  /\ held \in Seq(Nat) /\ held # <<>>
  /\ \A k \in 1 .. Len(held) :
       /\ held[k] \in 1 .. Len(els)
       /\ els[held[k]].kind \notin {"table", "header_footer"}
       /\ els[held[k]].clause => k = 1
  /\ \A j, k \in 1 .. Len(held) : j < k => held[j] < held[k]

WholeOf(held) == [k \in DOMAIN held |-> Whole(held[k])]

LEMMA WholeTexts ==
  ASSUME Parsed(elements), NEW held, Gatherable(elements, held)
  PROVE  /\ Texts(WholeOf(held)) /\ Len(WholeOf(held)) = Len(held)
         /\ \A k \in 1 .. Len(held) :
              /\ WholeOf(held)[k].of = held[k] /\ WholeOf(held)[k].from = 0
              /\ WholeOf(held)[k].size = elements[held[k]].size
<1>1. DOMAIN held = 1 .. Len(held) /\ Len(held) \in Nat \ {0}
  BY DEF Gatherable
<1>2. \A i \in 1 .. Len(elements) : elements[i].size \in Nat \ {0}
  BY ParsedElements
<1>3. \A k \in 1 .. Len(held) : /\ Whole(held[k]) \in Piece /\ Whole(held[k]).size > 0
                                /\ Whole(held[k]).of = held[k] /\ Whole(held[k]).from = 0
                                /\ Whole(held[k]).size = elements[held[k]].size
  BY <1>2 DEF Whole, Piece, Gatherable
<1>4. PICK w : w = WholeOf(held)
  OBVIOUS
<1>5. w \in [1 .. Len(held) -> Piece] /\ \A k \in 1 .. Len(held) : w[k] = Whole(held[k])
  BY <1>1, <1>3, <1>4 DEF WholeOf
<1>6. w \in Seq(Piece) /\ Len(w) = Len(held) /\ w # <<>>
  BY <1>1, <1>5
<1>7. \A j, k \in 1 .. Len(w) : j < k => w[j].of < w[k].of
  BY <1>3, <1>5, <1>6 DEF Gatherable
<1>8. Texts(w)
  BY <1>3, <1>5, <1>6, <1>7 DEF Texts
<1> QED
  BY <1>3, <1>4, <1>5, <1>6, <1>8

LEMMA FirstRealExists ==
  ASSUME NEW els, Parsed(els), NEW body \in Seq(Piece), body # <<>>,
         \A p \in 1 .. Len(body) : body[p].of \in 1 .. Len(els)
  PROVE  \E p \in 1 .. Len(body) : FirstReal(els, body, p)
<1> DEFINE real == {p \in Nat : p \in 1 .. Len(body) /\ els[body[p].of].size > Stray}
<1>1. \A p \in 1 .. Len(body) : els[body[p].of].size \in Nat
  BY ParsedElements
<1>2. Stray \in Nat /\ Len(body) \in Nat \ {0}
  BY ChunkingAssumption
<1>3. CASE real = {}
  <2>1. \A p \in 1 .. Len(body) : els[body[p].of].size <= Stray
    <3> TAKE p \in 1 .. Len(body)
    <3>1. p \notin real /\ p \in Nat
      BY <1>2, <1>3
    <3> QED
      BY <1>1, <1>2, <3>1
  <2>2. 1 \in 1 .. Len(body) /\ 1 .. 1 - 1 = {}
    BY <1>2
  <2>3. FirstReal(els, body, 1)
    BY <2>1, <2>2 DEF FirstReal
  <2> QED
    BY <2>2, <2>3
<1>4. CASE real # {}
  <2>1. PICK p \in real : \A q \in real : p <= q
    <3>1. real \in SUBSET Nat
      OBVIOUS
    <3> HIDE DEF real
    <3> QED
      BY <1>4, <3>1, Least
  <2>2. \A q \in 1 .. p - 1 : els[body[q].of].size <= Stray
    <3> TAKE q \in 1 .. p - 1
    <3>1. q \in 1 .. Len(body) /\ q \in Nat /\ ~(p <= q)
      BY <1>2, <2>1
    <3>2. q \notin real
      BY <2>1, <3>1
    <3> QED
      BY <1>1, <1>2, <3>1, <3>2
  <2> QED
    BY <2>1, <2>2 DEF FirstReal
<1> QED
  BY <1>3, <1>4

\* One page is the right one if there is one.
LEMMA OnePageCited ==
  ASSUME NEW els, Parsed(els), NEW c, Sound(els, c),
         \A p \in 1 .. Len(c.body) : els[c.body[p].of].page = c.page
  PROVE  Cited(els, c)
<1>1. /\ c.body \in Seq(Piece) /\ c.body # <<>>
      /\ \A p \in 1 .. Len(c.body) : c.body[p].of \in 1 .. Len(els)
  BY DEF Sound, Chunk, Body
<1>2. PICK p \in 1 .. Len(c.body) : FirstReal(els, c.body, p)
  BY <1>1, FirstRealExists
<1> QED
  BY <1>2 DEF Cited

\* The page of the narrative that is emitted is that of its first real content.
LEMMA PageIsFirstReal ==
  ASSUME Parsed(elements), NEW held, Gatherable(elements, held)
  PROVE  /\ Page(held) \in Nat
         /\ \E p \in 1 .. Len(held) :
              FirstReal(elements, WholeOf(held), p) /\ Page(held) = elements[held[p]].page
<1> DEFINE real == {k \in DOMAIN held : elements[held[k]].page # 0 /\ elements[held[k]].size > Stray}
           n == Len(held)
           w == WholeOf(held)
<1>1. /\ n \in Nat \ {0} /\ DOMAIN held = 1 .. n
      /\ \A k \in 1 .. n : /\ held[k] \in 1 .. Len(elements)
                            /\ elements[held[k]].page \in Nat /\ elements[held[k]].size \in Nat
  BY ParsedElements DEF Gatherable
<1>2. /\ w \in Seq(Piece) /\ Len(w) = n /\ w # <<>>
      /\ \A k \in 1 .. n : w[k].of = held[k] /\ w[k].of \in 1 .. Len(elements)
  BY <1>1, WholeTexts DEF Texts
<1>3. Stray \in Nat
  BY ChunkingAssumption
<1>4. PICK first : /\ real = {} => first = 1
                   /\ real # {} => first = Min(real)
                   /\ Page(held) = elements[held[first]].page
  <2>1. PICK first : first = IF real = {} THEN 1 ELSE Min(real)
    OBVIOUS
  <2>2. Page(held) = elements[held[first]].page
    BY <2>1 DEF Page
  <2> HIDE DEF real
  <2> QED
    BY <2>1, <2>2
<1>5. CASE real = {}
  <2>1. Page(held) = elements[held[1]].page /\ 1 \in 1 .. n
    <3> HIDE DEF real
    <3>1. first = 1
      BY ONLY <1>4, <1>5
    <3> QED
      BY <1>1, <1>4, <3>1
  <2>2. PICK p \in 1 .. n : FirstReal(elements, w, p)
    <3> HIDE DEF w
    <3> QED
      BY <1>2, FirstRealExists
  <2>3. CASE \A i \in 1 .. Len(elements) : elements[i].page = 0
    <3>1. Page(held) = elements[held[p]].page
      BY <1>1, <2>1, <2>3
    <3> QED
      BY <1>1, <2>1, <2>2, <3>1
  <2>4. CASE \A i \in 1 .. Len(elements) : elements[i].page > 0
    <3>1. ~(elements[held[p]].size > Stray)
      <4>1. p \notin real
        BY <1>5
      <4>2. p \in DOMAIN held /\ elements[held[p]].page # 0
        BY <1>1, <2>4
      <4> QED
        BY <4>1, <4>2
    <3>2. p = 1
      BY <1>2, <2>2, <3>1 DEF FirstReal
    <3> QED
      BY <1>1, <2>1, <2>2, <3>2
  <2> QED
    BY <2>3, <2>4 DEF Parsed
<1>6. CASE real # {}
  <2>1. real \in SUBSET Nat
    BY <1>1
  <2>2. Min(real) \in real /\ \A k \in real : Min(real) <= k
    <3> HIDE DEF real
    <3>1. \E x \in real : \A y \in real : x <= y
      BY <1>6, <2>1, Least
    <3> QED
      BY <3>1 DEF Min
  <2>3. PICK p \in 1 .. n : p = Min(real) /\ elements[held[p]].page # 0 /\ elements[held[p]].size > Stray
    BY <1>1, <2>2
  <2>4. Page(held) = elements[held[p]].page
    <3> HIDE DEF real
    <3> QED
      BY ONLY <1>4, <1>6, <2>3
  <2>5. \A i \in 1 .. Len(elements) : elements[i].page > 0
    BY <1>1, <2>3 DEF Parsed
  <2>6. \A q \in 1 .. p - 1 : elements[w[q].of].size <= Stray
    <3> TAKE q \in 1 .. p - 1
    <3>1. q \in 1 .. n /\ ~(p <= q)
      BY <1>1
    <3>2. q \notin real
      BY <2>2, <2>3, <3>1
    <3>3. elements[held[q]].page # 0
      BY <1>1, <2>5, <3>1
    <3> QED
      BY <1>1, <1>2, <1>3, <3>1, <3>2, <3>3
  <2>7. FirstReal(elements, w, p)
    BY <1>2, <2>3, <2>6 DEF FirstReal
  <2> QED
    BY <1>1, <2>3, <2>4, <2>7
<1> QED
  BY <1>5, <1>6

\* Whole text i is in some chunk.
Kept(els, cs, i) ==
  \A offset \in 0 .. els[i].size - 1 : \E k \in 1 .. Len(cs) : Holds(cs[k], i, offset)

Between(cs, lo, hi) ==
  \A k \in 1 .. Len(cs) : \A p \in 1 .. Len(cs[k].body) :
    lo <= cs[k].body[p].of /\ cs[k].body[p].of <= hi

Long(c) == MinChunk <= Length(c.body)

\* A clause that goes on in a chunk stood first in the chunk before.
Continues(els, cs, k) ==
  \A p \in 1 .. Len(cs[k].body) :
    cs[k].kind = "narrative" /\ els[cs[k].body[p].of].clause /\ ~cs[k].clause
      => k > 1 /\ StartOf(cs[k - 1].body) = cs[k].body[p].of

\* A chunk that is cited at another page than its own is a part, and no short
\* one unless the next part is long.
Attributed(els, cs, k) ==
  /\ ~cs[k].split => Cited(els, cs[k])
  /\ \/ Cited(els, cs[k])
     \/ Long(cs[k])
     \/ k + 1 \in 1 .. Len(cs) /\ cs[k + 1].split /\ Long(cs[k + 1])

\* Chunks that follow the document.
Run(els, cs) ==
  /\ cs \in Seq(Chunk)
  /\ \A k \in 1 .. Len(cs) : Sound(els, cs[k]) /\ Continues(els, cs, k) /\ Attributed(els, cs, k)
  /\ \A k, l \in 1 .. Len(cs) : k <= l => StartOf(cs[k].body) <= EndOf(cs[l].body)

\* The pieces that narrative is cut into.
LEMMA HeldPieces ==
  ASSUME Parsed(elements), NEW held, Gatherable(elements, held),
         NEW part, Holding(part, WholeOf(held), Len(held))
  PROVE  /\ part \in Body /\ part # <<>> /\ Len(part) \in Nat \ {0}
         /\ \A p \in 1 .. Len(part) : \E j \in 1 .. Len(held) :
              /\ part[p].of = held[j] /\ part[p] \in Piece
              /\ part[p].size > 0 /\ part[p].from + part[p].size <= elements[held[j]].size
         /\ \A p \in 1 .. Len(part) : StartOf(part) <= part[p].of /\ part[p].of <= EndOf(part)
<1>1. /\ Texts(WholeOf(held)) /\ Len(WholeOf(held)) = Len(held)
      /\ \A k \in 1 .. Len(held) :
              /\ WholeOf(held)[k].of = held[k] /\ WholeOf(held)[k].from = 0
              /\ WholeOf(held)[k].size = elements[held[k]].size
  BY WholeTexts
<1>2. Len(held) \in Nat
  BY DEF Gatherable
<1>3. /\ part \in Seq(Piece) /\ Len(part) \in Nat \ {0} /\ part # <<>>
      /\ \A q \in 1 .. Len(part) : part[q] \in Piece /\ part[q].size > 0 /\ part[q].of \in Nat
  BY <1>2, HoldingSizes DEF Holding
<1>4. \A p \in 1 .. Len(part) : \E j \in 1 .. Len(held) :
              /\ part[p].of = held[j] /\ part[p] \in Piece
              /\ part[p].size > 0 /\ part[p].from + part[p].size <= elements[held[j]].size
  <2> TAKE p \in 1 .. Len(part)
  <2>1. PICK j \in 1 .. Len(held) : PartOf(part[p], WholeOf(held)[j])
    BY DEF Holding
  <2>2. part[p].from + part[p].size <= 0 + elements[held[j]].size
    BY <1>1, <2>1 DEF PartOf
  <2>3. elements[held[j]].size \in Nat
    BY ParsedElements DEF Gatherable
  <2>4. part[p].of = held[j]
    BY <1>1, <2>1 DEF PartOf
  <2> QED
    BY <1>3, <2>2, <2>3, <2>4
<1>5. \A p \in 1 .. Len(part) : StartOf(part) <= part[p].of /\ part[p].of <= EndOf(part)
  <2> TAKE p \in 1 .. Len(part)
  <2>1. 1 \in 1 .. Len(part) /\ Len(part) \in 1 .. Len(part)
    BY <1>3
  <2>2. part[1].of <= part[p].of
    <3>1. CASE p = 1
      BY <1>3, <2>1, <3>1
    <3>2. CASE 1 < p
      <4>1. part[1].of < part[p].of
        BY <2>1, <3>2 DEF Holding
      <4> QED
        BY <1>3, <2>1, <4>1
    <3> QED
      BY <3>1, <3>2
  <2>3. part[p].of <= part[Len(part)].of
    <3>1. CASE p = Len(part)
      BY <1>3, <2>1, <3>1
    <3>2. CASE p < Len(part)
      <4>1. part[p].of < part[Len(part)].of
        BY <2>1, <3>2 DEF Holding
      <4> QED
        BY <1>3, <2>1, <4>1
    <3> QED
      BY <1>3, <3>1, <3>2
  <2> QED
    BY <2>2, <2>3 DEF StartOf, EndOf
<1> QED
  BY <1>3, <1>4, <1>5 DEF Body

LEMMA Stamped ==
  ASSUME NEW kind, NEW body, NEW first, NEW section, NEW split, NEW page, NEW clause
  PROVE  [[kind |-> kind, body |-> body, page |-> first, section |-> section,
           clause |-> FALSE, split |-> split] EXCEPT !.page = page, !.clause = clause]
           = [kind |-> kind, body |-> body, page |-> page, section |-> section,
              clause |-> clause, split |-> split]
<1>1. PICK c : c = [kind |-> kind, body |-> body, page |-> first, section |-> section,
                    clause |-> FALSE, split |-> split]
  OBVIOUS
<1>2. PICK d : d = [c EXCEPT !.page = page]
  OBVIOUS
<1>3. d = [kind |-> kind, body |-> body, page |-> page, section |-> section,
           clause |-> FALSE, split |-> split]
  BY <1>1, <1>2
<1>4. [d EXCEPT !.clause = clause] = [kind |-> kind, body |-> body, page |-> page,
                                      section |-> section, clause |-> clause, split |-> split]
  BY <1>3
<1>5. [c EXCEPT !.page = page, !.clause = clause] = [d EXCEPT !.clause = clause]
  BY <1>2
<1> QED
  BY <1>1, <1>4, <1>5

LEMMA NarrativeChunks ==
  ASSUME Parsed(elements), NEW held, Gatherable(elements, held)
  PROVE  LET parts == Split(WholeOf(held), ChunkSize, Overlap)
             cs == Narrative(held)
         IN /\ Cuts(parts, WholeOf(held), MinChunk)
            /\ Len(cs) = Len(parts) /\ Len(cs) \in Nat \ {0} /\ cs \in Seq(Chunk)
            /\ \A k \in 1 .. Len(cs) :
                 /\ cs[k].kind = "narrative" /\ cs[k].body = parts[k]
                 /\ cs[k].page = Page(held)
                 /\ cs[k].clause = (OpensClause(held) /\ k = 1)
                 /\ cs[k].split = (Len(parts) > 1)
<1>1. /\ Texts(WholeOf(held)) /\ Len(WholeOf(held)) = Len(held)
  BY WholeTexts
<1>2. PICK parts : parts = Split(WholeOf(held), ChunkSize, Overlap)
  OBVIOUS
<1>3. Cuts(parts, WholeOf(held), MinChunk)
  <2>1. /\ ChunkSize \in Nat \ {0} /\ Overlap \in Nat /\ Overlap < ChunkSize
        /\ MinChunk \in Nat /\ MinChunk <= Overlap
    BY ChunkingAssumption, SizesAssumption
  <2> QED
    BY <1>1, <1>2, <2>1, SplitIsCut
<1>4. parts \in Seq(Body) /\ Len(parts) \in Nat \ {0} /\ DOMAIN parts = 1 .. Len(parts)
  BY <1>3 DEF Cuts
<1>5. 1 \in 1 .. Len(held) /\ held[1] \in 1 .. Len(elements)
  BY DEF Gatherable
<1>6. /\ OpensClause(held) \in BOOLEAN /\ elements[held[1]].section \in Seq(Nat)
      /\ elements[held[1]].page \in Nat
  BY <1>5, ParsedElements DEF OpensClause
<1>7. Page(held) \in Nat
  BY PageIsFirstReal
<1> DEFINE chunk(k) == [kind |-> "narrative", body |-> parts[k], page |-> Page(held),
                        section |-> elements[held[1]].section,
                        clause |-> OpensClause(held) /\ k = 1,
                        split |-> Len(parts) > 1]
<1>8. Narrative(held) = [k \in 1 .. Len(parts) |-> chunk(k)]
  <2> DEFINE made(k) == [NewChunk("narrative", held[1], parts[k], Len(parts) > 1) EXCEPT
                          !.page = Page(held), !.clause = OpensClause(held) /\ k = 1]
  <2>1. Narrative(held) = [k \in 1 .. Len(parts) |-> made(k)]
    BY <1>2, <1>4 DEF Narrative, WholeOf
  <2>2. ASSUME NEW k \in 1 .. Len(parts)
        PROVE  made(k) = chunk(k)
    <3>1. PICK split : split = (Len(parts) > 1)
      OBVIOUS
    <3>2. PICK clause : clause = (OpensClause(held) /\ k = 1)
      OBVIOUS
    <3>3. made(k) = [NewChunk("narrative", held[1], parts[k], split) EXCEPT
                      !.page = Page(held), !.clause = clause]
      BY <3>1, <3>2, Zenon
    <3>4. chunk(k) = [kind |-> "narrative", body |-> parts[k], page |-> Page(held),
                      section |-> elements[held[1]].section, clause |-> clause, split |-> split]
      BY <3>1, <3>2, Zenon
    <3> HIDE DEF made, chunk
    <3> QED
      BY ONLY <3>3, <3>4, Stamped DEF NewChunk
  <2> HIDE DEF made, chunk
  <2> QED
    BY <2>1, <2>2
<1>9. \A k \in 1 .. Len(parts) : chunk(k) \in Chunk
  <2> TAKE k \in 1 .. Len(parts)
  <2>1. parts[k] \in Body
    BY <1>4
  <2>2. (OpensClause(held) /\ k = 1) \in BOOLEAN /\ (Len(parts) > 1) \in BOOLEAN
    OBVIOUS
  <2> QED
    BY <1>6, <1>7, <2>1, <2>2 DEF Chunk
<1>10. PICK cs : cs = Narrative(held)
  OBVIOUS
<1>11. cs \in Seq(Chunk) /\ Len(cs) = Len(parts) /\ \A k \in 1 .. Len(parts) : cs[k] = chunk(k)
  <2> HIDE DEF chunk
  <2> QED
    BY <1>4, <1>8, <1>9, <1>10
<1>12. /\ Len(cs) = Len(parts) /\ Len(cs) \in Nat \ {0} /\ cs \in Seq(Chunk)
       /\ \A k \in 1 .. Len(cs) :
            /\ cs[k].kind = "narrative" /\ cs[k].body = parts[k]
            /\ cs[k].page = Page(held)
            /\ cs[k].clause = (OpensClause(held) /\ k = 1)
            /\ cs[k].split = (Len(parts) > 1)
  <2>1. ASSUME NEW k \in 1 .. Len(cs)
        PROVE  /\ cs[k].kind = "narrative" /\ cs[k].body = parts[k]
               /\ cs[k].page = Page(held)
               /\ cs[k].clause = (OpensClause(held) /\ k = 1)
               /\ cs[k].split = (Len(parts) > 1)
    <3>1. cs[k] = chunk(k)
      BY <1>11
    <3>2. PICK split : split = (Len(parts) > 1)
      OBVIOUS
    <3>3. PICK clause : clause = (OpensClause(held) /\ k = 1)
      OBVIOUS
    <3>4. cs[k] = [kind |-> "narrative", body |-> parts[k], page |-> Page(held),
                   section |-> elements[held[1]].section, clause |-> clause, split |-> split]
      BY <3>1, <3>2, <3>3, Zenon
    <3>5. /\ cs[k].kind = "narrative" /\ cs[k].body = parts[k] /\ cs[k].page = Page(held)
          /\ cs[k].clause = clause /\ cs[k].split = split
      BY ONLY <3>4
    <3> QED
      BY <3>2, <3>3, <3>5, Zenon
  <2> HIDE DEF chunk
  <2> QED
    BY <1>4, <1>11, <2>1
<1> HIDE DEF chunk
<1> QED
  BY <1>2, <1>3, <1>10, <1>12

LEMMA HeldBounds ==
  ASSUME NEW els, NEW held, Gatherable(els, held)
  PROVE  /\ Len(held) \in Nat \ {0} /\ 1 \in 1 .. Len(held) /\ Len(held) \in 1 .. Len(held)
         /\ \A j \in 1 .. Len(held) : /\ held[j] \in Nat /\ held[1] <= held[j]
                                      /\ held[j] <= held[Len(held)]
<1>1. /\ Len(held) \in Nat \ {0} /\ 1 \in 1 .. Len(held) /\ Len(held) \in 1 .. Len(held)
      /\ \A j \in 1 .. Len(held) : held[j] \in Nat
  BY DEF Gatherable
<1>2. ASSUME NEW j \in 1 .. Len(held)
      PROVE  held[1] <= held[j] /\ held[j] <= held[Len(held)]
  <2>1. 1 < j => held[1] < held[j]
    BY <1>1 DEF Gatherable
  <2>2. j < Len(held) => held[j] < held[Len(held)]
    BY <1>1 DEF Gatherable
  <2> QED
    BY <1>1, <2>1, <2>2
<1> QED
  BY <1>1, <1>2

\* _emit_narrative: the chunks follow the text that was gathered, and keep it.
LEMMA NarrativeRun ==
  ASSUME Parsed(elements), NEW held, Gatherable(elements, held)
  PROVE  /\ Run(elements, Narrative(held))
         /\ Between(Narrative(held), held[1], held[Len(held)])
         /\ \A j \in 1 .. Len(held) : Kept(elements, Narrative(held), held[j])
<1>1. PICK parts : parts = Split(WholeOf(held), ChunkSize, Overlap)
  OBVIOUS
<1>2. PICK cs : cs = Narrative(held)
  OBVIOUS
<1>3. /\ Cuts(parts, WholeOf(held), MinChunk)
      /\ Len(cs) = Len(parts) /\ Len(cs) \in Nat \ {0} /\ cs \in Seq(Chunk)
      /\ \A k \in 1 .. Len(cs) :
           /\ cs[k].kind = "narrative" /\ cs[k].body = parts[k]
           /\ cs[k].page = Page(held)
           /\ cs[k].clause = (OpensClause(held) /\ k = 1)
           /\ cs[k].split = (Len(parts) > 1)
  BY <1>1, <1>2, NarrativeChunks
<1>4. /\ Texts(WholeOf(held)) /\ Len(WholeOf(held)) = Len(held)
      /\ \A k \in 1 .. Len(held) :
              /\ WholeOf(held)[k].of = held[k] /\ WholeOf(held)[k].from = 0
              /\ WholeOf(held)[k].size = elements[held[k]].size
  BY WholeTexts
<1>5. /\ Len(held) \in Nat \ {0} /\ 1 \in 1 .. Len(held) /\ Len(held) \in 1 .. Len(held)
      /\ \A j \in 1 .. Len(held) : /\ held[j] \in Nat /\ held[1] <= held[j]
                                   /\ held[j] <= held[Len(held)]
  BY HeldBounds
<1>6. ASSUME NEW k \in 1 .. Len(cs)
      PROVE  /\ cs[k] \in Chunk /\ cs[k].kind = "narrative" /\ cs[k].body = parts[k]
             /\ cs[k].body \in Body /\ cs[k].body # <<>> /\ Len(cs[k].body) \in Nat \ {0}
             /\ \A p \in 1 .. Len(cs[k].body) : \E j \in 1 .. Len(held) :
                  /\ cs[k].body[p].of = held[j] /\ cs[k].body[p] \in Piece
                  /\ cs[k].body[p].size > 0
                  /\ cs[k].body[p].from + cs[k].body[p].size <= elements[held[j]].size
             /\ \A p \in 1 .. Len(cs[k].body) : /\ StartOf(cs[k].body) <= cs[k].body[p].of
                                                /\ cs[k].body[p].of <= EndOf(cs[k].body)
             /\ held[1] <= StartOf(cs[k].body) /\ StartOf(cs[k].body) \in Nat
             /\ StartOf(cs[k].body) <= EndOf(cs[k].body) /\ EndOf(cs[k].body) \in Nat
  <2>1. PICK part : part = cs[k].body
    OBVIOUS
  <2>2. cs[k] \in Chunk /\ cs[k].kind = "narrative" /\ cs[k].body = parts[k]
    BY <1>3
  <2>3. Holding(part, WholeOf(held), Len(held))
    BY <1>3, <1>4, <2>1 DEF Cuts
  <2>4. /\ part \in Body /\ part # <<>> /\ Len(part) \in Nat \ {0}
        /\ \A p \in 1 .. Len(part) : \E j \in 1 .. Len(held) :
              /\ part[p].of = held[j] /\ part[p] \in Piece
              /\ part[p].size > 0 /\ part[p].from + part[p].size <= elements[held[j]].size
        /\ \A p \in 1 .. Len(part) : StartOf(part) <= part[p].of /\ part[p].of <= EndOf(part)
    BY <2>3, HeldPieces
  <2>5. 1 \in 1 .. Len(part) /\ Len(part) \in 1 .. Len(part)
    BY <2>4
  <2>6. /\ StartOf(part) \in Nat /\ EndOf(part) \in Nat
        /\ held[1] <= StartOf(part) /\ StartOf(part) <= EndOf(part)
    BY <1>5, <2>4, <2>5 DEF StartOf, EndOf
  <2> QED
    BY <2>1, <2>2, <2>4, <2>6
<1>7. ASSUME NEW k \in 1 .. Len(cs), NEW p \in 1 .. Len(cs[k].body),
             elements[cs[k].body[p].of].clause
      PROVE  /\ cs[k].body[p].of = held[1] /\ StartOf(cs[k].body) = held[1]
             /\ elements[held[1]].clause
  <2>1. PICK j \in 1 .. Len(held) : cs[k].body[p].of = held[j]
    BY <1>6
  <2>2. elements[held[j]].clause
    BY <1>7, <2>1
  <2>3. j = 1
    BY <2>2 DEF Gatherable
  <2> QED
    BY <1>5, <1>6, <2>1, <2>2, <2>3
<1>8. \A k \in 1 .. Len(cs) : Sound(elements, cs[k])
  <2> TAKE k \in 1 .. Len(cs)
  <2>1. ASSUME NEW p \in 1 .. Len(cs[k].body)
        PROVE  /\ cs[k].body[p].of \in 1 .. Len(elements) /\ cs[k].body[p].size > 0
               /\ cs[k].body[p].from + cs[k].body[p].size <= elements[cs[k].body[p].of].size
               /\ elements[cs[k].body[p].of].kind # "table"
    <3>1. PICK j \in 1 .. Len(held) :
                  /\ cs[k].body[p].of = held[j]
                  /\ cs[k].body[p].size > 0
                  /\ cs[k].body[p].from + cs[k].body[p].size <= elements[held[j]].size
      BY <1>6
    <3>2. held[j] \in 1 .. Len(elements) /\ elements[held[j]].kind # "table"
      BY DEF Gatherable
    <3> QED
      BY <3>1, <3>2
  <2>2. cs[k].kind = "narrative" /\ cs[k] \in Chunk /\ cs[k].body # <<>>
    BY <1>6
  <2> QED
    BY <1>7, <2>1, <2>2 DEF Sound
<1>9. \A k, l \in 1 .. Len(cs) : k <= l => StartOf(cs[k].body) <= StartOf(cs[l].body)
  <2> TAKE k, l \in 1 .. Len(cs)
  <2> HAVE k <= l
  <2>1. StartOf(parts[k]) <= StartOf(parts[l])
    BY <1>3 DEF Cuts
  <2> QED
    BY <1>6, <2>1
<1>10. \A k, l \in 1 .. Len(cs) : k <= l => StartOf(cs[k].body) <= EndOf(cs[l].body)
  <2> TAKE k, l \in 1 .. Len(cs)
  <2> HAVE k <= l
  <2>1. StartOf(cs[k].body) <= StartOf(cs[l].body)
    BY <1>9
  <2>2. /\ StartOf(cs[l].body) <= EndOf(cs[l].body) /\ StartOf(cs[k].body) \in Nat
        /\ StartOf(cs[l].body) \in Nat /\ EndOf(cs[l].body) \in Nat
    BY <1>6
  <2> QED
    BY <2>1, <2>2
<1>11. \A k \in 1 .. Len(cs) : Continues(elements, cs, k)
  <2> TAKE k \in 1 .. Len(cs)
  <2>1. ASSUME NEW p \in 1 .. Len(cs[k].body), elements[cs[k].body[p].of].clause, ~cs[k].clause
        PROVE  k > 1 /\ StartOf(cs[k - 1].body) = cs[k].body[p].of
    <3>1. /\ cs[k].body[p].of = held[1] /\ StartOf(cs[k].body) = held[1]
          /\ elements[held[1]].clause
      BY <1>7, <2>1
    <3>2. k # 1
      BY <1>3, <2>1, <3>1 DEF OpensClause
    <3>3. k - 1 \in 1 .. Len(cs) /\ k - 1 <= k /\ k > 1
      BY <1>3, <3>2
    <3>4. StartOf(cs[k - 1].body) <= held[1]
      BY <1>9, <3>1, <3>3
    <3>5. held[1] <= StartOf(cs[k - 1].body) /\ StartOf(cs[k - 1].body) \in Nat
      BY <1>6, <3>3
    <3> QED
      BY <1>5, <3>1, <3>3, <3>4, <3>5
  <2> QED
    BY <2>1 DEF Continues
<1>12. Between(cs, held[1], held[Len(held)])
  BY <1>5, <1>6 DEF Between
<1>13. \A j \in 1 .. Len(held) : Kept(elements, cs, held[j])
  <2> TAKE j \in 1 .. Len(held)
  <2>1. ASSUME NEW offset \in 0 .. elements[held[j]].size - 1
        PROVE  \E k \in 1 .. Len(cs) : Holds(cs[k], held[j], offset)
    <3>1. elements[held[j]].size \in Nat
      BY ParsedElements DEF Gatherable
    <3>2. offset \in WholeOf(held)[j].from .. WholeOf(held)[j].from + WholeOf(held)[j].size - 1
      BY <1>4, <3>1
    <3>3. PICK k \in 1 .. Len(parts) : \E q \in 1 .. Len(parts[k]) :
                 parts[k][q].of = WholeOf(held)[j].of /\ Covers(parts[k][q], offset)
      BY <1>3, <1>4, <3>2 DEF Cuts
    <3>4. PICK q \in 1 .. Len(parts[k]) : parts[k][q].of = held[j] /\ Covers(parts[k][q], offset)
      BY <1>4, <3>3
    <3>5. k \in 1 .. Len(cs) /\ cs[k].body = parts[k] /\ DOMAIN cs[k].body = 1 .. Len(cs[k].body)
      BY <1>3, <1>6 DEF Body
    <3>6. Holds(cs[k], held[j], offset)
      BY <3>4, <3>5 DEF Holds, Covers
    <3> QED
      BY <3>5, <3>6
  <2> QED
    BY <2>1 DEF Kept
<1>14. \A k \in 1 .. Len(cs) : Attributed(elements, cs, k)
  <2>1. PICK first \in 1 .. Len(held) :
          FirstReal(elements, WholeOf(held), first) /\ Page(held) = elements[held[first]].page
    BY PageIsFirstReal
  <2>2. CASE Len(parts) = 1 /\ parts[1] = WholeOf(held)
    <3>1. cs[1].body = WholeOf(held) /\ cs[1].page = Page(held) /\ \A k \in 1 .. Len(cs) : k = 1
      BY <1>3, <2>2
    <3>2. Cited(elements, cs[1])
      BY <1>4, <2>1, <3>1 DEF Cited
    <3> QED
      BY <3>1, <3>2 DEF Attributed
  <2>3. CASE Len(held) = 1
    <3>1. first = 1 /\ \A j \in 1 .. Len(held) : j = 1
      BY <2>3
    <3>2. \A k \in 1 .. Len(cs) : Cited(elements, cs[k])
      <4> TAKE k \in 1 .. Len(cs)
      <4>1. \A p \in 1 .. Len(cs[k].body) : elements[cs[k].body[p].of].page = cs[k].page
        <5> TAKE p \in 1 .. Len(cs[k].body)
        <5>1. PICK j \in 1 .. Len(held) : cs[k].body[p].of = held[j]
          BY <1>6
        <5> QED
          BY <1>3, <2>1, <3>1, <5>1
      <4> QED
        BY <1>8, <4>1, OnePageCited
    <3> QED
      BY <3>2 DEF Attributed
  <2>4. CASE Len(parts) # 1 /\ Len(held) # 1
    <3>1. Len(parts) > 1 /\ Len(held) > 1
      <4>1. PICK a \in Nat \ {0} : a = Len(parts)
        BY ONLY <1>3
      <4>2. PICK b \in Nat \ {0} : b = Len(held)
        BY ONLY <1>5
      <4> QED
        BY ONLY <2>4, <4>1, <4>2, a \in Nat \ {0}, b \in Nat \ {0}
    <3>2. \A k \in 2 .. Len(cs) : Long(cs[k])
      BY <1>3, <1>4, <1>6, <3>1 DEF Cuts, Long
    <3>3. \A k \in 1 .. Len(cs) : cs[k].split
      BY <1>3, <3>1
    <3>4. \A k \in 1 .. Len(cs) : k \in 2 .. Len(cs) \/ k = 1
      BY <1>3
    <3>5. 1 + 1 \in 1 .. Len(cs) /\ 1 + 1 \in 2 .. Len(cs)
      BY <1>3, <3>1
    <3> QED
      BY <3>2, <3>3, <3>4, <3>5 DEF Attributed
  <2> QED
    BY <1>3, <1>4, <2>2, <2>3, <2>4 DEF Cuts
<1>15. Run(elements, cs)
  BY <1>3, <1>8, <1>10, <1>11, <1>14 DEF Run
<1> QED
  BY <1>2, <1>12, <1>13, <1>15

-----------------------------------------------------------------------------
(* Tables. *)

LEMMA RowsBefore ==
  ASSUME NEW rows \in Seq(Nat), NEW k \in 1 .. Len(rows)
  PROVE  /\ Total(SubSeq(rows, 1, k - 1)) \in Nat /\ rows[k] \in Nat
         /\ Total(SubSeq(rows, 1, k)) = Total(SubSeq(rows, 1, k - 1)) + rows[k]
         /\ Total(SubSeq(rows, 1, k)) <= Total(rows)
<1>1. /\ SubSeq(rows, 1, k - 1) \in Seq(Nat) /\ <<rows[k]>> \in Seq(Nat) /\ rows[k] \in Nat
      /\ SubSeq(rows, 1, k) \in Seq(Nat) /\ SubSeq(rows, k + 1, Len(rows)) \in Seq(Nat)
  OBVIOUS
<1>2. SubSeq(rows, 1, k) = SubSeq(rows, 1, k - 1) \o <<rows[k]>>
  OBVIOUS
<1>3. rows = SubSeq(rows, 1, k) \o SubSeq(rows, k + 1, Len(rows))
  OBVIOUS
<1>4. Total(SubSeq(rows, 1, k)) = Total(SubSeq(rows, 1, k - 1)) + rows[k]
  <2>1. Total(<<rows[k]>>) = rows[k]
    BY <1>1, TotalOfOne
  <2>2. Total(SubSeq(rows, 1, k - 1) \o <<rows[k]>>)
          = Total(SubSeq(rows, 1, k - 1)) + Total(<<rows[k]>>)
    BY ONLY <1>1, TotalOfCat
  <2> QED
    BY ONLY <1>2, <2>1, <2>2
<1>5. Total(rows) = Total(SubSeq(rows, 1, k)) + Total(SubSeq(rows, k + 1, Len(rows)))
  <2>1. Total(SubSeq(rows, 1, k) \o SubSeq(rows, k + 1, Len(rows)))
          = Total(SubSeq(rows, 1, k)) + Total(SubSeq(rows, k + 1, Len(rows)))
    BY ONLY <1>1, TotalOfCat
  <2> QED
    BY ONLY <1>3, <2>1
<1>6. /\ Total(SubSeq(rows, 1, k - 1)) \in Nat /\ Total(SubSeq(rows, 1, k)) \in Nat
      /\ Total(SubSeq(rows, k + 1, Len(rows))) \in Nat
  BY ONLY <1>1, TotalInNat
<1> QED
  BY <1>1, <1>4, <1>5, <1>6

\* Each place of a text of rows is in a row.
LEMMA RowAt ==
  ASSUME NEW rows \in Seq(Nat), NEW offset \in Nat, offset < Total(rows)
  PROVE  \E k \in 1 .. Len(rows) : /\ Total(SubSeq(rows, 1, k - 1)) <= offset
                                   /\ offset < Total(SubSeq(rows, 1, k - 1)) + rows[k]
<1> DEFINE upto(k) == Total(SubSeq(rows, 1, k))
           Past == {k \in Nat : k \in 0 .. Len(rows) /\ offset < upto(k)}
<1>1. Len(rows) \in Nat /\ upto(Len(rows)) = Total(rows) /\ upto(0) = 0
  <2>1. SubSeq(rows, 1, Len(rows)) = rows /\ SubSeq(rows, 1, 0) = <<>> /\ Len(rows) \in Nat
    OBVIOUS
  <2>2. upto(0) = 0
    BY ONLY <2>1, TotalEmpty
  <2> QED
    BY ONLY <2>1, <2>2
<1>2. Len(rows) \in Past
  BY <1>1
<1>3. PICK k \in Past : \A j \in Past : k <= j
  <2>1. Past \in SUBSET Nat /\ Past # {}
    BY <1>2
  <2> HIDE DEF Past
  <2> QED
    BY <2>1, Least
<1>4. k # 0
  BY <1>1
<1>5. k \in 1 .. Len(rows) /\ k - 1 \in 0 .. Len(rows) /\ k - 1 \notin Past
  BY <1>1, <1>3, <1>4
<1>6. /\ Total(SubSeq(rows, 1, k - 1)) \in Nat /\ rows[k] \in Nat
      /\ upto(k) = Total(SubSeq(rows, 1, k - 1)) + rows[k]
  BY <1>5, RowsBefore
<1>7. offset < upto(k)
  OBVIOUS
<1>8. ~(offset < Total(SubSeq(rows, 1, k - 1)))
  BY <1>5
<1> QED
  BY <1>5, <1>6, <1>7, <1>8

LEMMA RowPieces ==
  ASSUME Parsed(elements), NEW i \in 1 .. Len(elements), elements[i].rows # <<>>,
         NEW k \in 1 .. Len(elements[i].rows)
  PROVE  /\ Row(i, k) \in Solid /\ Row(i, k).of = i
         /\ Row(i, k).from + Row(i, k).size <= elements[i].size
         /\ k = 1 => Row(i, k).from = 0
<1>1. PICK rows \in Seq(Nat) : rows = elements[i].rows
  BY ParsedElements
<1>2. /\ Total(rows) = elements[i].size /\ rows[k] > 0
  BY <1>1, ParsedElements DEF RowsFit
<1>3. /\ Total(SubSeq(rows, 1, k - 1)) \in Nat /\ rows[k] \in Nat
      /\ Total(SubSeq(rows, 1, k)) = Total(SubSeq(rows, 1, k - 1)) + rows[k]
      /\ Total(SubSeq(rows, 1, k)) <= Total(rows)
  BY <1>1, RowsBefore
<1>4. PICK from \in Nat : from = Total(SubSeq(rows, 1, k - 1))
  BY <1>3
<1>5. Row(i, k) = [of |-> i, from |-> from, size |-> rows[k]]
  BY <1>1, <1>4 DEF Row
<1>6. i \in Nat
  BY DEF Parsed
<1>7. Row(i, k) \in Solid
  BY <1>2, <1>3, <1>5, <1>6 DEF Solid, Piece
<1>8. k = 1 => from = 0
  <2>1. k = 1 => SubSeq(rows, 1, k - 1) = <<>>
    OBVIOUS
  <2> QED
    BY <1>4, <2>1, TotalEmpty
<1> QED
  BY <1>2, <1>3, <1>4, <1>5, <1>7, <1>8

TableRows(i) == {Row(i, k) : k \in 1 .. Len(elements[i].rows)}

\* What is gathered of a table starts with its header; a part has something else too.
Headed(i) == {body \in Seq(TableRows(i)) : Len(body) > 0 /\ body[1] = Row(i, 1)}
TablePart(i) == {body \in Headed(i) : Len(body) > 1}

RowsDone(i) == [parts : Seq(TablePart(i)), current : Headed(i)]

RowTaken(done, i, k) ==
  IF Length(done.current) + elements[i].rows[k] > MaxChunk /\ done.current # <<Row(i, 1)>>
    THEN [parts |-> Append(done.parts, done.current), current |-> Append(<<Row(i, 1)>>, Row(i, k))]
    ELSE [done EXCEPT !.current = Append(@, Row(i, k))]

LEMMA HeadedMore ==
  ASSUME NEW i, elements[i].rows \in Seq(Nat), elements[i].rows # <<>>,
         NEW k \in 1 .. Len(elements[i].rows)
  PROVE  /\ <<Row(i, 1)>> \in Headed(i)
         /\ \A body \in Headed(i) :
              /\ Append(body, Row(i, k)) \in TablePart(i)
              /\ body # <<Row(i, 1)>> => body \in TablePart(i)
<1> DEFINE R == TableRows(i)
<1>1. Row(i, 1) \in R /\ Row(i, k) \in R
  BY DEF TableRows
<1> HIDE DEF R
<1>2. PICK header : header = <<Row(i, 1)>>
  OBVIOUS
<1>3. header \in Seq(R) /\ Len(header) = 1 /\ header[1] = Row(i, 1)
  BY <1>1, <1>2
<1>4. ASSUME NEW body \in Seq(R), Len(body) > 0, body[1] = Row(i, 1)
      PROVE  /\ Append(body, Row(i, k)) \in Seq(R) /\ Len(Append(body, Row(i, k))) > 1
             /\ Append(body, Row(i, k))[1] = Row(i, 1)
             /\ body # header => Len(body) > 1
  <2>1. PICK more : more = Append(body, Row(i, k))
    OBVIOUS
  <2>2. /\ more \in Seq(R) /\ Len(more) = Len(body) + 1 /\ Len(body) \in Nat
        /\ more[1] = body[1]
    BY <1>1, <1>4, <2>1, AppendProperties
  <2>3. body # header => Len(body) > 1
    <3>1. Len(body) = 1 => body = header
      <4> HAVE Len(body) = 1
      <4> QED
        BY <1>3, <1>4, SeqEqual
    <3>2. PICK m \in Nat : m = Len(body) /\ m > 0
      BY <1>4, <2>2
    <3>3. m = 1 \/ m > 1
      BY ONLY <3>2, m \in Nat
    <3> QED
      BY ONLY <3>1, <3>2, <3>3
  <2> QED
    BY <1>4, <2>1, <2>2, <2>3
<1>5. header \in Headed(i)
  <2>1. Len(header) > 0
    BY ONLY <1>3
  <2> QED
    BY <1>3, <2>1 DEF Headed, R
<1>6. ASSUME NEW body \in Headed(i)
      PROVE  /\ Append(body, Row(i, k)) \in TablePart(i)
             /\ body # header => body \in TablePart(i)
  <2>1. body \in Seq(R) /\ Len(body) > 0 /\ body[1] = Row(i, 1)
    BY <1>6 DEF Headed, R
  <2>2. PICK more : more = Append(body, Row(i, k))
    OBVIOUS
  <2>3. /\ more \in Seq(R) /\ Len(more) > 1 /\ more[1] = Row(i, 1)
        /\ body # header => Len(body) > 1
    BY ONLY <1>4, <2>1, <2>2
  <2>4. Len(more) > 0
    BY ONLY <2>3
  <2>5. more \in TablePart(i)
    BY <2>3, <2>4 DEF TablePart, Headed, R
  <2>6. body # header => body \in TablePart(i)
    BY <1>6, <2>3 DEF TablePart
  <2> QED
    BY <2>2, <2>5, <2>6
<1> QED
  BY ONLY <1>2, <1>5, <1>6

LEMMA RowTakenDone ==
  ASSUME NEW i, elements[i].rows \in Seq(Nat), elements[i].rows # <<>>,
         NEW k \in 1 .. Len(elements[i].rows), NEW done \in RowsDone(i)
  PROVE  LET new == RowTaken(done, i, k)
         IN /\ new \in RowsDone(i)
            /\ new.current \in TablePart(i)
            /\ \/ /\ new.parts = Append(done.parts, done.current)
                  /\ new.current = Append(<<Row(i, 1)>>, Row(i, k))
               \/ /\ new.parts = done.parts
                  /\ new.current = Append(done.current, Row(i, k))
<1>1. done.parts \in Seq(TablePart(i)) /\ done.current \in Headed(i)
  BY DEF RowsDone
<1>2. PICK new : new = RowTaken(done, i, k)
  OBVIOUS
<1>3. TablePart(i) \subseteq Headed(i)
  BY DEF TablePart
<1>4. CASE Length(done.current) + elements[i].rows[k] > MaxChunk /\ done.current # <<Row(i, 1)>>
  <2>1. PICK current : current = Append(<<Row(i, 1)>>, Row(i, k))
    OBVIOUS
  <2>2. current \in TablePart(i) /\ done.current \in TablePart(i)
    BY <1>1, <1>4, <2>1, HeadedMore
  <2>3. PICK parts : parts = Append(done.parts, done.current)
    OBVIOUS
  <2>4. parts \in Seq(TablePart(i))
    BY ONLY <1>1, <2>2, <2>3, AppendProperties
  <2>5. new = [parts |-> parts, current |-> current]
    BY <1>2, <1>4, <2>1, <2>3 DEF RowTaken
  <2> QED
    BY <1>2, <1>3, <2>1, <2>2, <2>3, <2>4, <2>5 DEF RowsDone
<1>5. CASE ~(Length(done.current) + elements[i].rows[k] > MaxChunk /\ done.current # <<Row(i, 1)>>)
  <2>1. PICK current : current = Append(done.current, Row(i, k))
    OBVIOUS
  <2>2. current \in TablePart(i)
    BY <1>1, <2>1, HeadedMore
  <2>3. new = [done EXCEPT !.current = current]
    BY <1>2, <1>5, <2>1 DEF RowTaken, RowsDone
  <2>4. new = [parts |-> done.parts, current |-> current]
    BY <2>3 DEF RowsDone
  <2> QED
    BY <1>1, <1>2, <1>3, <2>1, <2>2, <2>4 DEF RowsDone
<1> QED
  BY <1>4, <1>5

Taking(f, i, m) ==
  /\ f \in [0 .. m -> RowsDone(i)]
  /\ f[0] = [parts |-> <<>>, current |-> <<Row(i, 1)>>]
  /\ \A k \in 1 .. m : f[k] = RowTaken(f[k - 1], i, k + 1)
  /\ ByRows(i) = IF f[m].current = <<Row(i, 1)>> THEN f[m].parts
                 ELSE Append(f[m].parts, f[m].current)

LEMMA RowsFold ==
  ASSUME NEW i, elements[i].rows \in Seq(Nat), NEW m \in Nat, Len(elements[i].rows) = m + 1
  PROVE  \E f : Taking(f, i, m)
<1> DEFINE seq == [k \in 1 .. Len(elements[i].rows) - 1 |-> k + 1]
           n == m
           A == RowsDone(i)
           base == [parts |-> <<>>, current |-> <<Row(i, 1)>>]
           op(a, k) == RowTaken(a, i, seq[k])
           Eq(iter) == iter = [s \in SUBSET DOMAIN seq |->
                                IF s = {} THEN base ELSE op(iter[s \ {Max(s)}], Max(s))]
           F == [p \in (1 .. n) \X A |-> op(p[2], p[1])]
           iter == CHOOSE iter : Eq(iter)
<1>1. n \in Nat /\ DOMAIN seq = 1 .. n /\ \A k \in 1 .. n : seq[k] = k + 1
  OBVIOUS
<1>2. elements[i].rows # <<>> /\ 1 \in 1 .. Len(elements[i].rows)
  OBVIOUS
<1>3. base \in A
  <2>1. <<Row(i, 1)>> \in Headed(i)
    BY <1>2, HeadedMore
  <2> QED
    BY <2>1 DEF RowsDone
<1>4. ByRows(i) = IF iter[DOMAIN seq].current = <<Row(i, 1)>> THEN iter[DOMAIN seq].parts
                  ELSE Append(iter[DOMAIN seq].parts, iter[DOMAIN seq].current)
  BY DEF ByRows, FoldLeft, MapThenFoldSet, RowTaken
<1>5. \A k \in 1 .. n, a \in A : op(a, k) \in A
  <2> TAKE k \in 1 .. n, a \in A
  <2>1. k + 1 \in 1 .. Len(elements[i].rows)
    OBVIOUS
  <2>2. RowTaken(a, i, k + 1) \in RowsDone(i)
    BY <1>2, <2>1, RowTakenDone
  <2> QED
    BY <1>1, <2>2
<1> HIDE DEF A, op
<1>6. F \in [(1 .. n) \X A -> A] /\ \A k \in 1 .. n, a \in A : F[<<k, a>>] = op(a, k)
  BY <1>5
<1>7. \A s \in SUBSET (1 .. n) : s # {} => Max(s) \in 1 .. n /\ s \ {Max(s)} \in SUBSET (1 .. n)
  BY <1>1, GreatestOf
<1> HIDE DEF F, n, seq, base
<1>8. \E g : Eq(g)
  <2>1. PICK g : Folding(g, n, A, base, F)
    BY ONLY <1>1, <1>3, <1>6, FoldWitness
  <2>2. Eq(g)
    BY ONLY <2>1, <1>1, <1>6, <1>7 DEF Folding
  <2> QED
    BY <2>2
<1>9. Eq(iter)
  BY <1>8
<1> HIDE DEF iter
<1>10. PICK f : Steps(f, n, A, base, F, iter[1 .. n])
  <2>1. FoldedBy(iter, n, A, base, F)
    BY ONLY <1>1, <1>3, <1>6, <1>7, <1>9 DEF FoldedBy
  <2> QED
    BY ONLY <1>1, <1>3, <1>6, <2>1, FoldSteps
<1>11. \A k \in 1 .. n : f[k] = RowTaken(f[k - 1], i, k + 1)
  <2> TAKE k \in 1 .. n
  <2>1. k - 1 \in 0 .. n
    BY <1>1
  <2>2. f[k - 1] \in A
    BY ONLY <1>10, <2>1 DEF Steps
  <2>3. f[k] = F[<<k, f[k - 1]>>]
    BY <1>10 DEF Steps
  <2>4. f[k] = op(f[k - 1], k)
    BY <1>6, <2>2, <2>3
  <2> QED
    BY <1>1, <2>4 DEF op
<1>12. /\ f \in [0 .. n -> A] /\ f[0] = base /\ f[n] = iter[DOMAIN seq]
  BY <1>1, <1>10 DEF Steps
<1>13. ByRows(i) = IF f[n].current = <<Row(i, 1)>> THEN f[n].parts
                   ELSE Append(f[n].parts, f[n].current)
  BY <1>4, <1>12
<1>14. Taking(f, i, m)
  BY <1>11, <1>12, <1>13 DEF Taking, n, A, base
<1> QED
  BY <1>14

\* _split_table_by_rows: every part has the header and something else, and every
\* row is in a part.
LEMMA ByRowsParts ==
  ASSUME NEW i, elements[i].rows \in Seq(Nat), elements[i].rows # <<>>
  PROVE  /\ ByRows(i) \in Seq(TablePart(i))
         /\ Len(elements[i].rows) > 1 =>
              \A k \in 1 .. Len(elements[i].rows) :
                \E h \in 1 .. Len(ByRows(i)) : \E q \in 1 .. Len(ByRows(i)[h]) :
                  ByRows(i)[h][q] = Row(i, k)
<1>1. PICK m \in Nat : Len(elements[i].rows) = m + 1
  <2>1. PICK n \in Nat \ {0} : n = Len(elements[i].rows)
    OBVIOUS
  <2>2. n - 1 \in Nat /\ n = (n - 1) + 1
    OBVIOUS
  <2> QED
    BY ONLY <2>1, <2>2
<1>2. PICK f : Taking(f, i, m)
  BY <1>1, RowsFold
<1> DEFINE Has(all, k) == \E h \in 1 .. Len(all) : \E q \in 1 .. Len(all[h]) : all[h][q] = Row(i, k)
           all(j) == Append(f[j].parts, f[j].current)
           Right(j) == f[j].current \in TablePart(i) /\ \A k \in 1 .. j + 1 : Has(all(j), k)
<1>3. \A j \in 0 .. m : /\ f[j].parts \in Seq(TablePart(i)) /\ f[j].current \in Headed(i)
                        /\ f[j] \in RowsDone(i)
  <2> TAKE j \in 0 .. m
  <2>1. f[j] \in RowsDone(i)
    BY <1>2 DEF Taking
  <2> QED
    BY <2>1 DEF RowsDone
<1>4. TablePart(i) \subseteq Headed(i) /\ Headed(i) \subseteq Seq(TableRows(i))
  BY DEF TablePart, Headed
<1>5. \A j \in 0 .. m : f[j].parts \in Seq(Headed(i))
  BY ONLY <1>3, <1>4
<1>6. \A j \in 0 .. m :
        /\ Len(all(j)) = Len(f[j].parts) + 1 /\ Len(f[j].parts) \in Nat
        /\ all(j)[Len(f[j].parts) + 1] = f[j].current
        /\ \A h \in 1 .. Len(f[j].parts) : all(j)[h] = f[j].parts[h]
  BY ONLY <1>3, <1>5, AppendProperties
<1>7. \A j \in 0 .. m : \A k :
        (\E q \in 1 .. Len(f[j].current) : f[j].current[q] = Row(i, k)) => Has(all(j), k)
  <2> TAKE j \in 0 .. m
  <2> TAKE k
  <2>1. Len(f[j].parts) + 1 \in 1 .. Len(all(j))
    BY ONLY <1>6, j \in 0 .. m
  <2> HIDE DEF all
  <2> QED
    BY <1>6, <2>1
<1>8. ASSUME NEW j \in 1 .. m,
             f[j - 1].current \in Headed(i), \A k \in 1 .. j : Has(all(j - 1), k)
      PROVE  Right(j)
  <2>1. /\ j - 1 \in 0 .. m /\ j \in 0 .. m /\ j + 1 \in 1 .. Len(elements[i].rows)
        /\ j \in Nat
    BY <1>1
  <2>2. PICK done \in RowsDone(i) : done = f[j - 1]
    BY <1>3, <2>1
  <2>3. PICK new : new = f[j]
    OBVIOUS
  <2>4. new = RowTaken(done, i, j + 1)
    BY <1>2, <2>2, <2>3 DEF Taking
  <2>5. /\ new.current \in TablePart(i)
        /\ \/ /\ new.parts = Append(done.parts, done.current)
              /\ new.current = Append(<<Row(i, 1)>>, Row(i, j + 1))
           \/ /\ new.parts = done.parts
              /\ new.current = Append(done.current, Row(i, j + 1))
    BY <2>1, <2>4, RowTakenDone
  <2>6. PICK old \in Seq(TableRows(i)) :
          /\ new.current = Append(old, Row(i, j + 1))
          /\ new.parts = done.parts => old = done.current
    <3>1. done.current \in Seq(TableRows(i))
      BY <1>3, <1>4, <2>1, <2>2
    <3>2. <<Row(i, 1)>> \in Headed(i)
      BY <2>1, HeadedMore
    <3>3. <<Row(i, 1)>> \in Seq(TableRows(i))
      BY <1>4, <3>2
    <3>4. CASE /\ new.parts = Append(done.parts, done.current)
               /\ new.current = Append(<<Row(i, 1)>>, Row(i, j + 1))
      <4>1. new.parts # done.parts
        <5>1. done.parts \in Seq(Headed(i)) /\ done.current \in Headed(i)
          BY <1>3, <1>5, <2>1, <2>2
        <5>2. Len(Append(done.parts, done.current)) = Len(done.parts) + 1 /\ Len(done.parts) \in Nat
          BY ONLY <5>1, AppendProperties
        <5> QED
          BY ONLY <3>4, <5>2
      <4> QED
        BY <3>3, <3>4, <4>1
    <3>5. CASE new.parts = done.parts /\ new.current = Append(done.current, Row(i, j + 1))
      BY <3>1, <3>5
    <3> QED
      BY <2>5, <3>4, <3>5
  <2>7. /\ Len(new.current) = Len(old) + 1 /\ Len(old) \in Nat
        /\ new.current[Len(old) + 1] = Row(i, j + 1)
        /\ \A q \in 1 .. Len(old) : new.current[q] = old[q]
    <3>1. Row(i, j + 1) \in TableRows(i)
      BY <2>1 DEF TableRows
    <3> QED
      BY ONLY <2>6, <3>1, AppendProperties
  <2>8. Has(all(j), j + 1)
    <3>1. Len(old) + 1 \in 1 .. Len(new.current)
      BY ONLY <2>7
    <3>2. \E q \in 1 .. Len(f[j].current) : f[j].current[q] = Row(i, j + 1)
      BY <2>3, <2>7, <3>1
    <3> HIDE DEF Has, all
    <3> QED
      BY <1>7, <2>1, <3>2
  <2>9. \A k \in 1 .. j : Has(all(j), k)
    <3> TAKE k \in 1 .. j
    <3>1. PICK h \in 1 .. Len(all(j - 1)) : \E q \in 1 .. Len(all(j - 1)[h]) : all(j - 1)[h][q] = Row(i, k)
      BY <1>8
    <3>2. PICK q \in 1 .. Len(all(j - 1)[h]) : all(j - 1)[h][q] = Row(i, k)
      BY <3>1
    <3> HIDE DEF all
    <3>3. PICK n \in Nat : n = Len(f[j - 1].parts) /\ (h \in 1 .. n \/ h = n + 1)
      <4>1. PICK n \in Nat : n = Len(f[j - 1].parts) /\ Len(all(j - 1)) = n + 1
        BY ONLY <1>6, <2>1
      <4>2. h \in 1 .. n \/ h = n + 1
        BY ONLY <4>1, n \in Nat, h \in 1 .. Len(all(j - 1))
      <4> QED
        BY ONLY <4>1, <4>2, n \in Nat
    <3>4. CASE new.parts = done.parts
      <4>1. CASE h \in 1 .. n
        <5>1. h \in 1 .. Len(all(j)) /\ all(j)[h] = all(j - 1)[h]
          BY <1>6, <2>1, <2>2, <2>3, <3>3, <3>4, <4>1
        <5> QED
          BY <3>2, <5>1
      <4>2. CASE h = n + 1
        <5>1. q \in 1 .. Len(done.current) /\ done.current[q] = Row(i, k)
          BY <1>6, <2>1, <2>2, <3>2, <3>3, <4>2
        <5>2. q \in 1 .. Len(new.current) /\ new.current[q] = Row(i, k)
          BY <2>6, <2>7, <3>4, <5>1
        <5> HIDE DEF Has
        <5> QED
          BY <1>7, <2>1, <2>3, <5>2
      <4> QED
        BY <3>3, <4>1, <4>2
    <3>5. CASE new.parts = Append(done.parts, done.current)
      <4>1. f[j].parts = all(j - 1)
        BY <2>2, <2>3, <3>5 DEF all
      <4>2. h \in 1 .. Len(all(j)) /\ all(j)[h] = all(j - 1)[h]
        <5>1. PICK o : o = all(j - 1)
          OBVIOUS
        <5>2. /\ Len(all(j)) = Len(o) + 1 /\ Len(o) \in Nat
              /\ \A g \in 1 .. Len(o) : all(j)[g] = o[g]
          BY ONLY <1>6, <2>1, <4>1, <5>1
        <5>3. h \in 1 .. Len(o)
          BY ONLY <5>1, h \in 1 .. Len(all(j - 1))
        <5> QED
          BY ONLY <5>1, <5>2, <5>3
      <4> QED
        BY <3>2, <4>2
    <3> QED
      BY <2>5, <3>4, <3>5
  <2>10. \A k \in 1 .. j + 1 : k \in 1 .. j \/ k = j + 1
    BY <2>1
  <2> HIDE DEF Has, all
  <2> QED
    BY <2>3, <2>5, <2>8, <2>9, <2>10
<1>9. \A k \in 1 .. 1 : Has(all(0), k)
  <2>1. f[0].current = <<Row(i, 1)>> /\ 0 \in 0 .. m
    BY <1>2 DEF Taking
  <2>2. 1 \in 1 .. Len(f[0].current) /\ f[0].current[1] = Row(i, 1)
    BY <2>1
  <2> HIDE DEF Has, all
  <2>3. Has(all(0), 1)
    BY ONLY <1>7, <2>1, <2>2
  <2>4. \A k \in 1 .. 1 : k = 1
    OBVIOUS
  <2> QED
    BY <2>3, <2>4
<1>10. m > 0 => Right(m)
  <2> HIDE DEF Has, all
  <2> DEFINE P == {j \in 0 .. m : (\A k \in 1 .. j + 1 : Has(all(j), k)) /\ (j > 0 => Right(j))}
  <2>1. 0 \in P
    BY <1>9
  <2>2. ASSUME NEW j \in 1 .. m, j - 1 \in P PROVE j \in P
    <3>1. (j - 1) + 1 = j /\ j - 1 \in 0 .. m
      BY <1>1
    <3>2. \A k \in 1 .. j : Has(all(j - 1), k)
      BY <2>2, <3>1
    <3>3. Right(j)
      BY <1>3, <1>8, <3>1, <3>2
    <3> QED
      BY <3>3
  <2>3. P = 0 .. m
    <3>1. P \in SUBSET (0 .. m)
      OBVIOUS
    <3> HIDE DEF P
    <3> QED
      BY <2>1, <2>2, <3>1, UpTo
  <2>4. m \in P
    BY <2>3
  <2> QED
    BY <2>4
<1>11. f[m].current \in TablePart(i) => f[m].current # <<Row(i, 1)>>
  <2>1. f[m].current \in TablePart(i) => Len(f[m].current) > 1
    BY DEF TablePart
  <2>2. PICK header : header = <<Row(i, 1)>>
    OBVIOUS
  <2>3. Len(header) = 1 /\ ~(1 > 1)
    BY <2>2
  <2>4. f[m].current \in TablePart(i) => f[m].current # header
    BY ONLY <2>1, <2>3
  <2> QED
    BY ONLY <2>2, <2>4
<1>12. m \in 0 .. m
  OBVIOUS
<1>13. CASE m = 0
  <2>1. f[m].current = <<Row(i, 1)>>
    BY <1>2, <1>13 DEF Taking
  <2>2. ByRows(i) = f[m].parts
    BY <1>2, <2>1 DEF Taking
  <2> QED
    BY <1>1, <1>3, <1>12, <1>13, <2>2
<1>14. CASE m > 0
  <2>1. Right(m)
    BY <1>10, <1>14
  <2>2. ByRows(i) = all(m)
    <3> HIDE DEF Has
    <3> QED
      BY <1>2, <1>11, <2>1 DEF Taking
  <2>3. all(m) \in Seq(TablePart(i))
    <3> HIDE DEF Has
    <3> QED
      BY <1>3, <1>12, <2>1, AppendProperties
  <2> HIDE DEF all
  <2> QED
    BY <1>1, <2>1, <2>2, <2>3
<1> QED
  BY <1>13, <1>14

\* What a table becomes.
TableCuts(parts, i) ==
  /\ parts \in Seq(Body)
  /\ \A k \in 1 .. Len(parts) :
       /\ parts[k] # <<>>
       /\ \A q \in 1 .. Len(parts[k]) :
            /\ parts[k][q].of = i /\ parts[k][q].size > 0
            /\ parts[k][q].from + parts[k][q].size <= elements[i].size
       /\ Len(parts) > 1 /\ elements[i].rows # <<>> => parts[k][1].from = 0 /\ Len(parts[k]) > 1
  /\ ~HeaderOnly(i) =>
       \A offset \in 0 .. elements[i].size - 1 :
         \E k \in 1 .. Len(parts) : \E q \in 1 .. Len(parts[k]) : Covers(parts[k][q], offset)

LEMMA WholePiece ==
  ASSUME Parsed(elements), NEW i \in 1 .. Len(elements)
  PROVE  /\ Whole(i) \in Piece /\ Whole(i).of = i /\ Whole(i).from = 0
         /\ Whole(i).size = elements[i].size /\ Whole(i).size > 0
<1>1. elements[i].size \in Nat \ {0} /\ i \in Nat
  BY ParsedElements DEF Parsed
<1> QED
  BY <1>1 DEF Whole, Piece

LEMMA WholeTable ==
  ASSUME Parsed(elements), NEW i \in 1 .. Len(elements)
  PROVE  TableCuts(<<<<Whole(i)>>>>, i)
<1>1. PICK w : w = Whole(i)
  OBVIOUS
<1>2. w \in Piece /\ w.of = i /\ w.from = 0 /\ w.size = elements[i].size /\ w.size > 0 /\ w.size \in Nat
  BY <1>1, WholePiece DEF Piece
<1>3. PICK part : part = <<w>>
  OBVIOUS
<1>4. part \in Body /\ Len(part) = 1 /\ part[1] = w /\ part # <<>>
  BY <1>2, <1>3 DEF Body
<1>5. PICK parts : parts = <<part>>
  OBVIOUS
<1>6. parts \in Seq(Body) /\ Len(parts) = 1 /\ parts[1] = part
  BY <1>4, <1>5
<1>7. \A offset \in 0 .. elements[i].size - 1 : Covers(part[1], offset)
  BY <1>2, <1>4 DEF Covers
<1>8. TableCuts(parts, i)
  BY <1>2, <1>4, <1>6, <1>7 DEF TableCuts
<1> QED
  BY <1>1, <1>3, <1>5, <1>8

LEMMA BareTable ==
  ASSUME Parsed(elements), NEW i \in 1 .. Len(elements), elements[i].rows = <<>>,
         elements[i].size > MaxChunk
  PROVE  TableCuts(Split(<<Whole(i)>>, MaxChunk, 0), i)
<1>1. PICK w : w = Whole(i)
  OBVIOUS
<1>2. w \in Piece /\ w.of = i /\ w.from = 0 /\ w.size = elements[i].size /\ w.size > 0 /\ w.size \in Nat
  BY <1>1, WholePiece DEF Piece
<1>3. MaxChunk \in Nat \ {0}
  BY ChunkingAssumption
<1>4. PICK parts : parts = Cut(w, MaxChunk, 0)
  OBVIOUS
<1>5. /\ parts \in Seq(Body) /\ Len(parts) > 0
      /\ \A k \in 1 .. Len(parts) : Len(parts[k]) = 1 /\ PartOf(parts[k][1], w)
      /\ \A offset \in w.from .. w.from + w.size - 1 :
           \E k \in 1 .. Len(parts) : Covers(parts[k][1], offset)
  <2>1. PICK size \in Nat \ {0}, overlap \in Nat : size = MaxChunk /\ overlap = 0 /\ overlap < size
    BY <1>3
  <2>2. parts = Cut(w, size, overlap)
    BY <1>4, <2>1
  <2>3. w \in Piece /\ w.size > 0
    BY <1>2
  <2> QED
    BY ONLY <2>1, <2>2, <2>3, CutParts DEF Body
<1>6. Split(<<w>>, MaxChunk, 0) = parts
  <2>1. PICK body : body = <<w>>
    OBVIOUS
  <2>2. Len(body) = 1 /\ body[1] = w
    BY <2>1
  <2>3. Length(body) = w.size
    BY <1>2, <2>1, LengthOfOne
  <2>4. ~(Length(body) <= MaxChunk)
    BY <1>2, <1>3, <2>3
  <2>5. Split(body, MaxChunk, 0) = Cut(body[1], MaxChunk, 0)
    BY ONLY <2>2, <2>4 DEF Split
  <2> QED
    BY <1>4, <2>1, <2>2, <2>5
<1>7. ASSUME NEW k \in 1 .. Len(parts)
      PROVE  /\ parts[k] # <<>>
             /\ \A q \in 1 .. Len(parts[k]) :
                  /\ parts[k][q].of = i /\ parts[k][q].size > 0
                  /\ parts[k][q].from + parts[k][q].size <= elements[i].size
  <2>1. Len(parts[k]) = 1 /\ PartOf(parts[k][1], w)
    BY <1>5
  <2>2. \A q \in 1 .. Len(parts[k]) : q = 1
    BY <2>1
  <2>3. parts[k][1].of = i /\ parts[k][1].size > 0 /\ parts[k][1].from + parts[k][1].size <= elements[i].size
    <3>1. parts[k][1].from + parts[k][1].size <= 0 + elements[i].size
      BY <1>2, <2>1 DEF PartOf
    <3>2. parts[k][1].of = i /\ parts[k][1].size > 0
      BY <1>2, <2>1 DEF PartOf
    <3> QED
      BY <1>2, <3>1, <3>2
  <2>4. parts[k] # <<>>
    BY <2>1
  <2> QED
    BY <2>2, <2>3, <2>4
<1>8. ASSUME NEW offset \in 0 .. elements[i].size - 1
      PROVE  \E k \in 1 .. Len(parts) : \E q \in 1 .. Len(parts[k]) : Covers(parts[k][q], offset)
  <2>1. offset \in w.from .. w.from + w.size - 1
    BY <1>2
  <2>2. PICK k \in 1 .. Len(parts) : Covers(parts[k][1], offset)
    BY <1>5, <2>1
  <2>3. 1 \in 1 .. Len(parts[k])
    BY <1>5
  <2> QED
    BY <2>2, <2>3
<1>9. TableCuts(parts, i)
  BY <1>5, <1>7, <1>8 DEF TableCuts
<1> QED
  BY <1>1, <1>6, <1>9

LEMMA RowsTable ==
  ASSUME Parsed(elements), NEW i \in 1 .. Len(elements), elements[i].rows # <<>>,
         elements[i].size > MaxChunk
  PROVE  TableCuts(ByRows(i), i)
<1>1. elements[i].rows \in Seq(Nat)
  BY ParsedElements
<1>2. PICK parts : parts = ByRows(i)
  OBVIOUS
<1>3. /\ parts \in Seq(TablePart(i))
      /\ Len(elements[i].rows) > 1 =>
           \A k \in 1 .. Len(elements[i].rows) :
             \E h \in 1 .. Len(parts) : \E q \in 1 .. Len(parts[h]) : parts[h][q] = Row(i, k)
  BY <1>1, <1>2, ByRowsParts
<1>4. PICK n \in Nat \ {0} : n = Len(elements[i].rows)
  BY <1>1
<1>5. \A k \in 1 .. n :
         /\ Row(i, k) \in Piece /\ Row(i, k).of = i /\ Row(i, k).size > 0
         /\ Row(i, k).from + Row(i, k).size <= elements[i].size
         /\ k = 1 => Row(i, k).from = 0
  BY <1>4, RowPieces DEF Solid
<1>6. ASSUME NEW body \in TablePart(i)
      PROVE  /\ body \in Body /\ body # <<>> /\ Len(body) > 1 /\ body[1].from = 0
             /\ \A q \in 1 .. Len(body) :
                  /\ body[q].of = i /\ body[q].size > 0
                  /\ body[q].from + body[q].size <= elements[i].size
  <2>1. /\ body \in Seq(TableRows(i)) /\ Len(body) > 1 /\ body[1] = Row(i, 1)
    BY <1>6 DEF TablePart, Headed
  <2>2. \A q \in 1 .. Len(body) : body[q] \in TableRows(i)
    BY <2>1
  <2>3. TableRows(i) \subseteq Piece
    BY <1>4, <1>5 DEF TableRows
  <2>4. \A q \in 1 .. Len(body) : \E k \in 1 .. n : body[q] = Row(i, k)
    BY <1>4, <2>2 DEF TableRows
  <2>5. body \in Body
    BY ONLY <2>1, <2>3 DEF Body
  <2>6. body # <<>>
    <3> SUFFICES ASSUME body = <<>> PROVE FALSE
      OBVIOUS
    <3>1. Len(body) = 0 /\ ~(0 > 1)
      OBVIOUS
    <3> QED
      BY ONLY <2>1, <3>1
  <2>7. body[1].from = 0
    <3>1. 1 \in 1 .. n
      BY <1>4
    <3> QED
      BY <1>5, <2>1, <3>1
  <2>8. \A q \in 1 .. Len(body) : /\ body[q].of = i /\ body[q].size > 0
                                  /\ body[q].from + body[q].size <= elements[i].size
    <3> TAKE q \in 1 .. Len(body)
    <3>1. PICK k \in 1 .. n : body[q] = Row(i, k)
      BY <2>4
    <3> QED
      BY <1>5, <3>1
  <2> QED
    BY <2>1, <2>5, <2>6, <2>7, <2>8
<1>7. parts \in Seq(Body) /\ \A k \in 1 .. Len(parts) : parts[k] \in TablePart(i)
  <2>1. TablePart(i) \subseteq Body
    BY <1>6
  <2> QED
    BY ONLY <1>3, <2>1
<1>8. ASSUME ~HeaderOnly(i), NEW offset \in 0 .. elements[i].size - 1
      PROVE  \E k \in 1 .. Len(parts) : \E q \in 1 .. Len(parts[k]) : Covers(parts[k][q], offset)
  <2>1. Len(elements[i].rows) > 1
    <3>1. n # 1
      BY <1>4, <1>8 DEF HeaderOnly
    <3>2. n > 1
      BY ONLY <3>1, n \in Nat \ {0}
    <3> QED
      BY ONLY <1>4, <3>2
  <2>2. elements[i].size \in Nat /\ Total(elements[i].rows) = elements[i].size
    BY ParsedElements DEF RowsFit
  <2>3. offset \in Nat /\ offset < Total(elements[i].rows)
    BY <2>2
  <2>4. PICK k \in 1 .. Len(elements[i].rows) :
           /\ Total(SubSeq(elements[i].rows, 1, k - 1)) <= offset
           /\ offset < Total(SubSeq(elements[i].rows, 1, k - 1)) + elements[i].rows[k]
    BY <1>1, <2>3, RowAt
  <2>5. Covers(Row(i, k), offset)
    <3>1. PICK from : from = Total(SubSeq(elements[i].rows, 1, k - 1))
      OBVIOUS
    <3>2. Row(i, k) = [of |-> i, from |-> from, size |-> elements[i].rows[k]]
      BY <3>1 DEF Row
    <3>3. Row(i, k).from = from /\ Row(i, k).size = elements[i].rows[k]
      BY ONLY <3>2
    <3> QED
      BY ONLY <2>4, <3>1, <3>3 DEF Covers
  <2>6. PICK h \in 1 .. Len(parts) : \E q \in 1 .. Len(parts[h]) : parts[h][q] = Row(i, k)
    BY <1>3, <2>1
  <2> QED
    BY <2>5, <2>6
<1>9. TableCuts(parts, i)
  BY <1>6, <1>7, <1>8 DEF TableCuts
<1> QED
  BY <1>2, <1>9

\* _emit_table: the chunks are of the table alone, and keep it.
LEMMA TableRun ==
  ASSUME Parsed(elements), NEW i \in 1 .. Len(elements)
  PROVE  /\ Run(elements, Table(i))
         /\ Between(Table(i), i, i)
         /\ ~HeaderOnly(i) => Kept(elements, Table(i), i)
<1>1. PICK parts : parts = IF elements[i].size <= MaxChunk THEN <<<<Whole(i)>>>>
                           ELSE IF elements[i].rows = <<>> THEN Split(<<Whole(i)>>, MaxChunk, 0)
                           ELSE ByRows(i)
  OBVIOUS
<1>2. Table(i) = [k \in DOMAIN parts |-> NewChunk("table", i, parts[k], Len(parts) > 1)]
  BY <1>1 DEF Table
<1>3. TableCuts(parts, i)
  <2>1. CASE elements[i].size <= MaxChunk
    BY <1>1, <2>1, WholeTable
  <2>2. CASE ~(elements[i].size <= MaxChunk)
    <3>1. elements[i].size > MaxChunk
      BY <2>2, ParsedElements, ChunkingAssumption
    <3>2. CASE elements[i].rows = <<>>
      BY <1>1, <2>2, <3>1, <3>2, BareTable
    <3>3. CASE elements[i].rows # <<>>
      BY <1>1, <2>2, <3>1, <3>3, RowsTable
    <3> QED
      BY <3>2, <3>3
  <2> QED
    BY <2>1, <2>2
<1>4. PICK cs : cs = Table(i)
  OBVIOUS
<1>5. PICK split : split = (Len(parts) > 1)
  OBVIOUS
<1>6. /\ elements[i].page \in Nat /\ elements[i].section \in Seq(Nat) /\ i \in Nat
      /\ elements[i].size \in Nat
  <2>1. i \in Nat
    OBVIOUS
  <2>2. /\ elements[i].page \in Nat /\ elements[i].section \in Seq(Nat)
        /\ elements[i].size \in Nat \ {0}
    BY ONLY ParsedElements, Parsed(elements), i \in 1 .. Len(elements)
  <2> QED
    BY ONLY <2>1, <2>2
<1> DEFINE chunk(k) == [kind |-> "table", body |-> parts[k], page |-> elements[i].page,
                        section |-> elements[i].section, clause |-> FALSE, split |-> split]
<1>7. parts \in Seq(Body) /\ Len(parts) \in Nat /\ DOMAIN parts = 1 .. Len(parts)
  BY <1>3 DEF TableCuts
<1>8. cs = [k \in 1 .. Len(parts) |-> chunk(k)]
  BY <1>2, <1>4, <1>5, <1>7, Zenon DEF NewChunk
<1>9. \A k \in 1 .. Len(parts) : chunk(k) \in Chunk
  <2> TAKE k \in 1 .. Len(parts)
  <2>1. parts[k] \in Body /\ FALSE \in BOOLEAN
    BY <1>7
  <2>2. split \in BOOLEAN
    <3>1. (Len(parts) > 1) \in BOOLEAN
      OBVIOUS
    <3> QED
      BY ONLY <1>5, <3>1, Zenon
  <2> QED
    BY <1>6, <2>1, <2>2 DEF Chunk
<1>10. cs \in Seq(Chunk) /\ Len(cs) = Len(parts) /\ \A k \in 1 .. Len(cs) : cs[k] = chunk(k)
  <2> HIDE DEF chunk
  <2> QED
    BY <1>7, <1>8, <1>9
<1>11. ASSUME NEW k \in 1 .. Len(cs)
      PROVE  /\ cs[k] \in Chunk /\ cs[k].kind = "table" /\ cs[k].body = parts[k]
             /\ cs[k].page = elements[i].page /\ cs[k].split = split
             /\ cs[k].body # <<>> /\ Len(cs[k].body) \in Nat \ {0}
             /\ DOMAIN cs[k].body = 1 .. Len(cs[k].body)
             /\ \A q \in 1 .. Len(cs[k].body) :
                  /\ cs[k].body[q].of = i /\ cs[k].body[q].size > 0
                  /\ cs[k].body[q].from + cs[k].body[q].size <= elements[i].size
             /\ split /\ elements[i].rows # <<>> => cs[k].body[1].from = 0 /\ Len(cs[k].body) > 1
             /\ StartOf(cs[k].body) = i /\ EndOf(cs[k].body) = i
  <2>1. /\ cs[k] \in Chunk /\ cs[k].kind = "table" /\ cs[k].body = parts[k]
        /\ cs[k].page = elements[i].page /\ cs[k].split = split
    <3>1. cs[k] = chunk(k) /\ k \in 1 .. Len(parts)
      BY <1>10
    <3>2. cs[k] \in Chunk
      BY <1>9, <3>1
    <3> QED
      BY ONLY <3>1, <3>2
  <2>2. PICK part : part = parts[k]
    OBVIOUS
  <2>3. /\ part # <<>> /\ part \in Body
        /\ \A q \in 1 .. Len(part) :
             /\ part[q].of = i /\ part[q].size > 0
             /\ part[q].from + part[q].size <= elements[i].size
        /\ split /\ elements[i].rows # <<>> => part[1].from = 0 /\ Len(part) > 1
    <3>1. k \in 1 .. Len(parts)
      BY <1>10
    <3>2. /\ part # <<>> /\ part \in Body
          /\ \A q \in 1 .. Len(part) :
               /\ part[q].of = i /\ part[q].size > 0
               /\ part[q].from + part[q].size <= elements[i].size
      BY ONLY <1>3, <1>7, <2>2, <3>1 DEF TableCuts
    <3>3. Len(parts) > 1 /\ elements[i].rows # <<>> => part[1].from = 0 /\ Len(part) > 1
      BY ONLY <1>3, <1>7, <2>2, <3>1 DEF TableCuts
    <3>4. split /\ elements[i].rows # <<>> => part[1].from = 0 /\ Len(part) > 1
      BY <1>5, <3>3, Zenon
    <3> QED
      BY <3>2, <3>4
  <2>4. Len(part) \in Nat \ {0} /\ DOMAIN part = 1 .. Len(part)
    BY <2>3 DEF Body
  <2>5. 1 \in 1 .. Len(part) /\ Len(part) \in 1 .. Len(part)
    BY <2>4
  <2>6. StartOf(part) = i /\ EndOf(part) = i
    BY <2>3, <2>5 DEF StartOf, EndOf
  <2> QED
    BY <2>1, <2>2, <2>3, <2>4, <2>6
<1> HIDE DEF chunk
<1>12. \A k \in 1 .. Len(cs) : Sound(elements, cs[k])
  <2> TAKE k \in 1 .. Len(cs)
  <2> QED
    BY <1>11 DEF Sound
<1>13. \A k \in 1 .. Len(cs) : Attributed(elements, cs, k)
  <2> TAKE k \in 1 .. Len(cs)
  <2>1. \A p \in 1 .. Len(cs[k].body) : elements[cs[k].body[p].of].page = cs[k].page
    BY <1>11
  <2>2. Cited(elements, cs[k])
    BY <1>12, <2>1, OnePageCited
  <2> QED
    BY <2>2 DEF Attributed
<1>14. \A k \in 1 .. Len(cs) : Continues(elements, cs, k)
  <2> TAKE k \in 1 .. Len(cs)
  <2>1. cs[k].kind # "narrative"
    BY <1>11
  <2> QED
    BY <2>1 DEF Continues
<1>15. \A k, l \in 1 .. Len(cs) : k <= l => StartOf(cs[k].body) <= EndOf(cs[l].body)
  BY <1>6, <1>11
<1>16. Run(elements, cs)
  BY <1>10, <1>12, <1>13, <1>14, <1>15 DEF Run
<1>17. Between(cs, i, i)
  BY <1>6, <1>11 DEF Between
<1>18. ~HeaderOnly(i) => Kept(elements, cs, i)
  <2>1. ASSUME ~HeaderOnly(i), NEW offset \in 0 .. elements[i].size - 1
        PROVE  \E k \in 1 .. Len(cs) : Holds(cs[k], i, offset)
    <3>1. PICK k \in 1 .. Len(parts) : \E q \in 1 .. Len(parts[k]) : Covers(parts[k][q], offset)
      BY <1>3, <2>1 DEF TableCuts
    <3>2. PICK q \in 1 .. Len(parts[k]) : Covers(parts[k][q], offset)
      BY <3>1
    <3>3. k \in 1 .. Len(cs) /\ cs[k].body = parts[k]
      BY <1>10, <1>11
    <3>4. Holds(cs[k], i, offset)
      BY <1>11, <3>2, <3>3 DEF Holds, Covers
    <3> QED
      BY <3>3, <3>4
  <2> QED
    BY <2>1 DEF Kept
<1> QED
  BY <1>4, <1>16, <1>17, <1>18

LEMMA SoundEnds ==
  ASSUME NEW els, NEW c, Sound(els, c)
  PROVE  /\ Len(c.body) \in Nat \ {0}
         /\ 1 \in 1 .. Len(c.body) /\ Len(c.body) \in 1 .. Len(c.body)
         /\ StartOf(c.body) \in Nat /\ EndOf(c.body) \in Nat
<1>1. c.body \in Seq(Piece) /\ c.body # <<>>
  BY DEF Sound, Chunk, Body
<1>2. Len(c.body) \in Nat \ {0} /\ 1 \in 1 .. Len(c.body) /\ Len(c.body) \in 1 .. Len(c.body)
  BY <1>1
<1>3. c.body[1] \in Piece /\ c.body[Len(c.body)] \in Piece
  BY <1>1, <1>2
<1> QED
  BY <1>2, <1>3 DEF Piece, StartOf, EndOf

\* What follows is added behind.
LEMMA RunOfBoth ==
  ASSUME NEW els, Parsed(els), NEW a, Run(els, a), NEW b, Run(els, b), NEW m \in Nat, NEW low, NEW high,
         Between(a, low, m), Between(b, m, high)
  PROVE  Run(els, a \o b)
<1>1. PICK n \in Nat : n = Len(a)
  BY DEF Run
<1>2. PICK cs : cs = a \o b
  OBVIOUS
<1>3. /\ cs \in Seq(Chunk) /\ Len(cs) = n + Len(b) /\ Len(b) \in Nat
      /\ \A k \in 1 .. n : cs[k] = a[k]
      /\ \A k \in 1 .. Len(b) : cs[n + k] = b[k]
  <2>1. a \in Seq(Chunk) /\ b \in Seq(Chunk)
    BY DEF Run
  <2>2. /\ cs \in Seq(Chunk) /\ Len(cs) = Len(a) + Len(b) /\ Len(b) \in Nat
        /\ \A k \in 1 .. Len(a) : cs[k] = a[k]
        /\ \A k \in 1 .. Len(b) : cs[Len(a) + k] = b[k]
    BY ONLY <1>2, <2>1, ConcatProperties
  <2> QED
    BY ONLY <1>1, <2>2
<1>4. \A k \in 1 .. Len(cs) : k \in 1 .. n \/ \E j \in 1 .. Len(b) : k = n + j
  <2> TAKE k \in 1 .. Len(cs)
  <2>1. CASE k <= n
    BY <2>1
  <2>2. CASE k > n
    <3>1. k - n \in 1 .. Len(b) /\ k = n + (k - n)
      BY <1>3, <2>2
    <3> QED
      BY <3>1
  <2> QED
    BY <1>3, <2>1, <2>2
<1>5. \A k \in 1 .. n : Sound(els, a[k]) /\ Continues(els, a, k) /\ Attributed(els, a, k)
  BY <1>1 DEF Run
<1>6. \A k \in 1 .. Len(b) : Sound(els, b[k]) /\ Continues(els, b, k) /\ Attributed(els, b, k)
  BY DEF Run
<1>7. \A k \in 1 .. Len(cs) : Sound(els, cs[k])
  <2> TAKE k \in 1 .. Len(cs)
  <2>1. CASE k \in 1 .. n
    BY ONLY <1>3, <1>5, <2>1
  <2>2. ASSUME NEW j \in 1 .. Len(b), k = n + j PROVE Sound(els, cs[k])
    BY ONLY <1>3, <1>6, <2>2
  <2> QED
    BY <1>4, <2>1, <2>2
<1>8. \A k \in 1 .. Len(cs) : Continues(els, cs, k)
  <2> TAKE k \in 1 .. Len(cs)
  <2>1. CASE k \in 1 .. n
    <3>1. k > 1 => k - 1 \in 1 .. n
      BY <2>1
    <3>2. Continues(els, a, k) /\ cs[k] = a[k] /\ (k > 1 => cs[k - 1] = a[k - 1])
      BY ONLY <1>3, <1>5, <2>1, <3>1
    <3> QED
      BY ONLY <3>2 DEF Continues
  <2>2. ASSUME NEW j \in 1 .. Len(b), k = n + j PROVE Continues(els, cs, k)
    <3>1. j > 1 => j - 1 \in 1 .. Len(b) /\ k - 1 = n + (j - 1) /\ k > 1
      BY <1>3, <2>2
    <3>2. cs[k] = b[j] /\ (j > 1 => cs[k - 1] = b[j - 1])
      BY <1>3, <2>2, <3>1
    <3> QED
      BY <1>6, <3>1, <3>2 DEF Continues
  <2> QED
    BY <1>4, <2>1, <2>2
<1>9. \A k \in 1 .. Len(cs) : Attributed(els, cs, k)
  <2> TAKE k \in 1 .. Len(cs)
  <2>1. CASE k \in 1 .. n
    <3>1. k + 1 \in 1 .. n => cs[k + 1] = a[k + 1] /\ k + 1 \in 1 .. Len(cs)
      BY <1>3
    <3> QED
      BY <1>1, <1>3, <1>5, <2>1, <3>1 DEF Attributed
  <2>2. ASSUME NEW j \in 1 .. Len(b), k = n + j PROVE Attributed(els, cs, k)
    <3>1. j + 1 \in 1 .. Len(b) => k + 1 = n + (j + 1) /\ k + 1 \in 1 .. Len(cs)
      BY <1>3, <2>2
    <3>2. cs[k] = b[j] /\ (j + 1 \in 1 .. Len(b) => cs[k + 1] = b[j + 1])
      BY <1>3, <2>2, <3>1
    <3> QED
      BY <1>6, <3>1, <3>2 DEF Attributed
  <2> QED
    BY <1>4, <2>1, <2>2
<1>10. \A c : Sound(els, c) => /\ Len(c.body) \in Nat \ {0}
                               /\ 1 \in 1 .. Len(c.body) /\ Len(c.body) \in 1 .. Len(c.body)
                               /\ StartOf(c.body) \in Nat /\ EndOf(c.body) \in Nat
  BY SoundEnds
<1>11. \A k, l \in 1 .. Len(cs) : k <= l => StartOf(cs[k].body) <= EndOf(cs[l].body)
  <2> TAKE k, l \in 1 .. Len(cs)
  <2> HAVE k <= l
  <2>1. CASE l \in 1 .. n
    <3>1. k \in 1 .. n
      BY <2>1
    <3> QED
      BY <1>1, <1>3, <2>1, <3>1 DEF Run
  <2>2. ASSUME NEW i \in 1 .. Len(b), NEW j \in 1 .. Len(b), k = n + i, l = n + j
        PROVE  StartOf(cs[k].body) <= EndOf(cs[l].body)
    <3>1. i <= j
      BY <2>2
    <3> QED
      BY <1>3, <2>2, <3>1 DEF Run
  <2>3. ASSUME k \in 1 .. n, NEW j \in 1 .. Len(b), l = n + j
        PROVE  StartOf(cs[k].body) <= EndOf(cs[l].body)
    <3>1. cs[k] = a[k] /\ cs[l] = b[j] /\ k \in 1 .. Len(a)
      BY <1>1, <1>3, <2>3
    <3>2. /\ 1 \in 1 .. Len(a[k].body) /\ Len(b[j].body) \in 1 .. Len(b[j].body)
          /\ StartOf(a[k].body) \in Nat /\ EndOf(b[j].body) \in Nat
      BY <1>5, <1>6, <1>10, <2>3
    <3>3. StartOf(a[k].body) <= m
      BY <3>1, <3>2 DEF Between, StartOf
    <3>4. m <= EndOf(b[j].body)
      BY <2>3, <3>2 DEF Between, EndOf
    <3> QED
      BY <3>1, <3>2, <3>3, <3>4
  <2> QED
    BY <1>4, <2>1, <2>2, <2>3
<1>12. Run(els, cs)
  BY <1>3, <1>7, <1>8, <1>9, <1>11 DEF Run
<1> QED
  BY <1>2, <1>12

-----------------------------------------------------------------------------
(* The turns of chunk_elements. *)

OneRow(els, i) == els[i].size > MaxChunk /\ Len(els[i].rows) = 1

\* What is not in a chunk yet, in front of element n, begins here.
Begins(buf, n) == IF buf = <<>> THEN n ELSE buf[1]

Waits(buf, i) == \E k \in 1 .. Len(buf) : buf[k] = i

\* ch and buf are what the elements before n have become.
Chunked(els, ch, buf, n) ==
  /\ n \in 1 .. Len(els) + 1
  /\ Run(els, ch)
  /\ Between(ch, 0, Begins(buf, n))
  /\ buf # <<>> => Gatherable(els, buf) /\ \A k \in 1 .. Len(buf) : buf[k] < n
  /\ \A i \in 1 .. n - 1 : els[i].kind # "header_footer" /\ ~OneRow(els, i)
                             => Kept(els, ch, i) \/ Waits(buf, i)

LEMMA KeptBehind ==
  ASSUME NEW els, NEW a \in Seq(Chunk), NEW b \in Seq(Chunk), NEW i
  PROVE  Kept(els, a, i) \/ Kept(els, b, i) => Kept(els, a \o b, i)
<1>1. PICK cs : cs = a \o b
  OBVIOUS
<1>2. /\ Len(cs) = Len(a) + Len(b) /\ Len(a) \in Nat /\ Len(b) \in Nat
      /\ \A k \in 1 .. Len(a) : cs[k] = a[k]
      /\ \A k \in 1 .. Len(b) : cs[Len(a) + k] = b[k]
  BY ONLY <1>1, a \in Seq(Chunk), b \in Seq(Chunk), ConcatProperties
<1>3. ASSUME Kept(els, a, i), NEW offset \in 0 .. els[i].size - 1
      PROVE  \E k \in 1 .. Len(cs) : Holds(cs[k], i, offset)
  <2>1. PICK k \in 1 .. Len(a) : Holds(a[k], i, offset)
    BY <1>3 DEF Kept
  <2>2. k \in 1 .. Len(cs) /\ cs[k] = a[k]
    BY <1>2
  <2> QED
    BY <2>1, <2>2
<1>4. ASSUME Kept(els, b, i), NEW offset \in 0 .. els[i].size - 1
      PROVE  \E k \in 1 .. Len(cs) : Holds(cs[k], i, offset)
  <2>1. PICK k \in 1 .. Len(b) : Holds(b[k], i, offset)
    BY <1>4 DEF Kept
  <2>2. Len(a) + k \in 1 .. Len(cs) /\ cs[Len(a) + k] = b[k]
    BY <1>2
  <2> QED
    BY <2>1, <2>2
<1>5. Kept(els, a, i) \/ Kept(els, b, i) => Kept(els, cs, i)
  BY <1>3, <1>4 DEF Kept
<1> QED
  BY <1>1, <1>5

LEMMA BetweenBoth ==
  ASSUME NEW a \in Seq(Chunk), NEW b \in Seq(Chunk), NEW lo, NEW hi,
         Between(a, lo, hi), Between(b, lo, hi)
  PROVE  Between(a \o b, lo, hi)
<1>1. PICK cs : cs = a \o b
  OBVIOUS
<1>2. /\ Len(cs) = Len(a) + Len(b) /\ Len(a) \in Nat /\ Len(b) \in Nat
      /\ \A k \in 1 .. Len(a) : cs[k] = a[k]
      /\ \A k \in 1 .. Len(b) : cs[Len(a) + k] = b[k]
  BY ONLY <1>1, a \in Seq(Chunk), b \in Seq(Chunk), ConcatProperties
<1>3. ASSUME NEW k \in 1 .. Len(cs), NEW p \in 1 .. Len(cs[k].body)
      PROVE  lo <= cs[k].body[p].of /\ cs[k].body[p].of <= hi
  <2>1. CASE k <= Len(a)
    <3>1. k \in 1 .. Len(a)
      BY <1>2, <2>1
    <3> QED
      BY <1>2, <3>1 DEF Between
  <2>2. CASE k > Len(a)
    <3>1. PICK j \in 1 .. Len(b) : k = Len(a) + j
      <4>1. k - Len(a) \in 1 .. Len(b) /\ k = Len(a) + (k - Len(a))
        BY <1>2, <2>2
      <4> QED
        BY <4>1
    <3> QED
      BY <1>2, <3>1 DEF Between
  <2> QED
    BY <1>2, <2>1, <2>2
<1>4. Between(cs, lo, hi)
  BY <1>3 DEF Between
<1> QED
  BY <1>1, <1>4

\* Pieces are where they are: a bound may be moved outwards.
LEMMA BetweenWider ==
  ASSUME NEW els, NEW cs, Run(els, cs), NEW lo \in Nat, NEW hi \in Nat, Between(cs, lo, hi),
         NEW low \in Nat, NEW high \in Nat, low <= lo, hi <= high
  PROVE  Between(cs, low, high)
<1>1. ASSUME NEW k \in 1 .. Len(cs), NEW p \in 1 .. Len(cs[k].body)
      PROVE  low <= cs[k].body[p].of /\ cs[k].body[p].of <= high
  <2>1. lo <= cs[k].body[p].of /\ cs[k].body[p].of <= hi
    BY DEF Between
  <2>2. cs[k].body[p].of \in 1 .. Len(els)
    BY DEF Run, Sound
  <2> QED
    BY <2>1, <2>2
<1> QED
  BY <1>1 DEF Between

\* Chunks are added, and what waited is in them or they are of element n alone.
LEMMA FlushIsRight ==
  ASSUME Parsed(elements), NEW ch, NEW buf, NEW n, Chunked(elements, ch, buf, n), buf # <<>>
  PROVE  Chunked(elements, ch \o Narrative(buf), <<>>, n)
<1>1. /\ n \in Nat /\ Run(elements, ch) /\ ch \in Seq(Chunk)
      /\ Gatherable(elements, buf) /\ \A k \in 1 .. Len(buf) : buf[k] < n
      /\ Between(ch, 0, buf[1])
  BY DEF Chunked, Run, Begins, Parsed
<1>2. PICK cs : cs = Narrative(buf)
  OBVIOUS
<1>3. /\ Run(elements, cs) /\ cs \in Seq(Chunk)
      /\ Between(cs, buf[1], buf[Len(buf)])
      /\ \A j \in 1 .. Len(buf) : Kept(elements, cs, buf[j])
  BY <1>1, <1>2, NarrativeRun DEF Run
<1>4. /\ buf[1] \in Nat /\ buf[Len(buf)] \in Nat /\ buf[1] <= n /\ buf[Len(buf)] <= n
      /\ Len(buf) \in Nat \ {0}
  <2>1. /\ 1 \in 1 .. Len(buf) /\ Len(buf) \in 1 .. Len(buf) /\ Len(buf) \in Nat \ {0}
        /\ \A j \in 1 .. Len(buf) : buf[j] \in Nat
    BY <1>1, HeldBounds
  <2>2. buf[1] < n /\ buf[Len(buf)] < n /\ buf[1] \in Nat /\ buf[Len(buf)] \in Nat
    BY <1>1, <2>1
  <2> QED
    BY <1>1, <2>1, <2>2
<1>5. Run(elements, ch \o cs)
  BY <1>1, <1>3, <1>4, RunOfBoth
<1>6. Between(ch \o cs, 0, n)
  <2>1. Between(ch, 0, n)
    BY <1>1, <1>4, BetweenWider
  <2>2. Between(cs, 0, n)
    BY <1>1, <1>3, <1>4, BetweenWider
  <2> QED
    BY <1>1, <1>3, <2>1, <2>2, BetweenBoth
<1>7. ASSUME NEW i \in 1 .. n - 1, elements[i].kind # "header_footer", ~OneRow(elements, i)
      PROVE  Kept(elements, ch \o cs, i)
  <2>1. Kept(elements, ch, i) \/ Waits(buf, i)
    BY <1>7 DEF Chunked
  <2>2. Kept(elements, ch, i) \/ Kept(elements, cs, i)
    BY <1>3, <2>1 DEF Waits
  <2> QED
    BY <1>1, <1>3, <2>2, KeptBehind
<1>8. n \in 1 .. Len(elements) + 1
  BY DEF Chunked
<1>9. Chunked(elements, ch \o cs, <<>>, n)
  BY <1>5, <1>6, <1>7, <1>8 DEF Chunked, Begins
<1> QED
  BY <1>2, <1>9

LEMMA TableIsRight ==
  ASSUME Parsed(elements), NEW ch, NEW n \in 1 .. Len(elements), Chunked(elements, ch, <<>>, n)
  PROVE  Chunked(elements, ch \o Table(n), <<>>, n + 1)
<1>1. /\ n \in Nat /\ Run(elements, ch) /\ ch \in Seq(Chunk) /\ Between(ch, 0, n)
      /\ Len(elements) \in Nat
  BY DEF Chunked, Run, Begins, Parsed
<1>2. PICK cs : cs = Table(n)
  OBVIOUS
<1>3. /\ Run(elements, cs) /\ cs \in Seq(Chunk) /\ Between(cs, n, n)
      /\ ~OneRow(elements, n) => Kept(elements, cs, n)
  BY <1>2, TableRun DEF Run, OneRow, HeaderOnly
<1>4. Run(elements, ch \o cs)
  BY <1>1, <1>3, RunOfBoth
<1>5. Between(ch \o cs, 0, n + 1)
  <2>1. Between(ch, 0, n + 1)
    BY <1>1, BetweenWider
  <2>2. Between(cs, 0, n + 1)
    BY <1>1, <1>3, BetweenWider
  <2> QED
    BY <1>1, <1>3, <2>1, <2>2, BetweenBoth
<1>6. ASSUME NEW i \in 1 .. n, elements[i].kind # "header_footer", ~OneRow(elements, i)
      PROVE  Kept(elements, ch \o cs, i)
  <2>1. Kept(elements, ch, i) \/ Kept(elements, cs, i)
    <3>1. CASE i = n
      BY <1>3, <1>6, <3>1
    <3>2. CASE i # n
      <4>1. i \in 1 .. n - 1 /\ ~Waits(<<>>, i)
        BY <1>1, <3>2 DEF Waits
      <4> QED
        BY <1>6, <4>1 DEF Chunked
    <3> QED
      BY <3>1, <3>2
  <2> QED
    BY <1>1, <1>3, <2>1, KeptBehind
<1>7. n + 1 \in 1 .. Len(elements) + 1 /\ (n + 1) - 1 = n
  BY <1>1
<1>8. Chunked(elements, ch \o cs, <<>>, n + 1)
  BY <1>4, <1>5, <1>6, <1>7 DEF Chunked, Begins
<1> QED
  BY <1>2, <1>8

LEMMA SkipIsRight ==
  ASSUME NEW els, Parsed(els), NEW ch, NEW buf, NEW n \in 1 .. Len(els), Chunked(els, ch, buf, n),
         els[n].kind = "header_footer"
  PROVE  Chunked(els, ch, buf, n + 1)
<1>1. n \in Nat /\ Len(els) \in Nat /\ Run(els, ch)
  BY DEF Parsed, Chunked
<1>2. buf # <<>> => Gatherable(els, buf) /\ \A k \in 1 .. Len(buf) : buf[k] < n + 1
  <2> HAVE buf # <<>>
  <2>1. Gatherable(els, buf) /\ \A k \in 1 .. Len(buf) : buf[k] < n
    BY DEF Chunked
  <2>2. \A k \in 1 .. Len(buf) : buf[k] \in Nat
    BY <2>1, HeldBounds
  <2> QED
    BY <1>1, <2>1, <2>2
<1>3. Between(ch, 0, Begins(buf, n + 1))
  <2>1. CASE buf = <<>>
    <3>1. Between(ch, 0, n) /\ n <= n + 1
      BY <1>1, <2>1 DEF Chunked, Begins
    <3>2. Between(ch, 0, n + 1)
      BY <1>1, <3>1, BetweenWider
    <3> QED
      BY <2>1, <3>2 DEF Begins
  <2>2. CASE buf # <<>>
    BY <2>2 DEF Chunked, Begins
  <2> QED
    BY <2>1, <2>2
<1>4. ASSUME NEW i \in 1 .. n, els[i].kind # "header_footer", ~OneRow(els, i)
      PROVE  Kept(els, ch, i) \/ Waits(buf, i)
  <2>1. i \in 1 .. n - 1
    BY <1>1, <1>4
  <2> QED
    BY <1>4, <2>1 DEF Chunked
<1>5. n + 1 \in 1 .. Len(els) + 1 /\ (n + 1) - 1 = n
  BY <1>1
<1> QED
  BY <1>1, <1>2, <1>3, <1>4, <1>5 DEF Chunked

LEMMA HoldIsRight ==
  ASSUME NEW els, Parsed(els), NEW ch, NEW buf \in Seq(Nat), NEW n \in 1 .. Len(els),
         Chunked(els, ch, buf, n),
         els[n].kind \notin {"table", "header_footer"}, buf = <<>> \/ ~els[n].clause
  PROVE  Append(buf, n) # <<>> /\ Append(buf, n) \in Seq(Nat) /\ Chunked(els, ch, Append(buf, n), n + 1)
<1>1. n \in Nat /\ Len(els) \in Nat /\ Run(els, ch)
  BY DEF Parsed, Chunked
<1>2. PICK m \in Nat : m = Len(buf)
  OBVIOUS
<1>3. PICK new : new = Append(buf, n)
  OBVIOUS
<1>4. /\ new \in Seq(Nat) /\ Len(new) = m + 1 /\ new[m + 1] = n /\ new # <<>>
      /\ \A k \in 1 .. m : new[k] = buf[k]
  <2>1. /\ new \in Seq(Nat) /\ Len(new) = m + 1 /\ new[m + 1] = n
        /\ \A k \in 1 .. m : new[k] = buf[k]
    BY <1>1, <1>2, <1>3, AppendProperties
  <2>2. new # <<>>
    BY <1>3
  <2> QED
    BY <2>1, <2>2
<1>5. \A k \in 1 .. m + 1 : k \in 1 .. m \/ k = m + 1
  OBVIOUS
<1>6. m > 0 => Gatherable(els, buf) /\ \A k \in 1 .. m : buf[k] < n /\ buf[k] \in Nat
  <2> HAVE m > 0
  <2>1. buf # <<>>
    BY <1>2
  <2>2. Gatherable(els, buf) /\ \A k \in 1 .. m : buf[k] < n
    BY <1>2, <2>1 DEF Chunked
  <2> QED
    BY <1>2, <2>2
<1>7. m = 0 => buf = <<>>
  <2>1. buf \in Seq(Nat) => (Len(buf) = 0 => buf = <<>>)
    BY ONLY EmptySeq
  <2> QED
    BY ONLY <1>2, <2>1, buf \in Seq(Nat)
<1>8. \A k \in 1 .. m + 1 : new[k] < n + 1
  <2> TAKE k \in 1 .. m + 1
  <2>1. CASE k \in 1 .. m
    <3>1. buf[k] < n /\ buf[k] \in Nat
      BY <1>6, <2>1
    <3> QED
      BY <1>1, <1>4, <2>1, <3>1
  <2>2. CASE k = m + 1
    BY <1>1, <1>4, <2>2
  <2> QED
    BY <1>5, <2>1, <2>2
<1>9. Gatherable(els, new)
  <2>1. ASSUME NEW k \in 1 .. m + 1
        PROVE  /\ new[k] \in 1 .. Len(els)
               /\ els[new[k]].kind \notin {"table", "header_footer"}
               /\ els[new[k]].clause => k = 1
    <3>1. CASE k \in 1 .. m
      <4>1. new[k] = buf[k] /\ Gatherable(els, buf)
        BY <1>4, <1>6, <3>1
      <4> QED
        BY <1>2, <3>1, <4>1 DEF Gatherable
    <3>2. CASE k = m + 1
      <4>1. buf = <<>> => m = 0
        BY <1>2
      <4> QED
        BY <1>4, <3>2, <4>1
    <3> QED
      BY <1>5, <3>1, <3>2
  <2>2. ASSUME NEW j \in 1 .. m + 1, NEW k \in 1 .. m + 1, j < k
        PROVE  new[j] < new[k]
    <3>1. CASE k \in 1 .. m
      <4>1. j \in 1 .. m /\ Gatherable(els, buf)
        BY <1>6, <2>2, <3>1
      <4>2. buf[j] < buf[k]
        BY <1>2, <2>2, <3>1, <4>1 DEF Gatherable
      <4> QED
        BY <1>4, <3>1, <4>1, <4>2
    <3>2. CASE k = m + 1
      <4>1. j \in 1 .. m
        BY <2>2, <3>2
      <4> QED
        BY <1>4, <1>6, <3>2, <4>1
    <3> QED
      BY <1>5, <3>1, <3>2
  <2> QED
    BY <1>4, <2>1, <2>2 DEF Gatherable
<1>10. Between(ch, 0, Begins(new, n + 1))
  <2>1. Begins(new, n + 1) = new[1]
    BY <1>4 DEF Begins
  <2>2. CASE m = 0
    BY <1>4, <1>7, <2>1, <2>2 DEF Chunked, Begins
  <2>3. CASE m > 0
    <3>1. buf # <<>> /\ new[1] = buf[1]
      BY <1>2, <1>4, <2>3
    <3> QED
      BY <2>1, <3>1 DEF Chunked, Begins
  <2> QED
    BY <2>2, <2>3
<1>11. ASSUME NEW i \in 1 .. n, els[i].kind # "header_footer", ~OneRow(els, i)
       PROVE  Kept(els, ch, i) \/ Waits(new, i)
  <2>1. CASE i = n
    <3>1. m + 1 \in 1 .. m + 1
      OBVIOUS
    <3> QED
      BY <1>4, <2>1, <3>1 DEF Waits
  <2>2. CASE i # n
    <3>1. i \in 1 .. n - 1
      BY <1>1, <2>2
    <3>2. Kept(els, ch, i) \/ Waits(buf, i)
      BY <1>11, <3>1 DEF Chunked
    <3>3. Waits(buf, i) => Waits(new, i)
      <4> HAVE Waits(buf, i)
      <4>1. PICK k \in 1 .. m : buf[k] = i
        BY <1>2 DEF Waits
      <4>2. k \in 1 .. Len(new) /\ new[k] = i
        BY <1>4, <4>1
      <4> QED
        BY <4>2 DEF Waits
    <3> QED
      BY <3>2, <3>3
  <2> QED
    BY <2>1, <2>2
<1>12. n + 1 \in 1 .. Len(els) + 1 /\ (n + 1) - 1 = n
  BY <1>1
<1>13. Chunked(els, ch, new, n + 1)
  BY <1>1, <1>4, <1>8, <1>9, <1>10, <1>11, <1>12 DEF Chunked
<1> QED
  BY <1>3, <1>4, <1>13

LEMMA PartitionIsParsed ==
  ASSUME file \in Files
  PROVE  Parsed(Converted(Partitioned))
<1>1. PICK B : B = {file.blocks[j] : j \in DOMAIN file.blocks}
  OBVIOUS
<1>2. file.blocks \in Seq(Block)
  BY FilesAreRead
<1>3. B \in SUBSET Block /\ \A b \in B : \E j \in DOMAIN file.blocks : b = file.blocks[j]
  BY <1>1, <1>2
<1>4. PICK els : els = Converted(Partitioned)
  OBVIOUS
<1>5. els \in Seq(ElementsOf(B))
  BY ONLY <1>1, <1>2, <1>3, <1>4, PartitionedBlocks, ConvertedElements
<1>6. Len(els) \in Nat /\ \A i \in 1 .. Len(els) : els[i] \in ElementsOf(B)
  BY <1>5
<1>7. els \in Seq(Element)
  <2>1. ElementsOf(B) \subseteq Element
    BY DEF ElementsOf
  <2> QED
    BY ONLY <1>5, <2>1
<1>8. ASSUME NEW i \in 1 .. Len(els)
      PROVE  \E j \in DOMAIN file.blocks : /\ els[i].rows = file.blocks[j].rows
                                           /\ els[i].size = file.blocks[j].size
                                           /\ els[i].page = file.blocks[j].page
  <2>1. PICK b \in B : els[i].rows = b.rows /\ els[i].size = b.size /\ els[i].page = b.page
    BY <1>6 DEF ElementsOf
  <2> QED
    BY <1>3, <2>1
<1>9. \A i \in 1 .. Len(els) : RowsFit(els[i])
  <2> TAKE i \in 1 .. Len(els)
  <2>1. PICK j \in DOMAIN file.blocks :
          els[i].rows = file.blocks[j].rows /\ els[i].size = file.blocks[j].size
    BY <1>8
  <2>2. file.blocks[j].rows # <<>> =>
          /\ Total(file.blocks[j].rows) = file.blocks[j].size
          /\ \A r \in DOMAIN file.blocks[j].rows : file.blocks[j].rows[r] > 0
    BY ParsersAssumption
  <2>3. file.blocks[j] \in Block
    BY <1>2
  <2>4. file.blocks[j].rows \in Seq(Nat)
    BY <2>3 DEF Block
  <2>5. DOMAIN file.blocks[j].rows = 1 .. Len(file.blocks[j].rows)
    BY <2>4
  <2> QED
    BY <2>1, <2>2, <2>5 DEF RowsFit
<1>10. \/ \A i \in 1 .. Len(els) : els[i].page = 0
       \/ \A i \in 1 .. Len(els) : els[i].page > 0
  <2>1. CASE \A k \in DOMAIN file.blocks : file.blocks[k].page = 0
    BY <1>8, <2>1
  <2>2. CASE \A k \in DOMAIN file.blocks : file.blocks[k].page > 0
    BY <1>8, <2>2
  <2> QED
    BY <2>1, <2>2, ParsersAssumption
<1>11. Parsed(els)
  BY <1>7, <1>9, <1>10 DEF Parsed
<1> QED
  BY <1>4, <1>11

-----------------------------------------------------------------------------
(* The turns of _merge_undersized. *)

LEMMA FoldedIs ==
  ASSUME NEW a \in Chunk, NEW c \in Chunk
  PROVE  /\ Folded(a, c) \in Chunk
         /\ Folded(a, c).kind = c.kind /\ Folded(a, c).page = c.page
         /\ Folded(a, c).body = a.body \o c.body
         /\ Folded(a, c).clause = a.clause /\ Folded(a, c).split = c.split
<1>1. /\ c.kind \in {"narrative", "table"} /\ c.body \in Body /\ c.page \in Nat
      /\ c.section \in Seq(Nat) /\ c.clause \in BOOLEAN /\ c.split \in BOOLEAN
      /\ a.body \in Body /\ a.section \in Seq(Nat) /\ a.clause \in BOOLEAN
  BY DEF Chunk
<1>2. PICK body : body = a.body \o c.body
  OBVIOUS
<1>3. body \in Body
  BY <1>1, <1>2 DEF Body
<1>4. PICK section : section = IF a.section # <<>> THEN a.section ELSE c.section
  OBVIOUS
<1>5. section \in Seq(Nat)
  BY <1>1, <1>4
<1>6. PICK d : d = [c EXCEPT !.body = body]
  OBVIOUS
<1>7. /\ d \in Chunk /\ d.kind = c.kind /\ d.page = c.page /\ d.body = body
      /\ d.section = c.section /\ d.split = c.split
  BY <1>1, <1>3, <1>6 DEF Chunk
<1>8. PICK e : e = [d EXCEPT !.clause = a.clause]
  OBVIOUS
<1>9. /\ e \in Chunk /\ e.kind = c.kind /\ e.page = c.page /\ e.body = body
      /\ e.section = c.section /\ e.split = c.split /\ e.clause = a.clause
  BY <1>1, <1>7, <1>8 DEF Chunk
<1>10. PICK f : f = [e EXCEPT !.section = section]
  OBVIOUS
<1>11. /\ f \in Chunk /\ f.kind = c.kind /\ f.page = c.page /\ f.body = body
       /\ f.split = c.split /\ f.clause = a.clause
  BY <1>5, <1>9, <1>10 DEF Chunk
<1>12. Folded(a, c) = f
  BY <1>2, <1>4, <1>6, <1>8, <1>10 DEF Folded
<1> QED
  BY <1>2, <1>11, <1>12

\* The texts of two chunks, one after the other.
Joined(body, a, c, m) ==
  /\ m = Len(a.body) /\ m \in Nat /\ m > 0 /\ Len(c.body) \in Nat \ {0}
  /\ body \in Body /\ Len(body) = m + Len(c.body)
  /\ \A p \in 1 .. m : p \in 1 .. Len(body) /\ body[p] = a.body[p]
  /\ \A p \in 1 .. Len(c.body) : m + p \in 1 .. Len(body) /\ body[m + p] = c.body[p]
  /\ \A p \in 1 .. Len(body) : p \in 1 .. m \/ \E q \in 1 .. Len(c.body) : p = m + q
  /\ StartOf(body) = StartOf(a.body) /\ EndOf(body) = EndOf(c.body)

LEMMA JoinedBodies ==
  ASSUME NEW els, NEW a, Sound(els, a), NEW c, Sound(els, c), NEW body, body = a.body \o c.body
  PROVE  \E m : Joined(body, a, c, m)
<1>1. a.body \in Seq(Piece) /\ c.body \in Seq(Piece)
  BY DEF Sound, Chunk, Body
<1>2. PICK m \in Nat : m = Len(a.body)
  BY <1>1
<1>3. PICK n \in Nat : n = Len(c.body)
  BY <1>1
<1>4. m \in Nat \ {0} /\ n \in Nat \ {0}
  BY <1>2, <1>3, SoundEnds
<1>5. /\ body \in Seq(Piece) /\ Len(body) = m + n
      /\ \A p \in 1 .. m : body[p] = a.body[p]
      /\ \A p \in 1 .. n : body[m + p] = c.body[p]
  <2>1. PICK s : s = a.body
    OBVIOUS
  <2>2. PICK t : t = c.body
    OBVIOUS
  <2>3. s \in Seq(Piece) /\ t \in Seq(Piece) /\ body = s \o t
    BY <1>1, <2>1, <2>2
  <2>4. /\ body \in Seq(Piece) /\ Len(body) = Len(s) + Len(t)
        /\ \A p \in 1 .. Len(s) : body[p] = s[p]
        /\ \A p \in 1 .. Len(t) : body[Len(s) + p] = t[p]
    BY ONLY <2>3, ConcatProperties
  <2> QED
    BY ONLY <1>2, <1>3, <2>1, <2>2, <2>4
<1>6. \A p \in 1 .. m + n : p \in 1 .. m \/ \E q \in 1 .. n : p = m + q
  <2> TAKE p \in 1 .. m + n
  <2>1. p > m => p - m \in 1 .. n /\ p = m + (p - m)
    OBVIOUS
  <2>2. p <= m => p \in 1 .. m
    OBVIOUS
  <2> QED
    BY <2>1, <2>2
<1>7. /\ \A p \in 1 .. m : p \in 1 .. m + n
      /\ \A p \in 1 .. n : m + p \in 1 .. m + n
      /\ 1 \in 1 .. m /\ n \in 1 .. n
  BY <1>4
<1>8. StartOf(body) = StartOf(a.body)
  BY <1>5, <1>7 DEF StartOf
<1>9. EndOf(body) = EndOf(c.body)
  BY <1>3, <1>5, <1>7 DEF EndOf
<1> QED
  <2>1. /\ m = Len(a.body) /\ m \in Nat /\ m > 0 /\ Len(c.body) \in Nat \ {0}
        /\ body \in Body /\ Len(body) = m + Len(c.body)
    BY ONLY <1>2, <1>3, <1>4, <1>5, m \in Nat DEF Body
  <2>2. \A p \in 1 .. m : p \in 1 .. Len(body) /\ body[p] = a.body[p]
    BY ONLY <1>5, <1>7
  <2>3. \A p \in 1 .. Len(c.body) : m + p \in 1 .. Len(body) /\ body[m + p] = c.body[p]
    BY ONLY <1>3, <1>5, <1>7
  <2>4. \A p \in 1 .. Len(body) : p \in 1 .. m \/ \E q \in 1 .. Len(c.body) : p = m + q
    BY ONLY <1>3, <1>5, <1>6
  <2>5. Joined(body, a, c, m)
    BY ONLY <1>8, <1>9, <2>1, <2>2, <2>3, <2>4 DEF Joined
  <2> QED
    BY <2>5

LEMMA FoldedIsCited ==
  ASSUME NEW els, NEW a, Sound(els, a), NEW c, Sound(els, c), a.page = c.page,
         Cited(els, a), Cited(els, c)
  PROVE  Cited(els, Folded(a, c))
<1>1. PICK f : f = Folded(a, c)
  OBVIOUS
<1>2. f.body = a.body \o c.body /\ f.page = c.page
  <2>1. a \in Chunk /\ c \in Chunk
    BY DEF Sound
  <2> QED
    BY <1>1, <2>1, FoldedIs
<1>3. PICK m : Joined(f.body, a, c, m)
  BY <1>2, JoinedBodies
<1>4. /\ m \in Nat /\ m > 0 /\ m = Len(a.body) /\ Len(c.body) \in Nat \ {0}
      /\ Len(f.body) = m + Len(c.body)
      /\ \A p \in 1 .. m : p \in 1 .. Len(f.body) /\ f.body[p] = a.body[p]
      /\ \A p \in 1 .. Len(c.body) : m + p \in 1 .. Len(f.body) /\ f.body[m + p] = c.body[p]
      /\ \A p \in 1 .. Len(f.body) : p \in 1 .. m \/ \E q \in 1 .. Len(c.body) : p = m + q
  BY ONLY <1>3 DEF Joined
<1>5. PICK p \in 1 .. m : FirstReal(els, a.body, p) /\ a.page = els[a.body[p].of].page
  BY <1>4 DEF Cited
<1>6. PICK q \in 1 .. Len(c.body) : FirstReal(els, c.body, q) /\ c.page = els[c.body[q].of].page
  BY DEF Cited
<1>7. CASE els[a.body[p].of].size > Stray
  <2>1. \A r \in 1 .. p - 1 : r \in 1 .. m
    <3>1. m \in Nat
      BY ONLY <1>4
    <3> QED
      BY ONLY <3>1, p \in 1 .. m
  <2>2. FirstReal(els, f.body, p)
    BY <1>4, <1>5, <1>7, <2>1 DEF FirstReal
  <2>3. f.page = els[f.body[p].of].page /\ p \in 1 .. Len(f.body)
    BY <1>2, <1>4, <1>5
  <2> QED
    BY <1>1, <2>2, <2>3 DEF Cited
<1>8. CASE ~(els[a.body[p].of].size > Stray)
  <2>1. p = 1 /\ \A r \in 1 .. m : els[a.body[r].of].size <= Stray
    BY <1>4, <1>5, <1>8 DEF FirstReal
  <2>2. CASE els[c.body[q].of].size > Stray
    <3>1. ASSUME NEW r \in 1 .. (m + q) - 1
          PROVE  els[f.body[r].of].size <= Stray
      <4>1. CASE r \in 1 .. m
        BY <1>4, <2>1, <4>1
      <4>2. CASE r \notin 1 .. m
        <5>1. r - m \in 1 .. q - 1 /\ r - m \in 1 .. Len(c.body) /\ r = m + (r - m)
          BY <1>4, <4>2
        <5>2. f.body[r] = c.body[r - m]
          BY <1>4, <5>1
        <5>3. els[c.body[r - m].of].size <= Stray
          BY <1>6, <5>1 DEF FirstReal
        <5> QED
          BY <5>2, <5>3
      <4> QED
        BY <4>1, <4>2
    <3>2. f.body[m + q] = c.body[q] /\ m + q \in 1 .. Len(f.body)
      BY <1>4
    <3>3. FirstReal(els, f.body, m + q)
      BY <2>2, <3>1, <3>2 DEF FirstReal
    <3>4. f.page = els[f.body[m + q].of].page
      BY <1>2, <1>6, <3>2
    <3> QED
      BY <1>1, <3>2, <3>3, <3>4 DEF Cited
  <2>3. CASE ~(els[c.body[q].of].size > Stray)
    <3>1. \A r \in 1 .. Len(c.body) : els[c.body[r].of].size <= Stray
      BY <1>6, <2>3 DEF FirstReal
    <3>2. \A r \in 1 .. Len(f.body) : els[f.body[r].of].size <= Stray
      <4> TAKE r \in 1 .. Len(f.body)
      <4>1. CASE r \in 1 .. m
        BY <1>4, <2>1, <4>1
      <4>2. ASSUME NEW o \in 1 .. Len(c.body), r = m + o
            PROVE  els[f.body[r].of].size <= Stray
        <5>1. f.body[r] = c.body[o]
          BY <1>4, <4>2
        <5> QED
          BY <3>1, <5>1
      <4> QED
        BY <1>4, <4>1, <4>2
    <3>3. 1 \in 1 .. m /\ 1 \in 1 .. Len(f.body) /\ f.body[1] = a.body[1]
      <4>1. m \in Nat /\ m > 0
        BY ONLY <1>4
      <4>2. 1 \in 1 .. m
        BY ONLY <4>1
      <4> QED
        BY ONLY <1>4, <4>2
    <3>4. \A r \in 1 .. 1 - 1 : FALSE
      OBVIOUS
    <3>5. FirstReal(els, f.body, 1)
      BY <3>2, <3>4 DEF FirstReal
    <3>6. f.page = els[f.body[1].of].page
      BY <1>2, <1>5, <2>1, <3>3
    <3> QED
      BY <1>1, <3>3, <3>5, <3>6 DEF Cited
  <2> QED
    BY <2>2, <2>3
<1> QED
  BY <1>7, <1>8

LEMMA FoldedIsSound ==
  ASSUME NEW els, NEW a, Sound(els, a), NEW c, Sound(els, c),
         a.kind = "narrative", c.kind = "narrative",
         \A p \in 1 .. Len(c.body) : els[c.body[p].of].clause => c.body[p].of = StartOf(a.body)
  PROVE  /\ Sound(els, Folded(a, c))
         /\ StartOf(Folded(a, c).body) = StartOf(a.body)
         /\ EndOf(Folded(a, c).body) = EndOf(c.body)
         /\ Length(Folded(a, c).body) = Length(a.body) + Length(c.body)
         /\ Length(a.body) \in Nat /\ Length(c.body) \in Nat
         /\ \A i, offset : Holds(a, i, offset) \/ Holds(c, i, offset) => Holds(Folded(a, c), i, offset)
<1>1. PICK f : f = Folded(a, c)
  OBVIOUS
<1>2. a \in Chunk /\ c \in Chunk /\ a.body \in Seq(Piece) /\ c.body \in Seq(Piece)
  BY DEF Sound, Chunk, Body
<1>3. f \in Chunk /\ f.body = a.body \o c.body /\ f.kind = "narrative"
  BY <1>1, <1>2, FoldedIs
<1>4. PICK m : Joined(f.body, a, c, m)
  BY <1>3, JoinedBodies
<1>5. /\ m \in Nat /\ m > 0 /\ m = Len(a.body) /\ Len(c.body) \in Nat \ {0}
      /\ Len(f.body) = m + Len(c.body)
      /\ \A p \in 1 .. m : p \in 1 .. Len(f.body) /\ f.body[p] = a.body[p]
      /\ \A p \in 1 .. Len(c.body) : m + p \in 1 .. Len(f.body) /\ f.body[m + p] = c.body[p]
      /\ \A p \in 1 .. Len(f.body) : p \in 1 .. m \/ \E q \in 1 .. Len(c.body) : p = m + q
      /\ StartOf(f.body) = StartOf(a.body) /\ EndOf(f.body) = EndOf(c.body)
  BY ONLY <1>4 DEF Joined
<1>6. ASSUME NEW p \in 1 .. Len(f.body)
      PROVE  /\ f.body[p].of \in 1 .. Len(els) /\ f.body[p].size > 0
             /\ f.body[p].from + f.body[p].size <= els[f.body[p].of].size
             /\ els[f.body[p].of].kind # "table"
             /\ els[f.body[p].of].clause => f.body[p].of = StartOf(f.body)
  <2>1. CASE p \in 1 .. m
    <3>1. f.body[p] = a.body[p] /\ p \in 1 .. Len(a.body)
      BY <1>4, <1>5, <2>1
    <3> QED
      BY <1>5, <3>1 DEF Sound
  <2>2. ASSUME NEW q \in 1 .. Len(c.body), p = m + q
        PROVE  /\ f.body[p].of \in 1 .. Len(els) /\ f.body[p].size > 0
               /\ f.body[p].from + f.body[p].size <= els[f.body[p].of].size
               /\ els[f.body[p].of].kind # "table"
               /\ els[f.body[p].of].clause => f.body[p].of = StartOf(f.body)
    <3>1. f.body[p] = c.body[q]
      BY <1>5, <2>2
    <3> QED
      BY <1>5, <3>1 DEF Sound
  <2> QED
    BY <1>5, <2>1, <2>2
<1>7. Sound(els, f)
  <2>1. f.body # <<>>
    <3>1. PICK n \in Nat : n = Len(c.body)
      BY ONLY <1>5
    <3>2. Len(f.body) = m + n /\ m + n # 0
      <4>1. Len(f.body) = m + n /\ m \in Nat /\ m > 0
        BY ONLY <1>5, <3>1
      <4> QED
        BY ONLY <4>1, n \in Nat
    <3> QED
      BY <3>2
  <2> QED
    BY <1>3, <1>6, <2>1 DEF Sound
<1>8. /\ Length(f.body) = Length(a.body) + Length(c.body)
      /\ Length(a.body) \in Nat /\ Length(c.body) \in Nat
  BY <1>2, <1>3, LengthOfCat, LengthInNat DEF Body
<1>9. /\ DOMAIN f.body = 1 .. Len(f.body) /\ DOMAIN a.body = 1 .. m
      /\ DOMAIN c.body = 1 .. Len(c.body)
  BY <1>2, <1>3, <1>5
<1>10. ASSUME NEW i, NEW offset, Holds(a, i, offset) \/ Holds(c, i, offset)
       PROVE  Holds(f, i, offset)
  <2>1. CASE Holds(a, i, offset)
    <3>1. PICK k \in 1 .. m : /\ a.body[k].of = i
                              /\ a.body[k].from <= offset
                              /\ offset < a.body[k].from + a.body[k].size
      BY <1>9, <2>1 DEF Holds
    <3>2. k \in DOMAIN f.body /\ f.body[k] = a.body[k]
      BY <1>5, <1>9
    <3> QED
      BY <3>1, <3>2 DEF Holds
  <2>2. CASE Holds(c, i, offset)
    <3>1. PICK k \in 1 .. Len(c.body) : /\ c.body[k].of = i
                                        /\ c.body[k].from <= offset
                                        /\ offset < c.body[k].from + c.body[k].size
      BY <1>9, <2>2 DEF Holds
    <3>2. m + k \in DOMAIN f.body /\ f.body[m + k] = c.body[k]
      BY <1>5, <1>9
    <3> QED
      BY <3>1, <3>2 DEF Holds
  <2> QED
    BY <1>10, <2>1, <2>2
<1> QED
  BY <1>1, <1>5, <1>7, <1>8, <1>10

\* c may still be folded into chunk n, and be cited at its page.
Owed(els, ch, c, n) ==
  \/ Cited(els, c)
  \/ Long(c)
  \/ n \in 1 .. Len(ch) /\ ch[n].split /\ Long(ch[n])

\* A clause that goes on in the chunk that ended in c stands first in c.
Leads(els, c, chunk) ==
  els[StartOf(chunk.body)].clause => StartOf(c.body) = StartOf(chunk.body)

Order(mg, ch, n) ==
  /\ \A k, l \in 1 .. Len(mg) : k <= l => StartOf(mg[k].body) <= EndOf(mg[l].body)
  /\ \A k \in 1 .. Len(mg) : \A b \in n .. Len(ch) : StartOf(mg[k].body) <= EndOf(ch[b].body)

HeldIn(cs, i, offset) == \E k \in 1 .. Len(cs) : Holds(cs[k], i, offset)

\* mg is what the chunks before n have become.
Merging(els, ch, mg, n) ==
  /\ n \in 1 .. Len(ch) + 1
  /\ Run(els, ch)
  /\ \A i \in 1 .. Len(els) : els[i].kind # "header_footer" /\ ~OneRow(els, i) => Kept(els, ch, i)
  /\ mg \in Seq(Chunk)
  /\ \A k \in 1 .. Len(mg) : Sound(els, mg[k]) /\ (~mg[k].split => Cited(els, mg[k]))
  /\ Order(mg, ch, n)
  /\ \A j \in 1 .. n - 1 : \A i, offset : Holds(ch[j], i, offset) => HeldIn(mg, i, offset)
  /\ n = 1 => mg = <<>>
  /\ n > 1 => /\ mg # <<>>
              /\ Owed(els, ch, mg[Len(mg)], n)
              /\ Leads(els, mg[Len(mg)], ch[n - 1])

\* What f, the last chunk after a turn, owes to chunk n and to those before it.
LastIs(els, ch, mg, n, m, f) ==
  /\ f \in Chunk /\ Sound(els, f) /\ (~f.split => Cited(els, f))
  /\ \A b \in n .. Len(ch) : StartOf(f.body) <= EndOf(ch[b].body)
  /\ EndOf(f.body) = EndOf(ch[n].body)
  /\ \A i, offset : Holds(ch[n], i, offset) => Holds(f, i, offset)
  /\ \A k \in 1 .. Len(mg) : k \in 1 .. m \/ \A i, offset : Holds(mg[k], i, offset) => Holds(f, i, offset)
  /\ Owed(els, ch, f, n + 1)
  /\ Leads(els, f, ch[n])

LEMMA TurnIsRight ==
  ASSUME NEW els, NEW ch, NEW mg, NEW n \in 1 .. Len(ch), Merging(els, ch, mg, n),
         NEW m \in Nat, m <= Len(mg), NEW f, LastIs(els, ch, mg, n, m, f),
         NEW new, new \in Seq(Chunk), Len(new) = m + 1, new[m + 1] = f,
         \A k \in 1 .. m : new[k] = mg[k]
  PROVE  Merging(els, ch, new, n + 1)
<1>1. Run(els, ch) /\ ch \in Seq(Chunk) /\ mg \in Seq(Chunk)
  BY DEF Merging, Run
<1>2. Len(ch) \in Nat /\ Len(mg) \in Nat /\ n \in Nat
  BY <1>1
<1>3. n + 1 \in 1 .. Len(ch) + 1 /\ (n + 1) - 1 = n /\ n + 1 > 1 /\ n + 1 # 1
  BY ONLY <1>2, n \in 1 .. Len(ch)
<1>4. \A k \in 1 .. m + 1 : k \in 1 .. m \/ k = m + 1
  BY ONLY m \in Nat
<1>5. \A k \in 1 .. m : k \in 1 .. Len(mg) /\ k \in 1 .. m + 1
  BY ONLY <1>2, m \in Nat, m <= Len(mg)
<1>6. m + 1 \in 1 .. m + 1
  BY ONLY m \in Nat
<1>7. new # <<>>
  <2>1. m + 1 # 0
    BY ONLY m \in Nat
  <2> QED
    BY ONLY <2>1, Len(new) = m + 1, new \in Seq(Chunk)
<1>8. \A k \in 1 .. m + 1 : Sound(els, new[k]) /\ (~new[k].split => Cited(els, new[k]))
  BY <1>4, <1>5 DEF Merging, LastIs
<1>9. Order(new, ch, n + 1)
  <2>1. ASSUME NEW k \in 1 .. m + 1, NEW l \in 1 .. m + 1, k <= l
        PROVE  StartOf(new[k].body) <= EndOf(new[l].body)
    <3>1. CASE l \in 1 .. m
      <4>1. k \in 1 .. m
        BY ONLY <2>1, <3>1, m \in Nat
      <4> QED
        BY <1>5, <2>1, <3>1, <4>1 DEF Merging, Order
    <3>2. CASE l = m + 1
      <4>1. n \in n .. Len(ch)
        BY ONLY <1>2, n \in 1 .. Len(ch)
      <4>2. CASE k \in 1 .. m
        <5>1. StartOf(mg[k].body) <= EndOf(ch[n].body)
          BY <1>5, <4>1, <4>2 DEF Merging, Order
        <5> QED
          BY <3>2, <4>2, <5>1 DEF LastIs
      <4>3. CASE k = m + 1
        BY <3>2, <4>1, <4>3 DEF LastIs
      <4> QED
        BY <1>4, <4>2, <4>3
    <3> QED
      BY <1>4, <3>1, <3>2
  <2>2. ASSUME NEW k \in 1 .. m + 1, NEW b \in n + 1 .. Len(ch)
        PROVE  StartOf(new[k].body) <= EndOf(ch[b].body)
    <3>1. b \in n .. Len(ch)
      BY ONLY <1>2, b \in n + 1 .. Len(ch)
    <3>2. CASE k \in 1 .. m
      BY <1>5, <3>1, <3>2 DEF Merging, Order
    <3>3. CASE k = m + 1
      BY <3>1, <3>3 DEF LastIs
    <3> QED
      BY <1>4, <3>2, <3>3
  <2> QED
    BY <2>1, <2>2 DEF Order
<1>10. ASSUME NEW j \in 1 .. n, NEW i, NEW offset, Holds(ch[j], i, offset)
       PROVE  HeldIn(new, i, offset)
  <2>1. Holds(f, i, offset) => HeldIn(new, i, offset)
    BY <1>6 DEF HeldIn
  <2>2. CASE j = n
    BY <1>10, <2>1, <2>2 DEF LastIs
  <2>3. CASE j # n
    <3>1. j \in 1 .. n - 1
      BY ONLY <1>2, <2>3, j \in 1 .. n
    <3>2. HeldIn(mg, i, offset)
      BY <1>10, <3>1 DEF Merging
    <3>3. PICK k \in 1 .. Len(mg) : Holds(mg[k], i, offset)
      BY <3>2 DEF HeldIn
    <3>4. CASE k \in 1 .. m
      <4>1. k \in 1 .. Len(new) /\ Holds(new[k], i, offset)
        BY <1>5, <3>3, <3>4
      <4> QED
        BY <4>1 DEF HeldIn
    <3>5. CASE k \notin 1 .. m
      BY <2>1, <3>3, <3>5 DEF LastIs
    <3> QED
      BY <3>4, <3>5
  <2> QED
    BY <2>2, <2>3
<1>11. /\ Owed(els, ch, new[Len(new)], n + 1)
       /\ Leads(els, new[Len(new)], ch[(n + 1) - 1])
  BY <1>3 DEF LastIs
<1>12. \A i \in 1 .. Len(els) : els[i].kind # "header_footer" /\ ~OneRow(els, i) => Kept(els, ch, i)
  BY DEF Merging
<1> QED
  BY <1>1, <1>3, <1>7, <1>8, <1>9, <1>10, <1>11, <1>12 DEF Merging

\* A chunk that is not folded.
LEMMA AppendIsRight ==
  ASSUME NEW els, NEW ch, NEW mg, NEW n \in 1 .. Len(ch), Merging(els, ch, mg, n)
  PROVE  Merging(els, ch, Append(mg, ch[n]), n + 1)
<1>1. Run(els, ch) /\ ch \in Seq(Chunk) /\ mg \in Seq(Chunk)
  BY DEF Merging, Run
<1>2. Len(ch) \in Nat /\ n \in Nat
  BY <1>1
<1>3. PICK c \in Chunk : c = ch[n]
  BY <1>1
<1>4. PICK m \in Nat : m = Len(mg)
  BY <1>1
<1>5. PICK new : new = Append(mg, c)
  OBVIOUS
<1>6. /\ new \in Seq(Chunk) /\ Len(new) = m + 1 /\ new[m + 1] = c
      /\ \A k \in 1 .. m : new[k] = mg[k]
  BY ONLY <1>1, <1>4, <1>5, c \in Chunk, AppendProperties
<1>7. Sound(els, c) /\ Attributed(els, ch, n)
  BY <1>1, <1>3 DEF Run
<1>8. \A b \in n .. Len(ch) : StartOf(c.body) <= EndOf(ch[b].body)
  <2> TAKE b \in n .. Len(ch)
  <2>1. b \in 1 .. Len(ch) /\ n <= b
    BY ONLY <1>2, n \in 1 .. Len(ch), b \in n .. Len(ch)
  <2> QED
    BY <1>1, <1>3, <2>1 DEF Run
<1>9. LastIs(els, ch, mg, n, m, c)
  <2>1. (~c.split => Cited(els, c)) /\ Owed(els, ch, c, n + 1)
    BY <1>3, <1>7 DEF Attributed, Owed
  <2>2. Leads(els, c, ch[n])
    BY <1>3 DEF Leads
  <2> QED
    BY <1>3, <1>4, <1>7, <1>8, <2>1, <2>2 DEF LastIs
<1>10. m <= Len(mg)
  BY <1>4
<1>11. Merging(els, ch, new, n + 1)
  BY <1>6, <1>9, <1>10, TurnIsRight
<1> QED
  BY <1>3, <1>5, <1>11

\* A chunk that is folded into the one before it.
LEMMA FoldIsRight ==
  ASSUME NEW els, NEW ch, NEW mg, NEW n \in 1 .. Len(ch), Merging(els, ch, mg, n),
         mg # <<>>, n > 1, Folds(Last(mg), ch[n])
  PROVE  Merging(els, ch, Append(Front(mg), Folded(Last(mg), ch[n])), n + 1)
<1>1. Run(els, ch) /\ ch \in Seq(Chunk) /\ mg \in Seq(Chunk)
  BY DEF Merging, Run
<1>2. Len(ch) \in Nat /\ n \in Nat
  BY <1>1
<1>3. PICK c \in Chunk : c = ch[n]
  BY <1>1
<1>4. PICK l \in Nat \ {0} : l = Len(mg)
  BY <1>1
<1>5. PICK m \in Nat : m = l - 1 /\ l = m + 1
  BY <1>4
<1>6. PICK a : a = mg[l]
  OBVIOUS
<1>7. l \in 1 .. l /\ m <= l
  BY ONLY <1>5, l \in Nat \ {0}
<1>8. a \in Chunk /\ Sound(els, a) /\ (~a.split => Cited(els, a))
  BY <1>4, <1>6, <1>7 DEF Merging, Sound
<1>9. Last(mg) = a
  BY ONLY <1>4, <1>6 DEF Last
<1>10. PICK front : front = Front(mg)
  OBVIOUS
<1>11. front \in Seq(Chunk) /\ Len(front) = m /\ \A k \in 1 .. m : front[k] = mg[k]
  <2>1. front = SubSeq(mg, 1, m)
    BY ONLY <1>4, <1>5, <1>10 DEF Front
  <2> QED
    BY ONLY <1>1, <1>4, <1>5, <2>1, SubSeqProperties
<1>12. PICK f : f = Folded(a, c)
  OBVIOUS
<1>13. /\ a.kind # "table" /\ c.kind # "table" /\ ~c.clause
       /\ Length(a.body) < MinChunk /\ a.page = c.page
  BY <1>3, <1>9 DEF Folds
<1>14. a.kind = "narrative" /\ c.kind = "narrative"
  BY <1>8, <1>13 DEF Chunk
<1>15. Sound(els, c) /\ Attributed(els, ch, n) /\ Continues(els, ch, n)
  BY <1>1, <1>3 DEF Run
<1>16. Owed(els, ch, a, n) /\ Leads(els, a, ch[n - 1])
  BY <1>4, <1>6 DEF Merging
<1>17. \A p \in 1 .. Len(c.body) : els[c.body[p].of].clause => c.body[p].of = StartOf(a.body)
  BY <1>3, <1>13, <1>14, <1>15, <1>16 DEF Continues, Leads
<1>18. /\ Sound(els, f) /\ StartOf(f.body) = StartOf(a.body) /\ EndOf(f.body) = EndOf(c.body)
       /\ Length(f.body) = Length(a.body) + Length(c.body)
       /\ Length(a.body) \in Nat /\ Length(c.body) \in Nat
       /\ \A i, offset : Holds(a, i, offset) \/ Holds(c, i, offset) => Holds(f, i, offset)
  BY <1>8, <1>12, <1>14, <1>15, <1>17, FoldedIsSound
<1>19. f \in Chunk /\ f.split = c.split
  BY <1>8, <1>12, FoldedIs
<1>20. ~Long(a)
  <2>1. MinChunk \in Nat
    BY ChunkingAssumption
  <2> QED
    BY ONLY <1>13, <1>18, <2>1 DEF Long
<1>21. Long(c) => Long(f)
  <2>1. MinChunk \in Nat
    BY ChunkingAssumption
  <2> QED
    BY ONLY <1>18, <2>1 DEF Long
<1>22. Cited(els, a) \/ (c.split /\ Long(c))
  BY <1>3, <1>16, <1>20 DEF Owed
<1>23. Cited(els, a) /\ Cited(els, c) => Cited(els, f)
  BY <1>8, <1>12, <1>13, <1>15, FoldedIsCited
<1>24. ~f.split => Cited(els, f)
  BY <1>3, <1>15, <1>19, <1>22, <1>23 DEF Attributed
<1>25. Owed(els, ch, f, n + 1)
  BY <1>3, <1>15, <1>21, <1>22, <1>23 DEF Attributed, Owed
<1>26. \A b \in n .. Len(ch) : StartOf(f.body) <= EndOf(ch[b].body)
  BY <1>4, <1>6, <1>7, <1>18 DEF Merging, Order
<1>27. Leads(els, f, ch[n])
  <2> SUFFICES ASSUME els[StartOf(c.body)].clause
               PROVE  StartOf(f.body) = StartOf(c.body)
    BY <1>3 DEF Leads
  <2>1. 1 \in 1 .. Len(c.body) /\ StartOf(c.body) = c.body[1].of
    BY <1>15, SoundEnds DEF StartOf
  <2> QED
    BY <1>17, <1>18, <2>1
<1>28. \A k \in 1 .. Len(mg) :
         k \in 1 .. m \/ \A i, offset : Holds(mg[k], i, offset) => Holds(f, i, offset)
  <2> TAKE k \in 1 .. Len(mg)
  <2>1. k \in 1 .. m \/ k = l
    BY ONLY <1>4, <1>5, k \in 1 .. Len(mg), m \in Nat
  <2> QED
    BY <1>6, <1>18, <2>1
<1>29. LastIs(els, ch, mg, n, m, f)
  BY <1>3, <1>18, <1>19, <1>24, <1>25, <1>26, <1>27, <1>28 DEF LastIs
<1>30. PICK new : new = Append(front, f)
  OBVIOUS
<1>31. /\ new \in Seq(Chunk) /\ Len(new) = m + 1 /\ new[m + 1] = f
       /\ \A k \in 1 .. m : new[k] = mg[k]
  <2>1. /\ new \in Seq(Chunk) /\ Len(new) = Len(front) + 1 /\ new[Len(front) + 1] = f
        /\ \A k \in 1 .. Len(front) : new[k] = front[k]
    BY ONLY <1>11, <1>19, <1>30, AppendProperties
  <2> QED
    BY ONLY <1>11, <2>1
<1>32. m <= Len(mg)
  BY <1>4, <1>7
<1>33. Merging(els, ch, new, n + 1)
  BY <1>29, <1>31, <1>32, TurnIsRight
<1> QED
  BY <1>3, <1>9, <1>10, <1>12, <1>30, <1>33

-----------------------------------------------------------------------------
(* The inductive invariant. *)

\* What the chunks are, at each stage, to the elements they are made of.
ChunkingInv ==
  /\ file \in Files
  /\ at \in {"stored", "partition", "chunking", "merging", "indexed"} \union Failures
  /\ strategy \in {"none", "fast", "hi_res", "native_tabular"}
  /\ next \in Nat
  /\ Parsed(elements)
  /\ at \in {"stored", "partition"} \union Failures =>
       buffer = <<>> /\ chunks = <<>> /\ merged = <<>>
  /\ at = "chunking" =>
       merged = <<>> /\ buffer \in Seq(Nat) /\ Chunked(elements, chunks, buffer, next)
  /\ at \in {"merging", "indexed"} =>
       buffer = <<>> /\ Merging(elements, chunks, merged, next)
  /\ at = "indexed" => next \notin DOMAIN chunks

LEMMA NothingRead ==
  ASSUME NEW els, Parsed(els)
  PROVE  Chunked(els, <<>>, <<>>, 1)
<1>1. Len(els) \in Nat
  BY DEF Parsed
<1>2. 1 \in 1 .. Len(els) + 1
  BY <1>1
<1>3. PICK none \in Seq(Chunk) : none = <<>> /\ Len(none) = 0
  BY EmptySeq
<1>4. \A k \in 1 .. 0 : FALSE
  OBVIOUS
<1>5. Run(els, none) /\ Between(none, 0, Begins(<<>>, 1))
  BY <1>3, <1>4 DEF Run, Between
<1>6. \A i \in 1 .. 1 - 1 : FALSE
  OBVIOUS
<1> QED
  BY <1>2, <1>3, <1>5, <1>6 DEF Chunked

LEMMA NothingMerged ==
  ASSUME NEW els, Parsed(els), NEW ch, Chunked(els, ch, <<>>, Len(els) + 1)
  PROVE  Merging(els, ch, <<>>, 1)
<1>1. Run(els, ch) /\ Len(ch) \in Nat /\ Len(els) \in Nat
  BY DEF Chunked, Run, Parsed
<1>2. 1 \in 1 .. Len(ch) + 1 /\ (Len(els) + 1) - 1 = Len(els) /\ ~(1 > 1)
  BY <1>1
<1>3. PICK none \in Seq(Chunk) : none = <<>> /\ Len(none) = 0
  BY EmptySeq
<1>4. \A k \in 1 .. 0 : FALSE
  OBVIOUS
<1>5. Order(none, ch, 1)
  BY <1>3, <1>4 DEF Order
<1>6. \A i : ~Waits(<<>>, i)
  BY <1>4 DEF Waits
<1>7. \A i \in 1 .. Len(els) : els[i].kind # "header_footer" /\ ~OneRow(els, i) => Kept(els, ch, i)
  BY <1>2, <1>6 DEF Chunked
<1>8. \A j \in 1 .. 1 - 1 : FALSE
  OBVIOUS
<1>9. \A k \in 1 .. Len(none) : FALSE
  BY <1>3, <1>4
<1>10. Merging(els, ch, none, 1)
  BY <1>1, <1>2, <1>5, <1>7, <1>8, <1>9 DEF Merging
<1> QED
  BY <1>3, <1>10

\* flush: what was gathered becomes chunks.
LEMMA FlushedIsRight ==
  ASSUME Parsed(elements), NEW n, Chunked(elements, chunks, buffer, n)
  PROVE  Chunked(elements, Flushed(buffer), <<>>, n)
<1>1. CASE buffer = <<>>
  BY <1>1 DEF Flushed
<1>2. CASE buffer # <<>>
  BY <1>2, FlushIsRight DEF Flushed
<1> QED
  BY <1>1, <1>2

LEMMA GatherIsRight ==
  ASSUME Parsed(elements), buffer \in Seq(Nat), NEW n \in 1 .. Len(elements),
         Chunked(elements, chunks, buffer, n),
         elements[n].kind \notin {"table", "header_footer"}, Gather(n)
  PROVE  buffer' \in Seq(Nat) /\ Chunked(elements, chunks', buffer', n + 1)
<1> DEFINE opens == elements[n].kind = "title" \/ (buffer # <<>> /\ elements[n].clause)
<1>1. PICK before : before = IF opens THEN Flushed(buffer) ELSE chunks
  OBVIOUS
<1>2. PICK waiting : waiting = IF opens THEN <<>> ELSE buffer
  OBVIOUS
<1>3. /\ waiting \in Seq(Nat) /\ Chunked(elements, before, waiting, n)
      /\ waiting = <<>> \/ ~elements[n].clause
  <2>1. CASE opens
    <3>1. before = Flushed(buffer) /\ waiting = <<>>
      BY ONLY <1>1, <1>2, <2>1
    <3>2. <<>> \in Seq(Nat)
      BY ONLY EmptySeq
    <3> QED
      BY <3>1, <3>2, FlushedIsRight
  <2>2. CASE ~opens
    <3>1. before = chunks /\ waiting = buffer
      BY ONLY <1>1, <1>2, <2>2
    <3> QED
      BY <2>2, <3>1
  <2> QED
    BY ONLY <2>1, <2>2
<1>4. PICK held : held = Append(waiting, n)
  OBVIOUS
<1>5. held # <<>> /\ held \in Seq(Nat) /\ Chunked(elements, before, held, n + 1)
  BY <1>3, <1>4, HoldIsRight
<1>6. \/ chunks' = before \o Narrative(held) /\ buffer' = <<>>
      \/ chunks' = before /\ buffer' = held
  BY <1>1, <1>2, <1>4 DEF Gather
<1>7. CASE chunks' = before \o Narrative(held) /\ buffer' = <<>>
  <2>1. Chunked(elements, before \o Narrative(held), <<>>, n + 1)
    BY <1>5, FlushIsRight
  <2>2. <<>> \in Seq(Nat)
    BY ONLY EmptySeq
  <2> QED
    BY <1>7, <2>1, <2>2
<1>8. CASE chunks' = before /\ buffer' = held
  BY <1>5, <1>8
<1> QED
  BY <1>6, <1>7, <1>8

LEMMA TakenIsRight ==
  ASSUME ChunkingInv, TakeElement
  PROVE  buffer' \in Seq(Nat) /\ Chunked(elements, chunks', buffer', next + 1)
<1>1. /\ Parsed(elements) /\ buffer \in Seq(Nat)
      /\ Chunked(elements, chunks, buffer, next) /\ next \in DOMAIN elements
  BY DEF ChunkingInv, TakeElement
<1>2. PICK n \in 1 .. Len(elements) : n = next
  BY <1>1 DEF Parsed
<1>3. \/ elements[n].kind = "header_footer" /\ chunks' = chunks /\ buffer' = buffer
      \/ elements[n].kind = "table" /\ EmitTable(n)
      \/ elements[n].kind \notin {"table", "header_footer"} /\ Gather(n)
  BY <1>2 DEF TakeElement
<1>4. CASE elements[n].kind = "header_footer" /\ chunks' = chunks /\ buffer' = buffer
  BY <1>1, <1>2, <1>4, SkipIsRight
<1>5. CASE elements[n].kind = "table" /\ EmitTable(n)
  <2>1. Chunked(elements, Flushed(buffer), <<>>, n)
    BY <1>1, <1>2, FlushedIsRight
  <2>2. Chunked(elements, Flushed(buffer) \o Table(n), <<>>, n + 1)
    BY <1>1, <2>1, TableIsRight
  <2>3. <<>> \in Seq(Nat)
    BY ONLY EmptySeq
  <2> QED
    BY <1>2, <1>5, <2>2, <2>3 DEF EmitTable
<1>6. CASE elements[n].kind \notin {"table", "header_footer"} /\ Gather(n)
  BY <1>1, <1>2, <1>6, GatherIsRight
<1> QED
  BY <1>3, <1>4, <1>5, <1>6

LEMMA MergedIsRight ==
  ASSUME ChunkingInv, Merge
  PROVE  Merging(elements, chunks, merged', next + 1)
<1>1. Merging(elements, chunks, merged, next) /\ next \in DOMAIN chunks
  BY DEF ChunkingInv, Merge
<1>2. chunks \in Seq(Chunk)
  BY <1>1 DEF Merging, Run
<1>3. PICK n \in 1 .. Len(chunks) : n = next
  BY <1>1, <1>2
<1>4. CASE merged # <<>> /\ Folds(Last(merged), chunks[n]) /\ n > 1
  BY <1>1, <1>3, <1>4, FoldIsRight DEF Merge
<1>5. CASE ~(merged # <<>> /\ Folds(Last(merged), chunks[n]))
  BY <1>1, <1>3, <1>5, AppendIsRight DEF Merge
<1>6. merged # <<>> => n > 1
  <2>1. n = 1 \/ n > 1
    OBVIOUS
  <2>2. n = 1 => merged = <<>>
    BY <1>1, <1>3 DEF Merging
  <2> QED
    BY <2>1, <2>2
<1> QED
  BY <1>4, <1>5, <1>6

LEMMA ChunkingBegins == Init => ChunkingInv
<1> SUFFICES ASSUME Init PROVE ChunkingInv
  OBVIOUS
<1>1. Parsed(<<>>)
  <2>1. <<>> \in Seq(Element) /\ Len(<<>>) = 0
    BY EmptySeq
  <2>2. \A i \in 1 .. 0 : FALSE
    OBVIOUS
  <2> QED
    BY <2>1, <2>2 DEF Parsed
<1> QED
  BY <1>1 DEF Init, ChunkingInv

LEMMA ChunkingGoesOn == ChunkingInv /\ [Next]_vars => ChunkingInv'
<1> SUFFICES ASSUME ChunkingInv, [Next]_vars PROVE ChunkingInv'
  OBVIOUS
<1>1. CASE ChooseStrategy
  <2>1. /\ at = "stored" /\ at' \in {"encrypted", "corrupt", "partition"}
        /\ strategy' \in {"none", "fast", "hi_res", "native_tabular"}
        /\ UNCHANGED <<file, elements, next, buffer, chunks, merged>>
    BY <1>1 DEF ChooseStrategy, ChunkingInv
  <2> QED
    BY <2>1 DEF ChunkingInv, Failures
<1>2. CASE Partition
  <2>1. /\ at = "partition" /\ next' = 1 /\ at' \in Failures \union {"chunking"}
        /\ UNCHANGED <<file, strategy, buffer, chunks, merged>>
    BY <1>2 DEF Partition, Failures
  <2>2. Parsed(elements')
    <3>1. elements' = elements \/ elements' = Converted(Partitioned)
      BY <1>2 DEF Partition
    <3> QED
      BY <3>1, PartitionIsParsed DEF ChunkingInv
  <2>3. Chunked(elements', <<>>, <<>>, 1) /\ <<>> \in Seq(Nat)
    BY <2>2, NothingRead, EmptySeq
  <2>4. at' \notin {"merging", "indexed"} /\ (at' = "chunking" \/ at' \in Failures)
    BY <2>1 DEF Failures
  <2>5. buffer = <<>> /\ chunks = <<>> /\ merged = <<>>
    BY <2>1 DEF ChunkingInv
  <2> QED
    BY <2>1, <2>2, <2>3, <2>4, <2>5 DEF ChunkingInv
<1>3. CASE TakeElement
  <2>1. /\ at = "chunking" /\ next' = next + 1
        /\ UNCHANGED <<file, at, strategy, elements, merged>>
    BY <1>3 DEF TakeElement
  <2>2. buffer' \in Seq(Nat) /\ Chunked(elements, chunks', buffer', next + 1)
    BY <1>3, TakenIsRight
  <2>3. next + 1 \in Nat /\ at \notin Failures
    BY <2>1 DEF ChunkingInv, Failures
  <2> QED
    BY <2>1, <2>2, <2>3 DEF ChunkingInv
<1>4. CASE LastFlush
  <2>1. /\ at = "chunking" /\ at' = "merging" /\ next' = 1 /\ next \notin DOMAIN elements
        /\ chunks' = Flushed(buffer) /\ buffer' = <<>>
        /\ UNCHANGED <<file, strategy, elements, merged>>
    BY <1>4 DEF LastFlush
  <2>2. Parsed(elements) /\ merged = <<>> /\ Chunked(elements, chunks, buffer, next)
    BY <2>1 DEF ChunkingInv
  <2>3. next = Len(elements) + 1
    <3>1. Len(elements) \in Nat /\ DOMAIN elements = 1 .. Len(elements)
      BY <2>2 DEF Parsed
    <3>2. next \in 1 .. Len(elements) + 1
      BY <2>2 DEF Chunked
    <3> QED
      BY ONLY <2>1, <3>1, <3>2
  <2>4. Merging(elements, chunks', <<>>, 1)
    BY <2>1, <2>2, <2>3, FlushedIsRight, NothingMerged
  <2>5. at' \notin Failures \union {"stored", "partition", "chunking", "indexed"}
    BY <2>1 DEF Failures
  <2> QED
    BY <2>1, <2>2, <2>4, <2>5 DEF ChunkingInv
<1>5. CASE Merge
  <2>1. /\ at = "merging" /\ next' = next + 1
        /\ UNCHANGED <<file, at, strategy, elements, buffer, chunks>>
    BY <1>5 DEF Merge
  <2>2. Merging(elements, chunks, merged', next + 1)
    BY <1>5, MergedIsRight
  <2>3. next + 1 \in Nat /\ at \notin Failures
    BY <2>1 DEF ChunkingInv, Failures
  <2> QED
    BY <2>1, <2>2, <2>3 DEF ChunkingInv
<1>6. CASE Finish
  <2>1. /\ at = "merging" /\ next \notin DOMAIN chunks
        /\ at' = IF merged = <<>> THEN "empty" ELSE "indexed"
        /\ UNCHANGED <<file, strategy, elements, next, buffer, chunks, merged>>
    BY <1>6 DEF Finish
  <2>2. buffer = <<>> /\ Merging(elements, chunks, merged, next)
    BY <2>1 DEF ChunkingInv
  <2>3. CASE merged = <<>>
    <3>1. at' = "empty"
      BY <2>1, <2>3
    <3>2. chunks = <<>>
      <4>1. chunks \in Seq(Chunk) /\ next \in 1 .. Len(chunks) + 1 /\ ~(next > 1)
        BY <2>2, <2>3 DEF Merging, Run
      <4>2. DOMAIN chunks = 1 .. Len(chunks) /\ Len(chunks) \in Nat
        BY <4>1
      <4>3. Len(chunks) = 0
        BY ONLY <2>1, <4>1, <4>2
      <4> QED
        BY ONLY <4>1, <4>3, EmptySeq
    <3> QED
      BY <2>1, <2>2, <2>3, <3>1, <3>2 DEF ChunkingInv, Failures
  <2>4. CASE merged # <<>>
    <3>1. at' = "indexed" /\ "indexed" \notin Failures
      BY <2>1, <2>4 DEF Failures
    <3> QED
      BY <2>1, <2>2, <3>1 DEF ChunkingInv
  <2> QED
    BY <2>3, <2>4
<1>7. CASE UNCHANGED vars
  BY <1>7 DEF vars, ChunkingInv
<1> QED
  BY <1>1, <1>2, <1>3, <1>4, <1>5, <1>6, <1>7 DEF Next

\* At every stage, the chunks are a run over the document: the text that is not
\* in them waits in the buffer, or is in the chunks that are still to be merged.
THEOREM ChunkingInvariant == Spec => []ChunkingInv
BY ChunkingBegins, ChunkingGoesOn, PTL DEF Spec

-----------------------------------------------------------------------------
(* What the runs check. *)

LEMMA MergedChunks ==
  ASSUME ChunkingInv
  PROVE  /\ merged \in Seq(Chunk) /\ DOMAIN merged = 1 .. Len(merged)
         /\ \A k \in 1 .. Len(merged) :
              Sound(elements, merged[k]) /\ (~merged[k].split => Cited(elements, merged[k]))
<1>1. CASE at \in {"merging", "indexed"}
  BY <1>1 DEF ChunkingInv, Merging
<1>2. CASE at \notin {"merging", "indexed"}
  <2>1. merged = <<>>
    BY <1>2 DEF ChunkingInv
  <2>2. <<>> \in Seq(Chunk) /\ Len(<<>>) = 0 /\ DOMAIN <<>> = 1 .. 0
    BY EmptySeq
  <2>3. \A k \in 1 .. 0 : FALSE
    OBVIOUS
  <2> QED
    BY <2>1, <2>2, <2>3
<1> QED
  BY <1>1, <1>2

LEMMA ChunksAreSound ==
  ASSUME ChunkingInv
  PROVE  /\ chunks \in Seq(Chunk) /\ DOMAIN chunks = 1 .. Len(chunks)
         /\ \A k \in 1 .. Len(chunks) : Sound(elements, chunks[k])
<1>1. CASE at \in {"chunking", "merging", "indexed"}
  BY <1>1 DEF ChunkingInv, Chunked, Merging, Run
<1>2. CASE at \notin {"chunking", "merging", "indexed"}
  <2>1. chunks = <<>>
    BY <1>2 DEF ChunkingInv
  <2>2. <<>> \in Seq(Chunk) /\ Len(<<>>) = 0 /\ DOMAIN <<>> = 1 .. 0
    BY EmptySeq
  <2>3. \A k \in 1 .. 0 : FALSE
    OBVIOUS
  <2> QED
    BY <2>1, <2>2, <2>3
<1> QED
  BY <1>1, <1>2

LEMMA SoundIsChunk ==
  ASSUME Parsed(elements), NEW c, Sound(elements, c)
  PROVE  IsChunk(c)
<1>1. c.kind \in {"narrative", "table"} /\ c.clause \in BOOLEAN /\ c.split \in BOOLEAN
  BY DEF Sound, Chunk
<1>2. c.body # <<>> /\ DOMAIN c.body = 1 .. Len(c.body)
  BY DEF Sound, Chunk, Body
<1>3. DOMAIN elements = 1 .. Len(elements)
  BY DEF Parsed
<1> QED
  BY <1>1, <1>2, <1>3 DEF Sound, IsChunk

LEMMA BufferIsRead ==
  ASSUME ChunkingInv
  PROVE  \A k \in DOMAIN buffer : buffer[k] \in DOMAIN elements
<1>1. CASE buffer = <<>>
  BY <1>1
<1>2. CASE buffer # <<>>
  <2>1. Gatherable(elements, buffer) /\ Parsed(elements)
    BY <1>2 DEF ChunkingInv, Chunked
  <2>2. DOMAIN buffer = 1 .. Len(buffer) /\ DOMAIN elements = 1 .. Len(elements)
    BY <2>1 DEF Gatherable, Parsed
  <2> QED
    BY <2>1, <2>2 DEF Gatherable
<1> QED
  BY <1>1, <1>2

\* Whatever the file, and however it is cut and folded, a chunk is a non-empty
\* run of pieces that lie within the elements they are taken from.
THEOREM ChunkingTypes == Spec => []ChunkingTypeOK
<1>1. ChunkingInv => ChunkingTypeOK
  <2> SUFFICES ASSUME ChunkingInv PROVE ChunkingTypeOK
    OBVIOUS
  <2>1. Parsed(elements) /\ file \in File
    BY ChunkingAssumption DEF ChunkingInv
  <2>2. \A k \in DOMAIN chunks : IsChunk(chunks[k])
    BY <2>1, ChunksAreSound, SoundIsChunk
  <2>3. \A k \in DOMAIN merged : IsChunk(merged[k])
    BY <2>1, MergedChunks, SoundIsChunk
  <2> QED
    BY <2>1, <2>2, <2>3, BufferIsRead DEF ChunkingTypeOK, ChunkingInv
<1> QED
  BY <1>1, ChunkingInvariant, PTL

\* No chunk holds a table and something else, no part of a table is without its
\* header, and no numbered clause is glued to what precedes it.
THEOREM ChunksKeepBoundaries == Spec => []BoundariesHold
<1>1. ChunkingInv => BoundariesHold
  <2> SUFFICES ASSUME ChunkingInv, NEW k \in DOMAIN merged
               PROVE  LET body == merged[k].body
                      IN /\ \A p \in DOMAIN body :
                              elements[body[p].of].kind = "table" \/ elements[body[p].of].clause
                                => body[p].of = body[1].of
                         /\ merged[k].kind = "table" /\ merged[k].split
                              /\ elements[body[1].of].rows # <<>>
                              => body[1].from = 0 /\ Len(body) > 1
    BY DEF BoundariesHold
  <2>1. PICK c : c = merged[k]
    OBVIOUS
  <2>2. Sound(elements, c)
    BY <2>1, MergedChunks
  <2>3. c.kind \in {"narrative", "table"} /\ DOMAIN c.body = 1 .. Len(c.body)
    BY <2>2 DEF Sound, Chunk, Body
  <2>4. \A p \in DOMAIN c.body :
          elements[c.body[p].of].kind = "table" \/ elements[c.body[p].of].clause
            => c.body[p].of = c.body[1].of
    BY <2>2, <2>3 DEF Sound, StartOf
  <2>5. c.kind = "table" /\ c.split /\ elements[c.body[1].of].rows # <<>>
          => c.body[1].from = 0 /\ Len(c.body) > 1
    BY <2>2 DEF Sound, StartOf
  <2> QED
    BY <2>1, <2>4, <2>5
<1> QED
  BY <1>1, ChunkingInvariant, PTL

\* Every word of an indexed document is in a chunk, page furniture and tables of
\* one enormous row aside, and the chunks follow the document.
THEOREM ChunksKeepContent == Spec => []ContentIsKept
<1>1. ChunkingInv => ContentIsKept
  <2> SUFFICES ASSUME ChunkingInv, at = "indexed" PROVE ContentIsKept
    BY DEF ContentIsKept
  <2>1. /\ Merging(elements, chunks, merged, next) /\ Parsed(elements)
        /\ next \notin DOMAIN chunks /\ next \in Nat
    BY DEF ChunkingInv
  <2>2. /\ DOMAIN chunks = 1 .. Len(chunks) /\ Len(chunks) \in Nat
        /\ DOMAIN elements = 1 .. Len(elements)
    BY <2>1 DEF Merging, Run, Parsed
  <2>3. DOMAIN merged = 1 .. Len(merged)
    BY MergedChunks
  <2>4. \A j \in 1 .. Len(chunks) : j \in 1 .. next - 1
    <3>1. next \in 1 .. Len(chunks) + 1
      BY <2>1 DEF Merging
    <3> QED
      BY ONLY <2>1, <2>2, <3>1
  <2>5. ASSUME NEW i \in DOMAIN elements, elements[i].kind # "header_footer", ~HeaderOnly(i),
               NEW offset \in 0 .. elements[i].size - 1
        PROVE  \E k \in DOMAIN merged : Holds(merged[k], i, offset)
    <3>1. Kept(elements, chunks, i)
      BY <2>1, <2>2, <2>5 DEF Merging, OneRow, HeaderOnly
    <3>2. PICK j \in 1 .. Len(chunks) : Holds(chunks[j], i, offset)
      BY <3>1 DEF Kept
    <3>3. HeldIn(merged, i, offset)
      BY <2>1, <2>4, <3>2 DEF Merging
    <3> QED
      BY <2>3, <3>3 DEF HeldIn
  <2>6. ASSUME NEW k \in DOMAIN merged, NEW l \in DOMAIN merged, k <= l
        PROVE  Head(merged[k].body).of <= Last(merged[l].body).of
    <3>1. StartOf(merged[k].body) <= EndOf(merged[l].body)
      BY <2>1, <2>3, <2>6 DEF Merging, Order
    <3>2. PICK b : b = merged[k].body
      OBVIOUS
    <3>3. b \in Seq(Piece) /\ b # <<>>
      BY <2>3, <3>2, MergedChunks DEF Sound, Chunk, Body
    <3>4. Head(b) = b[1]
      BY ONLY <3>3
    <3> QED
      BY <3>1, <3>2, <3>4 DEF StartOf, EndOf, Last
  <2> QED
    BY <2>5, <2>6 DEF ContentIsKept
<1> QED
  BY <1>1, ChunkingInvariant, PTL

\* A chunk that is not part of a cut text is cited at the page its first real
\* content stands on.
THEOREM ChunksAreCited == Spec => []CitesItsPage
<1>1. ChunkingInv => CitesItsPage
  <2> SUFFICES ASSUME ChunkingInv, NEW k \in DOMAIN merged, ~merged[k].split
               PROVE  LET held == [p \in DOMAIN merged[k].body |-> elements[merged[k].body[p].of]]
                          real == {p \in DOMAIN held : held[p].size > Stray}
                      IN IF real = {} THEN merged[k].page = held[1].page
                         ELSE merged[k].page = held[CHOOSE p \in real : \A q \in real : p <= q].page
    BY DEF CitesItsPage
  <2>1. PICK c : c = merged[k]
    OBVIOUS
  <2>2. Sound(elements, c) /\ Cited(elements, c) /\ Parsed(elements)
    BY <2>1, MergedChunks DEF ChunkingInv
  <2>3. PICK held : held = [p \in DOMAIN c.body |-> elements[c.body[p].of]]
    OBVIOUS
  <2>4. PICK n \in Nat \ {0} : n = Len(c.body)
    BY <2>2, SoundEnds
  <2>5. DOMAIN c.body = 1 .. n
    BY <2>2, <2>4 DEF Sound, Chunk, Body
  <2>6. DOMAIN held = 1 .. n /\ \A p \in 1 .. n : held[p] = elements[c.body[p].of]
    BY <2>3, <2>5
  <2>7. PICK real : real = {p \in DOMAIN held : held[p].size > Stray}
    OBVIOUS
  <2>8. PICK p \in 1 .. n : FirstReal(elements, c.body, p) /\ c.page = elements[c.body[p].of].page
    BY <2>2, <2>4 DEF Cited
  <2>9. Stray \in Nat /\ \A q \in 1 .. n : held[q].size \in Nat
    <3>1. \A q \in 1 .. n : c.body[q].of \in 1 .. Len(elements)
      BY <2>2, <2>4 DEF Sound
    <3>2. \A q \in 1 .. n : elements[c.body[q].of].size \in Nat
      BY <2>2, <3>1, ParsedElements
    <3>3. Stray \in Nat
      BY ChunkingAssumption
    <3> QED
      BY ONLY <2>6, <3>2, <3>3
  <2>10. CASE held[p].size > Stray
    <3>1. p \in real
      BY <2>6, <2>7, <2>10
    <3>2. \A q \in real : q \in 1 .. n /\ held[q].size > Stray
      BY <2>6, <2>7
    <3>3. \A q \in real : p <= q
      <4> TAKE q \in real
      <4>1. q \in 1 .. n /\ held[q].size > Stray
        BY <3>2
      <4>2. q \in 1 .. p - 1 => held[q].size <= Stray
        BY <2>6, <2>8, <4>1 DEF FirstReal
      <4>3. q \notin 1 .. p - 1
        BY ONLY <2>9, <4>1, <4>2
      <4> QED
        BY ONLY <4>1, <4>3, p \in 1 .. n, n \in Nat \ {0}
    <3>4. \A r \in real : (\A q \in real : r <= q) => r = p
      BY <2>4, <3>1, <3>2, <3>3
    <3>5. (CHOOSE r \in real : \A q \in real : r <= q) = p
      BY <3>1, <3>3, <3>4
    <3>6. real # {} /\ c.page = held[CHOOSE r \in real : \A q \in real : r <= q].page
      BY <2>6, <2>8, <3>1, <3>5
    <3> QED
      BY <2>1, <2>3, <2>7, <3>6
  <2>11. CASE ~(held[p].size > Stray)
    <3>1. p = 1 /\ \A q \in 1 .. n : elements[c.body[q].of].size <= Stray
      BY <2>4, <2>6, <2>8, <2>11 DEF FirstReal
    <3>2. real = {}
      BY <2>6, <2>7, <2>9, <3>1
    <3>3. c.page = held[1].page
      BY <2>6, <2>8, <3>1
    <3> QED
      BY <2>1, <2>3, <2>7, <3>2, <3>3
  <2> QED
    BY <2>10, <2>11
<1> QED
  BY <1>1, ChunkingInvariant, PTL

=============================================================================
