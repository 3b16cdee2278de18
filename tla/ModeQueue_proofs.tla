-------------------------- MODULE ModeQueue_proofs --------------------------
(***************************************************************************)
(* The safety theorems of ModeQueue, for every value of the constants.     *)
(***************************************************************************)
EXTENDS ModeQueue, SequenceTheorems, FiniteSetTheorems, WellFoundedInduction, TLAPS

-----------------------------------------------------------------------------
(* Folds.  The handlers are folds over a message, a list of nicks, the     *)
(* queue.  Folded is a fold whose operator is a function, so that a lemma  *)
(* may speak of any; each fold of the model is shown to be one.            *)

\* A nonempty set of natural numbers has a least element.
LEMMA Least ==
  ASSUME NEW T \in SUBSET Nat, T # {}
  PROVE  \E n \in T : \A k \in T : ~ (k < n)
<1>1. IsWellFoundedOn(OpToRel(<, Nat), Nat)
  BY NatLessThanWellFounded, Zenon
<1>2. OpToRel(<, Nat) = {ss \in Nat \X Nat : ss[1] < ss[2]}
  BY Zenon DEF OpToRel
<1> DEFINE R == {ss \in Nat \X Nat : ss[1] < ss[2]}
<1>3. IsWellFoundedOn(R, Nat)
  BY <1>1, <1>2, Zenon
<1>4. \A k, n \in Nat : k < n => <<k, n>> \in R
  OBVIOUS
<1> HIDE DEF R
<1>5. \E n \in T : \A k \in T : ~ (<<k, n>> \in R)
  BY <1>3, WFMin, Zenon
<1> QED BY <1>4, <1>5

\* Induction up to n, with a set in the place of a predicate.
LEMMA Induct ==
  ASSUME NEW n \in Nat, NEW P, 0 \in P, \A i \in 1..n : i - 1 \in P => i \in P
  PROVE  \A i \in 0..n : i \in P
<1> DEFINE T == {i \in 0..n : i \notin P}
<1>1. SUFFICES ASSUME T # {}  PROVE FALSE  OBVIOUS
<1>2. T \in SUBSET Nat  OBVIOUS
<1>3. PICK m \in T : \A k \in T : ~ (k < m)  BY <1>1, <1>2, Least
<1>4. m \in 1..n /\ m - 1 \in 0..n /\ m - 1 < m  BY <1>3
<1>5. m - 1 \in P  BY <1>3, <1>4
<1> QED  BY <1>3, <1>4, <1>5

\* The places of a sequence up to i, of which i is the last.
LEMMA UpTo ==
  ASSUME NEW i \in Nat, i # 0
  PROVE  Max(1..i) = i /\ (1..i) \ {i} = 1..(i - 1) /\ 1..i # {}
<1>1. i \in 1..i /\ \A y \in 1..i : i >= y  OBVIOUS
<1>2. \A x \in 1..i : (\A y \in 1..i : x >= y) => x = i  OBVIOUS
<1> QED  BY <1>1, <1>2 DEF Max

\* h folds with step every set of places up to i, greatest place last.
FoldsUpTo(h, i, T, base, step) ==
  /\ h \in [SUBSET (1..i) -> T]
  /\ \A S \in SUBSET (1..i) :
       h[S] = IF S = {} THEN base ELSE step[<<h[S \ {Max(S)}], Max(S)>>]

\* There is such a function.
LEMMA SubsetFold ==
  ASSUME NEW T, NEW n \in Nat, NEW base \in T, NEW step \in [T \X (1..n) -> T]
  PROVE  \E h : FoldsUpTo(h, n, T, base, step)
<1> DEFINE P == {i \in 0..n : \E h : FoldsUpTo(h, i, T, base, step)}
<1>1. 0 \in P
  <2> DEFINE h == [S \in SUBSET (1..0) |-> base]
  <2>1. SUBSET (1..0) = {{}}  OBVIOUS
  <2>2. FoldsUpTo(h, 0, T, base, step)  BY <2>1 DEF FoldsUpTo
  <2>3. 0 \in 0..n  OBVIOUS
  <2> HIDE DEF h
  <2> QED  BY <2>2, <2>3
<1>2. ASSUME NEW i \in 1..n, i - 1 \in P  PROVE i \in P
  <2>1. PICK g : FoldsUpTo(g, i - 1, T, base, step)
    BY <1>2
  <2> DEFINE h == [S \in SUBSET (1..i) |->
                     IF i \in S THEN step[<<g[S \ {i}], i>>] ELSE g[S]]
  <2>2. ASSUME NEW S \in SUBSET (1..i)
        PROVE  /\ S \ {i} \in SUBSET (1..(i - 1))
               /\ i \notin S => S \in SUBSET (1..(i - 1))
               /\ i \in S => Max(S) = i
    <3>1. S \ {i} \in SUBSET (1..(i - 1))  BY <2>2
    <3>2. i \notin S => S \in SUBSET (1..(i - 1))  BY <2>2
    <3>3. ASSUME i \in S  PROVE Max(S) = i
      <4>1. i \in S /\ \A y \in S : i >= y  BY <3>3
      <4>2. \A x \in S : (\A y \in S : x >= y) => x = i  BY <3>3
      <4> QED  BY <4>1, <4>2 DEF Max
    <3> QED  BY <3>1, <3>2, <3>3
  <2>3. ASSUME NEW S \in SUBSET (1..i)  PROVE h[S] \in T
    <3>1. i \in S => g[S \ {i}] \in T  BY <2>1, <2>2 DEF FoldsUpTo
    <3>2. i \notin S => g[S] \in T  BY <2>1, <2>2 DEF FoldsUpTo
    <3>3. i \in S => step[<<g[S \ {i}], i>>] \in T  BY <3>1
    <3> QED  BY <3>2, <3>3
  <2>4. ASSUME NEW S \in SUBSET (1..i)
        PROVE  h[S] = IF S = {} THEN base ELSE step[<<h[S \ {Max(S)}], Max(S)>>]
    <3>1. CASE i \in S
      <4>1. h[S] = step[<<g[S \ {i}], i>>]  BY <3>1
      <4>2. S \ {i} \in SUBSET (1..i) /\ i \notin S \ {i}  OBVIOUS
      <4>3. h[S \ {i}] = g[S \ {i}]  BY <4>2
      <4>4. Max(S) = i /\ S # {}  BY <3>1, <2>2
      <4> HIDE DEF h
      <4> QED  BY <4>1, <4>3, <4>4
    <3>2. CASE i \notin S
      <4>1. S \in SUBSET (1..(i - 1))  BY <3>2, <2>2
      <4>2. g[S] = IF S = {} THEN base ELSE step[<<g[S \ {Max(S)}], Max(S)>>]
        BY <4>1, <2>1 DEF FoldsUpTo
      <4>3. h[S] = g[S]  BY <3>2
      <4>4. S \ {Max(S)} \in SUBSET (1..i) /\ i \notin S \ {Max(S)}  BY <3>2
      <4>5. h[S \ {Max(S)}] = g[S \ {Max(S)}]  BY <4>4
      <4> HIDE DEF h
      <4> QED  BY <4>2, <4>3, <4>5
    <3> QED  BY <3>1, <3>2
  <2>5. h = [S \in SUBSET (1..i) |-> h[S]]  OBVIOUS
  <2> HIDE DEF h
  <2>6. FoldsUpTo(h, i, T, base, step)  BY <2>3, <2>4, <2>5 DEF FoldsUpTo
  <2>7. i \in 0..n  OBVIOUS
  <2> QED  BY <2>6, <2>7
<1> HIDE DEF P
<1>3. n \in P
  <2>1. n \in 0..n  OBVIOUS
  <2> QED  BY <1>1, <1>2, <2>1, Induct
<1> QED  BY <1>3 DEF P

\* The types of a fold.
FoldType(T, S, base, step, l) == base \in T /\ step \in [T \X S -> T] /\ l \in Seq(S)

\* f has the results of the steps of a fold, in order.
Steps(f, T, base, step, l) ==
  /\ f \in [0..Len(l) -> T] /\ f[0] = base
  /\ \A i \in 1..Len(l) : f[i] = step[<<f[i - 1], l[i]>>]

\* There is one list of results, of the type of the base.
LEMMA StepsExist ==
  ASSUME NEW T, NEW S, NEW base, NEW step, NEW l, FoldType(T, S, base, step, l)
  PROVE  \E f : Steps(f, T, base, step, l)
<1> USE DEF FoldType
<1> DEFINE n == Len(l)
           P == {i \in 0..n : \E f \in [0..i -> T] :
                    f[0] = base /\ \A j \in 1..i : f[j] = step[<<f[j - 1], l[j]>>]}
<1>1. 0 \in P
  <2> DEFINE f == [i \in 0..0 |-> base]
  <2>1. f \in [0..0 -> T] /\ f[0] = base /\ 1..0 = {} /\ 0 \in 0..n  OBVIOUS
  <2> HIDE DEF f
  <2> QED  BY <2>1
<1>2. ASSUME NEW i \in 1..n, i - 1 \in P  PROVE i \in P
  <2>1. PICK f \in [0..(i - 1) -> T] :
          f[0] = base /\ \A j \in 1..(i - 1) : f[j] = step[<<f[j - 1], l[j]>>]
    BY <1>2
  <2> DEFINE g == [j \in 0..i |-> IF j = i THEN step[<<f[i - 1], l[i]>>] ELSE f[j]]
  <2>2. l[i] \in S /\ i - 1 \in 0..(i - 1) /\ i \in 0..n  OBVIOUS
  <2>3. step[<<f[i - 1], l[i]>>] \in T  BY <2>2
  <2>4. g \in [0..i -> T]  BY <2>3
  <2>5. g[0] = base  BY <2>1
  <2>6. ASSUME NEW j \in 1..i  PROVE g[j] = step[<<g[j - 1], l[j]>>]
    <3>1. g[j - 1] = f[j - 1]  OBVIOUS
    <3>2. CASE j = i
      <4>1. g[i] = step[<<f[i - 1], l[i]>>]  OBVIOUS
      <4> HIDE DEF g
      <4> QED  BY <3>1, <3>2, <4>1
    <3>3. CASE j # i
      <4>1. j \in 1..(i - 1) /\ g[j] = f[j]  BY <3>3
      <4> QED  BY <2>1, <3>1, <4>1
    <3> QED  BY <3>2, <3>3
  <2> HIDE DEF g
  <2> QED  BY <2>2, <2>4, <2>5, <2>6
<1>3. n \in P
  <2> HIDE DEF P
  <2>1. n \in Nat /\ n \in 0..n  OBVIOUS
  <2> HIDE DEF n
  <2> QED  BY <1>1, <1>2, <2>1, Induct
<1> QED  BY <1>3 DEF Steps

\* A nonempty set of places has its greatest.
LEMMA MaxIn ==
  ASSUME NEW n \in Nat, NEW A \in SUBSET (1..n), A # {}
  PROVE  Max(A) \in A
<1> DEFINE T == {n - a : a \in A}
<1>1. T \in SUBSET Nat /\ T # {}
  <2>1. \A a \in A : n - a \in Nat  OBVIOUS
  <2> QED  BY <2>1
<1>2. PICK m \in T : \A k \in T : ~ (k < m)  BY <1>1, Least
<1>3. n - m \in A /\ \A y \in A : n - m >= y  BY <1>2
<1> QED  BY <1>3 DEF Max

\* h is what a fold chooses: the fold of every set of places.
Chooses(h, T, S, base, step, l) ==
  /\ h \in [SUBSET (DOMAIN l) -> T]
  /\ \A A \in SUBSET (DOMAIN l) :
       /\ A = {} => h[A] = base
       /\ A # {} => /\ h[A \ {Max(A)}] \in T /\ l[Max(A)] \in S
                    /\ h[A] = step[<<h[A \ {Max(A)}], l[Max(A)]>>]

\* There is such a function.
LEMMA Choosable ==
  ASSUME NEW T, NEW S, NEW base, NEW step, NEW l, FoldType(T, S, base, step, l)
  PROVE  \E h : Chooses(h, T, S, base, step, l)
<1> USE DEF FoldType
<1> DEFINE n == Len(l)
           at == [p \in T \X (1..n) |-> step[<<p[1], l[p[2]]>>]]
<1>0. n \in Nat /\ DOMAIN l = 1..n /\ \A i \in 1..n : l[i] \in S  OBVIOUS
<1> HIDE DEF n
<1>1. at \in [T \X (1..n) -> T]  BY <1>0
<1>2. \A t \in T, i \in 1..n : at[<<t, i>>] = step[<<t, l[i]>>]  OBVIOUS
<1> HIDE DEF at
<1>3. PICK h : FoldsUpTo(h, n, T, base, at)  BY <1>0, <1>1, SubsetFold
<1>4. ASSUME NEW A \in SUBSET (1..n), A # {}
      PROVE  /\ h[A \ {Max(A)}] \in T /\ l[Max(A)] \in S
             /\ h[A] = step[<<h[A \ {Max(A)}], l[Max(A)]>>]
  <2>1. Max(A) \in 1..n  BY <1>0, <1>4, MaxIn
  <2>2. h[A \ {Max(A)}] \in T  BY <1>3 DEF FoldsUpTo
  <2>3. h[A] = at[<<h[A \ {Max(A)}], Max(A)>>]  BY <1>3, <1>4 DEF FoldsUpTo
  <2> QED  BY <1>0, <1>2, <2>1, <2>2, <2>3
<1>5. h \in [SUBSET (1..n) -> T] /\ \A A \in SUBSET (1..n) : A = {} => h[A] = base
  BY <1>3 DEF FoldsUpTo
<1> QED  BY <1>0, <1>4, <1>5 DEF Chooses

\* g is like that for those places that it gives a result of the type.
Chosen(g, T, S, base, step, l) ==
  /\ g[{}] = base
  /\ \A A \in SUBSET (DOMAIN l) :
       A # {} /\ g[A \ {Max(A)}] \in T /\ l[Max(A)] \in S =>
       g[A] = step[<<g[A \ {Max(A)}], l[Max(A)]>>]

\* What such a function has for all places is the last result.
LEMMA ChosenIsLast ==
  ASSUME NEW T, NEW S, NEW base, NEW step, NEW l, FoldType(T, S, base, step, l),
         NEW f, Steps(f, T, base, step, l),
         NEW g, Chosen(g, T, S, base, step, l)
  PROVE  g[DOMAIN l] = f[Len(l)]
<1> USE DEF FoldType
<1> DEFINE n == Len(l)
           P == {i \in 0..n : g[1..i] = f[i]}
<1>0. n \in Nat /\ DOMAIN l = 1..n  OBVIOUS
<1>1. 0 \in P
  <2>1. 1..0 = {} /\ 0 \in 0..n  OBVIOUS
  <2> QED  BY <2>1 DEF Steps, Chosen
<1>2. ASSUME NEW i \in 1..n, i - 1 \in P  PROVE i \in P
  <2>1. Max(1..i) = i /\ (1..i) \ {i} = 1..(i - 1) /\ 1..i # {}  BY UpTo
  <2>2. g[1..(i - 1)] = f[i - 1] /\ f[i - 1] \in T
    <3>1. i - 1 \in 0..n  BY <1>0
    <3> QED  BY <1>2, <3>1 DEF Steps
  <2>3. 1..i \in SUBSET (DOMAIN l) /\ i \in 0..n  BY <1>0
  <2>7. l[i] \in S  BY <1>0
  <2>4. g[1..i] = step[<<g[1..(i - 1)], l[i]>>]  BY <2>1, <2>2, <2>3, <2>7 DEF Chosen
  <2>5. f[i] = step[<<f[i - 1], l[i]>>]  BY DEF Steps
  <2> QED  BY <2>2, <2>3, <2>4, <2>5
<1> HIDE DEF P
<1>3. n \in P
  <2>1. n \in 0..n  OBVIOUS
  <2> HIDE DEF n
  <2> QED  BY <1>0, <1>1, <1>2, <2>1, Induct
<1> QED  BY <1>0, <1>3 DEF P

\* A fold whose operator is a function.
Folded(step, base, l) == FoldLeft(LAMBDA t, x : step[<<t, x>>], base, l)

LEMMA FoldedIsLast ==
  ASSUME NEW T, NEW S, NEW base, NEW step, NEW l, FoldType(T, S, base, step, l),
         NEW f, Steps(f, T, base, step, l)
  PROVE  Folded(step, base, l) = f[Len(l)]
<1> DEFINE R(g) == [A \in SUBSET (DOMAIN l) |->
                      IF A = {} THEN base ELSE step[<<g[A \ {Max(A)}], l[Max(A)]>>]]
<1>1. Folded(step, base, l) = (CHOOSE g : g = R(g))[DOMAIN l]
  BY DEF Folded, FoldLeft, MapThenFoldSet
<1>2. \E g : g = R(g)
  <2>1. PICK h : Chooses(h, T, S, base, step, l)
    BY Choosable
  <2>2. h = R(h)  BY <2>1 DEF Chooses
  <2> QED  BY <2>2
<1>3. PICK g : g = R(g) /\ Folded(step, base, l) = g[DOMAIN l]  BY <1>1, <1>2
<1>4. g[{}] = base  BY <1>3
<1>5. \A A \in SUBSET (DOMAIN l) : A # {} =>
         g[A] = step[<<g[A \ {Max(A)}], l[Max(A)]>>]
  BY <1>3
<1> HIDE DEF R
<1>6. Chosen(g, T, S, base, step, l)  BY <1>4, <1>5 DEF Chosen
<1>7. g[DOMAIN l] = f[Len(l)]  BY <1>6, ChosenIsLast
<1> QED  BY <1>3, <1>7

LEMMA ChosenIsFolded ==
  ASSUME NEW T, NEW S, NEW base, NEW step, NEW l, FoldType(T, S, base, step, l),
         NEW g, Chosen(g, T, S, base, step, l)
  PROVE  g[DOMAIN l] = Folded(step, base, l)
<1>1. PICK f : Steps(f, T, base, step, l)  BY StepsExist
<1>2. g[DOMAIN l] = f[Len(l)]  BY <1>1, ChosenIsLast
<1>3. Folded(step, base, l) = f[Len(l)]  BY <1>1, FoldedIsLast
<1> QED  BY <1>2, <1>3

\* A step given pair by pair.
OnPairs(T, S, step) ==
  /\ step = [p \in T \X S |-> step[p]]
  /\ \A t \in T, x \in S : step[<<t, x>>] \in T

LEMMA PairFold ==
  ASSUME NEW T, NEW S, NEW step, OnPairs(T, S, step), NEW base \in T, NEW l \in Seq(S)
  PROVE  FoldType(T, S, base, step, l)
<1> USE DEF OnPairs
<1>1. ASSUME NEW p \in T \X S  PROVE step[p] \in T
  <2>1. p = <<p[1], p[2]>> /\ p[1] \in T /\ p[2] \in S  OBVIOUS
  <2> QED  BY <2>1
<1>2. step \in [T \X S -> T]  BY <1>1
<1> QED  BY <1>2 DEF FoldType

\* A place before the end of a sequence, and what is there.
LEMMA AppendAt ==
  ASSUME NEW S, NEW l \in Seq(S), NEW x \in S
  PROVE  /\ Append(l, x) \in Seq(S) /\ Len(Append(l, x)) = Len(l) + 1
         /\ Append(l, x)[Len(l) + 1] = x
         /\ \A i \in 1..Len(l) : Append(l, x)[i] = l[i]
OBVIOUS

LEMMA FoldedType ==
  ASSUME NEW T, NEW S, NEW base, NEW step, NEW l, FoldType(T, S, base, step, l)
  PROVE  Folded(step, base, l) \in T
<1>1. PICK f : Steps(f, T, base, step, l)  BY StepsExist
<1>2. Folded(step, base, l) = f[Len(l)]  BY <1>1, FoldedIsLast
<1>3. Len(l) \in 0..Len(l)  BY DEF FoldType
<1> QED  BY <1>1, <1>2, <1>3 DEF Steps

LEMMA FoldedEmpty ==
  ASSUME NEW T, NEW S, NEW base, NEW step, FoldType(T, S, base, step, <<>>)
  PROVE  Folded(step, base, <<>>) = base
<1>1. PICK f : Steps(f, T, base, step, <<>>)  BY StepsExist
<1>2. Folded(step, base, <<>>) = f[Len(<<>>)]  BY <1>1, FoldedIsLast
<1> QED  BY <1>1, <1>2 DEF Steps

LEMMA FoldedAppend ==
  ASSUME NEW T, NEW S, NEW base, NEW step, NEW l, FoldType(T, S, base, step, l),
         NEW x \in S
  PROVE  Folded(step, base, Append(l, x)) = step[<<Folded(step, base, l), x>>]
<1>0. l \in Seq(S)  BY DEF FoldType
<1> DEFINE k == Append(l, x)
<1>9. /\ k \in Seq(S) /\ Len(k) = Len(l) + 1 /\ k[Len(l) + 1] = x
      /\ \A i \in 1..Len(l) : k[i] = l[i]
  BY <1>0, AppendAt
<1> HIDE DEF k
<1>1. FoldType(T, S, base, step, k)  BY <1>9 DEF FoldType
<1>2. PICK f : Steps(f, T, base, step, k)  BY <1>1, StepsExist
<1>3. Folded(step, base, k) = f[Len(k)]
  BY <1>1, <1>2, FoldedIsLast
<1> DEFINE g == [i \in 0..Len(l) |-> f[i]]
<1>4. Steps(g, T, base, step, l)
  <2>1. \A i \in 0..Len(l) : i \in 0..Len(k)  BY <1>0, <1>9
  <2>2. g \in [0..Len(l) -> T] /\ g[0] = base  BY <1>2, <2>1 DEF Steps
  <2>3. ASSUME NEW i \in 1..Len(l)  PROVE g[i] = step[<<g[i - 1], l[i]>>]
    <3>1. k[i] = l[i] /\ i \in 1..Len(k)  BY <1>0, <1>9
    <3>2. g[i] = f[i] /\ g[i - 1] = f[i - 1]  OBVIOUS
    <3>3. f[i] = step[<<f[i - 1], l[i]>>]  BY <1>2, <3>1 DEF Steps
    <3> HIDE DEF g
    <3> QED  BY <3>2, <3>3
  <2> HIDE DEF g
  <2> QED  BY <2>2, <2>3 DEF Steps
<1>5. Folded(step, base, l) = g[Len(l)]
  <2> HIDE DEF g
  <2> QED  BY <1>4, FoldedIsLast
<1>6. g[Len(l)] = f[Len(l)]  BY <1>0
<1>7. f[Len(l) + 1] = step[<<f[Len(l)], x>>]
  <2>1. Len(l) + 1 \in 1..Len(k) /\ (Len(l) + 1) - 1 = Len(l)  BY <1>0, <1>9
  <2>2. k[Len(l) + 1] = x  BY <1>0, <1>9
  <2> QED  BY <1>2, <2>1, <2>2 DEF Steps
<1> HIDE DEF g
<1> QED  BY <1>3, <1>5, <1>6, <1>7, <1>9 DEF k

\* What every step keeps, the fold keeps.
LEMMA FoldedKeeps ==
  ASSUME NEW T, NEW S, NEW base, NEW step, NEW l, FoldType(T, S, base, step, l),
         NEW P, base \in P,
         \A t \in P, i \in 1..Len(l) : t \in T => step[<<t, l[i]>>] \in P
  PROVE  Folded(step, base, l) \in P
<1>1. PICK f : Steps(f, T, base, step, l)  BY StepsExist
<1>2. Folded(step, base, l) = f[Len(l)]  BY <1>1, FoldedIsLast
<1> DEFINE Q == {i \in 0..Len(l) : f[i] \in P}
<1>3. Len(l) \in Nat /\ 0 \in 0..Len(l) /\ Len(l) \in 0..Len(l)  BY DEF FoldType
<1>4. 0 \in Q  BY <1>1, <1>3 DEF Steps
<1>5. ASSUME NEW i \in 1..Len(l), i - 1 \in Q  PROVE i \in Q
  <2>1. i \in 0..Len(l) /\ i - 1 \in 0..Len(l)  BY <1>3
  <2>2. f[i - 1] \in P /\ f[i - 1] \in T  BY <1>1, <1>5, <2>1 DEF Steps
  <2>3. f[i] = step[<<f[i - 1], l[i]>>]  BY <1>1 DEF Steps
  <2> QED  BY <2>1, <2>2, <2>3
<1>6. Len(l) \in Q
  <2> HIDE DEF Q
  <2> QED  BY <1>3, <1>4, <1>5, Induct
<1> QED  BY <1>2, <1>6

\* Induction over sequences, with a set in the place of a predicate.
LEMMA SeqInduct ==
  ASSUME NEW S, NEW P, <<>> \in P,
         \A l \in Seq(S), x \in S : l \in P => Append(l, x) \in P
  PROVE  \A l \in Seq(S) : l \in P
<1> TAKE l \in Seq(S)
<1> DEFINE Pre(i) == SubSeq(l, 1, i)
           Q == {i \in 0..Len(l) : Pre(i) \in P}
<1>1. Len(l) \in Nat /\ 0 \in 0..Len(l) /\ Len(l) \in 0..Len(l)  OBVIOUS
<1>2. 0 \in Q
  <2>1. Pre(0) = <<>>  OBVIOUS
  <2> QED  BY <1>1, <2>1
<1>3. ASSUME NEW i \in 1..Len(l), i - 1 \in Q  PROVE i \in Q
  <2>1. i \in 0..Len(l) /\ l[i] \in S  OBVIOUS
  <2>2. Pre(i - 1) \in Seq(S)  OBVIOUS
  <2>3. Pre(i) = Append(Pre(i - 1), l[i])  OBVIOUS
  <2>4. Pre(i - 1) \in P  BY <1>3
  <2> HIDE DEF Pre
  <2>5. Append(Pre(i - 1), l[i]) \in P  BY <2>1, <2>2, <2>4
  <2> QED  BY <2>1, <2>3, <2>5
<1>4. Len(l) \in Q
  <2> HIDE DEF Q
  <2> QED  BY <1>1, <1>2, <1>3, Induct
<1>5. Pre(Len(l)) = l  OBVIOUS
<1> QED  BY <1>4, <1>5

LEMMA CatAppend ==
  ASSUME NEW S, NEW a \in Seq(S), NEW b \in Seq(S), NEW x \in S
  PROVE  a \o Append(b, x) = Append(a \o b, x) /\ a \o b \in Seq(S)
OBVIOUS

\* A fold over two sequences in a row is a fold of the second on the first's.
LEMMA FoldedCat ==
  ASSUME NEW T, NEW S, NEW base, NEW step, NEW l, FoldType(T, S, base, step, l),
         NEW m \in Seq(S)
  PROVE  Folded(step, base, l \o m) = Folded(step, Folded(step, base, l), m)
<1> DEFINE mid == Folded(step, base, l)
           P == {k \in Seq(S) : Folded(step, base, l \o k) = Folded(step, mid, k)}
<1>1. base \in T /\ step \in [T \X S -> T] /\ l \in Seq(S)  BY DEF FoldType
<1>2. mid \in T  BY FoldedType
<1> HIDE DEF mid
<1>3. \A k \in Seq(S) : FoldType(T, S, mid, step, k) /\ FoldType(T, S, base, step, l \o k)
  BY <1>1, <1>2 DEF FoldType
<1>4. <<>> \in P
  <2>1. l \o <<>> = l /\ <<>> \in Seq(S)  BY <1>1
  <2>2. Folded(step, mid, <<>>) = mid  BY <1>3, <2>1, FoldedEmpty
  <2> QED  BY <2>1, <2>2 DEF mid
<1>5. ASSUME NEW k \in Seq(S), NEW x \in S, k \in P  PROVE Append(k, x) \in P
  <2>1. l \o Append(k, x) = Append(l \o k, x) /\ l \o k \in Seq(S)  BY <1>1, CatAppend
  <2> DEFINE lk == l \o k
  <2>2. FoldType(T, S, base, step, lk) /\ FoldType(T, S, mid, step, k)  BY <1>3
  <2>3. Folded(step, base, lk) = Folded(step, mid, k)  BY <1>5
  <2> HIDE DEF lk
  <2>4. Folded(step, base, Append(lk, x)) = step[<<Folded(step, base, lk), x>>]
    BY <2>2, FoldedAppend
  <2>5. Folded(step, mid, Append(k, x)) = step[<<Folded(step, mid, k), x>>]
    BY <2>2, FoldedAppend
  <2>6. Folded(step, base, l \o Append(k, x)) = Folded(step, mid, Append(k, x))
    BY <2>1, <2>3, <2>4, <2>5 DEF lk
  <2>7. Append(k, x) \in Seq(S)  OBVIOUS
  <2> QED  BY <2>6, <2>7
<1> HIDE DEF P
<1>6. m \in P  BY <1>4, <1>5, SeqInduct
<1> QED  BY <1>6 DEF P, mid

-----------------------------------------------------------------------------
(* Only.                                                                   *)

OnlyStep(S, X) == [p \in Seq(X) \X X |-> IF p[2] \in S THEN Append(p[1], p[2]) ELSE p[1]]

LEMMA OnlyFold ==
  ASSUME NEW X, NEW l \in Seq(X), NEW S
  PROVE  /\ FoldType(Seq(X), X, <<>>, OnlyStep(S, X), l)
         /\ Only(l, S) = Folded(OnlyStep(S, X), <<>>, l)
<1> DEFINE step == OnlyStep(S, X)
           Taken(t, x) == IF x \in S THEN Append(t, x) ELSE t
           R(g) == [A \in SUBSET (DOMAIN l) |->
                      IF A = {} THEN <<>> ELSE Taken(g[A \ {Max(A)}], l[Max(A)])]
<1>1. \A t \in Seq(X), x \in X : step[<<t, x>>] = Taken(t, x) /\ Taken(t, x) \in Seq(X)
  BY DEF OnlyStep
<1>2. step = [p \in Seq(X) \X X |-> step[p]]  BY DEF OnlyStep
<1>3. Only(l, S) = (CHOOSE g : g = R(g))[DOMAIN l]
  BY DEF Only, FoldLeft, MapThenFoldSet
<1> HIDE DEF Taken, step
<1>3a. OnPairs(Seq(X), X, step)  BY <1>1, <1>2 DEF OnPairs
<1>3b. <<>> \in Seq(X)  OBVIOUS
<1>4. FoldType(Seq(X), X, <<>>, step, l)  BY <1>3a, <1>3b, PairFold
<1>5. PICK h : Chooses(h, Seq(X), X, <<>>, step, l)  BY <1>4, Choosable
<1>6. h = R(h)  BY <1>1, <1>5 DEF Chooses
<1>7. PICK g : g = R(g) /\ Only(l, S) = g[DOMAIN l]  BY <1>3, <1>6
<1>8. Chosen(g, Seq(X), X, <<>>, step, l)  BY <1>1, <1>7 DEF Chosen
<1> QED  BY <1>4, <1>7, <1>8, ChosenIsFolded DEF step

LEMMA OnlySeq ==
  ASSUME NEW X, NEW l \in Seq(X), NEW S
  PROVE  Only(l, S) \in Seq(X)
BY OnlyFold, FoldedType

LEMMA OnlyEmpty == ASSUME NEW S PROVE Only(<<>>, S) = <<>>
<1>1. <<>> \in Seq({})  OBVIOUS
<1> QED  BY <1>1, OnlyFold, FoldedEmpty

LEMMA OnlyAppend ==
  ASSUME NEW X, NEW l \in Seq(X), NEW x \in X, NEW S
  PROVE  Only(Append(l, x), S) = IF x \in S THEN Append(Only(l, S), x) ELSE Only(l, S)
<1> DEFINE k == Append(l, x)
<1>1. k \in Seq(X)  OBVIOUS
<1>2. Folded(OnlyStep(S, X), <<>>, k) = OnlyStep(S, X)[<<Only(l, S), x>>]
  BY OnlyFold, FoldedAppend
<1>3. OnlyStep(S, X)[<<Only(l, S), x>>] = IF x \in S THEN Append(Only(l, S), x) ELSE Only(l, S)
  BY OnlySeq DEF OnlyStep
<1> HIDE DEF k
<1>4. Only(k, S) = Folded(OnlyStep(S, X), <<>>, k)  BY <1>1, OnlyFold
<1> QED  BY <1>2, <1>3, <1>4 DEF k

\* The members of a sequence.
LEMMA ToSetAppend ==
  ASSUME NEW X, NEW l \in Seq(X), NEW x \in X
  PROVE  ToSet(Append(l, x)) = ToSet(l) \cup {x}
<1>1. DOMAIN Append(l, x) = 1..(Len(l) + 1) /\ DOMAIN l = 1..Len(l)  OBVIOUS
<1>2. Append(l, x)[Len(l) + 1] = x /\ \A i \in 1..Len(l) : Append(l, x)[i] = l[i]
  BY AppendAt
<1>3. 1..(Len(l) + 1) = 1..Len(l) \cup {Len(l) + 1}  OBVIOUS
<1> QED  BY <1>1, <1>2, <1>3 DEF ToSet

LEMMA ToSetType ==
  ASSUME NEW X, NEW l \in Seq(X)
  PROVE  ToSet(l) \subseteq X /\ (\A i \in 1..Len(l) : l[i] \in ToSet(l)) /\ l \in Seq(ToSet(l))
BY DEF ToSet

LEMMA ToSetEmpty == ToSet(<<>>) = {}
BY DEF ToSet

LEMMA OnlyToSet ==
  ASSUME NEW X, NEW l \in Seq(X), NEW S
  PROVE  ToSet(Only(l, S)) = ToSet(l) \cap S
<1> DEFINE P == {k \in Seq(X) : ToSet(Only(k, S)) = ToSet(k) \cap S}
<1>1. <<>> \in P
  <2>1. <<>> \in Seq(X)  OBVIOUS
  <2> QED  BY <2>1, OnlyEmpty, ToSetEmpty
<1>2. ASSUME NEW k \in Seq(X), NEW x \in X, k \in P  PROVE Append(k, x) \in P
  <2>1. Append(k, x) \in Seq(X) /\ ToSet(Append(k, x)) = ToSet(k) \cup {x}
    BY ToSetAppend
  <2>2. Only(k, S) \in Seq(X) /\ ToSet(Only(k, S)) = ToSet(k) \cap S  BY <1>2, OnlySeq
  <2>3. CASE x \in S
    <3>1. Only(Append(k, x), S) = Append(Only(k, S), x)  BY <2>3, OnlyAppend
    <3>2. ToSet(Append(Only(k, S), x)) = ToSet(Only(k, S)) \cup {x}  BY <2>2, ToSetAppend
    <3> QED  BY <2>1, <2>2, <2>3, <3>1, <3>2
  <2>4. CASE x \notin S
    <3>1. Only(Append(k, x), S) = Only(k, S)  BY <2>4, OnlyAppend
    <3> QED  BY <2>1, <2>2, <2>4, <3>1
  <2> QED  BY <2>3, <2>4
<1> HIDE DEF P
<1>3. l \in P  BY <1>1, <1>2, SeqInduct
<1> QED  BY <1>3 DEF P

-----------------------------------------------------------------------------
(* Reading a line.                                                         *)

Sign == {"+", "-"}
Word == Sign \cup ModeLetters
Line == [server : BOOLEAN, flags : Seq(Word), args : Seq(Args)]
ReadT == [sign : Sign, args : Seq(Args), changes : Seq(Change)]

Takes(r, ch) == ch \in {"o", "b", "k"} \/ (ch = "l" /\ r.sign = "+")
ArgOf(r, ch) == IF Takes(r, ch) /\ r.args # <<>> THEN Head(r.args) ELSE NoArg

ReadOp(r, ch) ==
  IF ch \in {"+", "-"} THEN [r EXCEPT !.sign = ch]
  ELSE [r EXCEPT !.changes = Append(@, [sign |-> r.sign, letter |-> ch, arg |-> ArgOf(r, ch)]),
                 !.args = IF Takes(r, ch) /\ @ # <<>> THEN Tail(@) ELSE @]
ReadStep == [p \in ReadT \X Word |-> ReadOp(p[1], p[2])]
ReadStart(args) == [sign |-> "+", args |-> args, changes |-> <<>>]

\* Where the reader is after these letters.
Reading(flags, args) == Folded(ReadStep, ReadStart(args), flags)

LEMMA ArgNames ==
  /\ NoArg \in Args /\ Me \in Args /\ Key \in Args /\ Low \in Args /\ Users \subseteq Args
  /\ Sign \cap ModeLetters = {}
BY DEF Args, Sign, ModeLetters, Modes

LEMMA ReadOpType ==
  ASSUME NEW r \in ReadT, NEW ch \in Word
  PROVE  ReadOp(r, ch) \in ReadT
<1>1. CASE ch \in Sign  BY <1>1 DEF ReadOp, ReadT, Sign
<1>2. CASE ch \in ModeLetters
  <2>1. ch \notin {"+", "-"}  BY <1>2, ArgNames DEF Sign
  <2>2. ArgOf(r, ch) \in Args
    <3>1. r.args \in Seq(Args)  BY DEF ReadT
    <3>2. r.args # <<>> => Head(r.args) \in Args  BY <3>1
    <3> QED  BY <3>2, ArgNames DEF ArgOf
  <2> DEFINE new == [sign |-> r.sign, letter |-> ch, arg |-> ArgOf(r, ch)]
  <2>3. new \in Change  BY <1>2, <2>2 DEF Change, ReadT, Sign
  <2> HIDE DEF new
  <2>4. Append(r.changes, new) \in Seq(Change)  BY <2>3 DEF ReadT
  <2>5. (IF Takes(r, ch) /\ r.args # <<>> THEN Tail(r.args) ELSE r.args) \in Seq(Args)
    BY DEF ReadT
  <2>6. ReadOp(r, ch) = [r EXCEPT !.changes = Append(@, new),
                                  !.args = IF Takes(r, ch) /\ @ # <<>> THEN Tail(@) ELSE @]
    BY <2>1 DEF ReadOp, new
  <2> QED  BY <2>4, <2>5, <2>6 DEF ReadT
<1> QED  BY <1>1, <1>2 DEF Word

LEMMA ReadFold ==
  ASSUME NEW flags \in Seq(Word), NEW args \in Seq(Args)
  PROVE  FoldType(ReadT, Word, ReadStart(args), ReadStep, flags)
<1>1. ReadStep = [p \in ReadT \X Word |-> ReadStep[p]]  BY DEF ReadStep
<1>2. \A t \in ReadT, x \in Word : ReadStep[<<t, x>>] \in ReadT
  BY ReadOpType DEF ReadStep
<1>3. OnPairs(ReadT, Word, ReadStep)  BY <1>1, <1>2 DEF OnPairs
<1>4. ReadStart(args) \in ReadT  BY DEF ReadStart, ReadT, Sign
<1> QED  BY <1>3, <1>4, PairFold

LEMMA ReadLineIs ==
  ASSUME NEW line \in Line
  PROVE  ReadLine(line) = Reading(line.flags, line.args).changes
<1> DEFINE l == line.flags
           base == ReadStart(line.args)
           R(g) == [A \in SUBSET (DOMAIN l) |->
                      IF A = {} THEN base ELSE ReadOp(g[A \ {Max(A)}], l[Max(A)])]
<1>0. l \in Seq(Word) /\ line.args \in Seq(Args)  BY DEF Line
<1>1. \A t \in ReadT, x \in Word : ReadStep[<<t, x>>] = ReadOp(t, x)
  BY DEF ReadStep
<1>3. ReadLine(line) = (CHOOSE g : g = R(g))[DOMAIN l].changes
  BY DEF ReadLine, ReadOp, Takes, ArgOf, ReadStart, FoldLeft, MapThenFoldSet
<1>4. FoldType(ReadT, Word, base, ReadStep, l)  BY <1>0, ReadFold
<1> HIDE DEF base, l
<1>5. PICK h : Chooses(h, ReadT, Word, base, ReadStep, l)  BY <1>4, Choosable
<1>6. h = R(h)  BY <1>1, <1>5 DEF Chooses
<1>7. PICK g : g = R(g) /\ ReadLine(line) = g[DOMAIN l].changes  BY <1>3, <1>6
<1>8. Chosen(g, ReadT, Word, base, ReadStep, l)  BY <1>1, <1>7 DEF Chosen
<1>9. g[DOMAIN l] = Folded(ReadStep, base, l)  BY <1>4, <1>8, ChosenIsFolded
<1> QED  BY <1>7, <1>9 DEF Reading, base, l

LEMMA ReadingType ==
  ASSUME NEW flags \in Seq(Word), NEW args \in Seq(Args)
  PROVE  Reading(flags, args) \in ReadT
BY ReadFold, FoldedType DEF Reading

LEMMA ReadingEmpty ==
  ASSUME NEW args \in Seq(Args)
  PROVE  Reading(<<>>, args) = ReadStart(args)
<1>1. <<>> \in Seq(Word)  OBVIOUS
<1> QED  BY <1>1, ReadFold, FoldedEmpty DEF Reading

LEMMA ReadingAppend ==
  ASSUME NEW flags \in Seq(Word), NEW args \in Seq(Args), NEW ch \in Word
  PROVE  Reading(Append(flags, ch), args) = ReadOp(Reading(flags, args), ch)
<1>1. Folded(ReadStep, ReadStart(args), Append(flags, ch)) =
        ReadStep[<<Folded(ReadStep, ReadStart(args), flags), ch>>]
  BY ReadFold, FoldedAppend
<1>2. Folded(ReadStep, ReadStart(args), flags) \in ReadT  BY ReadingType DEF Reading
<1>3. ReadStep[<<Folded(ReadStep, ReadStart(args), flags), ch>>] =
        ReadOp(Folded(ReadStep, ReadStart(args), flags), ch)
  BY <1>2 DEF ReadStep
<1> QED  BY <1>1, <1>3 DEF Reading

\* The letters take just these arguments, whatever comes after them.
Complete(flags, args) ==
  \A more \in Seq(Args) :
    Reading(flags, args \o more) = [Reading(flags, args) EXCEPT !.args = more]

\* The letters and arguments say these changes, and the last sign was this.
Says(flags, args, sign, changes) ==
  Reading(flags, args) = [sign |-> sign, args |-> <<>>, changes |-> changes]

SaidAs(sign, letter, arg) == [sign |-> sign, letter |-> letter, arg |-> arg]

LEMMA SaysNothing == Says(<<>>, <<>>, "+", <<>>) /\ Complete(<<>>, <<>>)
<1>1. <<>> \in Seq(Args)  OBVIOUS
<1>2. Reading(<<>>, <<>>) = ReadStart(<<>>)  BY <1>1, ReadingEmpty
<1>3. ASSUME NEW more \in Seq(Args)
      PROVE  Reading(<<>>, <<>> \o more) = [Reading(<<>>, <<>>) EXCEPT !.args = more]
  <2>1. <<>> \o more = more  OBVIOUS
  <2>2. Reading(<<>>, more) = ReadStart(more)  BY ReadingEmpty
  <2> QED  BY <1>2, <2>1, <2>2 DEF ReadStart
<1> QED  BY <1>2, <1>3 DEF Says, Complete, ReadStart

LEMMA SignSaid ==
  ASSUME NEW flags \in Seq(Word), NEW args \in Seq(Args), NEW sign, NEW changes,
         Says(flags, args, sign, changes), NEW s \in Sign
  PROVE  /\ Says(Append(flags, s), args, s, changes)
         /\ Complete(flags, args) => Complete(Append(flags, s), args)
<1>0. s \in Word /\ s \in {"+", "-"}  BY DEF Word, Sign
<1>1. \A a \in Seq(Args) : Reading(Append(flags, s), a) = [Reading(flags, a) EXCEPT !.sign = s]
  BY <1>0, ReadingAppend DEF ReadOp
<1>2. Says(Append(flags, s), args, s, changes)  BY <1>1 DEF Says
<1>3. ASSUME Complete(flags, args), NEW more \in Seq(Args)
      PROVE  Reading(Append(flags, s), args \o more) =
               [Reading(Append(flags, s), args) EXCEPT !.args = more]
  <2>1. args \o more \in Seq(Args)  OBVIOUS
  <2>2. Reading(flags, args \o more) = [Reading(flags, args) EXCEPT !.args = more]
    BY <1>3 DEF Complete
  <2>3. Reading(flags, args) \in ReadT  BY ReadingType
  <2> DEFINE all == args \o more
  <2>4. Reading(Append(flags, s), all) = [Reading(flags, all) EXCEPT !.sign = s]
    BY <1>1, <2>1
  <2>5. Reading(Append(flags, s), args) = [Reading(flags, args) EXCEPT !.sign = s]
    BY <1>1
  <2> HIDE DEF all
  <2> QED  BY <2>2, <2>3, <2>4, <2>5 DEF all, ReadT
<1> QED  BY <1>2, <1>3 DEF Complete

\* A letter takes the next argument, if it takes one and there is one.
LEMMA LetterTakes ==
  ASSUME NEW sign, NEW args, args # <<>>, NEW changes, NEW f \in {"o", "b", "k"},
         NEW r, r = [sign |-> sign, args |-> args, changes |-> changes]
  PROVE  ReadOp(r, f) = [sign |-> sign, args |-> Tail(args),
                         changes |-> Append(changes, SaidAs(sign, f, Head(args)))]
<1>1. r.sign = sign /\ r.args = args /\ r.changes = changes  OBVIOUS
<1>2. Takes(r, f) /\ r.args # <<>>  BY <1>1 DEF Takes
<1>3. ArgOf(r, f) = Head(args)  BY <1>1, <1>2 DEF ArgOf
<1> DEFINE said == SaidAs(sign, f, Head(args))
<1>4. [sign |-> r.sign, letter |-> f, arg |-> ArgOf(r, f)] = said
  BY <1>1, <1>3 DEF SaidAs
<1> HIDE DEF said
<1>5. f \notin {"+", "-"}  OBVIOUS
<1>6. ReadOp(r, f) = [r EXCEPT !.changes = Append(@, said), !.args = Tail(@)]
  BY <1>2, <1>4, <1>5 DEF ReadOp
<1>7. ReadOp(r, f) = [sign |-> sign, args |-> Tail(args), changes |-> Append(changes, said)]
  BY <1>6
<1> QED  BY <1>7 DEF said

NoneTaken(sign, args, f) ==
  args = <<>> \/ (f \notin {"o", "b", "k"} /\ (f = "l" => sign = "-"))

LEMMA LetterTakesNone ==
  ASSUME NEW r, NEW f, f \notin {"+", "-"}, NoneTaken(r.sign, r.args, f),
         r = [sign |-> r.sign, args |-> r.args, changes |-> r.changes]
  PROVE  ReadOp(r, f) = [sign |-> r.sign, args |-> r.args,
                         changes |-> Append(r.changes, SaidAs(r.sign, f, NoArg))]
<1>1. ~(Takes(r, f) /\ r.args # <<>>)  BY DEF Takes, NoneTaken
<1>2. ArgOf(r, f) = NoArg  BY <1>1 DEF ArgOf
<1> DEFINE said == SaidAs(r.sign, f, NoArg)
<1>3. [sign |-> r.sign, letter |-> f, arg |-> ArgOf(r, f)] = said  BY <1>2 DEF SaidAs
<1> HIDE DEF said
<1>4. ReadOp(r, f) = [r EXCEPT !.changes = Append(@, said), !.args = @]
  BY <1>1, <1>3 DEF ReadOp
<1>5. ReadOp(r, f) = [sign |-> r.sign, args |-> r.args, changes |-> Append(r.changes, said)]
  BY <1>4
<1> QED  BY <1>5 DEF said

\* A letter with its argument, or without one after which none comes.
LEMMA LetterSaid ==
  ASSUME NEW flags \in Seq(Word), NEW args \in Seq(Args), NEW sign \in Sign, NEW changes,
         Says(flags, args, sign, changes), NEW f \in ModeLetters
  PROVE  /\ Says(Append(flags, f), args, sign, Append(changes, SaidAs(sign, f, NoArg)))
         /\ f \notin {"o", "b", "k"} /\ (f = "l" => sign = "-") /\ Complete(flags, args)
              => Complete(Append(flags, f), args)
         /\ \A x \in Args : f \in {"o", "b", "k"} /\ Complete(flags, args) =>
              /\ Says(Append(flags, f), Append(args, x), sign,
                      Append(changes, SaidAs(sign, f, x)))
              /\ Complete(Append(flags, f), Append(args, x))
<1>0. f \in Word /\ f \notin {"+", "-"}  BY ArgNames DEF Word, Sign
<1>1. \A a \in Seq(Args) : Reading(Append(flags, f), a) = ReadOp(Reading(flags, a), f)
  BY <1>0, ReadingAppend
<1> DEFINE r == Reading(flags, args)
<1>2. r = [sign |-> sign, args |-> <<>>, changes |-> changes]  BY DEF Says
<1>3. ReadOp(r, f) = [sign |-> sign, args |-> <<>>,
                      changes |-> Append(changes, SaidAs(sign, f, NoArg))]
  <2>1. NoneTaken(sign, <<>>, f)  BY DEF NoneTaken
  <2> HIDE DEF r
  <2>2. r.sign = sign /\ r.args = <<>> /\ r.changes = changes  BY <1>2
  <2>3. r = [sign |-> r.sign, args |-> r.args, changes |-> r.changes]  BY <1>2, <2>2
  <2>4. ReadOp(r, f) = [sign |-> r.sign, args |-> r.args,
                        changes |-> Append(r.changes, SaidAs(r.sign, f, NoArg))]
    BY <1>0, <2>1, <2>2, <2>3, LetterTakesNone
  <2> QED  BY <2>2, <2>4
<1>4. Says(Append(flags, f), args, sign, Append(changes, SaidAs(sign, f, NoArg)))
  BY <1>1, <1>3 DEF Says
<1>5. ASSUME f \notin {"o", "b", "k"}, f = "l" => sign = "-", Complete(flags, args),
             NEW more \in Seq(Args)
      PROVE  Reading(Append(flags, f), args \o more) =
               [Reading(Append(flags, f), args) EXCEPT !.args = more]
  <2> DEFINE all == args \o more
  <2>1. all \in Seq(Args)  OBVIOUS
  <2>2. Reading(flags, all) = [r EXCEPT !.args = more]  BY <1>5 DEF Complete
  <2> HIDE DEF all, r
  <2>3. Reading(flags, all) = [sign |-> sign, args |-> more, changes |-> changes]
    BY <1>2, <2>2
  <2>4. Reading(Append(flags, f), all) = ReadOp(Reading(flags, all), f)  BY <1>1, <2>1
  <2>5. ReadOp(Reading(flags, all), f) =
          [sign |-> sign, args |-> more, changes |-> Append(changes, SaidAs(sign, f, NoArg))]
    <3>1. NoneTaken(sign, more, f)  BY <1>5 DEF NoneTaken
    <3> DEFINE ra == Reading(flags, all)
    <3>2. ra = [sign |-> sign, args |-> more, changes |-> changes]  BY <2>3
    <3> HIDE DEF ra
    <3>3. ra.sign = sign /\ ra.args = more /\ ra.changes = changes  BY <3>2
    <3>4. ra = [sign |-> ra.sign, args |-> ra.args, changes |-> ra.changes]  BY <3>2, <3>3
    <3>5. ReadOp(ra, f) = [sign |-> ra.sign, args |-> ra.args,
                           changes |-> Append(ra.changes, SaidAs(ra.sign, f, NoArg))]
      BY <1>0, <3>1, <3>3, <3>4, LetterTakesNone
    <3> QED  BY <3>3, <3>5 DEF ra
  <2> DEFINE cs == Append(changes, SaidAs(sign, f, NoArg))
  <2>6. Reading(Append(flags, f), args) = [sign |-> sign, args |-> <<>>, changes |-> cs]
    BY <1>1, <1>3 DEF r
  <2>7. Reading(Append(flags, f), all) = [Reading(Append(flags, f), args) EXCEPT !.args = more]
    <3> HIDE DEF cs
    <3>1. Reading(Append(flags, f), all) = [sign |-> sign, args |-> more, changes |-> cs]
      BY <2>4, <2>5 DEF cs
    <3> QED  BY <2>6, <3>1
  <2> QED  BY <2>7 DEF all
<1>6. ASSUME NEW x \in Args, f \in {"o", "b", "k"}, Complete(flags, args),
             NEW more \in Seq(Args)
      PROVE  Reading(Append(flags, f), Append(args, x) \o more) =
               [sign |-> sign, args |-> more, changes |-> Append(changes, SaidAs(sign, f, x))]
  <2> DEFINE rest == <<x>> \o more
             all == args \o rest
  <2>1. /\ rest \in Seq(Args) /\ all \in Seq(Args) /\ rest # <<>>
        /\ Head(rest) = x /\ Tail(rest) = more /\ Append(args, x) \o more = all
    OBVIOUS
  <2> HIDE DEF rest
  <2>2. Reading(flags, all) = [r EXCEPT !.args = rest]  BY <1>6, <2>1 DEF Complete
  <2> HIDE DEF all, r
  <2>3. Reading(flags, all) = [sign |-> sign, args |-> rest, changes |-> changes]
    BY <1>2, <2>2
  <2>4. Reading(Append(flags, f), all) = ReadOp(Reading(flags, all), f)  BY <1>1, <2>1
  <2>5. ReadOp(Reading(flags, all), f) =
          [sign |-> sign, args |-> more, changes |-> Append(changes, SaidAs(sign, f, x))]
    <3>1. ReadOp(Reading(flags, all), f) =
            [sign |-> sign, args |-> Tail(rest),
             changes |-> Append(changes, SaidAs(sign, f, Head(rest)))]
      BY <1>6, <2>1, <2>3, LetterTakes
    <3> QED  BY <2>1, <3>1
  <2> QED  BY <2>1, <2>4, <2>5
<1>7. ASSUME NEW x \in Args, f \in {"o", "b", "k"}, Complete(flags, args)
      PROVE  /\ Says(Append(flags, f), Append(args, x), sign,
                     Append(changes, SaidAs(sign, f, x)))
             /\ Complete(Append(flags, f), Append(args, x))
  <2>1. Append(args, x) \o <<>> = Append(args, x) /\ <<>> \in Seq(Args)  OBVIOUS
  <2>2. Says(Append(flags, f), Append(args, x), sign, Append(changes, SaidAs(sign, f, x)))
    BY <1>6, <1>7, <2>1 DEF Says
  <2> DEFINE cs == Append(changes, SaidAs(sign, f, x))
             fl == Append(flags, f)
             ax == Append(args, x)
  <2>3. \A more \in Seq(Args) : Reading(fl, ax \o more) = [sign |-> sign, args |-> more, changes |-> cs]
    BY <1>6, <1>7
  <2>4. Reading(fl, ax) = [sign |-> sign, args |-> <<>>, changes |-> cs]  BY <2>2 DEF Says
  <2> HIDE DEF cs, fl, ax
  <2>5. Complete(fl, ax)  BY <2>3, <2>4 DEF Complete
  <2> QED  BY <2>2, <2>5 DEF cs, fl, ax
<1> QED  BY <1>4, <1>5, <1>7 DEF Complete

-----------------------------------------------------------------------------
(* Writing the queue.  What flushmode writes is read as what was queued.   *)

LineBy(server) == [server : {server}, flags : Seq(Word), args : Seq(Args)]
WriteT(server) ==
  [lines : Seq(LineBy(server)), flags : Seq(Word), args : Seq(Args), last : {""} \cup Sign]

BreakOp(w, server) ==
  IF w.flags = <<>> THEN w
  ELSE [lines |-> Append(w.lines, [server |-> server, flags |-> w.flags, args |-> w.args]),
        flags |-> <<>>, args |-> <<>>, last |-> "+"]
WithArg(w, e) == IF e.arg = NoArg THEN w.args ELSE Append(w.args, e.arg)
Written(w, e) ==
  [w EXCEPT !.args = WithArg(w, e), !.last = e.sign,
            !.flags = @ \o (IF w.last = e.sign THEN <<>> ELSE <<e.sign>>) \o <<e.letter>>]
WriteOp(w, e, server) ==
  IF Len(WithArg(w, e)) = MaxArgs THEN BreakOp(Written(w, e), server) ELSE Written(w, e)
WriteStep(server) == [p \in WriteT(server) \X Entry |-> WriteOp(p[1], p[2], server)]
WriteStart == [lines |-> <<>>, flags |-> <<>>, args |-> <<>>, last |-> ""]
Writing(q, server) == Folded(WriteStep(server), WriteStart, q)

LEMMA BreakType ==
  ASSUME NEW server \in BOOLEAN, NEW w \in WriteT(server)
  PROVE  BreakOp(w, server) \in WriteT(server)
<1> DEFINE line == [server |-> server, flags |-> w.flags, args |-> w.args]
<1>1. line \in LineBy(server)  BY DEF LineBy, WriteT
<1>2. w.lines \in Seq(LineBy(server))  BY DEF WriteT
<1>3. Append(w.lines, line) \in Seq(LineBy(server))  BY <1>1, <1>2
<1> HIDE DEF line
<1>4. BreakOp(w, server) = IF w.flags = <<>> THEN w
        ELSE [lines |-> Append(w.lines, line), flags |-> <<>>, args |-> <<>>, last |-> "+"]
  BY DEF BreakOp, line
<1>5. [lines |-> Append(w.lines, line), flags |-> <<>>, args |-> <<>>, last |-> "+"] \in WriteT(server)
  <2>1. <<>> \in Seq(Word) /\ <<>> \in Seq(Args) /\ "+" \in {""} \cup Sign  BY DEF Sign
  <2> QED  BY <1>3, <2>1 DEF WriteT
<1> QED  BY <1>4, <1>5

LEMMA WrittenType ==
  ASSUME NEW server \in BOOLEAN, NEW w \in WriteT(server), NEW e \in Entry
  PROVE  /\ Written(w, e) \in WriteT(server)
         /\ Written(w, e).lines = w.lines /\ Written(w, e).args = WithArg(w, e)
         /\ Written(w, e).last = e.sign
         /\ w.last = e.sign => Written(w, e).flags = Append(w.flags, e.letter)
         /\ w.last # e.sign => Written(w, e).flags = Append(Append(w.flags, e.sign), e.letter)
<1>1. /\ w.flags \in Seq(Word) /\ w.args \in Seq(Args)
      /\ e.sign \in Word /\ e.letter \in Word /\ e.arg \in Args /\ e.sign \in Sign
  BY DEF WriteT, Entry, Word, Sign
<1>2. WithArg(w, e) \in Seq(Args)  BY <1>1 DEF WithArg
<1> DEFINE flags == w.flags \o (IF w.last = e.sign THEN <<>> ELSE <<e.sign>>) \o <<e.letter>>
<1>3. /\ flags \in Seq(Word)
      /\ w.last = e.sign => flags = Append(w.flags, e.letter)
      /\ w.last # e.sign => flags = Append(Append(w.flags, e.sign), e.letter)
  <2>1. CASE w.last = e.sign
    <3>1. flags = w.flags \o <<>> \o <<e.letter>>  BY <2>1
    <3>2. w.flags \o <<>> = w.flags /\ w.flags \o <<e.letter>> = Append(w.flags, e.letter)
      BY <1>1
    <3>3. flags = Append(w.flags, e.letter)  BY <3>1, <3>2
    <3>4. Append(w.flags, e.letter) \in Seq(Word)  BY <1>1
    <3> HIDE DEF flags
    <3> QED  BY <2>1, <3>3, <3>4
  <2>2. CASE w.last # e.sign
    <3>1. flags = w.flags \o <<e.sign>> \o <<e.letter>>  BY <2>2
    <3>2. /\ w.flags \o <<e.sign>> = Append(w.flags, e.sign)
          /\ Append(w.flags, e.sign) \in Seq(Word)
      BY <1>1
    <3> DEFINE signed == Append(w.flags, e.sign)
    <3> HIDE DEF signed
    <3>3. signed \o <<e.letter>> = Append(signed, e.letter) /\ Append(signed, e.letter) \in Seq(Word)
      BY <1>1, <3>2 DEF signed
    <3>4. flags = Append(signed, e.letter)  BY <3>1, <3>2, <3>3 DEF signed
    <3> HIDE DEF flags
    <3> QED  BY <2>2, <3>3, <3>4 DEF signed
  <2> QED  BY <2>1, <2>2
<1>4. Written(w, e) = [w EXCEPT !.args = WithArg(w, e), !.last = e.sign, !.flags = flags]
  BY DEF Written
<1> HIDE DEF flags
<1> QED  BY <1>1, <1>2, <1>3, <1>4 DEF WriteT

LEMMA WriteFold ==
  ASSUME NEW q \in Seq(Entry), NEW server \in BOOLEAN
  PROVE  FoldType(WriteT(server), Entry, WriteStart, WriteStep(server), q)
<1> DEFINE step == WriteStep(server)
<1>1. step = [p \in WriteT(server) \X Entry |-> step[p]]  BY DEF WriteStep
<1>2. \A t \in WriteT(server), x \in Entry : step[<<t, x>>] \in WriteT(server)
  BY WrittenType, BreakType DEF WriteStep, WriteOp
<1> HIDE DEF step
<1>3. OnPairs(WriteT(server), Entry, step)  BY <1>1, <1>2 DEF OnPairs
<1>4. WriteStart \in WriteT(server)  BY DEF WriteStart, WriteT
<1> QED  BY <1>3, <1>4, PairFold DEF step

LEMMA LinesOfIs ==
  ASSUME NEW q \in Seq(Entry), NEW server \in BOOLEAN
  PROVE  LinesOf(q, server) = BreakOp(Writing(q, server), server).lines
<1> DEFINE T == WriteT(server)
           step == WriteStep(server)
           R(g) == [A \in SUBSET (DOMAIN q) |->
                      IF A = {} THEN WriteStart ELSE WriteOp(g[A \ {Max(A)}], q[Max(A)], server)]
<1>1. \A t \in T, x \in Entry : step[<<t, x>>] = WriteOp(t, x, server)
  BY DEF WriteStep
<1>2. LinesOf(q, server) = BreakOp((CHOOSE g : g = R(g))[DOMAIN q], server).lines
  BY DEF LinesOf, WriteOp, Written, WithArg, BreakOp, WriteStart, FoldLeft, MapThenFoldSet
<1>3. FoldType(T, Entry, WriteStart, step, q)  BY WriteFold
<1> HIDE DEF T, step
<1>4. PICK h : Chooses(h, T, Entry, WriteStart, step, q)  BY <1>3, Choosable
<1>5. h = R(h)  BY <1>1, <1>4 DEF Chooses
<1>6. PICK g : g = R(g) /\ LinesOf(q, server) = BreakOp(g[DOMAIN q], server).lines
  BY <1>2, <1>5
<1>7. Chosen(g, T, Entry, WriteStart, step, q)  BY <1>1, <1>6 DEF Chosen
<1>8. g[DOMAIN q] = Folded(step, WriteStart, q)  BY <1>3, <1>7, ChosenIsFolded
<1> QED  BY <1>6, <1>8 DEF Writing, step

\* What several lines say, one after the other.
CatStep == [p \in Seq(Change) \X Line |-> p[1] \o ReadLine(p[2])]
ReadAll(lines) == Folded(CatStep, <<>>, lines)

\* What the entries of a queue say.
Said(e) == SaidAs(e.sign, e.letter, e.arg)
Changes(q) == [i \in 1..Len(q) |-> Said(q[i])]

\* The entries the handlers make: a letter that takes an argument has one,
\* save a k that is taken away without one, after which none has.
Fits(e) ==
  /\ e.letter \in {"o", "b"} => e.arg # NoArg
  /\ e.letter \in {"l", "i"} => e.arg = NoArg
  /\ e.letter = "l" => e.sign = "-"
Starves(e) == e.letter = "k" /\ e.arg = NoArg
Starved(q) == \E i \in 1..Len(q) : Starves(q[i])
Sendable(q) ==
  /\ \A i \in 1..Len(q) : Fits(q[i])
  /\ \A i, j \in 1..Len(q) : i < j /\ Starves(q[i]) => q[j].arg = NoArg

LEMMA ReadLineType ==
  ASSUME NEW line \in Line
  PROVE  ReadLine(line) \in Seq(Change)
<1>1. line.flags \in Seq(Word) /\ line.args \in Seq(Args)  BY DEF Line
<1> QED  BY <1>1, ReadLineIs, ReadingType DEF ReadT

LEMMA ReadAllFold ==
  ASSUME NEW lines \in Seq(Line)
  PROVE  FoldType(Seq(Change), Line, <<>>, CatStep, lines)
<1>1. CatStep = [p \in Seq(Change) \X Line |-> CatStep[p]]  BY DEF CatStep
<1>2. \A t \in Seq(Change), x \in Line : CatStep[<<t, x>>] \in Seq(Change)
  <2> TAKE t \in Seq(Change), x \in Line
  <2>1. CatStep[<<t, x>>] = t \o ReadLine(x)  BY DEF CatStep
  <2>2. ReadLine(x) \in Seq(Change)  BY ReadLineType
  <2> DEFINE y == ReadLine(x)
  <2> HIDE DEF y
  <2>3. t \o y \in Seq(Change)  BY <2>2 DEF y
  <2> QED  BY <2>1, <2>3 DEF y
<1>3. OnPairs(Seq(Change), Line, CatStep)  BY <1>1, <1>2 DEF OnPairs
<1>4. <<>> \in Seq(Change)  OBVIOUS
<1> QED  BY <1>3, <1>4, PairFold

LEMMA ReadAllIs ==
  /\ ReadAll(<<>>) = <<>>
  /\ \A lines \in Seq(Line) : ReadAll(lines) \in Seq(Change)
  /\ \A lines \in Seq(Line), line \in Line :
       ReadAll(Append(lines, line)) = ReadAll(lines) \o ReadLine(line)
<1>1. ReadAll(<<>>) = <<>>
  <2>1. <<>> \in Seq(Line)  OBVIOUS
  <2> QED  BY <2>1, ReadAllFold, FoldedEmpty DEF ReadAll
<1>2. ASSUME NEW lines \in Seq(Line)  PROVE ReadAll(lines) \in Seq(Change)
  BY ReadAllFold, FoldedType DEF ReadAll
<1>3. ASSUME NEW lines \in Seq(Line), NEW line \in Line
      PROVE  ReadAll(Append(lines, line)) = ReadAll(lines) \o ReadLine(line)
  <2>1. ReadAll(Append(lines, line)) = CatStep[<<ReadAll(lines), line>>]
    BY ReadAllFold, FoldedAppend DEF ReadAll
  <2> QED  BY <1>2, <2>1 DEF CatStep
<1> QED  BY <1>1, <1>2, <1>3

LEMMA ChangesAppend ==
  ASSUME NEW q \in Seq(Entry), NEW e \in Entry
  PROVE  /\ Changes(Append(q, e)) = Append(Changes(q), Said(e))
         /\ Changes(q) \in Seq(Change) /\ Said(e) \in Change
<1>1. \A x \in Entry : Said(x) \in Change  BY DEF Said, SaidAs, Entry, Change
<1>2. Changes(q) \in Seq(Change) /\ Len(Changes(q)) = Len(q)
  <2>1. \A i \in 1..Len(q) : q[i] \in Entry  OBVIOUS
  <2>2. \A i \in 1..Len(q) : Said(q[i]) \in Change  BY <1>1, <2>1
  <2>3. Len(q) \in Nat  OBVIOUS
  <2> QED  BY <2>2, <2>3 DEF Changes
<1> DEFINE k == Append(q, e)
           c == Append(Changes(q), Said(e))
<1>3. k \in Seq(Entry) /\ Len(k) = Len(q) + 1 /\ k[Len(q) + 1] = e
      /\ \A i \in 1..Len(q) : k[i] = q[i]
  BY AppendAt
<1>4. c \in Seq(Change) /\ Len(c) = Len(q) + 1 /\ c[Len(q) + 1] = Said(e)
      /\ \A i \in 1..Len(q) : c[i] = Changes(q)[i]
  BY <1>1, <1>2, AppendAt
<1>5. \A i \in 1..Len(q) : Changes(q)[i] = Said(q[i])  BY DEF Changes
<1> HIDE DEF k, c
<1>6. Changes(k) = [i \in 1..(Len(q) + 1) |-> Said(k[i])]  BY <1>3 DEF Changes
<1>7. \A i \in 1..(Len(q) + 1) : c[i] = Said(k[i])
  <2> TAKE i \in 1..(Len(q) + 1)
  <2>1. Len(q) \in Nat  OBVIOUS
  <2>2. i \in 1..Len(q) \/ i = Len(q) + 1  BY <2>1
  <2> QED  BY <1>3, <1>4, <1>5, <2>2
<1>8. c = [i \in 1..(Len(q) + 1) |-> c[i]]  BY <1>4
<1>9. Changes(k) = c  BY <1>6, <1>7, <1>8
<1> QED  BY <1>1, <1>2, <1>9 DEF k, c

\* The lines and the line begun say what was queued.
WroteIn(w, q, sign, changes) ==
  /\ Says(w.flags, w.args, sign, changes) /\ sign \in Sign /\ changes \in Seq(Change)
  /\ ReadAll(w.lines) \o changes = Changes(q)
  /\ w.last # "" => sign = w.last
  /\ Complete(w.flags, w.args) \/ Starved(q)
Wrote(w, q) == \E sign, changes : WroteIn(w, q, sign, changes)

LEMMA LineByIsLine ==
  ASSUME NEW server \in BOOLEAN, NEW w \in WriteT(server)
  PROVE  /\ LineBy(server) \subseteq Line
         /\ w.lines \in Seq(Line) /\ ReadAll(w.lines) \in Seq(Change)
<1>1. LineBy(server) \subseteq Line  BY DEF LineBy, Line
<1>2. w.lines \in Seq(Line)
  <2>1. w.lines \in Seq(LineBy(server))  BY DEF WriteT
  <2> QED  BY <1>1, <2>1
<1> QED  BY <1>1, <1>2, ReadAllIs

\* Breaking a line changes nothing of what is said.
LEMMA BreakSays ==
  ASSUME NEW server \in BOOLEAN, NEW w \in WriteT(server), NEW q \in Seq(Entry),
         Wrote(w, q)
  PROVE  /\ Wrote(BreakOp(w, server), q)
         /\ ReadAll(BreakOp(w, server).lines) = Changes(q)
<1>1. PICK sign, changes : WroteIn(w, q, sign, changes)  BY DEF Wrote
<1>2. ReadAll(w.lines) \in Seq(Change) /\ w.lines \in Seq(Line)  BY LineByIsLine
<1>3. CASE w.flags = <<>>
  <2>1. BreakOp(w, server) = w  BY <1>3 DEF BreakOp
  <2>2. w.args \in Seq(Args)  BY DEF WriteT
  <2>3. Reading(w.flags, w.args) = ReadStart(w.args)  BY <1>3, <2>2, ReadingEmpty
  <2>4. Reading(w.flags, w.args).changes = changes
    <3>1. Says(w.flags, w.args, sign, changes)  BY <1>1 DEF WroteIn
    <3> QED  BY <3>1 DEF Says
  <2>5. changes = <<>>  BY <2>3, <2>4 DEF ReadStart
  <2> DEFINE all == ReadAll(w.lines)
  <2>6. all \o changes = Changes(q) /\ all \in Seq(Change)  BY <1>1, <1>2 DEF WroteIn
  <2> HIDE DEF all
  <2>7. all \o <<>> = all  BY <2>6
  <2> QED  BY <2>1, <2>5, <2>6, <2>7 DEF all
<1>4. CASE w.flags # <<>>
  <2> DEFINE line == [server |-> server, flags |-> w.flags, args |-> w.args]
             lines == Append(w.lines, line)
             b == [lines |-> lines, flags |-> <<>>, args |-> <<>>, last |-> "+"]
  <2>1. BreakOp(w, server) = b  BY <1>4 DEF BreakOp
  <2>2. line \in Line /\ line.flags = w.flags /\ line.args = w.args  BY DEF Line, WriteT
  <2> HIDE DEF line
  <2>3. ReadLine(line) = changes
    <3>1. Says(w.flags, w.args, sign, changes)  BY <1>1 DEF WroteIn
    <3>2. Reading(w.flags, w.args).changes = changes  BY <3>1 DEF Says
    <3> QED  BY <2>2, <3>2, ReadLineIs
  <2>4. ReadAll(lines) = Changes(q)  BY <1>1, <1>2, <2>2, <2>3, ReadAllIs DEF WroteIn
  <2> HIDE DEF lines
  <2>5. ReadAll(lines) \o <<>> = ReadAll(lines)
    <3>1. Changes(q) \in Seq(Change)
      <4>1. \A i \in 1..Len(q) : q[i] \in Entry  OBVIOUS
      <4>2. \A x \in Entry : Said(x) \in Change  BY DEF Said, SaidAs, Entry, Change
      <4>3. Len(q) \in Nat  OBVIOUS
      <4> QED  BY <4>1, <4>2, <4>3 DEF Changes
    <3> DEFINE cs == Changes(q)
    <3> HIDE DEF cs
    <3>2. cs \o <<>> = cs  BY <3>1 DEF cs
    <3> QED  BY <2>4, <3>2 DEF cs
  <2>6. WroteIn(b, q, "+", <<>>)
    <3>1. /\ b.lines = lines /\ b.flags = <<>> /\ b.args = <<>> /\ b.last = "+"
          /\ "+" \in Sign /\ <<>> \in Seq(Change)
      BY DEF Sign
    <3> HIDE DEF b
    <3>2. ReadAll(b.lines) \o <<>> = Changes(q)  BY <2>4, <2>5, <3>1
    <3> QED  BY <3>1, <3>2, SaysNothing DEF WroteIn
  <2>7. b.lines = lines  OBVIOUS
  <2> HIDE DEF b
  <2> QED  BY <2>1, <2>4, <2>6, <2>7 DEF Wrote
<1> QED  BY <1>3, <1>4

\* Writing one entry more.
LEMMA StarvedAppend ==
  ASSUME NEW q \in Seq(Entry), NEW e \in Entry
  PROVE  Starved(q) \/ Starves(e) => Starved(Append(q, e))
<1> DEFINE k == Append(q, e)
<1>1. /\ Len(k) = Len(q) + 1 /\ k[Len(q) + 1] = e /\ Len(q) \in Nat
      /\ \A i \in 1..Len(q) : k[i] = q[i]
  BY AppendAt
<1> HIDE DEF k
<1>2. Starved(q) => Starved(k)
  <2>1. \A i \in 1..Len(q) : i \in 1..Len(k)  BY <1>1
  <2> QED  BY <1>1, <2>1 DEF Starved
<1>3. Starves(e) => Starved(k)
  <2>1. Len(q) + 1 \in 1..Len(k)  BY <1>1
  <2> QED  BY <1>1, <2>1 DEF Starved
<1> QED  BY <1>2, <1>3 DEF k

LEMMA EntrySays ==
  ASSUME NEW server \in BOOLEAN, NEW w \in WriteT(server), NEW q \in Seq(Entry),
         Wrote(w, q), NEW e \in Entry, Fits(e), Starved(q) => e.arg = NoArg
  PROVE  Wrote(Written(w, e), Append(q, e))
<1>1. PICK sign, changes : WroteIn(w, q, sign, changes)  BY DEF Wrote
<1>2. /\ w.flags \in Seq(Word) /\ w.args \in Seq(Args)
      /\ e.sign \in Sign /\ e.letter \in ModeLetters /\ e.arg \in Args
      /\ sign \in Sign /\ changes \in Seq(Change)
  BY <1>1 DEF WriteT, Entry, Sign, WroteIn
<1> DEFINE F1 == IF w.last = e.sign THEN w.flags ELSE Append(w.flags, e.sign)
           F2 == Append(F1, e.letter)
           v == Written(w, e)
           new == Append(changes, Said(e))
<1>3. F1 \in Seq(Word)
  <2>1. e.sign \in Word  BY <1>2 DEF Word
  <2> QED  BY <1>2, <2>1
<1>4. Says(F1, w.args, e.sign, changes) /\ (Complete(w.flags, w.args) => Complete(F1, w.args))
  <2>0. Says(w.flags, w.args, sign, changes)  BY <1>1 DEF WroteIn
  <2>1. CASE w.last = e.sign
    <3>1. e.sign # ""  BY <1>2 DEF Sign
    <3>2. sign = e.sign  BY <1>1, <2>1, <3>1 DEF WroteIn
    <3> QED  BY <2>0, <2>1, <3>2
  <2>2. CASE w.last # e.sign
    BY <1>2, <2>0, <2>2, SignSaid
  <2> QED  BY <2>1, <2>2
<1>5. v.flags = F2 /\ v.args = WithArg(w, e) /\ v.lines = w.lines /\ v.last = e.sign
  BY WrittenType
<1>6. Said(e) = SaidAs(e.sign, e.letter, e.arg) /\ Said(e) \in Change  BY ChangesAppend DEF Said
<1> HIDE DEF F1, v
<1>7. Says(F2, v.args, e.sign, new) /\ (Complete(F2, v.args) \/ Starved(q) \/ Starves(e))
  <2>1. CASE e.arg = NoArg
    <3>1. v.args = w.args  BY <1>5, <2>1 DEF WithArg
    <3>2. Says(F2, w.args, e.sign, Append(changes, SaidAs(e.sign, e.letter, NoArg)))
      BY <1>2, <1>3, <1>4, LetterSaid
    <3>3. Complete(w.flags, w.args) \/ Starved(q)  BY <1>1 DEF WroteIn
    <3>4. ASSUME ~Starves(e), Complete(F1, w.args)  PROVE Complete(F2, w.args)
      <4>1. e.letter \notin {"o", "b", "k"} /\ (e.letter = "l" => e.sign = "-")
        BY <2>1, <3>4 DEF Fits, Starves
      <4> QED  BY <1>2, <1>3, <1>4, <3>4, <4>1, LetterSaid
    <3> QED  BY <1>4, <1>6, <2>1, <3>1, <3>2, <3>3, <3>4
  <2>2. CASE e.arg # NoArg
    <3>1. v.args = Append(w.args, e.arg)  BY <1>5, <2>2 DEF WithArg
    <3>2. Complete(F1, w.args)  BY <1>1, <1>4, <2>2 DEF WroteIn
    <3>3. e.letter \in {"o", "b", "k"}
      BY <1>2, <2>2 DEF Fits, ModeLetters, Modes
    <3>4. /\ Says(F2, Append(w.args, e.arg), e.sign, Append(changes, SaidAs(e.sign, e.letter, e.arg)))
          /\ Complete(F2, Append(w.args, e.arg))
      BY <1>2, <1>3, <1>4, <3>2, <3>3, LetterSaid
    <3> QED  BY <1>6, <3>1, <3>4
  <2> QED  BY <2>1, <2>2
<1>8. ReadAll(v.lines) \o new = Changes(Append(q, e))
  <2> DEFINE all == ReadAll(w.lines)
  <2>1. all \in Seq(Change) /\ all \o changes = Changes(q)
    BY <1>1, LineByIsLine DEF WroteIn
  <2> HIDE DEF all
  <2>2. all \o Append(changes, Said(e)) = Append(all \o changes, Said(e))
    <3>1. Said(e) \in Change /\ changes \in Seq(Change)  BY <1>2, <1>6
    <3>2. \A a, b \in Seq(Change), x \in Change : a \o Append(b, x) = Append(a \o b, x)  OBVIOUS
    <3> QED  BY <2>1, <3>1, <3>2, Zenon
  <2>3. Changes(Append(q, e)) = Append(Changes(q), Said(e))  BY ChangesAppend
  <2> QED  BY <1>5, <2>1, <2>2, <2>3 DEF all
<1>9. new \in Seq(Change)  BY <1>2, <1>6
<1> HIDE DEF F2, new
<1>10. WroteIn(v, Append(q, e), e.sign, new)
  <2>1. Complete(v.flags, v.args) \/ Starved(Append(q, e))
    BY <1>5, <1>7, StarvedAppend
  <2>2. Says(v.flags, v.args, e.sign, new)  BY <1>5, <1>7
  <2> QED  BY <1>2, <1>5, <1>8, <1>9, <2>1, <2>2 DEF WroteIn
<1> QED  BY <1>10 DEF Wrote, v

LEMMA SendablePrefix ==
  ASSUME NEW q \in Seq(Entry), NEW e \in Entry, Sendable(Append(q, e))
  PROVE  Sendable(q) /\ Fits(e) /\ (Starved(q) => e.arg = NoArg)
<1> DEFINE k == Append(q, e)
<1>1. /\ Len(k) = Len(q) + 1 /\ k[Len(q) + 1] = e /\ Len(q) \in Nat
      /\ \A i \in 1..Len(q) : k[i] = q[i]
  BY AppendAt
<1>2. Sendable(k)  OBVIOUS
<1> HIDE DEF k
<1>3. (\A i \in 1..Len(q) : i \in 1..Len(k) /\ i < Len(q) + 1) /\ Len(q) + 1 \in 1..Len(k)
  BY <1>1
<1>4. Sendable(q)  BY <1>1, <1>2, <1>3 DEF Sendable
<1>5. Fits(e)  BY <1>1, <1>2, <1>3 DEF Sendable
<1>6. Starved(q) => e.arg = NoArg  BY <1>1, <1>2, <1>3 DEF Sendable, Starved
<1> QED  BY <1>4, <1>5, <1>6

\* What flushmode writes of a queue is read as the changes of the queue, in
\* order: neither the signs it leaves out nor where it ends its lines lose or
\* turn a change, nor does an argument go to another letter.
THEOREM LinesAreRead ==
  ASSUME NEW q \in Seq(Entry), Sendable(q), NEW server \in BOOLEAN
  PROVE  /\ ReadAll(LinesOf(q, server)) = Changes(q)
         /\ LinesOf(q, server) \in Seq(LineBy(server))
<1> DEFINE W(k) == Writing(k, server)
           P == {k \in Seq(Entry) : Sendable(k) => Wrote(W(k), k)}
<1>1. \A k \in Seq(Entry) : W(k) \in WriteT(server)
  BY WriteFold, FoldedType DEF Writing
<1>2. <<>> \in P
  <2>0. <<>> \in Seq(Entry)  OBVIOUS
  <2>1. W(<<>>) = WriteStart  BY <2>0, WriteFold, FoldedEmpty DEF Writing
  <2>2. Changes(<<>>) = <<>> /\ "+" \in Sign /\ <<>> \in Seq(Change) /\ <<>> \o <<>> = <<>>
    BY DEF Changes, Sign
  <2>3. WroteIn(WriteStart, <<>>, "+", <<>>)
    BY <2>2, SaysNothing, ReadAllIs DEF WroteIn, WriteStart
  <2> QED  BY <2>0, <2>1, <2>3 DEF Wrote
<1>3. ASSUME NEW k \in Seq(Entry), NEW e \in Entry, k \in P  PROVE Append(k, e) \in P
  <2> DEFINE ke == Append(k, e)
  <2>0. ke \in Seq(Entry)  OBVIOUS
  <2> SUFFICES ASSUME Sendable(ke)  PROVE Wrote(W(ke), ke)  BY <2>0
  <2>1. Sendable(k) /\ Fits(e) /\ (Starved(k) => e.arg = NoArg)  BY SendablePrefix
  <2>2. Wrote(W(k), k) /\ W(k) \in WriteT(server)  BY <1>1, <1>3, <2>1
  <2>3. W(ke) = WriteStep(server)[<<W(k), e>>]  BY WriteFold, FoldedAppend DEF Writing
  <2>4. W(ke) = WriteOp(W(k), e, server)  BY <2>2, <2>3 DEF WriteStep
  <2> HIDE DEF W
  <2>5. Wrote(Written(W(k), e), ke) /\ Written(W(k), e) \in WriteT(server)
    BY <2>1, <2>2, EntrySays, WrittenType
  <2> HIDE DEF ke
  <2>6. Wrote(BreakOp(Written(W(k), e), server), ke)  BY <2>0, <2>5, BreakSays
  <2> QED  BY <2>4, <2>5, <2>6 DEF WriteOp
<1> HIDE DEF P
<1>4. q \in P  BY <1>2, <1>3, SeqInduct
<1>5. Wrote(W(q), q) /\ W(q) \in WriteT(server)  BY <1>1, <1>4 DEF P
<1>6. LinesOf(q, server) = BreakOp(W(q), server).lines  BY LinesOfIs
<1> HIDE DEF W
<1>7. ReadAll(BreakOp(W(q), server).lines) = Changes(q)  BY <1>5, BreakSays
<1>8. BreakOp(W(q), server).lines \in Seq(LineBy(server))  BY <1>5, BreakType DEF WriteT
<1> QED  BY <1>6, <1>7, <1>8

-----------------------------------------------------------------------------
(* The network.                                                            *)

NetT == [op : SUBSET (Users \cup {Me}), bans : SUBSET Args, modes : SUBSET Modes]

PutIn(S, sign, x) == IF sign = "+" THEN S \cup {x} ELSE S \ {x}
ApplyOp(m, ch, present) ==
  CASE ch.letter = "o" /\ ch.arg \in present -> [m EXCEPT !.op = PutIn(@, ch.sign, ch.arg)]
    [] ch.letter = "b" -> [m EXCEPT !.bans = PutIn(@, ch.sign, ch.arg)]
    [] ch.letter \in Modes -> [m EXCEPT !.modes = PutIn(@, ch.sign, ch.letter)]
    [] OTHER -> m
ApplyStep(present) == [p \in NetT \X Change |-> ApplyOp(p[1], p[2], present)]

\* Is x op, or banned, or the mode set?
Has(n, letter, x) ==
  \/ letter = "o" /\ x \in n.op
  \/ letter = "b" /\ x \in n.bans
  \/ letter \in Modes /\ letter \in n.modes
About(ch, letter, x) == ch.letter = letter /\ (letter \in {"o", "b"} => ch.arg = x)

LEMMA ApplyOpIs ==
  ASSUME NEW present \in SUBSET (Users \cup {Me}), NEW m \in NetT, NEW ch \in Change
  PROVE  /\ ApplyOp(m, ch, present) \in NetT
         /\ \A x : \A letter \in ModeLetters :
              Has(ApplyOp(m, ch, present), letter, x) <=>
                IF About(ch, letter, x) /\ (letter = "o" => x \in present)
                  THEN ch.sign = "+" ELSE Has(m, letter, x)
<1>0. /\ m.op \in SUBSET (Users \cup {Me}) /\ m.bans \in SUBSET Args /\ m.modes \in SUBSET Modes
      /\ ch.sign \in {"+", "-"} /\ ch.letter \in ModeLetters /\ ch.arg \in Args
      /\ {"o", "b"} \cap Modes = {} /\ ModeLetters = {"o", "b"} \cup Modes
  BY DEF NetT, Change, ModeLetters, Modes
<1> DEFINE r == ApplyOp(m, ch, present)
<1>1. CASE ch.letter = "o" /\ ch.arg \in present
  <2> DEFINE S == PutIn(m.op, ch.sign, ch.arg)
  <2>1. r = [m EXCEPT !.op = S]  BY <1>0, <1>1 DEF ApplyOp
  <2>2. S \in SUBSET (Users \cup {Me}) /\ \A x : x \in S <=> IF x = ch.arg THEN ch.sign = "+" ELSE x \in m.op
    BY <1>0, <1>1 DEF PutIn
  <2> HIDE DEF S
  <2>3. r \in NetT /\ r.op = S /\ r.bans = m.bans /\ r.modes = m.modes  BY <2>1, <2>2 DEF NetT
  <2> HIDE DEF r
  <2>4. ASSUME NEW letter \in ModeLetters, NEW x
        PROVE  Has(r, letter, x) <=>
                 IF About(ch, letter, x) /\ (letter = "o" => x \in present)
                   THEN ch.sign = "+" ELSE Has(m, letter, x)
    BY <1>0, <1>1, <2>2, <2>3 DEF Has, About
  <2> QED  BY <2>3, <2>4 DEF r
<1>2. CASE ch.letter = "b"
  <2> DEFINE S == PutIn(m.bans, ch.sign, ch.arg)
  <2>1. r = [m EXCEPT !.bans = S]  BY <1>0, <1>2 DEF ApplyOp
  <2>2. S \in SUBSET Args /\ \A x : x \in S <=> IF x = ch.arg THEN ch.sign = "+" ELSE x \in m.bans
    BY <1>0, <1>2 DEF PutIn
  <2> HIDE DEF S
  <2>3. r \in NetT /\ r.op = m.op /\ r.bans = S /\ r.modes = m.modes  BY <2>1, <2>2 DEF NetT
  <2> HIDE DEF r
  <2>4. ASSUME NEW letter \in ModeLetters, NEW x
        PROVE  Has(r, letter, x) <=>
                 IF About(ch, letter, x) /\ (letter = "o" => x \in present)
                   THEN ch.sign = "+" ELSE Has(m, letter, x)
    BY <1>0, <1>2, <2>2, <2>3 DEF Has, About
  <2> QED  BY <2>3, <2>4 DEF r
<1>3. CASE ch.letter \in Modes
  <2> DEFINE S == PutIn(m.modes, ch.sign, ch.letter)
  <2>1. r = [m EXCEPT !.modes = S]  BY <1>0, <1>3 DEF ApplyOp
  <2>2. S \in SUBSET Modes /\ \A x : x \in S <=> IF x = ch.letter THEN ch.sign = "+" ELSE x \in m.modes
    BY <1>0, <1>3 DEF PutIn
  <2> HIDE DEF S
  <2>3. r \in NetT /\ r.op = m.op /\ r.bans = m.bans /\ r.modes = S  BY <2>1, <2>2 DEF NetT
  <2> HIDE DEF r
  <2>4. ASSUME NEW letter \in ModeLetters, NEW x
        PROVE  Has(r, letter, x) <=>
                 IF About(ch, letter, x) /\ (letter = "o" => x \in present)
                   THEN ch.sign = "+" ELSE Has(m, letter, x)
    BY <1>0, <1>3, <2>2, <2>3 DEF Has, About
  <2> QED  BY <2>3, <2>4 DEF r
<1>4. CASE ch.letter = "o" /\ ch.arg \notin present
  <2>1. r = m  BY <1>0, <1>4 DEF ApplyOp
  <2> HIDE DEF r
  <2>2. \A x : \A letter \in ModeLetters : ~(About(ch, letter, x) /\ (letter = "o" => x \in present))
    BY <1>4 DEF About
  <2> QED  BY <2>1, <2>2 DEF r
<1> QED  BY <1>0, <1>1, <1>2, <1>3, <1>4

LEMMA ApplyFold ==
  ASSUME NEW present \in SUBSET (Users \cup {Me}), NEW n \in NetT, NEW l \in Seq(Change)
  PROVE  /\ FoldType(NetT, Change, n, ApplyStep(present), l)
         /\ Apply(n, l, present) = Folded(ApplyStep(present), n, l)
<1> DEFINE step == ApplyStep(present)
           R(g) == [A \in SUBSET (DOMAIN l) |->
                      IF A = {} THEN n ELSE ApplyOp(g[A \ {Max(A)}], l[Max(A)], present)]
<1>1. \A t \in NetT, x \in Change :
         step[<<t, x>>] = ApplyOp(t, x, present) /\ ApplyOp(t, x, present) \in NetT
  BY ApplyOpIs DEF ApplyStep
<1>2. step = [p \in NetT \X Change |-> step[p]]  BY DEF ApplyStep
<1>3. Apply(n, l, present) = (CHOOSE g : g = R(g))[DOMAIN l]
  BY DEF Apply, ApplyOp, PutIn, FoldLeft, MapThenFoldSet
<1> HIDE DEF step
<1>4. OnPairs(NetT, Change, step)  BY <1>1, <1>2 DEF OnPairs
<1>5. FoldType(NetT, Change, n, step, l)  BY <1>4, PairFold
<1>6. PICK h : Chooses(h, NetT, Change, n, step, l)  BY <1>5, Choosable
<1>7. h = R(h)  BY <1>1, <1>6 DEF Chooses
<1>8. PICK g : g = R(g) /\ Apply(n, l, present) = g[DOMAIN l]  BY <1>3, <1>7
<1>9. Chosen(g, NetT, Change, n, step, l)  BY <1>1, <1>8 DEF Chosen
<1> QED  BY <1>5, <1>8, <1>9, ChosenIsFolded DEF step

LEMMA ApplyEmpty ==
  ASSUME NEW present \in SUBSET (Users \cup {Me}), NEW n \in NetT
  PROVE  Apply(n, <<>>, present) = n
<1>1. <<>> \in Seq(Change)  OBVIOUS
<1>2. FoldType(NetT, Change, n, ApplyStep(present), <<>>)  BY <1>1, ApplyFold, Zenon
<1>3. Folded(ApplyStep(present), n, <<>>) = n  BY <1>2, FoldedEmpty, Zenon
<1> QED  BY <1>1, <1>3, ApplyFold, Zenon

LEMMA ApplyType ==
  ASSUME NEW present \in SUBSET (Users \cup {Me}), NEW n \in NetT, NEW l \in Seq(Change)
  PROVE  Apply(n, l, present) \in NetT
BY ApplyFold, FoldedType

LEMMA ApplyAppend ==
  ASSUME NEW present \in SUBSET (Users \cup {Me}), NEW n \in NetT, NEW l \in Seq(Change),
         NEW ch \in Change
  PROVE  Apply(n, Append(l, ch), present) = ApplyOp(Apply(n, l, present), ch, present)
<1>1. Folded(ApplyStep(present), n, Append(l, ch)) = ApplyStep(present)[<<Apply(n, l, present), ch>>]
  BY ApplyFold, FoldedAppend
<1> DEFINE k == Append(l, ch)
<1>2. k \in Seq(Change)  OBVIOUS
<1> HIDE DEF k
<1>3. Apply(n, k, present) = Folded(ApplyStep(present), n, k)  BY <1>2, ApplyFold
<1>4. ApplyStep(present)[<<Apply(n, l, present), ch>>] = ApplyOp(Apply(n, l, present), ch, present)
  BY ApplyType DEF ApplyStep
<1> QED  BY <1>1, <1>3, <1>4 DEF k

LEMMA ApplyCat ==
  ASSUME NEW present \in SUBSET (Users \cup {Me}), NEW n \in NetT, NEW l \in Seq(Change),
         NEW m \in Seq(Change)
  PROVE  Apply(n, l \o m, present) = Apply(Apply(n, l, present), m, present)
<1>1. Folded(ApplyStep(present), n, l \o m) = Folded(ApplyStep(present), Apply(n, l, present), m)
  BY ApplyFold, FoldedCat
<1> DEFINE k == l \o m
<1>2. k \in Seq(Change)  OBVIOUS
<1> HIDE DEF k
<1>3. Apply(n, k, present) = Folded(ApplyStep(present), n, k)  BY <1>2, ApplyFold
<1>4. Folded(ApplyStep(present), Apply(n, l, present), m) = Apply(Apply(n, l, present), m, present)
  BY ApplyType, ApplyFold
<1> QED  BY <1>1, <1>3, <1>4 DEF k

\* Is there a change of this in a message, and what do all such changes do?
Names(l, letter, x) == \E ch \in ToSet(l) : About(ch, letter, x)
AllSign(l, letter, x, sign) == \A ch \in ToSet(l) : About(ch, letter, x) => ch.sign = sign

LEMMA ApplyHas ==
  ASSUME NEW present \in SUBSET (Users \cup {Me}), NEW n \in NetT, NEW l \in Seq(Change),
         NEW letter \in ModeLetters, NEW x, NEW sign, AllSign(l, letter, x, sign)
  PROVE  Has(Apply(n, l, present), letter, x) <=>
           IF Names(l, letter, x) /\ (letter = "o" => x \in present)
             THEN sign = "+" ELSE Has(n, letter, x)
<1> DEFINE Right(k) ==
             Has(Apply(n, k, present), letter, x) <=>
               IF Names(k, letter, x) /\ (letter = "o" => x \in present)
                 THEN sign = "+" ELSE Has(n, letter, x)
           P == {k \in Seq(Change) : AllSign(k, letter, x, sign) => Right(k)}
<1>1. <<>> \in P
  <2>1. <<>> \in Seq(Change) /\ ~Names(<<>>, letter, x)  BY ToSetEmpty DEF Names
  <2>2. Apply(n, <<>>, present) = n  BY ApplyEmpty, Zenon
  <2> QED  BY <2>1, <2>2
<1>2. ASSUME NEW k \in Seq(Change), NEW ch \in Change, k \in P  PROVE Append(k, ch) \in P
  <2> DEFINE kc == Append(k, ch)
  <2>1. kc \in Seq(Change) /\ ToSet(kc) = ToSet(k) \cup {ch}  BY ToSetAppend
  <2>2. Apply(n, kc, present) = ApplyOp(Apply(n, k, present), ch, present)  BY ApplyAppend, Zenon
  <2>3. Apply(n, k, present) \in NetT  BY ApplyType, Zenon
  <2> HIDE DEF kc
  <2> SUFFICES ASSUME AllSign(kc, letter, x, sign)  PROVE Right(kc)  BY <2>1 DEF kc
  <2>4. AllSign(k, letter, x, sign) /\ (About(ch, letter, x) => ch.sign = sign)
    BY <2>1 DEF AllSign
  <2>5. Right(k)  BY <1>2, <2>4
  <2>6. Names(kc, letter, x) <=> Names(k, letter, x) \/ About(ch, letter, x)
    BY <2>1 DEF Names
  <2>7. Has(Apply(n, kc, present), letter, x) <=>
          IF About(ch, letter, x) /\ (letter = "o" => x \in present)
            THEN ch.sign = "+" ELSE Has(Apply(n, k, present), letter, x)
    BY <2>2, <2>3, ApplyOpIs
  <2> QED  BY <2>4, <2>5, <2>6, <2>7
<1> HIDE DEF P
<1>3. l \in P  BY <1>1, <1>2, SeqInduct
<1> QED  BY <1>3 DEF P

DeliverOp(m, line, present) ==
  IF line.server \/ Me \in m.op THEN Apply(m, ReadLine(line), present) ELSE m
DeliverStep(present) == [p \in NetT \X Line |-> DeliverOp(p[1], p[2], present)]

LEMMA DeliverFold ==
  ASSUME NEW present \in SUBSET (Users \cup {Me}), NEW n \in NetT, NEW out \in Seq(Line)
  PROVE  /\ FoldType(NetT, Line, n, DeliverStep(present), out)
         /\ Deliver(n, out, present) = Folded(DeliverStep(present), n, out)
<1> DEFINE step == DeliverStep(present)
           R(g) == [A \in SUBSET (DOMAIN out) |->
                      IF A = {} THEN n ELSE DeliverOp(g[A \ {Max(A)}], out[Max(A)], present)]
<1>1. \A t \in NetT, x \in Line :
         step[<<t, x>>] = DeliverOp(t, x, present) /\ DeliverOp(t, x, present) \in NetT
  <2> TAKE t \in NetT, x \in Line
  <2>1. ReadLine(x) \in Seq(Change)  BY ReadLineType
  <2>2. Apply(t, ReadLine(x), present) \in NetT  BY <2>1, ApplyType, Zenon
  <2> QED  BY <2>2 DEF DeliverStep, DeliverOp
<1>2. step = [p \in NetT \X Line |-> step[p]]  BY DEF DeliverStep
<1>3. Deliver(n, out, present) = (CHOOSE g : g = R(g))[DOMAIN out]
  BY DEF Deliver, DeliverOp, FoldLeft, MapThenFoldSet
<1> HIDE DEF step
<1>4. OnPairs(NetT, Line, step)  BY <1>1, <1>2 DEF OnPairs
<1>5. FoldType(NetT, Line, n, step, out)  BY <1>4, PairFold
<1>6. PICK h : Chooses(h, NetT, Line, n, step, out)  BY <1>5, Choosable
<1>7. h = R(h)  BY <1>1, <1>6 DEF Chooses
<1>8. PICK g : g = R(g) /\ Deliver(n, out, present) = g[DOMAIN out]  BY <1>3, <1>7
<1>9. Chosen(g, NetT, Line, n, step, out)  BY <1>1, <1>8 DEF Chosen
<1> QED  BY <1>5, <1>8, <1>9, ChosenIsFolded DEF step

LEMMA DeliverEmpty ==
  ASSUME NEW present \in SUBSET (Users \cup {Me}), NEW n \in NetT
  PROVE  Deliver(n, <<>>, present) = n
<1>1. <<>> \in Seq(Line)  OBVIOUS
<1>2. FoldType(NetT, Line, n, DeliverStep(present), <<>>)  BY <1>1, DeliverFold, Zenon
<1>3. Folded(DeliverStep(present), n, <<>>) = n  BY <1>2, FoldedEmpty, Zenon
<1> QED  BY <1>1, <1>3, DeliverFold, Zenon

LEMMA DeliverType ==
  ASSUME NEW present \in SUBSET (Users \cup {Me}), NEW n \in NetT, NEW out \in Seq(Line)
  PROVE  Deliver(n, out, present) \in NetT
BY DeliverFold, FoldedType

LEMMA DeliverAppend ==
  ASSUME NEW present \in SUBSET (Users \cup {Me}), NEW n \in NetT, NEW out \in Seq(Line),
         NEW line \in Line
  PROVE  Deliver(n, Append(out, line), present) =
           DeliverOp(Deliver(n, out, present), line, present)
<1>1. Folded(DeliverStep(present), n, Append(out, line)) =
        DeliverStep(present)[<<Deliver(n, out, present), line>>]
  BY DeliverFold, FoldedAppend
<1> DEFINE k == Append(out, line)
<1>2. k \in Seq(Line)  OBVIOUS
<1> HIDE DEF k
<1>3. Deliver(n, k, present) = Folded(DeliverStep(present), n, k)  BY <1>2, DeliverFold
<1>4. DeliverStep(present)[<<Deliver(n, out, present), line>>] =
        DeliverOp(Deliver(n, out, present), line, present)
  BY DeliverType DEF DeliverStep
<1> QED  BY <1>1, <1>3, <1>4 DEF k

LEMMA DeliverCat ==
  ASSUME NEW present \in SUBSET (Users \cup {Me}), NEW n \in NetT, NEW out \in Seq(Line),
         NEW more \in Seq(Line)
  PROVE  Deliver(n, out \o more, present) = Deliver(Deliver(n, out, present), more, present)
<1>1. Folded(DeliverStep(present), n, out \o more) =
        Folded(DeliverStep(present), Deliver(n, out, present), more)
  BY DeliverFold, FoldedCat
<1> DEFINE k == out \o more
<1>2. k \in Seq(Line)  OBVIOUS
<1> HIDE DEF k
<1>3. Deliver(n, k, present) = Folded(DeliverStep(present), n, k)  BY <1>2, DeliverFold
<1>4. Folded(DeliverStep(present), Deliver(n, out, present), more) =
        Deliver(Deliver(n, out, present), more, present)
  BY DeliverType, DeliverFold
<1> QED  BY <1>1, <1>3, <1>4 DEF k

\* Lines of a server are heard, and so are those of a client that is op and
\* does not take its own op away.
LEMMA DeliverAll ==
  ASSUME NEW present \in SUBSET (Users \cup {Me}), NEW n \in NetT, NEW server \in BOOLEAN,
         NEW out \in Seq(LineBy(server)),
         server \/ (Me \in n.op /\ ~Names(ReadAll(out), "o", Me))
  PROVE  Deliver(n, out, present) = Apply(n, ReadAll(out), present)
<1>0. LineBy(server) \subseteq Line /\ \A line \in LineBy(server) : line.server = server
  BY DEF LineBy, Line
<1> DEFINE P == {k \in Seq(LineBy(server)) :
                   server \/ (Me \in n.op /\ ~Names(ReadAll(k), "o", Me)) =>
                     Deliver(n, k, present) = Apply(n, ReadAll(k), present)}
<1>1. <<>> \in P
  <2>1. <<>> \in Seq(LineBy(server)) /\ ReadAll(<<>>) = <<>>  BY ReadAllIs
  <2>2. Apply(n, <<>>, present) = n  BY ApplyEmpty, Zenon
  <2>3. Deliver(n, <<>>, present) = n  BY DeliverEmpty, Zenon
  <2> QED  BY <2>1, <2>2, <2>3
<1>2. ASSUME NEW k \in Seq(LineBy(server)), NEW line \in LineBy(server), k \in P
      PROVE  Append(k, line) \in P
  <2> DEFINE kl == Append(k, line)
             all == ReadAll(k)
             new == ReadLine(line)
  <2>1. kl \in Seq(LineBy(server)) /\ k \in Seq(Line) /\ line \in Line  BY <1>0
  <2>2. all \in Seq(Change) /\ new \in Seq(Change) /\ ReadAll(kl) = all \o new
    BY <2>1, ReadAllIs, ReadLineType
  <2>3. Deliver(n, kl, present) = DeliverOp(Deliver(n, k, present), line, present)
    BY <2>1, DeliverAppend, Zenon
  <2> HIDE DEF kl, all, new
  <2> SUFFICES ASSUME server \/ (Me \in n.op /\ ~Names(ReadAll(kl), "o", Me))
               PROVE  Deliver(n, kl, present) = Apply(n, ReadAll(kl), present)
    BY <2>1 DEF kl
  <2>4. ToSet(all) \subseteq ToSet(all \o new)
    <3>1. \A i \in 1..Len(all) : i \in 1..Len(all \o new) /\ (all \o new)[i] = all[i]  BY <2>2
    <3>2. DOMAIN all = 1..Len(all) /\ DOMAIN (all \o new) = 1..Len(all \o new)  BY <2>2
    <3> QED  BY <3>1, <3>2 DEF ToSet
  <2>5. server \/ (Me \in n.op /\ ~Names(all, "o", Me))  BY <2>2, <2>4 DEF Names
  <2>6. Deliver(n, k, present) = Apply(n, all, present)  BY <1>2, <2>5 DEF all
  <2>7. ASSUME ~server  PROVE Me \in Apply(n, all, present).op
    <3>1. ~Names(all, "o", Me) /\ Me \in n.op  BY <2>5, <2>7
    <3>2. AllSign(all, "o", Me, "+")  BY <3>1 DEF AllSign, Names
    <3>3. "o" \in ModeLetters /\ "o" \notin Modes  BY DEF ModeLetters, Modes
    <3>4. Has(n, "o", Me)  BY <3>1 DEF Has
    <3>5. Has(Apply(n, all, present), "o", Me)  BY <2>2, <3>1, <3>2, <3>3, <3>4, ApplyHas
    <3> QED  BY <3>3, <3>5 DEF Has
  <2>8. line.server = server  BY <1>0
  <2>9. Deliver(n, kl, present) = Apply(Apply(n, all, present), new, present)
    BY <2>3, <2>6, <2>7, <2>8 DEF DeliverOp, new
  <2>10. Apply(n, all \o new, present) = Apply(Apply(n, all, present), new, present)
    BY <2>2, ApplyCat, Zenon
  <2> QED  BY <2>2, <2>9, <2>10
<1> HIDE DEF P
<1>3. out \in P  BY <1>1, <1>2, SeqInduct
<1> QED  BY <1>3 DEF P

\* Those of a client that is not op are not.
LEMMA DeliverNone ==
  ASSUME NEW present \in SUBSET (Users \cup {Me}), NEW n \in NetT, Me \notin n.op,
         NEW server \in BOOLEAN, ~server,
         NEW out \in Seq(LineBy(server))
  PROVE  Deliver(n, out, present) = n
<1>0. LineBy(server) \subseteq Line /\ \A line \in LineBy(server) : line.server = server
  BY DEF LineBy, Line
<1> DEFINE P == {k \in Seq(LineBy(server)) : Deliver(n, k, present) = n}
<1>1. <<>> \in P
  <2>1. <<>> \in Seq(LineBy(server))  OBVIOUS
  <2> QED  BY <2>1, DeliverEmpty
<1>2. ASSUME NEW k \in Seq(LineBy(server)), NEW line \in LineBy(server), k \in P
      PROVE  Append(k, line) \in P
  <2>1. Append(k, line) \in Seq(LineBy(server)) /\ k \in Seq(Line) /\ line \in Line  BY <1>0
  <2>2. Deliver(n, Append(k, line), present) = DeliverOp(Deliver(n, k, present), line, present)
    BY <2>1, DeliverAppend, Zenon
  <2> QED  BY <1>0, <1>2, <2>1, <2>2 DEF DeliverOp
<1> HIDE DEF P
<1>3. out \in P  BY <1>1, <1>2, SeqInduct
<1> QED  BY <1>3 DEF P

-----------------------------------------------------------------------------
(* The structure, with changes of some letters only in its queue.          *)

\* What the service asks for as a client.
Waits(L) ==
  {e \in Entry : /\ ~e.server /\ e.letter \in L /\ Fits(e)
                 /\ e.letter \in {"o", "b"} => e.arg \in Users}

\* Two entries about the same thing, and a queue in which they do not differ.
Same(e, f) == e.letter = f.letter /\ e.arg = f.arg
Agreed(q) == \A e, f \in ToSet(q) : Same(e, f) => e.sign = f.sign

ChanT ==
  [exists : BOOLEAN, on : BOOLEAN, amOp : BOOLEAN, users : SUBSET Users,
   chanop : SUBSET Users, queue : Seq(Entry), bans : SUBSET Users, mode : Seq(Modes),
   flags : SUBSET Flags, out : Seq(Line)]
ChanOK(c, L) ==
  /\ c \in ChanT /\ c.chanop \subseteq c.users /\ IsInjective(c.mode)
  /\ ToSet(c.queue) \subseteq Waits(L) /\ Agreed(c.queue) /\ Sendable(c.queue)

\* The parts of the structure that neither the queue nor a flush changes.
SameRest(c, d) ==
  /\ d.exists = c.exists /\ d.on = c.on /\ d.amOp = c.amOp /\ d.users = c.users
  /\ d.mode = c.mode /\ d.flags = c.flags

LEMMA ChangesHas ==
  ASSUME NEW q \in Seq(Entry)
  PROVE  ToSet(Changes(q)) = {Said(e) : e \in ToSet(q)}
<1>1. DOMAIN Changes(q) = 1..Len(q) /\ DOMAIN q = 1..Len(q)  BY DEF Changes
<1>2. \A i \in 1..Len(q) : Changes(q)[i] = Said(q[i])  BY DEF Changes
<1> QED  BY <1>1, <1>2 DEF ToSet

LEMMA OnlyAll ==
  ASSUME NEW X, NEW l \in Seq(X), NEW S
  PROVE  /\ ToSet(l) \subseteq S => Only(l, S) = l
         /\ ToSet(l) \cap S = {} => Only(l, S) = <<>>
<1> DEFINE P == {k \in Seq(X) : /\ ToSet(k) \subseteq S => Only(k, S) = k
                                /\ ToSet(k) \cap S = {} => Only(k, S) = <<>>}
<1>1. <<>> \in P
  <2>1. <<>> \in Seq(X)  OBVIOUS
  <2> QED  BY <2>1, OnlyEmpty
<1>2. ASSUME NEW k \in Seq(X), NEW x \in X, k \in P  PROVE Append(k, x) \in P
  <2>1. Append(k, x) \in Seq(X) /\ ToSet(Append(k, x)) = ToSet(k) \cup {x}  BY ToSetAppend
  <2>2. Only(Append(k, x), S) = IF x \in S THEN Append(Only(k, S), x) ELSE Only(k, S)
    BY OnlyAppend
  <2> QED  BY <1>2, <2>1, <2>2
<1> HIDE DEF P
<1>3. l \in P  BY <1>1, <1>2, SeqInduct
<1> QED  BY <1>3 DEF P

\* The entry that asks for a change, and what changemode makes of the queue.
Ask(sign, letter, arg) == [sign |-> sign, letter |-> letter, arg |-> arg, server |-> FALSE]
Alike(q, e) == {f \in ToSet(q) : Same(f, e)}
Asks(c, e) ==
  IF ~c.on \/ (\E f \in Alike(c.queue, e) : f.sign = e.sign) THEN c
  ELSE [c EXCEPT !.queue = Append(Only(c.queue, ToSet(c.queue) \ Alike(c.queue, e)), e)]

LEMMA ChangeModeIs ==
  ASSUME NEW c, NEW sign, NEW letter, NEW arg
  PROVE  ChangeMode(c, sign, letter, arg, FALSE) = Asks(c, Ask(sign, letter, arg))
BY DEF ChangeMode, Asks, Ask, Alike, Same

\* A queue can be sent when its last entry fits and what is before it can.
LEMMA SendableAppend ==
  ASSUME NEW q \in Seq(Entry), NEW e \in Entry, Sendable(q), Fits(e),
         Starved(q) => e.arg = NoArg
  PROVE  Sendable(Append(q, e))
<1> DEFINE k == Append(q, e)
<1>1. /\ Len(k) = Len(q) + 1 /\ k[Len(q) + 1] = e /\ Len(q) \in Nat
      /\ \A i \in 1..Len(q) : k[i] = q[i]
  BY AppendAt
<1> HIDE DEF k
<1>2. \A i \in 1..(Len(q) + 1) : i \in 1..Len(q) \/ i = Len(q) + 1  BY <1>1
<1>3. \A i \in 1..Len(k) : Fits(k[i])  BY <1>1, <1>2 DEF Sendable
<1>4. ASSUME NEW i \in 1..Len(k), NEW j \in 1..Len(k), i < j, Starves(k[i])
      PROVE  k[j].arg = NoArg
  <2>1. i \in 1..Len(q)  BY <1>1, <1>4
  <2>2. k[i] = q[i]  BY <1>1, <2>1
  <2>3. CASE j \in 1..Len(q)  BY <1>1, <1>4, <2>1, <2>2, <2>3 DEF Sendable
  <2>4. CASE j = Len(q) + 1  BY <1>1, <1>4, <2>1, <2>2, <2>4 DEF Starved
  <2> QED  BY <1>1, <1>2, <2>3, <2>4
<1>5. Sendable(k)  BY <1>3, <1>4 DEF Sendable
<1> QED  BY <1>5 DEF k

LEMMA StarvedIn ==
  ASSUME NEW q \in Seq(Entry)
  PROVE  Starved(q) <=> \E e \in ToSet(q) : Starves(e)
<1>1. DOMAIN q = 1..Len(q)  OBVIOUS
<1> QED  BY <1>1 DEF Starved, ToSet

LEMMA SendableOnly ==
  ASSUME NEW q \in Seq(Entry), NEW S, Sendable(q)
  PROVE  Sendable(Only(q, S))
<1> DEFINE P == {k \in Seq(Entry) : Sendable(k) => Sendable(Only(k, S))}
<1>1. <<>> \in P
  <2>1. <<>> \in Seq(Entry)  OBVIOUS
  <2> QED  BY <2>1, OnlyEmpty
<1>2. ASSUME NEW k \in Seq(Entry), NEW e \in Entry, k \in P  PROVE Append(k, e) \in P
  <2> DEFINE ke == Append(k, e)
  <2>1. ke \in Seq(Entry)  OBVIOUS
  <2> SUFFICES ASSUME Sendable(ke)  PROVE Sendable(Only(ke, S))  BY <2>1
  <2>2. Sendable(k) /\ Fits(e) /\ (Starved(k) => e.arg = NoArg)  BY SendablePrefix
  <2>3. Only(ke, S) = IF e \in S THEN Append(Only(k, S), e) ELSE Only(k, S)  BY OnlyAppend
  <2> HIDE DEF ke
  <2>4. Sendable(Only(k, S)) /\ Only(k, S) \in Seq(Entry)  BY <1>2, <2>2, OnlySeq
  <2>5. Starved(Only(k, S)) => Starved(k)  BY <2>4, OnlyToSet, StarvedIn
  <2>6. Sendable(Append(Only(k, S), e))  BY <2>2, <2>4, <2>5, SendableAppend
  <2> QED  BY <2>3, <2>4, <2>6
<1> HIDE DEF P
<1>3. q \in P  BY <1>1, <1>2, SeqInduct
<1> QED  BY <1>3 DEF P

\* What asking does: the opposite change no longer waits, and this one does.
Asked(c, d, e) ==
  /\ SameRest(c, d) /\ d.bans = c.bans /\ d.chanop = c.chanop /\ d.out = c.out
  /\ c.on => ToSet(d.queue) = (ToSet(c.queue) \ Alike(c.queue, e)) \cup {e}
  /\ ~c.on => d = c

LEMMA AsksOK ==
  ASSUME NEW L, NEW c, ChanOK(c, L), NEW e \in Waits(L), Starved(c.queue) => e.arg = NoArg
  PROVE  ChanOK(Asks(c, e), L) /\ Asked(c, Asks(c, e), e)
<1> DEFINE q == c.queue
           A == Alike(q, e)
           S == ToSet(q) \ A
<1>1. /\ c \in ChanT /\ q \in Seq(Entry) /\ ToSet(q) \subseteq Waits(L)
      /\ Agreed(q) /\ Sendable(q) /\ c.chanop \subseteq c.users /\ IsInjective(c.mode)
  BY DEF ChanOK, ChanT
<1>2. e \in Entry /\ ~e.server /\ Fits(e) /\ e.server \in BOOLEAN  BY DEF Waits, Entry
<1>3. CASE ~c.on  BY <1>3 DEF Asks, Asked, SameRest
<1>4. CASE c.on /\ \E f \in A : f.sign = e.sign
  <2>1. Asks(c, e) = c  BY <1>4 DEF Asks
  <2>2. ASSUME NEW f \in A  PROVE f = e
    <3>1. PICK g \in A : g.sign = e.sign  BY <1>4
    <3>2. f \in ToSet(q) /\ g \in ToSet(q) /\ Same(f, e) /\ Same(g, e)  BY DEF Alike
    <3>3. f.sign = e.sign  BY <1>1, <3>1, <3>2 DEF Agreed, Same
    <3>4. f \in Entry /\ ~f.server  BY <1>1, <3>2 DEF Waits
    <3> QED  BY <1>2, <3>2, <3>3, <3>4 DEF Same, Entry
  <2>3. e \in A  BY <1>4, <2>2
  <2>4. A = {e} /\ e \in ToSet(q)  BY <2>2, <2>3 DEF Alike
  <2>5. ToSet(q) = (ToSet(q) \ A) \cup {e}  BY <2>4
  <2> QED  BY <1>4, <2>1, <2>5 DEF Asked, SameRest
<1>5. CASE c.on /\ ~\E f \in A : f.sign = e.sign
  <2> DEFINE o == Only(q, S)
             k == Append(o, e)
             d == [c EXCEPT !.queue = k]
  <2>1. Asks(c, e) = d  BY <1>5 DEF Asks
  <2>2. o \in Seq(Entry) /\ ToSet(o) = S /\ Sendable(o)
    BY <1>1, OnlySeq, OnlyToSet, SendableOnly
  <2>3. Starved(o) => Starved(q)  BY <1>1, <2>2, StarvedIn
  <2> HIDE DEF o
  <2>4. Sendable(k) /\ k \in Seq(Entry) /\ ToSet(k) = S \cup {e}
    BY <1>2, <2>2, <2>3, SendableAppend, ToSetAppend
  <2> HIDE DEF k
  <2>5. Agreed(k)  BY <1>1, <2>4 DEF Agreed, Same, Alike
  <2>6. ToSet(k) \subseteq Waits(L)  BY <1>1, <2>4
  <2>7. d.queue = k /\ d \in ChanT /\ d.chanop = c.chanop /\ d.users = c.users /\ d.mode = c.mode
    BY <1>1, <2>4 DEF ChanT
  <2>8. SameRest(c, d) /\ d.bans = c.bans /\ d.out = c.out  BY <1>1 DEF SameRest, ChanT
  <2> HIDE DEF d
  <2>9. ChanOK(d, L)  BY <1>1, <2>4, <2>5, <2>6, <2>7 DEF ChanOK
  <2>10. Asked(c, d, e)  BY <1>5, <2>4, <2>7, <2>8 DEF Asked
  <2> QED  BY <2>1, <2>9, <2>10
<1> QED  BY <1>3, <1>4, <1>5

-----------------------------------------------------------------------------
(* A flush, and what the network makes of it.                              *)

LEMMA ChanTypes ==
  ASSUME NEW c \in ChanT
  PROVE  /\ c.exists \in BOOLEAN /\ c.on \in BOOLEAN /\ c.amOp \in BOOLEAN
         /\ c.users \subseteq Users /\ c.chanop \subseteq Users /\ c.bans \subseteq Users
         /\ c.queue \in Seq(Entry) /\ c.mode \in Seq(Modes) /\ c.flags \subseteq Flags
         /\ c.out \in Seq(Line)
BY DEF ChanT

LEMMA LinesOfNone ==
  ASSUME NEW server \in BOOLEAN
  PROVE  LinesOf(<<>>, server) = <<>>
<1>1. <<>> \in Seq(Entry)  OBVIOUS
<1>2. Writing(<<>>, server) = WriteStart  BY <1>1, WriteFold, FoldedEmpty DEF Writing
<1>3. LinesOf(<<>>, server) = BreakOp(WriteStart, server).lines  BY <1>1, <1>2, LinesOfIs
<1> QED  BY <1>3 DEF BreakOp, WriteStart

\* Does a queue ask for this?
Wants(q, sign, letter, x) == \E e \in ToSet(q) : About(e, letter, x) /\ e.sign = sign
Masks(q, sign) == {e.arg : e \in {e \in ToSet(q) : e.letter = "b" /\ e.sign = sign}}

\* What the network is when the lines have come.
Sent(c, n, present) == Deliver(n, c.out, present)

LEMMA SentNone ==
  ASSUME NEW present \in SUBSET (Users \cup {Me}), NEW n \in NetT, NEW c, c.out = <<>>
  PROVE  Sent(c, n, present) = n
<1>1. Deliver(n, <<>>, present) = n  BY DeliverEmpty, Zenon
<1> QED  BY <1>1 DEF Sent

LEMMA SentType ==
  ASSUME NEW present \in SUBSET (Users \cup {Me}), NEW n \in NetT, NEW c, c.out \in Seq(Line)
  PROVE  Sent(c, n, present) \in NetT
BY DeliverType, Zenon DEF Sent

\* What is written when c's queue is.
Sends(c) == IF c.amOp THEN LinesOf(c.queue, FALSE) ELSE <<>>

LEMMA FlushIs ==
  ASSUME NEW c \in ChanT, \A e \in ToSet(c.queue) : ~e.server /\ e.server \in BOOLEAN
  PROVE  FlushMode(c) = [c EXCEPT !.queue = <<>>,
                                  !.bans = (c.bans \ Masks(c.queue, "-")) \cup Masks(c.queue, "+"),
                                  !.out = c.out \o Sends(c)]
<1> DEFINE q == c.queue
           yes == {e \in ToSet(q) : e.server = TRUE}
           no == {e \in ToSet(q) : e.server = FALSE}
<1>1. c = [c EXCEPT !.queue = c.queue, !.bans = c.bans, !.out = c.out]  BY DEF ChanT
<1>2. q \in Seq(Entry) /\ c.out \in Seq(Line)  BY ChanTypes
<1>3. CASE q = <<>>
  <2>1. FlushMode(c) = c  BY <1>3 DEF FlushMode
  <2>2. ToSet(q) = {}  BY <1>3, ToSetEmpty
  <2>3. Masks(q, "-") = {} /\ Masks(q, "+") = {}  BY <2>2 DEF Masks
  <2>4. Sends(c) = <<>>  BY <1>3, LinesOfNone DEF Sends
  <2>5. c.out \o <<>> = c.out  BY <1>2
  <2> QED  BY <1>1, <1>3, <2>1, <2>3, <2>4, <2>5
<1>4. CASE q # <<>>
  <2>1. yes = {} /\ ToSet(q) \subseteq no  OBVIOUS
  <2>2. Only(q, yes) = <<>> /\ Only(q, no) = q
    <3> HIDE DEF yes, no, q
    <3> QED  BY <1>2, <2>1, OnlyAll
  <2>3. FlushMode(c) =
          [c EXCEPT !.queue = <<>>,
                    !.bans = (c.bans \ Masks(q, "-")) \cup Masks(q, "+"),
                    !.out = c.out \o LinesOf(Only(q, yes), TRUE)
                              \o (IF c.amOp THEN LinesOf(Only(q, no), FALSE) ELSE <<>>)]
    BY <1>4 DEF FlushMode, Masks
  <2>4. LinesOf(Only(q, yes), TRUE) = <<>>  BY <2>2, LinesOfNone
  <2>5. c.out \o <<>> = c.out  BY <1>2
  <2> QED  BY <2>2, <2>3, <2>4, <2>5 DEF Sends
<1> QED  BY <1>3, <1>4

LEMMA SendsType ==
  ASSUME NEW L, NEW c, ChanOK(c, L)
  PROVE  Sends(c) \in Seq(LineBy(FALSE)) /\ Sends(c) \in Seq(Line)
<1>1. <<>> \in Seq(LineBy(FALSE))  OBVIOUS
<1>2. c.queue \in Seq(Entry) /\ Sendable(c.queue)  BY DEF ChanOK, ChanT
<1>3. LinesOf(c.queue, FALSE) \in Seq(LineBy(FALSE))  BY <1>2, LinesAreRead
<1>4. Sends(c) \in Seq(LineBy(FALSE))  BY <1>1, <1>3 DEF Sends
<1>5. LineBy(FALSE) \subseteq Line  BY DEF LineBy, Line
<1>6. Sends(c) \in Seq(Line)  BY <1>4, <1>5, SeqMonotonic
<1> QED  BY <1>4, <1>6

\* After a flush nothing waits; the bans asked for are in the list and those
\* asked away are not.
LEMMA FlushOK ==
  ASSUME NEW L, NEW c, ChanOK(c, L)
  PROVE  /\ \A M : ChanOK(FlushMode(c), M)
         /\ SameRest(c, FlushMode(c)) /\ FlushMode(c).chanop = c.chanop
         /\ FlushMode(c).queue = <<>>
         /\ FlushMode(c).bans = (c.bans \ Masks(c.queue, "-")) \cup Masks(c.queue, "+")
         /\ FlushMode(c).out = c.out \o Sends(c)
<1> DEFINE d == FlushMode(c)
<1>1. /\ c \in ChanT /\ c.queue \in Seq(Entry) /\ ToSet(c.queue) \subseteq Waits(L)
      /\ c.chanop \subseteq c.users /\ IsInjective(c.mode) /\ c.out \in Seq(Line)
  BY DEF ChanOK, ChanT
<1>2. \A e \in ToSet(c.queue) : ~e.server /\ e.server \in BOOLEAN  BY <1>1 DEF Waits, Entry
<1>3. Masks(c.queue, "+") \subseteq Users  BY <1>1 DEF Masks, Waits
<1>4. c.out \o Sends(c) \in Seq(Line)
  <2>1. Sends(c) \in Seq(Line)  BY SendsType
  <2> QED  BY <1>1, <2>1
<1>5. d = [c EXCEPT !.queue = <<>>,
                    !.bans = (c.bans \ Masks(c.queue, "-")) \cup Masks(c.queue, "+"),
                    !.out = c.out \o Sends(c)]
  BY <1>1, <1>2, FlushIs
<1> HIDE DEF d
<1>6. <<>> \in Seq(Entry) /\ ToSet(<<>>) = {} /\ Sendable(<<>>)  BY ToSetEmpty DEF Sendable
<1>7. d \in ChanT /\ d.queue = <<>> /\ d.chanop = c.chanop /\ SameRest(c, d)
      /\ d.bans = (c.bans \ Masks(c.queue, "-")) \cup Masks(c.queue, "+")
      /\ d.out = c.out \o Sends(c)
  BY <1>1, <1>3, <1>4, <1>5, <1>6 DEF ChanT, SameRest
<1>8. \A M : ChanOK(d, M)  BY <1>1, <1>6, <1>7 DEF ChanOK, Agreed, SameRest
<1> QED  BY <1>7, <1>8 DEF d

LEMMA ChangesType == ASSUME NEW q \in Seq(Entry) PROVE Changes(q) \in Seq(Change)
<1>1. \A i \in 1..Len(q) : q[i] \in Entry  OBVIOUS
<1>2. \A i \in 1..Len(q) : Said(q[i]) \in Change  BY <1>1 DEF Said, SaidAs, Entry, Change
<1>3. Len(q) \in Nat  OBVIOUS
<1> QED  BY <1>2, <1>3 DEF Changes

LEMMA WantsIs ==
  ASSUME NEW q \in Seq(Entry), NEW letter, NEW x, NEW sign
  PROVE  Wants(q, sign, letter, x) <=>
           \E ch \in ToSet(Changes(q)) : About(ch, letter, x) /\ ch.sign = sign
<1> DEFINE S == ToSet(Changes(q))
           E == ToSet(q)
<1>1. S = {Said(e) : e \in E}  BY ChangesHas
<1>2. \A e : /\ Said(e).sign = e.sign /\ Said(e).letter = e.letter /\ Said(e).arg = e.arg
  BY DEF Said, SaidAs
<1> HIDE DEF S, E
<1>3. (\E e \in E : About(e, letter, x) /\ e.sign = sign)
        <=> \E ch \in S : About(ch, letter, x) /\ ch.sign = sign
  BY <1>1, <1>2 DEF About
<1> QED  BY <1>3 DEF Wants, S, E

\* The network after the changes of a queue that does not contradict itself.
LEMMA AppliedHas ==
  ASSUME NEW q \in Seq(Entry), NEW n \in NetT, NEW present \in SUBSET (Users \cup {Me}),
         NEW letter \in ModeLetters, NEW x, letter = "o" => x \in present,
         ~(Wants(q, "+", letter, x) /\ Wants(q, "-", letter, x))
  PROVE  Has(Apply(n, Changes(q), present), letter, x) <=>
           Wants(q, "+", letter, x) \/ (Has(n, letter, x) /\ ~Wants(q, "-", letter, x))
<1> DEFINE l == Changes(q)
<1>1. l \in Seq(Change)  BY ChangesType
<1> HIDE DEF l
<1>2. \A ch \in ToSet(l) : ch.sign = "+" \/ ch.sign = "-"
  <2>1. ToSet(l) \subseteq Change  BY <1>1, ToSetType
  <2> QED  BY <2>1 DEF Change
<1>3. \A sign : Wants(q, sign, letter, x) <=>
                  \E ch \in ToSet(l) : About(ch, letter, x) /\ ch.sign = sign
  BY WantsIs DEF l
<1>4. PICK sign \in {"+", "-"} : ~Wants(q, IF sign = "+" THEN "-" ELSE "+", letter, x)
  OBVIOUS
<1>5. AllSign(l, letter, x, sign)  BY <1>2, <1>3, <1>4 DEF AllSign
<1>6. Has(Apply(n, l, present), letter, x) <=>
        IF Names(l, letter, x) THEN sign = "+" ELSE Has(n, letter, x)
  BY <1>1, <1>5, ApplyHas
<1>7. Names(l, letter, x) <=> Wants(q, sign, letter, x)
  BY <1>3, <1>5 DEF Names, AllSign
<1> QED  BY <1>4, <1>6, <1>7 DEF l

\* Where the service is op its lines change the network as its queue says.
LEMMA FlushSent ==
  ASSUME NEW L, NEW c, ChanOK(c, L),
         NEW n \in NetT, NEW present \in SUBSET (Users \cup {Me})
  PROVE  /\ Sent(c, n, present) \in NetT
         /\ c.amOp /\ Me \in Sent(c, n, present).op =>
              Sent(FlushMode(c), n, present) = Apply(Sent(c, n, present), Changes(c.queue), present)
         /\ ~(c.amOp /\ Me \in Sent(c, n, present).op) =>
              Sent(FlushMode(c), n, present) = Sent(c, n, present)
<1> DEFINE m == Sent(c, n, present)
           more == Sends(c)
           l == Changes(c.queue)
<1>1. /\ c.queue \in Seq(Entry) /\ ToSet(c.queue) \subseteq Waits(L) /\ Sendable(c.queue)
      /\ c.out \in Seq(Line) /\ c.amOp \in BOOLEAN
  BY DEF ChanOK, ChanT
<1>2. FlushMode(c).out = c.out \o more /\ more \in Seq(LineBy(FALSE)) /\ more \in Seq(Line)
  BY FlushOK, SendsType
<1>3. m \in NetT  BY <1>1, SentType, Zenon
<1>4. Sent(FlushMode(c), n, present) = Deliver(m, more, present)
  <2> DEFINE o == c.out
  <2> HIDE DEF more, o
  <2>1. Deliver(n, o \o more, present) = Deliver(Deliver(n, o, present), more, present)
    BY <1>1, <1>2, DeliverCat, Zenon DEF o
  <2> QED  BY <1>2, <2>1 DEF Sent, o
<1>5. c.amOp => ReadAll(more) = l  BY <1>1, LinesAreRead DEF Sends
<1>6. ~Names(l, "o", Me)
  <2>1. Me \notin Users  BY ModesOK
  <2>2. \A e \in ToSet(c.queue) : e.letter = "o" => e.arg \in Users  BY <1>1 DEF Waits
  <2>3. ToSet(l) = {Said(e) : e \in ToSet(c.queue)}  BY <1>1, ChangesHas
  <2> HIDE DEF l
  <2> QED  BY <2>1, <2>2, <2>3 DEF Names, About, Said, SaidAs
<1>7. PICK server \in BOOLEAN : server = FALSE  OBVIOUS
<1>8. more \in Seq(LineBy(server)) /\ ~server
  <2>1. LineBy(server) = LineBy(FALSE)  BY <1>7 DEF LineBy
  <2> QED  BY <1>2, <1>7, <2>1
<1> HIDE DEF m, more, l
<1>9. ASSUME c.amOp, Me \in m.op  PROVE Deliver(m, more, present) = Apply(m, l, present)
  BY <1>3, <1>5, <1>6, <1>8, <1>9, DeliverAll
<1>10. ASSUME ~(c.amOp /\ Me \in m.op)  PROVE Deliver(m, more, present) = m
  <2>1. CASE ~c.amOp
    <3>1. more = <<>>  BY <2>1 DEF more, Sends
    <3> QED  BY <1>3, <3>1, DeliverEmpty
  <2>2. CASE Me \notin m.op  BY <1>3, <1>8, <2>2, DeliverNone
  <2> QED  BY <1>10, <2>1, <2>2
<1> QED  BY <1>3, <1>4, <1>9, <1>10 DEF m, l

\* No queue of the service's own asks for its op, or for what it has no letter for.
LEMMA NotWanted ==
  ASSUME NEW L, NEW c, ChanOK(c, L)
  PROVE  /\ \A sign : ~Wants(c.queue, sign, "o", Me)
         /\ \A sign, letter, x : letter \notin L => ~Wants(c.queue, sign, letter, x)
         /\ \A x, y : ~(Wants(c.queue, "+", "b", x) /\ Wants(c.queue, "-", "b", x))
         /\ \A sign, x : Wants(c.queue, sign, "b", x) => x \in Users
         /\ \A x : ~Wants(c.queue, "+", "l", x)
<1>1. \A e \in ToSet(c.queue) : e \in Waits(L)  BY DEF ChanOK
<1>2. Me \notin Users  BY ModesOK
<1>3. \A sign : ~Wants(c.queue, sign, "o", Me)  BY <1>1, <1>2 DEF Wants, About, Waits
<1>4. \A sign, letter, x : letter \notin L => ~Wants(c.queue, sign, letter, x)
  BY <1>1 DEF Wants, About, Waits
<1>5. \A x : ~(Wants(c.queue, "+", "b", x) /\ Wants(c.queue, "-", "b", x))
  BY DEF Wants, About, ChanOK, Agreed, Same
<1>6. \A sign, x : Wants(c.queue, sign, "b", x) => x \in Users
  BY <1>1 DEF Wants, About, Waits
<1>7. \A x : ~Wants(c.queue, "+", "l", x)  BY <1>1 DEF Wants, About, Waits, Fits
<1> QED  BY <1>3, <1>4, <1>5, <1>6, <1>7

LEMMA FlushMe ==
  ASSUME NEW L, NEW c, ChanOK(c, L),
         NEW n \in NetT, NEW present \in SUBSET (Users \cup {Me})
  PROVE  Me \in Sent(FlushMode(c), n, present).op <=> Me \in Sent(c, n, present).op
<1> DEFINE m == Sent(c, n, present)
           k == Sent(FlushMode(c), n, present)
           l == Changes(c.queue)
<1>1. /\ m \in NetT
      /\ c.amOp /\ Me \in m.op => k = Apply(m, l, present)
      /\ ~(c.amOp /\ Me \in m.op) => k = m
  BY FlushSent
<1>2. c.queue \in Seq(Entry)  BY DEF ChanOK, ChanT
<1>3. l \in Seq(Change)  BY <1>2, ChangesType
<1>4. \A sign : ~Wants(c.queue, sign, "o", Me)  BY NotWanted
<1>5. ~Names(l, "o", Me)
  <2> SUFFICES ASSUME NEW ch \in ToSet(l), About(ch, "o", Me)  PROVE FALSE  BY DEF Names
  <2>1. Wants(c.queue, ch.sign, "o", Me)  BY <1>2, WantsIs, Zenon
  <2> QED  BY <1>4, <2>1
<1> HIDE DEF m, k, l
<1>6. AllSign(l, "o", Me, "+")  BY <1>5 DEF AllSign, Names
<1>7. "o" \in ModeLetters /\ "o" \notin Modes  BY DEF ModeLetters, Modes
<1>8. Has(Apply(m, l, present), "o", Me) <=> Has(m, "o", Me)
  BY <1>1, <1>3, <1>5, <1>6, <1>7, ApplyHas
<1> QED  BY <1>1, <1>7, <1>8 DEF Has, m, k

LEMMA FlushHas ==
  ASSUME NEW L, NEW c, ChanOK(c, L),
         NEW n \in NetT, NEW present \in SUBSET (Users \cup {Me}),
         NEW letter \in {"b"} \cup Modes, NEW x,
         ~(Wants(c.queue, "+", letter, x) /\ Wants(c.queue, "-", letter, x))
  PROVE  /\ c.amOp /\ Me \in Sent(c, n, present).op =>
              (Has(Sent(FlushMode(c), n, present), letter, x) <=>
                 \/ Wants(c.queue, "+", letter, x)
                 \/ Has(Sent(c, n, present), letter, x) /\ ~Wants(c.queue, "-", letter, x))
         /\ letter \notin L =>
              (Has(Sent(FlushMode(c), n, present), letter, x) <=> Has(Sent(c, n, present), letter, x))
<1> DEFINE m == Sent(c, n, present)
           k == Sent(FlushMode(c), n, present)
           l == Changes(c.queue)
<1>1. /\ m \in NetT
      /\ c.amOp /\ Me \in m.op => k = Apply(m, l, present)
      /\ ~(c.amOp /\ Me \in m.op) => k = m
  BY FlushSent
<1>2. c.queue \in Seq(Entry)  BY DEF ChanOK, ChanT
<1>3. letter \in ModeLetters /\ letter # "o"  BY DEF ModeLetters, Modes
<1> HIDE DEF m, k, l
<1>4. Has(Apply(m, l, present), letter, x) <=>
        Wants(c.queue, "+", letter, x) \/ (Has(m, letter, x) /\ ~Wants(c.queue, "-", letter, x))
  BY <1>1, <1>2, <1>3, AppliedHas DEF l
<1>5. letter \notin L => ~Wants(c.queue, "+", letter, x) /\ ~Wants(c.queue, "-", letter, x)
  BY NotWanted
<1> QED  BY <1>1, <1>4, <1>5 DEF m, k

\* The bans, in the list and on the network.
LEMMA FlushBans ==
  ASSUME NEW L, NEW c, ChanOK(c, L),
         NEW n \in NetT, NEW present \in SUBSET (Users \cup {Me})
  PROVE  /\ c.amOp /\ Me \in Sent(c, n, present).op =>
              \A x : x \in Sent(FlushMode(c), n, present).bans <=>
                       \/ Wants(c.queue, "+", "b", x)
                       \/ x \in Sent(c, n, present).bans /\ ~Wants(c.queue, "-", "b", x)
         /\ \A x : x \in FlushMode(c).bans <=>
                     \/ Wants(c.queue, "+", "b", x)
                     \/ x \in c.bans /\ ~Wants(c.queue, "-", "b", x)
         /\ Sent(FlushMode(c), n, present).bans \subseteq Sent(c, n, present).bans \cup Users
         /\ "b" \notin L => Sent(FlushMode(c), n, present).bans = Sent(c, n, present).bans
<1> DEFINE m == Sent(c, n, present)
           k == Sent(FlushMode(c), n, present)
           q == c.queue
<1>1. /\ \A x : ~(Wants(q, "+", "b", x) /\ Wants(q, "-", "b", x))
      /\ \A sign, x : Wants(q, sign, "b", x) => x \in Users
  BY NotWanted
<1>2. \A y : Has(m, "b", y) <=> y \in m.bans  BY DEF Has, Modes
<1>3. \A y : Has(k, "b", y) <=> y \in k.bans  BY DEF Has, Modes
<1>4. ASSUME NEW x
      PROVE /\ c.amOp /\ Me \in m.op =>
                 (x \in k.bans <=> Wants(q, "+", "b", x) \/ (x \in m.bans /\ ~Wants(q, "-", "b", x)))
            /\ "b" \notin L => (x \in k.bans <=> x \in m.bans)
  BY <1>1, <1>2, <1>3, FlushHas
<1>5. ~(c.amOp /\ Me \in m.op) => k = m  BY FlushSent
<1>6. \A sign, x : Wants(q, sign, "b", x) <=> x \in Masks(q, sign)  BY DEF Wants, Masks, About
<1>7. FlushMode(c).bans = (c.bans \ Masks(q, "-")) \cup Masks(q, "+")  BY FlushOK
<1> HIDE DEF m, k, q
<1>8. \A x : x \in FlushMode(c).bans <=> Wants(q, "+", "b", x) \/ (x \in c.bans /\ ~Wants(q, "-", "b", x))
  BY <1>1, <1>6, <1>7 DEF q
<1>9. k.bans \subseteq m.bans \cup Users  BY <1>1, <1>4, <1>5
<1>10. "b" \notin L => k.bans = m.bans
  <2>1. k \in NetT /\ m \in NetT
    <3>1. ChanOK(FlushMode(c), L)  BY FlushOK
    <3> QED  BY <3>1, FlushSent DEF k, m
  <2>2. k.bans \subseteq Args /\ m.bans \subseteq Args  BY <2>1 DEF NetT
  <2> QED  BY <1>4, <2>2
<1> QED  BY <1>4, <1>8, <1>9, <1>10 DEF m, k, q

-----------------------------------------------------------------------------
(* What the handlers do when they hear of a change.                        *)

\* What waits while a handler runs that bans nobody.
Heeds == {"o", "l"}

\* The structure is the same but for its modes, its ops, its bans and its queue,
\* and the service has not lost its op.
Kept(c, d) ==
  /\ d.exists = c.exists /\ d.on = c.on /\ d.users = c.users /\ d.flags = c.flags
  /\ c.amOp => d.amOp

\* What was written changes neither the service's op, nor a ban, nor k and i.
SentSame(c, d) ==
  \A n \in NetT, present \in SUBSET (Users \cup {Me}) :
    /\ Sent(d, n, present).bans = Sent(c, n, present).bans
    /\ Me \in Sent(d, n, present).op <=> Me \in Sent(c, n, present).op
    /\ \A f \in {"k", "i"} :
         f \in Sent(d, n, present).modes <=> f \in Sent(c, n, present).modes
Minds(c, d) == ChanOK(d, Heeds) /\ Kept(c, d) /\ SentSame(c, d) /\ d.bans = c.bans

LEMMA SentSameOut ==
  ASSUME NEW c, NEW d, d.out = c.out
  PROVE  SentSame(c, d)
BY DEF SentSame, Sent

LEMMA MindsTrans ==
  ASSUME NEW c, NEW d, NEW e, Minds(c, d), Minds(d, e)
  PROVE  Minds(c, e)
<1>1. ChanOK(e, Heeds) /\ Kept(c, e) /\ e.bans = c.bans  BY DEF Minds, Kept
<1>2. SentSame(c, e)  BY DEF Minds, SentSame
<1> QED  BY <1>1, <1>2 DEF Minds

LEMMA AskIn ==
  ASSUME NEW L, NEW sign \in {"+", "-"}, NEW u \in Users
  PROVE  /\ "o" \in L => Ask(sign, "o", u) \in Waits(L)
         /\ "b" \in L => Ask(sign, "b", u) \in Waits(L)
         /\ "l" \in L => Ask("-", "l", NoArg) \in Waits(L)
<1>1. u \in Args /\ NoArg \in Args /\ u # NoArg  BY ModesOK DEF Args
<1>2. "o" \in ModeLetters /\ "b" \in ModeLetters /\ "l" \in ModeLetters  BY DEF ModeLetters, Modes
<1> QED  BY <1>1, <1>2 DEF Waits, Entry, Ask, Fits

LEMMA NotStarved ==
  ASSUME NEW L, NEW c, ChanOK(c, L), "k" \notin L
  PROVE  ~Starved(c.queue)
<1>1. c.queue \in Seq(Entry) /\ \A e \in ToSet(c.queue) : e.letter \in L
  BY DEF ChanOK, ChanT, Waits
<1> QED  BY <1>1, StarvedIn DEF Starves

LEMMA ChanopOK ==
  ASSUME NEW L, NEW c, ChanOK(c, L), NEW S \in SUBSET c.users
  PROVE  LET d == [c EXCEPT !.chanop = S]
         IN /\ ChanOK(d, L) /\ d.chanop = S /\ SameRest(c, d)
            /\ d.bans = c.bans /\ d.queue = c.queue /\ d.out = c.out
<1> DEFINE d == [c EXCEPT !.chanop = S]
<1>1. c \in ChanT /\ c.users \subseteq Users  BY DEF ChanOK, ChanT
<1>2. /\ d \in ChanT /\ d.chanop = S /\ SameRest(c, d)
      /\ d.bans = c.bans /\ d.queue = c.queue /\ d.out = c.out
  BY <1>1 DEF ChanT, SameRest
<1> HIDE DEF d
<1>3. ChanOK(d, L)  BY <1>2 DEF ChanOK, SameRest
<1> QED  BY <1>2, <1>3 DEF d

LEMMA TakeOpOK ==
  ASSUME NEW L, "o" \in L, "k" \notin L, NEW c, ChanOK(c, L), NEW u \in Users
  PROVE  /\ ChanOK(TakeOp(c, u), L) /\ SameRest(c, TakeOp(c, u))
         /\ TakeOp(c, u).chanop = c.chanop \ {u}
         /\ TakeOp(c, u).bans = c.bans /\ TakeOp(c, u).out = c.out
         /\ c.on => ToSet(TakeOp(c, u).queue) =
                      (ToSet(c.queue) \ Alike(c.queue, Ask("-", "o", u))) \cup {Ask("-", "o", u)}
         /\ ~c.on => TakeOp(c, u).queue = c.queue
<1> DEFINE d == [c EXCEPT !.chanop = c.chanop \ {u}]
           e == Ask("-", "o", u)
<1>1. TakeOp(c, u) = Asks(d, e)  BY ChangeModeIs DEF TakeOp
<1>2. /\ ChanOK(d, L) /\ d.chanop = c.chanop \ {u} /\ SameRest(c, d)
      /\ d.bans = c.bans /\ d.queue = c.queue /\ d.out = c.out
  <2>1. c.chanop \ {u} \in SUBSET c.users  BY DEF ChanOK
  <2> QED  BY <2>1, ChanopOK
<1>3. e \in Waits(L)  BY AskIn
<1> HIDE DEF d, e
<1>4. ~Starved(d.queue)  BY <1>2, NotStarved
<1>5. ChanOK(Asks(d, e), L) /\ Asked(d, Asks(d, e), e)  BY <1>2, <1>3, <1>4, AsksOK
<1> QED  BY <1>1, <1>2, <1>5 DEF Asked, SameRest, e

LEMMA FlushMinds ==
  ASSUME NEW c, ChanOK(c, Heeds)
  PROVE  Minds(c, FlushMode(c))
<1> DEFINE d == FlushMode(c)
<1>1. ChanOK(d, Heeds) /\ SameRest(c, d)  BY FlushOK
<1>2. "b" \notin Heeds /\ "k" \notin Heeds /\ "i" \notin Heeds  BY DEF Heeds
<1>3. d.bans = c.bans
  <2>1. c.bans \subseteq Users /\ d.bans \subseteq Users  BY <1>1 DEF ChanOK, ChanT
  <2>2. {} \in SUBSET (Users \cup {Me}) /\ [op |-> {}, bans |-> {}, modes |-> {}] \in NetT
    BY DEF NetT
  <2>3. \A x : x \in d.bans <=> Wants(c.queue, "+", "b", x) \/ (x \in c.bans /\ ~Wants(c.queue, "-", "b", x))
    BY <2>2, FlushBans
  <2>4. \A sign, x : ~Wants(c.queue, sign, "b", x)  BY <1>2, NotWanted
  <2> HIDE DEF d
  <2> QED  BY <2>1, <2>3, <2>4
<1>4. ASSUME NEW n \in NetT, NEW present \in SUBSET (Users \cup {Me})
      PROVE  /\ Sent(d, n, present).bans = Sent(c, n, present).bans
             /\ Me \in Sent(d, n, present).op <=> Me \in Sent(c, n, present).op
             /\ \A f \in {"k", "i"} :
                  f \in Sent(d, n, present).modes <=> f \in Sent(c, n, present).modes
  <2>1. Sent(d, n, present).bans = Sent(c, n, present).bans  BY <1>2, FlushBans
  <2>2. Me \in Sent(d, n, present).op <=> Me \in Sent(c, n, present).op  BY FlushMe
  <2>3. ASSUME NEW f \in {"k", "i"}
        PROVE  f \in Sent(d, n, present).modes <=> f \in Sent(c, n, present).modes
    <3>1. f \in Modes /\ f # "o" /\ f # "b" /\ f \notin Heeds  BY <1>2 DEF Modes
    <3>2. ~Wants(c.queue, "+", f, NoArg)  BY <3>1, NotWanted
    <3>3. Has(Sent(d, n, present), f, NoArg) <=> Has(Sent(c, n, present), f, NoArg)
      BY <3>1, <3>2, FlushHas
    <3> QED  BY <3>1, <3>3 DEF Has
  <2> QED  BY <2>1, <2>2, <2>3
<1> HIDE DEF d
<1>5. SentSame(c, d)  BY <1>4 DEF SentSame
<1> QED  BY <1>1, <1>3, <1>5 DEF Minds, Kept, SameRest, d

LEMMA TakeOpMinds ==
  ASSUME NEW c, ChanOK(c, Heeds), NEW u \in Users
  PROVE  Minds(c, TakeOp(c, u)) /\ TakeOp(c, u).mode = c.mode
<1>1. "o" \in Heeds /\ "k" \notin Heeds  BY DEF Heeds
<1>2. /\ ChanOK(TakeOp(c, u), Heeds) /\ SameRest(c, TakeOp(c, u))
      /\ TakeOp(c, u).bans = c.bans /\ TakeOp(c, u).out = c.out
  BY <1>1, TakeOpOK
<1>3. SentSame(c, TakeOp(c, u))  BY <1>2, SentSameOut
<1> QED  BY <1>2, <1>3 DEF Minds, Kept, SameRest

LEMMA OnOpMinds ==
  ASSUME NEW c, ChanOK(c, Heeds), NEW source, NEW target \in Users \cup {Me}, NEW shit
  PROVE  Minds(c, OnOp(c, source, target, shit)) /\ OnOp(c, source, target, shit).mode = c.mode
<1> DEFINE d == OnOp(c, source, target, shit)
           opped == [c EXCEPT !.chanop = c.chanop \cup {target}]
           one == TakeOp(opped, target)
           both == TakeOp(TakeOp(opped, target), source)
<1>1. c \in ChanT /\ c.chanop \subseteq c.users /\ c.users \subseteq Users  BY DEF ChanOK, ChanT
<1>2. Minds(c, c)  BY SentSameOut DEF Minds, Kept
<1>3. CASE target = Me
  <2> DEFINE e == [c EXCEPT !.amOp = TRUE]
  <2>1. d = e  BY <1>3 DEF OnOp
  <2>2. /\ e \in ChanT /\ e.chanop = c.chanop /\ e.users = c.users /\ e.mode = c.mode /\ e.amOp
        /\ e.exists = c.exists /\ e.on = c.on /\ e.flags = c.flags
        /\ e.bans = c.bans /\ e.queue = c.queue /\ e.out = c.out
    BY <1>1 DEF ChanT
  <2> HIDE DEF e
  <2>3. ChanOK(e, Heeds)  BY <2>2 DEF ChanOK
  <2>4. SentSame(c, e)  BY <2>2, SentSameOut
  <2> QED  BY <2>1, <2>2, <2>3, <2>4 DEF Minds, Kept
<1>4. CASE target # Me /\ target \notin c.users
  <2>1. d = c  BY <1>4 DEF OnOp
  <2> QED  BY <1>2, <2>1
<1>5. CASE target # Me /\ target \in c.users
  <2>1. /\ ChanOK(opped, Heeds) /\ SameRest(c, opped)
        /\ opped.bans = c.bans /\ opped.out = c.out
    <3>1. c.chanop \cup {target} \in SUBSET c.users  BY <1>1, <1>5
    <3> QED  BY <3>1, ChanopOK
  <2> DEFINE Fine(e) == Minds(c, e) /\ e.mode = c.mode
  <2>2. Fine(opped)  BY <2>1, SentSameOut DEF Minds, Kept, SameRest
  <2> HIDE DEF opped
  <2>3. ASSUME NEW e, Fine(e)
        PROVE  Fine(FlushMode(e)) /\ \A u \in Users : Fine(TakeOp(e, u))
    <3>1. ChanOK(e, Heeds)  BY <2>3 DEF Minds
    <3>2. Minds(e, FlushMode(e)) /\ SameRest(e, FlushMode(e))  BY <3>1, FlushMinds, FlushOK
    <3>3. \A u \in Users : Minds(e, TakeOp(e, u)) /\ TakeOp(e, u).mode = e.mode
      BY <3>1, TakeOpMinds
    <3> QED  BY <2>3, <3>2, <3>3, MindsTrans DEF SameRest
  <2> HIDE DEF Fine
  <2>4. target \in Users  BY <1>5
  <2>5. Fine(one) /\ Fine(FlushMode(opped))  BY <2>2, <2>3, <2>4
  <2>6. CASE d = opped \/ d = one \/ d = FlushMode(opped)  BY <2>2, <2>5, <2>6 DEF Fine
  <2>7. CASE source \in Plain /\ d = both
    <3>1. source \in Users  BY <2>7 DEF Plain
    <3>2. Fine(both)  BY <2>3, <2>5, <3>1
    <3> QED  BY <2>7, <3>2 DEF Fine
  <2>8. \/ d = opped \/ d = one \/ d = FlushMode(opped)
        \/ source \in Plain /\ d = both
    BY <1>5 DEF OnOp, opped
  <2> QED  BY <2>6, <2>7, <2>8
<1> QED  BY <1>3, <1>4, <1>5

LEMMA InjectiveAppend ==
  ASSUME NEW X, NEW k \in Seq(X), NEW x \in X
  PROVE  IsInjective(Append(k, x)) <=> IsInjective(k) /\ x \notin ToSet(k)
<1> DEFINE kx == Append(k, x)
<1>1. /\ DOMAIN k = 1..Len(k) /\ DOMAIN kx = 1..(Len(k) + 1) /\ Len(k) \in Nat
      /\ kx[Len(k) + 1] = x /\ \A i \in 1..Len(k) : kx[i] = k[i]
  BY AppendAt
<1>2. /\ \A i \in 1..(Len(k) + 1) : i \in 1..Len(k) \/ i = Len(k) + 1
      /\ \A i \in 1..Len(k) : i \in 1..(Len(k) + 1) /\ i # Len(k) + 1
      /\ Len(k) + 1 \in 1..(Len(k) + 1)
  BY <1>1
<1> HIDE DEF kx
<1>3. x \in ToSet(k) <=> \E i \in 1..Len(k) : k[i] = x  BY <1>1 DEF ToSet
<1>4. IsInjective(k) <=> \A i, j \in 1..Len(k) : k[i] = k[j] => i = j  BY <1>1 DEF IsInjective
<1>5. IsInjective(kx) <=> \A i, j \in 1..(Len(k) + 1) : kx[i] = kx[j] => i = j
  BY <1>1 DEF IsInjective
<1>6. ASSUME IsInjective(kx)  PROVE IsInjective(k) /\ x \notin ToSet(k)
  <2>1. IsInjective(k)  BY <1>1, <1>2, <1>4, <1>5, <1>6
  <2>2. x \notin ToSet(k)  BY <1>1, <1>2, <1>3, <1>5, <1>6
  <2> QED  BY <2>1, <2>2
<1>7. ASSUME IsInjective(k), x \notin ToSet(k)  PROVE IsInjective(kx)
  <2> SUFFICES ASSUME NEW i \in 1..(Len(k) + 1), NEW j \in 1..(Len(k) + 1), kx[i] = kx[j]
               PROVE  i = j
    BY <1>5
  <2>1. CASE i \in 1..Len(k) /\ j \in 1..Len(k)  BY <1>1, <1>4, <1>7, <2>1
  <2>2. CASE i = Len(k) + 1 /\ j \in 1..Len(k)  BY <1>1, <1>3, <1>7, <2>2
  <2>3. CASE i \in 1..Len(k) /\ j = Len(k) + 1  BY <1>1, <1>3, <1>7, <2>3
  <2>4. CASE i = Len(k) + 1 /\ j = Len(k) + 1  BY <2>4
  <2> QED  BY <1>2, <2>1, <2>2, <2>3, <2>4
<1> QED  BY <1>6, <1>7 DEF kx

LEMMA OnlyInjective ==
  ASSUME NEW X, NEW l \in Seq(X), NEW S, IsInjective(l)
  PROVE  IsInjective(Only(l, S))
<1> DEFINE P == {k \in Seq(X) : IsInjective(k) => IsInjective(Only(k, S))}
<1>1. <<>> \in P
  <2>1. <<>> \in Seq(X)  OBVIOUS
  <2> QED  BY <2>1, OnlyEmpty
<1>2. ASSUME NEW k \in Seq(X), NEW x \in X, k \in P  PROVE Append(k, x) \in P
  <2> DEFINE kx == Append(k, x)
  <2>1. kx \in Seq(X)  OBVIOUS
  <2> SUFFICES ASSUME IsInjective(kx)  PROVE IsInjective(Only(kx, S))  BY <2>1
  <2>2. IsInjective(k) /\ x \notin ToSet(k)  BY InjectiveAppend
  <2>3. Only(kx, S) = IF x \in S THEN Append(Only(k, S), x) ELSE Only(k, S)  BY OnlyAppend
  <2> HIDE DEF kx
  <2>4. IsInjective(Only(k, S)) /\ Only(k, S) \in Seq(X)  BY <1>2, <2>2, OnlySeq
  <2>5. x \notin ToSet(Only(k, S))  BY <2>2, OnlyToSet
  <2>6. IsInjective(Append(Only(k, S), x))  BY <2>4, <2>5, InjectiveAppend
  <2> QED  BY <2>3, <2>4, <2>6
<1> HIDE DEF P
<1>3. l \in P  BY <1>1, <1>2, SeqInduct
<1> QED  BY <1>3 DEF P

\* A mode is in the mode string once.
LEMMA FlagOK ==
  ASSUME NEW mode \in Seq(Modes), IsInjective(mode), NEW f \in Modes
  PROVE  /\ RemFlag(mode, f) \in Seq(Modes) /\ IsInjective(RemFlag(mode, f))
         /\ ToSet(RemFlag(mode, f)) = ToSet(mode) \ {f}
         /\ AddFlag(mode, f) \in Seq(Modes) /\ IsInjective(AddFlag(mode, f))
         /\ ToSet(AddFlag(mode, f)) = ToSet(mode) \cup {f}
<1> DEFINE r == RemFlag(mode, f)
<1>1. r \in Seq(Modes) /\ IsInjective(r) /\ ToSet(r) = ToSet(mode) \cap (Modes \ {f})
  BY OnlySeq, OnlyInjective, OnlyToSet DEF RemFlag
<1>2. ToSet(mode) \subseteq Modes  BY ToSetType
<1>3. ToSet(r) = ToSet(mode) \ {f}  BY <1>1, <1>2
<1> HIDE DEF r
<1>4. ToSet(Append(r, f)) = ToSet(mode) \cup {f}  BY <1>1, <1>3, ToSetAppend
<1>5. IsInjective(Append(r, f)) /\ Append(r, f) \in Seq(Modes)  BY <1>1, <1>3, InjectiveAppend
<1> QED  BY <1>1, <1>3, <1>4, <1>5 DEF AddFlag, r

\* The changes that reach the service.
Told == {ch \in Change : /\ ch.letter = "o" => ch.arg \in Users \cup {Me}
                         /\ ch.letter = "b" => ch.arg \in Users}

\* A limit that the service takes away at once.
TooLow(c, ch) == ch.letter = "l" /\ ch.sign = "+" /\ ch.arg = Low /\ c.on /\ c.amOp

\* Whatever was queued or sent, the mode string and the list are those of the message.
Heeded(c, d, ch) ==
  /\ ChanOK(d, Heeds) /\ Kept(c, d) /\ SentSame(c, d)
  /\ d.bans = IF ch.letter = "b" THEN PutIn(c.bans, ch.sign, ch.arg) ELSE c.bans
  /\ ToSet(d.mode) = IF TooLow(c, ch) THEN ToSet(c.mode) \ {"l"}
                     ELSE IF ch.letter \in Modes THEN PutIn(ToSet(c.mode), ch.sign, ch.letter)
                     ELSE ToSet(c.mode)

\* A structure with other modes.
LEMMA ModeOK ==
  ASSUME NEW L, NEW c, ChanOK(c, L), NEW mode \in Seq(Modes), IsInjective(mode)
  PROVE  LET d == [c EXCEPT !.mode = mode]
         IN /\ ChanOK(d, L) /\ d.mode = mode /\ d.chanop = c.chanop
            /\ d.exists = c.exists /\ d.on = c.on /\ d.amOp = c.amOp
            /\ d.users = c.users /\ d.flags = c.flags
            /\ d.bans = c.bans /\ d.queue = c.queue /\ d.out = c.out
<1> DEFINE d == [c EXCEPT !.mode = mode]
<1>1. c \in ChanT  BY DEF ChanOK
<1>2. /\ d \in ChanT /\ d.mode = mode /\ d.chanop = c.chanop
      /\ d.exists = c.exists /\ d.on = c.on /\ d.amOp = c.amOp
      /\ d.users = c.users /\ d.flags = c.flags
      /\ d.bans = c.bans /\ d.queue = c.queue /\ d.out = c.out
  BY <1>1 DEF ChanT
<1> HIDE DEF d
<1>3. ChanOK(d, L)  BY <1>2 DEF ChanOK
<1> QED  BY <1>2, <1>3 DEF d

\* What Hear notes of a mode.
NotedMode(c, ch) == IF ch.sign = "+" THEN AddFlag(c.mode, ch.letter) ELSE RemFlag(c.mode, ch.letter)

LEMMA NotedModeOK ==
  ASSUME NEW c, ChanOK(c, Heeds), NEW ch \in Told, ch.letter \in Modes
  PROVE  /\ NotedMode(c, ch) \in Seq(Modes) /\ IsInjective(NotedMode(c, ch))
         /\ ToSet(NotedMode(c, ch)) = PutIn(ToSet(c.mode), ch.sign, ch.letter)
<1>1. c.mode \in Seq(Modes) /\ IsInjective(c.mode)  BY DEF ChanOK, ChanT
<1> QED  BY <1>1, FlagOK DEF NotedMode, PutIn

\* Of a limit that is too low the end is that it is asked away.
LEMMA HearLow ==
  ASSUME NEW c, ChanOK(c, Heeds), NEW ch \in Told, NEW source, NEW shit, TooLow(c, ch)
  PROVE  /\ Heeded(c, Hear(c, source, ch, shit), ch)
         /\ Hear(c, source, ch, shit).out = c.out
         /\ Hear(c, source, ch, shit).amOp /\ Hear(c, source, ch, shit).chanop = c.chanop
         /\ ToSet(Hear(c, source, ch, shit).queue) =
              (ToSet(c.queue) \ Alike(c.queue, Ask("-", "l", NoArg))) \cup {Ask("-", "l", NoArg)}
<1> DEFINE e == Ask("-", "l", NoArg)
           mode == NotedMode(c, ch)
           gone == RemFlag(mode, "l")
           noted == [c EXCEPT !.mode = mode]
           less == [noted EXCEPT !.mode = gone]
           d == Asks(less, e)
<1>1. c \in ChanT /\ ch.letter = "l" /\ "l" \in Modes /\ ch.letter \in Modes
  BY DEF ChanOK, TooLow, Modes
<1>2. Hear(c, source, ch, shit) = d
  <2>1. Hear(c, source, ch, shit) =
          ChangeMode([noted EXCEPT !.mode = RemFlag(noted.mode, "l")], "-", "l", NoArg, FALSE)
    BY <1>1 DEF Hear, NotedMode, TooLow
  <2>2. noted.mode = mode  BY <1>1 DEF ChanT
  <2>3. less = [noted EXCEPT !.mode = RemFlag(noted.mode, "l")]  BY <2>2
  <2> HIDE DEF less, noted, mode, gone
  <2>4. Hear(c, source, ch, shit) = ChangeMode(less, "-", "l", NoArg, FALSE)  BY <2>1, <2>3
  <2> QED  BY <2>4, ChangeModeIs
<1>3. mode \in Seq(Modes) /\ IsInjective(mode) /\ ToSet(mode) = ToSet(c.mode) \cup {"l"}
  BY <1>1, NotedModeOK DEF PutIn, TooLow
<1>4. gone \in Seq(Modes) /\ IsInjective(gone) /\ ToSet(gone) = ToSet(c.mode) \ {"l"}
  <2> HIDE DEF mode
  <2>1. gone \in Seq(Modes) /\ IsInjective(gone) /\ ToSet(gone) = ToSet(mode) \ {"l"}
    BY <1>1, <1>3, FlagOK
  <2> QED  BY <1>3, <2>1
<1> HIDE DEF mode, gone
<1>5. less = [c EXCEPT !.mode = gone]  BY <1>1 DEF ChanT
<1> HIDE DEF less, noted
<1>6. /\ ChanOK(less, Heeds) /\ less.mode = gone /\ less.chanop = c.chanop
      /\ less.exists = c.exists /\ less.on = c.on /\ less.amOp = c.amOp
      /\ less.users = c.users /\ less.flags = c.flags
      /\ less.bans = c.bans /\ less.queue = c.queue /\ less.out = c.out
  BY <1>4, <1>5, ModeOK
<1>7. e \in Waits(Heeds)
  <2>1. NoArg \in Args /\ "l" \in ModeLetters  BY DEF Args, ModeLetters, Modes
  <2> QED  BY <2>1 DEF Waits, Entry, Ask, Fits, Heeds
<1>8. ~Starved(less.queue)  BY <1>6, NotStarved DEF Heeds
<1> HIDE DEF e
<1>9. ChanOK(d, Heeds) /\ Asked(less, d, e)  BY <1>6, <1>7, <1>8, AsksOK
<1> HIDE DEF d
<1>10. /\ d.out = c.out /\ d.amOp /\ d.chanop = c.chanop /\ d.bans = c.bans /\ d.mode = gone
       /\ ToSet(d.queue) = (ToSet(c.queue) \ Alike(c.queue, e)) \cup {e}
       /\ Kept(c, d)
  BY <1>6, <1>9 DEF Asked, SameRest, Kept, TooLow
<1>11. SentSame(c, d)  BY <1>10, SentSameOut
<1>12. Heeded(c, d, ch)  BY <1>1, <1>4, <1>9, <1>10, <1>11 DEF Heeded
<1> QED  BY <1>2, <1>10, <1>12 DEF e

LEMMA HearOK ==
  ASSUME NEW c, ChanOK(c, Heeds), NEW ch \in Told, NEW source, NEW shit
  PROVE  /\ Heeded(c, Hear(c, source, ch, shit), ch)
         /\ ch.letter # "o" /\ ~TooLow(c, ch) =>
              /\ Hear(c, source, ch, shit).out = c.out
              /\ Hear(c, source, ch, shit).queue = c.queue
              /\ Hear(c, source, ch, shit).amOp = c.amOp
              /\ Hear(c, source, ch, shit).chanop = c.chanop
<1> DEFINE d == Hear(c, source, ch, shit)
<1>1. c \in ChanT  BY DEF ChanOK
<1>2. /\ ch.letter \in {"o", "b"} \cup Modes /\ "o" \notin Modes /\ "b" \notin Modes
      /\ ch.sign \in {"+", "-"}
  BY DEF Told, Change, ModeLetters, Modes
<1>3. CASE TooLow(c, ch)  BY <1>3, HearLow
<1>4. CASE ~TooLow(c, ch) /\ ch.letter \in Modes
  <2> DEFINE mode == NotedMode(c, ch)
  <2>1. d = [c EXCEPT !.mode = mode]  BY <1>2, <1>4 DEF Hear, NotedMode, TooLow
  <2>2. /\ mode \in Seq(Modes) /\ IsInjective(mode)
        /\ ToSet(mode) = PutIn(ToSet(c.mode), ch.sign, ch.letter)
    BY <1>4, NotedModeOK
  <2> HIDE DEF mode, d
  <2>3. /\ ChanOK(d, Heeds) /\ d.mode = mode /\ d.chanop = c.chanop
        /\ d.exists = c.exists /\ d.on = c.on /\ d.amOp = c.amOp
        /\ d.users = c.users /\ d.flags = c.flags
        /\ d.bans = c.bans /\ d.queue = c.queue /\ d.out = c.out
    BY <2>1, <2>2, ModeOK
  <2>4. SentSame(c, d) /\ Kept(c, d)  BY <2>3, SentSameOut DEF Kept
  <2> QED  BY <1>2, <1>4, <2>2, <2>3, <2>4 DEF Heeded, d
<1>5. CASE ch.letter = "b"
  <2> DEFINE bans == PutIn(c.bans, ch.sign, ch.arg)
  <2>1. d = [c EXCEPT !.bans = bans]  BY <1>2, <1>5 DEF Hear, PutIn
  <2>2. bans \subseteq Users  BY <1>1, <1>5 DEF PutIn, ChanT, Told
  <2> HIDE DEF bans, d
  <2>3. /\ d \in ChanT /\ d.mode = c.mode /\ d.chanop = c.chanop
        /\ d.exists = c.exists /\ d.on = c.on /\ d.amOp = c.amOp
        /\ d.users = c.users /\ d.flags = c.flags
        /\ d.bans = bans /\ d.queue = c.queue /\ d.out = c.out
    BY <1>1, <2>1, <2>2 DEF ChanT
  <2>4. SentSame(c, d) /\ Kept(c, d)  BY <2>3, SentSameOut DEF Kept
  <2>5. ChanOK(d, Heeds)  BY <2>3 DEF ChanOK
  <2>6. ~TooLow(c, ch)  BY <1>5 DEF TooLow
  <2> QED  BY <1>2, <1>5, <2>3, <2>4, <2>5, <2>6 DEF Heeded, bans, d
<1>6. CASE ch.letter = "o"
  <2>1. ~TooLow(c, ch)  BY <1>6 DEF TooLow
  <2>2. Minds(c, d) /\ d.mode = c.mode
    <3>1. CASE ch.sign = "+"
      <4>1. d = OnOp(c, source, ch.arg, shit)  BY <1>2, <1>6, <2>1, <3>1 DEF Hear, TooLow
      <4>2. ch.arg \in Users \cup {Me}  BY <1>6 DEF Told
      <4> QED  BY <4>1, <4>2, OnOpMinds
    <3>2. CASE ch.sign # "+"
      <4>1. d = OnDeop(c, source, ch.arg)  BY <1>2, <1>6, <2>1, <3>2 DEF Hear, TooLow
      <4>2. CASE d = c  BY <4>2, SentSameOut DEF Minds, Kept
      <4>3. CASE d = [c EXCEPT !.chanop = c.chanop \ {ch.arg}]
        <5>1. c.chanop \ {ch.arg} \in SUBSET c.users  BY DEF ChanOK
        <5>2. /\ ChanOK(d, Heeds) /\ SameRest(c, d) /\ d.bans = c.bans /\ d.out = c.out
          BY <4>3, <5>1, ChanopOK
        <5> QED  BY <5>2, SentSameOut DEF Minds, Kept, SameRest
      <4> QED  BY <4>1, <4>2, <4>3 DEF OnDeop
    <3> QED  BY <3>1, <3>2
  <2> QED  BY <1>2, <1>6, <2>1, <2>2 DEF Heeded, Minds
<1> QED  BY <1>2, <1>3, <1>4, <1>5, <1>6

\* What the service makes of a message, before it flushes the queue.
HearAll(c, source, l, shit) == FoldLeft(LAMBDA d, ch : Hear(d, source, ch, shit), c, l)
Chans == {d \in ChanT : ChanOK(d, Heeds)}
HearStep(source, shit) == [p \in Chans \X Told |-> Hear(p[1], source, p[2], shit)]

LEMMA HearFold ==
  ASSUME NEW c \in Chans, NEW source, NEW shit, NEW l \in Seq(Told)
  PROVE  /\ FoldType(Chans, Told, c, HearStep(source, shit), l)
         /\ HearAll(c, source, l, shit) = Folded(HearStep(source, shit), c, l)
<1> DEFINE step == HearStep(source, shit)
           R(g) == [A \in SUBSET (DOMAIN l) |->
                      IF A = {} THEN c ELSE Hear(g[A \ {Max(A)}], source, l[Max(A)], shit)]
<1>1. \A t \in Chans, x \in Told :
         step[<<t, x>>] = Hear(t, source, x, shit) /\ Hear(t, source, x, shit) \in Chans
  <2> TAKE t \in Chans, x \in Told
  <2>1. step[<<t, x>>] = Hear(t, source, x, shit)  BY DEF HearStep
  <2>2. ChanOK(t, Heeds)  BY DEF Chans
  <2>3. ChanOK(Hear(t, source, x, shit), Heeds)  BY <2>2, HearOK DEF Heeded
  <2> QED  BY <2>1, <2>3 DEF Chans, ChanOK
<1>2. step = [p \in Chans \X Told |-> step[p]]  BY DEF HearStep
<1>3. HearAll(c, source, l, shit) = (CHOOSE g : g = R(g))[DOMAIN l]
  BY DEF HearAll, FoldLeft, MapThenFoldSet
<1> HIDE DEF step
<1>4. OnPairs(Chans, Told, step)  BY <1>1, <1>2 DEF OnPairs
<1>5. FoldType(Chans, Told, c, step, l)  BY <1>4, PairFold
<1>6. PICK h : Chooses(h, Chans, Told, c, step, l)  BY <1>5, Choosable
<1>7. h = R(h)  BY <1>1, <1>6 DEF Chooses
<1>8. PICK g : g = R(g) /\ HearAll(c, source, l, shit) = g[DOMAIN l]  BY <1>3, <1>7
<1>9. Chosen(g, Chans, Told, c, step, l)  BY <1>1, <1>8 DEF Chosen
<1> QED  BY <1>5, <1>8, <1>9, ChosenIsFolded DEF step

LEMMA HearAllIs ==
  ASSUME NEW c \in Chans, NEW source, NEW shit
  PROVE  /\ HearAll(c, source, <<>>, shit) = c
         /\ \A l \in Seq(Told) : HearAll(c, source, l, shit) \in Chans
<1>1. HearAll(c, source, <<>>, shit) = c
  <2> DEFINE none == <<>>
  <2>1. none \in Seq(Told)  OBVIOUS
  <2>2. FoldType(Chans, Told, c, HearStep(source, shit), none)
    <3> HIDE DEF none
    <3> QED  BY <2>1, HearFold
  <2>3. HearAll(c, source, none, shit) = Folded(HearStep(source, shit), c, none)
    <3> HIDE DEF none
    <3> QED  BY <2>1, HearFold
  <2>4. Folded(HearStep(source, shit), c, <<>>) = c  BY <2>2, FoldedEmpty
  <2> QED  BY <2>3, <2>4
<1>2. ASSUME NEW l \in Seq(Told)  PROVE HearAll(c, source, l, shit) \in Chans
  BY HearFold, FoldedType
<1> QED  BY <1>1, <1>2

LEMMA HearAllAppend ==
  ASSUME NEW c \in Chans, NEW source, NEW shit, NEW l \in Seq(Told), NEW ch \in Told
  PROVE  HearAll(c, source, Append(l, ch), shit) = Hear(HearAll(c, source, l, shit), source, ch, shit)
<1>1. Folded(HearStep(source, shit), c, Append(l, ch)) =
        HearStep(source, shit)[<<HearAll(c, source, l, shit), ch>>]
  BY HearFold, FoldedAppend
<1> DEFINE k == Append(l, ch)
<1>2. k \in Seq(Told)  OBVIOUS
<1> HIDE DEF k
<1>3. HearAll(c, source, k, shit) = Folded(HearStep(source, shit), c, k)  BY <1>2, HearFold
<1>4. HearStep(source, shit)[<<HearAll(c, source, l, shit), ch>>] =
        Hear(HearAll(c, source, l, shit), source, ch, shit)
  BY HearAllIs DEF HearStep
<1> QED  BY <1>1, <1>3, <1>4 DEF k

LEMMA HearAllOK ==
  ASSUME NEW c, ChanOK(c, Heeds), NEW source, NEW shit, NEW l \in Seq(Told)
  PROVE  LET d == HearAll(c, source, l, shit)
         IN /\ ChanOK(d, Heeds) /\ Kept(c, d) /\ SentSame(c, d)
<1> DEFINE H(k) == HearAll(c, source, k, shit)
           P == {k \in Seq(Told) : ChanOK(H(k), Heeds) /\ Kept(c, H(k)) /\ SentSame(c, H(k))}
<1>0. c \in Chans  BY DEF Chans, ChanOK
<1>1. <<>> \in P
  <2>1. <<>> \in Seq(Told)  OBVIOUS
  <2>2. H(<<>>) = c  BY <1>0, HearAllIs
  <2>3. Kept(c, c) /\ SentSame(c, c)  BY SentSameOut DEF Kept
  <2> QED  BY <2>1, <2>2, <2>3
<1>2. ASSUME NEW k \in Seq(Told), NEW ch \in Told, k \in P  PROVE Append(k, ch) \in P
  <2> DEFINE kc == Append(k, ch)
  <2>1. kc \in Seq(Told)  OBVIOUS
  <2>2. H(kc) = Hear(H(k), source, ch, shit)
    BY <1>0, HearAllAppend
  <2> HIDE DEF kc, H
  <2>3. Heeded(H(k), H(kc), ch)  BY <1>2, <2>2, HearOK
  <2>4. ChanOK(H(kc), Heeds) /\ Kept(c, H(kc))  BY <1>2, <2>3 DEF Heeded, Kept
  <2>5. SentSame(c, H(kc))  BY <1>2, <2>3 DEF Heeded, SentSame
  <2> QED  BY <2>1, <2>4, <2>5 DEF kc
<1> HIDE DEF P
<1>3. l \in P  BY <1>1, <1>2, SeqInduct
<1> QED  BY <1>3 DEF P

LEMMA HearAllTracks ==
  ASSUME NEW c, ChanOK(c, Heeds), NEW source, NEW shit, NEW l \in Seq(Told),
         NEW n \in NetT, NEW present \in SUBSET (Users \cup {Me})
  PROVE  /\ \A m \in Users : (m \in c.bans <=> m \in n.bans) =>
              (m \in HearAll(c, source, l, shit).bans <=> m \in Apply(n, l, present).bans)
         /\ \A f \in {"k", "i"} : (f \in ToSet(c.mode) <=> f \in n.modes) =>
              (f \in ToSet(HearAll(c, source, l, shit).mode) <=> f \in Apply(n, l, present).modes)
<1> DEFINE H(k) == HearAll(c, source, k, shit)
           A(k) == Apply(n, k, present)
           Right(k) ==
             /\ \A m \in Users : (m \in c.bans <=> m \in n.bans) =>
                   (m \in H(k).bans <=> m \in A(k).bans)
             /\ \A f \in {"k", "i"} : (f \in ToSet(c.mode) <=> f \in n.modes) =>
                   (f \in ToSet(H(k).mode) <=> f \in A(k).modes)
           P == {k \in Seq(Told) : Right(k)}
<1>0. c \in Chans /\ Told \subseteq Change /\ Seq(Told) \subseteq Seq(Change)
  BY SeqMonotonic DEF Chans, ChanOK, Told
<1>1. <<>> \in P
  <2>1. <<>> \in Seq(Told)  OBVIOUS
  <2>2. H(<<>>) = c /\ A(<<>>) = n  BY <1>0, HearAllIs, ApplyEmpty
  <2> QED  BY <2>1, <2>2
<1>2. ASSUME NEW k \in Seq(Told), NEW ch \in Told, k \in P  PROVE Append(k, ch) \in P
  <2> DEFINE kc == Append(k, ch)
  <2>1. kc \in Seq(Told)  OBVIOUS
  <2>2. H(kc) = Hear(H(k), source, ch, shit)
    BY <1>0, HearAllAppend
  <2>3. k \in Seq(Change) /\ ch \in Change  BY <1>0
  <2>4. A(kc) = ApplyOp(A(k), ch, present) /\ A(k) \in NetT  BY <2>3, ApplyAppend, ApplyType, Zenon
  <2>5. ChanOK(H(k), Heeds)  BY HearAllOK
  <2> HIDE DEF kc, H, A
  <2>6. Heeded(H(k), H(kc), ch)  BY <2>2, <2>5, HearOK
  <2>7. \A x : \A letter \in ModeLetters :
          Has(A(kc), letter, x) <=>
            IF About(ch, letter, x) /\ (letter = "o" => x \in present)
              THEN ch.sign = "+" ELSE Has(A(k), letter, x)
    BY <2>3, <2>4, ApplyOpIs
  <2>8. {"b", "k", "i"} \subseteq ModeLetters /\ "b" \notin Modes /\ "k" \in Modes /\ "i" \in Modes
    BY DEF ModeLetters, Modes
  <2>9. ch.sign \in {"+", "-"}  BY <2>3 DEF Change
  <2>10. ASSUME NEW m \in Users, m \in H(k).bans <=> m \in A(k).bans
         PROVE  m \in H(kc).bans <=> m \in A(kc).bans
    <3>1. m \in A(kc).bans <=> IF ch.letter = "b" /\ ch.arg = m THEN ch.sign = "+" ELSE m \in A(k).bans
      BY <2>7, <2>8 DEF Has, About
    <3>2. m \in H(kc).bans <=> IF ch.letter = "b" /\ ch.arg = m THEN ch.sign = "+" ELSE m \in H(k).bans
      BY <2>6, <2>9 DEF Heeded, PutIn
    <3> QED  BY <2>10, <3>1, <3>2
  <2>11. ASSUME NEW f \in {"k", "i"}, f \in ToSet(H(k).mode) <=> f \in A(k).modes
         PROVE  f \in ToSet(H(kc).mode) <=> f \in A(kc).modes
    <3>0. Has(A(kc), f, NoArg) <=> IF ch.letter = f THEN ch.sign = "+" ELSE Has(A(k), f, NoArg)
      BY <2>7, <2>8 DEF About
    <3>1. f \in A(kc).modes <=> IF ch.letter = f THEN ch.sign = "+" ELSE f \in A(k).modes
      BY <2>8, <3>0 DEF Has
    <3>2. f \in ToSet(H(kc).mode) <=> IF ch.letter = f THEN ch.sign = "+" ELSE f \in ToSet(H(k).mode)
      BY <2>6, <2>8, <2>9 DEF Heeded, PutIn, TooLow
    <3> QED  BY <2>11, <3>1, <3>2
  <2>12. Right(kc)  BY <1>2, <2>10, <2>11
  <2> QED  BY <2>1, <2>12 DEF kc
<1> HIDE DEF P
<1>3. l \in P  BY <1>1, <1>2, SeqInduct
<1> QED  BY <1>3 DEF P

-----------------------------------------------------------------------------
(* What a handler leaves: the list is the network's where the service is   *)
(* op, and letters that do not wait are as they were.                      *)

Answers(c, d, L) ==
  /\ ChanOK(d, L) /\ Kept(c, d)
  /\ \A n \in NetT, present \in SUBSET (Users \cup {Me}) :
       /\ Me \in Sent(d, n, present).op <=> Me \in Sent(c, n, present).op
       /\ Sent(d, n, present).bans \subseteq Sent(c, n, present).bans \cup Users
       /\ \A f \in Modes \ L :
            f \in Sent(d, n, present).modes <=> f \in Sent(c, n, present).modes
       /\ Me \in Sent(c, n, present).op =>
            \A m \in Users : (m \in c.bans <=> m \in Sent(c, n, present).bans) =>
                               (m \in d.bans <=> m \in Sent(d, n, present).bans)

LEMMA AnswersTrans ==
  ASSUME NEW L, NEW c, NEW d, NEW e, Answers(c, d, L), Answers(d, e, L)
  PROVE  Answers(c, e, L)
<1>1. ChanOK(e, L) /\ Kept(c, e)  BY DEF Answers, Kept
<1>2. ASSUME NEW n \in NetT, NEW present \in SUBSET (Users \cup {Me})
      PROVE  /\ Me \in Sent(e, n, present).op <=> Me \in Sent(c, n, present).op
             /\ Sent(e, n, present).bans \subseteq Sent(c, n, present).bans \cup Users
             /\ \A f \in Modes \ L :
                  f \in Sent(e, n, present).modes <=> f \in Sent(c, n, present).modes
             /\ Me \in Sent(c, n, present).op =>
                  \A m \in Users : (m \in c.bans <=> m \in Sent(c, n, present).bans) =>
                                     (m \in e.bans <=> m \in Sent(e, n, present).bans)
  <2> DEFINE A == Sent(c, n, present)
             B == Sent(d, n, present)
             C == Sent(e, n, present)
  <2>1. /\ Me \in B.op <=> Me \in A.op
        /\ B.bans \subseteq A.bans \cup Users
        /\ \A f \in Modes \ L : f \in B.modes <=> f \in A.modes
        /\ Me \in A.op => \A m \in Users : (m \in c.bans <=> m \in A.bans) => (m \in d.bans <=> m \in B.bans)
    BY DEF Answers
  <2>2. /\ Me \in C.op <=> Me \in B.op
        /\ C.bans \subseteq B.bans \cup Users
        /\ \A f \in Modes \ L : f \in C.modes <=> f \in B.modes
        /\ Me \in B.op => \A m \in Users : (m \in d.bans <=> m \in B.bans) => (m \in e.bans <=> m \in C.bans)
    BY DEF Answers
  <2> HIDE DEF A, B, C
  <2>3. /\ Me \in C.op <=> Me \in A.op
        /\ C.bans \subseteq A.bans \cup Users
        /\ \A f \in Modes \ L : f \in C.modes <=> f \in A.modes
        /\ Me \in A.op => \A m \in Users : (m \in c.bans <=> m \in A.bans) => (m \in e.bans <=> m \in C.bans)
    BY <2>1, <2>2
  <2> QED  BY <2>3 DEF A, C
<1> QED  BY <1>1, <1>2 DEF Answers

\* Nothing was written, and no ban noted.
LEMMA AnswersOut ==
  ASSUME NEW L, NEW c, NEW d, ChanOK(d, L), Kept(c, d), d.out = c.out, d.bans = c.bans
  PROVE  Answers(c, d, L)
BY DEF Answers, Sent

LEMMA ChanMore ==
  ASSUME NEW L, NEW M, L \subseteq M, NEW c, ChanOK(c, L)
  PROVE  ChanOK(c, M)
<1>1. Waits(L) \subseteq Waits(M)  BY DEF Waits
<1> QED  BY <1>1 DEF ChanOK

LEMMA FlushAnswers ==
  ASSUME NEW L, NEW c, ChanOK(c, L), "b" \in L => c.amOp, NEW M, L \cap Modes \subseteq M
  PROVE  Answers(c, FlushMode(c), M)
<1> DEFINE d == FlushMode(c)
<1>1. ChanOK(d, M) /\ SameRest(c, d)  BY FlushOK
<1>2. Kept(c, d)  BY <1>1 DEF Kept, SameRest
<1>3. ASSUME NEW n \in NetT, NEW present \in SUBSET (Users \cup {Me})
      PROVE  /\ Me \in Sent(d, n, present).op <=> Me \in Sent(c, n, present).op
             /\ Sent(d, n, present).bans \subseteq Sent(c, n, present).bans \cup Users
             /\ \A f \in Modes \ M :
                  f \in Sent(d, n, present).modes <=> f \in Sent(c, n, present).modes
             /\ Me \in Sent(c, n, present).op =>
                  \A m \in Users : (m \in c.bans <=> m \in Sent(c, n, present).bans) =>
                                     (m \in d.bans <=> m \in Sent(d, n, present).bans)
  <2> DEFINE A == Sent(c, n, present)
             B == Sent(d, n, present)
             q == c.queue
  <2>1. Me \in B.op <=> Me \in A.op  BY FlushMe
  <2>2. /\ c.amOp /\ Me \in A.op =>
             \A x : x \in B.bans <=> Wants(q, "+", "b", x) \/ (x \in A.bans /\ ~Wants(q, "-", "b", x))
        /\ \A x : x \in d.bans <=> Wants(q, "+", "b", x) \/ (x \in c.bans /\ ~Wants(q, "-", "b", x))
        /\ B.bans \subseteq A.bans \cup Users
        /\ "b" \notin L => B.bans = A.bans
    BY FlushBans
  <2>3. ASSUME NEW f \in Modes \ M  PROVE f \in B.modes <=> f \in A.modes
    <3>1. f \in Modes /\ f # "o" /\ f # "b" /\ f \notin L  BY <2>3 DEF Modes
    <3>2. ~Wants(q, "+", f, NoArg)  BY <3>1, NotWanted
    <3>3. Has(B, f, NoArg) <=> Has(A, f, NoArg)  BY <3>1, <3>2, FlushHas
    <3> QED  BY <3>1, <3>3 DEF Has
  <2>4. "b" \notin L => \A sign, x : ~Wants(q, sign, "b", x)  BY NotWanted
  <2> HIDE DEF A, B, q, d
  <2>5. Me \in A.op => \A m \in Users : (m \in c.bans <=> m \in A.bans) => (m \in d.bans <=> m \in B.bans)
    BY <2>2, <2>4
  <2> QED  BY <2>1, <2>2, <2>3, <2>5 DEF A, B
<1> HIDE DEF d
<1> QED  BY <1>1, <1>2, <1>3 DEF Answers, d

\* The service's lists while it answers.
Answering(L) == "o" \in L /\ L \subseteq Heeds

\* A ban is asked for and the queue sent.
LEMMA BanAnswers ==
  ASSUME NEW L, Answering(L), NEW c, ChanOK(c, L), c.on, c.amOp, NEW u \in Users
  PROVE  LET d == FlushMode(ChangeMode(c, "+", "b", u, FALSE))
         IN /\ Answers(c, d, L) /\ d.mode = c.mode /\ d.queue = <<>> /\ d.chanop = c.chanop
            /\ \A M : ChanOK(d, M)
<1> DEFINE e == Ask("+", "b", u)
           a == Asks(c, e)
           d == FlushMode(a)
           M == L \cup {"b"}
<1>1. ChangeMode(c, "+", "b", u, FALSE) = a  BY ChangeModeIs
<1>2. e \in Waits(M)  BY AskIn
<1>3. "b" \notin Modes /\ "k" \notin M /\ L \subseteq M  BY DEF Answering, Heeds, Modes
<1>4. ChanOK(c, M)  BY <1>3, ChanMore
<1> HIDE DEF e, M
<1>5. ~Starved(c.queue)  BY <1>3, <1>4, NotStarved
<1>6. ChanOK(a, M) /\ Asked(c, a, e)  BY <1>2, <1>4, <1>5, AsksOK
<1> HIDE DEF a
<1>7. a.amOp /\ Kept(c, a) /\ a.out = c.out /\ a.bans = c.bans /\ a.mode = c.mode
      /\ a.chanop = c.chanop
  BY <1>6 DEF Asked, SameRest, Kept
<1>8. /\ \A K : ChanOK(d, K)
      /\ SameRest(a, d) /\ d.chanop = a.chanop /\ d.queue = <<>>
  BY <1>6, FlushOK
<1>9. M \cap Modes \subseteq L  BY <1>3 DEF M
<1>10. Answers(a, d, L)  BY <1>6, <1>7, <1>9, FlushAnswers
<1> HIDE DEF d
<1>11. Answers(c, d, L)  BY <1>7, <1>8, <1>10 DEF Answers, Sent, Kept
<1> QED  BY <1>1, <1>7, <1>8, <1>11 DEF SameRest, d

\* Nothing waits, whatever letters there are.
Flushed(d) == d.queue = <<>> /\ \A M : ChanOK(d, M)

LEMMA AnswersSame ==
  ASSUME NEW L, NEW c, ChanOK(c, L)
  PROVE  Answers(c, c, L)
<1>1. Kept(c, c)  BY DEF Kept
<1> QED  BY <1>1, AnswersOut

LEMMA TakeOpAnswers ==
  ASSUME NEW L, Answering(L), NEW c, ChanOK(c, L), NEW u \in Users
  PROVE  Answers(c, TakeOp(c, u), L) /\ TakeOp(c, u).mode = c.mode
<1>1. "o" \in L /\ "k" \notin L  BY DEF Answering, Heeds
<1>2. /\ ChanOK(TakeOp(c, u), L) /\ SameRest(c, TakeOp(c, u))
      /\ TakeOp(c, u).bans = c.bans /\ TakeOp(c, u).out = c.out
  BY <1>1, TakeOpOK
<1>3. Kept(c, TakeOp(c, u)) /\ TakeOp(c, u).mode = c.mode  BY <1>2 DEF SameRest, Kept
<1> QED  BY <1>2, <1>3, AnswersOut

LEMMA MbanAnswers ==
  ASSUME NEW L, Answering(L), NEW c, ChanOK(c, L), NEW u \in Users
  PROVE  /\ Answers(c, Mban(c, u), L) /\ Mban(c, u).mode = c.mode
         /\ Mban(c, u) = c \/ Flushed(Mban(c, u))
<1> DEFINE b == IF u \in c.chanop THEN TakeOp(c, u) ELSE c
           d == FlushMode(ChangeMode(b, "+", "b", u, FALSE))
<1>1. CASE c.on /\ c.amOp /\ u \in c.users \ Services
  <2>1. Mban(c, u) = d  BY <1>1 DEF Mban
  <2>2. Answers(c, b, L) /\ b.mode = c.mode  BY AnswersSame, TakeOpAnswers
  <2> HIDE DEF b
  <2>3. b.on /\ b.amOp /\ ChanOK(b, L)  BY <1>1, <2>2 DEF Answers, Kept
  <2>4. Answers(b, d, L) /\ d.mode = b.mode /\ d.queue = <<>> /\ \A M : ChanOK(d, M)
    BY <2>3, BanAnswers
  <2> HIDE DEF d
  <2>5. Answers(c, d, L)  BY <2>2, <2>4, AnswersTrans
  <2> QED  BY <2>1, <2>2, <2>4, <2>5 DEF Flushed
<1>2. CASE ~(c.on /\ c.amOp /\ u \in c.users \ Services)
  <2>1. Mban(c, u) = c  BY <1>2 DEF Mban
  <2> QED  BY <2>1, AnswersSame
<1> QED  BY <1>1, <1>2

\* The ban is taken from the list before the network is told, and then from
\* the network.
LEMMA UnbanAnswers ==
  ASSUME NEW L, Answering(L), NEW c, ChanOK(c, L), NEW u \in Users
  PROVE  /\ Answers(c, Unban(c, u), L) /\ Unban(c, u).mode = c.mode
         /\ Unban(c, u) = c \/ Flushed(Unban(c, u))
<1>1. "b" \notin L /\ "b" \notin Modes /\ "k" \notin L  BY DEF Answering, Heeds, Modes
<1>2. CASE ~(c.on /\ c.amOp)
  <2>1. Unban(c, u) = c  BY <1>2 DEF Unban
  <2> QED  BY <2>1, AnswersSame
<1>3. CASE c.on /\ c.amOp /\ u \notin c.bans
  <2> DEFINE d == FlushMode(c)
  <2>1. Unban(c, u) = d  BY <1>3 DEF Unban
  <2>2. Answers(c, d, L)  BY <1>1, FlushAnswers
  <2>3. d.mode = c.mode /\ Flushed(d)  BY FlushOK DEF SameRest, Flushed
  <2> QED  BY <2>1, <2>2, <2>3
<1>4. CASE c.on /\ c.amOp /\ u \in c.bans
  <2> DEFINE e == Ask("-", "b", u)
             a == Asks(c, e)
             S == c.bans \ {u}
             b == [a EXCEPT !.bans = S]
             d == FlushMode(b)
             M == L \cup {"b"}
  <2>1. ChangeMode(c, "-", "b", u, FALSE) = a  BY ChangeModeIs
  <2>2. e \in Waits(M)  BY AskIn
  <2>3. "k" \notin M /\ L \subseteq M /\ M \cap Modes \subseteq L  BY <1>1
  <2>4. ChanOK(c, M)  BY <2>3, ChanMore
  <2>5. About(e, "b", u) /\ e.sign = "-" /\ \A x : About(e, "b", x) => x = u
    BY DEF Ask, About
  <2> HIDE DEF e, M
  <2>6. ~Starved(c.queue)  BY <2>3, <2>4, NotStarved
  <2>7. ChanOK(a, M) /\ Asked(c, a, e)  BY <2>2, <2>4, <2>6, AsksOK
  <2> HIDE DEF a
  <2>8. /\ a.on /\ a.amOp /\ SameRest(c, a) /\ a.out = c.out /\ a.bans = c.bans
        /\ ToSet(a.queue) = (ToSet(c.queue) \ Alike(c.queue, e)) \cup {e}
    BY <1>4, <2>7 DEF Asked, SameRest
  <2>9. Unban(c, u) = d
    <3>1. Unban(c, u) = FlushMode([a EXCEPT !.bans = a.bans \ {u}])  BY <1>4, <2>1 DEF Unban
    <3> QED  BY <2>8, <3>1
  <2>10. /\ b \in ChanT /\ b.bans = S /\ b.queue = a.queue /\ b.out = a.out /\ b.amOp = a.amOp
         /\ b.chanop = a.chanop /\ SameRest(a, b)
    <3>1. a \in ChanT /\ S \subseteq Users  BY <2>7, <2>8 DEF ChanOK, ChanT
    <3> HIDE DEF S
    <3> QED  BY <3>1 DEF ChanT, SameRest
  <2> HIDE DEF b
  <2>11. ChanOK(b, M)  BY <2>7, <2>10 DEF ChanOK, SameRest
  <2>12. Flushed(d) /\ SameRest(b, d)  BY <2>11, FlushOK DEF Flushed
  <2>13. Answers(b, d, L)  BY <2>3, <2>8, <2>10, <2>11, FlushAnswers
  <2>14. d.mode = c.mode /\ Kept(c, d) /\ ChanOK(d, L)
    BY <2>8, <2>10, <2>12 DEF SameRest, Kept, Flushed
  <2>15. ASSUME NEW n \in NetT, NEW present \in SUBSET (Users \cup {Me})
         PROVE  /\ Me \in Sent(d, n, present).op <=> Me \in Sent(c, n, present).op
                /\ Sent(d, n, present).bans \subseteq Sent(c, n, present).bans \cup Users
                /\ \A f \in Modes \ L :
                     f \in Sent(d, n, present).modes <=> f \in Sent(c, n, present).modes
                /\ Me \in Sent(c, n, present).op =>
                     \A m \in Users : (m \in c.bans <=> m \in Sent(c, n, present).bans) =>
                                        (m \in d.bans <=> m \in Sent(d, n, present).bans)
    <3> DEFINE A == Sent(c, n, present)
               B == Sent(d, n, present)
               q == b.queue
    <3>1. Sent(b, n, present) = A  BY <2>8, <2>10 DEF Sent
    <3>2. /\ Me \in B.op <=> Me \in A.op
          /\ B.bans \subseteq A.bans \cup Users
          /\ \A f \in Modes \ L : f \in B.modes <=> f \in A.modes
          /\ Me \in A.op => \A m \in Users : (m \in b.bans <=> m \in A.bans) => (m \in d.bans <=> m \in B.bans)
      BY <2>13, <3>1 DEF Answers
    <3>3. /\ b.amOp /\ Me \in A.op =>
               \A x : x \in B.bans <=> Wants(q, "+", "b", x) \/ (x \in A.bans /\ ~Wants(q, "-", "b", x))
          /\ \A x : x \in d.bans <=> Wants(q, "+", "b", x) \/ (x \in b.bans /\ ~Wants(q, "-", "b", x))
      BY <2>11, <3>1, FlushBans
    <3>4. Wants(q, "-", "b", u)  BY <2>5, <2>8, <2>10 DEF Wants
    <3>5. ~Wants(q, "+", "b", u)  BY <2>11, <3>4, NotWanted
    <3> HIDE DEF A, B, q, d
    <3>6. Me \in A.op => ~(u \in d.bans) /\ ~(u \in B.bans)
      BY <2>8, <2>10, <3>3, <3>4, <3>5
    <3>7. \A m \in Users : m # u => (m \in b.bans <=> m \in c.bans)  BY <2>10
    <3>8. Me \in A.op => \A m \in Users : (m \in c.bans <=> m \in A.bans) => (m \in d.bans <=> m \in B.bans)
      BY <3>2, <3>6, <3>7
    <3> QED  BY <3>2, <3>8 DEF A, B
  <2> HIDE DEF d
  <2>16. Answers(c, d, L)  BY <2>14, <2>15 DEF Answers
  <2> QED  BY <2>9, <2>12, <2>14, <2>16
<1> QED  BY <1>2, <1>3, <1>4

\* A message has been heard, the source perhaps banned, and the queue sent.
LEMMA ModeChangeOK ==
  ASSUME NEW c, ChanOK(c, Heeds), NEW source, NEW l \in Seq(Told), NEW shit,
         NEW bitten \in BOOLEAN, bitten => source \in Users
  PROVE  LET h == HearAll(c, source, l, shit)
             d == ModeChange(c, source, l, shit, bitten)
         IN /\ ChanOK(h, Heeds) /\ Kept(c, h) /\ SentSame(c, h)
            /\ Answers(h, d, Heeds) /\ d.mode = h.mode /\ Flushed(d)
<1> DEFINE h == HearAll(c, source, l, shit)
           b == IF bitten THEN Mban(h, source) ELSE h
           d == FlushMode(b)
<1>1. ModeChange(c, source, l, shit, bitten) = d  BY DEF ModeChange, HearAll
<1>2. ChanOK(h, Heeds) /\ Kept(c, h) /\ SentSame(c, h)  BY HearAllOK
<1>3. Answering(Heeds) /\ "b" \notin Heeds  BY DEF Answering, Heeds
<1> HIDE DEF h
<1>4. Answers(h, b, Heeds) /\ b.mode = h.mode  BY <1>2, <1>3, MbanAnswers, AnswersSame
<1> HIDE DEF b
<1>5. ChanOK(b, Heeds)  BY <1>4 DEF Answers
<1>6. Answers(b, d, Heeds)  BY <1>3, <1>5, FlushAnswers
<1>7. d.mode = b.mode /\ Flushed(d)  BY <1>5, FlushOK DEF SameRest, Flushed
<1> HIDE DEF d
<1>8. Answers(h, d, Heeds)  BY <1>4, <1>6, AnswersTrans
<1> QED  BY <1>1, <1>2, <1>4, <1>7, <1>8 DEF h

-----------------------------------------------------------------------------
(* The commands.                                                           *)

\* Only the ops and the queue are others.
Nudged(c, d, L) ==
  ChanOK(d, L) /\ SameRest(c, d) /\ d.bans = c.bans /\ d.out = c.out
NudgedFrom(c, L) == {d \in ChanT : Nudged(c, d, L)}

LEMMA NudgedAnswers ==
  ASSUME NEW L, NEW c, NEW d, Nudged(c, d, L)
  PROVE  Answers(c, d, L) /\ d.mode = c.mode
<1>1. Kept(c, d)  BY DEF Nudged, SameRest, Kept
<1> QED  BY <1>1, AnswersOut DEF Nudged, SameRest

LEMMA NudgeOne ==
  ASSUME NEW L, Answering(L), NEW c, NEW d, Nudged(c, d, L), NEW u \in Users
  PROVE  /\ Nudged(c, TakeOp(d, u), L) /\ Nudged(c, DeopNick(d, u), L)
         /\ \A shit : Nudged(c, OpNick(d, u, shit), L)
<1>1. "o" \in L /\ "k" \notin L  BY DEF Answering, Heeds
<1>2. ChanOK(d, L)  BY DEF Nudged
<1>3. Nudged(c, TakeOp(d, u), L)  BY <1>1, <1>2, TakeOpOK DEF Nudged, SameRest
<1>4. Nudged(c, DeopNick(d, u), L)  BY <1>3 DEF DeopNick
<1>5. ASSUME NEW shit  PROVE Nudged(c, OpNick(d, u, shit), L)
  <2> DEFINE b == [d EXCEPT !.chanop = d.chanop \cup {u}]
             e == Ask("+", "o", u)
  <2>1. CASE OpNick(d, u, shit) = d  BY <2>1
  <2>2. CASE OpNick(d, u, shit) = Asks(b, e) /\ u \in d.users
    <3>1. d.chanop \cup {u} \in SUBSET d.users  BY <1>2, <2>2 DEF ChanOK
    <3>2. ChanOK(b, L) /\ SameRest(d, b) /\ b.bans = d.bans /\ b.out = d.out
      BY <1>2, <3>1, ChanopOK
    <3>3. e \in Waits(L)  BY <1>1, AskIn
    <3> HIDE DEF b, e
    <3>4. ~Starved(b.queue)  BY <1>1, <3>2, NotStarved
    <3>5. ChanOK(Asks(b, e), L) /\ Asked(b, Asks(b, e), e)  BY <3>2, <3>3, <3>4, AsksOK
    <3> QED  BY <2>2, <3>2, <3>5 DEF Nudged, Asked, SameRest
  <2>3. ChangeMode(b, "+", "o", u, FALSE) = Asks(b, e)  BY ChangeModeIs
  <2>4. \/ OpNick(d, u, shit) = d
        \/ OpNick(d, u, shit) = ChangeMode(b, "+", "o", u, FALSE) /\ u \in d.users
    BY DEF OpNick
  <2> QED  BY <2>1, <2>2, <2>3, <2>4
<1> QED  BY <1>3, <1>4, <1>5

OpAll(c, list, shit) == FoldLeft(LAMBDA d, u : OpNick(d, u, shit), c, list)

\* Where each op or deop keeps the structure, all of a list do.
LEMMA OpAllIn ==
  ASSUME NEW T, NEW c \in T, NEW list \in Seq(Users), NEW shit,
         \A t \in T, x \in Users : OpNick(t, x, shit) \in T
  PROVE  OpAll(c, list, shit) \in T
<1> DEFINE step == [p \in T \X Users |-> OpNick(p[1], p[2], shit)]
           R(g) == [A \in SUBSET (DOMAIN list) |->
                      IF A = {} THEN c ELSE OpNick(g[A \ {Max(A)}], list[Max(A)], shit)]
<1>1. \A t \in T, x \in Users : step[<<t, x>>] = OpNick(t, x, shit) /\ OpNick(t, x, shit) \in T
  OBVIOUS
<1>2. step = [p \in T \X Users |-> step[p]]  OBVIOUS
<1>3. OpAll(c, list, shit) = (CHOOSE g : g = R(g))[DOMAIN list]
  BY DEF OpAll, FoldLeft, MapThenFoldSet
<1> HIDE DEF step
<1>4. OnPairs(T, Users, step)  BY <1>1, <1>2 DEF OnPairs
<1>5. FoldType(T, Users, c, step, list)  BY <1>4, PairFold
<1>6. PICK h : Chooses(h, T, Users, c, step, list)  BY <1>5, Choosable
<1>7. h = R(h)  BY <1>1, <1>6 DEF Chooses
<1>8. PICK g : g = R(g) /\ OpAll(c, list, shit) = g[DOMAIN list]  BY <1>3, <1>7
<1>9. Chosen(g, T, Users, c, step, list)  BY <1>1, <1>8 DEF Chosen
<1>10. g[DOMAIN list] = Folded(step, c, list)  BY <1>5, <1>9, ChosenIsFolded
<1>11. Folded(step, c, list) \in T  BY <1>5, FoldedType
<1> QED  BY <1>8, <1>10, <1>11

LEMMA OpAllNudges ==
  ASSUME NEW L, Answering(L), NEW c, ChanOK(c, L), NEW list \in Seq(Users), NEW shit
  PROVE  Nudged(c, OpAll(c, list, shit), L)
<1> DEFINE T == NudgedFrom(c, L)
<1>1. ASSUME NEW t \in T, NEW x \in Users  PROVE OpNick(t, x, shit) \in T
  <2>1. Nudged(c, t, L)  BY DEF NudgedFrom
  <2>2. Nudged(c, OpNick(t, x, shit), L)  BY <2>1, NudgeOne
  <2> QED  BY <2>2 DEF NudgedFrom, Nudged, ChanOK
<1>2. c \in T  BY DEF NudgedFrom, Nudged, ChanOK, SameRest
<1> HIDE DEF T
<1>3. OpAll(c, list, shit) \in T  BY <1>1, <1>2, OpAllIn
<1> QED  BY <1>3 DEF T, NudgedFrom

DeopAll(c, list) == FoldLeft(DeopNick, c, list)
TakeAll(c, list) == FoldLeft(TakeOp, c, list)

LEMMA DeopAllIn ==
  ASSUME NEW T, NEW c \in T, NEW list \in Seq(Users),
         \A t \in T, x \in Users : DeopNick(t, x) \in T
  PROVE  DeopAll(c, list) \in T
<1> DEFINE step == [p \in T \X Users |-> DeopNick(p[1], p[2])]
           R(g) == [A \in SUBSET (DOMAIN list) |->
                      IF A = {} THEN c ELSE DeopNick(g[A \ {Max(A)}], list[Max(A)])]
<1>1. \A t \in T, x \in Users : step[<<t, x>>] = DeopNick(t, x) /\ DeopNick(t, x) \in T
  OBVIOUS
<1>2. step = [p \in T \X Users |-> step[p]]  OBVIOUS
<1>3. DeopAll(c, list) = (CHOOSE g : g = R(g))[DOMAIN list]
  BY DEF DeopAll, FoldLeft, MapThenFoldSet
<1> HIDE DEF step
<1>4. OnPairs(T, Users, step)  BY <1>1, <1>2 DEF OnPairs
<1>5. FoldType(T, Users, c, step, list)  BY <1>4, PairFold
<1>6. PICK h : Chooses(h, T, Users, c, step, list)  BY <1>5, Choosable
<1>7. h = R(h)  BY <1>1, <1>6 DEF Chooses
<1>8. PICK g : g = R(g) /\ DeopAll(c, list) = g[DOMAIN list]  BY <1>3, <1>7
<1>9. Chosen(g, T, Users, c, step, list)  BY <1>1, <1>8 DEF Chosen
<1>10. g[DOMAIN list] = Folded(step, c, list)  BY <1>5, <1>9, ChosenIsFolded
<1>11. Folded(step, c, list) \in T  BY <1>5, FoldedType
<1> QED  BY <1>8, <1>10, <1>11

LEMMA DeopAllNudges ==
  ASSUME NEW L, Answering(L), NEW c, ChanOK(c, L), NEW list \in Seq(Users)
  PROVE  Nudged(c, DeopAll(c, list), L)
<1> DEFINE T == NudgedFrom(c, L)
<1>1. ASSUME NEW t \in T, NEW x \in Users  PROVE DeopNick(t, x) \in T
  <2>1. Nudged(c, t, L)  BY DEF NudgedFrom
  <2>2. Nudged(c, DeopNick(t, x), L)  BY <2>1, NudgeOne
  <2> QED  BY <2>2 DEF NudgedFrom, Nudged, ChanOK
<1>2. c \in T  BY DEF NudgedFrom, Nudged, ChanOK, SameRest
<1> HIDE DEF T
<1>3. DeopAll(c, list) \in T  BY <1>1, <1>2, DeopAllIn
<1> QED  BY <1>3 DEF T, NudgedFrom

LEMMA TakeAllIn ==
  ASSUME NEW T, NEW c \in T, NEW list \in Seq(Users),
         \A t \in T, x \in Users : TakeOp(t, x) \in T
  PROVE  TakeAll(c, list) \in T
<1> DEFINE step == [p \in T \X Users |-> TakeOp(p[1], p[2])]
           R(g) == [A \in SUBSET (DOMAIN list) |->
                      IF A = {} THEN c ELSE TakeOp(g[A \ {Max(A)}], list[Max(A)])]
<1>1. \A t \in T, x \in Users : step[<<t, x>>] = TakeOp(t, x) /\ TakeOp(t, x) \in T
  OBVIOUS
<1>2. step = [p \in T \X Users |-> step[p]]  OBVIOUS
<1>3. TakeAll(c, list) = (CHOOSE g : g = R(g))[DOMAIN list]
  BY DEF TakeAll, FoldLeft, MapThenFoldSet
<1> HIDE DEF step
<1>4. OnPairs(T, Users, step)  BY <1>1, <1>2 DEF OnPairs
<1>5. FoldType(T, Users, c, step, list)  BY <1>4, PairFold
<1>6. PICK h : Chooses(h, T, Users, c, step, list)  BY <1>5, Choosable
<1>7. h = R(h)  BY <1>1, <1>6 DEF Chooses
<1>8. PICK g : g = R(g) /\ TakeAll(c, list) = g[DOMAIN list]  BY <1>3, <1>7
<1>9. Chosen(g, T, Users, c, step, list)  BY <1>1, <1>8 DEF Chosen
<1>10. g[DOMAIN list] = Folded(step, c, list)  BY <1>5, <1>9, ChosenIsFolded
<1>11. Folded(step, c, list) \in T  BY <1>5, FoldedType
<1> QED  BY <1>8, <1>10, <1>11

LEMMA TakeAllNudges ==
  ASSUME NEW L, Answering(L), NEW c, ChanOK(c, L), NEW list \in Seq(Users)
  PROVE  Nudged(c, TakeAll(c, list), L)
<1> DEFINE T == NudgedFrom(c, L)
<1>1. ASSUME NEW t \in T, NEW x \in Users  PROVE TakeOp(t, x) \in T
  <2>1. Nudged(c, t, L)  BY DEF NudgedFrom
  <2>2. Nudged(c, TakeOp(t, x), L)  BY <2>1, NudgeOne
  <2> QED  BY <2>2 DEF NudgedFrom, Nudged, ChanOK
<1>2. c \in T  BY DEF NudgedFrom, Nudged, ChanOK, SameRest
<1> HIDE DEF T
<1>3. TakeAll(c, list) \in T  BY <1>1, <1>2, TakeAllIn
<1> QED  BY <1>3 DEF T, NudgedFrom

LEMMA SetToSeqIs ==
  ASSUME NEW S, IsFiniteSet(S)
  PROVE  SetToSeq(S) \in Seq(S) /\ ToSet(SetToSeq(S)) = S
<1> DEFINE n == Cardinality(S)
           f == SetToSeq(S)
<1>1. n \in Nat /\ ExistsBijection(1..n, S)  BY FS_CardinalityType
<1>2. \E g \in [1..n -> S] : IsInjective(g)
  BY <1>1 DEF ExistsBijection, Bijection, Injection
<1>3. f \in [1..n -> S] /\ IsInjective(f)  BY <1>2 DEF SetToSeq
<1> HIDE DEF f, n
<1>4. f \in Injection(1..n, S)  BY <1>3 DEF Injection
<1>5. IsFiniteSet(1..n) /\ Cardinality(1..n) = n
  BY <1>1, FS_Interval
<1>6. f \in Surjection(1..n, S)  BY <1>4, <1>5, FS_Injection DEF n
<1>7. f \in Seq(S)  BY <1>1, <1>3
<1>8. ToSet(f) = S  BY <1>3, <1>6 DEF Surjection, ToSet
<1> QED  BY <1>7, <1>8 DEF f

LEMMA MassDeopAnswers ==
  ASSUME NEW L, Answering(L), NEW c, ChanOK(c, L)
  PROVE  /\ Answers(c, MassDeop(c), L) /\ MassDeop(c).mode = c.mode
         /\ MassDeop(c) = c \/ Flushed(MassDeop(c))
<1> DEFINE S == c.chanop \ Services
           list == SetToSeq(S)
           b == TakeAll(c, list)
           d == FlushMode(b)
<1>1. S \subseteq Users  BY DEF ChanOK, ChanT
<1>2. IsFiniteSet(S)  BY <1>1, ModesOK, FS_Subset
<1> HIDE DEF S
<1>3. list \in Seq(S)  BY <1>2, SetToSeqIs
<1>4. list \in Seq(Users)  BY <1>1, <1>3, SeqMonotonic
<1> HIDE DEF list
<1>5. Nudged(c, b, L)  BY <1>4, TakeAllNudges
<1>6. Answers(c, b, L) /\ b.mode = c.mode /\ ChanOK(b, L)  BY <1>5, NudgedAnswers DEF Nudged
<1>7. "b" \notin L  BY DEF Answering, Heeds
<1>8. MassDeop(c) = c \/ MassDeop(c) = d  BY DEF MassDeop, TakeAll, list, S
<1> HIDE DEF b
<1>9. Answers(b, d, L)  BY <1>6, <1>7, FlushAnswers
<1>10. Flushed(d) /\ d.mode = b.mode  BY <1>6, FlushOK DEF Flushed, SameRest
<1>11. Answers(c, d, L)  BY <1>6, <1>9, AnswersTrans
<1> QED  BY <1>6, <1>8, <1>10, <1>11, AnswersSame

\* The ban of a nick flood.
Flooded(c, u) ==
  LET b == IF u \in c.chanop THEN ChangeMode(c, "-", "o", u, FALSE) ELSE c
  IN IF c.amOp THEN FlushMode(ChangeMode(b, "+", "b", u, FALSE)) ELSE c

LEMMA FloodedAnswers ==
  ASSUME NEW L, Answering(L), NEW c, ChanOK(c, L), c.on, NEW u \in Users
  PROVE  /\ Answers(c, Flooded(c, u), L) /\ Flooded(c, u).mode = c.mode
         /\ Flooded(c, u) = c \/ Flushed(Flooded(c, u))
<1> DEFINE e == Ask("-", "o", u)
           b == IF u \in c.chanop THEN ChangeMode(c, "-", "o", u, FALSE) ELSE c
           d == FlushMode(ChangeMode(b, "+", "b", u, FALSE))
<1>1. Answers(c, b, L) /\ b.mode = c.mode /\ b.on = c.on /\ b.amOp = c.amOp
  <2>1. CASE u \notin c.chanop  BY <2>1, AnswersSame
  <2>2. CASE u \in c.chanop
    <3>1. ChangeMode(c, "-", "o", u, FALSE) = Asks(c, e)  BY ChangeModeIs
    <3>2. e \in Waits(L)  BY AskIn DEF Answering
    <3> HIDE DEF e
    <3>3. ~Starved(c.queue)  BY NotStarved DEF Answering, Heeds
    <3>4. ChanOK(Asks(c, e), L) /\ Asked(c, Asks(c, e), e)  BY <3>2, <3>3, AsksOK
    <3>5. Nudged(c, Asks(c, e), L)  BY <3>4 DEF Nudged, Asked
    <3>6. Answers(c, Asks(c, e), L)  BY <3>5, NudgedAnswers
    <3> QED  BY <2>2, <3>1, <3>4, <3>6 DEF Asked, SameRest
  <2> QED  BY <2>1, <2>2
<1>2. Flooded(c, u) = IF c.amOp THEN d ELSE c  BY DEF Flooded
<1> HIDE DEF b
<1>3. CASE c.amOp
  <2>1. ChanOK(b, L) /\ b.on /\ b.amOp  BY <1>1, <1>3 DEF Answers
  <2>2. Answers(b, d, L) /\ d.mode = b.mode /\ d.queue = <<>> /\ \A M : ChanOK(d, M)
    BY <2>1, BanAnswers
  <2> HIDE DEF d
  <2>3. Answers(c, d, L)  BY <1>1, <2>2, AnswersTrans
  <2> QED  BY <1>1, <1>2, <1>3, <2>2, <2>3 DEF Flushed
<1>4. CASE ~c.amOp  BY <1>2, <1>4, AnswersSame
<1> QED  BY <1>3, <1>4

\* The line with which the service asks the server for its op.
MyOp == [server |-> TRUE, flags |-> <<"+", "o">>, args |-> <<Me>>]

LEMMA MyOpRead == MyOp \in Line /\ OpMe \in Told /\ OpMe \in Change /\ ReadLine(MyOp) = <<OpMe>>
<1> DEFINE args == <<Me>>
           one == <<"+">>
           two == <<"+", "o">>
<1>1. /\ "+" \in Word /\ "o" \in Word /\ Me \in Args /\ "o" \in ModeLetters /\ "o" \notin Sign
      /\ "+" \in Sign
  BY DEF Word, Sign, ModeLetters, Modes, Args
<1>2. MyOp \in Line /\ OpMe \in Told /\ OpMe \in Change
  BY <1>1 DEF MyOp, Line, OpMe, Told, Change
<1>3. args \in Seq(Args) /\ <<>> \in Seq(Word) /\ one \in Seq(Word)
      /\ one = Append(<<>>, "+") /\ two = Append(one, "o")
  BY <1>1
<1>4. ReadLine(MyOp) = Reading(two, args).changes  BY <1>2, ReadLineIs DEF MyOp
<1>5. Reading(<<>>, args) = ReadStart(args)  BY <1>3, ReadingEmpty
<1>6. Reading(one, args) = ReadOp(ReadStart(args), "+")
  <2> DEFINE none == <<>>
  <2>1. none \in Seq(Word) /\ one = Append(none, "+") /\ Reading(none, args) = ReadStart(args)
    BY <1>3, <1>5
  <2> HIDE DEF none, one, args
  <2>2. Reading(Append(none, "+"), args) = ReadOp(Reading(none, args), "+")
    BY <1>1, <1>3, <2>1, ReadingAppend, Zenon
  <2> QED  BY <2>1, <2>2
<1>7. Reading(two, args) = ReadOp(ReadOp(ReadStart(args), "+"), "o")
  <2>1. one \in Seq(Word)  BY <1>1
  <2> HIDE DEF one, two, args
  <2>2. Reading(Append(one, "o"), args) = ReadOp(Reading(one, args), "o")
    <3>1. "o" \in Word  BY <1>1
    <3> QED  BY <1>3, <2>1, <3>1, ReadingAppend, Zenon
  <2> QED  BY <1>3, <1>6, <2>2
<1>8. ReadOp(ReadStart(args), "+") = [sign |-> "+", args |-> args, changes |-> <<>>]
  BY DEF ReadOp, ReadStart, Sign
<1>9. ReadOp([sign |-> "+", args |-> args, changes |-> <<>>], "o").changes = <<OpMe>>
  <2>1. Head(args) = Me /\ args # <<>>  OBVIOUS
  <2> HIDE DEF args
  <2> QED  BY <1>1, <2>1 DEF ReadOp, ArgOf, Takes, SaidAs, OpMe
<1> QED  BY <1>2, <1>4, <1>7, <1>8, <1>9

\* The service believes the line it has just written, and sends what waits.
LEMMA GetOpsIs ==
  ASSUME NEW L, Answering(L), NEW c, ChanOK(c, L)
  PROVE  GetOps(c) = FlushMode([[c EXCEPT !.out = Append(c.out, MyOp)] EXCEPT !.amOp = TRUE])
<1> DEFINE out == Append(c.out, MyOp)
           a == [c EXCEPT !.out = out]
           h == [a EXCEPT !.amOp = TRUE]
           d == FlushMode(h)
<1>1. c \in ChanT /\ c.out \in Seq(Line) /\ MyOp \in Line  BY MyOpRead DEF ChanOK, ChanT
<1>2. out \in Seq(Line)  BY <1>1
<1> HIDE DEF out
<1>3. /\ a \in ChanT /\ a.chanop = c.chanop /\ SameRest(c, a) /\ a.bans = c.bans
      /\ a.queue = c.queue /\ a.out = out
  BY <1>1, <1>2 DEF ChanT, SameRest
<1> HIDE DEF a
<1>4. ChanOK(a, L)  BY <1>3 DEF ChanOK, SameRest
<1>5. L \subseteq Heeds /\ "b" \notin L  BY DEF Answering, Heeds
<1>6. ChanOK(a, Heeds)  BY <1>4, <1>5, ChanMore
<1>7. HearAll(a, "server", <<OpMe>>, NoShit) = h
  <2>1. a \in Chans  BY <1>3, <1>6 DEF Chans
  <2>2. <<OpMe>> = Append(<<>>, OpMe) /\ <<>> \in Seq(Told)  OBVIOUS
  <2>3. HearAll(a, "server", <<OpMe>>, NoShit) = Hear(a, "server", OpMe, NoShit)
    <3>1. HearAll(a, "server", <<>>, NoShit) = a  BY <2>1, HearAllIs
    <3>2. HearAll(a, "server", Append(<<>>, OpMe), NoShit)
            = Hear(HearAll(a, "server", <<>>, NoShit), "server", OpMe, NoShit)
      BY <2>1, <2>2, MyOpRead, HearAllAppend
    <3> QED  BY <2>2, <3>1, <3>2
  <2>4. OpMe.letter = "o" /\ OpMe.sign = "+" /\ OpMe.arg = Me /\ "o" \notin Modes
    BY DEF OpMe, Modes
  <2>5. Hear(a, "server", OpMe, NoShit) = OnOp(a, "server", Me, NoShit)
    BY <2>4 DEF Hear
  <2> QED  BY <2>3, <2>5 DEF OnOp
<1>8. GetOps(c) = d
  <2>1. GetOps(c) = ModeChange(a, "server", <<OpMe>>, NoShit, FALSE)
    BY DEF GetOps, MyOp, a, out
  <2>2. ModeChange(a, "server", <<OpMe>>, NoShit, FALSE) =
          FlushMode(HearAll(a, "server", <<OpMe>>, NoShit))
    BY DEF ModeChange, HearAll
  <2> QED  BY <1>7, <2>1, <2>2
<1> QED  BY <1>8 DEF a, out

\* The service is op again, and whatever was queued has been sent.
LEMMA GetOpsOK ==
  ASSUME NEW L, Answering(L), NEW c, ChanOK(c, L)
  PROVE  LET d == GetOps(c)
         IN /\ Flushed(d) /\ Kept(c, d) /\ d.mode = c.mode /\ d.bans = c.bans
            /\ \A n \in NetT, present \in SUBSET (Users \cup {Me}) :
                 /\ Sent(d, n, present).bans = Sent(c, n, present).bans
                 /\ \A f \in Modes \ L :
                      f \in Sent(d, n, present).modes <=> f \in Sent(c, n, present).modes
<1> DEFINE out == Append(c.out, MyOp)
           a == [c EXCEPT !.out = out]
           h == [a EXCEPT !.amOp = TRUE]
           d == FlushMode(h)
<1>1. c \in ChanT /\ c.out \in Seq(Line) /\ MyOp \in Line  BY MyOpRead DEF ChanOK, ChanT
<1>2. out \in Seq(Line)  BY <1>1
<1> HIDE DEF out
<1>3. /\ a \in ChanT /\ a.chanop = c.chanop /\ SameRest(c, a) /\ a.bans = c.bans
      /\ a.queue = c.queue /\ a.out = out
  BY <1>1, <1>2 DEF ChanT, SameRest
<1> HIDE DEF a
<1>4. ChanOK(a, L)  BY <1>3 DEF ChanOK, SameRest
<1>5. L \subseteq Heeds /\ "b" \notin L  BY DEF Answering, Heeds
<1>6. ChanOK(a, Heeds)  BY <1>4, <1>5, ChanMore
<1>7. GetOps(c) = d  BY GetOpsIs DEF out, a
<1>9. /\ h \in ChanT /\ h.amOp /\ h.chanop = a.chanop /\ h.exists = a.exists /\ h.on = a.on
      /\ h.users = a.users /\ h.mode = a.mode /\ h.flags = a.flags
      /\ h.queue = a.queue /\ h.out = a.out /\ h.bans = a.bans
  BY <1>3 DEF ChanT
<1> HIDE DEF h
<1>10. ChanOK(h, L)  BY <1>4, <1>9 DEF ChanOK
<1>11. Flushed(d) /\ SameRest(h, d)  BY <1>10, FlushOK DEF Flushed
<1>12. Kept(c, d) /\ d.mode = c.mode  BY <1>3, <1>9, <1>11 DEF Kept, SameRest
<1>13. ChanOK(h, Heeds)  BY <1>5, <1>10, ChanMore
<1>14. Minds(h, d)  BY <1>13, FlushMinds
<1>15. Answers(h, d, L)  BY <1>5, <1>10, FlushAnswers
<1> HIDE DEF d
<1>16. d.bans = c.bans  BY <1>3, <1>9, <1>14 DEF Minds
<1>17. ASSUME NEW n \in NetT, NEW present \in SUBSET (Users \cup {Me})
       PROVE  /\ Sent(d, n, present).bans = Sent(c, n, present).bans
              /\ \A f \in Modes \ L :
                   f \in Sent(d, n, present).modes <=> f \in Sent(c, n, present).modes
  <2> DEFINE m == Sent(c, n, present)
             k == Sent(h, n, present)
  <2>1. m \in NetT  BY <1>1, SentType
  <2>2. k = DeliverOp(m, MyOp, present)
    <3>1. k = Deliver(n, Append(c.out, MyOp), present)  BY <1>3, <1>9 DEF Sent, out
    <3>2. Deliver(n, Append(c.out, MyOp), present) = DeliverOp(Deliver(n, c.out, present), MyOp, present)
      BY <1>1, DeliverAppend, Zenon
    <3> QED  BY <3>1, <3>2 DEF Sent
  <2> HIDE DEF m, k
  <2>3. k = ApplyOp(m, OpMe, present)
    <3>1. k = Apply(m, <<OpMe>>, present)  BY <2>2, MyOpRead DEF DeliverOp, MyOp
    <3>2. <<OpMe>> = Append(<<>>, OpMe) /\ <<>> \in Seq(Change)  OBVIOUS
    <3>3. Apply(m, Append(<<>>, OpMe), present) = ApplyOp(Apply(m, <<>>, present), OpMe, present)
      BY <2>1, <3>2, MyOpRead, ApplyAppend, Zenon
    <3>4. Apply(m, <<>>, present) = m  BY <2>1, ApplyEmpty, Zenon
    <3> QED  BY <3>1, <3>2, <3>3, <3>4
  <2>4. k.bans = m.bans /\ k.modes = m.modes
    <3>1. OpMe.letter = "o" /\ "o" \notin Modes  BY DEF OpMe, Modes
    <3> QED  BY <2>1, <2>3, <3>1 DEF ApplyOp, NetT
  <2>5. Sent(d, n, present).bans = k.bans  BY <1>14 DEF Minds, SentSame, k
  <2>6. \A f \in Modes \ L : f \in Sent(d, n, present).modes <=> f \in k.modes
    BY <1>15 DEF Answers, k
  <2> QED  BY <2>4, <2>5, <2>6 DEF m
<1> QED  BY <1>7, <1>11, <1>12, <1>16, <1>17

-----------------------------------------------------------------------------
(* The channel the service makes.                                          *)

\* What it asks for as a server, of the modes b has.
Serves(b) ==
  {e \in Entry : /\ e.server /\ e.sign = "+"
                 /\ \/ e.letter = "o" /\ e.arg = Me
                    \/ e.letter = "k" /\ e.arg = Key /\ "k" \in ToSet(b.mode)
                    \/ e.letter = "i" /\ e.arg = NoArg /\ "i" \in ToSet(b.mode)}
AskServer(letter, arg) == [sign |-> "+", letter |-> letter, arg |-> arg, server |-> TRUE]
ServerAsks(c, letter, arg) == ChangeMode(c, "+", letter, arg, TRUE)
Served(b, d) ==
  /\ d \in ChanT /\ SameRest(b, d) /\ d.bans = b.bans /\ d.chanop = b.chanop /\ d.out = b.out
  /\ ToSet(b.queue) \subseteq ToSet(d.queue) /\ ToSet(d.queue) \subseteq Serves(b)

LEMMA ServedAdd ==
  ASSUME NEW b, NEW c, Served(b, c), NEW letter, NEW arg, AskServer(letter, arg) \in Serves(b),
         NEW d, d = ServerAsks(c, letter, arg)
  PROVE  Served(b, d) /\ ToSet(d.queue) = ToSet(c.queue) \cup {AskServer(letter, arg)}
<1> DEFINE e == AskServer(letter, arg)
           q == c.queue
           A == {f \in ToSet(q) : f.letter = letter /\ f.arg = arg}
<1>1. c \in ChanT /\ q \in Seq(Entry) /\ ToSet(q) \subseteq Serves(b)  BY DEF Served, ChanT
<1>2. d = IF \E f \in A : f.sign = "+" THEN c
          ELSE [c EXCEPT !.queue = Append(Only(q, ToSet(q) \ A), e)]
  BY DEF ServerAsks, ChangeMode, AskServer
<1>3. \A f \in A : f.sign = "+" /\ f = e
  <2> TAKE f \in A
  <2>1. f \in Entry /\ f.sign = "+" /\ f.server  BY <1>1 DEF Serves
  <2>2. e \in Entry /\ e.sign = "+" /\ e.server /\ e.letter = letter /\ e.arg = arg
    BY DEF Serves, AskServer
  <2>3. f.server = e.server  BY <2>1, <2>2 DEF Entry
  <2> QED  BY <2>1, <2>2, <2>3 DEF Entry
<1> HIDE DEF e
<1>4. CASE A # {}
  <2>1. d = c /\ e \in ToSet(q)  BY <1>2, <1>3, <1>4
  <2> QED  BY <1>1, <2>1 DEF e
<1>5. CASE A = {}
  <2> DEFINE k == Append(q, e)
  <2>1. Only(q, ToSet(q) \ A) = q  BY <1>1, <1>5, OnlyAll
  <2>2. d = [c EXCEPT !.queue = k]  BY <1>2, <1>5, <2>1
  <2>3. e \in Entry  BY DEF Serves, e
  <2>4. k \in Seq(Entry) /\ ToSet(k) = ToSet(q) \cup {e}  BY <1>1, <2>3, ToSetAppend
  <2> HIDE DEF k
  <2>5. /\ d \in ChanT /\ SameRest(c, d) /\ d.bans = c.bans /\ d.chanop = c.chanop
        /\ d.out = c.out /\ d.queue = k
    BY <1>1, <2>2, <2>4 DEF ChanT, SameRest
  <2>6. ToSet(d.queue) \subseteq Serves(b)  BY <1>1, <2>4, <2>5 DEF e
  <2>7. Served(b, d)  BY <2>4, <2>5, <2>6 DEF Served, SameRest
  <2> QED  BY <2>4, <2>5, <2>7 DEF e
<1> QED  BY <1>4, <1>5

BounceOp(d, f) ==
  IF f = "l" \/ ~IsSet(d, f, Key) THEN d
  ELSE ChangeMode(d, "+", f, IF f = "k" THEN Key ELSE NoArg, TRUE)
BounceAll(c, l) == FoldLeft(BounceOp, c, l)
ServedFrom(b) == {d \in ChanT : Served(b, d)}
BounceStep(b) == [p \in ServedFrom(b) \X Modes |-> BounceOp(p[1], p[2])]

LEMMA BounceOne ==
  ASSUME NEW b, NEW d, Served(b, d), NEW f \in Modes
  PROVE  /\ Served(b, BounceOp(d, f)) /\ ToSet(d.queue) \subseteq ToSet(BounceOp(d, f).queue)
         /\ f # "l" /\ f \in ToSet(b.mode) => Wants(BounceOp(d, f).queue, "+", f, NoArg)
<1> DEFINE arg == IF f = "k" THEN Key ELSE NoArg
           e == AskServer(f, arg)
<1>1. CASE f = "l" \/ ~IsSet(d, f, Key)
  <2>1. BounceOp(d, f) = d  BY <1>1 DEF BounceOp
  <2>2. f # "l" => f \notin ToSet(b.mode)  BY <1>1 DEF IsSet, Served, SameRest
  <2> QED  BY <2>1, <2>2
<1>2. CASE f # "l" /\ IsSet(d, f, Key)
  <2> DEFINE c == BounceOp(d, f)
  <2>1. c = ServerAsks(d, f, arg)  BY <1>2 DEF BounceOp, ServerAsks
  <2>2. e \in Serves(b)
    <3>1. (f = "k" \/ f = "i") /\ f \in ToSet(b.mode)  BY <1>2 DEF Modes, IsSet, Served, SameRest
    <3>2. Key \in Args /\ NoArg \in Args /\ f \in ModeLetters  BY DEF Args, ModeLetters
    <3> QED  BY <3>1, <3>2 DEF Serves, AskServer, Entry
  <2>3. About(e, f, NoArg) /\ e.sign = "+"
    <3>1. f \notin {"o", "b"}  BY DEF Modes
    <3> QED  BY <3>1 DEF About, AskServer
  <2> HIDE DEF arg, c
  <2>4. Served(b, c) /\ ToSet(c.queue) = ToSet(d.queue) \cup {e}  
    <3>1. AskServer(f, arg) \in Serves(b)  BY <2>2
    <3>2. Served(b, c) /\ ToSet(c.queue) = ToSet(d.queue) \cup {AskServer(f, arg)}
      <4> HIDE DEF e
      <4> QED  BY <2>1, <3>1, ServedAdd
    <3> QED  BY <3>2
  <2> HIDE DEF c, e
  <2>5. Wants(c.queue, "+", f, NoArg)  BY <2>3, <2>4 DEF Wants
  <2> QED  BY <2>4, <2>5 DEF c
<1> QED  BY <1>1, <1>2

LEMMA BounceFold ==
  ASSUME NEW b, NEW c, Served(b, c), NEW l \in Seq(Modes)
  PROVE  /\ FoldType(ServedFrom(b), Modes, c, BounceStep(b), l)
         /\ BounceAll(c, l) = Folded(BounceStep(b), c, l)
<1> DEFINE T == ServedFrom(b)
           step == BounceStep(b)
           R(g) == [A \in SUBSET (DOMAIN l) |->
                      IF A = {} THEN c ELSE BounceOp(g[A \ {Max(A)}], l[Max(A)])]
<1>1. \A t \in T, x \in Modes : step[<<t, x>>] = BounceOp(t, x) /\ BounceOp(t, x) \in T
  <2> TAKE t \in T, x \in Modes
  <2>1. step[<<t, x>>] = BounceOp(t, x)  BY DEF BounceStep
  <2>2. Served(b, t)  BY DEF ServedFrom
  <2>3. Served(b, BounceOp(t, x))  BY <2>2, BounceOne
  <2> QED  BY <2>1, <2>3 DEF ServedFrom, Served
<1>2. step = [p \in T \X Modes |-> step[p]]  BY DEF BounceStep
<1>3. BounceAll(c, l) = (CHOOSE g : g = R(g))[DOMAIN l]
  BY DEF BounceAll, FoldLeft, MapThenFoldSet
<1>4. c \in T  BY DEF ServedFrom, Served
<1> HIDE DEF step, T
<1>5. OnPairs(T, Modes, step)  BY <1>1, <1>2 DEF OnPairs
<1>6. FoldType(T, Modes, c, step, l)  BY <1>4, <1>5, PairFold
<1>7. PICK h : Chooses(h, T, Modes, c, step, l)  BY <1>6, Choosable
<1>8. h = R(h)  BY <1>1, <1>7 DEF Chooses
<1>9. PICK g : g = R(g) /\ BounceAll(c, l) = g[DOMAIN l]  BY <1>3, <1>8
<1>10. Chosen(g, T, Modes, c, step, l)  BY <1>1, <1>9 DEF Chosen
<1> QED  BY <1>6, <1>9, <1>10, ChosenIsFolded DEF step, T

LEMMA BounceAllOK ==
  ASSUME NEW b, NEW c, Served(b, c), NEW l \in Seq(Modes)
  PROVE  /\ Served(b, BounceAll(c, l)) /\ ToSet(c.queue) \subseteq ToSet(BounceAll(c, l).queue)
         /\ \A f \in ToSet(l) \cap ToSet(b.mode) :
              f # "l" => Wants(BounceAll(c, l).queue, "+", f, NoArg)
<1> DEFINE B(k) == BounceAll(c, k)
           Right(k) == /\ Served(b, B(k)) /\ ToSet(c.queue) \subseteq ToSet(B(k).queue)
                       /\ \A f \in ToSet(k) \cap ToSet(b.mode) :
                            f # "l" => Wants(B(k).queue, "+", f, NoArg)
           P == {k \in Seq(Modes) : Right(k)}
<1>1. <<>> \in P
  <2> DEFINE none == <<>>
  <2>1. none \in Seq(Modes) /\ ToSet(none) = {}  BY ToSetEmpty
  <2>2. FoldType(ServedFrom(b), Modes, c, BounceStep(b), none) /\ B(none) = Folded(BounceStep(b), c, none)
    <3> HIDE DEF none
    <3> QED  BY <2>1, BounceFold
  <2>3. B(none) = c  BY <2>2, FoldedEmpty
  <2> QED  BY <2>1, <2>3
<1>2. ASSUME NEW k \in Seq(Modes), NEW f \in Modes, k \in P  PROVE Append(k, f) \in P
  <2> DEFINE kf == Append(k, f)
  <2>1. kf \in Seq(Modes) /\ ToSet(kf) = ToSet(k) \cup {f}  BY ToSetAppend
  <2>2. B(kf) = BounceOp(B(k), f)
    <3>1. Folded(BounceStep(b), c, kf) = BounceStep(b)[<<Folded(BounceStep(b), c, k), f>>]
      BY BounceFold, FoldedAppend
    <3>2. B(k) \in ServedFrom(b)  BY <1>2 DEF ServedFrom, Served
    <3>3. Folded(BounceStep(b), c, k) = B(k)  BY BounceFold
    <3> HIDE DEF kf
    <3>4. B(kf) = Folded(BounceStep(b), c, kf)  BY <2>1, BounceFold
    <3> HIDE DEF B
    <3> QED  BY <3>1, <3>2, <3>3, <3>4 DEF BounceStep
  <2> HIDE DEF kf, B
  <2>3. Served(b, B(k))  BY <1>2
  <2>4. /\ Served(b, B(kf)) /\ ToSet(B(k).queue) \subseteq ToSet(B(kf).queue)
        /\ f # "l" /\ f \in ToSet(b.mode) => Wants(B(kf).queue, "+", f, NoArg)
    BY <2>2, <2>3, BounceOne
  <2>5. \A g : Wants(B(k).queue, "+", g, NoArg) => Wants(B(kf).queue, "+", g, NoArg)
    BY <2>4 DEF Wants
  <2>6. Right(kf)  BY <1>2, <2>1, <2>4, <2>5
  <2> QED  BY <2>1, <2>6 DEF kf
<1> HIDE DEF P
<1>3. l \in P  BY <1>1, <1>2, SeqInduct
<1> QED  BY <1>3 DEF P

LEMMA OneMore ==
  ASSUME NEW S, IsFiniteSet(S), NEW x, NEW n \in Nat, Cardinality(S) <= n
  PROVE  IsFiniteSet(S \cup {x}) /\ Cardinality(S \cup {x}) <= n + 1
<1>1. Cardinality(S) \in Nat  BY FS_CardinalityType
<1>2. /\ IsFiniteSet(S \cup {x})
      /\ Cardinality(S \cup {x}) = IF x \in S THEN Cardinality(S) ELSE Cardinality(S) + 1
  BY FS_AddElement
<1> DEFINE k == Cardinality(S)
           m == Cardinality(S \cup {x})
<1> HIDE DEF k, m
<1>3. k \in Nat /\ k <= n /\ (m = k \/ m = k + 1)  BY <1>1, <1>2 DEF k, m
<1>4. m <= n + 1  BY <1>3
<1> QED  BY <1>2, <1>4 DEF m

\* The queue of the new channel has no mode left without its argument.
LEMMA ServesSendable ==
  ASSUME NEW b, NEW q \in Seq(Entry), ToSet(q) \subseteq Serves(b)
  PROVE  Sendable(q)
<1>1. NoArg # Me /\ NoArg # Key
  <2> DEFINE S == {Me, Key, NoArg, Low}
  <2>1. Cardinality(S) = 4  BY ModesOK
  <2>2. ASSUME NoArg = Me \/ NoArg = Key  PROVE FALSE
    <3>1. S \subseteq {Key, Me, Low}  BY <2>2
    <3>2. IsFiniteSet({Key, Me, Low}) /\ Cardinality({Key, Me, Low}) <= 3
      <4> DEFINE A == {Low}
                 B == A \cup {Me}
      <4>1. IsFiniteSet(A) /\ Cardinality(A) = 1  BY FS_Singleton
      <4> HIDE DEF A
      <4>2. IsFiniteSet(B) /\ Cardinality(B) <= 1 + 1
        <5>1. Cardinality(A) <= 1  BY <4>1
        <5> QED  BY <4>1, <5>1, OneMore
      <4> HIDE DEF B
      <4>3. Cardinality(B) <= 2  BY <4>2
      <4>4. IsFiniteSet(B \cup {Key}) /\ Cardinality(B \cup {Key}) <= 2 + 1  BY <4>2, <4>3, OneMore
      <4>5. {Key, Me, Low} = B \cup {Key}  BY DEF A, B
      <4> DEFINE m == Cardinality({Key, Me, Low})
      <4>6. IsFiniteSet({Key, Me, Low}) /\ m <= 2 + 1  BY <4>4, <4>5
      <4> HIDE DEF m
      <4>7. m <= 3  BY <4>6
      <4> QED  BY <4>6, <4>7 DEF m
    <3>3. Cardinality(S) <= Cardinality({Key, Me, Low})  BY <3>1, <3>2, FS_Subset
    <3>4. Cardinality({Key, Me, Low}) \in Nat  BY <3>2, FS_CardinalityType
    <3> HIDE DEF S
    <3> QED  BY <2>1, <3>2, <3>3, <3>4
  <2> QED  BY <2>2
<1>2. ASSUME NEW i \in 1..Len(q)  PROVE Fits(q[i]) /\ ~Starves(q[i])
  <2>1. q[i] \in ToSet(q)  BY DEF ToSet
  <2>2. q[i] \in Serves(b)  BY <2>1
  <2> QED  BY <1>1, <2>2 DEF Serves, Fits, Starves
<1> QED  BY <1>2 DEF Sendable

\* The queue that is flushed is the server's, and the network has it all.
LEMMA FlushServer ==
  ASSUME NEW b, NEW c, Served(b, c)
  PROVE  /\ FlushMode(c) \in ChanT /\ SameRest(c, FlushMode(c))
         /\ FlushMode(c).chanop = c.chanop /\ FlushMode(c).queue = <<>>
         /\ FlushMode(c).bans = c.bans
         /\ \A n \in NetT, present \in SUBSET (Users \cup {Me}) :
              Sent(FlushMode(c), n, present) = Apply(Sent(c, n, present), Changes(c.queue), present)
<1> DEFINE q == c.queue
           d == FlushMode(c)
           yes == {e \in ToSet(q) : e.server = TRUE}
           no == {e \in ToSet(q) : e.server = FALSE}
           more == LinesOf(q, TRUE)
<1>1. c \in ChanT /\ q \in Seq(Entry) /\ c.out \in Seq(Line) /\ ToSet(q) \subseteq Serves(b)
      /\ c.amOp \in BOOLEAN
  BY DEF Served, ChanT
<1>2. Sendable(q)  BY <1>1, ServesSendable
<1>3. more \in Seq(LineBy(TRUE)) /\ ReadAll(more) = Changes(q)  BY <1>1, <1>2, LinesAreRead
<1>4. more \in Seq(Line)
  <2>1. LineBy(TRUE) \subseteq Line  BY DEF LineBy, Line
  <2> QED  BY <1>3, <2>1, SeqMonotonic
<1>5. d = [c EXCEPT !.queue = <<>>, !.out = c.out \o more]
  <2>1. CASE q = <<>>
    <3>1. c = [c EXCEPT !.queue = c.queue, !.out = c.out]  BY <1>1 DEF ChanT
    <3>2. more = <<>>  BY <2>1, LinesOfNone
    <3>3. c.out \o <<>> = c.out  BY <1>1
    <3>4. d = c  BY <2>1 DEF FlushMode
    <3> HIDE DEF d, more
    <3> QED  BY <2>1, <3>1, <3>2, <3>3, <3>4
  <2>2. CASE q # <<>>
    <3>1. \A e \in ToSet(q) : e.server = TRUE /\ e.letter # "b"
      <4>1. \A e \in ToSet(q) : e.server /\ e.server \in BOOLEAN /\ e.letter # "b"
        BY <1>1 DEF Serves, Entry
      <4> QED  BY <4>1
    <3>2. no = {} /\ ToSet(q) \subseteq yes  BY <3>1
    <3>3. Masks(q, "-") = {} /\ Masks(q, "+") = {}  BY <3>1 DEF Masks
    <3>4. Only(q, yes) = q /\ Only(q, no) = <<>>
      <4> HIDE DEF yes, no, q
      <4> QED  BY <1>1, <3>2, OnlyAll
    <3>5. d = [c EXCEPT !.queue = <<>>,
                    !.bans = (c.bans \ Masks(q, "-")) \cup Masks(q, "+"),
                    !.out = c.out \o LinesOf(Only(q, yes), TRUE)
                              \o (IF c.amOp THEN LinesOf(Only(q, no), FALSE) ELSE <<>>)]
      BY <2>2 DEF FlushMode, Masks
    <3>6. LinesOf(Only(q, no), FALSE) = <<>>  BY <3>4, LinesOfNone
    <3>7. (c.out \o more) \o <<>> = c.out \o more
      <4> HIDE DEF more
      <4> QED  BY <1>1, <1>4
    <3>8. c = [c EXCEPT !.bans = c.bans]  BY <1>1 DEF ChanT
    <3>9. d = [c EXCEPT !.queue = <<>>, !.bans = c.bans, !.out = c.out \o more]
      <4> HIDE DEF d, yes, no
      <4> QED  BY <3>3, <3>4, <3>5, <3>6, <3>7
    <3> HIDE DEF d, more
    <3> QED  BY <1>1, <3>8, <3>9 DEF ChanT
  <2> QED  BY <2>1, <2>2
<1>6. d \in ChanT /\ SameRest(c, d) /\ d.chanop = c.chanop /\ d.queue = <<>> /\ d.bans = c.bans
      /\ d.out = c.out \o more
  <2>1. c.out \o more \in Seq(Line) /\ <<>> \in Seq(Entry)
    <3> HIDE DEF more
    <3> QED  BY <1>1, <1>4
  <2> HIDE DEF d, more
  <2> QED  BY <1>1, <1>5, <2>1 DEF ChanT, SameRest
<1>7. ASSUME NEW n \in NetT, NEW present \in SUBSET (Users \cup {Me})
      PROVE  Sent(d, n, present) = Apply(Sent(c, n, present), Changes(q), present)
  <2> DEFINE m == Sent(c, n, present)
             o == c.out
  <2>1. m \in NetT  BY <1>1, SentType, Zenon
  <2> HIDE DEF more, d, o
  <2>2. Deliver(n, o \o more, present) = Deliver(Deliver(n, o, present), more, present)
    BY <1>1, <1>4, DeliverCat, Zenon DEF o
  <2>3. Sent(d, n, present) = Deliver(m, more, present)  BY <1>6, <2>2 DEF Sent, o
  <2>4. PICK server \in BOOLEAN : server = TRUE  OBVIOUS
  <2>5. more \in Seq(LineBy(server)) /\ server
    <3>1. LineBy(server) = LineBy(TRUE)  BY <2>4 DEF LineBy
    <3> QED  BY <1>3, <2>4, <3>1
  <2> HIDE DEF m
  <2>6. Deliver(m, more, present) = Apply(m, ReadAll(more), present)
    BY <2>1, <2>5, DeliverAll
  <2> QED  BY <1>3, <2>3, <2>6 DEF m
<1> QED  BY <1>6, <1>7 DEF d

\* What is believed of a channel that is made: nobody on it, and no bans.
Fresh(d) == Flushed(d) /\ d.exists /\ d.users = {} /\ d.chanop = {} /\ d.bans = {} /\ d.mode = DefModes

LEMMA DelChannelType ==
  /\ DelChannel \in ChanT /\ DelChannel.out = <<>> /\ DelChannel.queue = <<>>
  /\ Flushed(DelChannel)
<1>1. <<>> \in Seq(Entry) /\ <<>> \in Seq(Modes) /\ <<>> \in Seq(Line)  OBVIOUS
<1>2. IsInjective(<<>>)  BY DEF IsInjective
<1>3. ToSet(<<>>) = {} /\ Sendable(<<>>)  BY ToSetEmpty DEF Sendable
<1>4. DelChannel \in ChanT  BY <1>1 DEF DelChannel, ChanT
<1>5. /\ DelChannel.chanop = {} /\ DelChannel.users = {} /\ DelChannel.mode = <<>>
      /\ DelChannel.queue = <<>> /\ DelChannel.out = <<>>
  BY DEF DelChannel
<1>6. \A M : ChanOK(DelChannel, M)  BY <1>2, <1>3, <1>4, <1>5 DEF ChanOK, Agreed
<1> QED  BY <1>4, <1>5, <1>6 DEF Flushed

Made(on) == [DelChannel EXCEPT !.exists = TRUE, !.on = on, !.amOp = on,
                               !.mode = DefModes, !.flags = DefFlags]

LEMMA MadeOK ==
  ASSUME NEW on \in BOOLEAN
  PROVE  Fresh(Made(on)) /\ Made(on).on = on /\ Made(on).amOp = on /\ Made(on).out = <<>>
<1> DEFINE d == Made(on)
<1>1. /\ d.chanop = {} /\ d.users = {} /\ d.mode = DefModes /\ d.queue = <<>> /\ d.out = <<>>
      /\ d.exists = TRUE /\ d.on = on /\ d.amOp = on /\ d.bans = {} /\ d.flags = DefFlags
  BY DEF DelChannel, Made
<1>2. DefModes \in Seq(Modes) /\ IsInjective(DefModes) /\ DefFlags \subseteq Flags  BY ModesOK
<1>3. d \in ChanT  BY <1>2, DelChannelType DEF Made, ChanT
<1>4. ToSet(<<>>) = {} /\ Sendable(<<>>)  BY ToSetEmpty DEF Sendable
<1> HIDE DEF d
<1>5. \A M : ChanOK(d, M)  BY <1>1, <1>2, <1>3, <1>4 DEF ChanOK, Agreed
<1> QED  BY <1>1, <1>5 DEF Fresh, Flushed, d

\* The service makes the channel: the default modes are set again, and no ban is
\* touched.
LEMMA NewChannelOK ==
  /\ Fresh(NewChannel(TRUE)) /\ NewChannel(TRUE).on /\ NewChannel(TRUE).amOp
  /\ \A n \in NetT, present \in SUBSET (Users \cup {Me}) :
       /\ Sent(NewChannel(TRUE), n, present) \in NetT
       /\ Sent(NewChannel(TRUE), n, present).bans = n.bans
       /\ \A f \in Modes : f \in Sent(NewChannel(TRUE), n, present).modes <=>
                             f \in n.modes \/ (f # "l" /\ f \in ToSet(DefModes))
<1> DEFINE b == Made(TRUE)
           c == ServerAsks(b, "o", Me)
           k == BounceAll(c, DefModes)
           d == FlushMode(k)
<1>1. NewChannel(TRUE) = d  BY DEF NewChannel, Made, Bounce, BounceAll, BounceOp, ServerAsks
<1>2. /\ Fresh(b) /\ b.on = TRUE /\ b.amOp = TRUE /\ b.out = <<>>
      /\ b \in ChanT /\ b.queue = <<>> /\ ToSet(b.queue) = {}
  <2>1. Fresh(b) /\ b.on = TRUE /\ b.amOp = TRUE /\ b.out = <<>>  BY MadeOK
  <2> QED  BY <2>1, ToSetEmpty DEF Fresh, Flushed, ChanOK
<1> HIDE DEF b
<1>3. Served(b, b)  BY <1>2 DEF Served, SameRest
<1>4. AskServer("o", Me) \in Serves(b)
  <2>1. Me \in Args /\ "o" \in ModeLetters  BY DEF Args, ModeLetters
  <2> QED  BY <2>1 DEF Serves, AskServer, Entry
<1>5. Served(b, c)  BY <1>3, <1>4, ServedAdd
<1> HIDE DEF c
<1>6. DefModes \in Seq(Modes)  BY ModesOK
<1>7. /\ Served(b, k)
      /\ \A f \in ToSet(DefModes) \cap ToSet(b.mode) : f # "l" => Wants(k.queue, "+", f, NoArg)
  BY <1>5, <1>6, BounceAllOK
<1> HIDE DEF k
<1>8. /\ d \in ChanT /\ SameRest(k, d) /\ d.chanop = k.chanop /\ d.queue = <<>> /\ d.bans = k.bans
      /\ \A n \in NetT, present \in SUBSET (Users \cup {Me}) :
           Sent(d, n, present) = Apply(Sent(k, n, present), Changes(k.queue), present)
  BY <1>7, FlushServer
<1> HIDE DEF d
<1>9. /\ d.exists = b.exists /\ d.on = b.on /\ d.amOp = b.amOp /\ d.users = b.users
      /\ d.mode = b.mode /\ d.chanop = b.chanop /\ d.bans = b.bans /\ k.out = b.out
  BY <1>7, <1>8 DEF Served, SameRest
<1>10. ToSet(<<>>) = {} /\ Sendable(<<>>)  BY ToSetEmpty DEF Sendable
<1>11. Flushed(d)
  <2>1. IsInjective(d.mode) /\ d.chanop \subseteq d.users  BY <1>2, <1>9, ModesOK DEF Fresh
  <2>2. \A M : ChanOK(d, M)  BY <1>8, <1>10, <2>1 DEF ChanOK, Agreed
  <2> QED  BY <1>8, <2>2 DEF Flushed
<1>12. Fresh(d) /\ d.on /\ d.amOp  BY <1>2, <1>9, <1>11 DEF Fresh
<1>13. ASSUME NEW n \in NetT, NEW present \in SUBSET (Users \cup {Me})
       PROVE /\ Sent(d, n, present) \in NetT
             /\ Sent(d, n, present).bans = n.bans
             /\ \A f \in Modes : f \in Sent(d, n, present).modes <=>
                             f \in n.modes \/ (f # "l" /\ f \in ToSet(DefModes))
  <2> DEFINE q == k.queue
             r == Sent(d, n, present)
  <2>1. Sent(k, n, present) = n  BY <1>2, <1>9, SentNone
  <2>2. r = Apply(n, Changes(q), present)  BY <1>8, <2>1
  <2>3. q \in Seq(Entry) /\ ToSet(q) \subseteq Serves(b)  BY <1>7 DEF Served, ChanT
  <2>4. r \in NetT  BY <2>2, <2>3, ChangesType, ApplyType, Zenon
  <2> HIDE DEF q, r
  <2>5. \A e \in ToSet(q) : e.sign = "+" /\ e.letter # "b" /\ e.letter # "l"
                            /\ (e.letter = "k" \/ e.letter = "i" => e.letter \in ToSet(b.mode))
    BY <2>3 DEF Serves
  <2>6. \A letter, x : ~Wants(q, "-", letter, x)  BY <2>5 DEF Wants
  <2>7. ASSUME NEW x  PROVE x \in r.bans <=> x \in n.bans
    <3>1. ~Wants(q, "+", "b", x)  BY <2>5 DEF Wants, About
    <3>2. "b" \in ModeLetters /\ "b" \notin Modes  BY DEF ModeLetters, Modes
    <3>3. Has(Apply(n, Changes(q), present), "b", x) <=>
            Wants(q, "+", "b", x) \/ (Has(n, "b", x) /\ ~Wants(q, "-", "b", x))
      BY <2>3, <2>6, <3>2, AppliedHas
    <3> QED  BY <2>2, <2>6, <3>1, <3>2, <3>3 DEF Has
  <2>8. r.bans = n.bans
    <3>1. r.bans \subseteq Args /\ n.bans \subseteq Args  BY <2>4 DEF NetT
    <3> QED  BY <2>7, <3>1
  <2>9. ASSUME NEW f \in Modes
        PROVE  f \in r.modes <=> f \in n.modes \/ (f # "l" /\ f \in ToSet(DefModes))
    <3>1. f \in ModeLetters /\ f # "o" /\ f # "b"  BY DEF ModeLetters, Modes
    <3>2. Has(Apply(n, Changes(q), present), f, NoArg) <=>
            Wants(q, "+", f, NoArg) \/ (Has(n, f, NoArg) /\ ~Wants(q, "-", f, NoArg))
      BY <2>3, <2>6, <3>1, AppliedHas
    <3>3. b.mode = DefModes  BY <1>2 DEF Fresh
    <3>4. Wants(q, "+", f, NoArg) <=> f # "l" /\ f \in ToSet(DefModes)
      <4>1. Wants(q, "+", f, NoArg) => f # "l" /\ f \in ToSet(b.mode)
        BY <2>5 DEF Wants, About, Modes
      <4>2. f # "l" /\ f \in ToSet(b.mode) => Wants(q, "+", f, NoArg)
        BY <1>7, <3>3 DEF q
      <4> QED  BY <3>3, <4>1, <4>2
    <3> QED  BY <2>2, <2>6, <3>1, <3>2, <3>4 DEF Has
  <2> QED  BY <2>4, <2>8, <2>9 DEF r
<1> QED  BY <1>1, <1>12, <1>13

LEMMA NewChannelOff ==
  Fresh(NewChannel(FALSE)) /\ ~NewChannel(FALSE).on /\ ~NewChannel(FALSE).amOp
    /\ NewChannel(FALSE).out = <<>>
<1>1. NewChannel(FALSE) = Made(FALSE)  BY DEF NewChannel, Made
<1> QED  BY <1>1, MadeOK

-----------------------------------------------------------------------------
(* CLEARMODE asks away one mode after another of the mode string.          *)

\* The letters that may wait then.
Every == {"o"} \cup Modes

\* The argument a mode is asked away with, and one mode more.
ClearArg(w, f) ==
  LET words == Only(w.c.mode, {"k", "l"})
      word == IF w.i > Len(words) THEN NoArg ELSE IF words[w.i] = "k" THEN Key ELSE Low
  IN IF f = "k" THEN word ELSE NoArg
ClearOp(w, f) ==
  [c |-> [ChangeMode(w.c, "-", f, ClearArg(w, f), FALSE) EXCEPT !.mode = RemFlag(@, f)],
   i |-> IF f \in {"k", "l"} THEN w.i + 1 ELSE w.i]
ClearT == [c : ChanT, i : Nat]
ClearStep == [p \in ClearT \X Modes |-> ClearOp(p[1], p[2])]
ClearAll(c, l) == FoldLeft(ClearOp, [c |-> c, i |-> 1], l)

LEMMA ClearIs ==
  ASSUME NEW w \in ClearT, NEW f \in Modes
  PROVE  LET e == Ask("-", f, ClearArg(w, f))
             a == Asks(w.c, e)
         IN /\ e \in Waits(Every) /\ (f # "k" => e.arg = NoArg)
            /\ a \in ChanT /\ ClearOp(w, f) \in ClearT
            /\ ClearOp(w, f).c = [a EXCEPT !.mode = RemFlag(a.mode, f)]
<1> DEFINE arg == ClearArg(w, f)
           e == Ask("-", f, arg)
           a == Asks(w.c, e)
           q == w.c.queue
<1>1. arg \in {NoArg, Key, Low} /\ (f # "k" => arg = NoArg)  BY DEF ClearArg
<1>2. ChangeMode(w.c, "-", f, arg, FALSE) = a  BY ChangeModeIs
<1>3. w.c \in ChanT /\ w.i \in Nat /\ q \in Seq(Entry)  BY DEF ClearT, ChanT
<1> HIDE DEF arg
<1>4. f \in ModeLetters /\ f # "o" /\ f # "b" /\ f \in Every  BY DEF ModeLetters, Modes, Every
<1>5. arg \in Args /\ "-" \in {"+", "-"}  BY <1>1 DEF Args
<1>6. /\ e.sign = "-" /\ e.letter = f /\ e.arg = arg /\ e.server = FALSE /\ e \in Entry
  BY <1>4, <1>5 DEF Ask, Entry
<1> HIDE DEF e
<1>7. Fits(e)  BY <1>1, <1>4, <1>6 DEF Fits, Modes
<1>8. e \in Waits(Every)  BY <1>4, <1>6, <1>7 DEF Waits
<1>9. a \in ChanT
  <2> DEFINE k == Only(q, ToSet(q) \ Alike(q, e))
             r == Append(k, e)
  <2>1. k \in Seq(Entry)
    <3> HIDE DEF q
    <3> QED  BY <1>3, OnlySeq
  <2> HIDE DEF k
  <2>2. r \in Seq(Entry)  BY <1>6, <2>1
  <2>3. a = w.c \/ a = [w.c EXCEPT !.queue = r]  BY DEF Asks, k
  <2> HIDE DEF r, a
  <2> QED  BY <1>3, <2>2, <2>3 DEF ChanT
<1> HIDE DEF a
<1> DEFINE d == [a EXCEPT !.mode = RemFlag(a.mode, f)]
           i == IF f \in {"k", "l"} THEN w.i + 1 ELSE w.i
<1>10. ClearOp(w, f) = [c |-> d, i |-> i]  BY <1>2 DEF ClearOp, arg
<1>11. RemFlag(a.mode, f) \in Seq(Modes)  BY <1>9, OnlySeq DEF ChanT, RemFlag
<1>12. d \in ChanT  BY <1>9, <1>11 DEF ChanT
<1>13. i \in Nat  BY <1>3
<1> HIDE DEF d, i
<1>14. ClearOp(w, f) \in ClearT /\ ClearOp(w, f).c = d  BY <1>10, <1>12, <1>13 DEF ClearT
<1> QED  BY <1>1, <1>6, <1>8, <1>9, <1>14 DEF d, e, a, arg

LEMMA ClearFold ==
  ASSUME NEW c \in ChanT, NEW l \in Seq(Modes)
  PROVE  /\ FoldType(ClearT, Modes, [c |-> c, i |-> 1], ClearStep, l)
         /\ ClearAll(c, l) = Folded(ClearStep, [c |-> c, i |-> 1], l)
<1> DEFINE b == [c |-> c, i |-> 1]
           step == ClearStep
           R(g) == [A \in SUBSET (DOMAIN l) |->
                      IF A = {} THEN b ELSE ClearOp(g[A \ {Max(A)}], l[Max(A)])]
<1>1. \A t \in ClearT, x \in Modes :
         step[<<t, x>>] = ClearOp(t, x) /\ ClearOp(t, x) \in ClearT
  <2> TAKE t \in ClearT, x \in Modes
  <2>1. ClearOp(t, x) \in ClearT  BY ClearIs
  <2> QED  BY <2>1 DEF ClearStep
<1>2. step = [p \in ClearT \X Modes |-> step[p]]  BY DEF ClearStep
<1>3. ClearAll(c, l) = (CHOOSE g : g = R(g))[DOMAIN l]
  BY DEF ClearAll, FoldLeft, MapThenFoldSet
<1>4. b \in ClearT  BY DEF ClearT
<1> HIDE DEF step, b
<1>5. OnPairs(ClearT, Modes, step)  BY <1>1, <1>2 DEF OnPairs
<1>6. FoldType(ClearT, Modes, b, step, l)  BY <1>4, <1>5, PairFold
<1>7. PICK h : Chooses(h, ClearT, Modes, b, step, l)  BY <1>6, Choosable
<1>8. h = R(h)  BY <1>1, <1>7 DEF Chooses
<1>9. PICK g : g = R(g) /\ ClearAll(c, l) = g[DOMAIN l]  BY <1>3, <1>8
<1>10. Chosen(g, ClearT, Modes, b, step, l)  BY <1>1, <1>9 DEF Chosen
<1> QED  BY <1>6, <1>9, <1>10, ChosenIsFolded DEF step, b

\* The modes of k have been asked away, and nothing else was.
SoFar(b, d, k) ==
  /\ ChanOK(d, Every) /\ ToSet(d.mode) = ToSet(b.mode) \ ToSet(k)
  /\ d.exists = b.exists /\ d.on = b.on /\ d.amOp = b.amOp /\ d.users = b.users
  /\ d.flags = b.flags /\ d.bans = b.bans /\ d.out = b.out
  /\ Starved(d.queue) => "k" \in ToSet(k)
  /\ \A e \in ToSet(d.queue) : e.letter \in Modes => e.sign = "-" /\ e.letter \in ToSet(k)
  /\ \A f \in ToSet(k) : Wants(d.queue, "-", f, NoArg)
  /\ d.chanop = b.chanop
  /\ \A e : e.letter = "o" => (e \in ToSet(d.queue) <=> e \in ToSet(b.queue))

LEMMA ClearOne ==
  ASSUME NEW b, b.on, NEW w \in ClearT, NEW k \in Seq(Modes), SoFar(b, w.c, k),
         NEW f \in Modes, f \notin ToSet(k)
  PROVE  SoFar(b, ClearOp(w, f).c, Append(k, f))
<1> DEFINE c == w.c
           e == Ask("-", f, ClearArg(w, f))
           a == Asks(c, e)
           d == ClearOp(w, f).c
           K == ToSet(Append(k, f))
           mode == RemFlag(a.mode, f)
<1>1. /\ e \in Waits(Every) /\ (f # "k" => e.arg = NoArg) /\ a \in ChanT
      /\ d = [a EXCEPT !.mode = mode]
  BY ClearIs
<1>2. e.sign = "-" /\ e.letter = f  BY DEF Ask
<1>3. K = ToSet(k) \cup {f}  BY ToSetAppend
<1> HIDE DEF e, d, K
<1>4. ChanOK(c, Every) /\ c.on  BY DEF SoFar
<1>5. Starved(c.queue) => e.arg = NoArg  BY <1>1 DEF SoFar
<1>6. ChanOK(a, Every) /\ Asked(c, a, e)  BY <1>1, <1>4, <1>5, AsksOK
<1> HIDE DEF a
<1>7. SameRest(c, a) /\ a.bans = c.bans /\ a.out = c.out /\ a.chanop = c.chanop
      /\ ToSet(a.queue) = (ToSet(c.queue) \ Alike(c.queue, e)) \cup {e}
  BY <1>4, <1>6 DEF Asked
<1>8. mode \in Seq(Modes) /\ IsInjective(mode) /\ ToSet(mode) = ToSet(a.mode) \ {f}
  <2>1. a.mode \in Seq(Modes) /\ IsInjective(a.mode)  BY <1>6 DEF ChanOK, ChanT
  <2> QED  BY <2>1, FlagOK
<1> HIDE DEF mode
<1>9. /\ ChanOK(d, Every) /\ d.mode = mode /\ d.queue = a.queue /\ d.bans = a.bans
      /\ d.chanop = a.chanop
      /\ d.exists = a.exists /\ d.on = a.on /\ d.amOp = a.amOp
      /\ d.users = a.users /\ d.flags = a.flags /\ d.out = a.out
  BY <1>1, <1>6, <1>8, ModeOK
<1>10. /\ d.exists = b.exists /\ d.on = b.on /\ d.amOp = b.amOp /\ d.users = b.users
       /\ d.flags = b.flags /\ d.bans = b.bans /\ d.out = b.out
  BY <1>7, <1>9 DEF SoFar, SameRest
<1>11. ToSet(d.mode) = ToSet(b.mode) \ K  BY <1>3, <1>7, <1>8, <1>9 DEF SoFar, SameRest
<1>12. Starved(d.queue) => "k" \in K
  <2>1. c.queue \in Seq(Entry) /\ d.queue \in Seq(Entry)  BY <1>4, <1>9 DEF ChanOK, ChanT
  <2>2. ASSUME NEW x \in ToSet(d.queue), Starves(x)  PROVE "k" \in K
    <3>1. CASE x = e  BY <1>2, <1>3, <2>2, <3>1 DEF Starves
    <3>2. CASE x \in ToSet(c.queue)
      <4>1. Starved(c.queue)  BY <2>1, <2>2, <3>2, StarvedIn
      <4> QED  BY <1>3, <4>1 DEF SoFar
    <3> QED  BY <1>7, <1>9, <3>1, <3>2
  <2> QED  BY <2>1, <2>2, StarvedIn
<1>13. \A x \in ToSet(d.queue) : x.letter \in Modes => x.sign = "-" /\ x.letter \in K
  BY <1>2, <1>3, <1>7, <1>9 DEF SoFar
<1>14. ASSUME NEW g \in K  PROVE Wants(d.queue, "-", g, NoArg)
  <2>1. CASE g = f
    <3>1. f \notin {"o", "b"}  BY DEF Modes
    <3> QED  BY <1>2, <1>7, <1>9, <2>1, <3>1 DEF Wants, About
  <2>2. CASE g \in ToSet(k)
    <3>1. PICK x \in ToSet(c.queue) : About(x, g, NoArg) /\ x.sign = "-"
      BY <2>2 DEF SoFar, Wants
    <3>2. x \notin Alike(c.queue, e)  BY <1>2, <2>2, <3>1 DEF Alike, Same, About
    <3> QED  BY <1>7, <1>9, <3>1, <3>2 DEF Wants
  <2> QED  BY <1>3, <2>1, <2>2
<1>15. d.chanop = b.chanop  BY <1>7, <1>9 DEF SoFar
<1>16. ASSUME NEW x, x.letter = "o"  PROVE x \in ToSet(d.queue) <=> x \in ToSet(b.queue)
  <2>1. x # e /\ x \notin Alike(c.queue, e)  BY <1>2, <1>16 DEF Alike, Same, Modes
  <2> QED  BY <1>7, <1>9, <1>16, <2>1 DEF SoFar
<1> QED  BY <1>9, <1>10, <1>11, <1>12, <1>13, <1>14, <1>15, <1>16 DEF SoFar, d, K

LEMMA ClearAllOK ==
  ASSUME NEW c, ChanOK(c, {"o"}), c.on, NEW l \in Seq(Modes), IsInjective(l)
  PROVE  ClearAll(c, l) \in ClearT /\ SoFar(c, ClearAll(c, l).c, l)
<1> DEFINE b == [c |-> c, i |-> 1]
           B(k) == ClearAll(c, k)
           P == {k \in Seq(Modes) : IsInjective(k) => B(k) \in ClearT /\ SoFar(c, B(k).c, k)}
<1>0. c \in ChanT  BY DEF ChanOK
<1>1. <<>> \in P
  <2> DEFINE none == <<>>
  <2>1. none \in Seq(Modes) /\ ToSet(none) = {}  BY ToSetEmpty
  <2>2. FoldType(ClearT, Modes, b, ClearStep, none) /\ B(none) = Folded(ClearStep, b, none)
    <3> HIDE DEF none
    <3> QED  BY <1>0, <2>1, ClearFold
  <2>3. B(none) = b  BY <2>2, FoldedEmpty
  <2>4. b \in ClearT /\ b.c = c  BY <1>0 DEF ClearT
  <2>5. "o" \notin Modes /\ {"o"} \subseteq Every  BY DEF Modes, Every
  <2>6. ChanOK(c, Every)  BY <2>5, ChanMore
  <2>7. ~Starved(c.queue)  BY NotStarved
  <2>8. \A e \in ToSet(c.queue) : e.letter = "o"  BY DEF ChanOK, Waits
  <2> HIDE DEF none
  <2>9. SoFar(c, c, none)  BY <2>1, <2>5, <2>6, <2>7, <2>8 DEF SoFar
  <2>10. B(none) \in ClearT /\ SoFar(c, B(none).c, none)
    <3> HIDE DEF B, b
    <3> QED  BY <2>3, <2>4, <2>9
  <2> QED  BY <2>1, <2>10 DEF none
<1>2. ASSUME NEW k \in Seq(Modes), NEW f \in Modes, k \in P  PROVE Append(k, f) \in P
  <2> DEFINE kf == Append(k, f)
  <2>1. kf \in Seq(Modes) /\ (IsInjective(kf) => IsInjective(k) /\ f \notin ToSet(k))
    BY InjectiveAppend
  <2>2. ASSUME IsInjective(kf)  PROVE B(kf) = ClearOp(B(k), f)
    <3>1. Folded(ClearStep, b, kf) = ClearStep[<<Folded(ClearStep, b, k), f>>]
      BY <1>0, ClearFold, FoldedAppend
    <3>2. B(k) \in ClearT  BY <1>2, <2>1, <2>2
    <3>3. Folded(ClearStep, b, k) = B(k)  BY <1>0, ClearFold
    <3> HIDE DEF kf
    <3>4. B(kf) = Folded(ClearStep, b, kf)  BY <1>0, <2>1, ClearFold
    <3> HIDE DEF B
    <3> QED  BY <3>1, <3>2, <3>3, <3>4 DEF ClearStep
  <2> HIDE DEF kf, B
  <2>3. ASSUME IsInjective(kf)  PROVE B(kf) \in ClearT /\ SoFar(c, B(kf).c, kf)
    <3>1. B(k) \in ClearT /\ SoFar(c, B(k).c, k) /\ f \notin ToSet(k)  BY <1>2, <2>1, <2>3
    <3>2. SoFar(c, ClearOp(B(k), f).c, kf)  BY <3>1, ClearOne DEF kf
    <3>3. ClearOp(B(k), f) \in ClearT  BY <3>1, ClearIs
    <3> QED  BY <2>2, <2>3, <3>2, <3>3
  <2> QED  BY <2>1, <2>3 DEF kf
<1> HIDE DEF P
<1>3. l \in P  BY <1>1, <1>2, SeqInduct
<1> QED  BY <1>3 DEF P

\* Of the modes of the mode string none is left, on the network neither.
LEMMA ClearModesOK ==
  ASSUME NEW c, ChanOK(c, {"o"}), c.on, c.amOp
  PROVE  LET d == ClearModes(c)
         IN /\ Answers(c, d, Every) /\ Flushed(d) /\ ToSet(d.mode) = {}
            /\ \A n \in NetT, present \in SUBSET (Users \cup {Me}) :
                 Me \in Sent(c, n, present).op =>
                   \A f \in Modes : f \in Sent(d, n, present).modes <=>
                                      f \in Sent(c, n, present).modes /\ f \notin ToSet(c.mode)
<1> DEFINE k == ClearAll(c, c.mode).c
           d == FlushMode(k)
<1>1. ClearModes(c) = d  BY DEF ClearModes, ClearAll, ClearOp, ClearArg
<1>2. SoFar(c, k, c.mode)
  <2>1. c.mode \in Seq(Modes) /\ IsInjective(c.mode)  BY DEF ChanOK, ChanT
  <2> QED  BY <2>1, ClearAllOK
<1> HIDE DEF k
<1>3. /\ ChanOK(k, Every) /\ Kept(c, k) /\ k.out = c.out /\ k.bans = c.bans /\ k.amOp
      /\ ToSet(k.mode) = {}
  BY <1>2 DEF SoFar, Kept
<1>4. Answers(c, k, Every)  BY <1>3, AnswersOut
<1>5. "b" \notin Every  BY DEF Every, Modes
<1>6. Answers(k, d, Every)  BY <1>3, <1>5, FlushAnswers
<1>7. Flushed(d) /\ d.mode = k.mode  BY <1>3, FlushOK DEF Flushed, SameRest
<1>8. ASSUME NEW n \in NetT, NEW present \in SUBSET (Users \cup {Me}),
             Me \in Sent(c, n, present).op, NEW f \in Modes
      PROVE  f \in Sent(d, n, present).modes <=>
               f \in Sent(c, n, present).modes /\ f \notin ToSet(c.mode)
  <2> DEFINE A == Sent(c, n, present)
             B == Sent(d, n, present)
             q == k.queue
  <2>1. Sent(k, n, present) = A  BY <1>3 DEF Sent
  <2>2. ~Wants(q, "+", f, NoArg)  BY <1>2 DEF SoFar, Wants, About
  <2>3. Wants(q, "-", f, NoArg) <=> f \in ToSet(c.mode)
    <3>1. Wants(q, "-", f, NoArg) => f \in ToSet(c.mode)  BY <1>2 DEF SoFar, Wants, About
    <3>2. f \in ToSet(c.mode) => Wants(q, "-", f, NoArg)  BY <1>2 DEF SoFar
    <3> QED  BY <3>1, <3>2
  <2>4. Has(B, f, NoArg) <=>
          Wants(q, "+", f, NoArg) \/ (Has(A, f, NoArg) /\ ~Wants(q, "-", f, NoArg))
    BY <1>3, <1>8, <2>1, <2>2, FlushHas
  <2>5. \A m : Has(m, f, NoArg) <=> f \in m.modes  BY DEF Has, Modes
  <2> HIDE DEF A, B, q
  <2> QED  BY <2>2, <2>3, <2>4, <2>5 DEF A, B
<1> HIDE DEF d
<1>9. Answers(c, d, Every)  BY <1>4, <1>6, AnswersTrans
<1> QED  BY <1>1, <1>3, <1>7, <1>8, <1>9

-----------------------------------------------------------------------------
(* The invariant.  Between two handlers only changes of ops wait, asked    *)
(* for by the service as a client; nothing is half sent.                   *)

Between(c, n) ==
  /\ ChanOK(c, {"o"}) /\ c.out = <<>>
  /\ n \in NetT /\ n.bans \subseteq Users
  /\ ~c.exists => c = DelChannel /\ n = Nobody
Good == Between(chan, net) /\ flushes \in BOOLEAN /\ getops \in BOOLEAN

\* What the structure is right about.
RightBans(c, n) == {m \in Users : m \in c.bans <=> m \in n.bans}
RightModes(c, n) == {f \in Modes : f \in ToSet(c.mode) <=> f \in n.modes}

\* It stays right about it, but for the modes L, when the service is op at the end.
Stays(c, n, L) ==
  chan'.on /\ chan'.amOp /\ Me \in net'.op =>
    /\ RightBans(c, n) \subseteq RightBans(chan', net')
    /\ RightModes(c, n) \ L \subseteq RightModes(chan', net')

\* What was written so far changes neither the service's op nor a ban nor a mode
\* that is not in L.
Clean(c, n, L) ==
  \A present \in SUBSET (Users \cup {Me}) :
    /\ Sent(c, n, present).bans = n.bans
    /\ Me \in Sent(c, n, present).op <=> Me \in n.op
    /\ \A f \in Modes \ L : f \in Sent(c, n, present).modes <=> f \in n.modes

LEMMA CleanOut ==
  ASSUME NEW c, NEW n \in NetT, NEW L, c.out = <<>>
  PROVE  Clean(c, n, L)
<1>1. \A present \in SUBSET (Users \cup {Me}) : Sent(c, n, present) = n  BY SentNone
<1> QED  BY <1>1 DEF Clean

LEMMA CleanSame ==
  ASSUME NEW c, NEW d, NEW n \in NetT, c.out = <<>>, SentSame(c, d)
  PROVE  Clean(d, n, Heeds)
<1>1. Clean(c, n, Heeds)  BY CleanOut
<1>2. Modes \ Heeds = {"k", "i"}  BY DEF Modes, Heeds
<1> QED  BY <1>1, <1>2 DEF Clean, SentSame

LEMMA PresentType ==
  ASSUME NEW c \in ChanT
  PROVE  Present(c) \in SUBSET (Users \cup {Me})
BY DEF Present, ChanT

\* A handler that found the structure as c and the network as n, and leaves d.
LEMMA TurnAnswers ==
  ASSUME NEW c, NEW n \in NetT, n.bans \subseteq Users, NEW L, Clean(c, n, L),
         NEW d, Answers(c, d, L), ChanOK(d, {"o"}),
         c.exists \/ (d = DelChannel /\ n = Nobody),
         \A f \in Modes \ L : f \in ToSet(d.mode) <=> f \in ToSet(c.mode),
         Turn(d, n)
  PROVE  Between(chan', net') /\ Stays(c, n, L)
<1> DEFINE P == Present(d)
           A == Sent(c, n, P)
           B == Sent(d, n, P)
           e == [d EXCEPT !.out = <<>>]
<1>1. d \in ChanT /\ P \in SUBSET (Users \cup {Me})  BY PresentType DEF ChanOK
<1>2. chan' = e /\ net' = B  BY DEF Turn, Sent
<1>3. <<>> \in Seq(Line)  OBVIOUS
<1>4. /\ e \in ChanT /\ e.out = <<>> /\ e.queue = d.queue /\ e.mode = d.mode /\ e.bans = d.bans
      /\ e.chanop = d.chanop /\ e.users = d.users /\ e.on = d.on /\ e.amOp = d.amOp
      /\ e.exists = d.exists
  BY <1>1, <1>3 DEF ChanT
<1>5. ChanOK(e, {"o"})
  <2> HIDE DEF e
  <2> QED  BY <1>4 DEF ChanOK
<1>6. d.out \in Seq(Line)  BY <1>1 DEF ChanT
<1> HIDE DEF P
<1>7. B \in NetT  BY <1>1, <1>6, SentType
<1>8. /\ A.bans = n.bans
      /\ Me \in A.op <=> Me \in n.op
      /\ \A f \in Modes \ L : f \in A.modes <=> f \in n.modes
  BY <1>1 DEF Clean
<1>9. /\ Me \in B.op <=> Me \in A.op
      /\ B.bans \subseteq A.bans \cup Users
      /\ \A f \in Modes \ L : f \in B.modes <=> f \in A.modes
      /\ Me \in A.op => \A m \in Users : (m \in c.bans <=> m \in A.bans) => (m \in d.bans <=> m \in B.bans)
  BY <1>1 DEF Answers
<1>10. ~e.exists => e = DelChannel /\ B = Nobody
  <2>1. ASSUME ~e.exists  PROVE d = DelChannel /\ n = Nobody  BY <1>4, <2>1 DEF Answers, Kept
  <2>2. ASSUME d = DelChannel, n = Nobody  PROVE e = DelChannel /\ B = Nobody
    <3>1. d.out = <<>>  BY <2>2, DelChannelType
    <3>2. B = n  BY <1>1, <3>1, SentNone
    <3>3. e = DelChannel  BY <2>2 DEF DelChannel
    <3> QED  BY <2>2, <3>2, <3>3
  <2> QED  BY <2>1, <2>2
<1> HIDE DEF A, B, e
<1>11. B.bans \subseteq Users  BY <1>8, <1>9
<1>12. Between(e, B)  BY <1>4, <1>5, <1>7, <1>10, <1>11 DEF Between
<1>13. ASSUME Me \in B.op  PROVE RightBans(c, n) \subseteq RightBans(e, B)
  <2>1. \A m \in Users : (m \in c.bans <=> m \in n.bans) => (m \in d.bans <=> m \in B.bans)
    BY <1>8, <1>9, <1>13
  <2> QED  BY <1>4, <2>1 DEF RightBans
<1>14. RightModes(c, n) \ L \subseteq RightModes(e, B)  BY <1>4, <1>8, <1>9 DEF RightModes
<1> QED  BY <1>2, <1>12, <1>13, <1>14 DEF Stays

\* A handler that writes, or has written, nothing of bans or of the modes not in L.
LEMMA TurnKeeps ==
  ASSUME NEW c, NEW n \in NetT, n.bans \subseteq Users, NEW L,
         NEW d, ChanOK(d, {"o"}), d.exists, d.bans = c.bans, ToSet(d.mode) = ToSet(c.mode),
         \A present \in SUBSET (Users \cup {Me}) :
           /\ Sent(d, n, present).bans = n.bans
           /\ \A f \in Modes \ L : f \in Sent(d, n, present).modes <=> f \in n.modes,
         Turn(d, n)
  PROVE  Between(chan', net') /\ Stays(c, n, L)
<1> DEFINE P == Present(d)
           B == Sent(d, n, P)
           e == [d EXCEPT !.out = <<>>]
<1>1. d \in ChanT /\ P \in SUBSET (Users \cup {Me})  BY PresentType DEF ChanOK
<1>2. chan' = e /\ net' = B  BY DEF Turn, Sent
<1>3. <<>> \in Seq(Line)  OBVIOUS
<1>4. /\ e \in ChanT /\ e.out = <<>> /\ e.queue = d.queue /\ e.mode = d.mode /\ e.bans = d.bans
      /\ e.chanop = d.chanop /\ e.users = d.users /\ e.exists = d.exists
  BY <1>1, <1>3 DEF ChanT
<1> HIDE DEF e
<1>5. ChanOK(e, {"o"})  BY <1>4 DEF ChanOK
<1>6. d.out \in Seq(Line)  BY <1>1 DEF ChanT
<1> HIDE DEF P
<1>7. B \in NetT  BY <1>1, <1>6, SentType
<1>8. B.bans = n.bans /\ \A f \in Modes \ L : f \in B.modes <=> f \in n.modes  BY <1>1
<1> HIDE DEF B
<1>9. Between(e, B)  BY <1>4, <1>5, <1>7, <1>8 DEF Between
<1>10. RightBans(c, n) \subseteq RightBans(e, B)  BY <1>4, <1>8 DEF RightBans
<1>11. RightModes(c, n) \ L \subseteq RightModes(e, B)  BY <1>4, <1>8 DEF RightModes
<1> QED  BY <1>2, <1>9, <1>10, <1>11 DEF Stays

\* What a handler that finds the structure between two others makes of it.
LEMMA SimpleTurn ==
  ASSUME Good, NEW d, Answers(chan, d, {"o"}), chan.exists \/ d = chan,
         d.mode = chan.mode, Turn(d, net)
  PROVE  Between(chan', net') /\ Stays(chan, net, {"o"})
<1>1. Between(chan, net)  BY DEF Good
<1>2. Clean(chan, net, {"o"})  BY <1>1, CleanOut DEF Between
<1>3. chan.exists \/ (d = DelChannel /\ net = Nobody)  BY <1>1 DEF Between
<1>4. ChanOK(d, {"o"})  BY DEF Answers
<1> QED  BY <1>1, <1>2, <1>3, <1>4, TurnAnswers DEF Between

LEMMA Exists ==
  ASSUME Good
  PROVE  /\ chan.on \/ chan.users # {} => chan.exists
         /\ Answering({"o"}) /\ ChanOK(chan, {"o"})
<1>1. ~DelChannel.on /\ DelChannel.users = {}  BY DEF DelChannel
<1> QED  BY <1>1 DEF Good, Between, Answering, Heeds

LEMMA LoginOpStep ==
  ASSUME Good, NEW u \in Users, NEW shit, LoginOp(u, shit)
  PROVE  Between(chan', net') /\ Stays(chan, net, {"o"})
<1> DEFINE d == OpNick(chan, u, shit)
<1>1. Turn(d, net) /\ chan.on  BY DEF LoginOp
<1>2. Nudged(chan, chan, {"o"})  BY Exists DEF Nudged, SameRest
<1>3. Nudged(chan, d, {"o"})  BY <1>2, Exists, NudgeOne
<1> HIDE DEF d
<1>4. Answers(chan, d, {"o"}) /\ d.mode = chan.mode  BY <1>3, NudgedAnswers
<1> QED  BY <1>1, <1>4, Exists, SimpleTurn

LEMMA ListsType ==
  ASSUME Good, NEW list \in Lists
  PROVE  list \in Seq(Users) /\ UpToService(list) \in Seq(Users)
<1>1. chan.users \subseteq Users  BY DEF Good, Between, ChanOK, ChanT
<1>2. list \in Seq(Users)
  <2>1. CASE list \in {<<u>> : u \in Users}
    <3>1. PICK u \in Users : list = <<u>>  BY <2>1
    <3> QED  BY <3>1
  <2>2. CASE list \in SetToSeqs(chan.users)
    <3> DEFINE n == Cardinality(chan.users)
    <3>1. IsFiniteSet(chan.users)  BY <1>1, ModesOK, FS_Subset
    <3>2. n \in Nat  BY <3>1, FS_CardinalityType
    <3>3. list \in [1..n -> chan.users]  BY <2>2 DEF SetToSeqs
    <3> HIDE DEF n
    <3> QED  BY <1>1, <3>2, <3>3
  <2> QED  BY <2>1, <2>2 DEF Lists
<1> DEFINE I == {i \in 1..Len(list) : list[i] \in chan.users \cap Services}
           j == SelectInSeq(list, LAMBDA u : u \in chan.users \cap Services)
<1>3. j = IF I # {} THEN Min(I) ELSE 0  BY DEF SelectInSeq
<1>4. CASE I = {}  BY <1>2, <1>3, <1>4 DEF UpToService
<1>5. CASE I # {}
  <2>1. I \in SUBSET Nat /\ I \subseteq 1..Len(list) /\ Len(list) \in Nat  BY <1>2
  <2>2. PICK m \in I : \A k \in I : ~ (k < m)  BY <1>5, <2>1, Least
  <2>3. \A k \in I : m <= k  BY <2>1, <2>2
  <2>4. Min(I) \in I  BY <2>2, <2>3 DEF Min
  <2>5. j \in 1..Len(list)  BY <1>3, <1>5, <2>1, <2>4
  <2>6. UpToService(list) = SubSeq(list, 1, j - 1)
    <3>1. UpToService(list) = IF j = 0 THEN list ELSE SubSeq(list, 1, j - 1)  BY DEF UpToService
    <3> HIDE DEF j
    <3>2. j # 0  BY <2>1, <2>5
    <3> QED  BY <3>1, <3>2
  <2> HIDE DEF j, I
  <2>7. SubSeq(list, 1, j - 1) \in Seq(Users)  BY <1>2, <2>5
  <2> QED  BY <1>2, <2>6, <2>7
<1> QED  BY <1>4, <1>5

LEMMA OpStep ==
  ASSUME Good, NEW list \in Lists, NEW shit, Op(list, shit)
  PROVE  Between(chan', net') /\ Stays(chan, net, {"o"})
<1> DEFINE d == OpAll(chan, list, shit)
<1>1. Turn(d, net) /\ chan.on  BY DEF Op, OpAll
<1>2. Nudged(chan, d, {"o"})  BY ListsType, Exists, OpAllNudges
<1> HIDE DEF d
<1>3. Answers(chan, d, {"o"}) /\ d.mode = chan.mode  BY <1>2, NudgedAnswers
<1> QED  BY <1>1, <1>3, Exists, SimpleTurn

LEMMA DeopStep ==
  ASSUME Good, NEW list \in Lists, Deop(list)
  PROVE  Between(chan', net') /\ Stays(chan, net, {"o"})
<1> DEFINE to == UpToService(list)
           d == DeopAll(chan, to)
<1>1. Turn(d, net) /\ chan.on  BY DEF Deop, DeopAll
<1>2. to \in Seq(Users)  BY ListsType
<1> HIDE DEF to
<1>3. Nudged(chan, d, {"o"})  BY <1>2, Exists, DeopAllNudges
<1> HIDE DEF d
<1>4. Answers(chan, d, {"o"}) /\ d.mode = chan.mode  BY <1>3, NudgedAnswers
<1> QED  BY <1>1, <1>4, Exists, SimpleTurn

LEMMA NickFloodStep ==
  ASSUME Good, NEW u \in Users, NickFlood(u)
  PROVE  Between(chan', net') /\ Stays(chan, net, {"o"})
<1> DEFINE d == Flooded(chan, u)
<1>1. Turn(d, net) /\ chan.on  BY DEF NickFlood, Flooded
<1> HIDE DEF d
<1>2. Answers(chan, d, {"o"}) /\ d.mode = chan.mode  BY <1>1, Exists, FloodedAnswers DEF d
<1> QED  BY <1>1, <1>2, Exists, SimpleTurn

LEMMA BanClientStep ==
  ASSUME Good, NEW u \in Users, BanClient(u)
  PROVE  Between(chan', net') /\ Stays(chan, net, {"o"})
<1> DEFINE d == Mban(chan, u)
<1>1. Turn(d, net) /\ chan.exists  BY DEF BanClient
<1>2. Answers(chan, d, {"o"}) /\ d.mode = chan.mode  BY Exists, MbanAnswers
<1> HIDE DEF d
<1> QED  BY <1>1, <1>2, SimpleTurn

LEMMA UnbanClientStep ==
  ASSUME Good, NEW u \in Users, UnbanClient(u)
  PROVE  Between(chan', net') /\ Stays(chan, net, {"o"})
<1> DEFINE d == Unban(chan, u)
<1>1. Turn(d, net) /\ chan.exists  BY DEF UnbanClient
<1>2. Answers(chan, d, {"o"}) /\ d.mode = chan.mode  BY Exists, UnbanAnswers
<1> HIDE DEF d
<1> QED  BY <1>1, <1>2, SimpleTurn

LEMMA FlushTimerStep ==
  ASSUME Good, FlushTimer
  PROVE  Between(chan', net') /\ Stays(chan, net, {"o"})
<1> DEFINE d == FlushMode(chan)
<1>1. Turn(d, net)  BY DEF FlushTimer
<1>2. "b" \notin {"o"}  OBVIOUS
<1>3. Answers(chan, d, {"o"})  BY <1>2, Exists, FlushAnswers
<1>4. d.mode = chan.mode  BY Exists, FlushOK DEF SameRest
<1>5. ~chan.exists => d = chan
  <2>1. ~chan.exists => chan.queue = <<>>  BY DelChannelType DEF Good, Between
  <2> QED  BY <2>1 DEF FlushMode
<1> HIDE DEF d
<1> QED  BY <1>1, <1>3, <1>4, <1>5, SimpleTurn

\* Asking the server for one's op touches no ban and no mode.
LEMMA GetOpsTurn ==
  ASSUME Good, NEW c, ChanOK(c, {"o"}), c.out = <<>>, c.exists, c.bans = chan.bans,
         c.mode = chan.mode, Turn(GetOps(c), net)
  PROVE  Between(chan', net') /\ Stays(chan, net, {"o"})
<1> DEFINE d == GetOps(c)
<1>1. Answering({"o"})  BY Exists
<1>2. /\ Flushed(d) /\ Kept(c, d) /\ d.mode = c.mode /\ d.bans = c.bans
      /\ \A n \in NetT, present \in SUBSET (Users \cup {Me}) :
           /\ Sent(d, n, present).bans = Sent(c, n, present).bans
           /\ \A f \in Modes \ {"o"} :
                f \in Sent(d, n, present).modes <=> f \in Sent(c, n, present).modes
  BY <1>1, GetOpsOK
<1>3. net \in NetT /\ net.bans \subseteq Users  BY DEF Good, Between
<1>4. Turn(d, net)  OBVIOUS
<1> HIDE DEF d
<1>5. ChanOK(d, {"o"}) /\ d.exists  BY <1>2 DEF Flushed, Kept
<1>6. \A present \in SUBSET (Users \cup {Me}) : Sent(c, net, present) = net
  BY <1>3, SentNone
<1>7. \A present \in SUBSET (Users \cup {Me}) :
        /\ Sent(d, net, present).bans = net.bans
        /\ \A f \in Modes \ {"o"} : f \in Sent(d, net, present).modes <=> f \in net.modes
  BY <1>2, <1>3, <1>6
<1> QED  BY <1>2, <1>3, <1>4, <1>5, <1>7, TurnKeeps

LEMMA GetOpsTimerStep ==
  ASSUME Good, GetOpsTimer
  PROVE  Between(chan', net') /\ Stays(chan, net, {"o"})
<1>1. CASE Turn(chan, net)
  <2>1. Answers(chan, chan, {"o"})  BY Exists, AnswersSame
  <2> QED  BY <1>1, <2>1, SimpleTurn
<1>2. CASE Turn(GetOps(chan), net) /\ chan.on  BY <1>2, Exists, GetOpsTurn DEF Good, Between
<1> QED  BY <1>1, <1>2 DEF GetOpsTimer

LEMMA SetFlagStep ==
  ASSUME Good, NEW f \in Settable, NEW value \in BOOLEAN, SetFlag(f, value)
  PROVE  Between(chan', net') /\ Stays(chan, net, {"o"})
<1> DEFINE flags == IF value THEN chan.flags \cup {f} ELSE chan.flags \ {f}
           c == [chan EXCEPT !.flags = flags]
           done == CASE f = "NOOP" /\ value -> MassDeop(c)
                     [] f = "ALWAYSOP" /\ value /\ ~c.amOp -> GetOps(c)
                     [] OTHER -> c
<1>1. chan.exists /\ Turn(done, net)  BY DEF SetFlag
<1>2. Between(chan, net)  BY DEF Good
<1>3. f \in Flags  BY ModesOK
<1>4. flags \subseteq Flags  BY <1>2, <1>3 DEF Between, ChanOK, ChanT
<1> HIDE DEF flags
<1>5. /\ c \in ChanT /\ c.exists /\ c.bans = chan.bans /\ c.mode = chan.mode /\ c.out = <<>>
      /\ c.queue = chan.queue /\ c.chanop = chan.chanop /\ c.users = chan.users
  BY <1>1, <1>2, <1>4 DEF Between, ChanOK, ChanT
<1> HIDE DEF c
<1>6. ChanOK(c, {"o"})  BY <1>2, <1>5 DEF Between, ChanOK
<1>7. \A d : Answers(c, d, {"o"}) /\ d.mode = c.mode /\ Turn(d, net) =>
               Between(chan', net') /\ Stays(chan, net, {"o"})
  <2> TAKE d
  <2> HAVE Answers(c, d, {"o"}) /\ d.mode = c.mode /\ Turn(d, net)
  <2>1. Clean(c, net, {"o"})  BY <1>2, <1>5, CleanOut DEF Between
  <2>2. ChanOK(d, {"o"})  BY DEF Answers
  <2>3. Between(chan', net') /\ Stays(c, net, {"o"})
    BY <1>2, <1>5, <2>1, <2>2, TurnAnswers DEF Between
  <2>4. RightBans(c, net) = RightBans(chan, net) /\ RightModes(c, net) = RightModes(chan, net)
    BY <1>5 DEF RightBans, RightModes
  <2> QED  BY <2>3, <2>4 DEF Stays
<1>8. CASE done = MassDeop(c)
  <2>1. Answers(c, MassDeop(c), {"o"}) /\ MassDeop(c).mode = c.mode
    BY <1>6, Exists, MassDeopAnswers
  <2> QED  BY <1>1, <1>7, <1>8, <2>1
<1>9. CASE done = GetOps(c)
  <2>1. Turn(GetOps(c), net)  BY <1>1, <1>9
  <2> QED  BY <1>5, <1>6, <2>1, GetOpsTurn
<1>10. CASE done = c
  <2>1. Answers(c, c, {"o"})  BY <1>6, AnswersSame
  <2> QED  BY <1>1, <1>7, <1>10, <2>1
<1> QED  BY <1>8, <1>9, <1>10

LEMMA ClearModeStep ==
  ASSUME Good, ClearMode
  PROVE  Between(chan', net') /\ Stays(chan, net, {"o"})
<1> DEFINE d == ClearModes(chan)
           P == Present(d)
<1>1. Turn(d, net) /\ chan.on /\ chan.amOp  BY DEF ClearMode
<1>2. Between(chan, net) /\ ChanOK(chan, {"o"}) /\ chan.exists  BY <1>1, Exists DEF Good
<1>3. /\ Answers(chan, d, Every) /\ Flushed(d) /\ ToSet(d.mode) = {}
      /\ \A n \in NetT, present \in SUBSET (Users \cup {Me}) :
           Me \in Sent(chan, n, present).op =>
             \A f \in Modes : f \in Sent(d, n, present).modes <=>
                                f \in Sent(chan, n, present).modes /\ f \notin ToSet(chan.mode)
  BY <1>1, <1>2, ClearModesOK
<1> HIDE DEF d
<1>4. Clean(chan, net, Every)  BY <1>2, CleanOut DEF Between
<1>5. Modes \ Every = {} /\ ChanOK(d, {"o"})  BY <1>3 DEF Every, Flushed
<1>6. Between(chan', net') /\ Stays(chan, net, Every)
  BY <1>1, <1>2, <1>3, <1>4, <1>5, TurnAnswers DEF Between
<1>7. net' = Sent(d, net, P) /\ chan' = [d EXCEPT !.out = <<>>]  BY <1>1 DEF Turn, Sent
<1>8. P \in SUBSET (Users \cup {Me}) /\ d \in ChanT  BY <1>5, PresentType DEF ChanOK
<1>9. ToSet(chan'.mode) = {}
  <2>1. chan'.mode = d.mode  BY <1>7, <1>8 DEF ChanT
  <2> QED  BY <1>3, <2>1
<1> HIDE DEF P
<1>10. Sent(chan, net, P) = net  BY <1>2, <1>8, SentNone DEF Between
<1>11. Me \in net'.op => \A f \in Modes : f \in net'.modes <=> f \in net.modes /\ f \notin ToSet(chan.mode)
  <2>1. net \in NetT  BY <1>2 DEF Between
  <2>2. Me \in Sent(d, net, P).op <=> Me \in net.op  BY <1>3, <1>8, <1>10, <2>1 DEF Answers
  <2> QED  BY <1>3, <1>7, <1>8, <1>10, <2>1, <2>2
<1>12. Me \in net'.op => RightModes(chan, net) \subseteq RightModes(chan', net')
  BY <1>9, <1>11 DEF RightModes
<1> QED  BY <1>6, <1>12 DEF Stays

LEMMA TurnOn ==
  ASSUME NEW d \in ChanT, NEW n, Turn(d, n)
  PROVE  chan'.on = d.on /\ chan'.amOp = d.amOp
BY DEF Turn, ChanT

\* Somebody comes, and may be banned or given op at once.
LEMMA ClientJoinsStep ==
  ASSUME Good, NEW u \in Users, NEW isOp \in BOOLEAN, NEW quiet \in BOOLEAN, NEW shit,
         ClientJoins(u, isOp, quiet, shit)
  PROVE  Between(chan', net') /\ Stays(chan, net, {"o"})
<1> DEFINE c == IF chan.exists THEN chan ELSE NewChannel(FALSE)
           users == c.users \cup {u}
           chanop == IF isOp THEN c.chanop \cup {u} ELSE c.chanop
           j == [c EXCEPT !.users = users, !.chanop = chanop]
           n == IF isOp THEN [net EXCEPT !.op = net.op \cup {u}] ELSE net
<1>1. Between(chan, net)  BY DEF Good
<1>2. /\ c \in ChanT /\ ChanOK(c, {"o"}) /\ c.out = <<>> /\ c.exists
      /\ ~chan.exists => ~c.on
  BY <1>1, NewChannelOff DEF Between, ChanOK, Fresh, Flushed
<1>3. PICK d : /\ Turn(d, n)
               /\ d = Mban(j, u) \/ d = OpNick(j, u, shit) \/ d = j
  BY DEF ClientJoins
<1>4. chan.exists => c = chan  OBVIOUS
<1> HIDE DEF c
<1>5. users \subseteq Users /\ chanop \subseteq Users /\ chanop \subseteq users
  BY <1>2 DEF ChanOK, ChanT
<1> HIDE DEF users, chanop
<1>6. /\ j \in ChanT /\ j.users = users /\ j.chanop = chanop /\ j.queue = c.queue /\ j.mode = c.mode
      /\ j.bans = c.bans /\ j.out = <<>> /\ j.exists /\ j.on = c.on
  BY <1>2, <1>5 DEF ChanT
<1> HIDE DEF j
<1>7. ChanOK(j, {"o"})  BY <1>2, <1>5, <1>6 DEF ChanOK
<1>8. n \in NetT /\ n.bans = net.bans /\ n.modes = net.modes
  <2>1. net \in NetT  BY <1>1 DEF Between
  <2> QED  BY <2>1 DEF NetT
<1> HIDE DEF n
<1>9. Answers(j, d, {"o"}) /\ d.mode = j.mode
  <2>1. Answering({"o"})  BY Exists
  <2>2. CASE d = Mban(j, u)  BY <1>7, <2>1, <2>2, MbanAnswers
  <2>3. CASE d = OpNick(j, u, shit)
    <3>1. Nudged(j, j, {"o"})  BY <1>7 DEF Nudged, SameRest
    <3>2. Nudged(j, OpNick(j, u, shit), {"o"})  BY <2>1, <3>1, NudgeOne
    <3> QED  BY <2>3, <3>2, NudgedAnswers
  <2>4. CASE d = j  BY <1>7, <2>4, AnswersSame
  <2> QED  BY <1>3, <2>2, <2>3, <2>4
<1>10. Clean(j, n, {"o"})  BY <1>6, <1>8, CleanOut
<1>11. ChanOK(d, {"o"}) /\ d \in ChanT /\ d.on = j.on  BY <1>9 DEF Answers, ChanOK, Kept
<1>12. Between(chan', net') /\ Stays(j, n, {"o"})
  <2>1. n.bans \subseteq Users  BY <1>1, <1>8 DEF Between
  <2> QED  BY <1>3, <1>6, <1>8, <1>9, <1>10, <1>11, <2>1, TurnAnswers
<1>13. CASE chan.exists
  <2>1. RightBans(j, n) = RightBans(chan, net) /\ RightModes(j, n) = RightModes(chan, net)
    BY <1>4, <1>6, <1>8, <1>13 DEF RightBans, RightModes
  <2> QED  BY <1>12, <2>1 DEF Stays
<1>14. CASE ~chan.exists
  <2>1. ~chan'.on  BY <1>2, <1>3, <1>6, <1>11, <1>14, TurnOn
  <2> QED  BY <1>12, <2>1 DEF Stays
<1> QED  BY <1>13, <1>14

LEMMA LeaveOK ==
  ASSUME NEW c, ChanOK(c, {"o"}), c.out = <<>>, c.exists,
         NEW n \in NetT, n.bans \subseteq Users, Leave(c, n)
  PROVE  Between(chan', net') /\ Stays(c, n, {"o"})
<1>1. CASE Turn(c, n)
  <2>1. Answers(c, c, {"o"}) /\ Clean(c, n, {"o"})  BY AnswersSame, CleanOut
  <2> QED  BY <1>1, <2>1, TurnAnswers
<1>2. CASE chan' = DelChannel /\ net' = Nobody
  <2>1. Nobody \in NetT /\ Nobody.bans \subseteq Users  BY DEF Nobody, NetT
  <2>2. ChanOK(DelChannel, {"o"}) /\ DelChannel.out = <<>>  BY DelChannelType DEF Flushed
  <2>3. Between(DelChannel, Nobody)  BY <2>1, <2>2 DEF Between
  <2>4. ~DelChannel.on  BY DEF DelChannel
  <2> QED  BY <1>2, <2>3, <2>4 DEF Stays
<1> QED  BY <1>1, <1>2 DEF Leave

LEMMA ClientLeavesStep ==
  ASSUME Good, NEW u \in Users, ClientLeaves(u)
  PROVE  Between(chan', net') /\ Stays(chan, net, {"o"})
<1> DEFINE users == chan.users \ {u}
           chanop == chan.chanop \ {u}
           c == [chan EXCEPT !.users = users, !.chanop = chanop]
           n == [net EXCEPT !.op = net.op \ {u}]
<1>1. Between(chan, net) /\ chan.exists /\ Leave(c, n)  BY Exists DEF Good, ClientLeaves
<1>2. users \subseteq Users /\ chanop \subseteq Users /\ chanop \subseteq users
  BY <1>1 DEF Between, ChanOK, ChanT
<1> HIDE DEF users, chanop
<1>3. /\ c \in ChanT /\ c.users = users /\ c.chanop = chanop /\ c.queue = chan.queue
      /\ c.mode = chan.mode /\ c.bans = chan.bans /\ c.out = <<>> /\ c.exists
  BY <1>1, <1>2 DEF Between, ChanOK, ChanT
<1> HIDE DEF c
<1>4. ChanOK(c, {"o"})  BY <1>1, <1>2, <1>3 DEF Between, ChanOK
<1>5. n \in NetT /\ n.bans = net.bans /\ n.modes = net.modes /\ net.bans \subseteq Users
  BY <1>1 DEF Between, NetT
<1> HIDE DEF n
<1>6. Between(chan', net') /\ Stays(c, n, {"o"})  BY <1>1, <1>3, <1>4, <1>5, LeaveOK
<1>7. RightBans(c, n) = RightBans(chan, net) /\ RightModes(c, n) = RightModes(chan, net)
  BY <1>3, <1>5 DEF RightBans, RightModes
<1> QED  BY <1>6, <1>7 DEF Stays

LEMMA PartStep ==
  ASSUME Good, Part
  PROVE  Between(chan', net') /\ Stays(chan, net, {"o"})
<1> DEFINE c == [chan EXCEPT !.on = FALSE, !.amOp = FALSE]
           n == [net EXCEPT !.op = net.op \ {Me}]
<1>1. Between(chan, net) /\ chan.exists /\ Leave(c, n)  BY DEF Good, Part
<1>2. /\ c \in ChanT /\ c.users = chan.users /\ c.chanop = chan.chanop /\ c.queue = chan.queue
      /\ c.mode = chan.mode /\ c.bans = chan.bans /\ c.out = <<>> /\ c.exists
  BY <1>1 DEF Between, ChanOK, ChanT
<1> HIDE DEF c
<1>3. ChanOK(c, {"o"})  BY <1>1, <1>2 DEF Between, ChanOK
<1>4. n \in NetT /\ n.bans = net.bans /\ n.modes = net.modes /\ net.bans \subseteq Users
  BY <1>1 DEF Between, NetT
<1> HIDE DEF n
<1>5. Between(chan', net') /\ Stays(c, n, {"o"})  BY <1>1, <1>2, <1>3, <1>4, LeaveOK
<1>6. RightBans(c, n) = RightBans(chan, net) /\ RightModes(c, n) = RightModes(chan, net)
  BY <1>2, <1>4 DEF RightBans, RightModes
<1> QED  BY <1>5, <1>6 DEF Stays

\* A limit of the default list is believed to be set and never is.
Unset == {"o"} \cup ({"l"} \cap ToSet(DefModes))

LEMMA JoinStep ==
  ASSUME Good, Join
  PROVE  Between(chan', net') /\ Stays(chan, net, Unset)
<1>1. Between(chan, net)  BY DEF Good
<1>2. CASE chan.exists
  <2> DEFINE c == [chan EXCEPT !.on = TRUE]
  <2>1. Turn(c, net)  BY <1>2 DEF Join
  <2>2. /\ c \in ChanT /\ c.users = chan.users /\ c.chanop = chan.chanop /\ c.queue = chan.queue
        /\ c.mode = chan.mode /\ c.bans = chan.bans /\ c.out = <<>> /\ c.exists
    BY <1>1, <1>2 DEF Between, ChanOK, ChanT
  <2> HIDE DEF c
  <2>3. ChanOK(c, {"o"})  BY <1>1, <2>2 DEF Between, ChanOK
  <2>4. Answers(c, c, {"o"}) /\ Clean(c, net, {"o"})
    BY <1>1, <2>2, <2>3, AnswersSame, CleanOut DEF Between
  <2>5. Between(chan', net') /\ Stays(c, net, {"o"})
    BY <1>1, <2>1, <2>2, <2>3, <2>4, TurnAnswers DEF Between
  <2>6. RightBans(c, net) = RightBans(chan, net) /\ RightModes(c, net) = RightModes(chan, net)
    BY <2>2 DEF RightBans, RightModes
  <2> QED  BY <2>5, <2>6 DEF Stays, Unset
<1>3. CASE ~chan.exists
  <2> DEFINE d == NewChannel(TRUE)
             n == [net EXCEPT !.op = {Me}]
             P == Present(d)
  <2>1. Turn(d, n)  BY <1>3 DEF Join
  <2>2. /\ Fresh(d) /\ d.on /\ d.amOp
        /\ \A m \in NetT, present \in SUBSET (Users \cup {Me}) :
             /\ Sent(d, m, present) \in NetT
             /\ Sent(d, m, present).bans = m.bans
             /\ \A f \in Modes : f \in Sent(d, m, present).modes <=>
                                   f \in m.modes \/ (f # "l" /\ f \in ToSet(DefModes))
    BY NewChannelOK
  <2> HIDE DEF d
  <2>3. chan = DelChannel /\ net = Nobody  BY <1>1, <1>3 DEF Between
  <2>4. n \in NetT /\ n.bans = {} /\ n.modes = {}  BY <2>3 DEF Nobody, NetT
  <2> HIDE DEF n
  <2>5. d \in ChanT /\ ChanOK(d, {"o"}) /\ d.exists /\ d.bans = {} /\ d.mode = DefModes
    BY <2>2 DEF Fresh, Flushed, ChanOK
  <2>6. \A present \in SUBSET (Users \cup {Me}) :
          /\ Sent(d, n, present).bans = n.bans
          /\ \A f \in Modes \ Modes : f \in Sent(d, n, present).modes <=> f \in n.modes
    BY <2>2, <2>4
  <2>7. Between(chan', net') /\ Stays(d, n, Modes)
    BY <2>1, <2>4, <2>5, <2>6, TurnKeeps
  <2>8. RightBans(chan, net) = RightBans(d, n)
    BY <2>3, <2>4, <2>5 DEF RightBans, DelChannel, Nobody
  <2>9. P \in SUBSET (Users \cup {Me})  BY <2>5, PresentType
  <2>10. net' = Sent(d, n, P) /\ chan'.mode = DefModes
    <3>1. chan' = [d EXCEPT !.out = <<>>]  BY <2>1 DEF Turn
    <3>2. chan'.mode = d.mode  BY <2>5, <3>1 DEF ChanT
    <3> QED  BY <2>1, <2>5, <3>2 DEF Turn, Sent
  <2> HIDE DEF P
  <2>11. \A f \in Modes : f \in net'.modes <=> f # "l" /\ f \in ToSet(DefModes)
    BY <2>2, <2>4, <2>9, <2>10
  <2>12. Modes \ Unset \subseteq RightModes(chan', net')
    BY <2>10, <2>11 DEF Unset, RightModes
  <2> QED  BY <2>7, <2>8, <2>12 DEF Stays, RightModes
<1> QED  BY <1>2, <1>3

-----------------------------------------------------------------------------
(* A limit below 2 is taken away as soon as the service hears of it: its   *)
(* queue, or what it has written, is part of what the network will be.     *)

\* Of the limit nothing waits and nothing was written.
Alone(e) ==
  /\ \A sign, x : ~Wants(e.queue, sign, "l", x)
  /\ \A n \in NetT, present \in SUBSET (Users \cup {Me}) :
       /\ Me \in Sent(e, n, present).op <=> Me \in n.op
       /\ "l" \in Sent(e, n, present).modes <=> "l" \in n.modes

\* It is being taken away, or was.
Cut(e) ==
  /\ e.on /\ e.amOp /\ "l" \notin ToSet(e.mode)
  /\ \A n \in NetT, present \in SUBSET (Users \cup {Me}) :
       /\ Me \in Sent(e, n, present).op <=> Me \in n.op
       /\ Me \in n.op => \/ Wants(e.queue, "-", "l", NoArg)
                         \/ "l" \notin Sent(e, n, present).modes

\* What is not about the limit changes neither.
Limit(c, d) ==
  /\ Alone(c) => Alone(d)
  /\ Cut(c) => Cut(d)
  /\ "l" \in ToSet(d.mode) <=> "l" \in ToSet(c.mode)

LEMMA LimitTrans ==
  ASSUME NEW c, NEW d, NEW e, Limit(c, d), Limit(d, e)
  PROVE  Limit(c, e)
BY DEF Limit

\* The queue may have other entries, if not of the limit.
LEMMA LimitOut ==
  ASSUME NEW c, NEW d, d.out = c.out, d.on = c.on, c.amOp => d.amOp,
         "l" \in ToSet(d.mode) <=> "l" \in ToSet(c.mode),
         \A sign, x : Wants(d.queue, sign, "l", x) <=> Wants(c.queue, sign, "l", x)
  PROVE  Limit(c, d)
<1>1. \A n, present : Sent(d, n, present) = Sent(c, n, present)  BY DEF Sent
<1>2. Alone(c) => Alone(d)  BY <1>1 DEF Alone
<1>3. Cut(c) => Cut(d)  BY <1>1 DEF Cut
<1> QED  BY <1>2, <1>3 DEF Limit

LEMMA LimitSame ==
  ASSUME NEW c, NEW d, d.out = c.out, d.on = c.on, c.amOp => d.amOp,
         "l" \in ToSet(d.mode) <=> "l" \in ToSet(c.mode), d.queue = c.queue
  PROVE  Limit(c, d)
BY LimitOut

\* A queue whose entries of the limit are sent.
LEMMA LimitFlush ==
  ASSUME NEW L, NEW c, ChanOK(c, L)
  PROVE  Limit(c, FlushMode(c)) /\ (c.amOp => FlushMode(c).amOp)
<1> DEFINE d == FlushMode(c)
<1>1. SameRest(c, d) /\ d.queue = <<>>  BY FlushOK
<1>2. \A sign, x : ~Wants(d.queue, sign, "l", x)  BY <1>1, ToSetEmpty DEF Wants
<1>3. ~Wants(c.queue, "+", "l", NoArg)  BY NotWanted
<1>4. "l" \in {"b"} \cup Modes /\ "l" \in Modes /\ "l" # "o" /\ "l" # "b"  BY DEF Modes
<1>5. ASSUME NEW n \in NetT, NEW present \in SUBSET (Users \cup {Me})
      PROVE  /\ Me \in Sent(d, n, present).op <=> Me \in Sent(c, n, present).op
             /\ c.amOp /\ Me \in Sent(c, n, present).op =>
                  ("l" \in Sent(d, n, present).modes <=>
                     "l" \in Sent(c, n, present).modes /\ ~Wants(c.queue, "-", "l", NoArg))
             /\ ~(c.amOp /\ Me \in Sent(c, n, present).op) =>
                  Sent(d, n, present) = Sent(c, n, present)
  <2> DEFINE A == Sent(c, n, present)
             B == Sent(d, n, present)
  <2>1. Me \in B.op <=> Me \in A.op  BY FlushMe
  <2>2. c.amOp /\ Me \in A.op =>
          (Has(B, "l", NoArg) <=> \/ Wants(c.queue, "+", "l", NoArg)
                                  \/ Has(A, "l", NoArg) /\ ~Wants(c.queue, "-", "l", NoArg))
    BY <1>3, <1>4, FlushHas
  <2>3. ~(c.amOp /\ Me \in A.op) => B = A  BY FlushSent
  <2> HIDE DEF A, B
  <2>4. \A m : Has(m, "l", NoArg) <=> "l" \in m.modes  BY <1>4 DEF Has
  <2> QED  BY <1>3, <2>1, <2>2, <2>3, <2>4 DEF A, B
<1> HIDE DEF d
<1>6. ASSUME Alone(c)  PROVE Alone(d)
  <2>1. \A n \in NetT, present \in SUBSET (Users \cup {Me}) :
          /\ Me \in Sent(d, n, present).op <=> Me \in n.op
          /\ "l" \in Sent(d, n, present).modes <=> "l" \in n.modes
    BY <1>5, <1>6 DEF Alone
  <2> QED  BY <1>2, <2>1 DEF Alone
<1>7. ASSUME Cut(c)  PROVE Cut(d)
  <2>1. d.on /\ d.amOp /\ "l" \notin ToSet(d.mode) /\ c.amOp  BY <1>1, <1>7 DEF Cut, SameRest
  <2>2. \A n \in NetT, present \in SUBSET (Users \cup {Me}) :
          /\ Me \in Sent(d, n, present).op <=> Me \in n.op
          /\ Me \in n.op => "l" \notin Sent(d, n, present).modes
    BY <1>5, <1>7, <2>1 DEF Cut
  <2> QED  BY <2>1, <2>2 DEF Cut
<1>8. ("l" \in ToSet(d.mode) <=> "l" \in ToSet(c.mode)) /\ (c.amOp => d.amOp)
  BY <1>1 DEF SameRest
<1> QED  BY <1>6, <1>7, <1>8 DEF Limit, d

\* An op or a ban that is asked for says nothing of the limit.
LEMMA LimitAsk ==
  ASSUME NEW c, NEW d, NEW e, Asked(c, d, e), e.letter # "l"
  PROVE  Limit(c, d)
<1>1. \A sign, x : Wants(d.queue, sign, "l", x) <=> Wants(c.queue, sign, "l", x)
  <2>1. CASE ~c.on  BY <2>1 DEF Asked
  <2>2. CASE c.on
    <3>1. ToSet(d.queue) = (ToSet(c.queue) \ Alike(c.queue, e)) \cup {e}  BY <2>2 DEF Asked
    <3>2. \A f : f.letter = "l" => (f \in ToSet(d.queue) <=> f \in ToSet(c.queue))
      BY <3>1 DEF Alike, Same
    <3> QED  BY <3>2 DEF Wants, About
  <2> QED  BY <2>1, <2>2
<1> QED  BY <1>1, LimitOut DEF Asked, SameRest

LEMMA LimitTake ==
  ASSUME NEW c, ChanOK(c, Heeds), NEW u \in Users
  PROVE  Limit(c, TakeOp(c, u)) /\ ChanOK(TakeOp(c, u), Heeds)
<1> DEFINE d == TakeOp(c, u)
           e == Ask("-", "o", u)
<1>1. "o" \in Heeds /\ "k" \notin Heeds  BY DEF Heeds
<1>2. /\ ChanOK(d, Heeds) /\ SameRest(c, d) /\ d.out = c.out
      /\ c.on => ToSet(d.queue) = (ToSet(c.queue) \ Alike(c.queue, e)) \cup {e}
      /\ ~c.on => d.queue = c.queue
  BY <1>1, TakeOpOK
<1>3. e.letter = "o"  BY DEF Ask
<1> HIDE DEF d, e
<1>4. \A sign, x : Wants(d.queue, sign, "l", x) <=> Wants(c.queue, sign, "l", x)
  <2>1. CASE ~c.on  BY <1>2, <2>1
  <2>2. CASE c.on
    <3>1. \A f : f.letter = "l" => (f \in ToSet(d.queue) <=> f \in ToSet(c.queue))
      BY <1>2, <1>3, <2>2 DEF Alike, Same
    <3> QED  BY <3>1 DEF Wants, About
  <2> QED  BY <2>1, <2>2
<1>5. Limit(c, d)  BY <1>2, <1>4, LimitOut DEF SameRest
<1> QED  BY <1>2, <1>5 DEF d

LEMMA LimitChanop ==
  ASSUME NEW c, ChanOK(c, Heeds), NEW S \in SUBSET c.users
  PROVE  LET d == [c EXCEPT !.chanop = S] IN Limit(c, d) /\ ChanOK(d, Heeds)
<1> DEFINE d == [c EXCEPT !.chanop = S]
<1>1. /\ ChanOK(d, Heeds) /\ SameRest(c, d) /\ d.queue = c.queue /\ d.out = c.out
  BY ChanopOK
<1> HIDE DEF d
<1>2. Limit(c, d)  BY <1>1, LimitSame DEF SameRest
<1> QED  BY <1>1, <1>2 DEF d

LEMMA LimitOnOp ==
  ASSUME NEW c, ChanOK(c, Heeds), NEW source, NEW target \in Users \cup {Me}, NEW shit
  PROVE  Limit(c, OnOp(c, source, target, shit))
<1> DEFINE d == OnOp(c, source, target, shit)
           opped == [c EXCEPT !.chanop = c.chanop \cup {target}]
           one == TakeOp(opped, target)
           both == TakeOp(TakeOp(opped, target), source)
<1>1. c \in ChanT /\ c.chanop \subseteq c.users /\ c.users \subseteq Users  BY DEF ChanOK, ChanT
<1>2. Limit(c, c)  BY DEF Limit
<1>3. CASE target = Me
  <2> DEFINE e == [c EXCEPT !.amOp = TRUE]
  <2>1. d = e  BY <1>3 DEF OnOp
  <2>2. /\ e.mode = c.mode /\ e.amOp /\ e.on = c.on /\ e.queue = c.queue /\ e.out = c.out
    BY <1>1 DEF ChanT
  <2> HIDE DEF e
  <2> QED  BY <2>1, <2>2, LimitSame
<1>4. CASE target # Me /\ target \notin c.users
  <2>1. d = c  BY <1>4 DEF OnOp
  <2> QED  BY <1>2, <2>1
<1>5. CASE target # Me /\ target \in c.users
  <2> DEFINE Fine(e) == Limit(c, e)
  <2>1. Limit(c, opped) /\ ChanOK(opped, Heeds)
    <3>1. c.chanop \cup {target} \in SUBSET c.users  BY <1>1, <1>5
    <3> QED  BY <3>1, LimitChanop
  <2>2. target \in Users  BY <1>5
  <2>3. Limit(opped, one) /\ ChanOK(one, Heeds)
    <3> HIDE DEF opped
    <3> QED  BY <2>1, <2>2, LimitTake
  <2>4. Limit(opped, FlushMode(opped))
    <3> HIDE DEF opped
    <3> QED  BY <2>1, LimitFlush
  <2>5. Fine(opped) /\ Fine(one) /\ Fine(FlushMode(opped))
    <3> HIDE DEF opped, one
    <3> QED  BY <2>1, <2>3, <2>4, LimitTrans
  <2>6. ASSUME source \in Plain  PROVE Fine(both)
    <3>1. source \in Users  BY <2>6 DEF Plain
    <3>2. both = TakeOp(one, source)  OBVIOUS
    <3> HIDE DEF one, both
    <3>3. Limit(one, TakeOp(one, source))  BY <2>3, <3>1, LimitTake
    <3>4. Limit(c, one)  BY <2>5
    <3> QED  BY <3>2, <3>3, <3>4, LimitTrans
  <2> HIDE DEF Fine
  <2>7. Fine(d)  BY <1>5, <2>5, <2>6 DEF OnOp
  <2> QED  BY <2>7 DEF Fine
<1> QED  BY <1>3, <1>4, <1>5

\* A change that is not of the limit.
LEMMA LimitOther ==
  ASSUME NEW c, ChanOK(c, Heeds), NEW ch \in Told, ch.letter # "l", NEW source, NEW shit
  PROVE  Limit(c, Hear(c, source, ch, shit))
<1> DEFINE d == Hear(c, source, ch, shit)
<1>1. ch.letter \in {"o", "b"} \cup Modes /\ "o" \notin Modes /\ "b" \notin Modes
      /\ ch.sign \in {"+", "-"}
  BY DEF Told, Change, ModeLetters, Modes
<1>2. ~TooLow(c, ch)  BY DEF TooLow
<1>3. CASE ch.letter # "o"
  <2>1. /\ Heeded(c, d, ch) /\ d.out = c.out /\ d.queue = c.queue /\ d.amOp = c.amOp
    BY <1>2, <1>3, HearOK
  <2> HIDE DEF d
  <2>2. d.on = c.on /\ ("l" \in ToSet(d.mode) <=> "l" \in ToSet(c.mode))
    BY <1>2, <2>1 DEF Heeded, Kept, PutIn
  <2>3. Limit(c, d)  BY <2>1, <2>2, LimitSame
  <2> QED  BY <2>3 DEF d
<1>4. CASE ch.letter = "o"
  <2>1. CASE ch.sign = "+"
    <3>1. d = OnOp(c, source, ch.arg, shit)  BY <1>1, <1>2, <1>4, <2>1 DEF Hear, TooLow
    <3>2. ch.arg \in Users \cup {Me}  BY <1>4 DEF Told
    <3> QED  BY <3>1, <3>2, LimitOnOp
  <2>2. CASE ch.sign # "+"
    <3>1. d = OnDeop(c, source, ch.arg)  BY <1>1, <1>2, <1>4, <2>2 DEF Hear, TooLow
    <3>2. CASE d = c  BY <3>2 DEF Limit
    <3>3. CASE d = [c EXCEPT !.chanop = c.chanop \ {ch.arg}]
      <4>1. c.chanop \ {ch.arg} \in SUBSET c.users  BY DEF ChanOK
      <4> QED  BY <3>3, <4>1, LimitChanop
    <3> QED  BY <3>1, <3>2, <3>3 DEF OnDeop
  <2> QED  BY <2>1, <2>2
<1> QED  BY <1>3, <1>4

\* A change of the limit.
LEMMA LimitHeard ==
  ASSUME NEW c, ChanOK(c, Heeds), NEW ch \in Told, ch.letter = "l", NEW source, NEW shit
  PROVE  LET d == Hear(c, source, ch, shit)
         IN /\ TooLow(c, ch) /\ (Alone(c) \/ Cut(c)) => Cut(d)
            /\ ~TooLow(c, ch) /\ Alone(c) =>
                 Alone(d) /\ ("l" \in ToSet(d.mode) <=> ch.sign = "+")
<1> DEFINE d == Hear(c, source, ch, shit)
           e == Ask("-", "l", NoArg)
<1>1. ASSUME TooLow(c, ch), Alone(c) \/ Cut(c)  PROVE Cut(d)
  <2>1. /\ Heeded(c, d, ch) /\ d.out = c.out /\ d.amOp
        /\ ToSet(d.queue) = (ToSet(c.queue) \ Alike(c.queue, e)) \cup {e}
    BY <1>1, HearLow
  <2>2. e.letter = "l" /\ e.sign = "-"  BY DEF Ask
  <2> HIDE DEF d, e
  <2>3. Wants(d.queue, "-", "l", NoArg)  BY <2>1, <2>2 DEF Wants, About
  <2>4. d.on /\ "l" \notin ToSet(d.mode)  BY <1>1, <2>1 DEF Heeded, Kept, TooLow
  <2>5. \A n, present : Sent(d, n, present) = Sent(c, n, present)  BY <2>1 DEF Sent
  <2>6. \A n \in NetT, present \in SUBSET (Users \cup {Me}) :
          Me \in Sent(c, n, present).op <=> Me \in n.op
    BY <1>1 DEF Alone, Cut
  <2> QED  BY <2>1, <2>3, <2>4, <2>5, <2>6 DEF Cut
<1>2. ASSUME ~TooLow(c, ch), Alone(c)
      PROVE  Alone(d) /\ ("l" \in ToSet(d.mode) <=> ch.sign = "+")
  <2>1. Heeded(c, d, ch) /\ d.out = c.out /\ d.queue = c.queue  BY <1>2, HearOK
  <2> HIDE DEF d
  <2>2. "l" \in Modes  BY DEF Modes
  <2>3. "l" \in ToSet(d.mode) <=> ch.sign = "+"  BY <1>2, <2>1, <2>2 DEF Heeded, PutIn
  <2>4. \A n, present : Sent(d, n, present) = Sent(c, n, present)  BY <2>1 DEF Sent
  <2>5. Alone(d)  BY <1>2, <2>1, <2>4 DEF Alone
  <2> QED  BY <2>3, <2>5
<1> QED  BY <1>1, <1>2

\* What a message says of the limit.
LimitSaid(l, sign) ==
  \A ch \in ToSet(l) : ch.letter = "l" => ch.sign = sign /\ (sign = "+" => ch.arg = Low)

\* The structure c has become e by a message l.
LimitHeardAs(c, l, sign, e) ==
  \/ /\ Alone(e)
     /\ "l" \in ToSet(e.mode) <=>
          IF Names(l, "l", NoArg) THEN sign = "+" ELSE "l" \in ToSet(c.mode)
  \/ Cut(e) /\ sign = "+" /\ Names(l, "l", NoArg)

LEMMA LimitHeardThen ==
  ASSUME NEW c, NEW l, NEW sign, NEW d, NEW e, LimitHeardAs(c, l, sign, d), Limit(d, e)
  PROVE  LimitHeardAs(c, l, sign, e)
BY DEF LimitHeardAs, Limit

LEMMA HearAllLimit ==
  ASSUME NEW c, ChanOK(c, {"o"}), c.out = <<>>, NEW source, NEW shit,
         NEW l \in Seq(Told), NEW sign, LimitSaid(l, sign)
  PROVE  LimitHeardAs(c, l, sign, HearAll(c, source, l, shit))
<1> DEFINE H(k) == HearAll(c, source, k, shit)
           P == {k \in Seq(Told) : LimitSaid(k, sign) => LimitHeardAs(c, k, sign, H(k))}
<1>0. ChanOK(c, Heeds) /\ c \in Chans
  <2>1. ChanOK(c, Heeds)  BY ChanMore DEF Heeds
  <2> QED  BY <2>1 DEF Chans, ChanOK
<1>1. <<>> \in P
  <2> DEFINE none == <<>>
  <2>1. none \in Seq(Told)  OBVIOUS
  <2>2. H(none) = c  BY <1>0, HearAllIs
  <2>3. ~Names(none, "l", NoArg)  BY ToSetEmpty DEF Names
  <2> HIDE DEF none
  <2>4. \A s, x : ~Wants(c.queue, s, "l", x)
    <3>1. "l" \notin {"o"}  OBVIOUS
    <3>2. \A e \in ToSet(c.queue) : e.letter \in {"o"}  BY DEF ChanOK, Waits
    <3> QED  BY <3>1, <3>2 DEF Wants, About
  <2>5. \A n \in NetT, present \in SUBSET (Users \cup {Me}) : Sent(c, n, present) = n
    BY SentNone
  <2>6. Alone(c)  BY <2>4, <2>5 DEF Alone
  <2>7. LimitHeardAs(c, none, sign, H(none))  BY <2>2, <2>3, <2>6 DEF LimitHeardAs
  <2> QED  BY <2>1, <2>7 DEF none
<1>2. ASSUME NEW k \in Seq(Told), NEW ch \in Told, k \in P  PROVE Append(k, ch) \in P
  <2> DEFINE kc == Append(k, ch)
  <2>1. kc \in Seq(Told) /\ ToSet(kc) = ToSet(k) \cup {ch}  BY ToSetAppend
  <2>2. H(kc) = Hear(H(k), source, ch, shit)  BY <1>0, HearAllAppend
  <2>3. ChanOK(H(k), Heeds)  BY <1>0, HearAllOK
  <2>4. LimitSaid(k, sign) => LimitHeardAs(c, k, sign, H(k))  BY <1>2
  <2> HIDE DEF kc, H
  <2>5. ASSUME LimitSaid(kc, sign)  PROVE LimitHeardAs(c, kc, sign, H(kc))
    <3>1. LimitSaid(k, sign) /\ (ch.letter = "l" => ch.sign = sign /\ (sign = "+" => ch.arg = Low))
      BY <2>1, <2>5 DEF LimitSaid
    <3>2. LimitHeardAs(c, k, sign, H(k))  BY <2>4, <3>1
    <3>3. CASE ch.letter # "l"
      <4>1. Limit(H(k), H(kc))  BY <2>2, <2>3, <3>3, LimitOther
      <4>2. LimitHeardAs(c, k, sign, H(kc))  BY <3>2, <4>1, LimitHeardThen
      <4>3. Names(kc, "l", NoArg) <=> Names(k, "l", NoArg)  BY <2>1, <3>3 DEF Names, About
      <4> QED  BY <4>2, <4>3 DEF LimitHeardAs
    <3>4. CASE ch.letter = "l"
      <4>1. Names(kc, "l", NoArg)  BY <2>1, <3>4 DEF Names, About
      <4>2. /\ TooLow(H(k), ch) /\ (Alone(H(k)) \/ Cut(H(k))) => Cut(H(kc))
            /\ ~TooLow(H(k), ch) /\ Alone(H(k)) =>
                 Alone(H(kc)) /\ ("l" \in ToSet(H(kc).mode) <=> ch.sign = "+")
        BY <2>2, <2>3, <3>4, LimitHeard
      <4>3. Alone(H(k)) \/ (Cut(H(k)) /\ sign = "+")  BY <3>2 DEF LimitHeardAs
      <4>4. CASE TooLow(H(k), ch)
        <5>1. sign = "+"  BY <3>1, <3>4, <4>4 DEF TooLow
        <5> QED  BY <4>1, <4>2, <4>3, <4>4, <5>1 DEF LimitHeardAs
      <4>5. CASE ~TooLow(H(k), ch)
        <5>1. ~Cut(H(k)) \/ sign # "+"  BY <3>1, <3>4, <4>5 DEF TooLow, Cut
        <5> QED  BY <3>1, <3>4, <4>1, <4>2, <4>3, <4>5, <5>1 DEF LimitHeardAs
      <4> QED  BY <4>4, <4>5
    <3> QED  BY <3>3, <3>4
  <2> QED  BY <2>1, <2>5 DEF kc, H
<1> HIDE DEF P
<1>3. l \in P  BY <1>1, <1>2, SeqInduct
<1> QED  BY <1>3 DEF P

LEMMA LimitMban ==
  ASSUME NEW c, ChanOK(c, Heeds), NEW u \in Users
  PROVE  Limit(c, Mban(c, u))
<1> DEFINE b == IF u \in c.chanop THEN TakeOp(c, u) ELSE c
           e == Ask("+", "b", u)
           a == Asks(b, e)
           M == Heeds \cup {"b"}
<1>1. Limit(c, c)  BY DEF Limit
<1>2. CASE ~(c.on /\ c.amOp /\ u \in c.users \ Services)  BY <1>1, <1>2 DEF Mban
<1>3. CASE c.on /\ c.amOp /\ u \in c.users \ Services
  <2>1. Mban(c, u) = FlushMode(a)
    <3>1. ChangeMode(b, "+", "b", u, FALSE) = a  BY ChangeModeIs
    <3> QED  BY <1>3, <3>1 DEF Mban
  <2>2. Limit(c, b) /\ ChanOK(b, Heeds)  BY <1>1, LimitTake
  <2>3. e \in Waits(M) /\ e.letter # "l"  BY AskIn DEF Ask
  <2>4. "k" \notin M /\ Heeds \subseteq M  BY DEF Heeds
  <2> HIDE DEF b, e, M
  <2>5. ChanOK(b, M)  BY <2>2, <2>4, ChanMore
  <2>6. ~Starved(b.queue)  BY <2>4, <2>5, NotStarved
  <2>7. ChanOK(a, M) /\ Asked(b, a, e)  BY <2>3, <2>5, <2>6, AsksOK
  <2> HIDE DEF a
  <2>8. Limit(b, a)  BY <2>3, <2>7, LimitAsk
  <2>9. Limit(a, FlushMode(a))  BY <2>7, LimitFlush
  <2> QED  BY <2>1, <2>2, <2>8, <2>9, LimitTrans
<1> QED  BY <1>2, <1>3

\* When the handler is done the structure is right about the limit if it was.
LEMMA LimitRight ==
  ASSUME NEW c, ChanOK(c, {"o"}), c.out = <<>>, NEW source, NEW l \in Seq(Told), NEW shit,
         NEW bitten \in BOOLEAN, bitten => source \in Users, NEW sign, LimitSaid(l, sign),
         NEW n \in NetT, NEW P \in SUBSET (Users \cup {Me}), NEW Q \in SUBSET (Users \cup {Me}),
         "l" \in ToSet(c.mode) <=> "l" \in n.modes,
         Me \in Sent(ModeChange(c, source, l, shit, bitten), Apply(n, l, Q), P).op
  PROVE  LET d == ModeChange(c, source, l, shit, bitten)
         IN "l" \in ToSet(d.mode) <=> "l" \in Sent(d, Apply(n, l, Q), P).modes
<1> DEFINE h == HearAll(c, source, l, shit)
           b == IF bitten THEN Mban(h, source) ELSE h
           d == FlushMode(b)
           m == Apply(n, l, Q)
<1>1. ModeChange(c, source, l, shit, bitten) = d  BY DEF ModeChange, HearAll
<1>2. LimitHeardAs(c, l, sign, h)  BY HearAllLimit
<1>3. ChanOK(h, Heeds)
  <2>1. ChanOK(c, Heeds)  BY ChanMore DEF Heeds
  <2> QED  BY <2>1, HearAllOK
<1> HIDE DEF h
<1>4. Limit(h, b) /\ ChanOK(b, Heeds)
  <2>1. CASE bitten  BY <1>3, <2>1, LimitMban, MbanAnswers DEF Answers, Answering, Heeds
  <2>2. CASE ~bitten  BY <1>3, <2>2 DEF Limit
  <2> QED  BY <2>1, <2>2
<1> HIDE DEF b
<1>5. Limit(b, d) /\ d.queue = <<>>  BY <1>4, LimitFlush, FlushOK
<1>6. Me \in Sent(d, m, P).op  BY <1>1
<1> HIDE DEF d
<1>7. LimitHeardAs(c, l, sign, d)  BY <1>2, <1>4, <1>5, LimitHeardThen
<1>8. m \in NetT /\ ("l" \in m.modes <=>
                       IF Names(l, "l", NoArg) THEN sign = "+" ELSE "l" \in n.modes)
  <2>1. l \in Seq(Change)  BY SeqMonotonic DEF Told
  <2>2. AllSign(l, "l", NoArg, sign)  BY DEF AllSign, LimitSaid, About
  <2>3. "l" \in ModeLetters /\ "l" # "o" /\ "l" # "b"  BY DEF ModeLetters, Modes
  <2>4. Has(m, "l", NoArg) <=>
          IF Names(l, "l", NoArg) THEN sign = "+" ELSE Has(n, "l", NoArg)
    BY <2>1, <2>2, <2>3, ApplyHas
  <2>5. m \in NetT  BY <2>1, ApplyType, Zenon
  <2>6. \A x : Has(x, "l", NoArg) <=> "l" \in x.modes  BY DEF Has, Modes
  <2> HIDE DEF m
  <2> QED  BY <2>4, <2>5, <2>6
<1> HIDE DEF m
<1>9. "l" \in ToSet(d.mode) <=> "l" \in Sent(d, m, P).modes
  <2>1. CASE Alone(d) /\ ("l" \in ToSet(d.mode) <=>
                            IF Names(l, "l", NoArg) THEN sign = "+" ELSE "l" \in ToSet(c.mode))
    BY <1>8, <2>1 DEF Alone
  <2>2. CASE Cut(d)
    <3>1. Me \in m.op  BY <1>6, <1>8, <2>2 DEF Cut
    <3>2. ~Wants(d.queue, "-", "l", NoArg)  BY <1>5, ToSetEmpty DEF Wants
    <3> QED  BY <1>8, <2>2, <3>1, <3>2 DEF Cut
  <2> QED  BY <1>7, <2>1, <2>2 DEF LimitHeardAs
<1> QED  BY <1>1, <1>9 DEF m

-----------------------------------------------------------------------------
(* The messages of the network.                                            *)

\* What the network says of the limit is one thing.
LEMMA MessageType ==
  ASSUME Good, NEW source, NEW l \in Message(source)
  PROVE  /\ l \in Seq(Told)
         /\ LimitSaid(l, IF "l" \in net.modes THEN "-" ELSE "+")
<1> DEFINE ops == IF source = "server" THEN Deopable ELSE Plain
           sign == IF "l" \in net.modes THEN "-" ELSE "+"
           Good1(ch) == ch \in Told /\ (ch.letter = "l" => ch.sign = sign /\ (sign = "+" => ch.arg = Low))
           Flip(S, x) == IF x \in S THEN "-" ELSE "+"
           Arg(f) == CASE f = "k" -> Key
                       [] f = "l" /\ f \notin net.modes -> Low
                       [] OTHER -> NoArg
<1>1. Present(chan) \subseteq Users \cup {Me} /\ ops \subseteq Users /\ Bannable \subseteq Users
  <2>1. chan \in ChanT  BY DEF Good, Between, ChanOK
  <2> QED  BY <2>1, PresentType, ModesOK DEF Plain
<1>2. Users \cup {Me, Key, NoArg, Low} = Args  BY DEF Args
<1>3. {"o", "b"} \cup Modes = ModeLetters /\ "l" \in Modes /\ "o" \notin Modes /\ "b" \notin Modes
  BY DEF ModeLetters, Modes
<1>4. \A ch \in [sign : {"+", "-"}, letter : {"o"}, arg : Users \cup {Me}] : Good1(ch)
  BY <1>2, <1>3 DEF Told, Change
<1>5. \A m \in Bannable : Good1([sign |-> Flip(net.bans, m), letter |-> "b", arg |-> m])
  BY <1>1, <1>2, <1>3 DEF Told, Change
<1>6. \A f \in Modes : Good1([sign |-> Flip(net.modes, f), letter |-> f, arg |-> Arg(f)])
  <2> TAKE f \in Modes
  <2>1. Arg(f) \in Args  BY <1>2
  <2>2. f = "l" => (sign = "+" => Arg(f) = Low)  OBVIOUS
  <2>3. f = "l" => Flip(net.modes, f) = sign  OBVIOUS
  <2>4. Flip(net.modes, f) \in {"+", "-"}  OBVIOUS
  <2> HIDE DEF Arg, Flip, sign
  <2> QED  BY <1>3, <2>1, <2>2, <2>3, <2>4 DEF Told, Change
<1>7. \A ch \in Effective(source) : Good1(ch)
  <2> DEFINE ups == [sign : {"+"}, letter : {"o"}, arg : Present(chan) \ (net.op \cup Services)]
             downs == [sign : {"-"}, letter : {"o"}, arg : net.op \cap ops]
             bans == {[sign |-> Flip(net.bans, m), letter |-> "b", arg |-> m] : m \in Bannable}
             modes == {[sign |-> Flip(net.modes, f), letter |-> f, arg |-> Arg(f)] : f \in Modes}
  <2>1. Effective(source) \subseteq ups \cup downs \cup bans \cup modes  BY DEF Effective
  <2> HIDE DEF Good1, Flip, Arg
  <2>2. ups \cup downs \subseteq [sign : {"+", "-"}, letter : {"o"}, arg : Users \cup {Me}]
    BY <1>1
  <2>3. \A ch \in bans \cup modes : Good1(ch)  BY <1>5, <1>6
  <2> HIDE DEF ups, downs, bans, modes
  <2> QED  BY <1>4, <2>1, <2>2, <2>3
<1>8. PICK n \in 1..MaxLine : l \in [1..n -> Effective(source)]  BY DEF Message
<1>9. n \in Nat  BY <1>8, ModesOK
<1> HIDE DEF Good1
<1>10. \A i \in 1..n : Good1(l[i])  BY <1>7, <1>8
<1>11. DOMAIN l = 1..n /\ l = [i \in 1..n |-> l[i]]  BY <1>8
<1>12. \A i \in 1..n : l[i] \in Told  BY <1>10 DEF Good1
<1>13. l \in Seq(Told)  BY <1>9, <1>11, <1>12
<1>14. LimitSaid(l, sign)
  <2> HIDE DEF sign
  <2>1. \A ch \in ToSet(l) : \E i \in 1..n : ch = l[i]  BY <1>11 DEF ToSet
  <2>2. \A i \in 1..n : l[i].letter = "l" => l[i].sign = sign /\ (sign = "+" => l[i].arg = Low)
    BY <1>10 DEF Good1
  <2> QED  BY <2>1, <2>2 DEF LimitSaid
<1> QED  BY <1>13, <1>14

\* Whom a message bans is a client.
LEMMA ApplyBans ==
  ASSUME NEW n \in NetT, n.bans \subseteq Users, NEW P \in SUBSET (Users \cup {Me}),
         NEW l \in Seq(Told)
  PROVE  Apply(n, l, P) \in NetT /\ Apply(n, l, P).bans \subseteq Users
<1> DEFINE A(k) == Apply(n, k, P)
           R == {k \in Seq(Told) : A(k) \in NetT /\ A(k).bans \subseteq Users}
<1>0. Told \subseteq Change /\ Seq(Told) \subseteq Seq(Change)  BY SeqMonotonic DEF Told
<1>1. <<>> \in R
  <2>1. <<>> \in Seq(Told)  OBVIOUS
  <2>2. A(<<>>) = n  BY ApplyEmpty
  <2> QED  BY <2>1, <2>2
<1>2. ASSUME NEW k \in Seq(Told), NEW ch \in Told, k \in R  PROVE Append(k, ch) \in R
  <2> DEFINE kc == Append(k, ch)
  <2>1. kc \in Seq(Told)  OBVIOUS
  <2>2. k \in Seq(Change) /\ ch \in Change  BY <1>0
  <2>3. A(kc) = ApplyOp(A(k), ch, P) /\ A(k) \in NetT /\ A(k).bans \subseteq Users
    BY <1>2, <2>2, ApplyAppend, ApplyType
  <2> HIDE DEF kc, A
  <2>4. A(kc) \in NetT /\ \A x : Has(A(kc), "b", x) <=>
                                   IF About(ch, "b", x) THEN ch.sign = "+" ELSE Has(A(k), "b", x)
    BY <2>2, <2>3, ApplyOpIs DEF ModeLetters
  <2>5. \A m, x : Has(m, "b", x) <=> x \in m.bans  BY DEF Has, Modes
  <2>6. \A x : About(ch, "b", x) => x \in Users  BY DEF About, Told
  <2> HIDE DEF R
  <2>7. A(kc).bans \subseteq Users  BY <2>3, <2>4, <2>5, <2>6
  <2> QED  BY <2>1, <2>4, <2>7 DEF R, kc
<1> HIDE DEF R
<1>3. l \in R  BY <1>1, <1>2, SeqInduct
<1> QED  BY <1>3 DEF R

\* A message is heard and answered.
LEMMA MessageStep ==
  ASSUME Good, chan.exists, NEW source, NEW l \in Message(source), NEW shit,
         NEW bitten \in BOOLEAN, bitten => source \in Users,
         Turn(ModeChange(chan, source, l, shit, bitten), Apply(net, l, Present(chan)))
  PROVE  Between(chan', net') /\ Stays(chan, net, {"o"})
<1> DEFINE h == HearAll(chan, source, l, shit)
           d == ModeChange(chan, source, l, shit, bitten)
           Q == Present(chan)
           P == Present(d)
           n == Apply(net, l, Q)
           sign == IF "l" \in net.modes THEN "-" ELSE "+"
<1>1. /\ ChanOK(chan, {"o"}) /\ chan.out = <<>> /\ net \in NetT /\ net.bans \subseteq Users
      /\ chan \in ChanT /\ Q \in SUBSET (Users \cup {Me})
  BY PresentType DEF Good, Between, ChanOK
<1>2. ChanOK(chan, Heeds)  BY <1>1, ChanMore DEF Heeds
<1>3. l \in Seq(Told) /\ LimitSaid(l, sign)  BY MessageType
<1> HIDE DEF sign
<1>4. /\ Kept(chan, h) /\ SentSame(chan, h)
      /\ Answers(h, d, Heeds) /\ d.mode = h.mode /\ Flushed(d)
  BY <1>2, <1>3, ModeChangeOK
<1>5. Turn(d, n)  OBVIOUS
<1>6. /\ \A m \in Users : (m \in chan.bans <=> m \in net.bans) => (m \in h.bans <=> m \in n.bans)
      /\ \A f \in {"k", "i"} : (f \in ToSet(chan.mode) <=> f \in net.modes) =>
           (f \in ToSet(h.mode) <=> f \in n.modes)
  BY <1>1, <1>2, <1>3, HearAllTracks
<1> HIDE DEF Q
<1>7. n \in NetT /\ n.bans \subseteq Users  BY <1>1, <1>3, ApplyBans
<1>8. d \in ChanT /\ ChanOK(d, {"o"}) /\ P \in SUBSET (Users \cup {Me})
  <2>1. ChanOK(d, {"o"})  BY <1>4 DEF Flushed
  <2>2. d \in ChanT  BY <2>1 DEF ChanOK
  <2> QED  BY <2>1, <2>2, PresentType
<1> HIDE DEF P
<1>9. Me \in Sent(d, n, P).op /\ ("l" \in ToSet(chan.mode) <=> "l" \in net.modes) =>
        ("l" \in ToSet(d.mode) <=> "l" \in Sent(d, n, P).modes)
  BY <1>1, <1>3, <1>8, LimitRight
<1>10. chan'.mode = d.mode /\ net' = Sent(d, n, P)
  <2> HIDE DEF d, n
  <2> QED  BY <1>5, <1>8 DEF Turn, Sent, ChanT, P
<1> HIDE DEF h, d, n
<1>11. Clean(h, n, Heeds)  BY <1>1, <1>4, <1>7, CleanSame
<1>12. h.exists  BY <1>4 DEF Kept
<1>13. Between(chan', net') /\ Stays(h, n, Heeds)
  BY <1>4, <1>5, <1>7, <1>8, <1>11, <1>12, TurnAnswers
<1>14. RightBans(chan, net) \subseteq RightBans(h, n)  BY <1>6 DEF RightBans
<1>15. RightModes(chan, net) \ Heeds \subseteq RightModes(h, n) \ Heeds
  <2>1. Modes \ Heeds = {"k", "i"}  BY DEF Modes, Heeds
  <2> QED  BY <1>6, <2>1 DEF RightModes
<1>16. Me \in net'.op /\ "l" \in RightModes(chan, net) => "l" \in RightModes(chan', net')
  BY <1>9, <1>10 DEF RightModes
<1> QED  BY <1>13, <1>14, <1>15, <1>16 DEF Stays, Heeds

LEMMA OnModeStep ==
  ASSUME Good, NEW w \in Users, NEW l \in Message(w), NEW shit, NEW bitten \in BOOLEAN,
         OnMode(w, l, shit, bitten)
  PROVE  Between(chan', net') /\ Stays(chan, net, {"o"})
<1>1. chan.exists
  <2>1. w \in net.op  BY DEF OnMode
  <2> QED  BY <2>1 DEF Good, Between, Nobody
<1> QED  BY <1>1, MessageStep DEF OnMode

LEMMA OnServerModeStep ==
  ASSUME Good, NEW l \in Message("server"), OnServerMode(l)
  PROVE  Between(chan', net') /\ Stays(chan, net, {"o"})
<1>1. Turn(ModeChange(chan, "server", l, NoShit, FALSE), Apply(net, l, Present(chan)))
      /\ chan.exists
  BY DEF OnServerMode
<1> DEFINE source == "server"
           bitten == FALSE
<1>2. bitten \in BOOLEAN /\ (bitten => source \in Users)  OBVIOUS
<1>3. Turn(ModeChange(chan, source, l, NoShit, bitten), Apply(net, l, Present(chan)))  BY <1>1
<1>4. l \in Message(source)  OBVIOUS
<1> HIDE DEF source, bitten
<1> QED  BY <1>1, <1>2, <1>3, <1>4, MessageStep

\* What OnClearMode makes of the structure before the ops and the bans go.
Cleared(l) == IF l = <<>> THEN chan ELSE ModeChange(chan, "server", l, NoShit, FALSE)

\* Modes that a server removes are removed from the mode string, and nothing else
\* of what was right is wrong then; of what waited only ops are sent.
LEMMA ClearedOK ==
  ASSUME Good, chan.exists, NEW l \in Seq(Told),
         \A ch \in ToSet(l) : ch.letter \in Modes /\ ch.sign = "-"
  PROVE  LET d == Cleared(l)
         IN /\ ChanOK(d, {"o"}) /\ d.exists /\ d.on = chan.on
            /\ \A n \in NetT, P \in SUBSET (Users \cup {Me}) :
                 Sent(d, n, P).bans = n.bans /\ Sent(d, n, P).modes = n.modes
            /\ \A m \in Users : (m \in chan.bans <=> m \in net.bans) => (m \in d.bans <=> m \in net.bans)
            /\ \A f \in Modes : (f \in ToSet(chan.mode) <=> f \in net.modes) =>
                 (f \in ToSet(d.mode) <=> f \in net.modes /\ ~Names(l, f, NoArg))
<1> DEFINE source == "server"
           h == HearAll(chan, source, l, NoShit)
           d == Cleared(l)
           Q == Present(chan)
           m == Apply(net, l, Q)
<1>1. /\ ChanOK(chan, {"o"}) /\ chan.out = <<>> /\ net \in NetT /\ net.bans \subseteq Users
      /\ chan \in ChanT /\ Q \in SUBSET (Users \cup {Me})
  BY PresentType DEF Good, Between, ChanOK
<1>2. ChanOK(chan, Heeds) /\ chan \in Chans
  <2>1. ChanOK(chan, Heeds)  BY <1>1, ChanMore DEF Heeds
  <2> QED  BY <1>1, <2>1 DEF Chans
<1>3. d = h \/ d = FlushMode(h)
  <2>1. CASE l = <<>>
    <3>1. HearAll(chan, source, <<>>, NoShit) = chan  BY <1>2, HearAllIs
    <3> QED  BY <2>1, <3>1 DEF Cleared
  <2>2. CASE l # <<>>  BY <2>2 DEF Cleared, ModeChange, HearAll
  <2> QED  BY <2>1, <2>2
<1> HIDE DEF Q, source
<1>4. ChanOK(h, Heeds) /\ Kept(chan, h) /\ SentSame(chan, h)  BY <1>2, HearAllOK
<1>5. /\ \A u \in Users : (u \in chan.bans <=> u \in net.bans) => (u \in h.bans <=> u \in m.bans)
      /\ \A f \in {"k", "i"} : (f \in ToSet(chan.mode) <=> f \in net.modes) =>
           (f \in ToSet(h.mode) <=> f \in m.modes)
  BY <1>1, <1>2, HearAllTracks
<1>6. /\ \A u \in Users : u \in m.bans <=> u \in net.bans
      /\ \A f \in Modes : f \in m.modes <=> f \in net.modes /\ ~Names(l, f, NoArg)
  <2>1. l \in Seq(Change)  BY SeqMonotonic DEF Told
  <2>2. \A letter, x : AllSign(l, letter, x, "-")  BY DEF AllSign
  <2>3. \A x : ~Names(l, "b", x)  BY DEF Names, About, Modes
  <2> DEFINE minus == "-"
  <2>4. \A letter, x : AllSign(l, letter, x, minus)  BY <2>2
  <2>5. minus # "+"  OBVIOUS
  <2> HIDE DEF minus
  <2>6. \A x : \A letter \in ModeLetters : letter # "o" =>
          (Has(m, letter, x) <=> Has(net, letter, x) /\ ~Names(l, letter, x))
    BY <1>1, <2>1, <2>4, <2>5, ApplyHas
  <2> HIDE DEF m
  <2>7. \A u : u \in m.bans <=> u \in net.bans
    <3>1. \A z, x : Has(z, "b", x) <=> x \in z.bans  BY DEF Has, Modes
    <3>2. "b" \in ModeLetters  BY DEF ModeLetters
    <3> QED  BY <2>3, <2>6, <3>1, <3>2
  <2>8. \A f \in Modes : f \in m.modes <=> f \in net.modes /\ ~Names(l, f, NoArg)
    <3> TAKE f \in Modes
    <3>1. \A z : Has(z, f, NoArg) <=> f \in z.modes  BY DEF Has, Modes
    <3>2. f \in ModeLetters /\ f # "o"  BY DEF ModeLetters, Modes
    <3> QED  BY <2>6, <3>1, <3>2
  <2> QED  BY <2>7, <2>8
<1>7. Alone(h) /\ ("l" \in ToSet(h.mode) <=> "l" \in ToSet(chan.mode) /\ ~Names(l, "l", NoArg))
  <2> DEFINE minus == "-"
  <2>1. minus # "+" /\ LimitSaid(l, minus)  BY DEF LimitSaid
  <2> HIDE DEF minus
  <2>2. LimitHeardAs(chan, l, minus, h)  BY <1>1, <2>1, HearAllLimit
  <2> QED  BY <2>1, <2>2 DEF LimitHeardAs
<1>8. \A f \in Modes : (f \in ToSet(chan.mode) <=> f \in net.modes) =>
        (f \in ToSet(h.mode) <=> f \in net.modes /\ ~Names(l, f, NoArg))
  BY <1>5, <1>6, <1>7 DEF Modes
<1> HIDE DEF m, h, d
<1>9. /\ ChanOK(d, Heeds) /\ Kept(h, d) /\ SentSame(h, d)
      /\ d.bans = h.bans /\ d.mode = h.mode /\ Alone(d)
  <2>1. CASE d = h
    <3>1. SentSame(h, h)  BY SentSameOut
    <3> QED  BY <1>4, <1>7, <2>1, <3>1 DEF Kept
  <2>2. CASE d = FlushMode(h)
    <3>1. Minds(h, d) /\ SameRest(h, d) /\ Limit(h, d)
      BY <1>4, <2>2, FlushMinds, FlushOK, LimitFlush
    <3> QED  BY <1>7, <3>1 DEF Minds, SameRest, Limit
  <2> QED  BY <1>3, <2>1, <2>2
<1>10. ChanOK(d, {"o"})
  <2>1. \A e \in ToSet(d.queue) : e \in Waits(Heeds)  BY <1>9 DEF ChanOK
  <2>2. d.queue \in Seq(Entry)  BY <1>9 DEF ChanOK, ChanT
  <2>3. \A e \in ToSet(d.queue) : e.letter # "l"
    <3> SUFFICES ASSUME NEW e \in ToSet(d.queue), e.letter = "l"  PROVE FALSE
      OBVIOUS
    <3>1. e.sign \in {"+", "-"}  BY <2>1 DEF Waits, Entry
    <3>2. Wants(d.queue, e.sign, "l", e.arg)  BY DEF Wants, About
    <3> QED  BY <1>9, <3>2 DEF Alone
  <2>4. ToSet(d.queue) \subseteq Waits({"o"})  BY <2>1, <2>3 DEF Waits, Heeds
  <2> QED  BY <1>9, <2>4 DEF ChanOK
<1>11. d.exists /\ d.on = chan.on  BY <1>4, <1>9 DEF Kept
<1>12. ASSUME NEW n \in NetT, NEW P \in SUBSET (Users \cup {Me})
       PROVE  Sent(d, n, P).bans = n.bans /\ Sent(d, n, P).modes = n.modes
  <2>1. Sent(chan, n, P) = n  BY <1>1, SentNone
  <2>2. d.out \in Seq(Line)  BY <1>9 DEF ChanOK, ChanT
  <2>3. Sent(d, n, P) \in NetT  BY <2>2, SentType
  <2>4. /\ Sent(d, n, P).bans = n.bans
        /\ \A f \in {"k", "i"} : f \in Sent(d, n, P).modes <=> f \in n.modes
    BY <1>4, <1>9, <2>1 DEF SentSame
  <2>5. "l" \in Sent(d, n, P).modes <=> "l" \in n.modes  BY <1>9 DEF Alone
  <2> HIDE DEF d
  <2>6. Sent(d, n, P).modes \subseteq Modes /\ n.modes \subseteq Modes  BY <2>3 DEF NetT
  <2> DEFINE B == Sent(d, n, P)
  <2> HIDE DEF B
  <2>7. \A f \in Modes : f \in B.modes <=> f \in n.modes  BY <2>4, <2>5 DEF Modes, B
  <2>8. B.modes = n.modes  BY <2>6, <2>7 DEF B
  <2> QED  BY <2>4, <2>8 DEF B
<1> HIDE DEF d
<1> QED  BY <1>6, <1>5, <1>8, <1>9, <1>10, <1>11, <1>12 DEF d

\* The letters that OnClearMode takes away are finitely many.
LEMMA TakenFinite ==
  ASSUME NEW S \in SUBSET Letters
  PROVE  IsFiniteSet({[sign |-> "-", letter |-> f, arg |-> NoArg] : f \in S \ {"o", "b"}})
<1> DEFINE R == S \ {"o", "b"}
           T == {[sign |-> "-", letter |-> f, arg |-> NoArg] : f \in R}
           g == [f \in R |-> [sign |-> "-", letter |-> f, arg |-> NoArg]]
<1>1. IsFiniteSet(Modes)
  <2>1. Modes = {"k"} \cup ({"l"} \cup {"i"})  BY DEF Modes
  <2>2. \A x : IsFiniteSet({x})  BY FS_Singleton
  <2> QED  BY <2>1, <2>2, FS_Union
<1>2. R \subseteq Modes  BY ModesOK DEF ModeLetters
<1>3. IsFiniteSet(R)  BY <1>1, <1>2, FS_Subset
<1>4. g \in Surjection(R, T)  BY DEF Surjection
<1> HIDE DEF R, g, T
<1>5. IsFiniteSet(T)  BY <1>3, <1>4, FS_Surjection
<1> QED  BY <1>5 DEF R, T

LEMMA OnClearModeStep ==
  ASSUME Good, NEW S \in SUBSET Letters, OnClearMode(S)
  PROVE  Between(chan', net') /\ Stays(chan, net, {"o"})
<1> DEFINE T == {[sign |-> "-", letter |-> f, arg |-> NoArg] : f \in S \ {"o", "b"}}
           l == SetToSeq(T)
           c == Cleared(l)
           chanop == IF "o" \in S THEN {} ELSE c.chanop
           amOp == IF "o" \in S /\ c.on THEN FALSE ELSE c.amOp
           bans == IF "b" \in S THEN {} ELSE c.bans
           d == [c EXCEPT !.chanop = chanop, !.amOp = amOp, !.bans = bans]
           n == [op |-> IF "o" \in S THEN {} ELSE net.op,
                 bans |-> IF "b" \in S THEN {} ELSE net.bans,
                 modes |-> net.modes \ S]
<1>1. chan.exists /\ Turn(d, n)  BY DEF OnClearMode, Cleared
<1>2. S \subseteq ModeLetters /\ S \ {"o", "b"} \subseteq Modes
  BY ModesOK DEF ModeLetters
<1>3. T \subseteq Told /\ \A ch \in T : ch.letter \in Modes /\ ch.sign = "-"
  <2>1. NoArg \in Args  BY DEF Args
  <2> QED  BY <1>2, <2>1 DEF Told, Change, ModeLetters
<1>4. \A f \in Modes : f \in S <=> \E ch \in T : ch.letter = f
  <2>1. \A f \in Modes : f # "o" /\ f # "b"  BY DEF Modes
  <2> DEFINE Off(f) == [sign |-> "-", letter |-> f, arg |-> NoArg]
  <2>2. T = {Off(f) : f \in S \ {"o", "b"}} /\ \A f : Off(f).letter = f  OBVIOUS
  <2> HIDE DEF Off, T
  <2>3. \A f \in S \ {"o", "b"} : Off(f) \in T  BY <2>2
  <2>4. \A ch \in T : ch.letter \in S  BY <2>2
  <2> QED  BY <2>1, <2>2, <2>3, <2>4
<1>5. IsFiniteSet(T)  BY TakenFinite
<1> HIDE DEF T
<1>6. l \in Seq(T) /\ ToSet(l) = T  BY <1>5, SetToSeqIs
<1> HIDE DEF l
<1>7. l \in Seq(Told)  BY <1>3, <1>6, SeqMonotonic
<1>8. /\ ChanOK(c, {"o"}) /\ c.exists /\ c.on = chan.on
      /\ \A m \in NetT, P \in SUBSET (Users \cup {Me}) :
           Sent(c, m, P).bans = m.bans /\ Sent(c, m, P).modes = m.modes
      /\ \A m \in Users : (m \in chan.bans <=> m \in net.bans) => (m \in c.bans <=> m \in net.bans)
      /\ \A f \in Modes : (f \in ToSet(chan.mode) <=> f \in net.modes) =>
           (f \in ToSet(c.mode) <=> f \in net.modes /\ ~Names(l, f, NoArg))
  BY <1>1, <1>3, <1>6, <1>7, ClearedOK
<1>9. \A f \in Modes : Names(l, f, NoArg) <=> f \in S
  <2>1. \A f \in Modes : f \notin {"o", "b"}  BY DEF Modes
  <2> QED  BY <1>4, <1>6, <2>1 DEF Names, About
<1> HIDE DEF c
<1>10. /\ chanop \in SUBSET Users /\ chanop \subseteq c.users /\ amOp \in BOOLEAN
       /\ bans \in SUBSET Users /\ c \in ChanT
  BY <1>8 DEF ChanOK, ChanT
<1>11. \A m \in Users : (m \in chan.bans <=> m \in net.bans) => (m \in bans <=> m \in n.bans)
  BY <1>8
<1> HIDE DEF chanop, amOp, bans
<1>12. /\ d \in ChanT /\ d.chanop = chanop /\ d.bans = bans /\ d.mode = c.mode
       /\ d.queue = c.queue /\ d.out = c.out /\ d.users = c.users /\ d.exists
  BY <1>8, <1>10 DEF ChanT
<1>13. n \in NetT /\ n.bans \subseteq Users /\ n.modes = net.modes \ S
  BY DEF Good, Between, NetT
<1> HIDE DEF d, n
<1>14. ChanOK(d, {"o"})  BY <1>8, <1>10, <1>12 DEF ChanOK
<1>15. \A P \in SUBSET (Users \cup {Me}) :
         /\ Sent(d, n, P).bans = n.bans
         /\ \A f \in Modes \ {"o"} : f \in Sent(d, n, P).modes <=> f \in n.modes
  BY <1>8, <1>12, <1>13 DEF Sent
<1>16. Between(chan', net') /\ Stays(d, n, {"o"})
  BY <1>1, <1>12, <1>13, <1>14, <1>15, TurnKeeps
<1>17. RightBans(chan, net) \subseteq RightBans(d, n)  BY <1>11, <1>12 DEF RightBans
<1>18. RightModes(chan, net) \subseteq RightModes(d, n)
  BY <1>8, <1>9, <1>12, <1>13 DEF RightModes
<1> QED  BY <1>16, <1>17, <1>18 DEF Stays

-----------------------------------------------------------------------------
(* The invariant holds, and each step keeps what is right.                 *)

LEMMA StaysMore ==
  ASSUME NEW c, NEW n, NEW L, NEW M, L \subseteq M, Stays(c, n, L)
  PROVE  Stays(c, n, M)
BY DEF Stays

LEMMA InitGood ==
  ASSUME Init
  PROVE  Good
<1> DEFINE on == [DelChannel EXCEPT !.exists = TRUE, !.on = TRUE, !.amOp = TRUE,
                                    !.mode = DefModes, !.flags = DefFlags]
<1>1. Flushed(DelChannel) /\ DelChannel.out = <<>>  BY DelChannelType
<1>2. DelChannel \in ChanT /\ ChanOK(DelChannel, {"o"})  BY <1>1 DEF Flushed, ChanOK
<1>3. DefModes \in Seq(Modes) /\ IsInjective(DefModes) /\ DefFlags \subseteq Flags  BY ModesOK
<1>4. ToSet(DefModes) \subseteq Modes  BY <1>3, ToSetType
<1>5. net \in NetT /\ net.bans = {} /\ flushes \in BOOLEAN /\ getops \in BOOLEAN
  <2>1. ToSet(chan.mode) \subseteq Modes
    <3>1. CASE chan = DelChannel
      <4>1. chan.mode \in Seq(Modes)  BY <1>2, <3>1 DEF ChanT
      <4> QED  BY <4>1, ToSetType
    <3>2. CASE chan = on
      <4>1. chan.mode = DefModes  BY <1>2, <3>2 DEF ChanT
      <4> QED  BY <1>4, <4>1
    <3> QED  BY <3>1, <3>2 DEF Init
  <2> HIDE DEF on
  <2>2. net = [op |-> IF chan.on THEN {Me} ELSE {}, bans |-> {}, modes |-> ToSet(chan.mode)]
        /\ flushes = FALSE /\ getops = FALSE
    BY DEF Init
  <2> QED  BY <2>1, <2>2 DEF NetT
<1>6. CASE chan = DelChannel
  <2>1. ~chan.on /\ chan.mode = <<>>  BY <1>6 DEF DelChannel
  <2>2. net = Nobody  BY <2>1, ToSetEmpty DEF Init, Nobody
  <2>3. Between(chan, net)  BY <1>1, <1>2, <1>5, <1>6, <2>2 DEF Between
  <2> QED  BY <1>5, <2>3 DEF Good
<1>7. CASE chan = on
  <2>1. /\ on \in ChanT /\ on.exists /\ on.out = <<>> /\ on.mode = DefModes
        /\ on.chanop = DelChannel.chanop /\ on.users = DelChannel.users
        /\ on.queue = DelChannel.queue
    BY <1>1, <1>2, <1>3 DEF ChanT
  <2> HIDE DEF on
  <2>2. ChanOK(on, {"o"})  BY <1>2, <1>3, <2>1 DEF ChanOK
  <2>3. Between(chan, net)  BY <1>5, <1>7, <2>1, <2>2 DEF Between
  <2> QED  BY <1>5, <2>3 DEF Good
<1> QED  BY <1>6, <1>7 DEF Init

\* The flags of the timers are flags.
LEMMA TimersStep ==
  ASSUME Good, Next
  PROVE  flushes' \in BOOLEAN /\ getops' \in BOOLEAN
<1>0. flushes \in BOOLEAN /\ getops \in BOOLEAN  BY DEF Good
<1>1. ASSUME NEW u, NEW isOp, NEW quiet, NEW shit, ClientJoins(u, isOp, quiet, shit)
      PROVE  flushes' \in BOOLEAN /\ getops' \in BOOLEAN
  <2>1. (flushes' = TRUE \/ flushes' = flushes) /\ getops' = getops
    BY <1>1 DEF ClientJoins, FlushLater
  <2> QED  BY <1>0, <2>1
<1>2. ASSUME NEW list, Deop(list)  PROVE flushes' \in BOOLEAN /\ getops' \in BOOLEAN
  <2>1. (flushes' = TRUE \/ flushes' = flushes) /\ getops' = getops  BY <1>2 DEF Deop, FlushLater
  <2> QED  BY <1>0, <2>1
<1>3. CASE Join
  <2>1. (flushes' = TRUE \/ flushes' = flushes) /\ (getops' = TRUE \/ getops' = getops)
    BY <1>3 DEF Join, FlushLater
  <2> QED  BY <1>0, <2>1
<1>4. ASSUME NEW u, NEW shit, LoginOp(u, shit)  PROVE flushes' \in BOOLEAN /\ getops' \in BOOLEAN
  BY <1>0, <1>4 DEF LoginOp, FlushLater
<1>5. ASSUME NEW list, NEW shit, Op(list, shit)  PROVE flushes' \in BOOLEAN /\ getops' \in BOOLEAN
  BY <1>0, <1>5 DEF Op, FlushLater
<1>6. CASE FlushTimer \/ GetOpsTimer  BY <1>0, <1>6 DEF FlushTimer, GetOpsTimer
<1>7. CASE Quiet  BY <1>0, <1>7 DEF Quiet
<1>8. Quiet \/ ~(\/ \E u \in Users : ClientLeaves(u)
                 \/ \E u \in Plain \cap Bannable : NickFlood(u)
                 \/ \E w \in Users \cap net.op : \E l \in Message(w), shit \in Shits, bitten \in BOOLEAN :
                      OnMode(w, l, shit, bitten)
                 \/ \E l \in Message("server") : OnServerMode(l)
                 \/ \E S \in SUBSET Letters \ {{}} : OnClearMode(S)
                 \/ \E f \in Settable, value \in BOOLEAN : SetFlag(f, value)
                 \/ ClearMode
                 \/ \E u \in Bannable : BanClient(u) \/ UnbanClient(u)
                 \/ Part)
  BY DEF ClientLeaves, NickFlood, OnMode, OnServerMode, OnClearMode, SetFlag, ClearMode,
         BanClient, UnbanClient, Part
<1> QED  BY <1>1, <1>2, <1>3, <1>4, <1>5, <1>6, <1>7, <1>8 DEF Next

\* One step.
LEMMA NextGood ==
  ASSUME Good, Next
  PROVE  Good' /\ (Stays(chan, net, {"o"}) \/ (Join /\ Stays(chan, net, Unset)))
<1> DEFINE Fine == Between(chan', net') /\ (Stays(chan, net, {"o"}) \/ (Join /\ Stays(chan, net, Unset)))
<1>0. Bannable \subseteq Users /\ Plain \subseteq Users  BY ModesOK DEF Plain
<1>1. ASSUME NEW u \in Users, NEW shit \in Shits, NEW isOp \in BOOLEAN, NEW quiet \in BOOLEAN,
             ClientJoins(u, isOp, quiet, shit)
      PROVE  Fine
  BY <1>1, ClientJoinsStep
<1>2. ASSUME NEW u \in Users, NEW shit \in Shits, LoginOp(u, shit)  PROVE Fine
  BY <1>2, LoginOpStep
<1>3. ASSUME NEW u \in Users, ClientLeaves(u)  PROVE Fine  BY <1>3, ClientLeavesStep
<1>4. ASSUME NEW u \in Plain \cap Bannable, NickFlood(u)  PROVE Fine  BY <1>0, <1>4, NickFloodStep
<1>5. ASSUME NEW w \in Users \cap net.op, NEW l \in Message(w), NEW shit \in Shits,
             NEW bitten \in BOOLEAN, OnMode(w, l, shit, bitten)
      PROVE  Fine
  BY <1>5, OnModeStep
<1>6. ASSUME NEW l \in Message("server"), OnServerMode(l)  PROVE Fine  BY <1>6, OnServerModeStep
<1>7. ASSUME NEW S \in SUBSET Letters, OnClearMode(S)  PROVE Fine  BY <1>7, OnClearModeStep
<1>8. ASSUME NEW list \in Lists, NEW shit \in Shits, Op(list, shit)  PROVE Fine  BY <1>8, OpStep
<1>9. ASSUME NEW list \in Lists, Deop(list)  PROVE Fine  BY <1>9, DeopStep
<1>10. ASSUME NEW f \in Settable, NEW value \in BOOLEAN, SetFlag(f, value)  PROVE Fine
  BY <1>10, SetFlagStep
<1>11. ASSUME ClearMode  PROVE Fine  BY <1>11, ClearModeStep
<1>12. ASSUME NEW u \in Bannable, BanClient(u) \/ UnbanClient(u)  PROVE Fine
  BY <1>0, <1>12, BanClientStep, UnbanClientStep
<1>13. ASSUME Join  PROVE Fine  BY <1>13, JoinStep
<1>14. ASSUME Part  PROVE Fine  BY <1>14, PartStep
<1>15. ASSUME FlushTimer  PROVE Fine  BY <1>15, FlushTimerStep
<1>16. ASSUME GetOpsTimer  PROVE Fine  BY <1>16, GetOpsTimerStep
<1>17. Fine
  <2> HIDE DEF Fine
  <2> QED  BY <1>1, <1>2, <1>3, <1>4, <1>5, <1>6, <1>7, <1>8, <1>9, <1>10, <1>11, <1>12, <1>13,
              <1>14, <1>15, <1>16 DEF Next
<1> QED  BY <1>17, TimersStep DEF Good

LEMMA GoodAlways == Spec => []Good
<1>1. Good /\ UNCHANGED vars => Good'  BY DEF Good, vars
<1>2. Good /\ [Next]_vars => Good'  BY <1>1, NextGood
<1> QED  BY InitGood, <1>2, PTL DEF Spec

\* Every variable has its type, whatever the handlers do with the queue.
THEOREM TypeOKCorrect == Spec => []TypeOK
<1>1. Good => TypeOK
  <2> SUFFICES ASSUME Good  PROVE TypeOK
    OBVIOUS
  <2>1. chan \in ChanT /\ chan.chanop \subseteq chan.users  BY DEF Good, Between, ChanOK
  <2>2. net \in NetT /\ net.bans \subseteq Users /\ flushes \in BOOLEAN /\ getops \in BOOLEAN
    BY DEF Good, Between
  <2> QED  BY <2>1, <2>2 DEF TypeOK, ChanT, NetT
<1> QED  BY <1>1, GoodAlways, PTL

\* No handler of modes.c, ops.c, bans.c or channels.c returns with anything in the
\* queue but ops and deops that the service asks for itself, and never with both an
\* op and a deop of one client.
THEOREM OnlyOpsWaitCorrect == Spec => []OnlyOpsWait
<1>1. Good => OnlyOpsWait
  <2> SUFFICES ASSUME Good  PROVE OnlyOpsWait
    OBVIOUS
  <2>1. ToSet(chan.queue) \subseteq Waits({"o"}) /\ Agreed(chan.queue)
    BY DEF Good, Between, ChanOK
  <2>2. \A e \in ToSet(chan.queue) : e.letter = "o" /\ ~e.server /\ e.arg \in Users
    BY <2>1 DEF Waits
  <2>3. ASSUME NEW u \in Users, Queued("+", "o", u), Queued("-", "o", u)  PROVE FALSE
    <3>1. PICK i \in DOMAIN chan.queue :
            chan.queue[i].arg = u /\ chan.queue[i].letter = "o" /\ chan.queue[i].sign = "+"
      BY <2>3 DEF Queued
    <3>2. PICK j \in DOMAIN chan.queue :
            chan.queue[j].arg = u /\ chan.queue[j].letter = "o" /\ chan.queue[j].sign = "-"
      BY <2>3 DEF Queued
    <3>3. chan.queue[i] \in ToSet(chan.queue) /\ chan.queue[j] \in ToSet(chan.queue)
      BY DEF ToSet
    <3> QED  BY <2>1, <3>1, <3>2, <3>3 DEF Agreed, Same
  <2> QED  BY <2>2, <2>3 DEF OnlyOpsWait
<1> QED  BY <1>1, GoodAlways, PTL

\* While only ops wait, to be wrong is not to have what the network has.
LEMMA WrongIs ==
  ASSUME Good
  PROVE  /\ \A m \in Users : BanWrong(m) <=> m \notin RightBans(chan, net)
         /\ \A f \in Modes : ModeWrong(f) <=> f \notin RightModes(chan, net)
<1>1. \A e \in ToSet(chan.queue) : e.letter = "o"  BY DEF Good, Between, ChanOK, Waits
<1>2. \A i \in DOMAIN chan.queue : chan.queue[i].letter = "o"  BY <1>1 DEF ToSet
<1>3. \A sign, letter, x : letter # "o" => ~Queued(sign, letter, x)  BY <1>2 DEF Queued
<1>4. \A m : ~Queued("+", "b", m) /\ ~Queued("-", "b", m)  BY <1>3
<1>5. \A m \in Users : BanWrong(m) <=> m \notin RightBans(chan, net)
  BY <1>4 DEF BanWrong, WillBe, RightBans
<1>6. ASSUME NEW f \in Modes  PROVE ModeWrong(f) <=> f \notin RightModes(chan, net)
  <2> DEFINE x == IF f = "k" THEN Key ELSE NoArg
  <2>1. f # "o"  BY DEF Modes
  <2>2. ~Queued("+", f, x) /\ ~Queued("-", f, x)  BY <1>3, <2>1
  <2> QED  BY <2>2 DEF ModeWrong, WillBe, RightModes
<1> QED  BY <1>5, <1>6

\* The list of bans is the network's whatever is heard, asked for or sent, for any
\* clients, levels, flags and default modes and messages of any length; a step that
\* makes it wrong leaves a service that is not op.
THEOREM BansAgreeCorrect == Spec => BansAgree
<1> DEFINE Wrong == \A m \in Users : BanWrong(m) <=> m \notin RightBans(chan, net)
           Agree == \A m \in Users : BanWrong(m)' /\ ~BanWrong(m) => ~Heard'
<1>1. Good => Wrong  BY WrongIs
<1>2. Good /\ Wrong /\ Wrong' /\ [Next]_vars => [Agree]_vars
  <2> SUFFICES ASSUME Good, Wrong, Wrong', Next, NEW m \in Users, BanWrong(m)', ~BanWrong(m), Heard'
               PROVE  FALSE
    BY DEF vars
  <2>1. chan'.on /\ chan'.amOp /\ Me \in net'.op  BY DEF Heard
  <2>2. Stays(chan, net, {"o"}) \/ Stays(chan, net, Unset)  BY NextGood
  <2>3. RightBans(chan, net) \subseteq RightBans(chan', net')  BY <2>1, <2>2 DEF Stays
  <2> QED  BY <2>3
<1>3. Spec => [][Agree]_vars
  BY <1>1, <1>2, GoodAlways, PTL DEF Spec
<1> QED  BY <1>3 DEF BansAgree

\* So are the mode words, the limit that the service takes away included; only a limit
\* of the default list is believed when the service makes the channel.
THEOREM ModesAgreeCorrect == Spec => ModesAgree
<1> DEFINE Wrong == \A f \in Modes : ModeWrong(f) <=> f \notin RightModes(chan, net)
           Agree == \A f \in Modes :
                      ModeWrong(f)' /\ ~ModeWrong(f) =>
                        ~Heard' \/ (f \in {"l"} \cap ToSet(DefModes) /\ Join)
<1>1. Good => Wrong  BY WrongIs
<1>2. Good /\ Wrong /\ Wrong' /\ [Next]_vars => [Agree]_vars
  <2> SUFFICES ASSUME Good, Wrong, Wrong', Next, NEW f \in Modes, ModeWrong(f)', ~ModeWrong(f), Heard'
               PROVE  f \in {"l"} \cap ToSet(DefModes) /\ Join
    BY DEF vars
  <2>1. chan'.on /\ chan'.amOp /\ Me \in net'.op  BY DEF Heard
  <2>2. Stays(chan, net, {"o"}) \/ (Join /\ Stays(chan, net, Unset))  BY NextGood
  <2>3. f \notin {"o"}  BY DEF Modes
  <2>4. f \in RightModes(chan, net) /\ f \notin RightModes(chan', net')  OBVIOUS
  <2>5. ~Stays(chan, net, {"o"})  BY <2>1, <2>3, <2>4 DEF Stays
  <2>6. Join /\ f \in Unset  BY <2>1, <2>2, <2>4, <2>5 DEF Stays
  <2> QED  BY <2>3, <2>6 DEF Unset
<1>3. Spec => [][Agree]_vars
  BY <1>1, <1>2, GoodAlways, PTL DEF Spec
<1> QED  BY <1>3 DEF ModesAgree

-----------------------------------------------------------------------------
(* What waits has a timer that sends it.                                   *)

\* A handler that does not see to a flush leaves the queue as it is, or empty.
Settled == chan'.queue = <<>> \/ (chan'.queue = chan.queue /\ flushes' = flushes) \/ flushes' = TRUE

LEMMA SettledTurn ==
  ASSUME Good, NEW d, NEW n, Turn(d, n), Flushed(d) \/ (d \in ChanT /\ d.queue = chan.queue),
         flushes' = flushes
  PROVE  Settled
<1>1. ASSUME d \in ChanT  PROVE chan'.queue = d.queue  BY <1>1 DEF Turn, ChanT
<1>2. CASE Flushed(d)
  <2>1. d \in ChanT /\ d.queue = <<>>  BY <1>2 DEF Flushed, ChanOK
  <2> QED  BY <1>1, <2>1 DEF Settled
<1>3. CASE d \in ChanT /\ d.queue = chan.queue  BY <1>1, <1>3 DEF Settled
<1> QED  BY <1>2, <1>3

LEMMA SettledJoins ==
  ASSUME Good, NEW u \in Users, NEW isOp \in BOOLEAN, NEW quiet \in BOOLEAN, NEW shit,
         ClientJoins(u, isOp, quiet, shit)
  PROVE  Settled
<1> DEFINE c == IF chan.exists THEN chan ELSE NewChannel(FALSE)
           users == c.users \cup {u}
           chanop == IF isOp THEN c.chanop \cup {u} ELSE c.chanop
           j == [c EXCEPT !.users = users, !.chanop = chanop]
           n == IF isOp THEN [net EXCEPT !.op = net.op \cup {u}] ELSE net
<1>1. Between(chan, net)  BY DEF Good
<1>2. ChanOK(c, {"o"}) /\ c \in ChanT /\ c.queue = chan.queue
  <2>1. CASE chan.exists  BY <1>1, <2>1 DEF Between, ChanOK
  <2>2. CASE ~chan.exists
    <3>1. chan = DelChannel  BY <1>1, <2>2 DEF Between
    <3>2. chan.queue = <<>>  BY <3>1, DelChannelType DEF Flushed
    <3>3. Flushed(NewChannel(FALSE))  BY NewChannelOff DEF Fresh
    <3> QED  BY <2>2, <3>2, <3>3 DEF Flushed, ChanOK
  <2> QED  BY <2>1, <2>2
<1>3. flushes' = TRUE \/ (\E d : d \in {j, Mban(j, u)} /\ Turn(d, n) /\ flushes' = flushes)
  BY DEF ClientJoins, FlushLater
<1> HIDE DEF c, n
<1>4. users \subseteq Users /\ chanop \subseteq Users /\ chanop \subseteq users
  BY <1>2 DEF ChanOK, ChanT
<1> HIDE DEF users, chanop
<1>5. /\ j \in ChanT /\ j.users = users /\ j.chanop = chanop /\ j.queue = c.queue /\ j.mode = c.mode
  BY <1>2, <1>4 DEF ChanT
<1> HIDE DEF j
<1>6. ChanOK(j, {"o"})  BY <1>2, <1>4, <1>5 DEF ChanOK
<1>7. Mban(j, u) = j \/ Flushed(Mban(j, u))  BY <1>6, Exists, MbanAnswers
<1>8. CASE flushes' = TRUE  BY <1>8 DEF Settled
<1>9. ASSUME NEW d, d \in {j, Mban(j, u)}, Turn(d, n), flushes' = flushes  PROVE Settled
  <2>1. Flushed(d) \/ d = j  BY <1>7, <1>9
  <2> QED  BY <1>2, <1>5, <1>9, <2>1, SettledTurn
<1> QED  BY <1>3, <1>8, <1>9

LEMMA SettledLeave ==
  ASSUME Good, NEW c \in ChanT, c.queue = chan.queue, NEW n, Leave(c, n), flushes' = flushes
  PROVE  Settled
<1>1. CASE chan' = DelChannel
  <2>1. DelChannel.queue = <<>>  BY DelChannelType DEF Flushed
  <2> QED  BY <1>1, <2>1 DEF Settled
<1>2. CASE Turn(c, n)  BY <1>2, SettledTurn
<1> QED  BY <1>1, <1>2 DEF Leave

LEMMA SettledMessage ==
  ASSUME Good, NEW source, NEW l \in Message(source), NEW shit,
         NEW bitten \in BOOLEAN, bitten => source \in Users, NEW n,
         Turn(ModeChange(chan, source, l, shit, bitten), n), flushes' = flushes
  PROVE  Settled
<1>1. l \in Seq(Told)  BY MessageType
<1>2. ChanOK(chan, Heeds)  BY Exists, ChanMore DEF Heeds
<1>3. Flushed(ModeChange(chan, source, l, shit, bitten))  BY <1>1, <1>2, ModeChangeOK
<1> QED  BY <1>3, SettledTurn

LEMMA SettledClearMode ==
  ASSUME Good, NEW S \in SUBSET Letters, OnClearMode(S)
  PROVE  Settled
<1> DEFINE T == {[sign |-> "-", letter |-> f, arg |-> NoArg] : f \in S \ {"o", "b"}}
           l == SetToSeq(T)
           source == "server"
           bitten == FALSE
           c == Cleared(l)
           h == ModeChange(chan, source, l, NoShit, bitten)
           chanop == IF "o" \in S THEN {} ELSE c.chanop
           amOp == IF "o" \in S /\ c.on THEN FALSE ELSE c.amOp
           bans == IF "b" \in S THEN {} ELSE c.bans
           d == [c EXCEPT !.chanop = chanop, !.amOp = amOp, !.bans = bans]
<1>1. flushes' = flushes /\ \E n : Turn(d, n)  BY DEF OnClearMode, Quiet, Cleared
<1>2. c = chan \/ c = h  BY DEF Cleared
<1>3. S \ {"o", "b"} \subseteq Modes  BY ModesOK DEF ModeLetters
<1>4. T \subseteq Told
  <2>1. NoArg \in Args  BY DEF Args
  <2> QED  BY <1>3, <2>1 DEF Told, Change, ModeLetters
<1>5. l \in Seq(Told)
  <2>1. IsFiniteSet(T)  BY TakenFinite
  <2> HIDE DEF T
  <2>2. l \in Seq(T)  BY <2>1, SetToSeqIs
  <2> QED  BY <1>4, <2>2, SeqMonotonic
<1> HIDE DEF T, l
<1>6. Flushed(h)
  <2>1. bitten \in BOOLEAN /\ (bitten => source \in Users)  OBVIOUS
  <2>2. ChanOK(chan, Heeds)  BY Exists, ChanMore DEF Heeds
  <2> HIDE DEF bitten, source
  <2> QED  BY <1>5, <2>1, <2>2, ModeChangeOK
<1> HIDE DEF h
<1>7. c \in ChanT /\ (c.queue = <<>> \/ c.queue = chan.queue)
  <2>1. chan \in ChanT  BY DEF Good, Between, ChanOK
  <2>2. h \in ChanT /\ h.queue = <<>>  BY <1>6 DEF Flushed, ChanOK
  <2> HIDE DEF c
  <2> QED  BY <1>2, <2>1, <2>2
<1> HIDE DEF c
<1>8. chanop \in SUBSET Users /\ amOp \in BOOLEAN /\ bans \in SUBSET Users  BY <1>7 DEF ChanT
<1> HIDE DEF chanop, amOp, bans
<1>9. d \in ChanT /\ d.queue = c.queue  BY <1>7, <1>8 DEF ChanT
<1> HIDE DEF d
<1>10. chan'.queue = d.queue  BY <1>1, <1>9 DEF Turn, ChanT
<1> QED  BY <1>1, <1>7, <1>9, <1>10 DEF Settled

LEMMA SettledFlag ==
  ASSUME Good, NEW f \in Settable, NEW value \in BOOLEAN, SetFlag(f, value)
  PROVE  Settled
<1> DEFINE flags == IF value THEN chan.flags \cup {f} ELSE chan.flags \ {f}
           c == [chan EXCEPT !.flags = flags]
<1>1. /\ flushes' = flushes
      /\ \E d : d \in {c, MassDeop(c), GetOps(c)} /\ Turn(d, net)
  BY DEF SetFlag, Quiet
<1>2. f \in Flags /\ chan \in ChanT /\ ChanOK(chan, {"o"})  BY ModesOK DEF Good, Between, ChanOK
<1>3. flags \subseteq Flags  BY <1>2 DEF ChanT
<1> HIDE DEF flags
<1>4. /\ c \in ChanT /\ c.queue = chan.queue /\ c.chanop = chan.chanop /\ c.users = chan.users
      /\ c.mode = chan.mode
  BY <1>2, <1>3 DEF ChanT
<1> HIDE DEF c
<1>5. ChanOK(c, {"o"})  BY <1>2, <1>4 DEF ChanOK
<1>6. (MassDeop(c) = c \/ Flushed(MassDeop(c))) /\ Flushed(GetOps(c))
  BY <1>5, Exists, MassDeopAnswers, GetOpsOK
<1> QED  BY <1>1, <1>4, <1>6, SettledTurn

LEMMA SettledJoin ==
  ASSUME Good, Join
  PROVE  Settled
<1>1. CASE chan.exists
  <2> DEFINE c == [chan EXCEPT !.on = TRUE]
  <2>1. Turn(c, net) /\ flushes' = flushes  BY <1>1 DEF Join
  <2>2. c \in ChanT /\ c.queue = chan.queue  BY DEF Good, Between, ChanOK, ChanT
  <2> HIDE DEF c
  <2> QED  BY <2>1, <2>2, SettledTurn
<1>2. CASE ~chan.exists
  <2> DEFINE d == NewChannel(TRUE)
  <2>1. \E n : Turn(d, n)  BY <1>2 DEF Join
  <2>2. Flushed(d)  BY NewChannelOK DEF Fresh
  <2> HIDE DEF d
  <2>3. d \in ChanT /\ d.queue = <<>>  BY <2>2 DEF Flushed, ChanOK
  <2>4. chan'.queue = d.queue  BY <2>1, <2>3 DEF Turn, ChanT
  <2> QED  BY <2>3, <2>4 DEF Settled
<1> QED  BY <1>1, <1>2

LEMMA NextSettled ==
  ASSUME Good, Next
  PROVE  Settled \/ \E list \in Lists : UpToService(list) # list /\ Deop(list)
<1>0. /\ Bannable \subseteq Users /\ Plain \subseteq Users
      /\ chan \in ChanT /\ ChanOK(chan, {"o"}) /\ Answering({"o"})
  BY ModesOK, Exists DEF Plain, ChanOK
<1>1. ASSUME NEW u \in Users, NEW shit \in Shits, NEW isOp \in BOOLEAN, NEW quiet \in BOOLEAN,
             ClientJoins(u, isOp, quiet, shit)
      PROVE  Settled
  BY <1>1, SettledJoins
<1>2. ASSUME NEW u \in Users, NEW shit \in Shits, LoginOp(u, shit)  PROVE Settled
  BY <1>2 DEF LoginOp, FlushLater, Settled
<1>3. ASSUME NEW u \in Users, ClientLeaves(u)  PROVE Settled
  <2> DEFINE users == chan.users \ {u}
             chanop == chan.chanop \ {u}
             c == [chan EXCEPT !.users = users, !.chanop = chanop]
  <2>1. flushes' = flushes /\ \E n : Leave(c, n)  BY <1>3 DEF ClientLeaves, Quiet
  <2>2. users \in SUBSET Users /\ chanop \in SUBSET Users  BY <1>0 DEF ChanT
  <2> HIDE DEF users, chanop
  <2>3. c \in ChanT /\ c.queue = chan.queue  BY <1>0, <2>2 DEF ChanT
  <2> HIDE DEF c
  <2> QED  BY <2>1, <2>3, SettledLeave
<1>4. ASSUME NEW u \in Plain \cap Bannable, NickFlood(u)  PROVE Settled
  <2> DEFINE d == Flooded(chan, u)
  <2>1. Turn(d, net) /\ chan.on /\ flushes' = flushes  BY <1>4 DEF NickFlood, Flooded, Quiet
  <2>2. d = chan \/ Flushed(d)  BY <1>0, <2>1, FloodedAnswers
  <2> HIDE DEF d
  <2> QED  BY <1>0, <2>1, <2>2, SettledTurn
<1>5. ASSUME NEW w \in Users \cap net.op, NEW l \in Message(w), NEW shit \in Shits,
             NEW bitten \in BOOLEAN, OnMode(w, l, shit, bitten)
      PROVE  Settled
  BY <1>5, SettledMessage DEF OnMode, Quiet
<1>6. ASSUME NEW l \in Message("server"), OnServerMode(l)  PROVE Settled
  <2> DEFINE source == "server"
             bitten == FALSE
  <2>1. /\ flushes' = flushes /\ l \in Message(source)
        /\ \E n : Turn(ModeChange(chan, source, l, NoShit, bitten), n)
        /\ bitten \in BOOLEAN /\ (bitten => source \in Users)
    BY <1>6 DEF OnServerMode, Quiet
  <2> HIDE DEF source, bitten
  <2> QED  BY <2>1, SettledMessage
<1>7. ASSUME NEW S \in SUBSET Letters, OnClearMode(S)  PROVE Settled  BY <1>7, SettledClearMode
<1>8. ASSUME NEW list \in Lists, NEW shit \in Shits, Op(list, shit)  PROVE Settled
  BY <1>8 DEF Op, FlushLater, Settled
<1>9. ASSUME NEW list \in Lists, Deop(list)  PROVE Settled \/ UpToService(list) # list
  BY <1>9 DEF Deop, FlushLater, Settled
<1>10. ASSUME NEW f \in Settable, NEW value \in BOOLEAN, SetFlag(f, value)  PROVE Settled
  BY <1>10, SettledFlag
<1>11. ASSUME ClearMode  PROVE Settled
  <2>1. Flushed(ClearModes(chan))  BY <1>0, <1>11, ClearModesOK DEF ClearMode
  <2> QED  BY <1>11, <2>1, SettledTurn DEF ClearMode, Quiet
<1>12. ASSUME NEW u \in Bannable, BanClient(u)  PROVE Settled
  <2> DEFINE d == Mban(chan, u)
  <2>1. d = chan \/ Flushed(d)  BY <1>0, MbanAnswers
  <2>2. Turn(d, net) /\ flushes' = flushes  BY <1>12 DEF BanClient, Quiet
  <2> HIDE DEF d
  <2> QED  BY <1>0, <2>1, <2>2, SettledTurn
<1>13. ASSUME NEW u \in Bannable, UnbanClient(u)  PROVE Settled
  <2> DEFINE d == Unban(chan, u)
  <2>1. d = chan \/ Flushed(d)  BY <1>0, UnbanAnswers
  <2>2. Turn(d, net) /\ flushes' = flushes  BY <1>13 DEF UnbanClient, Quiet
  <2> HIDE DEF d
  <2> QED  BY <1>0, <2>1, <2>2, SettledTurn
<1>14. ASSUME Join  PROVE Settled  BY <1>14, SettledJoin
<1>15. ASSUME Part  PROVE Settled
  <2> DEFINE c == [chan EXCEPT !.on = FALSE, !.amOp = FALSE]
  <2>1. flushes' = flushes /\ \E n : Leave(c, n)  BY <1>15 DEF Part, Quiet
  <2>2. c \in ChanT /\ c.queue = chan.queue  BY <1>0 DEF ChanT
  <2> HIDE DEF c
  <2> QED  BY <2>1, <2>2, SettledLeave
<1>16. ASSUME FlushTimer  PROVE Settled
  <2> DEFINE d == FlushMode(chan)
  <2>1. Turn(d, net)  BY <1>16 DEF FlushTimer
  <2>2. d \in ChanT /\ d.queue = <<>>  BY <1>0, FlushOK DEF ChanOK
  <2> HIDE DEF d
  <2>3. chan'.queue = d.queue  BY <2>1, <2>2 DEF Turn, ChanT
  <2> QED  BY <2>2, <2>3 DEF Settled
<1>17. ASSUME GetOpsTimer  PROVE Settled
  <2>1. Flushed(GetOps(chan))  BY <1>0, GetOpsOK
  <2>2. flushes' = flushes /\ (Turn(chan, net) \/ Turn(GetOps(chan), net))
    BY <1>17 DEF GetOpsTimer
  <2> QED  BY <1>0, <2>1, <2>2, SettledTurn
<1> QED  BY <1>1, <1>2, <1>3, <1>4, <1>5, <1>6, <1>7, <1>8, <1>9, <1>10, <1>11, <1>12, <1>13,
            <1>14, <1>15, <1>16, <1>17 DEF Next

\* A change that waits has its flush in EventList, whatever handlers run and in what
\* order; only a deop command with a network service among its nicks leaves changes
\* that nothing will send.
THEOREM ScheduledCorrect == Spec => Scheduled
<1> DEFINE Left == \E list \in Lists : UpToService(list) # list /\ Deop(list)
           Sees == Stuck' => Stuck \/ Left
<1>1. Good /\ Good' /\ [Next]_vars => [Sees]_vars
  <2> SUFFICES ASSUME Good, Good', Next  PROVE Sees
    OBVIOUS
  <2>1. Settled \/ Left  BY NextSettled
  <2>2. ASSUME Settled, Stuck'  PROVE Stuck
    <3>1. chan'.queue # <<>> /\ ~flushes'  BY <2>2 DEF Stuck
    <3>2. chan'.queue = chan.queue /\ flushes' = flushes  BY <2>2, <3>1 DEF Settled
    <3> QED  BY <3>1, <3>2 DEF Stuck
  <2> QED  BY <2>1, <2>2
<1>2. Spec => [][Sees]_vars
  BY <1>1, GoodAlways, PTL DEF Spec
<1> QED  BY <1>2 DEF Scheduled, Sees, Left
-----------------------------------------------------------------------------
(* What becomes of a client's op: who is taken for an op, and who will be  *)
(* one when the queue has been sent.  d is what a handler that found the   *)
(* network as n has made of c.                                             *)

WillOp(d, m, u) == Wants(d.queue, "+", "o", u) \/ (u \in m.op /\ ~Wants(d.queue, "-", "o", u))
WillBeOp(d, n, P, u) == WillOp(d, Sent(d, n, P), u)

KeepsOp(c, d, n, P, u) ==
  /\ u \in d.chanop <=> u \in c.chanop
  /\ WillBeOp(d, n, P, u) <=> WillBeOp(c, n, P, u)
DropsOp(d, n, P, u) == u \notin d.chanop /\ ~WillBeOp(d, n, P, u)
GivesOp(d, n, P, u) == u \in d.chanop /\ WillBeOp(d, n, P, u)
Fares(c, d, n, P, u) == KeepsOp(c, d, n, P, u) \/ DropsOp(d, n, P, u)

\* The service can make itself heard.
Hears(d, n, P) == d.amOp /\ Me \in Sent(d, n, P).op

LEMMA KeepsOpSame ==
  ASSUME NEW c, NEW d, d.queue = c.queue, d.out = c.out, NEW n, NEW P, NEW u
  PROVE  /\ WillBeOp(d, n, P, u) <=> WillBeOp(c, n, P, u)
         /\ (u \in d.chanop <=> u \in c.chanop) => KeepsOp(c, d, n, P, u)
         /\ Sent(d, n, P) = Sent(c, n, P)
BY DEF KeepsOp, WillBeOp, WillOp, Sent

LEMMA FaresTrans ==
  ASSUME NEW c, NEW d, NEW e, NEW n, NEW P, NEW u,
         Fares(c, d, n, P, u), Fares(d, e, n, P, u)
  PROVE  Fares(c, e, n, P, u)
BY DEF Fares, KeepsOp, DropsOp

\* Asking for something else says nothing of the client's op; asking for the op
\* or the deop settles it.
LEMMA AskFares ==
  ASSUME NEW c, NEW d, NEW e, Asked(c, d, e), NEW n, NEW P, NEW u
  PROVE  /\ ~About(e, "o", u) => KeepsOp(c, d, n, P, u)
         /\ About(e, "o", u) /\ c.on /\ e.sign = "+" => WillBeOp(d, n, P, u)
         /\ About(e, "o", u) /\ c.on /\ e.sign = "-" => ~WillBeOp(d, n, P, u)
<1> DEFINE m == Sent(d, n, P)
           q == ToSet(c.queue)
           r == ToSet(d.queue)
<1>1. d.chanop = c.chanop /\ d.out = c.out /\ (~c.on => d = c)  BY DEF Asked
<1>2. c.on => r = (q \ Alike(c.queue, e)) \cup {e}  BY DEF Asked
<1>3. Sent(c, n, P) = m  BY <1>1 DEF Sent
<1> HIDE DEF m, q, r
<1>4. ASSUME ~About(e, "o", u)
      PROVE  \A sign : Wants(d.queue, sign, "o", u) <=> Wants(c.queue, sign, "o", u)
  <2>1. \A f \in q : About(f, "o", u) => f \notin Alike(c.queue, e)
    BY <1>4 DEF Alike, Same, About, q
  <2>2. c.on => \A f : f \in r /\ About(f, "o", u) <=> f \in q /\ About(f, "o", u)
    BY <1>2, <1>4, <2>1
  <2> QED  BY <1>1, <2>2 DEF Wants, q, r
<1>5. ASSUME About(e, "o", u), c.on
      PROVE  \A sign : Wants(d.queue, sign, "o", u) <=> sign = e.sign
  <2>1. \A f \in q : About(f, "o", u) => f \in Alike(c.queue, e)
    BY <1>5 DEF Alike, Same, About, q
  <2>2. \A f : f \in r /\ About(f, "o", u) <=> f = e  BY <1>2, <1>5, <2>1
  <2> QED  BY <2>2 DEF Wants, r
<1> QED  BY <1>1, <1>3, <1>4, <1>5 DEF KeepsOp, WillBeOp, WillOp, m

\* A client whose op is taken away will not be op, and of the others it is as it was.
LEMMA TakeOpFares ==
  ASSUME NEW L, "o" \in L, "k" \notin L, NEW c, ChanOK(c, L), NEW u \in Users,
         NEW n, NEW P, NEW v
  PROVE  /\ v # u => KeepsOp(c, TakeOp(c, u), n, P, v)
         /\ v = u /\ c.on => DropsOp(TakeOp(c, u), n, P, v)
<1> DEFINE d == [c EXCEPT !.chanop = c.chanop \ {u}]
           e == Ask("-", "o", u)
<1>1. TakeOp(c, u) = Asks(d, e)  BY ChangeModeIs DEF TakeOp
<1>2. /\ ChanOK(d, L) /\ d.chanop = c.chanop \ {u} /\ SameRest(c, d)
      /\ d.queue = c.queue /\ d.out = c.out
  <2>1. c.chanop \ {u} \in SUBSET c.users  BY DEF ChanOK
  <2> QED  BY <2>1, ChanopOK
<1>3. e \in Waits(L)  BY AskIn
<1>4. (About(e, "o", v) <=> v = u) /\ e.sign = "-"  BY DEF About, Ask
<1> HIDE DEF d, e
<1>5. ~Starved(d.queue)  BY <1>2, NotStarved
<1>6. Asked(d, Asks(d, e), e)  BY <1>2, <1>3, <1>5, AsksOK
<1> DEFINE t == Asks(d, e)
<1> HIDE DEF t
<1>7. Asked(d, t, e) /\ t.chanop = d.chanop /\ d.on = c.on  BY <1>2, <1>6 DEF t, Asked, SameRest
<1>8. CASE v # u
  <2>1. KeepsOp(c, d, n, P, v)  BY <1>2, <1>8, KeepsOpSame
  <2>2. KeepsOp(d, t, n, P, v)  BY <1>4, <1>7, <1>8, AskFares
  <2> QED  BY <1>1, <1>8, <2>1, <2>2 DEF KeepsOp, t
<1>9. CASE v = u /\ c.on
  <2>1. ~WillBeOp(t, n, P, v)  BY <1>4, <1>7, <1>9, AskFares
  <2> QED  BY <1>1, <1>2, <1>7, <1>9, <2>1 DEF DropsOp, t
<1> QED  BY <1>8, <1>9

\* A flush that is heard makes what will be what is.
LEMMA FlushFares ==
  ASSUME NEW L, NEW c, ChanOK(c, L), NEW n \in NetT, NEW P \in SUBSET (Users \cup {Me}),
         Hears(c, n, P), NEW u \in P
  PROVE  KeepsOp(c, FlushMode(c), n, P, u)
<1> DEFINE m == Sent(c, n, P)
           k == Sent(FlushMode(c), n, P)
           q == c.queue
<1>1. m \in NetT /\ k = Apply(m, Changes(q), P)  BY FlushSent DEF Hears
<1>2. FlushMode(c).chanop = c.chanop /\ FlushMode(c).queue = <<>>  BY FlushOK
<1>3. ~(Wants(q, "+", "o", u) /\ Wants(q, "-", "o", u))
  BY DEF Wants, About, ChanOK, Agreed, Same
<1>4. q \in Seq(Entry)  BY DEF ChanOK, ChanT
<1>5. "o" \in ModeLetters /\ "o" \notin Modes  BY DEF ModeLetters, Modes
<1> HIDE DEF m, k, q
<1>6. Has(k, "o", u) <=> Wants(q, "+", "o", u) \/ (Has(m, "o", u) /\ ~Wants(q, "-", "o", u))
  BY <1>1, <1>3, <1>4, <1>5, AppliedHas
<1>7. u \in k.op <=> WillOp(c, m, u)  BY <1>5, <1>6 DEF Has, WillOp, q
<1>8. \A sign : ~Wants(FlushMode(c).queue, sign, "o", u)  BY <1>2, ToSetEmpty DEF Wants
<1>9. WillOp(FlushMode(c), k, u) <=> u \in k.op  BY <1>8 DEF WillOp
<1> QED  BY <1>2, <1>7, <1>9 DEF KeepsOp, WillBeOp, m, k

\* So is what is heard before and after.
LEMMA FlushHears ==
  ASSUME NEW L, NEW c, ChanOK(c, L), NEW n \in NetT, NEW P \in SUBSET (Users \cup {Me})
  PROVE  Hears(FlushMode(c), n, P) <=> Hears(c, n, P)
BY FlushMe, FlushOK DEF Hears, SameRest
\* The service gives a client op, or leaves it.
LEMMA OpNickFares ==
  ASSUME NEW L, Answering(L), NEW c, ChanOK(c, L), c.on, NEW u \in Users, NEW shit,
         NEW n, NEW P, NEW v
  PROVE  /\ KeepsOp(c, OpNick(c, u, shit), n, P, v) \/ GivesOp(OpNick(c, u, shit), n, P, v)
         /\ v # u => KeepsOp(c, OpNick(c, u, shit), n, P, v)
<1> DEFINE b == [c EXCEPT !.chanop = c.chanop \cup {u}]
           e == Ask("+", "o", u)
           d == Asks(b, e)
<1>1. KeepsOp(c, c, n, P, v)  BY DEF KeepsOp
<1>2. ChangeMode(b, "+", "o", u, FALSE) = d  BY ChangeModeIs
<1>3. OpNick(c, u, shit) = c \/ (OpNick(c, u, shit) = d /\ u \in c.users)
  BY <1>2 DEF OpNick
<1>4. ASSUME u \in c.users
      PROVE  /\ v # u => KeepsOp(c, d, n, P, v)
             /\ v = u => GivesOp(d, n, P, v)
  <2>1. c.chanop \cup {u} \in SUBSET c.users  BY <1>4 DEF ChanOK
  <2>2. /\ ChanOK(b, L) /\ b.chanop = c.chanop \cup {u} /\ SameRest(c, b)
        /\ b.queue = c.queue /\ b.out = c.out
    BY <2>1, ChanopOK
  <2>3. e \in Waits(L)  BY AskIn DEF Answering
  <2>4. (About(e, "o", v) <=> v = u) /\ e.sign = "+"  BY DEF About, Ask
  <2> HIDE DEF b, e
  <2>5. ~Starved(b.queue)  BY <2>2, NotStarved DEF Answering, Heeds
  <2>6. Asked(b, d, e)  BY <2>2, <2>3, <2>5, AsksOK
  <2> HIDE DEF d
  <2>7. d.chanop = b.chanop /\ b.on  BY <2>2, <2>6 DEF Asked, SameRest
  <2>8. CASE v # u
    <3>1. KeepsOp(c, b, n, P, v)  BY <2>2, <2>8, KeepsOpSame
    <3>2. KeepsOp(b, d, n, P, v)  BY <2>4, <2>6, <2>8, AskFares
    <3> QED  BY <2>8, <3>1, <3>2 DEF KeepsOp
  <2>9. CASE v = u
    <3>1. WillBeOp(d, n, P, v)  BY <2>4, <2>6, <2>7, <2>9, AskFares
    <3> QED  BY <2>2, <2>7, <2>9, <3>1 DEF GivesOp
  <2> QED  BY <2>8, <2>9
<1> QED  BY <1>1, <1>3, <1>4

\* The ops of a list are given, and nobody loses one.
LEMMA OpAllFares ==
  ASSUME NEW L, Answering(L), NEW c, ChanOK(c, L), c.on, NEW list \in Seq(Users), NEW shit,
         NEW n, NEW P, NEW v
  PROVE  LET d == OpAll(c, list, shit) IN KeepsOp(c, d, n, P, v) \/ GivesOp(d, n, P, v)
<1> DEFINE Rises(d) == KeepsOp(c, d, n, P, v) \/ GivesOp(d, n, P, v)
           T == {d \in NudgedFrom(c, L) : Rises(d)}
<1>1. ASSUME NEW t \in T, NEW x \in Users  PROVE OpNick(t, x, shit) \in T
  <2>1. Nudged(c, t, L) /\ ChanOK(t, L) /\ t.on  BY DEF NudgedFrom, Nudged, SameRest
  <2>2. Nudged(c, OpNick(t, x, shit), L)  BY <2>1, NudgeOne
  <2>3. KeepsOp(t, OpNick(t, x, shit), n, P, v) \/ GivesOp(OpNick(t, x, shit), n, P, v)
    BY <2>1, OpNickFares
  <2>4. Rises(OpNick(t, x, shit))  BY <2>3 DEF KeepsOp, GivesOp
  <2> HIDE DEF Rises
  <2> QED  BY <2>2, <2>4 DEF NudgedFrom, Nudged, ChanOK
<1>2. c \in T  BY DEF NudgedFrom, Nudged, ChanOK, SameRest, KeepsOp
<1> HIDE DEF T
<1>3. OpAll(c, list, shit) \in T  BY <1>1, <1>2, OpAllIn
<1> QED  BY <1>3 DEF T

\* The ops of a list are taken away, and nobody gets one.
LEMMA TakeAllFares ==
  ASSUME NEW L, Answering(L), NEW c, ChanOK(c, L), c.on, NEW list \in Seq(Users),
         NEW n, NEW P, NEW v
  PROVE  Fares(c, TakeAll(c, list), n, P, v) /\ Fares(c, DeopAll(c, list), n, P, v)
<1> DEFINE T == {d \in NudgedFrom(c, L) : Fares(c, d, n, P, v)}
<1>1. ASSUME NEW t \in T, NEW x \in Users  PROVE TakeOp(t, x) \in T
  <2>1. Nudged(c, t, L) /\ ChanOK(t, L) /\ t.on  BY DEF NudgedFrom, Nudged, SameRest
  <2>2. Nudged(c, TakeOp(t, x), L)  BY <2>1, NudgeOne
  <2>3. Fares(t, TakeOp(t, x), n, P, v)  BY <2>1, TakeOpFares DEF Fares, Answering, Heeds
  <2>4. Fares(c, TakeOp(t, x), n, P, v)  BY <2>3, FaresTrans
  <2> QED  BY <2>2, <2>4 DEF NudgedFrom, Nudged, ChanOK
<1>2. ASSUME NEW t \in T, NEW x \in Users  PROVE DeopNick(t, x) \in T
  BY <1>1 DEF DeopNick
<1>3. c \in T  BY DEF NudgedFrom, Nudged, ChanOK, SameRest, KeepsOp, Fares
<1> HIDE DEF T
<1>4. TakeAll(c, list) \in T /\ DeopAll(c, list) \in T  BY <1>1, <1>2, <1>3, TakeAllIn, DeopAllIn
<1> QED  BY <1>4 DEF T

\* A ban is asked for, or its end, and the queue sent.
LEMMA AskSendFares ==
  ASSUME NEW L, Answering(L), NEW c, ChanOK(c, L), NEW sign \in {"+", "-"}, NEW u \in Users,
         NEW bans \in SUBSET Users, NEW n \in NetT, NEW P \in SUBSET (Users \cup {Me}),
         Hears(c, n, P), NEW v \in P
  PROVE  LET a == ChangeMode(c, sign, "b", u, FALSE)
         IN /\ KeepsOp(c, FlushMode(a), n, P, v)
            /\ KeepsOp(c, FlushMode([a EXCEPT !.bans = bans]), n, P, v)
<1> DEFINE e == Ask(sign, "b", u)
           a == Asks(c, e)
           b == [a EXCEPT !.bans = bans]
           M == L \cup {"b"}
<1>1. ChangeMode(c, sign, "b", u, FALSE) = a  BY ChangeModeIs, Zenon
<1>2. e \in Waits(M)  BY AskIn
<1>3. "k" \notin M /\ L \subseteq M  BY DEF Answering, Heeds
<1>4. ChanOK(c, M)  BY <1>3, ChanMore
<1>5. ~About(e, "o", v)  BY DEF About, Ask
<1> HIDE DEF e, M
<1>6. ~Starved(c.queue)  BY <1>3, <1>4, NotStarved
<1>7. ChanOK(a, M) /\ Asked(c, a, e)  BY <1>2, <1>4, <1>6, AsksOK
<1> HIDE DEF a
<1>8. /\ b \in ChanT /\ b.queue = a.queue /\ b.out = a.out /\ b.amOp = a.amOp
      /\ b.chanop = a.chanop /\ SameRest(a, b)
  BY <1>7 DEF ChanOK, ChanT, SameRest
<1> HIDE DEF b
<1>9. ChanOK(b, M)  BY <1>7, <1>8 DEF ChanOK, SameRest
<1>10. KeepsOp(c, a, n, P, v) /\ KeepsOp(a, b, n, P, v)  BY <1>5, <1>7, <1>8, AskFares, KeepsOpSame
<1>11. Hears(a, n, P) /\ Hears(b, n, P)  BY <1>7, <1>8 DEF Hears, Asked, SameRest, Sent
<1>12. KeepsOp(a, FlushMode(a), n, P, v) /\ KeepsOp(b, FlushMode(b), n, P, v)
  BY <1>7, <1>9, <1>11, FlushFares
<1> QED  BY <1>1, <1>10, <1>12 DEF KeepsOp, b

\* Nobody but the banned client loses its op, and nobody gets one.
LEMMA MbanFares ==
  ASSUME NEW L, Answering(L), NEW c, ChanOK(c, L), NEW u \in Users,
         NEW n \in NetT, NEW P \in SUBSET (Users \cup {Me}), Me \in Sent(c, n, P).op, NEW v \in P
  PROVE  Fares(c, Mban(c, u), n, P, v) /\ (v # u => KeepsOp(c, Mban(c, u), n, P, v))
<1> DEFINE b == IF u \in c.chanop THEN TakeOp(c, u) ELSE c
<1>1. CASE c.on /\ c.amOp /\ u \in c.users \ Services
  <2>1. Mban(c, u) = FlushMode(ChangeMode(b, "+", "b", u, FALSE))  BY <1>1 DEF Mban
  <2>2. "o" \in L /\ "k" \notin L  BY DEF Answering, Heeds
  <2>3. KeepsOp(c, c, n, P, v) /\ ChanOK(c, L)  BY DEF KeepsOp
  <2>4. /\ ChanOK(TakeOp(c, u), L) /\ TakeOp(c, u).amOp /\ TakeOp(c, u).out = c.out
        /\ v # u => KeepsOp(c, TakeOp(c, u), n, P, v)
        /\ v = u => DropsOp(TakeOp(c, u), n, P, v)
    BY <1>1, <2>2, TakeOpOK, TakeOpFares DEF SameRest
  <2>5. ChanOK(b, L) /\ Hears(b, n, P) /\ Fares(c, b, n, P, v) /\ (v # u => KeepsOp(c, b, n, P, v))
    BY <1>1, <2>3, <2>4 DEF Hears, Sent, Fares
  <2> HIDE DEF b
  <2>6. {} \in SUBSET Users /\ "+" \in {"+", "-"}  OBVIOUS
  <2>7. KeepsOp(b, Mban(c, u), n, P, v)  BY <2>1, <2>5, <2>6, AskSendFares
  <2> QED  BY <2>5, <2>7 DEF Fares, KeepsOp, DropsOp
<1>2. CASE ~(c.on /\ c.amOp /\ u \in c.users \ Services)
  <2>1. Mban(c, u) = c  BY <1>2 DEF Mban
  <2> QED  BY <2>1 DEF Fares, KeepsOp
<1> QED  BY <1>1, <1>2

LEMMA UnbanFares ==
  ASSUME NEW L, Answering(L), NEW c, ChanOK(c, L), NEW u \in Users,
         NEW n \in NetT, NEW P \in SUBSET (Users \cup {Me}), Me \in Sent(c, n, P).op, NEW v \in P
  PROVE  KeepsOp(c, Unban(c, u), n, P, v)
<1>1. CASE ~(c.on /\ c.amOp)
  <2>1. Unban(c, u) = c  BY <1>1 DEF Unban
  <2> QED  BY <2>1 DEF KeepsOp
<1>2. CASE c.on /\ c.amOp /\ u \notin c.bans
  <2>1. Unban(c, u) = FlushMode(c)  BY <1>2 DEF Unban
  <2> QED  BY <1>2, <2>1, FlushFares DEF Hears
<1>3. CASE c.on /\ c.amOp /\ u \in c.bans
  <2> DEFINE a == ChangeMode(c, "-", "b", u, FALSE)
             bans == a.bans \ {u}
  <2>1. Unban(c, u) = FlushMode([a EXCEPT !.bans = bans])  BY <1>3 DEF Unban
  <2>2. bans \in SUBSET Users
    <3>1. c.bans \subseteq Users  BY DEF ChanOK, ChanT
    <3>2. a = c \/ a = [c EXCEPT !.queue = a.queue]  BY DEF ChangeMode
    <3>3. a.bans = c.bans
      <4> HIDE DEF a
      <4> QED  BY <3>2 DEF ChanOK, ChanT
    <3> HIDE DEF a
    <3> QED  BY <3>1, <3>3
  <2> HIDE DEF bans, a
  <2>3. "-" \in {"+", "-"} /\ Hears(c, n, P)  BY <1>3 DEF Hears
  <2> QED  BY <2>1, <2>2, <2>3, AskSendFares DEF a
<1> QED  BY <1>1, <1>2, <1>3
\* A nick flood leaves the banned client among the ops, and gives nobody an op.
LEMMA FloodedFares ==
  ASSUME NEW L, Answering(L), NEW c, ChanOK(c, L), c.on, NEW u \in Users,
         NEW n \in NetT, NEW P \in SUBSET (Users \cup {Me}), Me \in Sent(c, n, P).op, NEW v \in P
  PROVE  /\ v # u => KeepsOp(c, Flooded(c, u), n, P, v)
         /\ WillBeOp(Flooded(c, u), n, P, v) => WillBeOp(c, n, P, v)
<1> DEFINE e == Ask("-", "o", u)
           a == Asks(c, e)
           b == IF u \in c.chanop THEN ChangeMode(c, "-", "o", u, FALSE) ELSE c
           d == FlushMode(ChangeMode(b, "+", "b", u, FALSE))
<1>1. Flooded(c, u) = IF c.amOp THEN d ELSE c  BY DEF Flooded
<1>2. ChangeMode(c, "-", "o", u, FALSE) = a  BY ChangeModeIs
<1>3. e \in Waits(L)  BY AskIn DEF Answering
<1>4. (About(e, "o", v) <=> v = u) /\ e.sign = "-"  BY DEF About, Ask
<1> HIDE DEF e
<1>5. ~Starved(c.queue)  BY NotStarved DEF Answering, Heeds
<1>6. ChanOK(a, L) /\ Asked(c, a, e)  BY <1>3, <1>5, AsksOK
<1>7. /\ v # u => KeepsOp(c, a, n, P, v)
      /\ v = u => ~WillBeOp(a, n, P, v)
  BY <1>4, <1>6, AskFares
<1>8. a.amOp = c.amOp /\ a.out = c.out  BY <1>6 DEF Asked, SameRest
<1> HIDE DEF a
<1>9. /\ ChanOK(b, L) /\ b.amOp = c.amOp /\ b.out = c.out
      /\ v # u => KeepsOp(c, b, n, P, v)
      /\ WillBeOp(b, n, P, v) => WillBeOp(c, n, P, v)
  BY <1>2, <1>6, <1>7, <1>8 DEF KeepsOp
<1> HIDE DEF b
<1>10. CASE c.amOp
  <2>1. Hears(b, n, P) /\ {} \in SUBSET Users /\ "+" \in {"+", "-"}  BY <1>9, <1>10 DEF Hears, Sent
  <2>2. KeepsOp(b, d, n, P, v)  BY <1>9, <2>1, AskSendFares
  <2> QED  BY <1>1, <1>9, <1>10, <2>2 DEF KeepsOp
<1>11. CASE ~c.amOp  BY <1>1, <1>11 DEF KeepsOp
<1> QED  BY <1>10, <1>11

LEMMA MassDeopFares ==
  ASSUME NEW L, Answering(L), NEW c, ChanOK(c, L),
         NEW n \in NetT, NEW P \in SUBSET (Users \cup {Me}), Me \in Sent(c, n, P).op, NEW v \in P
  PROVE  Fares(c, MassDeop(c), n, P, v)
<1> DEFINE S == c.chanop \ Services
           list == SetToSeq(S)
           b == TakeAll(c, list)
<1>1. S \subseteq Users  BY DEF ChanOK, ChanT
<1>2. IsFiniteSet(S)  BY <1>1, ModesOK, FS_Subset
<1> HIDE DEF S
<1>3. list \in Seq(S)  BY <1>2, SetToSeqIs
<1>4. list \in Seq(Users)  BY <1>1, <1>3, SeqMonotonic
<1> HIDE DEF list
<1>5. CASE c.on /\ c.amOp
  <2>1. MassDeop(c) = FlushMode(b)  BY <1>5 DEF MassDeop, TakeAll, list, S
  <2>2. Nudged(c, b, L)  BY <1>4, TakeAllNudges
  <2>3. Fares(c, b, n, P, v)  BY <1>4, <1>5, TakeAllFares
  <2> HIDE DEF b
  <2>4. ChanOK(b, L) /\ Hears(b, n, P)  BY <1>5, <2>2 DEF Nudged, SameRest, Hears, Sent
  <2>5. KeepsOp(b, FlushMode(b), n, P, v)  BY <2>4, FlushFares
  <2> QED  BY <2>1, <2>3, <2>5, FaresTrans DEF Fares
<1>6. CASE ~(c.on /\ c.amOp)
  <2>1. MassDeop(c) = c  BY <1>6 DEF MassDeop
  <2> QED  BY <2>1 DEF Fares, KeepsOp
<1> QED  BY <1>5, <1>6

LEMMA ClearModesFares ==
  ASSUME NEW c, ChanOK(c, {"o"}), c.on, c.amOp,
         NEW n \in NetT, NEW P \in SUBSET (Users \cup {Me}), Me \in Sent(c, n, P).op, NEW v \in P
  PROVE  KeepsOp(c, ClearModes(c), n, P, v)
<1> DEFINE k == ClearAll(c, c.mode).c
<1>1. ClearModes(c) = FlushMode(k)  BY DEF ClearModes, ClearAll, ClearOp, ClearArg
<1>2. SoFar(c, k, c.mode)
  <2>1. c.mode \in Seq(Modes) /\ IsInjective(c.mode)  BY DEF ChanOK, ChanT
  <2> QED  BY <2>1, ClearAllOK
<1> HIDE DEF k
<1>3. /\ ChanOK(k, Every) /\ k.out = c.out /\ k.amOp /\ k.chanop = c.chanop
      /\ \A e : e.letter = "o" => (e \in ToSet(k.queue) <=> e \in ToSet(c.queue))
  BY <1>2 DEF SoFar
<1>4. \A sign : Wants(k.queue, sign, "o", v) <=> Wants(c.queue, sign, "o", v)
  BY <1>3 DEF Wants, About
<1>5. KeepsOp(c, k, n, P, v) /\ Hears(k, n, P)
  BY <1>3, <1>4 DEF KeepsOp, WillBeOp, WillOp, Hears, Sent
<1>6. KeepsOp(k, FlushMode(k), n, P, v)  BY <1>3, <1>5, FlushFares
<1> QED  BY <1>1, <1>5, <1>6 DEF KeepsOp

\* The service asks for its own op, and sends what waits when it has it.
LEMMA GetOpsFares ==
  ASSUME NEW L, Answering(L), NEW c, ChanOK(c, L), NEW n \in NetT,
         NEW P \in SUBSET (Users \cup {Me}), Hears(GetOps(c), n, P), NEW v \in P \cap Users
  PROVE  KeepsOp(c, GetOps(c), n, P, v)
<1> DEFINE out == Append(c.out, MyOp)
           a == [c EXCEPT !.out = out]
           h == [a EXCEPT !.amOp = TRUE]
           d == FlushMode(h)
           m == Sent(c, n, P)
           k == Sent(h, n, P)
<1>1. GetOps(c) = d  BY GetOpsIs
<1>2. c \in ChanT /\ c.out \in Seq(Line) /\ MyOp \in Line  BY MyOpRead DEF ChanOK, ChanT
<1>3. out \in Seq(Line)  BY <1>2
<1> HIDE DEF out
<1>4. /\ a \in ChanT /\ a.chanop = c.chanop /\ a.queue = c.queue /\ a.out = out
      /\ a.users = c.users /\ a.mode = c.mode
  BY <1>2, <1>3 DEF ChanT
<1> HIDE DEF a
<1>5. /\ h \in ChanT /\ h.chanop = c.chanop /\ h.queue = c.queue /\ h.out = out
      /\ h.users = c.users /\ h.mode = c.mode
  BY <1>4 DEF ChanT
<1> HIDE DEF h
<1>6. ChanOK(h, L)  BY <1>5 DEF ChanOK
<1>7. m \in NetT  BY <1>2, SentType
<1>8. k = ApplyOp(m, OpMe, P)
  <2>1. k = DeliverOp(m, MyOp, P)
    <3>1. k = Deliver(n, Append(c.out, MyOp), P)  BY <1>5 DEF Sent, out
    <3>2. Deliver(n, Append(c.out, MyOp), P) = DeliverOp(Deliver(n, c.out, P), MyOp, P)
      BY <1>2, DeliverAppend, Zenon
    <3> QED  BY <3>1, <3>2 DEF Sent
  <2> HIDE DEF m, k
  <2>2. k = Apply(m, <<OpMe>>, P)  BY <2>1, MyOpRead DEF DeliverOp, MyOp
  <2>3. <<OpMe>> = Append(<<>>, OpMe) /\ <<>> \in Seq(Change)  OBVIOUS
  <2>4. Apply(m, Append(<<>>, OpMe), P) = ApplyOp(Apply(m, <<>>, P), OpMe, P)
    BY <1>7, <2>3, MyOpRead, ApplyAppend, Zenon
  <2>5. Apply(m, <<>>, P) = m  BY <1>7, ApplyEmpty, Zenon
  <2> QED  BY <2>2, <2>3, <2>4, <2>5
<1>9. v \in k.op <=> v \in m.op
  <2>1. v # Me  BY ModesOK
  <2>2. OpMe.letter = "o" /\ OpMe.arg = Me /\ "o" \notin Modes  BY DEF OpMe, Modes
  <2> QED  BY <1>7, <1>8, <2>1, <2>2 DEF ApplyOp, PutIn, NetT
<1> HIDE DEF m, k
<1>10. KeepsOp(c, h, n, P, v)  BY <1>5, <1>9 DEF KeepsOp, WillBeOp, WillOp, m, k
<1>11. Hears(h, n, P)  BY <1>1, <1>6, FlushHears
<1>12. KeepsOp(h, d, n, P, v)  BY <1>6, <1>11, FlushFares
<1> QED  BY <1>1, <1>10, <1>12 DEF KeepsOp

-----------------------------------------------------------------------------
(* What a message makes of a client's op.                                  *)

\* The op a client gives u is taken back.
Fought(c, source, u, shit) ==
  /\ source \in Plain /\ u \notin Services
  /\ \/ "NOOP" \in c.flags
     \/ "STRICTOP" \in c.flags /\ u \notin OpAccess
     \/ shit[u] >= 20 /\ source \notin Wardens

\* The source may lose its op over it, the others do not.
Aside(c, d, n, P, v, source) == Fares(c, d, n, P, v) /\ (v # source => KeepsOp(c, d, n, P, v))

LEMMA AsideTrans ==
  ASSUME NEW c, NEW d, NEW e, NEW n, NEW P, NEW v, NEW source,
         Aside(c, d, n, P, v, source), Aside(d, e, n, P, v, source)
  PROVE  Aside(c, e, n, P, v, source)
BY DEF Aside, Fares, KeepsOp, DropsOp

LEMMA KeepsAside ==
  ASSUME NEW c, NEW d, NEW n, NEW P, NEW v, NEW source, KeepsOp(c, d, n, P, v)
  PROVE  Aside(c, d, n, P, v, source)
BY DEF Aside, Fares

LEMMA OnOpFares ==
  ASSUME NEW c, ChanOK(c, Heeds), c.on, NEW source, NEW target \in Users \cup {Me}, NEW shit,
         NEW n \in NetT, NEW P \in SUBSET (Users \cup {Me}), Me \in Sent(c, n, P).op,
         NEW v \in P \cap Users
  PROVE  LET d == OnOp(c, source, target, shit)
         IN /\ v # target => Aside(c, d, n, P, v, source)
            /\ v = target /\ v \in c.users =>
                 IF Fought(c, source, v, shit) THEN DropsOp(d, n, P, v)
                 ELSE v \in d.chanop /\ (WillBeOp(d, n, P, v) <=> WillBeOp(c, n, P, v))
<1> DEFINE d == OnOp(c, source, target, shit)
           opped == [c EXCEPT !.chanop = c.chanop \cup {target}]
           one == TakeOp(opped, target)
           both == TakeOp(one, source)
           Flooding == Fought(c, source, target, shit)
<1>1. KeepsOp(c, c, n, P, v) /\ c \in ChanT  BY DEF KeepsOp, ChanOK
<1>2. CASE target = Me
  <2> DEFINE e == [c EXCEPT !.amOp = TRUE]
  <2>1. d = e  BY <1>2 DEF OnOp
  <2>2. e.queue = c.queue /\ e.out = c.out /\ e.chanop = c.chanop  BY <1>1 DEF ChanT
  <2> HIDE DEF e
  <2>3. KeepsOp(c, e, n, P, v)  BY <2>2, KeepsOpSame
  <2>4. v # target  BY <1>2, ModesOK
  <2> QED  BY <2>1, <2>3, <2>4, KeepsAside
<1>3. CASE target # Me /\ target \notin c.users
  <2>1. d = c  BY <1>3 DEF OnOp
  <2> QED  BY <1>1, <1>3, <2>1, KeepsAside
<1>4. CASE target # Me /\ target \in c.users
  <2>0. target \in Users  BY <1>4
  <2>1. /\ ChanOK(opped, Heeds) /\ SameRest(c, opped) /\ opped.chanop = c.chanop \cup {target}
        /\ opped.queue = c.queue /\ opped.out = c.out
    <3>1. c.chanop \cup {target} \in SUBSET c.users  BY <1>4 DEF ChanOK
    <3> QED  BY <3>1, ChanopOK
  <2>2. \/ ~Flooding /\ d = opped
        \/ ~Flooding /\ opped.amOp /\ d = FlushMode(opped)
        \/ Flooding /\ (d = one \/ d = both) /\ source \in Users
    <3>1. opped.amOp = c.amOp  BY <2>1 DEF SameRest
    <3> HIDE DEF opped
    <3>2. d = OnOp(c, source, target, shit)  OBVIOUS
    <3>3. Flooding => source \in Users  BY DEF Fought, Plain
    <3> QED  BY <1>4, <3>1, <3>3 DEF OnOp, Fought, opped
  <2> HIDE DEF opped, d, Flooding
  <2>3. /\ v # target => KeepsOp(c, opped, n, P, v)
        /\ v = target => v \in opped.chanop
        /\ WillBeOp(opped, n, P, v) <=> WillBeOp(c, n, P, v)
        /\ Sent(opped, n, P) = Sent(c, n, P) /\ opped.on
    BY <2>1, KeepsOpSame DEF SameRest
  <2>4. "o" \in Heeds /\ "k" \notin Heeds  BY DEF Heeds
  <2>5. CASE ~Flooding /\ d = opped
    BY <2>3, <2>5, KeepsAside DEF Flooding, d
  <2>6. CASE ~Flooding /\ opped.amOp /\ d = FlushMode(opped)
    <3>1. Hears(opped, n, P)  BY <2>3, <2>6 DEF Hears
    <3>2. KeepsOp(opped, d, n, P, v)  BY <2>1, <2>6, <3>1, FlushFares
    <3>3. v # target => KeepsOp(c, d, n, P, v)  BY <2>3, <3>2 DEF KeepsOp
    <3>4. v = target => v \in d.chanop /\ (WillBeOp(d, n, P, v) <=> WillBeOp(c, n, P, v))
      BY <2>3, <3>2 DEF KeepsOp
    <3> QED  BY <2>6, <3>3, <3>4, KeepsAside DEF Flooding, d
  <2>7. CASE Flooding /\ (d = one \/ d = both) /\ source \in Users
    <3>1. /\ v # target => KeepsOp(opped, one, n, P, v)
          /\ v = target => DropsOp(one, n, P, v)
          /\ ChanOK(one, Heeds) /\ one.on
      BY <2>0, <2>1, <2>3, <2>4, TakeOpFares, TakeOpOK DEF SameRest
    <3> HIDE DEF one
    <3>2. /\ v # source => KeepsOp(one, both, n, P, v)
          /\ v = source => DropsOp(both, n, P, v)
      BY <2>4, <2>7, <3>1, TakeOpFares
    <3> HIDE DEF both
    <3>3. v # target => Aside(c, one, n, P, v, source) /\ Aside(one, both, n, P, v, source)
      BY <2>3, <3>1, <3>2 DEF Aside, Fares, KeepsOp
    <3>4. v # target => Aside(c, d, n, P, v, source)  BY <2>7, <3>3, AsideTrans
    <3>5. v = target => DropsOp(d, n, P, v)  BY <2>7, <3>1, <3>2 DEF DropsOp, KeepsOp
    <3> QED  BY <2>7, <3>4, <3>5 DEF Flooding, d
  <2> QED  BY <2>2, <2>5, <2>6, <2>7
<1> QED  BY <1>2, <1>3, <1>4

\* One change.
LEMMA HearFares ==
  ASSUME NEW c, ChanOK(c, Heeds), c.on, NEW source, NEW ch \in Told, NEW shit,
         NEW n \in NetT, NEW P \in SUBSET (Users \cup {Me}), Me \in Sent(c, n, P).op,
         NEW v \in P \cap Users
  PROVE  LET d == Hear(c, source, ch, shit)
         IN /\ ~About(ch, "o", v) => Aside(c, d, n, P, v, source)
            /\ About(ch, "o", v) /\ ch.sign = "+" /\ v \in c.users =>
                 IF Fought(c, source, v, shit) THEN DropsOp(d, n, P, v)
                 ELSE v \in d.chanop /\ (WillBeOp(d, n, P, v) <=> WillBeOp(c, n, P, v))
            /\ About(ch, "o", v) /\ ch.sign = "-" =>
                 /\ WillBeOp(d, n, P, v) <=> WillBeOp(c, n, P, v)
                 /\ source \in c.users => v \notin d.chanop
<1> DEFINE d == Hear(c, source, ch, shit)
<1>1. c \in ChanT  BY DEF ChanOK
<1>2. /\ ch.letter \in {"o", "b"} \cup Modes /\ "o" \notin Modes /\ "b" \notin Modes
      /\ ch.sign \in {"+", "-"} /\ "+" # "-"
  BY DEF Told, Change, ModeLetters, Modes
<1>3. CASE TooLow(c, ch)
  <2> DEFINE e == Ask("-", "l", NoArg)
  <2>1. /\ d.out = c.out /\ d.chanop = c.chanop
        /\ ToSet(d.queue) = (ToSet(c.queue) \ Alike(c.queue, e)) \cup {e}
    BY <1>3, HearLow
  <2>2. ~About(ch, "o", v)  BY <1>3 DEF TooLow, About
  <2>3. e.letter = "l"  BY DEF Ask
  <2> HIDE DEF e, d
  <2>4. \A f : f.letter = "o" => (f \in ToSet(d.queue) <=> f \in ToSet(c.queue))
    BY <2>1, <2>3 DEF Alike, Same
  <2>5. \A sign : Wants(d.queue, sign, "o", v) <=> Wants(c.queue, sign, "o", v)
    BY <2>4 DEF Wants, About
  <2>6. KeepsOp(c, d, n, P, v)  BY <2>1, <2>5 DEF KeepsOp, WillBeOp, WillOp, Sent
  <2> QED  BY <2>2, <2>6, KeepsAside DEF d
<1>4. CASE ~TooLow(c, ch) /\ ch.letter # "o"
  <2>1. d.out = c.out /\ d.queue = c.queue /\ d.chanop = c.chanop  BY <1>4, HearOK
  <2> HIDE DEF d
  <2>2. KeepsOp(c, d, n, P, v)  BY <2>1, KeepsOpSame
  <2>3. ~About(ch, "o", v)  BY <1>4 DEF About
  <2> QED  BY <2>2, <2>3, KeepsAside DEF d
<1>5. CASE ch.letter = "o" /\ ch.sign = "+"
  <2>1. d = OnOp(c, source, ch.arg, shit)  BY <1>2, <1>5 DEF Hear
  <2>2. ch.arg \in Users \cup {Me}  BY <1>5 DEF Told
  <2>3. About(ch, "o", v) <=> v = ch.arg  BY <1>5 DEF About
  <2> HIDE DEF d
  <2>4. /\ v # ch.arg => Aside(c, d, n, P, v, source)
        /\ v = ch.arg /\ v \in c.users =>
             IF Fought(c, source, v, shit) THEN DropsOp(d, n, P, v)
             ELSE v \in d.chanop /\ (WillBeOp(d, n, P, v) <=> WillBeOp(c, n, P, v))
    BY <2>1, <2>2, OnOpFares
  <2> QED  BY <1>2, <1>5, <2>3, <2>4 DEF d
<1>6. CASE ch.letter = "o" /\ ch.sign = "-"
  <2>1. d = IF source \in c.users THEN [c EXCEPT !.chanop = c.chanop \ {ch.arg}] ELSE c
    BY <1>2, <1>6 DEF Hear, OnDeop
  <2>2. /\ d.queue = c.queue /\ d.out = c.out
        /\ d.chanop = IF source \in c.users THEN c.chanop \ {ch.arg} ELSE c.chanop
    BY <1>1, <2>1 DEF ChanT
  <2>3. About(ch, "o", v) <=> v = ch.arg  BY <1>6 DEF About
  <2> HIDE DEF d
  <2>4. /\ WillBeOp(d, n, P, v) <=> WillBeOp(c, n, P, v)
        /\ v # ch.arg => KeepsOp(c, d, n, P, v)
    BY <2>2, KeepsOpSame
  <2> QED  BY <1>2, <1>6, <2>2, <2>3, <2>4, KeepsAside DEF d
<1> QED  BY <1>2, <1>3, <1>4, <1>5, <1>6

\* What a message l of one source says of a client's op, and what is made of it.
Spoken(c, d, n, P, v, source, shit, l) ==
  /\ ~Names(l, "o", v) => Aside(c, d, n, P, v, source)
  /\ Names(l, "o", v) /\ AllSign(l, "o", v, "+") /\ v \in c.users =>
       IF Fought(c, source, v, shit) THEN DropsOp(d, n, P, v)
       ELSE v # source => v \in d.chanop /\ (WillBeOp(d, n, P, v) <=> WillBeOp(c, n, P, v))
  /\ AllSign(l, "o", v, "-") =>
       /\ WillBeOp(d, n, P, v) => WillBeOp(c, n, P, v)
       /\ Names(l, "o", v) /\ source \in c.users => v \notin d.chanop

LEMMA SpokenAside ==
  ASSUME NEW c, NEW d, NEW e, NEW n, NEW P, NEW v, NEW source, NEW shit, NEW l,
         Spoken(c, d, n, P, v, source, shit, l), Aside(d, e, n, P, v, source)
  PROVE  Spoken(c, e, n, P, v, source, shit, l)
<1>1. ~Names(l, "o", v) => Aside(c, e, n, P, v, source)  BY AsideTrans DEF Spoken
<1>2. /\ DropsOp(d, n, P, v) => DropsOp(e, n, P, v)
      /\ v # source => KeepsOp(d, e, n, P, v)
      /\ WillBeOp(e, n, P, v) => WillBeOp(d, n, P, v)
      /\ v \notin d.chanop => v \notin e.chanop
  BY DEF Aside, Fares, KeepsOp, DropsOp
<1> QED  BY <1>1, <1>2 DEF Spoken, KeepsOp

\* A message that has been heard.
LEMMA HearAllSpoken ==
  ASSUME NEW c, ChanOK(c, Heeds), c.on, NEW source, NEW shit, NEW l \in Seq(Told),
         NEW n \in NetT, NEW P \in SUBSET (Users \cup {Me}), Me \in Sent(c, n, P).op,
         NEW v \in P \cap Users
  PROVE  Spoken(c, HearAll(c, source, l, shit), n, P, v, source, shit, l)
<1> DEFINE H(k) == HearAll(c, source, k, shit)
           Q == {k \in Seq(Told) : Spoken(c, H(k), n, P, v, source, shit, k)}
<1>0. c \in Chans  BY DEF Chans, ChanOK
<1>1. <<>> \in Q
  <2>1. <<>> \in Seq(Told)  OBVIOUS
  <2>2. H(<<>>) = c  BY <1>0, HearAllIs
  <2>3. ~Names(<<>>, "o", v)  BY ToSetEmpty DEF Names
  <2>4. Aside(c, c, n, P, v, source)  BY DEF Aside, Fares, KeepsOp
  <2> HIDE DEF H
  <2>5. Spoken(c, H(<<>>), n, P, v, source, shit, <<>>)  BY <2>2, <2>3, <2>4 DEF Spoken
  <2> QED  BY <2>1, <2>5
<1>2. ASSUME NEW k \in Seq(Told), NEW ch \in Told, k \in Q  PROVE Append(k, ch) \in Q
  <2> DEFINE kc == Append(k, ch)
             a == H(k)
             d == H(kc)
  <2>1. kc \in Seq(Told)  OBVIOUS
  <2>2. d = Hear(a, source, ch, shit)  BY <1>0, HearAllAppend
  <2>3. ChanOK(a, Heeds) /\ Kept(c, a) /\ SentSame(c, a)  BY HearAllOK
  <2>4. ToSet(kc) = ToSet(k) \cup {ch}  BY ToSetAppend
  <2>5. Spoken(c, a, n, P, v, source, shit, k)  BY <1>2
  <2> HIDE DEF kc, a, d, H
  <2>6. a.on /\ a.users = c.users /\ Me \in Sent(a, n, P).op /\ a.flags = c.flags
    BY <2>3 DEF Kept, SentSame
  <2>7. /\ ~About(ch, "o", v) => Aside(a, d, n, P, v, source)
        /\ About(ch, "o", v) /\ ch.sign = "+" /\ v \in c.users =>
             IF Fought(c, source, v, shit) THEN DropsOp(d, n, P, v)
             ELSE v \in d.chanop /\ (WillBeOp(d, n, P, v) <=> WillBeOp(a, n, P, v))
        /\ About(ch, "o", v) /\ ch.sign = "-" =>
             /\ WillBeOp(d, n, P, v) <=> WillBeOp(a, n, P, v)
             /\ source \in c.users => v \notin d.chanop
    <3>1. Fought(a, source, v, shit) <=> Fought(c, source, v, shit)  BY <2>6 DEF Fought
    <3> QED  BY <2>2, <2>3, <2>6, <3>1, HearFares
  <2>8. /\ Names(kc, "o", v) <=> Names(k, "o", v) \/ About(ch, "o", v)
        /\ \A sign : AllSign(kc, "o", v, sign) <=>
             AllSign(k, "o", v, sign) /\ (About(ch, "o", v) => ch.sign = sign)
    BY <2>4 DEF Names, AllSign
  <2>9. CASE ~About(ch, "o", v)
    <3>1. Spoken(c, d, n, P, v, source, shit, k)  BY <2>5, <2>7, <2>9, SpokenAside
    <3> QED  BY <2>1, <2>8, <2>9, <3>1 DEF Spoken, d, kc
  <2>10. CASE About(ch, "o", v)
    <3>1. AllSign(kc, "o", v, "+") /\ v \in c.users =>
            IF Fought(c, source, v, shit) THEN DropsOp(d, n, P, v)
            ELSE v # source => v \in d.chanop /\ (WillBeOp(d, n, P, v) <=> WillBeOp(c, n, P, v))
      <4>1. SUFFICES ASSUME AllSign(kc, "o", v, "+"), v \in c.users, v # source,
                            ~Fought(c, source, v, shit)
                     PROVE  WillBeOp(a, n, P, v) <=> WillBeOp(c, n, P, v)
        BY <2>7, <2>8, <2>10
      <4>2. CASE Names(k, "o", v)  BY <2>5, <2>8, <4>1, <4>2 DEF Spoken
      <4>3. CASE ~Names(k, "o", v)  BY <2>5, <4>1, <4>3 DEF Spoken, Aside, KeepsOp
      <4> QED  BY <4>2, <4>3
    <3>2. AllSign(kc, "o", v, "-") =>
            /\ WillBeOp(d, n, P, v) => WillBeOp(c, n, P, v)
            /\ source \in c.users => v \notin d.chanop
      BY <2>5, <2>7, <2>8, <2>10 DEF Spoken
    <3>3. Spoken(c, d, n, P, v, source, shit, kc)  BY <2>8, <2>10, <3>1, <3>2 DEF Spoken
    <3> QED  BY <2>1, <3>3 DEF d, kc
  <2> QED  BY <2>9, <2>10
<1> HIDE DEF Q
<1>3. l \in Q  BY <1>1, <1>2, SeqInduct
<1> QED  BY <1>3 DEF Q

\* And answered.
LEMMA ModeChangeSpoken ==
  ASSUME NEW c, ChanOK(c, Heeds), c.on, NEW source, NEW l \in Seq(Told), NEW shit,
         NEW bitten \in BOOLEAN, bitten => source \in Users,
         NEW n \in NetT, NEW P \in SUBSET (Users \cup {Me}),
         Hears(ModeChange(c, source, l, shit, bitten), n, P), NEW v \in P \cap Users
  PROVE  Spoken(c, ModeChange(c, source, l, shit, bitten), n, P, v, source, shit, l)
<1> DEFINE h == HearAll(c, source, l, shit)
           b == IF bitten THEN Mban(h, source) ELSE h
           d == FlushMode(b)
<1>1. ModeChange(c, source, l, shit, bitten) = d  BY DEF ModeChange, HearAll
<1>2. ChanOK(h, Heeds) /\ SentSame(c, h)  BY HearAllOK
<1>3. Answering(Heeds)  BY DEF Answering, Heeds
<1>4. Me \in Sent(c, n, P).op => Spoken(c, h, n, P, v, source, shit, l)  BY HearAllSpoken
<1> HIDE DEF h
<1>5. Answers(h, b, Heeds)  BY <1>2, <1>3, MbanAnswers, AnswersSame
<1>6. Me \in Sent(h, n, P).op => Aside(h, b, n, P, v, source)
  <2>1. KeepsOp(h, h, n, P, v)  BY DEF KeepsOp
  <2>2. CASE ~bitten  BY <2>1, <2>2, KeepsAside
  <2>3. CASE bitten
    <3>1. source \in Users /\ b = Mban(h, source)  BY <2>3
    <3> HIDE DEF b
    <3>2. Me \in Sent(h, n, P).op =>
            Fares(h, b, n, P, v) /\ (v # source => KeepsOp(h, b, n, P, v))
      BY <1>2, <1>3, <3>1, MbanFares
    <3> QED  BY <3>2 DEF Aside
  <2> QED  BY <2>2, <2>3
<1> HIDE DEF b
<1>7. ChanOK(b, Heeds)  BY <1>5 DEF Answers
<1>8. Hears(b, n, P)  BY <1>1, <1>7, FlushHears
<1>9. Me \in Sent(h, n, P).op /\ Me \in Sent(c, n, P).op
  BY <1>2, <1>5, <1>8 DEF Answers, SentSame, Hears
<1>10. KeepsOp(b, d, n, P, v)  BY <1>7, <1>8, FlushFares
<1>11. Spoken(c, b, n, P, v, source, shit, l)  BY <1>4, <1>6, <1>9, SpokenAside
<1> QED  BY <1>1, <1>10, <1>11, KeepsAside, SpokenAside

-----------------------------------------------------------------------------
(* The structure and the network after a step.                             *)

\* Whoever is op is on the channel.
OpsIn == net.op \subseteq Present(chan)

LEMMA ApplyIn ==
  ASSUME NEW P \in SUBSET (Users \cup {Me}), NEW n \in NetT, n.op \subseteq P,
         NEW l \in Seq(Change)
  PROVE  Apply(n, l, P).op \subseteq P
<1> DEFINE R == {m \in NetT : m.op \subseteq P}
           step == ApplyStep(P)
<1>1. FoldType(NetT, Change, n, step, l) /\ Apply(n, l, P) = Folded(step, n, l)
  BY ApplyFold
<1>2. ASSUME NEW m \in R, NEW i \in 1..Len(l)  PROVE step[<<m, l[i]>>] \in R
  <2>1. l[i] \in Change  OBVIOUS
  <2>2. step[<<m, l[i]>>] = ApplyOp(m, l[i], P)  BY <2>1 DEF ApplyStep
  <2> DEFINE k == ApplyOp(m, l[i], P)
  <2>3. k \in NetT /\ \A x : Has(k, "o", x) <=>
                               IF About(l[i], "o", x) /\ x \in P
                                 THEN l[i].sign = "+" ELSE Has(m, "o", x)
    BY <2>1, ApplyOpIs DEF ModeLetters
  <2> HIDE DEF k
  <2>4. \A y, x : Has(y, "o", x) <=> x \in y.op  BY DEF Has, Modes
  <2>5. k.op \subseteq P  BY <2>3, <2>4
  <2> QED  BY <2>2, <2>3, <2>5 DEF k
<1>3. n \in R  OBVIOUS
<1> HIDE DEF R, step
<1>4. Folded(step, n, l) \in R  BY <1>1, <1>2, <1>3, FoldedKeeps
<1> QED  BY <1>1, <1>4 DEF R

LEMMA SentIn ==
  ASSUME NEW P \in SUBSET (Users \cup {Me}), NEW n \in NetT, n.op \subseteq P,
         NEW d \in ChanT
  PROVE  Sent(d, n, P).op \subseteq P
<1> DEFINE R == {m \in NetT : m.op \subseteq P}
           step == DeliverStep(P)
           out == d.out
<1>0. out \in Seq(Line)  BY DEF ChanT
<1> HIDE DEF out
<1>1. FoldType(NetT, Line, n, step, out) /\ Deliver(n, out, P) = Folded(step, n, out)
  BY <1>0, DeliverFold
<1>2. ASSUME NEW m \in R, NEW i \in 1..Len(out)  PROVE step[<<m, out[i]>>] \in R
  <2>1. out[i] \in Line  BY <1>0
  <2>2. step[<<m, out[i]>>] = DeliverOp(m, out[i], P)  BY <2>1 DEF DeliverStep
  <2>3. ReadLine(out[i]) \in Seq(Change)  BY <2>1, ReadLineType
  <2>4. Apply(m, ReadLine(out[i]), P) \in R  BY <2>3, ApplyIn, ApplyType
  <2> QED  BY <2>2, <2>4 DEF DeliverOp
<1>3. n \in R  OBVIOUS
<1> HIDE DEF R, step
<1>4. Folded(step, n, out) \in R  BY <1>1, <1>2, <1>3, FoldedKeeps
<1> QED  BY <1>1, <1>4 DEF R, Sent, out

\* What a handler leaves as d is there when it has returned.
LEMMA AfterTurn ==
  ASSUME NEW d \in ChanT, NEW n \in NetT, Turn(d, n)
  PROVE  /\ chan'.users = d.users /\ chan'.chanop = d.chanop /\ chan'.queue = d.queue
         /\ chan'.flags = d.flags /\ chan'.on = d.on
         /\ net' = Sent(d, n, Present(d))
         /\ Heard' <=> d.on /\ Hears(d, n, Present(d))
         /\ n.op \subseteq Present(d) => OpsIn'
         /\ \A u : WillOp(chan', net', u) <=> WillBeOp(d, n, Present(d), u)
<1> DEFINE e == [d EXCEPT !.out = <<>>]
           P == Present(d)
           m == Sent(d, n, P)
<1>1. chan' = e /\ net' = m  BY DEF Turn, Sent
<1>2. /\ e.users = d.users /\ e.chanop = d.chanop /\ e.queue = d.queue /\ e.flags = d.flags
      /\ e.on = d.on /\ e.amOp = d.amOp
  BY DEF ChanT
<1> HIDE DEF e
<1>3. Present(e) = P  BY <1>2 DEF Present
<1>4. P \in SUBSET (Users \cup {Me})  BY PresentType
<1> HIDE DEF P
<1>5. n.op \subseteq P => m.op \subseteq P  BY <1>4, SentIn
<1>6. \A u : WillOp(e, m, u) <=> WillBeOp(d, n, P, u)  BY <1>2 DEF WillOp, WillBeOp
<1> HIDE DEF m
<1>7. Heard' <=> chan'.on /\ chan'.amOp /\ Me \in net'.op  BY DEF Heard
<1>8. OpsIn' <=> net'.op \subseteq Present(chan')  BY DEF OpsIn, Present
<1>9. Hears(d, n, P) <=> d.amOp /\ Me \in m.op  BY DEF Hears, m
<1> QED  BY <1>1, <1>2, <1>3, <1>5, <1>6, <1>7, <1>8, <1>9 DEF P, m

\* The properties speak of the queue by its places.
LEMMA WillIs ==
  ASSUME NEW u
  PROVE  /\ WillBe("o", u, u \in net.op) <=> WillOp(chan, net, u)
         /\ WillBe("o", u, u \in net.op)' <=> WillOp(chan', net', u)
<1>1. \A sign : Queued(sign, "o", u) <=> Wants(chan.queue, sign, "o", u)
  BY DEF Queued, Wants, About, ToSet
<1>2. \A sign : Queued(sign, "o", u)' <=> Wants(chan'.queue, sign, "o", u)
  BY DEF Queued, Wants, About, ToSet
<1> QED  BY <1>1, <1>2 DEF WillBe, WillOp

\* What becomes of the op of a client in a step that none of the ways to be wrong
\* about it is: nothing, or the structure and the network agree that it is not op,
\* or that it is, or it is gone.
Accounted(u) ==
  Heard' =>
    /\ u \in chan'.users => u \in chan.users
    /\ u \in chan.users =>
         \/ /\ u \in chan'.chanop <=> u \in chan.chanop
            /\ WillOp(chan', net', u) <=> WillOp(chan, net, u)
         \/ u \notin chan'.chanop /\ ~WillOp(chan', net', u)
         \/ u \in chan'.chanop /\ WillOp(chan', net', u) /\ "NOOP" \notin chan.flags
         \/ u \notin chan'.users /\ (WillOp(chan', net', u) => WillOp(chan, net, u))

\* A handler that found the structure as b and leaves d.
LEMMA TurnAccounts ==
  ASSUME NEW u, NEW n \in NetT, NEW b, b.out = <<>>, b.queue = chan.queue,
         u \in b.chanop <=> u \in chan.chanop, u \in n.op <=> u \in net.op,
         NEW d \in ChanT, u \in d.users <=> u \in chan.users, Turn(d, n),
         LET P == Present(d)
         IN u \in chan.users /\ d.on /\ Hears(d, n, P) =>
              \/ Fares(b, d, n, P, u)
              \/ GivesOp(d, n, P, u) /\ "NOOP" \notin chan.flags
  PROVE  Accounted(u)
<1> DEFINE P == Present(d)
<1>1. P \in SUBSET (Users \cup {Me})  BY PresentType
<1> HIDE DEF P
<1>2. Sent(b, n, P) = n  BY <1>1, SentNone
<1>3. WillBeOp(b, n, P, u) <=> WillOp(chan, net, u)  BY <1>2 DEF WillBeOp, WillOp
<1>4. /\ chan'.users = d.users /\ chan'.chanop = d.chanop
      /\ Heard' <=> d.on /\ Hears(d, n, P)
      /\ WillOp(chan', net', u) <=> WillBeOp(d, n, P, u)
  BY AfterTurn DEF P
<1>5. u \in chan.users /\ d.on /\ Hears(d, n, P) =>
        \/ Fares(b, d, n, P, u)
        \/ GivesOp(d, n, P, u) /\ "NOOP" \notin chan.flags
  BY DEF P
<1> QED  BY <1>3, <1>4, <1>5 DEF Accounted, Fares, KeepsOp, DropsOp, GivesOp

-----------------------------------------------------------------------------
(* The handlers that account for the op of every client on the channel.    *)

\* Whoever is op is on the channel still, and the clients W are accounted for.
Steady(W) == OpsIn' /\ \A u \in W : Accounted(u)

\* The handler made d of b, of nobody's membership.
LEMMA HandlerSteady ==
  ASSUME Good, OpsIn, NEW b, b.out = <<>>, b.queue = chan.queue, b.chanop = chan.chanop,
         NEW n \in NetT, n.op = net.op,
         NEW d \in ChanT, d.users = chan.users, chan.on => d.on, Turn(d, n),
         NEW W \in SUBSET Users,
         \A P \in SUBSET (Users \cup {Me}), u \in W :
           u \in P /\ d.on /\ Hears(d, n, P) =>
             \/ Fares(b, d, n, P, u)
             \/ GivesOp(d, n, P, u) /\ "NOOP" \notin chan.flags
  PROVE  Steady(W)
<1> DEFINE P == Present(d)
<1>2. P \in SUBSET (Users \cup {Me})  BY PresentType
<1>3. n.op \subseteq P  BY DEF OpsIn, Present
<1>4. OpsIn'  BY <1>3, AfterTurn
<1>5. ASSUME NEW u \in W  PROVE Accounted(u)
  <2>1. u \in chan.users => u \in P  BY DEF Present
  <2>2. u \in chan.users /\ d.on /\ Hears(d, n, P) =>
          \/ Fares(b, d, n, P, u)
          \/ GivesOp(d, n, P, u) /\ "NOOP" \notin chan.flags
    BY <1>2, <2>1
  <2> QED  BY <2>2, TurnAccounts
<1> QED  BY <1>4, <1>5 DEF Steady

\* It answered, so that the service was op if it is.
LEMMA AnswerSteady ==
  ASSUME Good, OpsIn, NEW b, b.out = <<>>, b.queue = chan.queue, b.chanop = chan.chanop,
         b.users = chan.users, b.on = chan.on,
         NEW L, NEW d, Answers(b, d, L), Turn(d, net), NEW W \in SUBSET Users,
         \A P \in SUBSET (Users \cup {Me}), u \in W :
           u \in P /\ b.on /\ Hears(d, net, P) /\ Me \in Sent(b, net, P).op =>
             \/ Fares(b, d, net, P, u)
             \/ GivesOp(d, net, P, u) /\ "NOOP" \notin chan.flags
  PROVE  Steady(W)
<1>1. d \in ChanT /\ d.users = chan.users /\ d.on = b.on  BY DEF Answers, ChanOK, Kept
<1>2. net \in NetT  BY DEF Good, Between
<1>3. \A P \in SUBSET (Users \cup {Me}) : Hears(d, net, P) => Me \in Sent(b, net, P).op
  BY <1>2 DEF Answers, Hears
<1> QED  BY <1>1, <1>2, <1>3, HandlerSteady

LEMMA ChanParts ==
  ASSUME Good
  PROVE  /\ chan.out = <<>> /\ chan \in ChanT /\ ChanOK(chan, {"o"}) /\ ChanOK(chan, Heeds)
         /\ net \in NetT /\ Answering({"o"}) /\ chan.users \subseteq Users
<1>1. ChanOK(chan, Heeds)  BY Exists, ChanMore DEF Heeds
<1> QED  BY <1>1, Exists DEF Good, Between, ChanOK, ChanT

LEMMA LoginOpSteady ==
  ASSUME Good, OpsIn, NEW u \in Users, NEW shit, LoginOp(u, shit)
  PROVE  Steady(Users)
<1> DEFINE d == OpNick(chan, u, shit)
<1>1. Turn(d, net) /\ chan.on /\ "NOOP" \notin chan.flags  BY DEF LoginOp
<1>2. Nudged(chan, chan, {"o"})  BY Exists DEF Nudged, SameRest
<1>3. Nudged(chan, d, {"o"})  BY <1>2, Exists, NudgeOne
<1>4. \A P, v : KeepsOp(chan, d, net, P, v) \/ GivesOp(d, net, P, v)
  BY <1>1, Exists, OpNickFares
<1> HIDE DEF d
<1>5. Answers(chan, d, {"o"})  BY <1>3, NudgedAnswers
<1> QED  BY <1>1, <1>4, <1>5, ChanParts, AnswerSteady DEF Fares

LEMMA OpSteady ==
  ASSUME Good, OpsIn, NEW list \in Lists, NEW shit, Op(list, shit)
  PROVE  Steady(Users)
<1> DEFINE d == OpAll(chan, list, shit)
<1>1. Turn(d, net) /\ chan.on /\ "NOOP" \notin chan.flags  BY DEF Op, OpAll
<1>2. list \in Seq(Users)  BY ListsType
<1>3. Nudged(chan, d, {"o"})  BY <1>2, Exists, OpAllNudges
<1>4. \A P, v : KeepsOp(chan, d, net, P, v) \/ GivesOp(d, net, P, v)
  BY <1>1, <1>2, Exists, OpAllFares
<1> HIDE DEF d
<1>5. Answers(chan, d, {"o"})  BY <1>3, NudgedAnswers
<1> QED  BY <1>1, <1>4, <1>5, ChanParts, AnswerSteady DEF Fares

LEMMA DeopSteady ==
  ASSUME Good, OpsIn, NEW list \in Lists, Deop(list)
  PROVE  Steady(Users)
<1> DEFINE d == DeopAll(chan, UpToService(list))
<1>1. Turn(d, net) /\ chan.on  BY DEF Deop, DeopAll
<1>2. UpToService(list) \in Seq(Users)  BY ListsType
<1>3. Nudged(chan, d, {"o"})  BY <1>2, Exists, DeopAllNudges
<1>4. \A P, v : Fares(chan, d, net, P, v)  BY <1>1, <1>2, Exists, TakeAllFares
<1> HIDE DEF d
<1>5. Answers(chan, d, {"o"})  BY <1>3, NudgedAnswers
<1> QED  BY <1>1, <1>4, <1>5, ChanParts, AnswerSteady

LEMMA BanClientSteady ==
  ASSUME Good, OpsIn, NEW u \in Users, BanClient(u)
  PROVE  Steady(Users)
<1> DEFINE d == Mban(chan, u)
<1>1. Turn(d, net)  BY DEF BanClient
<1>2. Answers(chan, d, {"o"})  BY Exists, MbanAnswers
<1>3. \A P \in SUBSET (Users \cup {Me}), v \in Users :
        v \in P /\ Me \in Sent(chan, net, P).op => Fares(chan, d, net, P, v)
  BY ChanParts, MbanFares
<1> HIDE DEF d
<1> QED  BY <1>1, <1>2, <1>3, ChanParts, AnswerSteady

LEMMA UnbanClientSteady ==
  ASSUME Good, OpsIn, NEW u \in Users, UnbanClient(u)
  PROVE  Steady(Users)
<1> DEFINE d == Unban(chan, u)
<1>1. Turn(d, net)  BY DEF UnbanClient
<1>2. Answers(chan, d, {"o"})  BY Exists, UnbanAnswers
<1>3. \A P \in SUBSET (Users \cup {Me}), v \in Users :
        v \in P /\ Me \in Sent(chan, net, P).op => KeepsOp(chan, d, net, P, v)
  BY ChanParts, UnbanFares
<1> HIDE DEF d
<1> QED  BY <1>1, <1>2, <1>3, ChanParts, AnswerSteady DEF Fares

LEMMA FlushTimerSteady ==
  ASSUME Good, OpsIn, FlushTimer
  PROVE  Steady(Users)
<1> DEFINE d == FlushMode(chan)
<1>1. Turn(d, net)  BY DEF FlushTimer
<1>2. "b" \notin {"o"}  OBVIOUS
<1>3. Answers(chan, d, {"o"})  BY <1>2, Exists, FlushAnswers
<1>4. \A P \in SUBSET (Users \cup {Me}), v \in Users :
        v \in P /\ Hears(d, net, P) => KeepsOp(chan, d, net, P, v)
  BY ChanParts, FlushHears, FlushFares
<1> HIDE DEF d
<1> QED  BY <1>1, <1>3, <1>4, ChanParts, AnswerSteady DEF Fares

LEMMA ClearModeSteady ==
  ASSUME Good, OpsIn, ClearMode
  PROVE  Steady(Users)
<1> DEFINE d == ClearModes(chan)
<1>1. Turn(d, net) /\ chan.on /\ chan.amOp  BY DEF ClearMode
<1>2. Answers(chan, d, Every)  BY <1>1, Exists, ClearModesOK
<1>3. \A P \in SUBSET (Users \cup {Me}), v \in Users :
        v \in P /\ Me \in Sent(chan, net, P).op => KeepsOp(chan, d, net, P, v)
  BY <1>1, ChanParts, ClearModesFares
<1> HIDE DEF d
<1> QED  BY <1>1, <1>2, <1>3, ChanParts, AnswerSteady DEF Fares

\* The structure that is left was there before the handler wrote.
LEMMA IdleSteady ==
  ASSUME Good, OpsIn, NEW b \in ChanT, b.out = <<>>, b.queue = chan.queue,
         b.chanop = chan.chanop, b.users = chan.users, chan.on => b.on, Turn(b, net)
  PROVE  Steady(Users)
<1>1. \A P, u : Fares(b, b, net, P, u)  BY DEF Fares, KeepsOp
<1> QED  BY <1>1, ChanParts, HandlerSteady

LEMMA GetOpsSteady ==
  ASSUME Good, OpsIn, NEW b, ChanOK(b, {"o"}), b.out = <<>>, b.queue = chan.queue,
         b.chanop = chan.chanop, b.users = chan.users, b.on = chan.on, Turn(GetOps(b), net)
  PROVE  Steady(Users)
<1> DEFINE d == GetOps(b)
<1>1. Flushed(d) /\ Kept(b, d)  BY Exists, GetOpsOK
<1>2. \A P \in SUBSET (Users \cup {Me}), u \in Users :
        u \in P /\ Hears(d, net, P) => KeepsOp(b, d, net, P, u)
  BY ChanParts, GetOpsFares
<1>3. Turn(d, net)  OBVIOUS
<1> HIDE DEF d
<1>4. d \in ChanT /\ d.users = chan.users /\ d.on = b.on  BY <1>1 DEF Flushed, ChanOK, Kept
<1> QED  BY <1>2, <1>3, <1>4, ChanParts, HandlerSteady DEF Fares

LEMMA GetOpsTimerSteady ==
  ASSUME Good, OpsIn, GetOpsTimer
  PROVE  Steady(Users)
<1>1. CASE Turn(chan, net)  BY <1>1, ChanParts, IdleSteady
<1>2. CASE Turn(GetOps(chan), net)  BY <1>2, ChanParts, GetOpsSteady
<1> QED  BY <1>1, <1>2 DEF GetOpsTimer

LEMMA SetFlagSteady ==
  ASSUME Good, OpsIn, NEW f \in Settable, NEW value \in BOOLEAN, SetFlag(f, value)
  PROVE  Steady(Users)
<1> DEFINE flags == IF value THEN chan.flags \cup {f} ELSE chan.flags \ {f}
           c == [chan EXCEPT !.flags = flags]
           done == CASE f = "NOOP" /\ value -> MassDeop(c)
                     [] f = "ALWAYSOP" /\ value /\ ~c.amOp -> GetOps(c)
                     [] OTHER -> c
<1>1. Turn(done, net)  BY DEF SetFlag
<1>2. chan \in ChanT /\ ChanOK(chan, {"o"}) /\ chan.out = <<>>  BY ChanParts
<1>3. flags \subseteq Flags
  <2>1. f \in Flags  BY ModesOK
  <2> QED  BY <1>2, <2>1 DEF ChanT
<1> HIDE DEF flags
<1>4. /\ c \in ChanT /\ c.out = <<>> /\ c.queue = chan.queue /\ c.chanop = chan.chanop
      /\ c.users = chan.users /\ c.on = chan.on /\ c.mode = chan.mode
  BY <1>2, <1>3 DEF ChanT
<1> HIDE DEF c
<1>5. ChanOK(c, {"o"})  BY <1>2, <1>4 DEF ChanOK
<1>6. CASE done = MassDeop(c)
  <2>1. Answers(c, done, {"o"})  BY <1>5, <1>6, Exists, MassDeopAnswers
  <2>2. \A P \in SUBSET (Users \cup {Me}), u \in Users :
          u \in P /\ Me \in Sent(c, net, P).op => Fares(c, done, net, P, u)
    BY <1>5, <1>6, ChanParts, MassDeopFares
  <2> HIDE DEF done
  <2> QED  BY <1>1, <1>4, <2>1, <2>2, AnswerSteady
<1>7. CASE done = GetOps(c)
  <2>1. Turn(GetOps(c), net)  BY <1>1, <1>7
  <2> QED  BY <1>4, <1>5, <2>1, GetOpsSteady
<1>8. CASE done = c
  <2>1. Turn(c, net)  BY <1>1, <1>8
  <2> QED  BY <1>4, <2>1, IdleSteady
<1> QED  BY <1>6, <1>7, <1>8

LEMMA JoinSteady ==
  ASSUME Good, OpsIn, Join
  PROVE  Steady(Users)
<1>1. CASE chan.exists
  <2> DEFINE c == [chan EXCEPT !.on = TRUE]
  <2>1. Turn(c, net)  BY <1>1 DEF Join
  <2>2. /\ c \in ChanT /\ c.users = chan.users /\ c.chanop = chan.chanop /\ c.queue = chan.queue
        /\ c.out = <<>> /\ c.on
    BY ChanParts DEF ChanT
  <2> HIDE DEF c
  <2> QED  BY <2>1, <2>2, IdleSteady
<1>2. CASE ~chan.exists
  <2> DEFINE d == NewChannel(TRUE)
             n == [net EXCEPT !.op = {Me}]
  <2>1. Turn(d, n)  BY <1>2 DEF Join
  <2>2. Fresh(d) /\ d.on  BY NewChannelOK
  <2> HIDE DEF d
  <2>3. d \in ChanT /\ d.users = {}  BY <2>2 DEF Fresh, Flushed, ChanOK
  <2>4. n \in NetT /\ n.op = {Me}  BY ChanParts DEF NetT
  <2> HIDE DEF n
  <2>5. n.op \subseteq Present(d)  BY <2>2, <2>4 DEF Present
  <2>6. OpsIn' /\ chan'.users = {}  BY <2>1, <2>3, <2>4, <2>5, AfterTurn
  <2>7. chan.users = {}  BY <1>2 DEF Good, Between, DelChannel
  <2> QED  BY <2>6, <2>7 DEF Steady, Accounted
<1> QED  BY <1>1, <1>2

\* A structure that is left as it was changed, or is no more.
LEMMA LeaveIn ==
  ASSUME NEW c \in ChanT, NEW n \in NetT, n.op \subseteq Present(c), Leave(c, n)
  PROVE  /\ OpsIn'
         /\ Turn(c, n) \/ ~Heard'
<1>1. CASE Turn(c, n)  BY <1>1, AfterTurn
<1>2. CASE chan' = DelChannel /\ net' = Nobody
  <2>1. OpsIn'
    <3>1. OpsIn' <=> net'.op \subseteq Present(chan')  BY DEF OpsIn, Present
    <3> QED  BY <1>2, <3>1 DEF Nobody
  <2>2. ~DelChannel.on  BY DEF DelChannel
  <2>3. Heard' => chan'.on  BY DEF Heard
  <2> QED  BY <1>2, <2>1, <2>2, <2>3
<1> QED  BY <1>1, <1>2 DEF Leave

LEMMA PartSteady ==
  ASSUME Good, OpsIn, Part
  PROVE  Steady(Users)
<1> DEFINE c == [chan EXCEPT !.on = FALSE, !.amOp = FALSE]
           n == [net EXCEPT !.op = net.op \ {Me}]
<1>1. Leave(c, n)  BY DEF Part
<1>2. c \in ChanT /\ c.users = chan.users /\ ~c.on  BY ChanParts DEF ChanT
<1> HIDE DEF c
<1>3. n \in NetT /\ n.op = net.op \ {Me}  BY ChanParts DEF NetT
<1> HIDE DEF n
<1>4. n.op \subseteq Present(c)  BY <1>2, <1>3 DEF OpsIn, Present
<1>5. OpsIn' /\ (Turn(c, n) \/ ~Heard')  BY <1>1, <1>2, <1>3, <1>4, LeaveIn
<1>6. ~Heard'  BY <1>2, <1>3, <1>5, AfterTurn
<1> QED  BY <1>5, <1>6 DEF Steady, Accounted

LEMMA ClientLeavesSteady ==
  ASSUME Good, OpsIn, NEW v \in Users, ClientLeaves(v)
  PROVE  Steady(Users)
<1> DEFINE users == chan.users \ {v}
           chanop == chan.chanop \ {v}
           c == [chan EXCEPT !.users = users, !.chanop = chanop]
           n == [net EXCEPT !.op = net.op \ {v}]
<1>1. Leave(c, n)  BY DEF ClientLeaves
<1>2. users \subseteq Users /\ chanop \subseteq Users  BY ChanParts DEF ChanT
<1> HIDE DEF users, chanop
<1>3. /\ c \in ChanT /\ c.users = users /\ c.chanop = chanop /\ c.queue = chan.queue
      /\ c.out = <<>> /\ c.on = chan.on
  BY <1>2, ChanParts DEF ChanT
<1> HIDE DEF c
<1>4. n \in NetT /\ n.op = net.op \ {v}  BY ChanParts DEF NetT
<1> HIDE DEF n
<1>5. n.op \subseteq Present(c)  BY <1>3, <1>4 DEF OpsIn, Present, users
<1>6. OpsIn' /\ (Turn(c, n) \/ ~Heard')  BY <1>1, <1>3, <1>4, <1>5, LeaveIn
<1>7. ASSUME NEW u \in Users, Turn(c, n)  PROVE Accounted(u)
  <2>1. CASE u # v
    <3>1. u \in c.chanop <=> u \in chan.chanop  BY <1>3, <2>1 DEF chanop
    <3>2. u \in n.op <=> u \in net.op  BY <1>4, <2>1
    <3>3. u \in c.users <=> u \in chan.users  BY <1>3, <2>1 DEF users
    <3>4. \A P : Fares(c, c, n, P, u)  BY DEF Fares, KeepsOp
    <3> QED  BY <1>3, <1>4, <1>7, <3>1, <3>2, <3>3, <3>4, TurnAccounts
  <2>2. CASE u = v
    <3> DEFINE P == Present(c)
    <3>1. P \in SUBSET (Users \cup {Me})  BY <1>3, PresentType
    <3> HIDE DEF P
    <3>2. Sent(c, n, P) = n  BY <1>3, <1>4, <3>1, SentNone
    <3>3. WillOp(chan', net', u) <=> WillBeOp(c, n, P, u)  BY <1>3, <1>4, <1>7, AfterTurn DEF P
    <3>4. WillOp(chan', net', u) => WillOp(chan, net, u)
      BY <1>3, <1>4, <2>2, <3>2, <3>3 DEF WillBeOp, WillOp
    <3>5. u \notin chan'.users  BY <1>3, <1>4, <1>7, <2>2, AfterTurn DEF users
    <3> QED  BY <3>4, <3>5 DEF Accounted
  <2> QED  BY <2>1, <2>2
<1> QED  BY <1>6, <1>7 DEF Steady, Accounted

\* Modes that a server removes touch nobody's op; without ops the service is not
\* heard.
LEMMA OnClearModeSteady ==
  ASSUME Good, OpsIn, NEW S \in SUBSET Letters, OnClearMode(S)
  PROVE  Steady(Users)
<1> DEFINE T == {[sign |-> "-", letter |-> f, arg |-> NoArg] : f \in S \ {"o", "b"}}
           l == SetToSeq(T)
           c == Cleared(l)
           chanop == IF "o" \in S THEN {} ELSE c.chanop
           amOp == IF "o" \in S /\ c.on THEN FALSE ELSE c.amOp
           bans == IF "b" \in S THEN {} ELSE c.bans
           d == [c EXCEPT !.chanop = chanop, !.amOp = amOp, !.bans = bans]
           n == [op |-> IF "o" \in S THEN {} ELSE net.op,
                 bans |-> IF "b" \in S THEN {} ELSE net.bans,
                 modes |-> net.modes \ S]
<1>1. chan.exists /\ Turn(d, n)  BY DEF OnClearMode, Cleared
<1>2. T \subseteq Told /\ \A ch \in T : ch.letter \in Modes /\ ch.sign = "-"
  <2>1. S \ {"o", "b"} \subseteq Modes  BY ModesOK DEF ModeLetters
  <2>2. NoArg \in Args  BY DEF Args
  <2> QED  BY <2>1, <2>2 DEF Told, Change, ModeLetters, Modes
<1>3. IsFiniteSet(T)  BY TakenFinite
<1> HIDE DEF T
<1>4. l \in Seq(Told) /\ \A ch \in ToSet(l) : ch.letter \in Modes /\ ch.sign = "-"
  <2>1. l \in Seq(T) /\ ToSet(l) = T  BY <1>3, SetToSeqIs
  <2> QED  BY <1>2, <2>1, SeqMonotonic
<1> HIDE DEF l
<1>5. ChanOK(c, {"o"})  BY <1>1, <1>4, ClearedOK
<1>6. c = chan \/ c = ModeChange(chan, "server", l, NoShit, FALSE)  BY DEF Cleared
<1>7. c.users = chan.users /\ c.on = chan.on
  <2>1. CASE c = chan  BY <2>1
  <2>2. CASE c = ModeChange(chan, "server", l, NoShit, FALSE)
    <3> DEFINE source == "server"
               bitten == FALSE
               h == HearAll(chan, source, l, NoShit)
    <3>1. bitten \in BOOLEAN /\ (bitten => source \in Users)  OBVIOUS
    <3>2. c = ModeChange(chan, source, l, NoShit, bitten)  BY <2>2
    <3> HIDE DEF source, bitten, c
    <3>3. Kept(chan, h) /\ Answers(h, c, Heeds)
      BY <1>4, <3>1, <3>2, ChanParts, ModeChangeOK
    <3> QED  BY <3>3 DEF Kept, Answers
  <2> QED  BY <1>6, <2>1, <2>2
<1> HIDE DEF c
<1>8. /\ c \in ChanT /\ chanop \subseteq Users /\ amOp \in BOOLEAN /\ bans \subseteq Users
  BY <1>5 DEF ChanOK, ChanT
<1>9. /\ "o" \in S /\ c.on => ~amOp
      /\ "o" \notin S => amOp = c.amOp /\ chanop = c.chanop /\ n.op = net.op
      /\ "o" \in S => n.op = {}
  OBVIOUS
<1> HIDE DEF chanop, amOp, bans
<1>10. /\ d \in ChanT /\ d.chanop = chanop /\ d.users = chan.users /\ d.on = chan.on
       /\ d.amOp = amOp /\ d.queue = c.queue /\ d.out = c.out
  BY <1>7, <1>8 DEF ChanT
<1>11. n \in NetT  BY ChanParts DEF NetT
<1> HIDE DEF d, n
<1>12. CASE "o" \in S
  <2>1. n.op \subseteq Present(d)  BY <1>9, <1>12
  <2>2. OpsIn' /\ ~Heard'
    BY <1>1, <1>7, <1>9, <1>10, <1>11, <1>12, <2>1, AfterTurn DEF Hears
  <2> QED  BY <2>2 DEF Steady, Accounted
<1>13. CASE "o" \notin S
  <2>1. CASE c = chan
    <3>1. d.queue = chan.queue /\ d.chanop = chan.chanop /\ d.out = <<>>
      BY <1>9, <1>10, <1>13, <2>1, ChanParts
    <3>2. \A P, u : Fares(d, d, n, P, u)  BY DEF Fares, KeepsOp
    <3> QED  BY <1>1, <1>9, <1>10, <1>11, <1>13, <3>1, <3>2, HandlerSteady
  <2>2. CASE c = ModeChange(chan, "server", l, NoShit, FALSE)
    <3>1. ASSUME NEW P \in SUBSET (Users \cup {Me}), NEW u \in Users, u \in P,
                 d.on, Hears(d, n, P)
          PROVE  Fares(chan, d, n, P, u)
      <4>1. Hears(c, n, P)  BY <1>9, <1>10, <1>13, <3>1 DEF Hears, Sent
      <4> DEFINE source == "server"
                 bitten == FALSE
      <4>2. bitten \in BOOLEAN /\ (bitten => source \in Users)  OBVIOUS
      <4>3. c = ModeChange(chan, source, l, NoShit, bitten)  BY <2>2
      <4> HIDE DEF source, bitten
      <4>4. Spoken(chan, c, n, P, u, source, NoShit, l)
        BY <1>4, <1>10, <1>11, <3>1, <4>1, <4>2, <4>3, ChanParts, ModeChangeSpoken
      <4>5. ~Names(l, "o", u)  BY <1>4 DEF Names, About, Modes
      <4>6. Fares(chan, c, n, P, u)  BY <4>4, <4>5 DEF Spoken, Aside
      <4>7. KeepsOp(c, d, n, P, u)  BY <1>9, <1>10, <1>13, KeepsOpSame
      <4> QED  BY <4>6, <4>7, FaresTrans DEF Fares
    <3> QED  BY <1>1, <1>9, <1>10, <1>11, <1>13, <3>1, ChanParts, HandlerSteady
  <2> QED  BY <1>6, <2>1, <2>2
<1> QED  BY <1>12, <1>13

\* A nick flood: of the client banned the structure may be wrong, but it gets no op.
LEMMA NickFloodSteady ==
  ASSUME Good, OpsIn, NEW v \in Users, NickFlood(v)
  PROVE  /\ Steady(Users \ {v})
         /\ Heard' => (WillOp(chan', net', v) => WillOp(chan, net, v))
<1> DEFINE d == Flooded(chan, v)
           P == Present(d)
<1>1. Turn(d, net) /\ chan.on /\ v \in chan.users  BY DEF NickFlood, Flooded
<1>2. Answers(chan, d, {"o"})  BY <1>1, Exists, FloodedAnswers
<1>3. \A Q \in SUBSET (Users \cup {Me}), u \in Users :
        u \in Q /\ Me \in Sent(chan, net, Q).op =>
          /\ u # v => KeepsOp(chan, d, net, Q, u)
          /\ WillBeOp(d, net, Q, u) => WillBeOp(chan, net, Q, u)
  BY <1>1, ChanParts, FloodedFares
<1> HIDE DEF d
<1>4. Steady(Users \ {v})  BY <1>1, <1>2, <1>3, ChanParts, AnswerSteady DEF Fares
<1>5. d \in ChanT /\ d.users = chan.users  BY <1>2 DEF Answers, ChanOK, Kept
<1>6. P \in SUBSET (Users \cup {Me}) /\ v \in P  BY <1>1, <1>5, PresentType DEF Present
<1>7. /\ Heard' => Hears(d, net, P)
      /\ WillOp(chan', net', v) <=> WillBeOp(d, net, P, v)
  BY <1>1, <1>5, ChanParts, AfterTurn
<1> HIDE DEF P
<1>8. Hears(d, net, P) => Me \in Sent(chan, net, P).op
  BY <1>2, <1>6, ChanParts DEF Answers, Hears
<1>9. Sent(chan, net, P) = net  BY <1>6, ChanParts, SentNone
<1>10. WillBeOp(chan, net, P, v) <=> WillOp(chan, net, v)  BY <1>9 DEF WillBeOp
<1> QED  BY <1>3, <1>4, <1>6, <1>7, <1>8, <1>10

\* Somebody comes.  What is believed of the client is what it came as, if nothing
\* about it waits; it may be banned or given op at once.
LEMMA ClientJoinsSteady ==
  ASSUME Good, OpsIn, NEW v \in Users, NEW isOp \in BOOLEAN, NEW quiet \in BOOLEAN, NEW shit,
         ClientJoins(v, isOp, quiet, shit)
  PROVE  /\ Steady(Users \ {v}) /\ v \notin chan.users
         /\ Heard' /\ ~Wants(chan.queue, "+", "o", v) /\ ~Wants(chan.queue, "-", "o", v) =>
              (v \in chan'.chanop <=> WillOp(chan', net', v))
         /\ Heard' /\ ~isOp /\ "NOOP" \in chan.flags =>
              (WillOp(chan', net', v) => WillOp(chan, net, v))
<1> DEFINE c == IF chan.exists THEN chan ELSE NewChannel(FALSE)
           users == c.users \cup {v}
           chanop == IF isOp THEN c.chanop \cup {v} ELSE c.chanop
           j == [c EXCEPT !.users = users, !.chanop = chanop]
           n == IF isOp THEN [net EXCEPT !.op = net.op \cup {v}] ELSE net
<1>1. PICK d : /\ Turn(d, n)
               /\ \/ d = Mban(j, v)
                  \/ d = OpNick(j, v, shit) /\ "NOOP" \notin c.flags
                  \/ d = j
  BY DEF ClientJoins
<1>2. v \notin c.users  BY DEF ClientJoins
<1>3. /\ ChanOK(c, {"o"}) /\ c \in ChanT /\ c.out = <<>>
      /\ ~chan.exists => ~c.on /\ chan.users = {} /\ net.op = {}
  <2>1. ChanOK(c, {"o"}) /\ c.out = <<>> /\ (~chan.exists => ~c.on)
    BY ChanParts, NewChannelOff DEF Fresh, Flushed
  <2>2. ~chan.exists => chan.users = {} /\ net.op = {}
    BY DEF Good, Between, DelChannel, Nobody
  <2> QED  BY <2>1, <2>2 DEF ChanOK
<1>4. chan.exists => c = chan  OBVIOUS
<1> HIDE DEF c
<1>5. users \subseteq Users /\ chanop \subseteq users /\ chanop \subseteq Users
  BY <1>3 DEF ChanOK, ChanT
<1>6. \A u : u # v => (u \in chanop <=> u \in c.chanop) /\ (u \in users <=> u \in c.users)
  OBVIOUS
<1>7. v \in chanop <=> isOp
  <2>1. c.chanop \subseteq c.users  BY <1>3 DEF ChanOK
  <2> QED  BY <1>2, <2>1
<1>8. v \in users /\ c.users \subseteq users  OBVIOUS
<1> HIDE DEF users, chanop
<1>9. /\ j \in ChanT /\ j.users = users /\ j.chanop = chanop /\ j.queue = c.queue
      /\ j.out = <<>> /\ j.on = c.on /\ j.mode = c.mode
  BY <1>3, <1>5 DEF ChanT
<1> HIDE DEF j
<1>10. ChanOK(j, {"o"})  BY <1>3, <1>5, <1>9 DEF ChanOK
<1>11. n \in NetT /\ n.op = net.op \cup (IF isOp THEN {v} ELSE {})
  BY ChanParts DEF NetT
<1> HIDE DEF n
<1>12. Answers(j, d, {"o"})
  <2>1. CASE d = Mban(j, v)  BY <1>10, <2>1, Exists, MbanAnswers
  <2>2. CASE d = OpNick(j, v, shit)
    <3>1. Nudged(j, j, {"o"})  BY <1>10 DEF Nudged, SameRest, ChanOK
    <3>2. Nudged(j, OpNick(j, v, shit), {"o"})  BY <3>1, Exists, NudgeOne
    <3> QED  BY <2>2, <3>2, NudgedAnswers
  <2>3. CASE d = j  BY <1>10, <2>3, AnswersSame
  <2> QED  BY <1>1, <2>1, <2>2, <2>3
<1>13. d \in ChanT /\ d.users = users /\ d.on = c.on
  BY <1>9, <1>12 DEF Answers, ChanOK, Kept
<1>14. v \notin chan.users  BY <1>2, <1>3, <1>4
<1>15. n.op \subseteq Present(d)
  <2>1. CASE chan.exists  BY <1>4, <1>8, <1>11, <1>13, <2>1 DEF OpsIn, Present
  <2>2. CASE ~chan.exists  BY <1>3, <1>8, <1>11, <1>13, <2>2 DEF Present
  <2> QED  BY <2>1, <2>2
<1>16. OpsIn' /\ (Heard' => c.on)  BY <1>1, <1>11, <1>13, <1>15, AfterTurn
<1>17. ASSUME NEW P \in SUBSET (Users \cup {Me}), NEW u \in Users, u \in P,
              c.on, Hears(d, n, P)
       PROVE  /\ u # v => KeepsOp(j, d, n, P, u)
              /\ Fares(j, d, n, P, u) \/ GivesOp(d, n, P, u)
  <2>1. Me \in Sent(j, n, P).op  BY <1>11, <1>12, <1>17 DEF Answers, Hears
  <2>2. CASE d = Mban(j, v)
    BY <1>10, <1>11, <1>17, <2>1, <2>2, Exists, MbanFares
  <2>3. CASE d = OpNick(j, v, shit)
    BY <1>9, <1>10, <1>17, <2>3, Exists, OpNickFares DEF Fares
  <2>4. CASE d = j  BY <2>4 DEF Fares, KeepsOp
  <2> QED  BY <1>1, <2>2, <2>3, <2>4
<1>18. ASSUME NEW u \in Users \ {v}  PROVE Accounted(u)
  <2>1. CASE ~c.on  BY <1>16, <2>1 DEF Accounted
  <2>2. CASE c.on
    <3>1. c = chan  BY <1>3, <1>4, <2>2
    <3>2. u \in j.chanop <=> u \in chan.chanop  BY <1>6, <1>9, <3>1
    <3>3. u \in d.users <=> u \in chan.users  BY <1>6, <1>13, <3>1
    <3>4. u \in n.op <=> u \in net.op  BY <1>11
    <3> DEFINE P == Present(d)
    <3>5. P \in SUBSET (Users \cup {Me}) /\ (u \in chan.users => u \in P)
      BY <1>13, <3>3, PresentType DEF Present
    <3> HIDE DEF P
    <3>6. u \in chan.users /\ d.on /\ Hears(d, n, P) => Fares(j, d, n, P, u)
      BY <1>17, <2>2, <3>5 DEF Fares
    <3> QED  BY <1>1, <1>9, <1>11, <1>13, <3>1, <3>2, <3>3, <3>4, <3>6, TurnAccounts DEF P
  <2> QED  BY <2>1, <2>2
<1>19. ASSUME Heard', ~Wants(chan.queue, "+", "o", v), ~Wants(chan.queue, "-", "o", v)
       PROVE  v \in chan'.chanop <=> WillOp(chan', net', v)
  <2> DEFINE P == Present(d)
  <2>1. /\ chan'.chanop = d.chanop /\ c.on /\ Hears(d, n, P)
        /\ WillOp(chan', net', v) <=> WillBeOp(d, n, P, v)
    BY <1>1, <1>11, <1>13, <1>16, <1>19, AfterTurn
  <2>2. P \in SUBSET (Users \cup {Me}) /\ v \in P  BY <1>8, <1>13, PresentType DEF Present
  <2> HIDE DEF P
  <2>3. c = chan  BY <1>3, <1>4, <2>1
  <2>4. v \notin net.op
    <3>1. v # Me  BY ModesOK
    <3> QED  BY <1>14, <3>1 DEF OpsIn, Present
  <2>5. Sent(j, n, P) = n  BY <1>9, <1>11, <2>2, SentNone
  <2>6. WillBeOp(j, n, P, v) <=> v \in j.chanop
    BY <1>7, <1>9, <1>11, <1>19, <2>3, <2>4, <2>5 DEF WillBeOp, WillOp
  <2>7. Fares(j, d, n, P, v) \/ GivesOp(d, n, P, v)  BY <1>17, <2>1, <2>2
  <2> QED  BY <2>1, <2>6, <2>7 DEF Fares, KeepsOp, DropsOp, GivesOp
<1>20. ASSUME Heard', ~isOp, "NOOP" \in chan.flags, WillOp(chan', net', v)
       PROVE  WillOp(chan, net, v)
  <2> DEFINE P == Present(d)
  <2>1. c.on /\ Hears(d, n, P) /\ WillBeOp(d, n, P, v)
    BY <1>1, <1>11, <1>13, <1>16, <1>20, AfterTurn
  <2>2. P \in SUBSET (Users \cup {Me}) /\ v \in P  BY <1>8, <1>13, PresentType DEF Present
  <2> HIDE DEF P
  <2>3. c = chan  BY <1>3, <1>4, <2>1
  <2>4. Me \in Sent(j, n, P).op  BY <1>11, <1>12, <2>1, <2>2 DEF Answers, Hears
  <2>5. Fares(j, d, n, P, v)
    <3>1. d = Mban(j, v) \/ d = j  BY <1>1, <1>20, <2>3
    <3>2. CASE d = Mban(j, v)
      BY <1>10, <1>11, <2>2, <2>4, <3>2, Exists, MbanFares
    <3>3. CASE d = j  BY <3>3 DEF Fares, KeepsOp
    <3> QED  BY <3>1, <3>2, <3>3
  <2>6. WillBeOp(j, n, P, v)  BY <2>1, <2>5 DEF Fares, KeepsOp, DropsOp
  <2>7. Sent(j, n, P) = n  BY <1>9, <1>11, <2>2, SentNone
  <2>8. n.op = net.op /\ j.queue = chan.queue  BY <1>9, <1>11, <1>20, <2>3
  <2> QED  BY <2>6, <2>7, <2>8 DEF WillBeOp, WillOp
<1> QED  BY <1>14, <1>16, <1>18, <1>19, <1>20 DEF Steady

-----------------------------------------------------------------------------
(* What becomes of the ops that a message is about.                        *)

\* The network tells of an op who is not one, and of a deop who is.
LEMMA MessageOps ==
  ASSUME Good, OpsIn, NEW source, NEW l \in Message(source), NEW u \in Users
  PROVE  /\ AllSign(l, "o", u, IF u \in net.op THEN "-" ELSE "+")
         /\ Names(l, "o", u) => u \in Present(chan)
<1> DEFINE ops == IF source = "server" THEN Deopable ELSE Plain
           Flip(S, x) == IF x \in S THEN "-" ELSE "+"
           Arg(f) == CASE f = "k" -> Key
                       [] f = "l" /\ f \notin net.modes -> Low
                       [] OTHER -> NoArg
           ups == [sign : {"+"}, letter : {"o"}, arg : Present(chan) \ (net.op \cup Services)]
           downs == [sign : {"-"}, letter : {"o"}, arg : net.op \cap ops]
           bans == {[sign |-> Flip(net.bans, m), letter |-> "b", arg |-> m] : m \in Bannable}
           modes == {[sign |-> Flip(net.modes, f), letter |-> f, arg |-> Arg(f)] : f \in Modes}
<1>1. Effective(source) \subseteq ups \cup downs \cup bans \cup modes  BY DEF Effective
<1>2. \A ch \in ups : ch.sign = "+" /\ ch.arg \notin net.op /\ ch.arg \in Present(chan)
  OBVIOUS
<1>3. \A ch \in downs : ch.sign = "-" /\ ch.arg \in net.op  OBVIOUS
<1>4. \A ch \in bans \cup modes : ch.letter # "o"
  <2> HIDE DEF Flip, Arg
  <2> QED  BY DEF Modes
<1> HIDE DEF ups, downs, bans, modes
<1>5. \A ch \in Effective(source) :
        ch.letter = "o" => /\ ch.arg \in Present(chan)
                           /\ ch.sign = IF ch.arg \in net.op THEN "-" ELSE "+"
  BY <1>1, <1>2, <1>3, <1>4 DEF OpsIn
<1>6. \A ch \in ToSet(l) : ch \in Effective(source)  BY DEF Message, ToSet
<1> QED  BY <1>5, <1>6 DEF AllSign, Names, About

LEMMA TellsIs ==
  ASSUME NEW l, NEW u, NEW sign, AllSign(l, "o", u, sign)
  PROVE  Names(l, "o", u) => Tells(l, sign, u)
BY DEF Names, AllSign, About, Tells

\* A message is heard and answered.
LEMMA MessageAccounts ==
  ASSUME Good, OpsIn, NEW source, NEW l \in Message(source), NEW shit,
         NEW bitten \in BOOLEAN, bitten => source \in Users,
         Turn(ModeChange(chan, source, l, shit, bitten), Apply(net, l, Present(chan)))
  PROVE  /\ OpsIn' /\ chan'.users = chan.users
         /\ \A u \in Users :
              /\ ~Names(l, "o", u) => Accounted(u)
              /\ Names(l, "o", u) /\ u \notin net.op /\ u \in chan.users /\ Heard' =>
                   IF Fought(chan, source, u, shit)
                     THEN u \notin chan'.chanop /\ ~WillOp(chan', net', u)
                     ELSE u # source =>
                            /\ u \in chan'.chanop
                            /\ ~Wants(chan.queue, "-", "o", u) => WillOp(chan', net', u)
              /\ Names(l, "o", u) /\ u \in net.op /\ u \in chan.users /\ Heard' =>
                   /\ WillOp(chan', net', u) => Wants(chan.queue, "+", "o", u)
                   /\ source \in chan.users => u \notin chan'.chanop
<1> DEFINE h == HearAll(chan, source, l, shit)
           d == ModeChange(chan, source, l, shit, bitten)
           P == Present(d)
           n == Apply(net, l, Present(chan))
<1>1. l \in Seq(Told)  BY MessageType
<1>2. Kept(chan, h) /\ Answers(h, d, Heeds)  BY <1>1, ChanParts, ModeChangeOK
<1>3. \A v \in Users, Q \in SUBSET (Users \cup {Me}) :
        chan.on /\ n \in NetT /\ Hears(d, n, Q) /\ v \in Q =>
          Spoken(chan, d, n, Q, v, source, shit, l)
  BY <1>1, ChanParts, ModeChangeSpoken
<1>4. Turn(d, n)  OBVIOUS
<1> HIDE DEF d, h
<1>5. d \in ChanT /\ d.users = chan.users /\ d.on = chan.on
  BY <1>2 DEF Kept, Answers, ChanOK
<1>6. P = Present(chan) /\ P \in SUBSET (Users \cup {Me})  BY <1>5, PresentType DEF Present
<1> HIDE DEF P
<1>7. l \in Seq(Change)
  <2>1. Told \subseteq Change  BY DEF Told
  <2> QED  BY <1>1, <2>1, SeqMonotonic
<1>8. net \in NetT /\ net.op \subseteq P  BY <1>6, ChanParts DEF OpsIn
<1>9. n \in NetT /\ n.op \subseteq P  BY <1>6, <1>7, <1>8, ApplyType, ApplyIn
<1>10. ASSUME NEW u \in Users
       PROVE  u \in n.op <=> IF Names(l, "o", u) THEN u \notin net.op ELSE u \in net.op
  <2> DEFINE sign == IF u \in net.op THEN "-" ELSE "+"
  <2>1. AllSign(l, "o", u, sign) /\ (Names(l, "o", u) => u \in P)  BY <1>6, MessageOps
  <2>2. sign = "+" <=> u \notin net.op  OBVIOUS
  <2> HIDE DEF sign
  <2>3. Has(n, "o", u) <=> IF Names(l, "o", u) /\ u \in P THEN sign = "+" ELSE Has(net, "o", u)
    BY <1>6, <1>7, <1>8, <2>1, ApplyHas DEF ModeLetters
  <2>4. \A y : Has(y, "o", u) <=> u \in y.op  BY DEF Has, Modes
  <2> QED  BY <2>1, <2>2, <2>3, <2>4
<1> HIDE DEF n
<1>11. /\ OpsIn' /\ chan'.users = chan.users /\ chan'.chanop = d.chanop
       /\ Heard' <=> d.on /\ Hears(d, n, P)
       /\ \A u : WillOp(chan', net', u) <=> WillBeOp(d, n, P, u)
  BY <1>4, <1>5, <1>6, <1>9, AfterTurn DEF P
<1>12. Sent(chan, n, P) = n  BY <1>6, <1>9, ChanParts, SentNone
<1>13. \A u : WillBeOp(chan, n, P, u) <=> WillOp(chan, n, u)  BY <1>12 DEF WillBeOp
<1>14. ASSUME NEW u \in Users
       PROVE  /\ u \in chan.users => u \in P
              /\ u \in P /\ Heard' => Spoken(chan, d, n, P, u, source, shit, l)
  <2>1. u \in chan.users => u \in P  BY <1>6 DEF Present
  <2> QED  BY <1>3, <1>5, <1>6, <1>9, <1>11, <2>1
<1>15. ASSUME NEW u \in Users, ~Names(l, "o", u)  PROVE Accounted(u)
  <2>1. u \in n.op <=> u \in net.op  BY <1>10, <1>15
  <2>2. u \in chan.users /\ d.on /\ Hears(d, n, P) => Fares(chan, d, n, P, u)
    BY <1>11, <1>14, <1>15 DEF Spoken, Aside
  <2> QED  BY <1>4, <1>5, <1>9, <2>1, <2>2, ChanParts, TurnAccounts DEF P
<1>16. ASSUME NEW u \in Users, Names(l, "o", u), u \notin net.op, u \in chan.users, Heard'
       PROVE  IF Fought(chan, source, u, shit)
                THEN u \notin chan'.chanop /\ ~WillOp(chan', net', u)
                ELSE u # source =>
                       /\ u \in chan'.chanop
                       /\ ~Wants(chan.queue, "-", "o", u) => WillOp(chan', net', u)
  <2>1. AllSign(l, "o", u, "+")
    <3>1. AllSign(l, "o", u, IF u \in net.op THEN "-" ELSE "+")  BY MessageOps
    <3> QED  BY <1>16, <3>1
  <2>2. u \in n.op  BY <1>10, <1>16
  <2>3. Spoken(chan, d, n, P, u, source, shit, l)  BY <1>14, <1>16
  <2>4. ~Wants(chan.queue, "-", "o", u) => WillBeOp(chan, n, P, u)
    BY <1>13, <2>2 DEF WillOp
  <2> QED  BY <1>11, <1>16, <2>1, <2>3, <2>4 DEF Spoken, DropsOp
<1>17. ASSUME NEW u \in Users, Names(l, "o", u), u \in net.op, u \in chan.users, Heard'
       PROVE  /\ WillOp(chan', net', u) => Wants(chan.queue, "+", "o", u)
              /\ source \in chan.users => u \notin chan'.chanop
  <2>1. AllSign(l, "o", u, "-")
    <3>1. AllSign(l, "o", u, IF u \in net.op THEN "-" ELSE "+")  BY MessageOps
    <3> QED  BY <1>17, <3>1
  <2>2. u \notin n.op  BY <1>10, <1>17
  <2>3. Spoken(chan, d, n, P, u, source, shit, l)  BY <1>14, <1>17
  <2>4. WillBeOp(chan, n, P, u) => Wants(chan.queue, "+", "o", u)
    BY <1>13, <2>2 DEF WillOp
  <2> QED  BY <1>11, <1>17, <2>1, <2>3, <2>4 DEF Spoken
<1> QED  BY <1>11, <1>15, <1>16, <1>17

-----------------------------------------------------------------------------
(* Each step agrees about the ops, and keeps NOOP.                         *)

LEMMA QueuedIs ==
  ASSUME NEW sign, NEW u
  PROVE  Queued(sign, "o", u) <=> Wants(chan.queue, sign, "o", u)
BY DEF Queued, Wants, About, ToSet

\* What OpsAgree and NoOpHolds say of one client.
Agrees(u) ==
  OpWrong(u)' /\ ~OpWrong(u) => ~Heard' \/ ServerDeops(u) \/ Crossed(u) \/ NickFlood(u)
Barred(u) ==
  /\ Heard' /\ "NOOP" \in chan.flags /\ u \in Plain \cap chan'.users
  /\ WillOp(chan', net', u) /\ ~WillOp(chan, net, u)
  => GivenOp(u)
Sound(u) == Agrees(u) /\ Barred(u)

\* A client of whom what is believed is what will be.
LEMMA WrongOpIs ==
  ASSUME NEW u
  PROVE  /\ OpWrong(u) <=> u \in chan.users /\ ~(u \in chan.chanop <=> WillOp(chan, net, u))
         /\ OpWrong(u)' <=> u \in chan'.users /\ ~(u \in chan'.chanop <=> WillOp(chan', net', u))
<1>1. OpWrong(u) <=> u \in chan.users
                       /\ ~(u \in chan.chanop <=> WillBe("o", u, u \in net.op))
  BY DEF OpWrong, WillBe
<1>2. OpWrong(u)' <=> u \in chan'.users
                        /\ ~(u \in chan'.chanop <=> WillBe("o", u, u \in net.op)')
  BY DEF OpWrong, WillBe
<1> QED  BY <1>1, <1>2, WillIs

LEMMA AccountedSound ==
  ASSUME NEW u, Accounted(u)
  PROVE  Sound(u)
<1>1. Agrees(u)  BY WrongOpIs DEF Accounted, Agrees
<1>2. Barred(u)  BY DEF Accounted, Barred, Plain
<1> QED  BY <1>1, <1>2 DEF Sound

LEMMA SteadySound ==
  ASSUME NEW W \in SUBSET Users, Steady(W)
  PROVE  OpsIn' /\ \A u \in W : Sound(u)
BY AccountedSound DEF Steady

\* To a source that is not a client the levels of the ban list are nothing.
LEMMA HearAllUnwatched ==
  ASSUME NEW c \in Chans, NEW source, source \notin Plain, NEW shit, NEW l \in Seq(Told)
  PROVE  HearAll(c, source, l, shit) = HearAll(c, source, l, NoShit)
<1> DEFINE P == {k \in Seq(Told) : HearAll(c, source, k, shit) = HearAll(c, source, k, NoShit)}
<1>1. \A d, ch : Hear(d, source, ch, shit) = Hear(d, source, ch, NoShit)
  <2>1. \A d, target : OnOp(d, source, target, shit) = OnOp(d, source, target, NoShit)
    BY DEF OnOp
  <2> QED  BY <2>1 DEF Hear
<1>2. <<>> \in P
  <2>1. <<>> \in Seq(Told)  OBVIOUS
  <2>2. \A s : HearAll(c, source, <<>>, s) = c  BY HearAllIs
  <2> QED  BY <2>1, <2>2
<1>3. ASSUME NEW k \in Seq(Told), NEW ch \in Told, k \in P  PROVE Append(k, ch) \in P
  <2> DEFINE kc == Append(k, ch)
  <2>1. kc \in Seq(Told)  OBVIOUS
  <2>2. \A s : HearAll(c, source, kc, s) = Hear(HearAll(c, source, k, s), source, ch, s)
    BY HearAllAppend
  <2>3. HearAll(c, source, k, shit) = HearAll(c, source, k, NoShit)  BY <1>3
  <2> HIDE DEF kc
  <2>4. HearAll(c, source, kc, shit) = HearAll(c, source, kc, NoShit)  BY <1>1, <2>2, <2>3
  <2> QED  BY <2>1, <2>4 DEF kc
<1> HIDE DEF P
<1>4. l \in P  BY <1>2, <1>3, SeqInduct
<1> QED  BY <1>4 DEF P

LEMMA OnModeUnwatched ==
  ASSUME Good, NEW w, w \notin Plain, NEW l \in Message(w), NEW shit,
         NEW bitten \in BOOLEAN, OnMode(w, l, shit, bitten)
  PROVE  OnMode(w, l, NoShit, FALSE)
<1>1. chan \in Chans /\ l \in Seq(Told)  BY ChanParts, MessageType DEF Chans
<1>2. HearAll(chan, w, l, shit) = HearAll(chan, w, l, NoShit)  BY <1>1, HearAllUnwatched
<1>3. \A s, b : ModeChange(chan, w, l, s, b) =
                  FlushMode(IF b THEN Mban(HearAll(chan, w, l, s), w) ELSE HearAll(chan, w, l, s))
  BY DEF ModeChange, HearAll
<1>4. ~bitten  BY DEF OnMode
<1>5. ModeChange(chan, w, l, shit, bitten) = ModeChange(chan, w, l, NoShit, FALSE)
  BY <1>2, <1>3, <1>4
<1> QED  BY <1>5 DEF OnMode

LEMMA OnModeSound ==
  ASSUME Good, OpsIn, NEW w \in Users \cap net.op, NEW l \in Message(w), NEW shit \in Shits,
         NEW bitten \in BOOLEAN, OnMode(w, l, shit, bitten)
  PROVE  OpsIn' /\ \A u \in Users : Sound(u)
<1>1. Turn(ModeChange(chan, w, l, shit, bitten), Apply(net, l, Present(chan)))  BY DEF OnMode
<1>2. /\ OpsIn' /\ chan'.users = chan.users
      /\ \A u \in Users :
           /\ ~Names(l, "o", u) => Accounted(u)
           /\ Names(l, "o", u) /\ u \notin net.op /\ u \in chan.users /\ Heard' =>
                IF Fought(chan, w, u, shit)
                  THEN u \notin chan'.chanop /\ ~WillOp(chan', net', u)
                  ELSE u # w =>
                         /\ u \in chan'.chanop
                         /\ ~Wants(chan.queue, "-", "o", u) => WillOp(chan', net', u)
           /\ Names(l, "o", u) /\ u \in net.op /\ u \in chan.users /\ Heard' =>
                /\ WillOp(chan', net', u) => Wants(chan.queue, "+", "o", u)
                /\ w \in chan.users => u \notin chan'.chanop
  BY <1>1, MessageAccounts
<1>3. w \in chan.users
  <2>1. w # Me  BY ModesOK
  <2> QED  BY <2>1 DEF OpsIn, Present
<1>4. ASSUME NEW u \in Users, Names(l, "o", u)  PROVE Agrees(u) /\ Barred(u)
  <2> DEFINE sign == IF u \in net.op THEN "-" ELSE "+"
  <2>1. AllSign(l, "o", u, sign)  BY MessageOps
  <2>2. sign \in {"+", "-"} /\ (sign = "+" <=> u \notin net.op)  OBVIOUS
  <2> HIDE DEF sign
  <2>3. Tells(l, sign, u)  BY <1>4, <2>1, TellsIs
  <2>4. Queued("+", "o", u) \/ Queued("-", "o", u) => Crossed(u)  BY <2>2, <2>3 DEF Crossed
  <2>5. Wants(chan.queue, "+", "o", u) \/ Wants(chan.queue, "-", "o", u) => Crossed(u)
    BY <2>4, QueuedIs
  <2>6. Agrees(u)
    <3>1. SUFFICES ASSUME OpWrong(u)', Heard', ~Crossed(u)  PROVE FALSE
      BY DEF Agrees
    <3>2. u \in chan.users /\ ~(u \in chan'.chanop <=> WillOp(chan', net', u))
      BY <1>2, <3>1, WrongOpIs
    <3>3. CASE u \in net.op  BY <1>2, <1>3, <1>4, <2>5, <3>1, <3>2, <3>3
    <3>4. CASE u \notin net.op  BY <1>2, <1>4, <2>5, <3>1, <3>2, <3>4
    <3> QED  BY <3>3, <3>4
  <2>7. Barred(u)
    <3>1. SUFFICES ASSUME Heard', "NOOP" \in chan.flags, u \in Plain \cap chan.users,
                          WillOp(chan', net', u), ~WillOp(chan, net, u)
                   PROVE  GivenOp(u)
      BY <1>2 DEF Barred
    <3>2. ~Wants(chan.queue, "+", "o", u)  BY <3>1 DEF WillOp
    <3>3. u \notin net.op  BY <1>2, <1>4, <3>1, <3>2
    <3>4. ~Fought(chan, w, u, shit)  BY <1>2, <1>4, <3>1, <3>3
    <3>5. w \in Services /\ w \notin Plain  BY <3>1, <3>4 DEF Fought, Plain
    <3>6. OnMode(w, l, NoShit, FALSE)  BY <3>5, OnModeUnwatched
    <3>7. Tells(l, "+", u)  BY <2>2, <2>3, <3>3
    <3> QED  BY <3>5, <3>6, <3>7 DEF GivenOp
  <2> QED  BY <2>6, <2>7
<1>5. \A u \in Users : Sound(u)  BY <1>2, <1>4, AccountedSound DEF Sound
<1> QED  BY <1>2, <1>5

LEMMA OnServerModeSound ==
  ASSUME Good, OpsIn, NEW l \in Message("server"), OnServerMode(l)
  PROVE  OpsIn' /\ \A u \in Users : Sound(u)
<1> DEFINE source == "server"
           bitten == FALSE
<1>1. /\ bitten \in BOOLEAN /\ (bitten => source \in Users) /\ l \in Message(source)
      /\ source \notin Users
  BY ModesOK
<1>2. Turn(ModeChange(chan, source, l, NoShit, bitten), Apply(net, l, Present(chan)))
  BY DEF OnServerMode
<1>3. source = "server"  OBVIOUS
<1> HIDE DEF source, bitten
<1>4. /\ OpsIn' /\ chan'.users = chan.users
      /\ \A u \in Users :
           /\ ~Names(l, "o", u) => Accounted(u)
           /\ Names(l, "o", u) /\ u \notin net.op /\ u \in chan.users /\ Heard' =>
                IF Fought(chan, source, u, NoShit)
                  THEN u \notin chan'.chanop /\ ~WillOp(chan', net', u)
                  ELSE u # source =>
                         /\ u \in chan'.chanop
                         /\ ~Wants(chan.queue, "-", "o", u) => WillOp(chan', net', u)
           /\ Names(l, "o", u) /\ u \in net.op /\ u \in chan.users /\ Heard' =>
                /\ WillOp(chan', net', u) => Wants(chan.queue, "+", "o", u)
                /\ source \in chan.users => u \notin chan'.chanop
  BY <1>1, <1>2, MessageAccounts
<1>5. ASSUME NEW u \in Users, Names(l, "o", u)  PROVE Agrees(u) /\ Barred(u)
  <2> DEFINE sign == IF u \in net.op THEN "-" ELSE "+"
  <2>1. AllSign(l, "o", u, sign)  BY <1>1, MessageOps
  <2>2. sign \in {"+", "-"} /\ (sign = "+" <=> u \notin net.op)  OBVIOUS
  <2> HIDE DEF sign
  <2>3. Tells(l, sign, u)  BY <1>5, <2>1, TellsIs
  <2>4. Queued("+", "o", u) \/ Queued("-", "o", u) => Crossed(u)  BY <2>2, <2>3 DEF Crossed
  <2>5. Wants(chan.queue, "-", "o", u) => Crossed(u)  BY <2>4, QueuedIs
  <2>6. CASE u \in net.op
    <3>1. ServerDeops(u)  BY <2>2, <2>3, <2>6 DEF ServerDeops
    <3>2. Heard' /\ u \in chan.users /\ WillOp(chan', net', u) => WillOp(chan, net, u)
      BY <1>4, <1>5, <2>6 DEF WillOp
    <3> QED  BY <1>4, <3>1, <3>2 DEF Agrees, Barred
  <2>7. CASE u \notin net.op
    <3>1. Tells(l, "+", u)  BY <2>2, <2>3, <2>7
    <3>2. Barred(u)  BY <3>1 DEF Barred, GivenOp
    <3>3. ~Fought(chan, source, u, NoShit) /\ u # source  BY <1>1 DEF Fought, Plain
    <3>4. Agrees(u)
      <4>1. SUFFICES ASSUME OpWrong(u)', Heard', ~Crossed(u)  PROVE FALSE
        BY DEF Agrees
      <4>2. u \in chan.users /\ ~(u \in chan'.chanop <=> WillOp(chan', net', u))
        BY <1>4, <4>1, WrongOpIs
      <4> QED  BY <1>4, <1>5, <2>5, <2>7, <3>3, <4>1, <4>2
    <3> QED  BY <3>2, <3>4
  <2> QED  BY <2>6, <2>7
<1>6. \A u \in Users : Sound(u)  BY <1>4, <1>5, AccountedSound DEF Sound
<1> QED  BY <1>4, <1>6

LEMMA NickFloodSound ==
  ASSUME Good, OpsIn, NEW v \in Plain \cap Bannable, NickFlood(v)
  PROVE  OpsIn' /\ \A u \in Users : Sound(u)
<1>1. v \in Users  BY DEF Plain
<1>2. /\ Steady(Users \ {v})
      /\ Heard' => (WillOp(chan', net', v) => WillOp(chan, net, v))
  BY <1>1, NickFloodSteady
<1>3. OpsIn' /\ \A u \in Users \ {v} : Sound(u)  BY <1>2, SteadySound
<1>4. Sound(v)  BY <1>2 DEF Sound, Agrees, Barred
<1> QED  BY <1>3, <1>4

LEMMA ClientJoinsSound ==
  ASSUME Good, OpsIn, NEW v \in Users, NEW isOp \in BOOLEAN, NEW quiet \in BOOLEAN,
         NEW shit \in Shits, ClientJoins(v, isOp, quiet, shit)
  PROVE  OpsIn' /\ \A u \in Users : Sound(u)
<1>1. /\ Steady(Users \ {v}) /\ v \notin chan.users
      /\ Heard' /\ ~Wants(chan.queue, "+", "o", v) /\ ~Wants(chan.queue, "-", "o", v) =>
           (v \in chan'.chanop <=> WillOp(chan', net', v))
      /\ Heard' /\ ~isOp /\ "NOOP" \in chan.flags =>
           (WillOp(chan', net', v) => WillOp(chan, net, v))
  BY ClientJoinsSteady
<1>2. OpsIn' /\ \A u \in Users \ {v} : Sound(u)  BY <1>1, SteadySound
<1>3. Barred(v)
  <2>1. CASE isOp = TRUE  BY <2>1 DEF Barred, GivenOp
  <2>2. CASE isOp = FALSE  BY <1>1, <2>2 DEF Barred
  <2> QED  BY <2>1, <2>2
<1>4. Queued("+", "o", v) \/ Queued("-", "o", v) => Crossed(v)  BY DEF Crossed
<1>5. Agrees(v)  BY <1>1, <1>4, QueuedIs, WrongOpIs DEF Agrees
<1> QED  BY <1>2, <1>3, <1>5 DEF Sound

LEMMA NextSound ==
  ASSUME Good, OpsIn, Next
  PROVE  OpsIn' /\ \A u \in Users : Sound(u)
<1>1. CASE \E u \in Users, shit \in Shits :
             (\E isOp, quiet \in BOOLEAN : ClientJoins(u, isOp, quiet, shit)) \/ LoginOp(u, shit)
  BY <1>1, ClientJoinsSound, LoginOpSteady, SteadySound
<1>2. CASE \E u \in Users : ClientLeaves(u)  BY <1>2, ClientLeavesSteady, SteadySound
<1>3. CASE \E u \in Plain \cap Bannable : NickFlood(u)  BY <1>3, NickFloodSound
<1>4. CASE \E w \in Users \cap net.op : \E l \in Message(w), shit \in Shits, bitten \in BOOLEAN :
             OnMode(w, l, shit, bitten)
  BY <1>4, OnModeSound
<1>5. CASE \E l \in Message("server") : OnServerMode(l)  BY <1>5, OnServerModeSound
<1>6. CASE \E S \in SUBSET Letters \ {{}} : OnClearMode(S)
  BY <1>6, OnClearModeSteady, SteadySound
<1>7. CASE \E list \in Lists : (\E shit \in Shits : Op(list, shit)) \/ Deop(list)
  BY <1>7, OpSteady, DeopSteady, SteadySound
<1>8. CASE \E f \in Settable, value \in BOOLEAN : SetFlag(f, value)
  BY <1>8, SetFlagSteady, SteadySound
<1>9. CASE ClearMode  BY <1>9, ClearModeSteady, SteadySound
<1>10. CASE \E u \in Bannable : BanClient(u) \/ UnbanClient(u)
  BY <1>10, BanClientSteady, UnbanClientSteady, SteadySound, ModesOK
<1>11. CASE Join \/ Part  BY <1>11, JoinSteady, PartSteady, SteadySound
<1>12. CASE FlushTimer \/ GetOpsTimer
  BY <1>12, FlushTimerSteady, GetOpsTimerSteady, SteadySound
<1> QED
  BY <1>1, <1>2, <1>3, <1>4, <1>5, <1>6, <1>7, <1>8, <1>9, <1>10, <1>11, <1>12 DEF Next

LEMMA InitIn ==
  ASSUME Init
  PROVE  OpsIn
<1>1. net.op = IF chan.on THEN {Me} ELSE {}  BY DEF Init
<1> QED  BY <1>1 DEF OpsIn, Present

LEMMA InAlways == Spec => [](Good /\ OpsIn)
<1>1. Good /\ OpsIn /\ UNCHANGED vars => (Good /\ OpsIn)'
  BY DEF Good, OpsIn, Present, vars
<1>2. Good /\ OpsIn /\ [Next]_vars => (Good /\ OpsIn)'  BY <1>1, NextGood, NextSound
<1> QED  BY InitGood, InitIn, <1>2, PTL DEF Spec

\* Who the service takes for an op is who will be one when the queue has been sent,
\* for any clients, flags, levels and default modes, messages of any length and lists
\* of any nicks: every step that makes it wrong about somebody is a deop by a server, a
\* word of somebody whose change waits, or a nick flood, or leaves a service that cannot
\* send.
THEOREM OpsAgreeCorrect == Spec => OpsAgree
<1> DEFINE A == \A u \in Users : OpWrong(u)' /\ ~OpWrong(u) =>
                  ~Heard' \/ ServerDeops(u) \/ Crossed(u) \/ NickFlood(u)
<1>1. Good /\ OpsIn /\ [Next]_vars => [A]_vars
  <2> SUFFICES ASSUME Good, OpsIn, Next  PROVE A
    OBVIOUS
  <2>1. \A u \in Users : Agrees(u)  BY NextSound DEF Sound
  <2> QED  BY <2>1 DEF Agrees
<1>2. Spec => [][A]_vars  BY <1>1, InAlways, PTL DEF Spec
<1> QED  BY <1>2 DEF OpsAgree

\* NOOP bars every way to op but those of servers and of services, and of clients that
\* come as op: no op by a client, no command, no automatic op of one who logs in or just
\* joins, no change that waited and no answer to a message gets through, for any clients,
\* flags and levels and messages of any length.
THEOREM NoOpHoldsCorrect == Spec => NoOpHolds
<1> DEFINE A == ("NOOP" \in chan.flags /\ "NOOP" \in chan'.flags /\ Heard /\ Heard') =>
                  \A u \in Plain \cap chan'.users :
                    WillBe("o", u, u \in net.op)' /\ ~WillBe("o", u, u \in net.op) => GivenOp(u)
<1>1. Good /\ OpsIn /\ [Next]_vars => [A]_vars
  <2> SUFFICES ASSUME Good, OpsIn, Next, "NOOP" \in chan.flags, Heard',
                      NEW u \in Plain \cap chan'.users,
                      WillBe("o", u, u \in net.op)', ~WillBe("o", u, u \in net.op)
               PROVE  GivenOp(u)
    OBVIOUS
  <2>1. Barred(u)  BY NextSound DEF Sound, Plain
  <2> QED  BY <2>1, WillIs DEF Barred
<1>2. Spec => [][A]_vars  BY <1>1, InAlways, PTL DEF Spec
<1> QED  BY <1>2 DEF NoOpHolds
=============================================================================
