--------------------------- MODULE ShitList_proofs ---------------------------
(***************************************************************************)
(* What the operators of the ban list return: which bans CleanShitList and *)
(* LoadShitList keep and in which order, which ban a walk finds, and what  *)
(* AddToShitList makes of the list.                                        *)
(***************************************************************************)
EXTENDS ShitList, TLAPS, WellFoundedInduction, SequenceTheorems

-----------------------------------------------------------------------------
(* Least places.                                                           *)

\* A nonempty set of natural numbers has a least element.
LEMMA Least ==
  ASSUME NEW T \in SUBSET Nat, T # {}
  PROVE  \E n \in T : \A k \in T : ~ (k < n)
<1>1. IsWellFoundedOn(OpToRel(<, Nat), Nat)
  BY NatLessThanWellFounded, Zenon
<1>2. OpToRel(<, Nat) = {ss \in Nat \X Nat : ss[1] < ss[2]}
  BY Zenon DEF OpToRel
<1> DEFINE R == {ss \in Nat \X Nat : ss[1] < ss[2]}
<1>3. IsWellFoundedOn(R, Nat)
  BY <1>1, <1>2, Zenon
<1>4. \A k, n \in Nat : k < n => <<k, n>> \in R
  OBVIOUS
<1> HIDE DEF R
<1>5. \E n \in T : \A k \in T : ~ (<<k, n>> \in R)
  BY <1>3, WFMin, Zenon
<1> QED BY <1>4, <1>5

\* The first place of a list at which something holds.
LEMMA MinIsFirst ==
  ASSUME NEW T \in SUBSET Nat, T # {}
  PROVE  Min(T) \in T /\ \A k \in T : Min(T) <= k
<1>1. PICK n \in T : \A k \in T : ~ (k < n)
  BY Least
<1>2. \A k \in T : n <= k
  BY <1>1
<1>3. \E x \in T : \A y \in T : x =< y
  BY <1>2
<1> QED BY <1>3 DEF Min

-----------------------------------------------------------------------------
(* Kept: the bans at some places of a list.                                *)

\* The steps of the recursion of Kept.
Keeping(kept, list, I, len) ==
  /\ kept[0] = <<>>
  /\ \A n \in 1..len :
       kept[n] = IF n \in I THEN Append(kept[n - 1], list[n]) ELSE kept[n - 1]

\* The function Kept is defined by exists.
LEMMA KeptExists ==
  ASSUME NEW S, NEW list \in Seq(S), NEW I
  PROVE  \E f \in [0..Len(list) -> Seq(S)] : Keeping(f, list, I, Len(list))
<1> DEFINE Made(m) == \E f \in [0..m -> Seq(S)] : Keeping(f, list, I, m)
           Bad == {m \in Nat : m <= Len(list) /\ ~Made(m)}
<1>0. Len(list) \in Nat
  OBVIOUS
<1>1. Made(0)
  <2> DEFINE f == [n \in 0..0 |-> <<>>]
  <2>1. f \in [0..0 -> Seq(S)] /\ f[0] = <<>> /\ 1..0 = {}
    OBVIOUS
  <2> QED BY <2>1 DEF Keeping
<1>2. ASSUME NEW m \in Nat, m + 1 <= Len(list), Made(m) PROVE Made(m + 1)
  <2>1. PICK f \in [0..m -> Seq(S)] : Keeping(f, list, I, m)
    BY <1>2
  <2> DEFINE next == IF m + 1 \in I THEN Append(f[m], list[m + 1]) ELSE f[m]
             more == [n \in 0..m + 1 |-> IF n = m + 1 THEN next ELSE f[n]]
  <2>2. f[m] \in Seq(S) /\ list[m + 1] \in S
    BY <1>0, <1>2
  <2>3. next \in Seq(S)
    BY <2>2
  <2> HIDE DEF next
  <2>4. /\ more \in [0..m + 1 -> Seq(S)]
        /\ more[0] = <<>> /\ more[m + 1] = next /\ \A n \in 0..m : more[n] = f[n]
    BY <2>1, <2>3 DEF Keeping
  <2> HIDE DEF more
  <2>5. \A n \in 1..m + 1 :
          more[n] = IF n \in I THEN Append(more[n - 1], list[n]) ELSE more[n - 1]
    <3> TAKE n \in 1..m + 1
    <3>1. CASE n = m + 1
      BY <2>4, <3>1 DEF next
    <3>2. CASE n # m + 1
      <4>1. n \in 1..m /\ n - 1 \in 0..m /\ n \in 0..m
        BY <3>2
      <4>2. f[n] = IF n \in I THEN Append(f[n - 1], list[n]) ELSE f[n - 1]
        BY <2>1, <4>1, Zenon DEF Keeping
      <4> QED BY <2>4, <4>1, <4>2
    <3> QED BY <3>1, <3>2
  <2> QED BY <2>4, <2>5 DEF Keeping
<1> HIDE DEF Made
<1>3. Bad = {}
  <2> SUFFICES ASSUME Bad # {} PROVE FALSE
    OBVIOUS
  <2>1. PICK m \in Bad : \A k \in Bad : ~ (k < m)
    BY Least
  <2>2. m # 0
    BY <1>1
  <2>3. m - 1 \in Nat /\ m - 1 < m /\ (m - 1) + 1 = m /\ m - 1 <= Len(list)
    BY <1>0, <2>2
  <2>4. Made(m - 1)
    BY <2>1, <2>3
  <2> QED BY <1>2, <2>1, <2>3, <2>4
<1> QED BY <1>0, <1>3 DEF Made

LEMMA KeptSteps ==
  ASSUME NEW S, NEW list \in Seq(S), NEW I
  PROVE  \E kept : Keeping(kept, list, I, Len(list)) /\ Kept(list, I) = kept[Len(list)]
<1>1. Len(list) \in Nat
  OBVIOUS
<1>2. \E f : f = [n \in 0..Len(list) |->
                   IF n = 0 THEN <<>>
                   ELSE IF n \in I THEN Append(f[n - 1], list[n]) ELSE f[n - 1]]
  <2>1. PICK f \in [0..Len(list) -> Seq(S)] : Keeping(f, list, I, Len(list))
    BY KeptExists, Zenon
  <2>2. \A n \in 0..Len(list) :
          f[n] = IF n = 0 THEN <<>>
                 ELSE IF n \in I THEN Append(f[n - 1], list[n]) ELSE f[n - 1]
    <3>1. 0 \in 0..Len(list) /\ \A n \in 0..Len(list) : n # 0 => n \in 1..Len(list)
      BY <1>1
    <3> QED BY <2>1, <3>1, Zenon DEF Keeping
  <2>3. f = [n \in 0..Len(list) |-> f[n]]
    BY Zenon
  <2> QED BY <2>2, <2>3, Zenon
<1> DEFINE kept == CHOOSE f : f = [n \in 0..Len(list) |->
                     IF n = 0 THEN <<>>
                     ELSE IF n \in I THEN Append(f[n - 1], list[n]) ELSE f[n - 1]]
<1>3. kept = [n \in 0..Len(list) |->
                IF n = 0 THEN <<>>
                ELSE IF n \in I THEN Append(kept[n - 1], list[n]) ELSE kept[n - 1]]
  BY <1>2, Zenon

<1>4. Kept(list, I) = kept[Len(list)]
  BY DEF Kept
<1> HIDE DEF kept
<1>5. \A n \in 0..Len(list) :
        kept[n] = IF n = 0 THEN <<>>
                  ELSE IF n \in I THEN Append(kept[n - 1], list[n]) ELSE kept[n - 1]
  BY <1>3, Zenon
<1>6. Keeping(kept, list, I, Len(list))
  <2>1. 0 \in 0..Len(list) /\ \A n \in 1..Len(list) : n \in 0..Len(list) /\ n # 0
    BY <1>1
  <2> QED BY <1>5, <2>1, Zenon DEF Keeping
<1> QED BY <1>4, <1>6

\* The bans kept come from some places, one from each, in their order; they are those at I.
Placed(new, list, I, place, len) ==
  /\ place \in [1..Len(new) -> 1..len]
  /\ \A k \in 1..Len(new) : place[k] \in I /\ new[k] = list[place[k]]
  /\ \A k, l \in 1..Len(new) : k < l => place[k] < place[l]
  /\ \A i \in 1..len : i \in I => \E k \in 1..Len(new) : place[k] = i

LEMMA PlacedStep ==
  ASSUME NEW S, NEW list \in Seq(S), NEW I, NEW m \in Nat, m + 1 <= Len(list),
         NEW old \in Seq(S), NEW place, Placed(old, list, I, place, m)
  PROVE  LET new == IF m + 1 \in I THEN Append(old, list[m + 1]) ELSE old
         IN new \in Seq(S) /\ \E p : Placed(new, list, I, p, m + 1)
<1>0. Len(list) \in Nat /\ Len(old) \in Nat /\ m + 1 \in 1..Len(list) /\ list[m + 1] \in S
  OBVIOUS
<1>1. CASE m + 1 \notin I
  <2>1. Placed(old, list, I, place, m + 1)
    <3>1. place \in [1..Len(old) -> 1..m + 1]
      BY <1>0 DEF Placed
    <3>2. \A i \in 1..m + 1 : i \in I => i \in 1..m
      BY <1>1
    <3> QED BY <3>1, <3>2 DEF Placed
  <2> QED BY <1>1, <2>1
<1>2. CASE m + 1 \in I
  <2> DEFINE new == Append(old, list[m + 1])
             p == [k \in 1..Len(old) + 1 |-> IF k = Len(old) + 1 THEN m + 1 ELSE place[k]]
  <2>1. /\ new \in Seq(S) /\ Len(new) = Len(old) + 1
        /\ new[Len(old) + 1] = list[m + 1] /\ \A k \in 1..Len(old) : new[k] = old[k]
    BY <1>0
  <2>2. /\ place \in [1..Len(old) -> 1..m]
        /\ \A k \in 1..Len(old) : place[k] \in I /\ old[k] = list[place[k]]
        /\ \A k, l \in 1..Len(old) : k < l => place[k] < place[l]
        /\ \A i \in 1..m : i \in I => \E k \in 1..Len(old) : place[k] = i
    BY DEF Placed
  <2>3. /\ p \in [1..Len(old) + 1 -> 1..m + 1]
        /\ p[Len(old) + 1] = m + 1 /\ \A k \in 1..Len(old) : p[k] = place[k]
    BY <1>0, <2>2
  <2> HIDE DEF p, new
  <2>4. \A k \in 1..Len(new) : k \in 1..Len(old) \/ k = Len(old) + 1
    BY <1>0, <2>1
  <2>5. \A k \in 1..Len(new) : p[k] \in I /\ new[k] = list[p[k]]
    BY <1>2, <2>1, <2>2, <2>3, <2>4
  <2>6. \A k, l \in 1..Len(new) : k < l => p[k] < p[l]
    <3> SUFFICES ASSUME NEW k \in 1..Len(new), NEW l \in 1..Len(new), k < l
                 PROVE  p[k] < p[l]
      OBVIOUS
    <3>1. k \in 1..Len(old)
      BY <1>0, <2>1
    <3>2. place[k] \in 1..m
      BY <2>2, <3>1
    <3> QED BY <2>2, <2>3, <2>4, <3>1, <3>2
  <2>7. \A i \in 1..m + 1 : i \in I => \E k \in 1..Len(new) : p[k] = i
    <3> TAKE i \in 1..m + 1
    <3>1. CASE i = m + 1
      <4>1. Len(old) + 1 \in 1..Len(new)
        BY <1>0, <2>1
      <4> QED BY <2>3, <3>1, <4>1
    <3>2. CASE i # m + 1
      <4>1. i \in 1..m /\ \A k \in 1..Len(old) : k \in 1..Len(new)
        BY <1>0, <2>1, <3>2
      <4> QED BY <2>2, <2>3, <4>1
    <3> QED BY <3>1, <3>2
  <2>8. Placed(new, list, I, p, m + 1)
    BY <2>1, <2>3, <2>5, <2>6, <2>7 DEF Placed
  <2> QED BY <1>2, <2>1, <2>8 DEF new
<1> QED BY <1>1, <1>2

LEMMA KeptShape ==
  ASSUME NEW S, NEW list \in Seq(S), NEW I
  PROVE  /\ Kept(list, I) \in Seq(S)
         /\ \E place : Placed(Kept(list, I), list, I, place, Len(list))
<1>0. Len(list) \in Nat
  OBVIOUS
<1>1. PICK kept : Keeping(kept, list, I, Len(list)) /\ Kept(list, I) = kept[Len(list)]
  BY KeptSteps
<1> DEFINE Good(m) == kept[m] \in Seq(S) /\ \E p : Placed(kept[m], list, I, p, m)
           Bad == {m \in Nat : m <= Len(list) /\ ~Good(m)}
<1>2. Good(0)
  <2>1. kept[0] = <<>> /\ Len(<<>>) = 0 /\ 1..0 = {} /\ <<>> \in Seq(S)
    BY <1>1 DEF Keeping
  <2>2. Placed(<<>>, list, I, [k \in {} |-> 0], 0)
    BY <2>1 DEF Placed
  <2> QED BY <2>1, <2>2
<1>3. ASSUME NEW m \in Nat, m + 1 <= Len(list), Good(m) PROVE Good(m + 1)
  <2>1. PICK p : Placed(kept[m], list, I, p, m)
    BY <1>3
  <2>2. m + 1 \in 1..Len(list) /\ (m + 1) - 1 = m
    BY <1>0, <1>3
  <2>3. kept[m + 1] = IF m + 1 \in I THEN Append(kept[m], list[m + 1]) ELSE kept[m]
    BY <1>1, <2>2 DEF Keeping
  <2> QED BY <1>3, <2>1, <2>3, PlacedStep
<1> HIDE DEF Good
<1>4. Bad = {}
  <2> SUFFICES ASSUME Bad # {} PROVE FALSE
    OBVIOUS
  <2>1. PICK m \in Bad : \A k \in Bad : ~ (k < m)
    BY Least
  <2>2. m # 0
    BY <1>2
  <2>3. m - 1 \in Nat /\ m - 1 < m /\ (m - 1) + 1 = m /\ m - 1 <= Len(list)
    BY <1>0, <2>2
  <2>4. Good(m - 1)
    BY <2>1, <2>3
  <2> QED BY <1>3, <2>1, <2>3, <2>4
<1> QED BY <1>0, <1>1, <1>4 DEF Good

-----------------------------------------------------------------------------
(* The bucket.                                                             *)

\* Bans as AddToShitList makes them: a ban with no level is none.
Standing == {b \in Ban : b.level # 0}

\* No mask is banned twice on a channel.
Once(list) ==
  \A i, j \in 1..Len(list) :
    i # j => list[i].channel # list[j].channel \/ list[i].match # list[j].match

Bucket(list) == list \in Seq(Standing) /\ Once(list)

\* Some of the bans are a bucket again.
LEMMA KeptBucket ==
  ASSUME NEW list, Bucket(list), NEW I
  PROVE  /\ Bucket(Kept(list, I))
         /\ \A k \in 1..Len(Kept(list, I)) :
              \E i \in 1..Len(list) : i \in I /\ Kept(list, I)[k] = list[i]
         /\ \A i \in 1..Len(list) : i \in I =>
              \E k \in 1..Len(Kept(list, I)) : Kept(list, I)[k] = list[i]
<1> DEFINE new == Kept(list, I)
<1>1. list \in Seq(Standing) /\ Once(list) /\ Len(list) \in Nat
  BY DEF Bucket
<1>2. new \in Seq(Standing) /\ \E place : Placed(new, list, I, place, Len(list))
  BY <1>1, KeptShape
<1> HIDE DEF new
<1>3. PICK place : Placed(new, list, I, place, Len(list))
  BY <1>2
<1>4. Len(new) \in Nat
  BY <1>2
<1>5. ASSUME NEW k \in 1..Len(new), NEW l \in 1..Len(new), k # l
      PROVE  new[k].channel # new[l].channel \/ new[k].match # new[l].match
  <2>1. place[k] \in 1..Len(list) /\ place[l] \in 1..Len(list)
    BY <1>3 DEF Placed
  <2>2. place[k] # place[l]
    BY <1>3, <1>4, <1>5, <2>1 DEF Placed
  <2>3. LET b == list[place[k]]
            d == list[place[l]]
        IN b.channel # d.channel \/ b.match # d.match
    BY <1>1, <2>1, <2>2 DEF Once
  <2>4. new[k] = list[place[k]] /\ new[l] = list[place[l]]
    BY <1>3 DEF Placed
  <2> QED BY <2>3, <2>4
<1>6. Bucket(new)
  BY <1>2, <1>5 DEF Bucket, Once
<1>7. \A k \in 1..Len(new) : \E i \in 1..Len(list) : i \in I /\ new[k] = list[i]
  BY <1>3 DEF Placed
<1>8. \A i \in 1..Len(list) : i \in I => \E k \in 1..Len(new) : new[k] = list[i]
  BY <1>3 DEF Placed
<1> QED BY <1>6, <1>7, <1>8 DEF new

\* CleanShitList drops what does not stay, nothing else, and adds nothing.
LEMMA CleanKeeps ==
  ASSUME NEW list, Bucket(list), NEW channel
  PROVE  LET new == Clean(list, channel)
         IN /\ Bucket(new)
            /\ \A k \in 1..Len(new) :
                 \E i \in 1..Len(list) : Stays(list[i], channel) /\ new[k] = list[i]
            /\ \A i \in 1..Len(list) : Stays(list[i], channel) =>
                 \E k \in 1..Len(new) : new[k] = list[i]
<1> DEFINE I == {i \in 1..Len(list) : Stays(list[i], channel)}
<1>1. \A i \in 1..Len(list) : i \in I <=> Stays(list[i], channel)
  OBVIOUS
<1>2. Clean(list, channel) = Kept(list, I)
  BY DEF Clean
<1> HIDE DEF I
<1>3. /\ Bucket(Kept(list, I))
      /\ \A k \in 1..Len(Kept(list, I)) :
           \E i \in 1..Len(list) : i \in I /\ Kept(list, I)[k] = list[i]
      /\ \A i \in 1..Len(list) : i \in I =>
           \E k \in 1..Len(Kept(list, I)) : Kept(list, I)[k] = list[i]
  BY KeptBucket
<1> QED BY <1>1, <1>2, <1>3, Zenon

\* LoadShitList makes a bucket of the file.
LEMMA LoadBucket ==
  ASSUME NEW file, Bucket(file), NEW t
  PROVE  Bucket(Load(file, t))
<1> DEFINE live == Kept(file, {i \in 1..Len(file) : file[i].expiration >= t})
           new == Load(file, t)
           at(k) == (Len(live) - k) + 1
<1>1. Bucket(live)
  BY KeptBucket
<1>2. new = [k \in 1..Len(Reverse(live)) |->
               [Reverse(live)[k] EXCEPT !.level = IF @ > 500 THEN 500 ELSE @]]
  BY DEF Load
<1> HIDE DEF live, new
<1>3. live \in Seq(Standing) /\ Len(live) \in Nat
  BY <1>1 DEF Bucket
<1>4. Reverse(live) = [k \in 1..Len(live) |-> live[at(k)]]
  BY DEF Reverse
<1>5. \A k \in 1..Len(live) : at(k) \in 1..Len(live) /\ live[at(k)] \in Standing
  BY <1>3
<1> HIDE DEF at
<1>6. Reverse(live) \in Seq(Standing) /\ Len(Reverse(live)) = Len(live)
  BY <1>3, <1>4, <1>5
<1>7. \A k \in 1..Len(live) :
         /\ new[k] = [live[at(k)] EXCEPT !.level = IF @ > 500 THEN 500 ELSE @]
         /\ new[k] \in Standing
         /\ new[k].channel = live[at(k)].channel /\ new[k].match = live[at(k)].match
  <2> TAKE k \in 1..Len(live)
  <2>1. new[k] = [live[at(k)] EXCEPT !.level = IF @ > 500 THEN 500 ELSE @]
    BY <1>2, <1>4, <1>6
  <2> DEFINE b == live[at(k)]
  <2>2. b \in Standing
    BY <1>5
  <2> HIDE DEF b
  <2>3. b.level \in 1..1000
    BY <2>2 DEF Standing, Ban
  <2> DEFINE v == IF b.level > 500 THEN 500 ELSE b.level
             n == b.level
  <2>4. v \in 0..1000 /\ v # 0
    <3>1. n \in 1..1000 /\ v = IF n > 500 THEN 500 ELSE n
      BY <2>3
    <3> HIDE DEF n, v
    <3> QED BY <3>1
  <2>5. new[k] = [b EXCEPT !.level = v]
    BY <2>1 DEF b
  <2> HIDE DEF v
  <2>6. b \in Ban
    BY <2>2 DEF Standing
  <2>7. new[k] = [channel |-> b.channel, match |-> b.match, expiration |-> b.expiration,
                  level |-> v]
    BY <2>5, <2>6 DEF Ban
  <2>8. /\ new[k] \in Standing
        /\ new[k].channel = b.channel /\ new[k].match = b.match
    BY <2>4, <2>6, <2>7 DEF Standing, Ban
  <2> QED BY <2>1, <2>8 DEF b
<1>8. new \in Seq(Standing) /\ Len(new) = Len(live)
  <2>1. new = [k \in 1..Len(live) |-> new[k]]
    BY <1>2, <1>6
  <2>2. \A k \in 1..Len(live) : new[k] \in Standing
    BY <1>7
  <2> QED BY <1>3, <2>1, <2>2
<1>9. ASSUME NEW k \in 1..Len(new), NEW l \in 1..Len(new), k # l
      PROVE  new[k].channel # new[l].channel \/ new[k].match # new[l].match
  <2>1. at(k) # at(l)
    BY <1>3, <1>8, <1>9 DEF at
  <2>2. /\ at(k) \in 1..Len(live) /\ at(l) \in 1..Len(live)
        /\ new[k].channel = live[at(k)].channel /\ new[k].match = live[at(k)].match
        /\ new[l].channel = live[at(l)].channel /\ new[l].match = live[at(l)].match
    <3>1. k \in 1..Len(live) /\ l \in 1..Len(live)
      BY <1>8
    <3> QED BY <1>5, <1>7, <3>1
  <2> QED BY <1>1, <2>1, <2>2 DEF Bucket, Once
<1> QED BY <1>8, <1>9 DEF Bucket, Once, new

-----------------------------------------------------------------------------
(* Masks.                                                                  *)

\* A mask is within itself, and what is within a mask is within those it is within.
LEMMA MatchSelf == ASSUME NEW m PROVE Match(m, m)
BY DEF Match

LEMMA MatchOn ==
  ASSUME NEW s, NEW m, NEW n, Match(s, m), Match(m, n)
  PROVE  Match(s, n)
BY DEF Match

\* What is made of a client is a mask.
LEMMA MadeIsMask == ASSUME NEW c \in Clients PROVE MakeBanMask(c) \in Mask
<1>1. Real[c] \in Address /\ Shown[c] \in Address /\ Groups[c] \in Nets
  BY MasksOK
<1>2. ASSUME NEW a \in Address
      PROVE  /\ [a EXCEPT !.user = Star] \in Mask /\ [a EXCEPT !.node = Star] \in Mask
             /\ a.user \in Users
  <2>1. PICK u \in Users, n \in Nets, d \in Nodes : a = [user |-> u, net |-> n, node |-> d]
    BY DEF Address
  <2>2. /\ [a EXCEPT !.user = Star] = [user |-> Star, net |-> n, node |-> d]
        /\ [a EXCEPT !.node = Star] = [user |-> u, net |-> n, node |-> Star]
    BY <2>1
  <2> QED BY <2>1, <2>2 DEF Mask
<1>3. \A u \in Users, n \in Nets : [user |-> u, net |-> n, node |-> Prefix] \in Mask
  BY DEF Mask
<1> QED BY <1>1, <1>2, <1>3, Zenon DEF MakeBanMask

-----------------------------------------------------------------------------
(* The walks, and AddToShitList.                                           *)

\* What a walk of AddToShitList finds: the first ban that fits.
LEMMA FirstFit ==
  ASSUME NEW list, Bucket(list), NEW channel, NEW exact, NEW m
  PROVE  LET i == SelectInSeq(list, LAMBDA b : Fits(b, channel, exact, m))
         IN \/ i = 0 /\ \A k \in 1..Len(list) : ~Fits(list[k], channel, exact, m)
            \/ /\ i \in 1..Len(list) /\ Fits(list[i], channel, exact, m)
               /\ \A k \in 1..Len(list) : k < i => ~Fits(list[k], channel, exact, m)
<1> DEFINE I == {k \in 1..Len(list) : Fits(list[k], channel, exact, m)}
<1>1. SelectInSeq(list, LAMBDA b : Fits(b, channel, exact, m)) = IF I # {} THEN Min(I) ELSE 0
  BY DEF SelectInSeq
<1>2. Len(list) \in Nat
  BY DEF Bucket
<1>3. I \in SUBSET Nat /\ \A k \in I : k \in 1..Len(list)
  BY <1>2
<1>4. I # {} => Min(I) \in I /\ \A k \in I : Min(I) <= k
  BY <1>3, MinIsFirst
<1> HIDE DEF I
<1>5. CASE I = {}
  <2>1. \A k \in 1..Len(list) : ~Fits(list[k], channel, exact, m)
    BY <1>5, Zenon DEF I
  <2> QED BY <1>1, <1>5, <2>1
<1>6. CASE I # {}
  <2>1. /\ Min(I) \in 1..Len(list) /\ Fits(list[Min(I)], channel, exact, m)
        /\ \A k \in 1..Len(list) : Fits(list[k], channel, exact, m) => Min(I) <= k
    BY <1>4, <1>6, Zenon DEF I
  <2>2. \A k \in 1..Len(list) : k < Min(I) => ~Fits(list[k], channel, exact, m)
    BY <1>2, <2>1
  <2> QED BY <1>1, <1>6, <2>1, <2>2
<1> QED BY <1>5, <1>6

\* The levels AddToShitList is given, by name: the literal is spelt out number by number
\* in the provers' terms.
Weight == 1..1000

\* A ban that is raised stays the same ban; it ends no earlier and weighs no less.
LEMMA RaiseKeeps ==
  ASSUME NEW b \in Standing, NEW exp \in Int, NEW level \in Weight
  PROVE  LET r == Raise(b, exp, level)
         IN /\ r \in Standing /\ r.channel = b.channel /\ r.match = b.match
            /\ r.expiration = b.expiration \/ r.expiration = exp
            /\ r.expiration >= exp /\ r.level >= level
<1> DEFINE e == b.expiration
           n == b.level
           e2 == IF e < exp THEN exp ELSE e
           n2 == IF n < level THEN level ELSE n
           r == Raise(b, exp, level)
<1>0. level \in 1..1000
  BY DEF Weight
<1>1. e \in Int /\ n \in 1..1000 /\ b \in Ban
  BY DEF Standing, Ban
<1>2. r = [b EXCEPT !.expiration = e2, !.level = n2]
  BY DEF Raise
<1>3. e2 \in Int /\ e2 >= exp /\ (e2 = e \/ e2 = exp) /\ n2 \in 0..1000 /\ n2 # 0 /\ n2 >= level
  <2> HIDE DEF e, n
  <2> QED BY <1>0, <1>1
<1> HIDE DEF e2, n2, r
<1>4. r = [channel |-> b.channel, match |-> b.match, expiration |-> e2, level |-> n2]
  <2>1. b = [channel |-> b.channel, match |-> b.match, expiration |-> b.expiration,
             level |-> b.level]
    BY <1>1 DEF Ban
  <2> QED BY <1>2, <2>1
<1>5. b.channel \in Channels /\ b.match \in Mask
  BY <1>1 DEF Ban
<1>6. r \in Standing
  BY <1>3, <1>4, <1>5 DEF Standing, Ban
<1>7. r.channel = b.channel /\ r.match = b.match /\ r.expiration = e2 /\ r.level = n2
  BY <1>4
<1> QED BY <1>3, <1>6, <1>7 DEF r

\* A ban put in front of a list moves the others one place.
LEMMA InFront ==
  ASSUME NEW list \in Seq(Standing), NEW b \in Standing
  PROVE  LET new == <<b>> \o list
         IN /\ new \in Seq(Standing) /\ Len(new) = Len(list) + 1 /\ new[1] = b
            /\ \A k \in 1..Len(list) : new[k + 1] = list[k]
<1> DEFINE one == <<b>>
<1>1. one \in Seq(Standing) /\ Len(one) = 1 /\ one[1] = b
  OBVIOUS
<1> HIDE DEF one
<1>2. /\ one \o list \in Seq(Standing) /\ Len(one \o list) = Len(one) + Len(list)
      /\ \A k \in 1..Len(one) + Len(list) :
           (one \o list)[k] = IF k <= Len(one) THEN one[k] ELSE list[k - Len(one)]
  BY <1>1, ConcatProperties
<1> DEFINE new == one \o list
<1> HIDE DEF new
<1>3. new[1] = one[1]
  BY <1>1, <1>2 DEF new
<1>4. ASSUME NEW k \in 1..Len(list)
      PROVE  new[k + 1] = list[k]
  <2>1. k + 1 \in 1..(Len(one) + Len(list)) /\ ~ (k + 1 <= Len(one)) /\ (k + 1) - Len(one) = k
    BY <1>1
  <2>2. new[k + 1] = list[(k + 1) - Len(one)]
    BY <1>2, <2>1, Zenon DEF new
  <2> QED BY <2>1, <2>2
<1>5. new \in Seq(Standing) /\ Len(new) = Len(list) + 1
  BY <1>1, <1>2 DEF new
<1> QED BY <1>1, <1>3, <1>4, <1>5 DEF one, new

\* Place f holds the first ban of the list that stands for what was typed.
FirstAt(list, f, channel, exact, m) ==
  /\ f \in 1..Len(list) /\ Fits(list[f], channel, exact, m)
  /\ \A k \in 1..Len(list) : k < f => ~Fits(list[k], channel, exact, m)

\* That ban ends no earlier and weighs no less than asked.
Held(list, channel, exact, m, exp, level) ==
  \E f \in 1..Len(list) : /\ FirstAt(list, f, channel, exact, m)
                          /\ list[f].expiration >= exp /\ list[f].level >= level

\* The ends of the bans of a list are those of shitlist, and the one asked.
EndsOf(list, channel, exp) ==
  \A k \in 1..Len(list) :
    \/ \E i \in 1..Len(shitlist) : Mark(list[k]) = Mark(shitlist[i])
    \/ list[k].channel = channel /\ list[k].expiration = exp

\* What AddToShitList makes of the list.
LEMMA ListedShape ==
  ASSUME Bucket(shitlist), NEW channel \in Channels, NEW exact, NEW m \in Mask,
         NEW exp \in Int, NEW level \in Weight
  PROVE  LET new == Listed(channel, exact, m, exp, level)
         IN /\ Bucket(new)
            /\ Held(new, channel, exact, m, exp, level)
            /\ EndsOf(new, channel, exp)
<1> DEFINE new == Listed(channel, exact, m, exp, level)
           i == SelectInSeq(shitlist, LAMBDA b : Fits(b, channel, exact, m))
           ban == [channel |-> channel, match |-> m, expiration |-> exp, level |-> level]
<1>1. shitlist \in Seq(Standing) /\ Once(shitlist) /\ Len(shitlist) \in Nat
  BY DEF Bucket
<1>2. \/ i = 0 /\ \A k \in 1..Len(shitlist) : ~Fits(shitlist[k], channel, exact, m)
      \/ /\ i \in 1..Len(shitlist) /\ Fits(shitlist[i], channel, exact, m)
         /\ \A k \in 1..Len(shitlist) : k < i => ~Fits(shitlist[k], channel, exact, m)
  BY FirstFit
<1>3. new = IF i # 0 THEN [shitlist EXCEPT ![i] = Raise(shitlist[i], exp, level)]
                     ELSE <<ban>> \o shitlist
  BY DEF Listed
<1> HIDE DEF i, new
<1>4. CASE i # 0
  <2>1. /\ i \in 1..Len(shitlist) /\ Fits(shitlist[i], channel, exact, m)
        /\ \A k \in 1..Len(shitlist) : k < i => ~Fits(shitlist[k], channel, exact, m)
        /\ shitlist[i] \in Standing
    BY <1>1, <1>2, <1>4
  <2> DEFINE r == Raise(shitlist[i], exp, level)
  <2> DEFINE b == shitlist[i]
  <2>a. b \in Standing
    BY <2>1
  <2> HIDE DEF b
  <2>b. LET s == Raise(b, exp, level)
        IN /\ s \in Standing /\ s.channel = b.channel /\ s.match = b.match
           /\ s.expiration = b.expiration \/ s.expiration = exp
           /\ s.expiration >= exp /\ s.level >= level
    BY <2>a, RaiseKeeps, Zenon
  <2>2. /\ r \in Standing /\ r.channel = shitlist[i].channel /\ r.match = shitlist[i].match
        /\ r.expiration = shitlist[i].expiration \/ r.expiration = exp
        /\ r.expiration >= exp /\ r.level >= level
    BY <2>b, Zenon DEF b
  <2> HIDE DEF r
  <2>3. new = [shitlist EXCEPT ![i] = r]
    BY <1>3, <1>4 DEF r
  <2>4. /\ new \in Seq(Standing) /\ Len(new) = Len(shitlist) /\ new[i] = r
        /\ \A k \in 1..Len(shitlist) : k # i => new[k] = shitlist[k]
    BY <1>1, <2>1, <2>2, <2>3
  <2>5. \A k \in 1..Len(shitlist) :
          new[k].channel = shitlist[k].channel /\ new[k].match = shitlist[k].match
    BY <2>2, <2>4
  <2>6. Bucket(new)
    BY <1>1, <2>4, <2>5 DEF Bucket, Once
  <2>7. \A k \in 1..Len(shitlist) : Fits(new[k], channel, exact, m)
                                   <=> Fits(shitlist[k], channel, exact, m)
    BY <2>5 DEF Fits
  <2>8. Fits(new[i], channel, exact, m)
        /\ \A k \in 1..Len(new) : k < i => ~Fits(new[k], channel, exact, m)
    BY <2>1, <2>4, <2>7
  <2>9. \A k \in 1..Len(new) :
          \/ \E j \in 1..Len(shitlist) : Mark(new[k]) = Mark(shitlist[j])
          \/ new[k].channel = channel /\ new[k].expiration = exp
    <3> TAKE k \in 1..Len(new)
    <3>1. CASE k # i
      BY <2>4, <3>1
    <3>2. CASE k = i
      <4>1. shitlist[i].channel = channel
        BY <2>1 DEF Fits
      <4> QED BY <2>1, <2>2, <2>4, <3>2, <4>1 DEF Mark
    <3> QED BY <3>1, <3>2
  <2>10. Held(new, channel, exact, m, exp, level)
    <3>1. i \in 1..Len(new) /\ FirstAt(new, i, channel, exact, m)
      BY <2>1, <2>4, <2>8 DEF FirstAt
    <3>2. new[i].expiration >= exp /\ new[i].level >= level
      BY <2>2, <2>4
    <3> QED BY <3>1, <3>2, Zenon DEF Held
  <2>11. EndsOf(new, channel, exp)
    BY <2>9 DEF EndsOf
  <2> QED BY <2>6, <2>10, <2>11, Zenon DEF new
<1>5. CASE i = 0
  <2>1. \A k \in 1..Len(shitlist) : ~Fits(shitlist[k], channel, exact, m)
    BY <1>2, <1>5
  <2>2. ban \in Standing /\ ban.channel = channel /\ ban.match = m
        /\ ban.expiration = exp /\ ban.level = level
    BY DEF Standing, Ban, Weight
  <2> HIDE DEF ban
  <2>3. Fits(ban, channel, exact, m)
    BY <2>2, MatchSelf, Zenon DEF Fits
  <2>4. new = <<ban>> \o shitlist
    BY <1>3, <1>5
  <2>5. <<ban>> \in Seq(Standing) /\ Len(<<ban>>) = 1 /\ <<ban>>[1] = ban
    BY <2>2
  <2>6. /\ new \in Seq(Standing) /\ Len(new) = Len(shitlist) + 1 /\ new[1] = ban
        /\ \A k \in 1..Len(shitlist) : new[k + 1] = shitlist[k]
    BY <1>1, <2>2, <2>4, InFront
  <2>7. \A k \in 1..Len(new) : k = 1 \/ (k - 1 \in 1..Len(shitlist) /\ new[k] = shitlist[k - 1])
    <3> TAKE k \in 1..Len(new)
    <3>1. CASE k # 1
      <4>1. k - 1 \in 1..Len(shitlist) /\ (k - 1) + 1 = k
        BY <1>1, <2>6, <3>1
      <4> QED BY <2>6, <4>1
    <3> QED BY <3>1
  <2>8. \A k \in 1..Len(shitlist) :
          shitlist[k].channel # channel \/ shitlist[k].match # m
    <3> TAKE k \in 1..Len(shitlist)
    <3>1. ~Fits(shitlist[k], channel, exact, m)
      BY <2>1
    <3> QED BY <3>1, MatchSelf, Zenon DEF Fits
  <2>9. Once(new)
    <3> SUFFICES ASSUME NEW k \in 1..Len(new), NEW l \in 1..Len(new), k # l
                 PROVE  new[k].channel # new[l].channel \/ new[k].match # new[l].match
      BY DEF Once
    <3>1. CASE k = 1
      BY <2>2, <2>6, <2>7, <2>8, <3>1
    <3>2. CASE l = 1
      BY <2>2, <2>6, <2>7, <2>8, <3>2
    <3>3. CASE k # 1 /\ l # 1
      <4>1. /\ k - 1 \in 1..Len(shitlist) /\ l - 1 \in 1..Len(shitlist) /\ k - 1 # l - 1
            /\ new[k] = shitlist[k - 1] /\ new[l] = shitlist[l - 1]
        BY <1>1, <2>6, <2>7, <3>3
      <4> QED BY <1>1, <4>1 DEF Once
    <3> QED BY <3>1, <3>2, <3>3
  <2>10. \A k \in 1..Len(new) :
           \/ \E j \in 1..Len(shitlist) : Mark(new[k]) = Mark(shitlist[j])
           \/ new[k].channel = channel /\ new[k].expiration = exp
    BY <2>2, <2>6, <2>7
  <2>11. 1 \in 1..Len(new) /\ \A k \in 1..Len(new) : ~ (k < 1)
    BY <1>1, <2>6
  <2>12. ban.expiration >= exp /\ ban.level >= level
    <3>1. exp \in Int /\ level \in Int
      BY DEF Weight
    <3> QED BY <2>2, <3>1
  <2>13. Bucket(new)
    BY <2>6, <2>9 DEF Bucket
  <2>14. Held(new, channel, exact, m, exp, level)
    <3>1. FirstAt(new, 1, channel, exact, m)
      BY <2>3, <2>6, <2>11 DEF FirstAt
    <3>2. new[1].expiration >= exp /\ new[1].level >= level
      BY <2>6, <2>12
    <3> QED BY <2>11, <3>1, <3>2, Zenon DEF Held
  <2>15. EndsOf(new, channel, exp)
    BY <2>10 DEF EndsOf
  <2> QED BY <2>13, <2>14, <2>15, Zenon DEF new
<1> QED BY <1>4, <1>5
-----------------------------------------------------------------------------
(* What a client is banned by.                                             *)

\* The first ban that fits, when it is kept, is again the first that fits.
LEMMA KeptFirst ==
  ASSUME NEW list, Bucket(list), NEW I, NEW channel, NEW exact, NEW m,
         NEW f \in I, FirstAt(list, f, channel, exact, m),
         NEW new, new = Kept(list, I)
  PROVE  \E p \in 1..Len(new) : FirstAt(new, p, channel, exact, m) /\ new[p] = list[f]
<1>0. /\ f \in 1..Len(list) /\ Fits(list[f], channel, exact, m)
      /\ \A k \in 1..Len(list) : k < f => ~Fits(list[k], channel, exact, m)
  BY DEF FirstAt
<1>1. \E place : Placed(new, list, I, place, Len(list))
  BY KeptShape DEF Bucket
<1>2. PICK place : Placed(new, list, I, place, Len(list))
  BY <1>1
<1>3. PICK p \in 1..Len(new) : place[p] = f
  BY <1>0, <1>2 DEF Placed
<1>4. new[p] = list[f]
  BY <1>2, <1>3 DEF Placed
<1>5. ASSUME NEW k \in 1..Len(new), k < p
      PROVE  ~Fits(new[k], channel, exact, m)
  <2>1. place[k] \in 1..Len(list) /\ place[k] < f /\ new[k] = list[place[k]]
    BY <1>2, <1>3, <1>5 DEF Placed
  <2> QED BY <1>0, <2>1
<1> QED BY <1>0, <1>3, <1>4, <1>5 DEF FirstAt

\* Flood protection adds a ban for a mask that was made, not one that was typed.
Exactly == FALSE

\* The bans a client is under.
Under(b, channel, client) ==
  b.channel = channel /\ (Match(Real[client], b.match) \/ Match(Shown[client], b.match))

\* What IsShit finds: the first ban the client is under.
LEMMA FirstFound ==
  ASSUME NEW list, Bucket(list), NEW channel, NEW client
  PROVE  LET i == FindShit(list, channel, client)
         IN \/ i = 0 /\ \A k \in 1..Len(list) : ~Under(list[k], channel, client)
            \/ /\ i \in 1..Len(list) /\ Under(list[i], channel, client)
               /\ \A k \in 1..Len(list) : Under(list[k], channel, client) => i <= k
<1> DEFINE T == {k \in 1..Len(list) : Under(list[k], channel, client)}
           i == FindShit(list, channel, client)
<1>1. i = IF T # {} THEN Min(T) ELSE 0
  BY DEF FindShit, SelectInSeq, Under
<1>2. Len(list) \in Nat /\ T \in SUBSET Nat
  BY DEF Bucket
<1>3. T # {} => Min(T) \in T /\ \A k \in T : Min(T) <= k
  BY <1>2, MinIsFirst
<1> HIDE DEF i
<1>4. CASE T = {}
  <2>1. \A k \in 1..Len(list) : ~Under(list[k], channel, client)
    BY <1>4, Zenon
  <2> QED BY <1>1, <1>4, <2>1 DEF i
<1>5. CASE T # {}
  <2>1. i \in T /\ \A k \in T : i <= k
    BY <1>1, <1>3, <1>5
  <2> QED BY <2>1, Zenon DEF i
<1> QED BY <1>4, <1>5

\* AddToShitList, for the mask of a client, of a ban that is not over on a channel that is
\* there: when the client is within its mask, it is then held at the level or more, or it
\* is under a ban further in front that its mask is not within.
LEMMA AddedHolds ==
  ASSUME Bucket(shitlist), NEW channel \in Channels, NEW client \in Clients, NEW exp \in Int,
         NEW level \in Weight, channel \in chans, now \in Int, exp > now,
         \/ Match(Real[client], MakeBanMask(client))
         \/ Match(Shown[client], MakeBanMask(client))
  PROVE  LET new == Clean(Listed(channel, Exactly, MakeBanMask(client), exp, level), channel)
             i == FindShit(new, channel, client)
         IN \/ IsShit(new, channel, client) >= level
            \/ i # 0 /\ ~Match(MakeBanMask(client), new[i].match)
<1> DEFINE m == MakeBanMask(client)
           new == Listed(channel, Exactly, m, exp, level)
<1>0. m \in Mask
  BY MadeIsMask
<1>a. Match(Real[client], m) \/ Match(Shown[client], m)
  OBVIOUS
<1> HIDE DEF m
<1>1. Bucket(new)
  BY <1>0, ListedShape, Zenon
<1>2. Held(new, channel, Exactly, m, exp, level)
  BY <1>0, ListedShape, Zenon
<1> HIDE DEF new
<1>3. PICK f \in 1..Len(new) :
        /\ FirstAt(new, f, channel, Exactly, m)
        /\ new[f].expiration >= exp /\ new[f].level >= level
  BY <1>2 DEF Held
<1>4. new[f] \in Standing
  BY <1>1 DEF Bucket
<1>5. Stays(new[f], channel)
  <2>1. new[f].channel = channel
    BY <1>3 DEF FirstAt, Fits
  <2>2. new[f].expiration \in Int /\ new[f].level # 0
    BY <1>4 DEF Standing, Ban
  <2>3. ~ (new[f].expiration <= now)
    BY <1>3, <2>2
  <2> QED BY <2>1, <2>2, <2>3 DEF Stays
<1> DEFINE I == {k \in 1..Len(new) : Stays(new[k], channel)}
           kept == Clean(new, channel)
           i == FindShit(kept, channel, client)
<1>6. kept = Kept(new, I)
  BY DEF Clean
<1>7. f \in I
  BY <1>5
<1>8. IsShit(kept, channel, client) = IF i = 0 THEN 0 ELSE kept[i].level
  BY DEF IsShit
<1> HIDE DEF I, kept
<1>9. \E p \in 1..Len(kept) : FirstAt(kept, p, channel, Exactly, m) /\ kept[p] = new[f]
  BY <1>1, <1>3, <1>6, <1>7, KeptFirst
<1>10. PICK p \in 1..Len(kept) : FirstAt(kept, p, channel, Exactly, m) /\ kept[p] = new[f]
  BY <1>9
<1>11. Bucket(kept)
  BY <1>1, <1>6, KeptBucket
<1>12. /\ kept[p].channel = channel /\ Match(m, kept[p].match)
       /\ \A k \in 1..Len(kept) :
            k < p => kept[k].channel # channel \/ ~Match(m, kept[k].match)
  BY <1>10, Zenon DEF FirstAt, Fits, Exactly
<1>13. Under(kept[p], channel, client)
  BY <1>a, <1>12, MatchOn, Zenon DEF Under
<1>14. \/ i = 0 /\ \A k \in 1..Len(kept) : ~Under(kept[k], channel, client)
       \/ /\ i \in 1..Len(kept) /\ Under(kept[i], channel, client)
          /\ \A k \in 1..Len(kept) : Under(kept[k], channel, client) => i <= k
  BY <1>11, FirstFound, Zenon
<1> HIDE DEF i
<1>15. i \in 1..Len(kept) /\ kept[i].channel = channel /\ i <= p
  BY <1>13, <1>14, Zenon DEF Under
<1>16. Len(kept) \in Nat
  BY <1>11 DEF Bucket
<1>17. CASE i = p
  <2>1. IsShit(kept, channel, client) >= level
    BY <1>3, <1>8, <1>10, <1>15, <1>16, <1>17
  <2> QED BY <2>1, Zenon DEF kept, new, m
<1>18. CASE i # p
  <2>1. i < p /\ i # 0
    BY <1>15, <1>16, <1>18
  <2>2. ~Match(m, kept[i].match)
    BY <1>12, <1>15, <2>1, Zenon
  <2> QED BY <2>1, <2>2, Zenon DEF kept, new, m, i
<1> QED BY <1>17, <1>18
=============================================================================
