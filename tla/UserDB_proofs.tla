---------------------------- MODULE UserDB_proofs ----------------------------
(***************************************************************************)
(* The safety theorems of UserDB, for every value of the constants: IInv   *)
(* is inductive, and TypeOK, RefCount, NoDangling and HookOwned follow.    *)
(*                                                                         *)
(* First the heap of records and logins: the lemmas say what each          *)
(* primitive (mark, allocate, insert, free, log in, log out) does to a     *)
(* heap that is right.  A step of the specification is a few primitives in *)
(* a row.                                                                  *)
(*                                                                         *)
(* IInv is cut in two.  Good is about the heap, the files and the queries; *)
(* one lemma per operation shows that it keeps Good, from what the lemmas  *)
(* say of the primitives.  Rest is about the variables that drive the      *)
(* write-back pass.                                                        *)
(***************************************************************************)
EXTENDS UserDB, FiniteSetTheorems, SequenceTheorems, TLAPS

-----------------------------------------------------------------------------
(* The heap: a pair f, g of record cells and login cells.                  *)

HeapType(f, g) ==
  /\ f \in [Regs -> RegUser \cup {NULL}]
  /\ g \in [Vals -> avalchan \cup {NULL}]

Counts(f, g) == \A r \in Regs : f[r] # NULL => f[r].inuse = Cardinality(Refs(g, r))
Points(f, g) ==
  \A v \in Vals : g[v] # NULL => f[g[v].reg] # NULL /\ f[g[v].reg].listed
Shapes(f) == \A r \in Regs : f[r] # NULL => WellFormed(f[r])

HeapOK(f, g) == HeapType(f, g) /\ Counts(f, g) /\ Points(f, g) /\ Shapes(f)

\* Records built but not in the table yet.
Pending(f) == {r \in Regs : f[r] # NULL /\ ~f[r].listed}

\* A heap like f as far as logins and the table go.
Like(f2, f) ==
  /\ f2 \in [Regs -> RegUser \cup {NULL}]
  /\ Shapes(f2)
  /\ \A r \in Regs :
       /\ f2[r] = NULL <=> f[r] = NULL
       /\ f[r] # NULL => f2[r].inuse = f[r].inuse /\ f2[r].listed = f[r].listed

(* Changing what a record says, not who uses it, keeps a heap right.       *)
LEMMA LikeOK ==
  ASSUME NEW f, NEW f2, NEW g, HeapOK(f, g), Like(f2, f)
  PROVE  HeapOK(f2, g) /\ Pending(f2) = Pending(f) /\ Listed(f2) = Listed(f)
<1>1. HeapType(f2, g)  BY DEF HeapOK, HeapType, Like
<1>2. Counts(f2, g)  BY DEF HeapOK, Counts, Like
<1>3. Points(f2, g)
  <2> SUFFICES ASSUME NEW v \in Vals, g[v] # NULL
               PROVE  f2[g[v].reg] # NULL /\ f2[g[v].reg].listed
    BY DEF Points
  <2>1. g[v].reg \in Regs  BY DEF HeapOK, HeapType, avalchan
  <2> QED  BY <2>1 DEF HeapOK, Points, Like
<1>4. Pending(f2) = Pending(f) /\ Listed(f2) = Listed(f)
  BY DEF Pending, Listed, Like
<1> QED  BY <1>1, <1>2, <1>3, <1>4 DEF HeapOK, Like

(* Nobody is logged in through a cell that is not allocated, or not listed. *)
LEMMA NoRefs ==
  ASSUME NEW f, NEW g, HeapOK(f, g), NEW r \in Regs, r \notin Listed(f)
  PROVE  Refs(g, r) = {}
BY DEF HeapOK, Points, Listed, Refs

(* A record nobody uses has no login.                                      *)
LEMMA ZeroRefs ==
  ASSUME NEW f, NEW g, HeapOK(f, g), NEW r \in Listed(f), f[r].inuse = 0
  PROVE  Refs(g, r) = {}
<1>1. IsFiniteSet(Refs(g, r))
  <2>1. Refs(g, r) \subseteq Vals  BY DEF Refs
  <2> QED  BY <2>1, ConstantsOK, FS_Subset DEF ConstantsOK
<1>2. Cardinality(Refs(g, r)) = 0  BY DEF HeapOK, Counts, Listed
<1> QED  BY <1>1, <1>2, FS_EmptySet

(* Allocation of a record.                                                 *)
LEMMA AllocOK ==
  ASSUME NEW f, NEW g, HeapOK(f, g), NEW r \in Fresh(f),
         NEW reg \in RegUser, WellFormed(reg), reg.inuse = 0, ~reg.listed
  PROVE  LET f2 == [f EXCEPT ![r] = reg]
         IN  HeapOK(f2, g) /\ Pending(f2) = Pending(f) \cup {r}
             /\ Listed(f2) = Listed(f) /\ r \notin Pending(f)
<1> DEFINE f2 == [f EXCEPT ![r] = reg]
<1>1. r \in Regs /\ f[r] = NULL /\ reg # NULL
  BY NullOK DEF HeapOK, HeapType, Fresh, NullOK
<1>2. HeapType(f2, g)  BY DEF HeapOK, HeapType
<1>3. Refs(g, r) = {}  BY <1>1, NoRefs DEF Listed
<1>4. Counts(f2, g)  BY <1>1, <1>3, FS_EmptySet DEF HeapOK, HeapType, Counts
<1>5. Points(f2, g)
  <2> SUFFICES ASSUME NEW v \in Vals, g[v] # NULL
               PROVE  f2[g[v].reg] # NULL /\ f2[g[v].reg].listed
    BY DEF Points
  <2>1. g[v].reg \in Regs  BY DEF HeapOK, HeapType, avalchan
  <2> QED  BY <1>1, <2>1 DEF HeapOK, HeapType, Points
<1>6. Shapes(f2)  BY <1>1 DEF HeapOK, HeapType, Shapes
<1>7. /\ Pending(f2) = Pending(f) \cup {r} /\ Listed(f2) = Listed(f)
      /\ r \notin Pending(f)
  BY <1>1 DEF HeapOK, HeapType, Pending, Listed
<1> QED  BY <1>2, <1>4, <1>5, <1>6, <1>7 DEF HeapOK

(* A record is put into the table.                                         *)
LEMMA InsertOK ==
  ASSUME NEW f, NEW g, HeapOK(f, g), NEW r \in Regs, f[r] # NULL
  PROVE  /\ HeapOK(Insert(f, r), g)
         /\ Pending(Insert(f, r)) = Pending(f) \ {r}
         /\ Listed(Insert(f, r)) = Listed(f) \cup {r}
<1> DEFINE f2 == Insert(f, r)
<1>1. f[r] \in RegUser /\ Listed(f) \in SUBSET Regs
  BY DEF HeapOK, HeapType, Listed
<1>2. f2 = [f EXCEPT ![r] = [f[r] EXCEPT !.listed = TRUE, !.next = Listed(f)]]
  BY DEF Insert, HeapOK, HeapType
<1> DEFINE reg == [f[r] EXCEPT !.listed = TRUE, !.next = Listed(f)]
<1>3. /\ reg \in RegUser /\ reg.inuse = f[r].inuse /\ reg.listed /\ reg # NULL
  <2>1. reg \in RegUser /\ reg.inuse = f[r].inuse /\ reg.listed
    BY <1>1 DEF RegUser
  <2>2. \A x \in RegUser : x # NULL
    BY NullOK
  <2> QED BY <2>1, <2>2
<1>4. WellFormed(reg)
  <2>1. WellFormed(f[r])  BY DEF HeapOK, Shapes
  <2> QED  BY <1>1, <2>1 DEF WellFormed, RegUser
<1> HIDE DEF reg
<1>5. f2 = [f EXCEPT ![r] = reg]  BY <1>2 DEF reg
<1> HIDE DEF f2
<1>6. HeapType(f2, g)  BY <1>3, <1>5 DEF HeapOK, HeapType
<1>7. Counts(f2, g)  BY <1>3, <1>5 DEF HeapOK, HeapType, Counts
<1>8. Points(f2, g)
  <2> SUFFICES ASSUME NEW v \in Vals, g[v] # NULL
               PROVE  f2[g[v].reg] # NULL /\ f2[g[v].reg].listed
    BY DEF Points
  <2>1. g[v].reg \in Regs  BY DEF HeapOK, HeapType, avalchan
  <2> QED  BY <1>3, <1>5, <2>1 DEF HeapOK, HeapType, Points
<1>9. Shapes(f2)  BY <1>4, <1>5 DEF HeapOK, HeapType, Shapes
<1>10. /\ Pending(f2) = Pending(f) \ {r} /\ Listed(f2) = Listed(f) \cup {r}
  BY <1>3, <1>5 DEF HeapOK, HeapType, Pending, Listed
<1> QED  BY <1>6, <1>7, <1>8, <1>9, <1>10 DEF HeapOK, f2

(* A record nobody uses is taken out of its list and freed.                *)
LEMMA FreeOK ==
  ASSUME NEW f, NEW g, HeapOK(f, g), NEW r \in Regs, Refs(g, r) = {}
  PROVE  /\ HeapOK(Unlinked(f, r), g)
         /\ Pending(Unlinked(f, r)) = Pending(f) \ {r}
         /\ Listed(Unlinked(f, r)) = Listed(f) \ {r}
<1> DEFINE f2 == Unlinked(f, r)
<1>1. f2 = [y \in Regs |-> IF y = r \/ f[y] = NULL THEN NULL
                           ELSE [f[y] EXCEPT !.next = @ \ {r}]]
  BY DEF Unlinked, HeapOK, HeapType
<1>2. ASSUME NEW y \in Regs, y # r, f[y] # NULL
      PROVE  /\ f2[y] \in RegUser /\ f2[y] # NULL /\ WellFormed(f2[y])
             /\ f2[y].inuse = f[y].inuse /\ f2[y].listed = f[y].listed
  <2>1. f[y] \in RegUser /\ WellFormed(f[y])
    BY <1>2 DEF HeapOK, HeapType, Shapes
  <2>2. f2[y] = [f[y] EXCEPT !.next = @ \ {r}]  BY <1>1, <1>2
  <2>3. f2[y] \in RegUser  BY <2>1, <2>2 DEF RegUser
  <2>4. f2[y].inuse = f[y].inuse /\ f2[y].listed = f[y].listed
    BY <2>1, <2>2 DEF RegUser
  <2>5. WellFormed(f2[y])  BY <2>1, <2>2 DEF WellFormed, RegUser
  <2> QED  BY <2>3, <2>4, <2>5, NullOK DEF NullOK
<1>3. \A y \in Regs : y = r \/ f[y] = NULL => f2[y] = NULL  BY <1>1
<1>4. DOMAIN f2 = Regs /\ f2 = [y \in Regs |-> f2[y]]  BY <1>1
<1> HIDE DEF f2
<1>5. HeapType(f2, g)  BY <1>2, <1>3, <1>4 DEF HeapOK, HeapType
<1>6. Counts(f2, g)  BY <1>2, <1>3 DEF HeapOK, Counts
<1>7. Points(f2, g)
  <2> SUFFICES ASSUME NEW v \in Vals, g[v] # NULL
               PROVE  f2[g[v].reg] # NULL /\ f2[g[v].reg].listed
    BY DEF Points
  <2>1. g[v].reg \in Regs /\ g[v].reg # r
    BY DEF HeapOK, HeapType, avalchan, Refs
  <2> QED  BY <1>2, <2>1 DEF HeapOK, Points
<1>8. Shapes(f2)  BY <1>2, <1>3 DEF Shapes
<1>9. Pending(f2) = Pending(f) \ {r} /\ Listed(f2) = Listed(f) \ {r}
  BY <1>2, <1>3 DEF Pending, Listed
<1> QED  BY <1>5, <1>6, <1>7, <1>8, <1>9 DEF HeapOK, f2

(* A login: the record is held, a cell points to it.                       *)
LEMMA LoginOK ==
  ASSUME NEW f, NEW g, HeapOK(f, g), NEW r \in Listed(f), NEW v \in Fresh(g),
         NEW u \in Users, NEW c \in AllChan
  PROVE  /\ HeapOK(Held(f, r), Pushed(g, v, u, c, r))
         /\ Pending(Held(f, r)) = Pending(f) /\ Listed(Held(f, r)) = Listed(f)
<1> DEFINE f2 == Held(f, r)
           g2 == Pushed(g, v, u, c, r)
           reg == [f[r] EXCEPT !.inuse = @ + 1, !.modified = TRUE]
           val == [user |-> u, name |-> c, reg |-> r, next |-> LinksOf(g, u)]
<1>1. /\ r \in Regs /\ f[r] # NULL /\ f[r].listed /\ f[r] \in RegUser
      /\ WellFormed(f[r])
      /\ v \in Vals /\ g[v] = NULL
  BY DEF HeapOK, HeapType, Shapes, Listed, Fresh
<1>2. f2 = [f EXCEPT ![r] = reg]  BY <1>1 DEF Held, HeapOK, HeapType
<1>3. /\ reg \in RegUser /\ reg # NULL /\ reg.listed
      /\ reg.inuse = f[r].inuse + 1
  <2> DEFINE n == f[r].inuse + 1
             half == [f[r] EXCEPT !.inuse = n]
  <2>1. n \in Int  BY <1>1 DEF RegUser
  <2>2. half \in RegUser /\ half.inuse = n /\ half.listed
    <3> HIDE DEF n
    <3> QED  BY <1>1, <2>1 DEF RegUser
  <2>3. reg = [half EXCEPT !.modified = TRUE]  OBVIOUS
  <2> HIDE DEF half, reg
  <2>4. reg \in RegUser /\ reg.listed /\ reg.inuse = half.inuse
    BY <2>2, <2>3 DEF RegUser
  <2> QED  BY <2>2, <2>4, NullOK DEF NullOK
<1>4. WellFormed(reg)  BY <1>1 DEF WellFormed, RegUser
<1>5. g2 = [g EXCEPT ![v] = val]  BY DEF Pushed
<1>6. val \in avalchan /\ val # NULL /\ val.reg = r
  BY <1>1, NullOK DEF avalchan, LinksOf, NullOK
<1> HIDE DEF f2, g2, reg, val
<1>7. HeapType(f2, g2)  BY <1>2, <1>3, <1>5, <1>6 DEF HeapOK, HeapType
<1>8. Counts(f2, g2)
  <2> SUFFICES ASSUME NEW y \in Regs, f2[y] # NULL
               PROVE  f2[y].inuse = Cardinality(Refs(g2, y))
    BY DEF Counts
  <2>1. CASE y = r
    <3>1. Refs(g2, r) = Refs(g, r) \cup {v} /\ v \notin Refs(g, r)
      BY <1>1, <1>5, <1>6 DEF HeapOK, HeapType, Refs
    <3>2. IsFiniteSet(Refs(g, r))
      <4>1. Refs(g, r) \subseteq Vals  BY DEF Refs
      <4> QED  BY <4>1, ConstantsOK, FS_Subset DEF ConstantsOK
    <3>3. Cardinality(Refs(g2, r)) = Cardinality(Refs(g, r)) + 1
      BY <3>1, <3>2, FS_AddElement
    <3>4. f[r].inuse = Cardinality(Refs(g, r))  BY <1>1 DEF HeapOK, Counts
    <3> QED  BY <1>1, <1>2, <1>3, <2>1, <3>3, <3>4 DEF HeapOK, HeapType
  <2>2. CASE y # r
    <3>1. Refs(g2, y) = Refs(g, y)
      BY <1>1, <1>5, <1>6, <2>2 DEF HeapOK, HeapType, Refs
    <3> QED  BY <1>1, <1>2, <2>2, <3>1 DEF HeapOK, HeapType, Counts
  <2> QED  BY <2>1, <2>2
<1>9. Points(f2, g2)
  <2> SUFFICES ASSUME NEW w \in Vals, g2[w] # NULL
               PROVE  f2[g2[w].reg] # NULL /\ f2[g2[w].reg].listed
    BY DEF Points
  <2>1. CASE w = v
    BY <1>1, <1>2, <1>3, <1>5, <1>6, <2>1 DEF HeapOK, HeapType
  <2>2. CASE w # v
    <3>1. g2[w] = g[w] /\ g[w].reg \in Regs
      BY <1>5, <2>2 DEF HeapOK, HeapType, avalchan
    <3> QED  BY <1>1, <1>2, <1>3, <3>1 DEF HeapOK, HeapType, Points
  <2> QED  BY <2>1, <2>2
<1>10. Shapes(f2)  BY <1>1, <1>2, <1>4 DEF HeapOK, HeapType, Shapes
<1>11. Pending(f2) = Pending(f) /\ Listed(f2) = Listed(f)
  BY <1>1, <1>2, <1>3 DEF HeapOK, HeapType, Pending, Listed
<1> QED  BY <1>7, <1>8, <1>9, <1>10, <1>11 DEF HeapOK, f2, g2

(* A logout: the cell is freed, the record released.                       *)
LEMMA LogoutOK ==
  ASSUME NEW f, NEW g, HeapOK(f, g), NEW v \in Vals, g[v] # NULL
  PROVE  LET f2 == [f EXCEPT ![g[v].reg].inuse = @ - 1]
         IN  /\ HeapOK(f2, Unlinked(g, v))
             /\ Pending(f2) = Pending(f) /\ Listed(f2) = Listed(f)
<1> DEFINE r == g[v].reg
           f2 == [f EXCEPT ![r].inuse = @ - 1]
           g2 == Unlinked(g, v)
           reg == [f[r] EXCEPT !.inuse = @ - 1]
<1>1. /\ r \in Regs /\ f[r] # NULL /\ f[r].listed /\ f[r] \in RegUser
      /\ WellFormed(f[r])
  <2>1. r \in Regs  BY DEF HeapOK, HeapType, avalchan
  <2> QED  BY <2>1 DEF HeapOK, HeapType, Points, Shapes
<1>2. f2 = [f EXCEPT ![r] = reg]  BY <1>1 DEF HeapOK, HeapType
<1>3. /\ reg \in RegUser /\ reg # NULL /\ reg.listed
      /\ reg.inuse = f[r].inuse - 1
  <2> DEFINE n == f[r].inuse - 1
  <2>1. n \in Int  BY <1>1 DEF RegUser
  <2>2. reg = [f[r] EXCEPT !.inuse = n]  OBVIOUS
  <2> HIDE DEF n, reg
  <2>3. reg \in RegUser /\ reg.listed /\ reg.inuse = n
    BY <1>1, <2>1, <2>2 DEF RegUser
  <2> QED  BY <2>3, NullOK DEF NullOK, n
<1>4. WellFormed(reg)  BY <1>1 DEF WellFormed, RegUser
<1>5. g2 = [y \in Vals |-> IF y = v \/ g[y] = NULL THEN NULL
                           ELSE [g[y] EXCEPT !.next = @ \ {v}]]
  BY DEF Unlinked, HeapOK, HeapType
<1>6. ASSUME NEW y \in Vals, y # v, g[y] # NULL
      PROVE  g2[y] \in avalchan /\ g2[y] # NULL /\ g2[y].reg = g[y].reg
  <2>1. g[y] \in avalchan  BY <1>6 DEF HeapOK, HeapType
  <2>2. g2[y] = [g[y] EXCEPT !.next = @ \ {v}]  BY <1>5, <1>6
  <2>3. g2[y] \in avalchan /\ g2[y].reg = g[y].reg
    BY <2>1, <2>2 DEF avalchan
  <2> QED  BY <2>3, NullOK DEF NullOK
<1>7. \A y \in Vals : y = v \/ g[y] = NULL => g2[y] = NULL  BY <1>5
<1>8. g2 = [y \in Vals |-> g2[y]]  BY <1>5
<1> HIDE DEF f2, g2, reg
<1>9. HeapType(f2, g2)
  <2>1. f2 \in [Regs -> RegUser \cup {NULL}]
    BY <1>1, <1>2, <1>3 DEF HeapOK, HeapType
  <2>2. g2 \in [Vals -> avalchan \cup {NULL}]  BY <1>6, <1>7, <1>8
  <2> QED  BY <2>1, <2>2 DEF HeapType
<1>10. Counts(f2, g2)
  <2> SUFFICES ASSUME NEW y \in Regs, f2[y] # NULL
               PROVE  f2[y].inuse = Cardinality(Refs(g2, y))
    BY DEF Counts
  <2>1. CASE y = r
    <3>1. Refs(g2, r) = Refs(g, r) \ {v} /\ v \in Refs(g, r)
      BY <1>6, <1>7 DEF Refs
    <3>2. IsFiniteSet(Refs(g, r))
      <4>1. Refs(g, r) \subseteq Vals  BY DEF Refs
      <4> QED  BY <4>1, ConstantsOK, FS_Subset DEF ConstantsOK
    <3>3. Cardinality(Refs(g2, r)) = Cardinality(Refs(g, r)) - 1
      <4> DEFINE before == Refs(g, r)
      <4>1. IsFiniteSet(before) /\ v \in before  BY <3>1, <3>2
      <4> HIDE DEF before
      <4>2. Cardinality(before \ {v}) = Cardinality(before) - 1
        BY <4>1, FS_RemoveElement
      <4> QED  BY <3>1, <4>2 DEF before
    <3>4. f[r].inuse = Cardinality(Refs(g, r))  BY <1>1 DEF HeapOK, Counts
    <3>5. f2[r] = reg  BY <1>1, <1>2 DEF HeapOK, HeapType
    <3> QED  BY <1>3, <2>1, <3>3, <3>4, <3>5
  <2>2. CASE y # r
    <3>1. Refs(g2, y) = Refs(g, y)  BY <1>6, <1>7, <2>2 DEF Refs
    <3> QED  BY <1>1, <1>2, <2>2, <3>1 DEF HeapOK, HeapType, Counts
  <2> QED  BY <2>1, <2>2
<1>11. Points(f2, g2)
  <2> SUFFICES ASSUME NEW w \in Vals, g2[w] # NULL
               PROVE  f2[g2[w].reg] # NULL /\ f2[g2[w].reg].listed
    BY DEF Points
  <2>1. g[w] # NULL /\ w # v  BY <1>7
  <2>2. g2[w].reg = g[w].reg /\ g[w].reg \in Regs
    BY <1>6, <2>1 DEF HeapOK, HeapType, avalchan
  <2> QED  BY <1>1, <1>2, <1>3, <2>1, <2>2 DEF HeapOK, HeapType, Points
<1>12. Shapes(f2)  BY <1>1, <1>2, <1>4 DEF HeapOK, HeapType, Shapes
<1>13. Pending(f2) = Pending(f) /\ Listed(f2) = Listed(f)
  BY <1>1, <1>2, <1>3 DEF HeapOK, HeapType, Pending, Listed
<1> QED  BY <1>9, <1>10, <1>11, <1>12, <1>13 DEF HeapOK, f2, g2

(* A client leaves: all its cells are freed, each record released as often. *)
LEMMA QuitOK ==
  ASSUME NEW f, NEW g, HeapOK(f, g), NEW u \in Users
  PROVE  LET f2 == [r \in Regs |->
                      IF f[r] = NULL THEN NULL
                      ELSE [f[r] EXCEPT !.inuse = @ - Left(g, u, r)]]
             g2 == [v \in Vals |-> IF v \in LinksOf(g, u) THEN NULL ELSE g[v]]
         IN  /\ HeapOK(f2, g2)
             /\ Pending(f2) = Pending(f) /\ Listed(f2) = Listed(f)
<1> DEFINE f2 == [r \in Regs |->
                    IF f[r] = NULL THEN NULL
                    ELSE [f[r] EXCEPT !.inuse = @ - Left(g, u, r)]]
           g2 == [v \in Vals |-> IF v \in LinksOf(g, u) THEN NULL ELSE g[v]]
<1>1. ASSUME NEW r \in Regs
      PROVE  /\ IsFiniteSet(Refs(g, r)) /\ Left(g, u, r) \in Int
             /\ Cardinality(Refs(g, r)) \in Int
             /\ Cardinality(Refs(g, r) \ LinksOf(g, u))
                  = Cardinality(Refs(g, r)) - Left(g, u, r)
  <2>1. IsFiniteSet(Refs(g, r))
    <3>1. Refs(g, r) \subseteq Vals  BY DEF Refs
    <3> QED  BY <3>1, ConstantsOK, FS_Subset DEF ConstantsOK
  <2>2. IsFiniteSet(Refs(g, r) \cap LinksOf(g, u))
    <3>1. Refs(g, r) \cap LinksOf(g, u) \subseteq Refs(g, r)  OBVIOUS
    <3> QED  BY <2>1, <3>1, FS_Subset
  <2>3. /\ Cardinality(Refs(g, r)) \in Nat
        /\ Cardinality(Refs(g, r) \cap LinksOf(g, u)) \in Nat
    BY <2>1, <2>2, FS_CardinalityType
  <2>4. Cardinality(Refs(g, r) \ LinksOf(g, u))
          = Cardinality(Refs(g, r)) - Cardinality(Refs(g, r) \cap LinksOf(g, u))
    BY <2>1, FS_Difference
  <2> QED  BY <2>1, <2>3, <2>4 DEF Left
<1>2. ASSUME NEW r \in Regs, f[r] # NULL
      PROVE  /\ f2[r] \in RegUser /\ f2[r] # NULL /\ WellFormed(f2[r])
             /\ f2[r].inuse = f[r].inuse - Left(g, u, r)
             /\ f2[r].listed = f[r].listed
  <2>1. f[r] \in RegUser /\ WellFormed(f[r])
    BY <1>2 DEF HeapOK, HeapType, Shapes
  <2> DEFINE n == f[r].inuse - Left(g, u, r)
  <2>3. f2[r] = [f[r] EXCEPT !.inuse = n]  BY <1>2
  <2> HIDE DEF f2, g2
  <2>2. n \in Int
    <3>1. f[r].inuse \in Int  BY <2>1 DEF RegUser
    <3>2. Left(g, u, r) \in Int  BY <1>1
    <3> QED  BY <3>1, <3>2 DEF n
  <2> HIDE DEF n
  <2>4. f2[r] \in RegUser /\ f2[r].inuse = n /\ f2[r].listed = f[r].listed
    BY <2>1, <2>2, <2>3 DEF RegUser
  <2>5. WellFormed(f2[r])  BY <2>1, <2>3 DEF WellFormed, RegUser
  <2> QED  BY <2>4, <2>5, NullOK DEF NullOK, n
<1>3. \A r \in Regs : f[r] = NULL => f2[r] = NULL  OBVIOUS
<1>4. \A v \in Vals : v \in LinksOf(g, u) => g2[v] = NULL  OBVIOUS
<1>5. \A v \in Vals : v \notin LinksOf(g, u) => g2[v] = g[v]  OBVIOUS
<1>6. f2 = [r \in Regs |-> f2[r]] /\ g2 = [v \in Vals |-> g2[v]]  OBVIOUS
<1> HIDE DEF f2, g2
<1>7. HeapType(f2, g2)
  <2>1. f2 \in [Regs -> RegUser \cup {NULL}]  BY <1>2, <1>3, <1>6
  <2>2. g2 \in [Vals -> avalchan \cup {NULL}]
    BY <1>4, <1>5, <1>6 DEF HeapOK, HeapType
  <2> QED  BY <2>1, <2>2 DEF HeapType
<1>8. Counts(f2, g2)
  <2> SUFFICES ASSUME NEW r \in Regs, f2[r] # NULL
               PROVE  f2[r].inuse = Cardinality(Refs(g2, r))
    BY DEF Counts
  <2>1. f[r] # NULL  BY <1>3
  <2>2. Refs(g2, r) = Refs(g, r) \ LinksOf(g, u)  BY <1>4, <1>5 DEF Refs
  <2>3. f[r].inuse = Cardinality(Refs(g, r))  BY <2>1 DEF HeapOK, Counts
  <2> QED  BY <1>1, <1>2, <2>1, <2>2, <2>3
<1>9. Points(f2, g2)
  <2> SUFFICES ASSUME NEW v \in Vals, g2[v] # NULL
               PROVE  f2[g2[v].reg] # NULL /\ f2[g2[v].reg].listed
    BY DEF Points
  <2>1. g2[v] = g[v] /\ g[v].reg \in Regs
    BY <1>4, <1>5 DEF HeapOK, HeapType, avalchan
  <2> QED  BY <1>2, <2>1 DEF HeapOK, Points
<1>10. Shapes(f2)  BY <1>2, <1>3 DEF Shapes
<1>11. Pending(f2) = Pending(f) /\ Listed(f2) = Listed(f)
  BY <1>2, <1>3 DEF Pending, Listed
<1> QED  BY <1>7, <1>8, <1>9, <1>10, <1>11 DEF HeapOK, f2, g2

-----------------------------------------------------------------------------
(* What one call does to one record *)

\* The record is in the table, its channel is not the admin channel and it
\* was not deleted.
Usable(f, r) ==
  r \in Listed(f) /\ f[r].channel \in Chan /\ f[r].realname \in Names

(* One cell is replaced by a well formed one with the same users.          *)
LEMMA ReplaceLike ==
  ASSUME NEW f, NEW g, HeapOK(f, g), NEW r \in Regs, f[r] # NULL,
         NEW reg \in RegUser, WellFormed(reg),
         reg.inuse = f[r].inuse, reg.listed = f[r].listed
  PROVE  Like([f EXCEPT ![r] = reg], f)
BY NullOK DEF HeapOK, HeapType, Shapes, Like, NullOK

(* remuser: a record of a channel is deleted.                              *)
LEMMA RemovedLike ==
  ASSUME NEW f, NEW g, HeapOK(f, g), NEW r \in Listed(f), f[r].channel \in Chan
  PROVE  Like(Removed(f, r), f)
<1>1. r \in Regs /\ f[r] # NULL /\ f[r] \in RegUser /\ WellFormed(f[r])
  BY DEF HeapOK, HeapType, Shapes, Listed
<1> DEFINE m == (f[r].offset # 0)
           a == [f[r] EXCEPT !.realname = Del]
           b == [a EXCEPT !.match = Del]
           d == [b EXCEPT !.access = 0]
           e == [d EXCEPT !.modified = m]
<1>2. Removed(f, r) = [f EXCEPT ![r] = e]
  BY <1>1 DEF Removed, HeapOK, HeapType
<1>3. m \in BOOLEAN /\ Chan \subseteq AllChan  BY DEF AllChan
<1> HIDE DEF m
<1>4. a \in RegUser /\ a.realname = Del /\ a.channel = f[r].channel
      /\ a.inuse = f[r].inuse /\ a.listed = f[r].listed /\ a.passwd = f[r].passwd
  BY <1>1 DEF RegUser
<1> HIDE DEF a
<1>5. b \in RegUser /\ b.realname = Del /\ b.match = Del
      /\ b.channel = f[r].channel
      /\ b.inuse = f[r].inuse /\ b.listed = f[r].listed /\ b.passwd = f[r].passwd
  BY <1>4 DEF RegUser
<1> HIDE DEF b
<1>6. d \in RegUser /\ d.realname = Del /\ d.match = Del /\ d.access = 0
      /\ d.channel = f[r].channel
      /\ d.inuse = f[r].inuse /\ d.listed = f[r].listed /\ d.passwd = f[r].passwd
  BY <1>5 DEF RegUser, MASTER_ACCESS
<1> HIDE DEF d
<1>7. e \in RegUser /\ e.realname = Del /\ e.match = Del /\ e.access = 0
      /\ e.channel = f[r].channel
      /\ e.inuse = f[r].inuse /\ e.listed = f[r].listed /\ e.passwd = f[r].passwd
  BY <1>3, <1>6 DEF RegUser
<1> HIDE DEF e
<1>8. f[r].channel # Star  BY ConstantsOK DEF ConstantsOK
<1>9. WellFormed(e)  BY <1>1, <1>7, <1>8 DEF WellFormed, MASTER_ACCESS
<1> QED  BY <1>1, <1>2, <1>7, <1>9, ReplaceLike

(* A record is marked dirty.                                               *)
LEMMA TouchedLike ==
  ASSUME NEW f, NEW g, HeapOK(f, g), NEW r \in Listed(f)
  PROVE  Like(Touched(f, r), f)
<1>1. r \in Regs /\ f[r] # NULL /\ f[r] \in RegUser /\ WellFormed(f[r])
  BY DEF HeapOK, HeapType, Shapes, Listed
<1> DEFINE e == [f[r] EXCEPT !.modified = TRUE]
<1>2. Touched(f, r) = [f EXCEPT ![r] = e]
  BY <1>1 DEF Touched, HeapOK, HeapType
<1>3. e \in RegUser /\ e.inuse = f[r].inuse /\ e.listed = f[r].listed
  BY <1>1 DEF RegUser
<1>4. WellFormed(e)  BY <1>1 DEF WellFormed, RegUser
<1> HIDE DEF e
<1> QED  BY <1>1, <1>2, <1>3, <1>4, ReplaceLike

(* The password of a record is replaced.                                   *)
LEMMA PasswdLike ==
  ASSUME NEW f, NEW g, HeapOK(f, g), NEW r \in Listed(f), NEW pw \in Pws
  PROVE  Like([f EXCEPT ![r].passwd = pw], f)
<1>1. r \in Regs /\ f[r] # NULL /\ f[r] \in RegUser /\ WellFormed(f[r])
  BY DEF HeapOK, HeapType, Shapes, Listed
<1> DEFINE e == [f[r] EXCEPT !.passwd = pw]
<1>2. [f EXCEPT ![r].passwd = pw] = [f EXCEPT ![r] = e]
  BY <1>1 DEF HeapOK, HeapType
<1>3. e \in RegUser /\ e.inuse = f[r].inuse /\ e.listed = f[r].listed
  BY <1>1 DEF RegUser
<1>4. WellFormed(e)  BY <1>1 DEF WellFormed, RegUser
<1> HIDE DEF e
<1> QED  BY <1>1, <1>2, <1>3, <1>4, ReplaceLike

(* A record is suspended, or no longer.                                    *)
LEMMA SuspendLike ==
  ASSUME NEW f, NEW g, HeapOK(f, g), NEW r \in Listed(f), NEW on \in BOOLEAN
  PROVE  Like([f EXCEPT ![r].suspend = on], f)
<1>1. r \in Regs /\ f[r] # NULL /\ f[r] \in RegUser /\ WellFormed(f[r])
  BY DEF HeapOK, HeapType, Shapes, Listed
<1> DEFINE e == [f[r] EXCEPT !.suspend = on]
<1>2. [f EXCEPT ![r].suspend = on] = [f EXCEPT ![r] = e]
  BY <1>1 DEF HeapOK, HeapType
<1>3. e \in RegUser /\ e.inuse = f[r].inuse /\ e.listed = f[r].listed
  BY <1>1 DEF RegUser
<1>4. WellFormed(e)  BY <1>1 DEF WellFormed, RegUser
<1> HIDE DEF e
<1> QED  BY <1>1, <1>2, <1>3, <1>4, ReplaceLike

(* The level, or the mask, of a record that was not deleted is replaced.   *)
LEMMA AccessLike ==
  ASSUME NEW f, NEW g, HeapOK(f, g), NEW r, Usable(f, r),
         NEW a \in 0 .. MASTER_ACCESS - 1
  PROVE  Like([f EXCEPT ![r].access = a], f)
<1>1. r \in Regs /\ f[r] # NULL /\ f[r] \in RegUser /\ WellFormed(f[r])
  BY DEF HeapOK, HeapType, Shapes, Listed, Usable
<1> DEFINE e == [f[r] EXCEPT !.access = a]
<1>2. [f EXCEPT ![r].access = a] = [f EXCEPT ![r] = e]
  BY <1>1 DEF HeapOK, HeapType
<1>3. a \in 0 .. MASTER_ACCESS /\ a < MASTER_ACCESS  BY DEF MASTER_ACCESS
<1>4. e \in RegUser /\ e.inuse = f[r].inuse /\ e.listed = f[r].listed
      /\ e.access = a /\ e.channel = f[r].channel /\ e.realname = f[r].realname
      /\ e.match = f[r].match /\ e.passwd = f[r].passwd
  BY <1>1, <1>3 DEF RegUser
<1> HIDE DEF e
<1>5. f[r].channel # Star /\ f[r].realname \in Names /\ Del \notin Names
  BY ConstantsOK DEF ConstantsOK, Usable
<1>6. WellFormed(e)  BY <1>1, <1>3, <1>4, <1>5 DEF WellFormed
<1> QED  BY <1>1, <1>2, <1>4, <1>6, ReplaceLike

(* modinfo match: the mask of a record that was not deleted is replaced.   *)
LEMMA MatchLike ==
  ASSUME NEW f, NEW g, HeapOK(f, g), NEW r, Usable(f, r), NEW m \in Masks
  PROVE  Like([f EXCEPT ![r].match = m], f)
<1>1. r \in Regs /\ f[r] # NULL /\ f[r] \in RegUser /\ WellFormed(f[r])
  BY DEF HeapOK, HeapType, Shapes, Listed, Usable
<1> DEFINE e == [f[r] EXCEPT !.match = m]
<1>2. [f EXCEPT ![r].match = m] = [f EXCEPT ![r] = e]
  BY <1>1 DEF HeapOK, HeapType
<1>3. e \in RegUser /\ e.inuse = f[r].inuse /\ e.listed = f[r].listed
      /\ e.match = m /\ e.access = f[r].access /\ e.channel = f[r].channel
      /\ e.realname = f[r].realname /\ e.passwd = f[r].passwd
  BY <1>1 DEF RegUser
<1> HIDE DEF e
<1>4. f[r].channel # Star /\ f[r].realname \in Names /\ Del \notin Names
  BY ConstantsOK DEF ConstantsOK, Usable
<1>5. WellFormed(e)  BY <1>1, <1>3, <1>4 DEF WellFormed
<1> QED  BY <1>1, <1>2, <1>3, <1>5, ReplaceLike

(* Two changes of that kind in a row are one.                              *)
LEMMA LikeTrans ==
  ASSUME NEW f, NEW f2, NEW f3, Like(f2, f), Like(f3, f2)
  PROVE  Like(f3, f)
BY DEF Like

(* modinfo: the record stays what it is, a channel's or deleted.           *)
LEMMA ModinfoLike ==
  ASSUME NEW f, NEW g, HeapOK(f, g), NEW r, Usable(f, r), NEW u,
         NEW field, NEW value \in Values(field)
  PROVE  Like(do_modinfo(f, u, r, field, value), f)
<1> DEFINE dirty == Touched(f, r)
           own == {vals[v].reg : v \in LinkTo(vals, u, f[r].channel)}
           above == \E o \in own : f[r].access < f[o].access
           a1 == above /\ (\E o \in own : value < f[o].access)
           a2 == above
           a3 == above \/ r \in own
<1>1. do_modinfo(f, u, r, field, value) =
        CASE field = "ACCESS" /\ a1 -> [dirty EXCEPT ![r].access = value]
          [] field = "MATCH" /\ a2 -> [dirty EXCEPT ![r].match = value]
          [] field = "PASSWORD" /\ a3 -> [dirty EXCEPT ![r].passwd = value]
          [] field = "AUTOOP" /\ a3 -> dirty
          [] OTHER -> f
  BY Zenon DEF do_modinfo
<1> HIDE DEF a1, a2, a3, above, own
<1>2. Like(dirty, f) /\ Like(f, f)
  BY TouchedLike DEF Usable, Like, HeapOK, HeapType
<1>3. HeapOK(dirty, g)  BY <1>2, LikeOK
<1>4. Usable(dirty, r)
  <2>1. r \in Regs /\ f[r] # NULL /\ f[r] \in RegUser
    BY DEF HeapOK, HeapType, Listed, Usable
  <2> DEFINE e == [f[r] EXCEPT !.modified = TRUE]
  <2>2. dirty[r] = e  BY <2>1 DEF Touched, HeapOK, HeapType
  <2>3. e.channel = f[r].channel /\ e.realname = f[r].realname
    BY <2>1 DEF RegUser
  <2>4. r \in Listed(dirty)  BY <1>2, <1>3, LikeOK DEF Usable
  <2> QED  BY <2>2, <2>3, <2>4 DEF Usable
<1> HIDE DEF dirty
<1>5. CASE field = "ACCESS" /\ a1
  <2>1. value \in 0 .. MASTER_ACCESS - 1
    BY <1>5, ConstantsOK DEF Values, ConstantsOK, MASTER_ACCESS
  <2>2. do_modinfo(f, u, r, field, value) = [dirty EXCEPT ![r].access = value]
    BY <1>1, <1>5
  <2> QED  BY <1>2, <1>3, <1>4, <2>1, <2>2, AccessLike, LikeTrans
<1>6. CASE field = "MATCH" /\ a2
  <2>1. value \in Masks  BY <1>6 DEF Values
  <2>2. do_modinfo(f, u, r, field, value) = [dirty EXCEPT ![r].match = value]
    BY <1>1, <1>6
  <2> QED  BY <1>2, <1>3, <1>4, <2>1, <2>2, MatchLike, LikeTrans
<1>7. CASE field = "PASSWORD" /\ a3
  <2>1. value \in Pws /\ r \in Listed(dirty)  BY <1>4, <1>7 DEF Values, Usable
  <2>2. do_modinfo(f, u, r, field, value) = [dirty EXCEPT ![r].passwd = value]
    BY <1>1, <1>7
  <2> QED  BY <1>2, <1>3, <2>1, <2>2, PasswdLike, LikeTrans
<1>8. CASE field = "AUTOOP" /\ a3
  BY <1>1, <1>2, <1>8
<1>9. CASE /\ ~(field = "ACCESS" /\ a1) /\ ~(field = "MATCH" /\ a2)
           /\ ~(field = "PASSWORD" /\ a3) /\ ~(field = "AUTOOP" /\ a3)
  BY <1>1, <1>2, <1>9
<1> QED  BY <1>5, <1>6, <1>7, <1>8, <1>9

-----------------------------------------------------------------------------
(* Records and slots *)

(* A record copied from a slot is well formed, unused and in no list.      *)
LEMMA FromSlotOK ==
  ASSUME NEW c \in Chan, NEW off \in Nat, NEW s \in Slot
  PROVE  LET reg == FromSlot(c, off, s)
         IN  /\ reg \in RegUser /\ WellFormed(reg)
             /\ reg.inuse = 0 /\ ~reg.listed
             /\ reg.channel = c /\ reg.realname = s.realname
BY ConstantsOK DEF FromSlot, Slot, RegUser, WellFormed, ConstantsOK, AllChan,
                   MASTER_ACCESS

(* So is a record that a command makes.                                    *)
LEMMA NewRegOK ==
  ASSUME NEW c \in Chan, NEW n \in Names, NEW m \in Masks, NEW pw \in Pws,
         NEW acc \in 1 .. MASTER_ACCESS - 1
  PROVE  LET reg == NewReg(c, n, m, pw, acc)
         IN  /\ reg \in RegUser /\ WellFormed(reg)
             /\ reg.inuse = 0 /\ ~reg.listed /\ reg.channel = c
             /\ reg.offset = 0 /\ reg.access = acc
<1> DEFINE s == [realname |-> n, match |-> m, passwd |-> pw,
                 access |-> acc, suspend |-> FALSE]
           reg == FromSlot(c, 0, s)
<1>1. s \in Slot  BY DEF Slot
<1>2. /\ reg \in RegUser /\ WellFormed(reg)
      /\ reg.inuse = 0 /\ ~reg.listed /\ reg.channel = c
  BY <1>1, FromSlotOK
<1>3. reg.offset = 0 /\ reg.access = acc  BY DEF FromSlot
<1>4. NewReg(c, n, m, pw, acc) = [reg EXCEPT !.modified = TRUE]  BY DEF NewReg
<1> HIDE DEF reg
<1> QED  BY <1>2, <1>3, <1>4 DEF RegUser, WellFormed

(* Insertion changes the links of one record.                              *)
LEMMA InsertSame ==
  ASSUME NEW f, NEW g, HeapOK(f, g), NEW r \in Regs, f[r] # NULL
  PROVE  /\ Insert(f, r)[r].channel = f[r].channel
         /\ Insert(f, r)[r].realname = f[r].realname
         /\ Insert(f, r)[r].access = f[r].access
         /\ Insert(f, r)[r].offset = f[r].offset
BY DEF Insert, HeapOK, HeapType, RegUser

(* load_dbuser: the heap stays right, and the record it returns is one of  *)
(* the channel that was not deleted.                                       *)
LEMMA LoadOK ==
  ASSUME NEW g, HeapOK(regs, g), NEW c \in Chan, NEW off \in Nat \ {0},
         NEW s \in Slot, NEW l \in load_dbuser(c, off, s)
  PROVE  /\ HeapOK(l[1], g) /\ Pending(l[1]) = Pending(regs)
         /\ l[2] # NULL => Usable(l[1], l[2])
<1> DEFINE hits == InMemory(c, off)
<1>0. s.realname \in Names  BY DEF Slot
<1>1. CASE hits # {}
  <2>1. PICK r \in First(regs, hits) :
               l = <<regs, IF Current(regs[r], s) THEN r ELSE NULL>>
    BY <1>1 DEF load_dbuser
  <2>2. r \in Listed(regs) /\ regs[r].channel = c  BY DEF First, InMemory
  <2> QED  BY <1>0, <2>1, <2>2 DEF Usable, Current
<1>2. CASE hits = {}
  <2> DEFINE reg == FromSlot(c, off, s)
  <2>1. PICK r \in Fresh(regs) :
               l = <<Insert([regs EXCEPT ![r] = reg], r), r>>
    BY <1>2 DEF load_dbuser
  <2> DEFINE f2 == [regs EXCEPT ![r] = reg]
  <2>2. /\ reg \in RegUser /\ WellFormed(reg) /\ reg.inuse = 0 /\ ~reg.listed
        /\ reg.channel = c /\ reg.realname = s.realname
    BY FromSlotOK
  <2> HIDE DEF reg
  <2>3. /\ HeapOK(f2, g) /\ Pending(f2) = Pending(regs) \cup {r}
        /\ r \notin Pending(regs)
    BY <2>2, AllocOK
  <2>4. r \in Regs /\ f2[r] = reg /\ f2[r] # NULL
    BY <2>2, NullOK DEF HeapOK, HeapType, Fresh, NullOK
  <2> HIDE DEF f2
  <2>5. /\ HeapOK(Insert(f2, r), g)
        /\ Pending(Insert(f2, r)) = Pending(f2) \ {r}
        /\ Listed(Insert(f2, r)) = Listed(f2) \cup {r}
    BY <2>3, <2>4, InsertOK
  <2>6. Insert(f2, r)[r].channel = c /\ Insert(f2, r)[r].realname \in Names
    BY <1>0, <2>2, <2>3, <2>4, InsertSame
  <2>7. l[1] = Insert(f2, r) /\ l[2] = r  BY <2>1 DEF f2
  <2> QED  BY <2>3, <2>5, <2>6, <2>7 DEF Usable
<1> QED  BY <1>1, <1>2

-----------------------------------------------------------------------------
(* The heap, the files and the queries.                                    *)

Holds(q, i) == q[i] # NULL /\ q[i].kind = "adduser" /\ ~q[i].found

\* The records that are not in the table yet and the queries that hold one
\* correspond one to one.
Owned(f, q) ==
  /\ \A i \in Qids : Holds(q, i) => q[i].reg \in Pending(f)
  /\ \A i, j \in Qids : Holds(q, i) /\ Holds(q, j) /\ q[i].reg = q[j].reg => i = j
  /\ \A r \in Pending(f) : \E i \in Qids : Holds(q, i) /\ q[i].reg = r

QueryType(q) == q \in [Qids -> Query \cup {NULL}]
DiskType(d) == d \in [Chan -> File \cup {NULL}]

QueryOK(x, d) ==
  /\ x.kind = "validate" => x.src \in Users
  /\ x.kind = "adduser" => x.info \in Names /\ (x.found => ~x.open)
  /\ x.kind = "modinfo" => x.field \in Fields /\ x.value \in Values(x.field)
  /\ x.kept = NULL /\ x.open => d[x.chan] # NULL
AsksOK(q, d) == \A i \in Qids : q[i] # NULL => QueryOK(q[i], d)

Good(f, g, q, d) ==
  /\ HeapOK(f, g)
  /\ QueryType(q) /\ DiskType(d)
  /\ Owned(f, q) /\ AsksOK(q, d)

Rest ==
  /\ online \in [Users -> Hosts \cup {NULL}]
  /\ saving \in -1 .. NBuckets - 1
  /\ sync \in {"idle", "slice", "quit"}
  /\ CursorOK

-----------------------------------------------------------------------------
(* The two halves make up IInv *)

(* Owned, said of a typed heap and its queries, is HookOwned.              *)
LEMMA OwnedHook ==
  ASSUME NEW f, NEW q, f \in [Regs -> RegUser \cup {NULL}], QueryType(q)
  PROVE  Owned(f, q) <=>
           /\ \A i \in Qids : Holds(q, i) =>
                /\ q[i].reg # NULL
                /\ f[q[i].reg] # NULL /\ ~f[q[i].reg].listed
           /\ \A i, j \in Qids :
                Holds(q, i) /\ Holds(q, j) /\ q[i].reg = q[j].reg => i = j
           /\ \A r \in Regs : f[r] # NULL /\ ~f[r].listed =>
                \E i \in Qids : Holds(q, i) /\ q[i].reg = r
<1>1. \A i \in Qids : Holds(q, i) => q[i].reg \in Regs \cup {NULL}
  BY DEF Holds, QueryType, Query
<1>2. NULL \notin Regs  BY ConstantsOK DEF ConstantsOK
<1> QED  BY <1>1, <1>2 DEF Owned, Pending

(* IInv gives both halves.                                                 *)
LEMMA IInvParts == IInv => Good(regs, vals, query, disk) /\ Rest
<1> SUFFICES ASSUME IInv PROVE Good(regs, vals, query, disk) /\ Rest
  OBVIOUS
<1>1. HeapOK(regs, vals)
  BY DEF IInv, TypeOK, RefCount, NoDangling, RecordsOK,
         HeapOK, HeapType, Counts, Points, Shapes
<1>2. QueryType(query) /\ DiskType(disk)
  BY DEF IInv, TypeOK, QueryType, DiskType
<1>3. Owned(regs, query)
  BY <1>2, OwnedHook DEF IInv, TypeOK, HookOwned, Holding, Holds
<1>4. AsksOK(query, disk)  BY DEF IInv, QueriesOK, AsksOK, QueryOK
<1>5. Rest  BY DEF IInv, TypeOK, Rest
<1> QED  BY <1>1, <1>2, <1>3, <1>4, <1>5 DEF Good

(* The two halves give IInv.                                               *)
LEMMA IInvWhole ==
  ASSUME Good(regs, vals, query, disk), Rest
  PROVE  IInv
<1>1. TypeOK
  BY DEF Good, Rest, HeapOK, HeapType, QueryType, DiskType, TypeOK, CursorOK, Listed
<1>2. RefCount /\ NoDangling /\ RecordsOK
  BY DEF Good, HeapOK, Counts, Points, Shapes, RefCount, NoDangling, RecordsOK
<1>3. HookOwned
  BY OwnedHook DEF Good, HeapOK, HeapType, HookOwned, Holding, Holds
<1>4. QueriesOK  BY DEF Good, QueriesOK, AsksOK, QueryOK
<1> QED  BY <1>1, <1>2, <1>3, <1>4 DEF IInv, Rest

-----------------------------------------------------------------------------
(* What happens to the queries *)

(* Nothing but the heap changes, and the pending records stay.             *)
LEMMA OwnedSame ==
  ASSUME NEW f, NEW f2, NEW q, NEW q2, Owned(f, q), Pending(f2) = Pending(f),
         \A i \in Qids : /\ Holds(q2, i) <=> Holds(q, i)
                         /\ Holds(q, i) => q2[i].reg = q[i].reg
  PROVE  Owned(f2, q2)
BY DEF Owned

(* A query gives its record up, and the record is no longer pending.       *)
LEMMA OwnedDrop ==
  ASSUME NEW f, NEW f2, NEW q, NEW q2, Owned(f, q), NEW i \in Qids, Holds(q, i),
         Pending(f2) = Pending(f) \ {q[i].reg}, ~Holds(q2, i),
         \A j \in Qids : j # i => q2[j] = q[j]
  PROVE  Owned(f2, q2)
BY DEF Owned, Holds

(* A new query takes the new record.                                       *)
LEMMA OwnedTake ==
  ASSUME NEW f, NEW f2, NEW q, QueryType(q), Owned(f, q),
         NEW i \in Qids, q[i] = NULL,
         NEW r, r \notin Pending(f), Pending(f2) = Pending(f) \cup {r},
         NEW x \in Query, x.kind = "adduser", ~x.found, x.reg = r
  PROVE  Owned(f2, [q EXCEPT ![i] = x])
<1> DEFINE q2 == [q EXCEPT ![i] = x]
<1>1. /\ \A j \in Qids : j # i => q2[j] = q[j]
      /\ q2[i] = x /\ x # NULL
  BY NullOK DEF QueryType, NullOK
<1> HIDE DEF q2
<1>2. Holds(q2, i) /\ q2[i].reg = r /\ ~Holds(q, i)  BY <1>1 DEF Holds
<1>3. \A j \in Qids : j # i => /\ Holds(q2, j) <=> Holds(q, j)
                               /\ q2[j].reg = q[j].reg
  BY <1>1 DEF Holds
<1>4. \A j \in Qids : Holds(q2, j) => q2[j].reg \in Pending(f2)
  BY <1>2, <1>3 DEF Owned
<1>5. \A j, k \in Qids :
        Holds(q2, j) /\ Holds(q2, k) /\ q2[j].reg = q2[k].reg => j = k
  BY <1>2, <1>3 DEF Owned
<1>6. \A y \in Pending(f2) : \E j \in Qids : Holds(q2, j) /\ q2[j].reg = y
  <2> SUFFICES ASSUME NEW y \in Pending(f2)
               PROVE  \E j \in Qids : Holds(q2, j) /\ q2[j].reg = y
    OBVIOUS
  <2>1. CASE y = r  BY <1>2, <2>1
  <2>2. CASE y \in Pending(f)
    <3>1. PICK j \in Qids : Holds(q, j) /\ q[j].reg = y  BY <2>2 DEF Owned
    <3> QED  BY <1>2, <1>3, <3>1
  <2> QED  BY <2>1, <2>2
<1> QED  BY <1>4, <1>5, <1>6 DEF Owned, q2

(* Files that stay keep the queries right.                                 *)
LEMMA AsksDisk ==
  ASSUME NEW q, NEW d, NEW d2, QueryType(q), AsksOK(q, d),
         \A c \in Chan : d[c] # NULL => d2[c] # NULL
  PROVE  AsksOK(q, d2)
<1> SUFFICES ASSUME NEW i \in Qids, q[i] # NULL PROVE QueryOK(q[i], d2)
  BY DEF AsksOK
<1>1. q[i].chan \in Chan  BY DEF QueryType, Query
<1> QED  BY <1>1 DEF AsksOK, QueryOK

(* A query that asks, as it is when it is sent.                            *)
LEMMA AskOK ==
  ASSUME NEW kind \in Kinds, NEW c \in Chan, NEW u \in Users \cup {Server},
         NEW info \in Names \cup Masks \cup Hosts
  PROVE  LET x == Ask(kind, c, u, info)
         IN  /\ x \in Query /\ x.kind = kind /\ x.chan = c /\ x.src = u
             /\ x.info = info /\ ~x.found /\ x.open /\ x.kept = NULL
             /\ x.reg = NULL
BY DEF Ask, Query, MASTER_ACCESS

(* db_fetch: nothing, or one more query, which holds no record.            *)
LEMMA FetchOK ==
  ASSUME NEW f, NEW c \in AllChan, NEW x, QueryType(query), Owned(f, query),
         AsksOK(query, disk), db_fetch(c, x),
         c \in Chan /\ disk[c] # NULL =>
           x \in Query /\ x.kind # "adduser" /\ QueryOK(x, disk)
  PROVE  QueryType(query') /\ Owned(f, query') /\ AsksOK(query', disk)
<1>1. CASE UNCHANGED query
  BY <1>1
<1>2. CASE ~ UNCHANGED query
  <2>1. c \in Chan /\ disk[c] # NULL /\ Enqueue(x)
    BY <1>2 DEF db_fetch, AllChan
  <2>2. PICK i \in Fresh(query) : query' = [query EXCEPT ![i] = x]
    BY <2>1 DEF Enqueue
  <2>3. i \in Qids /\ query[i] = NULL  BY DEF Fresh, QueryType
  <2>4. x \in Query /\ x.kind # "adduser" /\ QueryOK(x, disk)  BY <2>1
  <2>5. QueryType(query')  BY <2>2, <2>3, <2>4 DEF QueryType
  <2>6. query'[i] = x /\ \A j \in Qids : j # i => query'[j] = query[j]
    BY <2>2, <2>3 DEF QueryType
  <2>7. AsksOK(query', disk)  BY <2>4, <2>6 DEF AsksOK
  <2>8. Owned(f, query')
    <3>1. \A j \in Qids : /\ Holds(query', j) <=> Holds(query, j)
                          /\ Holds(query, j) => query'[j].reg = query[j].reg
      BY <2>3, <2>4, <2>6 DEF Holds
    <3> HIDE DEF QueryType
    <3> QED  BY <3>1, OwnedSame
  <2> QED  BY <2>5, <2>7, <2>8
<1> QED  BY <1>1, <1>2

-----------------------------------------------------------------------------
(* What happens to the files *)

(* A function on 1 .. n is a sequence.                                     *)
LEMMA SeqFcn ==
  ASSUME NEW S, NEW n \in Nat, NEW h \in [1 .. n -> S]
  PROVE  h \in Seq(S)
BY SeqDef

(* A file with one slot written, at its end or beyond too, is a file.      *)
LEMMA WrittenOK ==
  ASSUME NEW file \in File, NEW k \in Nat \ {0}, NEW s \in Slot \cup {NULL}
  PROVE  Written(file, k, s) \in File
<1> DEFINE n == IF k > Len(file) THEN k ELSE Len(file)
<1>1. Len(file) \in Nat /\ \A i \in 1 .. Len(file) : file[i] \in Slot \cup {NULL}
  BY LenProperties, ElementOfSeq DEF File
<1>2. n \in Nat  BY <1>1
<1>3. \A i \in 1 .. n : i <= Len(file) => i \in 1 .. Len(file)
  BY <1>1, <1>2
<1>4. Written(file, k, s) = [i \in 1 .. n |->
        IF i = k THEN s ELSE IF i <= Len(file) THEN file[i] ELSE NULL]
  BY DEF Written
<1> HIDE DEF n
<1>5. Written(file, k, s) \in [1 .. n -> Slot \cup {NULL}]
  BY <1>1, <1>3, <1>4
<1> QED  BY <1>2, <1>5, SeqFcn DEF File

(* A channel without a file reads as an empty one.                         *)
LEMMA ContentsOK ==
  ASSUME NEW c \in Chan, DiskType(disk)
  PROVE  Contents(c) \in File
<1>1. <<>> \in File  BY EmptySeq DEF File
<1> QED  BY <1>1 DEF Contents, DiskType

(* A record goes to a slot numbered from 1.                                *)
LEMMA SlotForOK ==
  ASSUME NEW reg, reg.offset \in Nat, reg.channel \in Chan, DiskType(disk),
         NEW off \in SlotFor(reg)
  PROVE  off \in Nat \ {0}
<1>1. CASE reg.offset = 0
  <2>1. Contents(reg.channel) \in File  BY ContentsOK
  <2>2. Len(Contents(reg.channel)) \in Nat  BY <2>1, LenProperties DEF File
  <2>3. off \in 1 .. Len(Contents(reg.channel)) + 1
    BY <1>1 DEF SlotFor, FirstFree
  <2> QED  BY <2>2, <2>3
<1>2. CASE reg.offset # 0
  BY <1>2 DEF SlotFor
<1> QED  BY <1>1, <1>2

(* What is written of a channel's record is a slot, or its absence.        *)
LEMMA MakeOK ==
  ASSUME NEW reg \in RegUser, WellFormed(reg), reg.channel \in Chan
  PROVE  make_dbuser(reg) \in Slot \cup {NULL}
<1>1. reg.channel # Star  BY ConstantsOK DEF ConstantsOK
<1>2. CASE reg.access = 0  BY <1>2 DEF make_dbuser
<1>3. CASE reg.access # 0
  <2>1. /\ reg.realname \in Names /\ reg.match \in Masks
        /\ reg.passwd \in Pws \cup {NoPw} /\ reg.suspend \in BOOLEAN
    BY <1>1, <1>3 DEF WellFormed, RegUser
  <2>2. reg.access \in 1 .. MASTER_ACCESS - 1
    BY <1>1, <1>3 DEF WellFormed, RegUser, MASTER_ACCESS
  <2> QED  BY <1>3, <2>1, <2>2 DEF make_dbuser, Slot
<1> QED  BY <1>2, <1>3

(* cold_save_one: the file is there afterwards, the queries go on.         *)
LEMMA ColdSaveOK ==
  ASSUME NEW reg \in RegUser, WellFormed(reg), reg.channel \in Chan,
         NEW off \in SlotFor(reg), ColdSave(reg, off),
         DiskType(disk), NEW q, QueryType(q), AsksOK(q, disk)
  PROVE  DiskType(disk') /\ AsksOK(q, disk')
<1> DEFINE file == Written(Contents(reg.channel), off, make_dbuser(reg))
<1>1. off \in Nat \ {0}  BY SlotForOK DEF RegUser
<1>2. file \in File  BY <1>1, MakeOK, ContentsOK, WrittenOK
<1>3. disk' = [disk EXCEPT ![reg.channel] = file]  BY DEF ColdSave
<1> HIDE DEF file
<1>4. DiskType(disk')  BY <1>2, <1>3 DEF DiskType
<1>5. \A c \in Chan : disk[c] # NULL => disk'[c] # NULL
  BY <1>2, <1>3, NullOK DEF DiskType, NullOK
<1> QED  BY <1>4, <1>5, AsksDisk

(* The heap afterwards is like the one before.                             *)
LEMMA SavedLike ==
  ASSUME NEW f, NEW g, HeapOK(f, g), NEW r \in Regs, f[r] # NULL,
         NEW off \in Nat
  PROVE  Like(Saved(f, r, off), f)
<1>1. f[r] \in RegUser /\ WellFormed(f[r])  BY DEF HeapOK, HeapType, Shapes
<1> DEFINE n == IF f[r].access = 0 THEN 0 ELSE off
           a == [f[r] EXCEPT !.offset = n]
           e == [a EXCEPT !.modified = FALSE]
<1>2. Saved(f, r, off) = [f EXCEPT ![r] = e]
  BY <1>1 DEF Saved, HeapOK, HeapType
<1>3. n \in Nat  OBVIOUS
<1> HIDE DEF n
<1>4. /\ a \in RegUser /\ WellFormed(a)
      /\ a.inuse = f[r].inuse /\ a.listed = f[r].listed
  BY <1>1, <1>3 DEF RegUser, WellFormed
<1> HIDE DEF a
<1>5. /\ e \in RegUser /\ WellFormed(e)
      /\ e.inuse = a.inuse /\ e.listed = a.listed
  BY <1>4 DEF RegUser, WellFormed
<1> HIDE DEF e
<1> QED  BY <1>1, <1>2, <1>4, <1>5, ReplaceLike

-----------------------------------------------------------------------------
(* Logins *)

(* A valid login leads to a record of the table.                           *)
LEMMA ValidOK ==
  ASSUME HeapOK(regs, vals), NEW u, NEW c, NEW r \in IsValid(u, c)
  PROVE  r \in Listed(regs)
<1>1. PICK v \in LinkTo(vals, u, c) : r = vals[v].reg  BY DEF IsValid
<1>2. v \in Vals /\ vals[v] # NULL  BY DEF LinkTo, First, LinksOf
<1>3. r \in Regs  BY <1>1, <1>2 DEF HeapOK, HeapType, avalchan
<1> QED  BY <1>1, <1>2, <1>3 DEF HeapOK, Points, Listed

(* LAccess returns a level, 0 for a client that is not logged in.          *)
LEMMA LAccessOK ==
  ASSUME HeapOK(regs, vals), NEW u, NEW c
  PROVE  LAccess(u, c) \in 0 .. MASTER_ACCESS
<1>1. CASE IsValid(u, c) = {}
  BY <1>1 DEF LAccess, MASTER_ACCESS
<1>2. CASE IsValid(u, c) # {}
  <2> DEFINE x == CHOOSE r \in IsValid(u, c) : TRUE
  <2>1. x \in IsValid(u, c)  BY <1>2
  <2>2. x \in Listed(regs)  BY <2>1, ValidOK
  <2>3. regs[x] \in RegUser  BY <2>2 DEF Listed, HeapOK, HeapType
  <2>4. regs[x].access \in 0 .. MASTER_ACCESS  BY <2>3 DEF RegUser
  <2>5. LAccess(u, c) \in {regs[x].access, 0}  BY DEF LAccess
  <2> QED  BY <2>4, <2>5 DEF MASTER_ACCESS
<1> QED  BY <1>1, <1>2

(* Dropping an earlier login, if there is one.                             *)
LEMMA ReleasedOK ==
  ASSUME HeapOK(regs, vals), NEW u, NEW c, NEW z \in Released(u, c)
  PROVE  /\ HeapOK(z[1], z[2])
         /\ Pending(z[1]) = Pending(regs) /\ Listed(z[1]) = Listed(regs)
<1>1. CASE LinkTo(vals, u, c) = {}
  BY <1>1 DEF Released
<1>2. CASE LinkTo(vals, u, c) # {}
  <2>1. PICK v \in LinkTo(vals, u, c) :
          z = <<[regs EXCEPT ![vals[v].reg].inuse = @ - 1], Unlinked(vals, v)>>
    BY <1>2 DEF Released
  <2>2. v \in Vals /\ vals[v] # NULL  BY DEF LinkTo, First, LinksOf
  <2>3. /\ z[1] = [regs EXCEPT ![vals[v].reg].inuse = @ - 1]
        /\ z[2] = Unlinked(vals, v)
    BY <2>1
  <2> QED  BY <2>2, <2>3, LogoutOK
<1> QED  BY <1>1, <1>2

(* successful_auth through a record of the table.                          *)
LEMMA AuthOK ==
  ASSUME NEW f, NEW g, HeapOK(f, g), NEW u \in Users, NEW c \in AllChan,
         NEW r \in Listed(f), successful_auth(f, g, u, c, r)
  PROVE  /\ HeapOK(regs', vals')
         /\ Pending(regs') = Pending(f) /\ Listed(regs') = Listed(f)
<1>1. PICK v \in Fresh(g) : regs' = Held(f, r) /\ vals' = Pushed(g, v, u, c, r)
  BY DEF successful_auth
<1> QED  BY <1>1, LoginOK

(* deauth releases one login and nothing else.                             *)
LEMMA DeAuthStep ==
  ASSUME Good(regs, vals, query, disk), NEW u, NEW c, DeAuth(u, c)
  PROVE  Good(regs', vals', query', disk')
<1>1. PICK z \in Released(u, c) : regs' = z[1] /\ vals' = z[2]
  BY DEF DeAuth
<1>2. HeapOK(regs', vals') /\ Pending(regs') = Pending(regs)
  BY <1>1, ReleasedOK DEF Good
<1>3. query' = query /\ disk' = disk  BY DEF DeAuth
<1>4. Owned(regs', query')  BY <1>2, <1>3, OwnedSame DEF Good
<1> QED  BY <1>2, <1>3, <1>4 DEF Good

(* A join logs a client in through a record of the table only.             *)
LEMMA TryFindStep ==
  ASSUME Good(regs, vals, query, disk), NEW u \in Users, NEW c \in Chan,
         try_find(u, c)
  PROVE  Good(regs', vals', query', disk')
<1>1. PICK r \in Listed(regs) : successful_auth(regs, vals, u, c, r)
  BY DEF try_find, First
<1>2. HeapOK(regs', vals') /\ Pending(regs') = Pending(regs)
  BY <1>1, AuthOK DEF Good, AllChan
<1>3. query' = query /\ disk' = disk  BY DEF try_find
<1>4. Owned(regs', query')  BY <1>2, <1>3, OwnedSame DEF Good
<1> QED  BY <1>2, <1>3, <1>4 DEF Good

(* login: one login dropped, then one made in memory or one query sent.    *)
LEMMA ValidateStep ==
  ASSUME Good(regs, vals, query, disk), Rest, NEW u \in Users,
         NEW c \in AllChan, NEW pw \in Tries, validate(u, c, pw)
  PROVE  Good(regs', vals', query', disk')
<1>1. PICK z \in Released(u, c) :
        LET fits(chan) == {r \in Listed(z[1]) : /\ z[1][r].channel = chan
                                                /\ Match(online[u], z[1][r].match)
                                                /\ z[1][r].passwd = pw}
            hits == IF fits(c) # {} THEN fits(c) ELSE fits(Star)
        IN  IF hits # {}
            THEN /\ \E r \in First(z[1], hits) :
                      successful_auth(z[1], z[2], u, c, r)
                 /\ UNCHANGED query
            ELSE /\ regs' = z[1] /\ vals' = z[2]
                 /\ db_fetch(c, [Ask("validate", c, u, online[u])
                                   EXCEPT !.passwd = pw])
  BY DEF validate
<1> DEFINE fits(chan) == {r \in Listed(z[1]) : /\ z[1][r].channel = chan
                                               /\ Match(online[u], z[1][r].match)
                                               /\ z[1][r].passwd = pw}
           hits == IF fits(c) # {} THEN fits(c) ELSE fits(Star)
           x == Ask("validate", c, u, online[u])
           y == [x EXCEPT !.passwd = pw]
<1>2. HeapOK(z[1], z[2]) /\ Pending(z[1]) = Pending(regs)
  BY ReleasedOK DEF Good
<1>3. hits \subseteq Listed(z[1])  OBVIOUS
<1>4. disk' = disk /\ online[u] \in Hosts  BY DEF validate, Rest
<1>5. CASE hits # {}
  <2>1. PICK r \in First(z[1], hits) : successful_auth(z[1], z[2], u, c, r)
    BY <1>1, <1>5
  <2>2. query' = query  BY <1>1, <1>5
  <2>3. r \in Listed(z[1])  BY <1>3 DEF First
  <2> HIDE DEF hits
  <2>4. HeapOK(regs', vals') /\ Pending(regs') = Pending(regs)
    BY <1>2, <2>1, <2>3, AuthOK
  <2>5. Owned(regs', query')  BY <2>2, <2>4, OwnedSame DEF Good
  <2> QED  BY <1>4, <2>2, <2>4, <2>5 DEF Good
<1>6. CASE hits = {}
  <2>1. regs' = z[1] /\ vals' = z[2] /\ db_fetch(c, y)  BY <1>1, <1>6
  <2> HIDE DEF hits
  <2>2. Owned(regs', query)  BY <1>2, <2>1, OwnedSame DEF Good
  <2>3. ASSUME c \in Chan, disk[c] # NULL
        PROVE  y \in Query /\ y.kind # "adduser" /\ QueryOK(y, disk)
    <3>1. /\ x \in Query /\ x.kind = "validate" /\ x.chan = c /\ x.src = u
          /\ x.kept = NULL
      BY <1>4, <2>3, AskOK DEF Kinds
    <3> HIDE DEF x
    <3>2. /\ y \in Query /\ y.kind = "validate" /\ y.chan = c /\ y.src = u
          /\ y.kept = NULL
      BY <3>1 DEF Query
    <3> HIDE DEF y
    <3> QED  BY <2>3, <3>2 DEF QueryOK
  <2> HIDE DEF x, y
  <2>4. QueryType(query') /\ Owned(regs', query') /\ AsksOK(query', disk)
    BY <2>1, <2>2, <2>3, FetchOK DEF Good
  <2> QED  BY <1>2, <1>4, <2>1, <2>4 DEF Good
<1> QED  BY <1>5, <1>6

-----------------------------------------------------------------------------
(* Commands *)

(* A step that only rewrites records.                                      *)
LEMMA LikeStep ==
  ASSUME Good(regs, vals, query, disk), Like(regs', regs),
         vals' = vals, query' = query, disk' = disk
  PROVE  Good(regs', vals', query', disk')
<1>1. HeapOK(regs', vals') /\ Pending(regs') = Pending(regs)
  BY LikeOK DEF Good
<1>2. Owned(regs', query')  BY <1>1, OwnedSame DEF Good
<1> QED  BY <1>1, <1>2 DEF Good

(* adduser: the new record goes to the table, or to exactly one query.     *)
LEMMA AddUserStep ==
  ASSUME Good(regs, vals, query, disk), NEW u \in Users, NEW c \in Chan,
         NEW n \in Names, NEW m \in Masks, NEW acc \in GrantLevels,
         NEW pw \in Pws, AddUser(u, c, n, m, acc, pw)
  PROVE  Good(regs', vals', query', disk')
<1> DEFINE reg == NewReg(c, n, m, pw, acc)
           x == Ask("adduser", c, u, n)
<1>1. /\ reg \in RegUser /\ WellFormed(reg) /\ reg.inuse = 0 /\ ~reg.listed
      /\ reg.channel = c
  <2>1. acc \in 1 .. MASTER_ACCESS - 1  BY ConstantsOK DEF ConstantsOK
  <2> QED  BY <2>1, NewRegOK
<1>2. PICK r \in Fresh(regs) :
        LET new == [regs EXCEPT ![r] = reg]
        IN  IF disk[c] = NULL
            THEN regs' = Insert(new, r) /\ UNCHANGED query
            ELSE regs' = new /\ Enqueue([x EXCEPT !.reg = r])
  BY DEF AddUser
<1> DEFINE new == [regs EXCEPT ![r] = reg]
           y == [x EXCEPT !.reg = r]
<1>3. x \in Query /\ x.kind = "adduser" /\ x.chan = c /\ x.src = u
      /\ x.info = n /\ ~x.found /\ x.open /\ x.kept = NULL
  BY AskOK DEF Kinds
<1>4. vals' = vals /\ disk' = disk  BY DEF AddUser
<1>5. r \in Regs /\ regs[r] = NULL  BY DEF Fresh, Good, HeapOK, HeapType
<1> HIDE DEF reg, x
<1>6. /\ HeapOK(new, vals) /\ Pending(new) = Pending(regs) \cup {r}
      /\ r \notin Pending(regs)
  BY <1>1, AllocOK DEF Good
<1>7. new[r] # NULL  BY <1>1, <1>5, NullOK DEF Good, HeapOK, HeapType, NullOK
<1>8. CASE disk[c] = NULL
  <2>1. regs' = Insert(new, r) /\ query' = query  BY <1>2, <1>8
  <2> HIDE DEF new
  <2>2. HeapOK(regs', vals') /\ Pending(regs') = Pending(new) \ {r}
    BY <1>4, <1>5, <1>6, <1>7, <2>1, InsertOK
  <2>3. Pending(regs') = Pending(regs)  BY <1>6, <2>2
  <2>4. Owned(regs', query')  BY <2>1, <2>3, OwnedSame DEF Good
  <2> QED  BY <1>4, <2>1, <2>2, <2>4 DEF Good
<1>9. CASE disk[c] # NULL
  <2>1. regs' = new /\ Enqueue(y)  BY <1>2, <1>9
  <2> HIDE DEF new
  <2>2. PICK i \in Fresh(query) : query' = [query EXCEPT ![i] = y]
    BY <2>1 DEF Enqueue
  <2>3. i \in Qids /\ query[i] = NULL  BY DEF Fresh, Good, QueryType
  <2>4. /\ y \in Query /\ y.kind = "adduser" /\ y.chan = c /\ y.src = u
        /\ y.info = n /\ ~y.found /\ y.open /\ y.kept = NULL /\ y.reg = r
    BY <1>3, <1>5 DEF Query
  <2> HIDE DEF y
  <2>5. Owned(regs', query')
    BY <1>6, <2>1, <2>2, <2>3, <2>4, OwnedTake DEF Good
  <2>6. QueryType(query')  BY <2>2, <2>3, <2>4 DEF Good, QueryType
  <2>7. QueryOK(y, disk)  BY <1>9, <2>4 DEF QueryOK
  <2>8. AsksOK(query', disk)
    BY <2>2, <2>3, <2>7 DEF Good, AsksOK, QueryType
  <2> QED  BY <1>4, <1>6, <2>1, <2>5, <2>6, <2>8 DEF Good
<1> QED  BY <1>8, <1>9

(* remuser marks the record and leaves it where logins point to it.        *)
LEMMA RemoveUserStep ==
  ASSUME Good(regs, vals, query, disk), NEW u \in Users, NEW c \in Chan,
         NEW t \in Names \cup Masks, RemoveUser(u, c, t)
  PROVE  Good(regs', vals', query', disk')
<1> DEFINE acs == LAccess(u, c)
           hits == {r \in Listed(regs) :
                      /\ regs[r].channel = c
                      /\ IF t \in Names THEN regs[r].realname = t
                                        ELSE regs[r].match = t}
           x == Ask("remuser", c, u, t)
           y == [x EXCEPT !.action = acs]
<1>1. /\ vals' = vals /\ disk' = disk
      /\ IF hits = {} THEN UNCHANGED regs
         ELSE \E r \in First(regs, hits) :
                regs' = IF regs[r].access < acs THEN Removed(regs, r) ELSE regs
      /\ query' = query \/ db_fetch(c, y)
  BY DEF RemoveUser
<1>2. Like(regs', regs)
  <2>1. Like(regs, regs)  BY DEF Like, Good, HeapOK, HeapType
  <2>2. ASSUME NEW r \in First(regs, hits) PROVE Like(Removed(regs, r), regs)
    <3>1. r \in Listed(regs) /\ regs[r].channel \in Chan  BY <2>2 DEF First
    <3> QED  BY <3>1, RemovedLike DEF Good
  <2> QED  BY <1>1, <2>1, <2>2
<1>3. HeapOK(regs', vals') /\ Pending(regs') = Pending(regs)
  BY <1>1, <1>2, LikeOK DEF Good
<1>4. Owned(regs', query)  BY <1>3, OwnedSame DEF Good
<1>5. y \in Query /\ y.kind = "remuser"
  <2>1. x \in Query /\ x.kind = "remuser"  BY AskOK DEF Kinds
  <2>2. acs \in 0 .. MASTER_ACCESS  BY LAccessOK DEF Good
  <2> HIDE DEF x, acs
  <2> QED  BY <2>1, <2>2 DEF Query
<1>6. disk[c] # NULL => QueryOK(y, disk)
  <2>1. x.chan = c /\ x \in Query  BY AskOK DEF Kinds
  <2>2. y.chan = c  BY <2>1 DEF Query
  <2> HIDE DEF y
  <2> QED  BY <1>5, <2>2 DEF QueryOK
<1> HIDE DEF y, hits
<1>7. QueryType(query') /\ Owned(regs', query') /\ AsksOK(query', disk)
  <2>1. CASE query' = query  BY <1>4, <2>1 DEF Good
  <2>2. CASE db_fetch(c, y)
    BY <1>4, <1>5, <1>6, <2>2, FetchOK DEF Good, AllChan
  <2> QED  BY <1>1, <2>1, <2>2
<1> QED  BY <1>1, <1>3, <1>7 DEF Good

(* suspend only sends a query.                                             *)
LEMMA SuspendStep ==
  ASSUME Good(regs, vals, query, disk), NEW u \in Users \cup {Server},
         NEW c \in Chan, NEW t \in Names \cup Masks, NEW on \in Durations,
         suspend(u, c, t, on)
  PROVE  Good(regs', vals', query', disk')
<1> DEFINE x == Ask("suspend", c, u, t)
           y == [x EXCEPT !.on = on]
<1>1. regs' = regs /\ vals' = vals /\ disk' = disk /\ db_fetch(c, y)
  BY DEF suspend
<1>2. x \in Query /\ x.kind = "suspend" /\ x.chan = c  BY AskOK DEF Kinds
<1>3. on \in BOOLEAN  BY ConstantsOK DEF ConstantsOK
<1> HIDE DEF x
<1>4. y \in Query /\ y.kind = "suspend" /\ y.chan = c  BY <1>2, <1>3 DEF Query
<1> HIDE DEF y
<1>5. disk[c] # NULL => QueryOK(y, disk)  BY <1>4 DEF QueryOK
<1>6. QueryType(query') /\ Owned(regs, query') /\ AsksOK(query', disk)
  BY <1>1, <1>4, <1>5, FetchOK DEF Good, AllChan
<1> QED  BY <1>1, <1>6 DEF Good

(* modinfo never touches a deleted record.                                 *)
LEMMA ModUserInfoStep ==
  ASSUME Good(regs, vals, query, disk), NEW u \in Users, NEW c \in Chan,
         NEW field \in Fields, NEW t \in Names \cup Masks,
         NEW value \in Values(field), ModUserInfo(u, c, field, t, value)
  PROVE  Good(regs', vals', query', disk')
<1> DEFINE hits == {r \in Listed(regs) :
                      /\ regs[r].channel = c
                      /\ IF t \in Names THEN regs[r].realname = t
                                        ELSE Match(t, regs[r].match)}
           x == Ask("modinfo", c, u, t)
           y == [x EXCEPT !.field = field, !.value = value]
<1>1. /\ vals' = vals /\ disk' = disk
      /\ IF hits # {}
         THEN /\ \E r \in First(regs, hits) :
                   regs' = do_modinfo(regs, u, r, field, value)
              /\ UNCHANGED query
         ELSE db_fetch(c, y) /\ UNCHANGED regs
  BY DEF ModUserInfo
<1>2. CASE hits # {}
  <2>1. PICK r \in hits : regs' = do_modinfo(regs, u, r, field, value)
    BY <1>1, <1>2 DEF First
  <2>2. Usable(regs, r)
    <3>1. r \in Listed(regs) /\ regs[r].channel = c  OBVIOUS
    <3>2. WellFormed(regs[r])  BY <3>1 DEF Good, HeapOK, Shapes, Listed
    <3>3. c # Star /\ Del \notin Names \cup Masks /\ AnyHost # Del
      BY ConstantsOK DEF ConstantsOK
    <3>4. CASE t \in Names  BY <3>1, <3>4 DEF Usable
    <3>5. CASE t \notin Names
      <4>1. Match(t, regs[r].match) /\ t \in Masks  BY <3>5
      <4>2. regs[r].match # Del  BY <3>3, <4>1 DEF Match
      <4> QED  BY <3>1, <3>2, <3>3, <4>2 DEF Usable, WellFormed
    <3> QED  BY <3>4, <3>5
  <2> HIDE DEF hits
  <2>3. Like(regs', regs)  BY <2>1, <2>2, ModinfoLike DEF Good
  <2>4. query' = query  BY <1>1, <1>2
  <2> QED  BY <1>1, <2>3, <2>4, LikeStep
<1>3. CASE hits = {}
  <2>1. regs' = regs /\ db_fetch(c, y)  BY <1>1, <1>3
  <2>2. x \in Query /\ x.kind = "modinfo" /\ x.chan = c  BY AskOK DEF Kinds
  <2> HIDE DEF x, hits
  <2> DEFINE x1 == [x EXCEPT !.field = field]
  <2>3. value \in GrantLevels \cup {0} \cup Masks \cup Pws \cup {NULL}
    <3>1. \/ field = "ACCESS" /\ Values(field) = GrantLevels \cup {0}
          \/ field = "MATCH" /\ Values(field) = Masks
          \/ field = "PASSWORD" /\ Values(field) = Pws
          \/ Values(field) = {NULL}
      BY DEF Values
    <3> QED  BY <3>1
  <2>4. x1 \in Query /\ x1.kind = "modinfo" /\ x1.chan = c /\ x1.field = field
    BY <2>2 DEF Query
  <2>5. y = [x1 EXCEPT !.value = value]  OBVIOUS
  <2> HIDE DEF x1, y
  <2>6. /\ y \in Query /\ y.kind = "modinfo" /\ y.chan = c /\ y.field = field
        /\ y.value = value
    BY <2>3, <2>4, <2>5 DEF Query
  <2>7. disk[c] # NULL => QueryOK(y, disk)  BY <2>6 DEF QueryOK
  <2>8. QueryType(query') /\ Owned(regs, query') /\ AsksOK(query', disk)
    BY <2>1, <2>6, <2>7, FetchOK DEF Good, AllChan
  <2> QED  BY <1>1, <2>1, <2>8 DEF Good
<1> QED  BY <1>2, <1>3

(* newpass changes a record of the table only.                             *)
LEMMA ChPassStep ==
  ASSUME Good(regs, vals, query, disk), NEW u \in Users, NEW c \in Chan,
         NEW pw \in Pws, ChPass(u, c, pw)
  PROVE  Good(regs', vals', query', disk')
<1>1. PICK r \in IsValid(u, c) : regs' = [regs EXCEPT ![r].passwd = pw]
  BY DEF ChPass
<1>2. r \in Listed(regs)  BY ValidOK DEF Good
<1>3. Like(regs', regs)  BY <1>1, <1>2, PasswdLike DEF Good
<1>4. vals' = vals /\ query' = query /\ disk' = disk  BY DEF ChPass
<1> QED  BY <1>3, <1>4, LikeStep

(* A record of a channel, as purge leaves it.                              *)
LEMMA PurgedOK ==
  ASSUME NEW reg \in RegUser, WellFormed(reg), reg.channel \in Chan
  PROVE  /\ Purged(reg) \in RegUser /\ WellFormed(Purged(reg))
         /\ Purged(reg).inuse = reg.inuse /\ Purged(reg).listed = reg.listed
<1> DEFINE a == [reg EXCEPT !.realname = Del]
           b == [a EXCEPT !.match = Del]
           d == [b EXCEPT !.access = 0]
           e == [d EXCEPT !.modified = FALSE]
<1>1. Purged(reg) = e  BY DEF Purged
<1>2. a \in RegUser /\ a.realname = Del /\ a.channel = reg.channel
      /\ a.inuse = reg.inuse /\ a.listed = reg.listed /\ a.passwd = reg.passwd
  BY DEF RegUser
<1> HIDE DEF a
<1>3. b \in RegUser /\ b.realname = Del /\ b.match = Del
      /\ b.channel = reg.channel
      /\ b.inuse = reg.inuse /\ b.listed = reg.listed /\ b.passwd = reg.passwd
  BY <1>2 DEF RegUser
<1> HIDE DEF b
<1>4. d \in RegUser /\ d.realname = Del /\ d.match = Del /\ d.access = 0
      /\ d.channel = reg.channel
      /\ d.inuse = reg.inuse /\ d.listed = reg.listed /\ d.passwd = reg.passwd
  BY <1>3 DEF RegUser, MASTER_ACCESS
<1> HIDE DEF d
<1>5. e \in RegUser /\ e.realname = Del /\ e.match = Del /\ e.access = 0
      /\ e.channel = reg.channel
      /\ e.inuse = reg.inuse /\ e.listed = reg.listed /\ e.passwd = reg.passwd
  BY <1>4 DEF RegUser
<1> HIDE DEF e
<1>6. reg.channel # Star  BY ConstantsOK DEF ConstantsOK
<1>7. WellFormed(e)  BY <1>5, <1>6 DEF WellFormed, MASTER_ACCESS
<1> QED  BY <1>1, <1>5, <1>7

(* purge leaves the records where they are, and their files to the queries.*)
LEMMA PurgeStep ==
  ASSUME Good(regs, vals, query, disk), NEW u \in Users, NEW c \in Chan,
         purge(u, c)
  PROVE  Good(regs', vals', query', disk')
<1>1. /\ vals' = vals
      /\ regs' = [r \in Regs |-> IF r \in Listed(regs) /\ regs[r].channel = c
                                 THEN Purged(regs[r]) ELSE regs[r]]
      /\ disk' = [disk EXCEPT ![c] = NULL]
      /\ query' = [i \in Qids |->
           IF query[i] # NULL /\ query[i].chan = c /\ query[i].kept = NULL
           THEN [query[i] EXCEPT !.kept = disk[c]] ELSE query[i]]
  BY DEF purge
<1>2. Like(regs', regs)
  <2>1. ASSUME NEW r \in Regs, regs[r] # NULL
        PROVE  /\ regs'[r] \in RegUser /\ regs'[r] # NULL /\ WellFormed(regs'[r])
               /\ regs'[r].inuse = regs[r].inuse
               /\ regs'[r].listed = regs[r].listed
    <3>1. regs[r] \in RegUser /\ WellFormed(regs[r])
      BY <2>1 DEF Good, HeapOK, HeapType, Shapes
    <3>2. \/ regs'[r] = Purged(regs[r]) /\ regs[r].channel \in Chan
          \/ regs'[r] = regs[r]
      BY <1>1
    <3> QED  BY <3>1, <3>2, PurgedOK, NullOK DEF NullOK
  <2>2. \A r \in Regs : regs[r] = NULL => regs'[r] = NULL
    BY <1>1 DEF Listed
  <2>3. regs' = [r \in Regs |-> regs'[r]]  BY <1>1
  <2> QED  BY <2>1, <2>2, <2>3 DEF Like, Shapes
<1>3. HeapOK(regs', vals') /\ Pending(regs') = Pending(regs)
  BY <1>1, <1>2, LikeOK DEF Good
<1>4. DiskType(disk')  BY <1>1 DEF Good, DiskType
<1>5. ASSUME NEW i \in Qids, query[i] # NULL
      PROVE  /\ query'[i] \in Query /\ query'[i] # NULL
             /\ query'[i].kind = query[i].kind /\ query'[i].src = query[i].src
             /\ query'[i].info = query[i].info /\ query'[i].found = query[i].found
             /\ query'[i].open = query[i].open /\ query'[i].reg = query[i].reg
             /\ query'[i].field = query[i].field
             /\ query'[i].value = query[i].value
             /\ query'[i].chan = query[i].chan
             /\ query'[i].kept = NULL /\ query'[i].open => disk'[query'[i].chan] # NULL
  <2>1. query[i] \in Query  BY <1>5 DEF Good, QueryType
  <2>2. CASE query[i].chan = c /\ query[i].kept = NULL
    <3>1. query'[i] = [query[i] EXCEPT !.kept = disk[c]]
      BY <1>1, <1>5, <2>2
    <3>2. disk[c] \in File \cup {NULL}  BY DEF Good, DiskType
    <3>3. /\ query'[i] \in Query
          /\ query'[i].kind = query[i].kind /\ query'[i].src = query[i].src
          /\ query'[i].info = query[i].info /\ query'[i].found = query[i].found
          /\ query'[i].open = query[i].open /\ query'[i].reg = query[i].reg
          /\ query'[i].field = query[i].field
          /\ query'[i].value = query[i].value
          /\ query'[i].chan = query[i].chan
          /\ query'[i].kept = disk[c]
      BY <2>1, <3>1, <3>2 DEF Query
    <3>4. query[i].open => disk[c] # NULL
      BY <1>5, <2>2 DEF Good, AsksOK, QueryOK
    <3> QED  BY <3>3, <3>4, NullOK DEF NullOK
  <2>3. CASE ~(query[i].chan = c /\ query[i].kept = NULL)
    <3>1. query'[i] = query[i]  BY <1>1, <1>5, <2>3
    <3>2. query[i].chan \in Chan  BY <2>1 DEF Query
    <3>3. query[i].kept = NULL /\ query[i].open =>
            disk'[query[i].chan] # NULL
      BY <1>1, <1>5, <2>3, <3>2 DEF Good, AsksOK, QueryOK, DiskType
    <3> QED  BY <1>5, <2>1, <3>1, <3>3
  <2> QED  BY <2>2, <2>3
<1>6. \A i \in Qids : query[i] = NULL => query'[i] = NULL  BY <1>1
<1>7. QueryType(query')
  <2>1. query' = [i \in Qids |-> query'[i]]  BY <1>1
  <2> QED  BY <1>5, <1>6, <2>1 DEF QueryType
<1>8. AsksOK(query', disk')  BY <1>5, <1>6 DEF Good, AsksOK, QueryOK
<1>9. Owned(regs', query')
  <2>1. \A i \in Qids : /\ Holds(query', i) <=> Holds(query, i)
                        /\ Holds(query, i) => query'[i].reg = query[i].reg
    BY <1>5, <1>6 DEF Holds
  <2> QED  BY <1>3, <2>1, OwnedSame DEF Good
<1> QED  BY <1>3, <1>4, <1>7, <1>8, <1>9 DEF Good

(* register: a record is made, put into the table and written at once.     *)
LEMMA RegChanStep ==
  ASSUME Good(regs, vals, query, disk), NEW u \in Users, NEW c \in Chan,
         NEW n \in Names, NEW m \in Masks, NEW pw \in Pws,
         RegChan(u, c, n, m, pw)
  PROVE  Good(regs', vals', query', disk')
<1> DEFINE reg == NewReg(c, n, m, pw, OWNER_ACCESS)
<1>1. /\ reg \in RegUser /\ WellFormed(reg) /\ reg.inuse = 0 /\ ~reg.listed
      /\ reg.channel = c
  <2>1. OWNER_ACCESS \in 1 .. MASTER_ACCESS - 1
    BY DEF OWNER_ACCESS, MASTER_ACCESS
  <2> QED  BY <2>1, NewRegOK
<1>2. PICK r \in Fresh(regs), off \in SlotFor(reg) :
        /\ ColdSave(reg, off)
        /\ regs' = Saved(Insert([regs EXCEPT ![r] = reg], r), r, off)
  BY DEF RegChan
<1>3. vals' = vals /\ query' = query  BY DEF RegChan
<1>4. r \in Regs /\ regs[r] = NULL  BY DEF Fresh, Good, HeapOK, HeapType
<1> HIDE DEF reg
<1> DEFINE new == [regs EXCEPT ![r] = reg]
           ins == Insert(new, r)
<1>5. /\ HeapOK(new, vals) /\ Pending(new) = Pending(regs) \cup {r}
      /\ r \notin Pending(regs)
  BY <1>1, AllocOK DEF Good
<1>6. new[r] # NULL  BY <1>1, <1>4, NullOK DEF Good, HeapOK, HeapType, NullOK
<1> HIDE DEF new
<1>7. /\ HeapOK(ins, vals) /\ Pending(ins) = Pending(new) \ {r}
      /\ r \in Listed(ins)
  BY <1>4, <1>5, <1>6, InsertOK
<1>8. ins[r] # NULL  BY <1>7 DEF Listed
<1>9. off \in Nat
  <2>1. off \in Nat \ {0}  BY <1>1, SlotForOK DEF Good, RegUser
  <2> QED  BY <2>1
<1>10. regs' = Saved(ins, r, off)  BY <1>2 DEF new
<1> HIDE DEF ins
<1>11. HeapOK(regs', vals') /\ Pending(regs') = Pending(regs)
  <2>1. Like(regs', ins)  BY <1>4, <1>7, <1>8, <1>9, <1>10, SavedLike
  <2>2. HeapOK(regs', vals) /\ Pending(regs') = Pending(ins)
    BY <1>7, <2>1, LikeOK
  <2> QED  BY <1>3, <1>5, <1>7, <2>2
<1>12. DiskType(disk') /\ AsksOK(query, disk')
  BY <1>1, <1>2, ColdSaveOK DEF Good
<1>13. Owned(regs', query')  BY <1>3, <1>11, OwnedSame DEF Good
<1> QED  BY <1>3, <1>11, <1>12, <1>13 DEF Good

-----------------------------------------------------------------------------
(* Clients leave, suspensions expire *)

(* A client leaves: what it held is released as often as it held it.       *)
LEMMA OnquitStep ==
  ASSUME Good(regs, vals, query, disk), NEW u \in Users, onquit(u)
  PROVE  Good(regs', vals', query', disk')
<1> DEFINE f2 == [r \in Regs |-> IF regs[r] = NULL THEN NULL
                   ELSE [regs[r] EXCEPT !.inuse = @ - Left(vals, u, r)]]
           g2 == [v \in Vals |-> IF v \in LinksOf(vals, u) THEN NULL ELSE vals[v]]
<1>1. regs' = f2 /\ vals' = g2 /\ query' = query /\ disk' = disk
  BY DEF onquit
<1>2. HeapOK(f2, g2) /\ Pending(f2) = Pending(regs)  BY QuitOK DEF Good
<1> HIDE DEF f2, g2
<1>3. Owned(regs', query')  BY <1>1, <1>2, OwnedSame DEF Good
<1> QED  BY <1>1, <1>2, <1>3 DEF Good

(* Slots stay slots when suspensions expire.                               *)
LEMMA ExpiredOK ==
  ASSUME NEW file \in File
  PROVE  Expired(file) \in File
<1>1. /\ Len(file) \in Nat /\ DOMAIN file = 1 .. Len(file)
      /\ \A k \in 1 .. Len(file) : file[k] \in Slot \cup {NULL}
  BY LenProperties, ElementOfSeq DEF File
<1>2. \A s \in Slot : [s EXCEPT !.suspend = FALSE] \in Slot  BY DEF Slot
<1>3. Expired(file) = [k \in 1 .. Len(file) |->
         IF file[k] = NULL THEN NULL ELSE [file[k] EXCEPT !.suspend = FALSE]]
  BY <1>1 DEF Expired
<1>4. ASSUME NEW k \in 1 .. Len(file)
      PROVE  (IF file[k] = NULL THEN NULL ELSE [file[k] EXCEPT !.suspend = FALSE])
               \in Slot \cup {NULL}
  <2>1. CASE file[k] = NULL  BY <2>1
  <2>2. CASE file[k] # NULL
    <3>1. file[k] \in Slot  BY <1>1, <2>2
    <3>2. [file[k] EXCEPT !.suspend = FALSE] \in Slot  BY <1>2, <3>1
    <3> QED  BY <2>2, <3>2
  <2> QED  BY <2>1, <2>2
<1>5. Expired(file) \in [1 .. Len(file) -> Slot \cup {NULL}]
  BY <1>3, <1>4
<1> QED  BY <1>1, <1>5, SeqFcn DEF File

(* The end of a suspension changes no count, link or query.                *)
LEMMA SuspensionsExpireStep ==
  ASSUME Good(regs, vals, query, disk), SuspensionsExpire
  PROVE  Good(regs', vals', query', disk')
<1>1. /\ vals' = vals
      /\ regs' = [r \in Regs |-> IF regs[r] = NULL THEN NULL
                                ELSE [regs[r] EXCEPT !.suspend = FALSE]]
      /\ disk' = [c \in Chan |-> IF disk[c] = NULL THEN NULL
                                ELSE Expired(disk[c])]
      /\ query' = [i \in Qids |->
            IF query[i] = NULL \/ query[i].kept = NULL THEN query[i]
            ELSE [query[i] EXCEPT !.kept = Expired(query[i].kept)]]
  BY DEF SuspensionsExpire
<1>2. Like(regs', regs)
  <2>1. ASSUME NEW r \in Regs, regs[r] # NULL
        PROVE  /\ regs'[r] \in RegUser /\ regs'[r] # NULL /\ WellFormed(regs'[r])
               /\ regs'[r].inuse = regs[r].inuse
               /\ regs'[r].listed = regs[r].listed
    <3>1. regs[r] \in RegUser /\ WellFormed(regs[r])
      BY <2>1 DEF Good, HeapOK, HeapType, Shapes
    <3>2. regs'[r] = [regs[r] EXCEPT !.suspend = FALSE]  BY <1>1, <2>1
    <3>3. /\ regs'[r] \in RegUser /\ WellFormed(regs'[r])
          /\ regs'[r].inuse = regs[r].inuse
          /\ regs'[r].listed = regs[r].listed
      BY <3>1, <3>2 DEF RegUser, WellFormed
    <3> QED  BY <3>3, NullOK DEF NullOK
  <2>2. \A r \in Regs : regs[r] = NULL => regs'[r] = NULL  BY <1>1
  <2>3. regs' = [r \in Regs |-> regs'[r]]  BY <1>1
  <2> QED  BY <2>1, <2>2, <2>3 DEF Like, Shapes
<1>3. HeapOK(regs', vals') /\ Pending(regs') = Pending(regs)
  BY <1>1, <1>2, LikeOK DEF Good
<1>4. \A file \in File : Expired(file) \in File /\ Expired(file) # NULL
  BY ExpiredOK, NullOK DEF NullOK
<1>5. DiskType(disk')  BY <1>1, <1>4 DEF Good, DiskType
<1>6. \A c \in Chan : disk[c] # NULL => disk'[c] # NULL
  BY <1>1, <1>4 DEF Good, DiskType
<1>7. AsksOK(query, disk')  BY <1>6, AsksDisk DEF Good
<1>8. ASSUME NEW i \in Qids, query[i] # NULL
      PROVE  /\ query'[i] \in Query /\ query'[i] # NULL
             /\ query'[i].kind = query[i].kind /\ query'[i].src = query[i].src
             /\ query'[i].info = query[i].info /\ query'[i].found = query[i].found
             /\ query'[i].open = query[i].open /\ query'[i].reg = query[i].reg
             /\ query'[i].field = query[i].field
             /\ query'[i].value = query[i].value
             /\ query'[i].chan = query[i].chan
             /\ query'[i].kept = NULL <=> query[i].kept = NULL
  <2>1. query[i] \in Query  BY <1>8 DEF Good, QueryType
  <2>2. CASE query[i].kept = NULL
    BY <1>1, <1>8, <2>1, <2>2
  <2>3. CASE query[i].kept # NULL
    <3> DEFINE file == Expired(query[i].kept)
    <3>1. query'[i] = [query[i] EXCEPT !.kept = file]
      BY <1>1, <1>8, <2>3
    <3>2. file \in File /\ file # NULL
      <4>1. query[i].kept \in File  BY <2>1, <2>3 DEF Query
      <4> QED  BY <1>4, <4>1
    <3> HIDE DEF file
    <3>3. /\ query'[i] \in Query
          /\ query'[i].kind = query[i].kind /\ query'[i].src = query[i].src
          /\ query'[i].info = query[i].info /\ query'[i].found = query[i].found
          /\ query'[i].open = query[i].open /\ query'[i].reg = query[i].reg
          /\ query'[i].field = query[i].field
          /\ query'[i].value = query[i].value
          /\ query'[i].chan = query[i].chan
          /\ query'[i].kept = file
      BY <2>1, <3>1, <3>2 DEF Query
    <3> QED  BY <2>3, <3>2, <3>3, NullOK DEF NullOK
  <2> QED  BY <2>2, <2>3
<1>9. \A i \in Qids : query[i] = NULL => query'[i] = NULL  BY <1>1
<1>10. QueryType(query')
  <2>1. query' = [i \in Qids |-> query'[i]]  BY <1>1
  <2> QED  BY <1>8, <1>9, <2>1 DEF QueryType
<1>11. AsksOK(query', disk')
  BY <1>7, <1>8, <1>9 DEF AsksOK, QueryOK
<1>12. Owned(regs', query')
  <2>1. \A i \in Qids : /\ Holds(query', i) <=> Holds(query, i)
                        /\ Holds(query, i) => query'[i].reg = query[i].reg
    BY <1>8, <1>9 DEF Holds
  <2> QED  BY <1>3, <2>1, OwnedSame DEF Good
<1> QED  BY <1>3, <1>5, <1>10, <1>11, <1>12 DEF Good

-----------------------------------------------------------------------------
(* Queries *)

(* A query's file is closed.                                               *)
LEMMA ClosedOK ==
  ASSUME NEW q \in Query
  PROVE  LET x == [q EXCEPT !.open = FALSE]
         IN  /\ x \in Query /\ x.kind = q.kind /\ x.src = q.src
             /\ x.info = q.info /\ x.found = q.found /\ ~x.open
             /\ x.reg = q.reg /\ x.field = q.field /\ x.value = q.value
<1> DEFINE x == [q EXCEPT !.open = FALSE]
<1>1. x \in Query /\ x.open = FALSE  BY ZenonT(60) DEF Query
<1>2. /\ x.kind = q.kind /\ x.src = q.src /\ x.info = q.info /\ x.reg = q.reg
      /\ x.field = q.field /\ x.value = q.value
  BY DEF Query
<1>3. x.found = q.found  BY DEF Query
<1> QED  BY <1>1, <1>2, <1>3

(* A callback keeps the heap right; adduser's gives its record up.         *)
LEMMA CallbackOK ==
  ASSUME Good(regs, vals, query, disk), Rest, NEW q \in Query,
         QueryOK(q, disk), NEW s \in Slot, Callback(q, s),
         q.kind = "adduser" => q.reg \in Pending(regs)
  PROVE  /\ HeapOK(regs', vals')
         /\ Pending(regs') = IF q.kind = "adduser" THEN Pending(regs) \ {q.reg}
                             ELSE Pending(regs)
<1>1. q.chan \in Chan /\ q.pos \in Nat \ {0} /\ q.kind \in Kinds
      /\ q.on \in BOOLEAN
  BY DEF Query
<1>2. ASSUME NEW l \in load_dbuser(q.chan, q.pos, s)
      PROVE  /\ HeapOK(l[1], vals) /\ Pending(l[1]) = Pending(regs)
             /\ l[2] # NULL => Usable(l[1], l[2]) /\ l[2] \in Listed(l[1])
                               /\ l[1][l[2]].channel \in Chan
  BY <1>1, <1>2, LoadOK DEF Good, Usable
<1>3. CASE q.kind = "validate"
  <2>1. validate_callback(q, s)  BY <1>3 DEF Callback
  <2>2. q.src \in Users  BY <1>3 DEF QueryOK
  <2>3. CASE online[q.src] = NULL
    BY <1>3, <2>1, <2>3 DEF validate_callback, Good
  <2>4. CASE online[q.src] # NULL
    <3>1. PICK l \in load_dbuser(q.chan, q.pos, s) :
            IF l[2] # NULL /\ Match(online[q.src], l[1][l[2]].match)
            THEN successful_auth(l[1], vals, q.src, q.chan, l[2])
            ELSE regs' = l[1] /\ UNCHANGED vals
      BY <2>1, <2>4 DEF validate_callback
    <3>2. CASE l[2] # NULL /\ Match(online[q.src], l[1][l[2]].match)
      <4>1. successful_auth(l[1], vals, q.src, q.chan, l[2])  BY <3>1, <3>2
      <4>2. HeapOK(l[1], vals) /\ l[2] \in Listed(l[1])
            /\ Pending(l[1]) = Pending(regs)
        BY <1>2, <3>2
      <4> QED  BY <1>1, <1>3, <2>2, <4>1, <4>2, AuthOK DEF AllChan
    <3>3. CASE ~(l[2] # NULL /\ Match(online[q.src], l[1][l[2]].match))
      <4>1. regs' = l[1] /\ vals' = vals  BY <3>1, <3>3
      <4> QED  BY <1>2, <1>3, <4>1
    <3> QED  BY <3>2, <3>3
  <2> QED  BY <2>3, <2>4
<1>4. CASE q.kind = "adduser"
  <2>1. adduser_callback(q, s)  BY <1>4 DEF Callback
  <2>2. vals' = vals  BY <2>1 DEF adduser_callback
  <2>3. q.reg \in Pending(regs)  BY <1>4
  <2>4. q.reg \in Regs /\ regs[q.reg] # NULL  BY <2>3 DEF Pending
  <2>5. CASE regs' = Insert(regs, q.reg)
    BY <1>4, <2>2, <2>4, <2>5, InsertOK DEF Good
  <2>6. CASE \E l \in load_dbuser(q.chan, q.pos, s) :
               regs' = IF l[2] # NULL THEN Unlinked(l[1], q.reg)
                                      ELSE Insert(regs, q.reg)
    <3>1. PICK l \in load_dbuser(q.chan, q.pos, s) :
               regs' = IF l[2] # NULL THEN Unlinked(l[1], q.reg)
                                      ELSE Insert(regs, q.reg)
      BY <2>6
    <3>2. CASE l[2] # NULL
      <4>1. regs' = Unlinked(l[1], q.reg)  BY <3>1, <3>2
      <4>2. HeapOK(l[1], vals) /\ Pending(l[1]) = Pending(regs)  BY <1>2
      <4>3. q.reg \notin Listed(l[1])  BY <2>3, <4>2 DEF Pending, Listed
      <4>4. Refs(vals, q.reg) = {}  BY <2>4, <4>2, <4>3, NoRefs
      <4> QED  BY <1>4, <2>2, <2>4, <4>1, <4>2, <4>4, FreeOK
    <3>3. CASE l[2] = NULL
      <4>1. regs' = Insert(regs, q.reg)  BY <3>1, <3>3
      <4> QED  BY <2>5, <4>1
    <3> QED  BY <3>2, <3>3
  <2> QED  BY <2>1, <2>5, <2>6 DEF adduser_callback
<1>5. CASE q.kind = "suspend"
  <2>1. suspend_callback(q, s)  BY <1>5 DEF Callback
  <2>2. PICK l \in load_dbuser(q.chan, q.pos, s) :
          \/ /\ l[2] # NULL
             /\ regs' = [Touched(l[1], l[2]) EXCEPT ![l[2]].suspend = q.on]
          \/ regs' = l[1]
    BY <2>1 DEF suspend_callback
  <2>3. vals' = vals  BY <2>1 DEF suspend_callback
  <2>4. CASE regs' = l[1]  BY <1>2, <1>5, <2>3, <2>4
  <2>5. CASE /\ l[2] # NULL
             /\ regs' = [Touched(l[1], l[2]) EXCEPT ![l[2]].suspend = q.on]
    <3> DEFINE f == Touched(l[1], l[2])
    <3>1. l[2] \in Listed(l[1]) /\ HeapOK(l[1], vals)  BY <1>2, <2>5
    <3>2. Like(f, l[1])  BY <3>1, TouchedLike
    <3>3. HeapOK(f, vals) /\ l[2] \in Listed(f) /\ Pending(f) = Pending(regs)
      BY <1>2, <3>1, <3>2, LikeOK
    <3> HIDE DEF f
    <3>4. Like([f EXCEPT ![l[2]].suspend = q.on], f)
      BY <1>1, <3>3, SuspendLike
    <3>5. regs' = [f EXCEPT ![l[2]].suspend = q.on]  BY <2>5 DEF f
    <3>6. Like(regs', f)  BY <3>4, <3>5
    <3>7. HeapOK(regs', vals) /\ Pending(regs') = Pending(f)
      BY <3>3, <3>6, LikeOK
    <3> QED  BY <1>5, <2>3, <3>3, <3>7
  <2> QED  BY <2>2, <2>4, <2>5
<1>6. CASE q.kind = "remuser"
  <2>1. remuser_callback(q, s)  BY <1>6 DEF Callback
  <2>2. PICK l \in load_dbuser(q.chan, q.pos, s) :
          \/ l[2] # NULL /\ regs' = Removed(l[1], l[2])
          \/ regs' = l[1]
    BY <2>1 DEF remuser_callback
  <2>3. vals' = vals  BY <2>1 DEF remuser_callback
  <2>4. CASE regs' = l[1]  BY <1>2, <1>6, <2>3, <2>4
  <2>5. CASE l[2] # NULL /\ regs' = Removed(l[1], l[2])
    <3>1. Like(Removed(l[1], l[2]), l[1])  BY <1>2, <2>5, RemovedLike
    <3>2. HeapOK(regs', vals) /\ Pending(regs') = Pending(l[1])
      BY <1>2, <2>5, <3>1, LikeOK
    <3> QED  BY <1>2, <1>6, <2>3, <3>2
  <2> QED  BY <2>2, <2>4, <2>5
<1>7. CASE q.kind = "modinfo"
  <2>1. modinfo_callback(q, s)  BY <1>7 DEF Callback
  <2>2. PICK l \in load_dbuser(q.chan, q.pos, s) :
          \/ /\ l[2] # NULL
             /\ regs' = do_modinfo(l[1], q.src, l[2], q.field, q.value)
          \/ regs' = l[1]
    BY <2>1 DEF modinfo_callback
  <2>3. vals' = vals  BY <2>1 DEF modinfo_callback
  <2>4. CASE regs' = l[1]  BY <1>2, <1>7, <2>3, <2>4
  <2>5. CASE /\ l[2] # NULL
             /\ regs' = do_modinfo(l[1], q.src, l[2], q.field, q.value)
    <3>1. q.value \in Values(q.field)  BY <1>7 DEF QueryOK
    <3>2. Like(do_modinfo(l[1], q.src, l[2], q.field, q.value), l[1])
      BY <1>2, <2>5, <3>1, ModinfoLike
    <3>3. HeapOK(regs', vals) /\ Pending(regs') = Pending(l[1])
      BY <1>2, <2>5, <3>2, LikeOK
    <3> QED  BY <1>2, <1>7, <2>3, <3>3
  <2> QED  BY <2>2, <2>4, <2>5
<1> QED  BY <1>1, <1>3, <1>4, <1>5, <1>6, <1>7 DEF Kinds

(* read_db: a slot is examined, and a hit goes to the callback.            *)
LEMMA ReadStep ==
  ASSUME Good(regs, vals, query, disk), Rest, NEW i \in Qids, read_db(i)
  PROVE  Good(regs', vals', query', disk')
<1> DEFINE q == query[i]
           file == IF q.kept = NULL THEN disk[q.chan] ELSE q.kept
           s == file[q.pos]
           hit == s # NULL /\ Hit(q, s)
           last == hit /\ StopsAtHit(q)
           found == q.found \/ (hit /\ q.kind = "adduser")
           end == [q EXCEPT !.open = FALSE]
           next == [q EXCEPT !.pos = @ + 1, !.found = found, !.open = ~last]
<1>1. q \in Query /\ q # NULL /\ q.open /\ QueryOK(q, disk)
  BY DEF read_db, Good, QueryType, AsksOK
<1>2. disk' = disk  BY DEF read_db
<1>3. \/ /\ query' = [query EXCEPT ![i] = end]
         /\ regs' = regs /\ vals' = vals
      \/ /\ q.pos <= Len(file)
         /\ query' = [query EXCEPT ![i] = next]
         /\ IF hit THEN Callback(q, s) ELSE regs' = regs /\ vals' = vals
  <2>1. file \in File
    <3>1. q.chan \in Chan /\ q.kept \in File \cup {NULL}  BY <1>1 DEF Query
    <3>2. q.kept = NULL => disk[q.chan] # NULL  BY <1>1 DEF QueryOK
    <3> QED  BY <3>1, <3>2 DEF Good, DiskType
  <2>2. Len(file) \in Nat /\ q.pos \in Nat
    BY <1>1, <2>1, LenProperties DEF File, Query
  <2>3. CASE q.pos > Len(file)
    <3>1. query' = [query EXCEPT ![i].open = FALSE] /\ regs' = regs /\ vals' = vals
      BY <2>3 DEF read_db
    <3>2. query' = [query EXCEPT ![i] = end]  BY <3>1 DEF Good, QueryType
    <3> QED  BY <3>1, <3>2
  <2>4. CASE ~(q.pos > Len(file))
    <3>1. /\ query' = [query EXCEPT ![i].pos = @ + 1,
                           ![i].found = @ \/ (hit /\ q.kind = "adduser"),
                           ![i].open = ~(hit /\ StopsAtHit(q))]
          /\ IF hit THEN Callback(q, s) ELSE regs' = regs /\ vals' = vals
      BY <2>4 DEF read_db
    <3> HIDE DEF hit
    <3>2. query' = [query EXCEPT ![i] = next]  BY <3>1 DEF Good, QueryType
    <3>3. q.pos <= Len(file)  BY <2>2, <2>4
    <3> QED  BY <3>1, <3>2, <3>3
  <2> QED  BY <2>3, <2>4
<1>4. \A j \in Qids : j # i => query'[j] = query[j]  BY <1>3 DEF Good, QueryType
<1>5. CASE /\ query' = [query EXCEPT ![i] = end]
           /\ regs' = regs /\ vals' = vals
  <2>1. /\ end \in Query /\ end.kind = q.kind /\ end.src = q.src
        /\ end.info = q.info /\ end.found = q.found /\ ~end.open
        /\ end.reg = q.reg /\ end.field = q.field /\ end.value = q.value
    BY <1>1, ClosedOK
  <2>2. query'[i] = end  BY <1>5 DEF Good, QueryType
  <2> HIDE DEF end
  <2>3. QueryType(query')  BY <1>5, <2>1 DEF Good, QueryType
  <2>4. QueryOK(end, disk)  BY <1>1, <2>1 DEF QueryOK
  <2>5. AsksOK(query', disk)
    BY <1>4, <2>2, <2>4 DEF Good, AsksOK
  <2>6. Owned(regs', query')
    <3>1. \A j \in Qids : /\ Holds(query', j) <=> Holds(query, j)
                          /\ Holds(query, j) => query'[j].reg = query[j].reg
      BY <1>1, <1>4, <2>1, <2>2, NullOK DEF Holds, NullOK
    <3> QED  BY <1>5, <3>1, OwnedSame DEF Good
  <2> QED  BY <1>2, <1>5, <2>3, <2>5, <2>6 DEF Good
<1>6. CASE /\ q.pos <= Len(file)
           /\ query' = [query EXCEPT ![i] = next]
           /\ IF hit THEN Callback(q, s) ELSE regs' = regs /\ vals' = vals
  <2>1. found \in BOOLEAN /\ last \in BOOLEAN
    BY <1>1 DEF Query
  <2>2. q.kind = "adduser" => last = hit /\ ~q.found
    BY <1>1 DEF StopsAtHit, QueryOK
  <2>3. q.kind # "adduser" => found = q.found  BY <1>1 DEF Query
  <2>4. q.kind = "adduser" => found = hit  BY <2>2
  <2> HIDE DEF found, last
  <2>5. /\ next \in Query /\ next.kind = q.kind /\ next.src = q.src
        /\ next.info = q.info /\ next.found = found /\ next.open = ~last
        /\ next.reg = q.reg /\ next.field = q.field /\ next.value = q.value
        /\ next.kept = q.kept /\ next.chan = q.chan
    <3> DEFINE n == q.pos + 1
               a == [q EXCEPT !.pos = n]
               b == [a EXCEPT !.found = found]
               d == [b EXCEPT !.open = ~last]
    <3>1. n \in Nat \ {0}
      <4>1. q.pos \in Nat  BY <1>1 DEF Query
      <4> QED  BY <4>1
    <3>2. next = d  OBVIOUS
    <3> HIDE DEF n, next
    <3>3. /\ a \in Query /\ a.kind = q.kind /\ a.src = q.src
          /\ a.info = q.info /\ a.reg = q.reg
          /\ a.field = q.field /\ a.value = q.value
          /\ a.kept = q.kept /\ a.chan = q.chan
      BY <1>1, <3>1 DEF Query
    <3> HIDE DEF a
    <3>4. /\ b \in Query /\ b.kind = q.kind /\ b.src = q.src
          /\ b.info = q.info /\ b.found = found /\ b.reg = q.reg
          /\ b.field = q.field /\ b.value = q.value
          /\ b.kept = q.kept /\ b.chan = q.chan
      BY <2>1, <3>3 DEF Query
    <3> HIDE DEF b
    <3> DEFINE o == ~last
    <3>5. o \in BOOLEAN /\ next = [b EXCEPT !.open = o]  BY <2>1, <3>2
    <3> HIDE DEF o
    <3>6. /\ next \in Query /\ next.kind = q.kind /\ next.src = q.src
          /\ next.info = q.info /\ next.found = found /\ next.open = o
          /\ next.reg = q.reg /\ next.field = q.field /\ next.value = q.value
          /\ next.kept = q.kept /\ next.chan = q.chan
      BY <3>4, <3>5 DEF Query
    <3> QED  BY <3>6 DEF o
  <2>6. query'[i] = next  BY <1>6 DEF Good, QueryType
  <2> HIDE DEF next
  <2>7. QueryType(query')  BY <1>6, <2>5 DEF Good, QueryType
  <2>8. QueryOK(next, disk)
    BY <1>1, <2>2, <2>4, <2>5 DEF QueryOK
  <2>9. AsksOK(query', disk)  BY <1>4, <2>6, <2>8 DEF Good, AsksOK
  <2>10. q.kind = "adduser" => Holds(query, i) /\ q.reg \in Pending(regs)
    BY <1>1, <2>2 DEF Holds, Good, Owned
  <2>11. CASE hit
    <3>1. s \in Slot
      <4>1. file \in File
        <5>1. q.chan \in Chan /\ q.kept \in File \cup {NULL}  BY <1>1 DEF Query
        <5>2. q.kept = NULL => disk[q.chan] # NULL  BY <1>1 DEF QueryOK
        <5> QED  BY <5>1, <5>2 DEF Good, DiskType
      <4>2. q.pos \in 1 .. Len(file)
        <5>1. q.pos \in Nat \ {0} /\ Len(file) \in Nat
          BY <1>1, <4>1, LenProperties DEF Query, File
        <5> QED  BY <1>6, <5>1
      <4>3. s \in Slot \cup {NULL}  BY <4>1, <4>2, ElementOfSeq DEF File
      <4> QED  BY <2>11, <4>3
    <3>2. Callback(q, s)  BY <1>6, <2>11
    <3> HIDE DEF s
    <3>3. /\ HeapOK(regs', vals')
          /\ Pending(regs') = IF q.kind = "adduser" THEN Pending(regs) \ {q.reg}
                              ELSE Pending(regs)
      <4> HIDE DEF q
      <4> QED  BY <1>1, <2>10, <3>1, <3>2, CallbackOK
    <3>4. Owned(regs', query')
      <4>1. CASE q.kind = "adduser"
        <5>1. ~Holds(query', i)  BY <2>4, <2>5, <2>6, <2>11, <4>1 DEF Holds
        <5>2. Pending(regs') = Pending(regs) \ {query[i].reg}  BY <3>3, <4>1
        <5> QED  BY <1>4, <2>10, <4>1, <5>1, <5>2, OwnedDrop DEF Good
      <4>2. CASE q.kind # "adduser"
        <5>1. \A j \in Qids : /\ Holds(query', j) <=> Holds(query, j)
                              /\ Holds(query, j) => query'[j].reg = query[j].reg
          BY <1>4, <2>5, <2>6, <4>2 DEF Holds
        <5>2. Pending(regs') = Pending(regs)  BY <3>3, <4>2
        <5> QED  BY <5>1, <5>2, OwnedSame DEF Good
      <4> QED  BY <4>1, <4>2
    <3> QED  BY <1>2, <2>7, <2>9, <3>3, <3>4 DEF Good
  <2>12. CASE ~hit
    <3>1. regs' = regs /\ vals' = vals  BY <1>6, <2>12
    <3>2. Holds(query', i) <=> Holds(query, i)
      BY <1>1, <2>2, <2>4, <2>5, <2>6, <2>12, NullOK DEF Holds, NullOK
    <3>3. \A j \in Qids : /\ Holds(query', j) <=> Holds(query, j)
                          /\ Holds(query, j) => query'[j].reg = query[j].reg
      BY <1>4, <2>5, <2>6, <3>2 DEF Holds
    <3>4. Owned(regs', query')  BY <3>1, <3>3, OwnedSame DEF Good
    <3> QED  BY <1>2, <2>7, <2>9, <3>1, <3>4 DEF Good
  <2> QED  BY <2>11, <2>12
<1> QED  BY <1>3, <1>5, <1>6

(* The end of a query gives a record that is still held to the table.      *)
LEMMA EndStep ==
  ASSUME Good(regs, vals, query, disk), NEW i \in Qids, end_db_read(i)
  PROVE  Good(regs', vals', query', disk')
<1>1. /\ query[i] # NULL /\ query' = [query EXCEPT ![i] = NULL]
      /\ vals' = vals /\ disk' = disk
      /\ regs' = IF Holds(query, i) THEN Insert(regs, query[i].reg) ELSE regs
  BY DEF end_db_read, Holds
<1>2. QueryType(query') /\ AsksOK(query', disk')
  BY <1>1 DEF Good, QueryType, AsksOK
<1>3. ~Holds(query', i) /\ \A j \in Qids : j # i => query'[j] = query[j]
  BY <1>1 DEF Good, QueryType, Holds
<1>4. CASE Holds(query, i)
  <2> DEFINE r == query[i].reg
  <2>1. r \in Pending(regs)  BY <1>4 DEF Good, Owned
  <2>2. r \in Regs /\ regs[r] # NULL  BY <2>1 DEF Pending
  <2>3. HeapOK(regs', vals') /\ Pending(regs') = Pending(regs) \ {r}
    BY <1>1, <1>4, <2>2, InsertOK DEF Good
  <2>4. Owned(regs', query')  BY <1>3, <1>4, <2>3, OwnedDrop DEF Good
  <2> QED  BY <1>1, <1>2, <2>3, <2>4 DEF Good
<1>5. CASE ~Holds(query, i)
  <2>1. regs' = regs  BY <1>1, <1>5
  <2>2. \A j \in Qids : /\ Holds(query', j) <=> Holds(query, j)
                        /\ Holds(query, j) => query'[j].reg = query[j].reg
    BY <1>3, <1>5 DEF Holds
  <2>3. Owned(regs', query')  BY <2>1, <2>2, OwnedSame DEF Good
  <2> QED  BY <1>1, <1>2, <2>1, <2>3 DEF Good
<1> QED  BY <1>4, <1>5

-----------------------------------------------------------------------------
(* The write-back pass *)

(* The pass stays on the hash table.                                       *)
LEMMA NextBucketOK ==
  ASSUME saving \in -1 .. NBuckets - 1
  PROVE  NextBucket \in -1 .. NBuckets - 1
<1>1. NBuckets \in Nat \ {0}  BY ConstantsOK DEF ConstantsOK
<1> QED  BY <1>1 DEF NextBucket

(* A dirty record of the pass is written: it is a channel's.               *)
LEMMA SyncSave ==
  ASSUME Good(regs, vals, query, disk), NEW r \in Listed(regs),
         NeedsSave(regs[r]), NEW off \in SlotFor(regs[r]), ColdSave(regs[r], off)
  PROVE  /\ Like(Saved(regs, r, off), regs)
         /\ DiskType(disk') /\ AsksOK(query, disk')
<1>1. r \in Regs /\ regs[r] # NULL /\ regs[r] \in RegUser /\ WellFormed(regs[r])
  BY DEF Listed, Good, HeapOK, HeapType, Shapes
<1>2. regs[r].channel \in Chan
  BY <1>1 DEF NeedsSave, WellFormed, RegUser, AllChan, MASTER_ACCESS
<1>3. off \in Nat
  <2>1. off \in Nat \ {0}  BY <1>1, <1>2, SlotForOK DEF Good, RegUser
  <2> QED  BY <2>1
<1>4. Like(Saved(regs, r, off), regs)  BY <1>1, <1>3, SavedLike DEF Good
<1>5. DiskType(disk') /\ AsksOK(query, disk')
  BY <1>1, <1>2, ColdSaveOK DEF Good
<1> QED  BY <1>4, <1>5

(* A record of the pass is dropped, if nobody uses it.                     *)
LEMMA EvictOK ==
  ASSUME NEW f, HeapOK(f, vals), NEW r \in Listed(f), f[r].inuse = 0
  PROVE  /\ HeapOK(Unlinked(f, r), vals) /\ Pending(Unlinked(f, r)) = Pending(f)
         /\ Listed(Unlinked(f, r)) = Listed(f) \ {r}
<1>1. r \in Regs /\ r \notin Pending(f)  BY DEF Listed, Pending
<1>2. Refs(vals, r) = {}  BY ZeroRefs
<1>3. /\ HeapOK(Unlinked(f, r), vals)
      /\ Pending(Unlinked(f, r)) = Pending(f) \ {r}
      /\ Listed(Unlinked(f, r)) = Listed(f) \ {r}
  BY <1>1, <1>2, FreeOK
<1> QED  BY <1>1, <1>3

(* One record of a pass: written, then freed only if nobody is logged in.  *)
LEMMA SyncOneStep ==
  ASSUME Good(regs, vals, query, disk), Rest, SyncOne
  PROVE  Good(regs', vals', query', disk') /\ Rest'
<1>1. PICK r \in First(regs, cursor), expired \in BOOLEAN :
       LET reg == regs[r]
           Evict(f) == IF Evictable(reg, expired) THEN Unlinked(f, r) ELSE f
       IN  /\ IF NeedsSave(reg)
              THEN \E off \in SlotFor(reg) :
                     ColdSave(reg, off) /\ regs' = Evict(Saved(regs, r, off))
              ELSE regs' = Evict(regs) /\ UNCHANGED disk
           /\ cursor' = cursor \ {r}
  BY DEF SyncOne
<1> DEFINE reg == regs[r]
           Evict(f) == IF Evictable(reg, expired) THEN Unlinked(f, r) ELSE f
<1>2. r \in cursor /\ cursor \subseteq Listed(regs) /\ r \in Listed(regs)
  BY DEF First, Rest, CursorOK
<1>3. vals' = vals /\ query' = query /\ online' = online  BY DEF SyncOne
<1>4. cursor' = cursor \ {r}  BY <1>1
<1>5. PICK f : /\ Like(f, regs) /\ regs' = Evict(f)
               /\ DiskType(disk') /\ AsksOK(query, disk')
  <2>1. CASE NeedsSave(reg)
    <3>1. PICK off \in SlotFor(reg) :
                 ColdSave(reg, off) /\ regs' = Evict(Saved(regs, r, off))
      BY <1>1, <2>1
    <3>2. /\ Like(Saved(regs, r, off), regs)
          /\ DiskType(disk') /\ AsksOK(query, disk')
      BY <1>2, <2>1, <3>1, SyncSave
    <3> QED  BY <3>1, <3>2
  <2>2. CASE ~NeedsSave(reg)
    <3>1. regs' = Evict(regs) /\ disk' = disk  BY <1>1, <2>2
    <3>2. Like(regs, regs)  BY DEF Like, Good, HeapOK, HeapType
    <3> QED  BY <3>1, <3>2 DEF Good
  <2> QED  BY <2>1, <2>2
<1>6. /\ HeapOK(f, vals) /\ Pending(f) = Pending(regs)
      /\ Listed(f) = Listed(regs)
  BY <1>5, LikeOK DEF Good
<1>7. /\ HeapOK(regs', vals) /\ Pending(regs') = Pending(regs)
      /\ Listed(regs) \ {r} \subseteq Listed(regs')
  <2>1. CASE Evictable(reg, expired)
    <3>1. f[r].inuse = 0
      BY <1>2, <1>5, <2>1 DEF Evictable, Like, Listed
    <3>2. regs' = Unlinked(f, r)  BY <1>5, <2>1
    <3> QED  BY <1>2, <1>6, <3>1, <3>2, EvictOK
  <2>2. CASE ~Evictable(reg, expired)
    <3>1. regs' = f  BY <1>5, <2>2
    <3> QED  BY <1>6, <3>1
  <2> QED  BY <2>1, <2>2
<1>8. Owned(regs', query')  BY <1>3, <1>7, OwnedSame DEF Good
<1>9. Good(regs', vals', query', disk')  BY <1>3, <1>5, <1>7, <1>8 DEF Good
<1>10. /\ sync' \in {"idle", "slice", "quit"} /\ saving' \in -1 .. NBuckets - 1
       /\ sync' = "idle" => cursor' = {}
  <2>1. NextBucket \in -1 .. NBuckets - 1  BY NextBucketOK DEF Rest
  <2>2. CASE cursor' = {} /\ sync = "slice"
    BY <2>1, <2>2 DEF SyncOne
  <2>3. CASE ~(cursor' = {} /\ sync = "slice")
    <3>1. sync' = sync /\ saving' = saving /\ sync # "idle"
      BY <2>3 DEF SyncOne
    <3> QED  BY <3>1 DEF Rest
  <2> QED  BY <2>2, <2>3
<1>11. cursor' \subseteq Listed(regs')  BY <1>2, <1>4, <1>7
<1>12. Rest'  BY <1>3, <1>10, <1>11 DEF Rest, CursorOK
<1> QED  BY <1>9, <1>12

-----------------------------------------------------------------------------
(* A process starts *)

(* The master record is well formed and in the table.                      *)
LEMMA MasterOK ==
  /\ MasterReg \in RegUser /\ WellFormed(MasterReg)
  /\ MasterReg.inuse = 0 /\ MasterReg.listed /\ MasterReg # NULL
<1>1. MasterReg \in RegUser  BY DEF MasterReg, RegUser, AllChan, MASTER_ACCESS
<1>2. WellFormed(MasterReg)  BY DEF MasterReg, WellFormed
<1>3. MasterReg.inuse = 0 /\ MasterReg.listed  BY DEF MasterReg
<1> QED  BY <1>1, <1>2, <1>3, NullOK DEF NullOK

(* A new process has a right heap, whatever the files hold.                *)
LEMMA FreshHeap ==
  ASSUME NEW d, DiskType(d)
  PROVE  LET f == [r \in Regs |-> IF r = Master THEN MasterReg ELSE NULL]
             g == [v \in Vals |-> NULL]
             q == [i \in Qids |-> NULL]
         IN  Good(f, g, q, d)
<1> DEFINE f == [r \in Regs |-> IF r = Master THEN MasterReg ELSE NULL]
           g == [v \in Vals |-> NULL]
           q == [i \in Qids |-> NULL]
<1>1. \A r \in Regs : f[r] # NULL =>
        f[r] = MasterReg /\ f[r].inuse = 0 /\ f[r].listed
  BY MasterOK
<1>2. HeapType(f, g)  BY MasterOK DEF HeapType
<1>3. Counts(f, g)
  <2>1. \A r \in Regs : Refs(g, r) = {}  BY DEF Refs
  <2> QED  BY <1>1, <2>1, FS_EmptySet DEF Counts
<1>4. Points(f, g)  BY DEF Points
<1>5. Shapes(f)  BY <1>1, MasterOK DEF Shapes
<1>6. QueryType(q) /\ AsksOK(q, d)  BY DEF QueryType, AsksOK
<1>7. Owned(f, q)
  <2>1. Pending(f) = {}  BY <1>1 DEF Pending
  <2>2. \A i \in Qids : ~Holds(q, i)  BY DEF Holds
  <2> QED  BY <2>1, <2>2 DEF Owned
<1> QED  BY <1>2, <1>3, <1>4, <1>5, <1>6, <1>7 DEF Good, HeapOK

(* So has one that follows a restart, a crash or an exit.                  *)
LEMMA BootStep ==
  ASSUME Good(regs, vals, query, disk), Rest, Boot
  PROVE  Good(regs', vals', query', disk') /\ Rest'
<1>1. Good(regs', vals', query', disk')  BY FreshHeap DEF Boot, Good
<1>2. NBuckets \in Nat \ {0}  BY ConstantsOK DEF ConstantsOK
<1>3. Rest'  BY <1>2 DEF Boot, Rest, CursorOK
<1> QED  BY <1>1, <1>3

-----------------------------------------------------------------------------
(* The theorems *)

(* IInv holds when the process starts for the first time.                  *)
THEOREM InitIInv == Init => IInv
<1> SUFFICES ASSUME Init PROVE IInv
  OBVIOUS
<1>1. DiskType(disk)  BY FilesOK DEF Init, DiskType, FilesOK
<1>2. Good(regs, vals, query, disk)  BY <1>1, FreshHeap DEF Init
<1>3. NBuckets \in Nat \ {0}  BY ConstantsOK DEF ConstantsOK
<1>4. Rest  BY <1>3 DEF Init, Rest, CursorOK
<1> QED  BY <1>2, <1>4, IInvWhole

(* Every operation of the program keeps IInv.                              *)
THEOREM NextIInv == IInv /\ [Next]_vars => IInv'
<1> SUFFICES ASSUME IInv, [Next]_vars PROVE IInv'
  OBVIOUS
<1>1. Good(regs, vals, query, disk) /\ Rest  BY IInvParts
<1>2. ASSUME Good(regs', vals', query', disk'), Rest' PROVE IInv'
  <2>1. TypeOK'
    BY <1>2 DEF Good, Rest, HeapOK, HeapType, QueryType, DiskType, TypeOK,
                CursorOK, Listed
  <2>2. RefCount' /\ NoDangling' /\ RecordsOK'
    BY <1>2 DEF Good, HeapOK, Counts, Points, Shapes,
                RefCount, NoDangling, RecordsOK
  <2>3. HookOwned'
    BY <1>2, OwnedHook DEF Good, HeapOK, HeapType, HookOwned, Holding, Holds
  <2>4. QueriesOK'  BY <1>2 DEF Good, QueriesOK, AsksOK, QueryOK
  <2> QED  BY <1>2, <2>1, <2>2, <2>3, <2>4 DEF IInv, Rest
<1>3. ASSUME sync = "idle", UNCHANGED syncVars,
             online' \in [Users -> Hosts \cup {NULL}]
      PROVE  Rest'
  <2>1. cursor' = {} /\ saving' = saving /\ sync' = sync
    BY <1>1, <1>3 DEF Rest, CursorOK, syncVars
  <2> QED  BY <1>1, <1>3, <2>1 DEF Rest, CursorOK
<1>4. online \in [Users -> Hosts \cup {NULL}]  BY <1>1 DEF Rest
<1>5. CASE sync = "idle" /\ Logins
  <2>1. PICK u \in Users :
          \/ \E c \in AllChan, pw \in Tries : validate(u, c, pw)
          \/ \E c \in AllChan : DeAuth(u, c)
          \/ \E c \in Chan : try_find(u, c)
          \/ \E h \in Hosts : onnick(u, h)
          \/ onquit(u)
    BY <1>5 DEF Logins
  <2>2. CASE \E c \in AllChan, pw \in Tries : validate(u, c, pw)
    <3>1. PICK c \in AllChan, pw \in Tries : validate(u, c, pw)  BY <2>2
    <3>2. Good(regs', vals', query', disk')  BY <1>1, <3>1, ValidateStep
    <3>3. UNCHANGED syncVars /\ online' = online
      BY <3>1 DEF validate, syncVars
    <3> QED  BY <1>2, <1>3, <1>4, <1>5, <3>2, <3>3
  <2>3. CASE \E c \in AllChan : DeAuth(u, c)
    <3>1. PICK c \in AllChan : DeAuth(u, c)  BY <2>3
    <3>2. Good(regs', vals', query', disk')  BY <1>1, <3>1, DeAuthStep
    <3>3. UNCHANGED syncVars /\ online' = online  BY <3>1 DEF DeAuth, syncVars
    <3> QED  BY <1>2, <1>3, <1>4, <1>5, <3>2, <3>3
  <2>4. CASE \E c \in Chan : try_find(u, c)
    <3>1. PICK c \in Chan : try_find(u, c)  BY <2>4
    <3>2. Good(regs', vals', query', disk')  BY <1>1, <3>1, TryFindStep
    <3>3. UNCHANGED syncVars /\ online' = online
      BY <3>1 DEF try_find, syncVars
    <3> QED  BY <1>2, <1>3, <1>4, <1>5, <3>2, <3>3
  <2>5. CASE \E h \in Hosts : onnick(u, h)
    <3>1. PICK h \in Hosts : onnick(u, h)  BY <2>5
    <3>2. Good(regs', vals', query', disk')  BY <1>1, <3>1 DEF onnick
    <3>3. UNCHANGED syncVars /\ online' = [online EXCEPT ![u] = h]
      BY <3>1 DEF onnick, syncVars
    <3>4. online' \in [Users -> Hosts \cup {NULL}]  BY <1>4, <3>3
    <3> QED  BY <1>2, <1>3, <1>5, <3>2, <3>3, <3>4
  <2>6. CASE onquit(u)
    <3>1. Good(regs', vals', query', disk')  BY <1>1, <2>6, OnquitStep
    <3>2. UNCHANGED syncVars /\ online' = [online EXCEPT ![u] = NULL]
      BY <2>6 DEF onquit, syncVars
    <3>3. online' \in [Users -> Hosts \cup {NULL}]  BY <1>4, <3>2
    <3> QED  BY <1>2, <1>3, <1>5, <3>1, <3>2, <3>3
  <2> QED  BY <2>1, <2>2, <2>3, <2>4, <2>5, <2>6
<1>6. CASE sync = "idle" /\ Commands
  <2>1. PICK u \in Users, c \in Chan :
          \/ \E n \in Names, m \in Masks, acc \in GrantLevels, pw \in Pws :
               AddUser(u, c, n, m, acc, pw)
          \/ \E t \in Names \cup Masks : RemoveUser(u, c, t)
          \/ \E field \in Fields, t \in Names \cup Masks :
               \E value \in Values(field) : ModUserInfo(u, c, field, t, value)
          \/ \E pw \in Pws : ChPass(u, c, pw)
          \/ purge(u, c)
          \/ \E n \in Names, m \in Masks, pw \in Pws : RegChan(u, c, n, m, pw)
    BY <1>6 DEF Commands
  <2>2. /\ Good(regs', vals', query', disk')
        /\ UNCHANGED syncVars /\ online' = online
    <3>1. CASE \E n \in Names, m \in Masks, acc \in GrantLevels, pw \in Pws :
                 AddUser(u, c, n, m, acc, pw)
      <4>1. PICK n \in Names, m \in Masks, acc \in GrantLevels, pw \in Pws :
                   AddUser(u, c, n, m, acc, pw)
        BY <3>1
      <4>2. Good(regs', vals', query', disk')  BY <1>1, <4>1, AddUserStep
      <4> QED  BY <4>1, <4>2 DEF AddUser, syncVars
    <3>2. CASE \E t \in Names \cup Masks : RemoveUser(u, c, t)
      <4>1. PICK t \in Names \cup Masks : RemoveUser(u, c, t)  BY <3>2
      <4>2. Good(regs', vals', query', disk')  BY <1>1, <4>1, RemoveUserStep
      <4> QED  BY <4>1, <4>2 DEF RemoveUser, syncVars
    <3>3. CASE \E field \in Fields, t \in Names \cup Masks :
                 \E value \in Values(field) : ModUserInfo(u, c, field, t, value)
      <4>1. PICK field \in Fields, t \in Names \cup Masks :
                 \E value \in Values(field) : ModUserInfo(u, c, field, t, value)
        BY <3>3
      <4>2. PICK value \in Values(field) : ModUserInfo(u, c, field, t, value)
        BY <4>1
      <4>3. Good(regs', vals', query', disk')  BY <1>1, <4>2, ModUserInfoStep
      <4> QED  BY <4>2, <4>3 DEF ModUserInfo, syncVars
    <3>4. CASE \E pw \in Pws : ChPass(u, c, pw)
      <4>1. PICK pw \in Pws : ChPass(u, c, pw)  BY <3>4
      <4>2. Good(regs', vals', query', disk')  BY <1>1, <4>1, ChPassStep
      <4> QED  BY <4>1, <4>2 DEF ChPass, syncVars
    <3>5. CASE purge(u, c)
      <4>1. Good(regs', vals', query', disk')  BY <1>1, <3>5, PurgeStep
      <4> QED  BY <3>5, <4>1 DEF purge, syncVars
    <3>6. CASE \E n \in Names, m \in Masks, pw \in Pws : RegChan(u, c, n, m, pw)
      <4>1. PICK n \in Names, m \in Masks, pw \in Pws : RegChan(u, c, n, m, pw)
        BY <3>6
      <4>2. Good(regs', vals', query', disk')  BY <1>1, <4>1, RegChanStep
      <4> QED  BY <4>1, <4>2 DEF RegChan, syncVars
    <3> QED  BY <2>1, <3>1, <3>2, <3>3, <3>4, <3>5, <3>6
  <2> QED  BY <1>2, <1>3, <1>4, <1>6, <2>2
<1>7. CASE sync = "idle" /\ Suspensions
  <2>1. CASE \E u \in Users \cup {Server}, c \in Chan, t \in Names \cup Masks,
                on \in Durations : suspend(u, c, t, on)
    <3>1. PICK u \in Users \cup {Server}, c \in Chan, t \in Names \cup Masks,
               on \in Durations : suspend(u, c, t, on)
      BY <2>1
    <3>2. Good(regs', vals', query', disk')  BY <1>1, <3>1, SuspendStep
    <3>3. UNCHANGED syncVars /\ online' = online  BY <3>1 DEF suspend, syncVars
    <3> QED  BY <1>2, <1>3, <1>4, <1>7, <3>2, <3>3
  <2>2. CASE SuspensionsExpire
    <3>1. Good(regs', vals', query', disk')
      BY <1>1, <2>2, SuspensionsExpireStep
    <3>2. UNCHANGED syncVars /\ online' = online
      BY <2>2 DEF SuspensionsExpire, syncVars
    <3> QED  BY <1>2, <1>3, <1>4, <1>7, <3>1, <3>2
  <2> QED  BY <1>7, <2>1, <2>2 DEF Suspensions
<1>8. CASE \E i \in Qids : QueryStep(i)
  <2>1. PICK i \in Qids : QueryStep(i)  BY <1>8
  <2>2. CASE read_db(i)
    <3>1. Good(regs', vals', query', disk')  BY <1>1, <2>2, ReadStep, SMTT(30)
    <3>2. sync = "idle" /\ UNCHANGED syncVars /\ online' = online
      BY <2>1, <2>2 DEF read_db, syncVars, QueryStep
    <3> QED  BY <1>2, <1>3, <1>4, <3>1, <3>2
  <2>3. CASE end_db_read(i)
    <3>1. Good(regs', vals', query', disk')  BY <1>1, <2>3, EndStep
    <3>2. sync = "idle" /\ UNCHANGED syncVars /\ online' = online
      BY <2>1, <2>3 DEF end_db_read, syncVars, QueryStep
    <3> QED  BY <1>2, <1>3, <1>4, <3>1, <3>2
  <2> QED  BY <2>1, <2>2, <2>3 DEF QueryStep
<1>9. CASE SaveTimer
  <2>1. Good(regs', vals', query', disk')
    BY <1>1, <1>9 DEF SaveTimer, SaveUserList
  <2>2. NBuckets \in Nat \ {0}  BY ConstantsOK DEF ConstantsOK
  <2>3. Rest'
    BY <1>1, <1>9, <2>2 DEF SaveTimer, SaveUserList, Rest, CursorOK
  <2> QED  BY <1>2, <2>1, <2>3
<1>10. CASE SaveSlice
  <2>1. Good(regs', vals', query', disk')
    BY <1>1, <1>10 DEF SaveSlice, do_cold_sync_slice
  <2>2. Rest'
    <3>1. NextBucket \in -1 .. NBuckets - 1  BY <1>1, NextBucketOK DEF Rest
    <3>2. regs' = regs /\ online' = online /\ sync = "idle"
      BY <1>10 DEF SaveSlice, do_cold_sync_slice
    <3>3. \/ saving' = NextBucket /\ sync' = sync /\ cursor' = cursor
          \/ saving' = saving /\ sync' = "slice" /\ cursor' = InBucket(saving)
      BY <1>10 DEF SaveSlice, do_cold_sync_slice
    <3>4. InBucket(saving) \subseteq Listed(regs)  BY DEF InBucket
    <3> QED  BY <1>1, <3>1, <3>2, <3>3, <3>4 DEF Rest, CursorOK
  <2> QED  BY <1>2, <2>1, <2>2
<1>11. CASE SyncOne
  BY <1>1, <1>2, <1>11, SyncOneStep
<1>12. CASE sync = "idle" /\ quit
  <2>1. Good(regs', vals', query', disk')  BY <1>1, <1>12 DEF quit
  <2>2. Rest'  BY <1>1, <1>12 DEF quit, Rest, CursorOK
  <2> QED  BY <1>2, <2>1, <2>2
<1>13. CASE Exit \/ restart \/ Crash
  <2>1. Boot  BY <1>13 DEF Exit, restart, Crash
  <2> QED  BY <1>1, <1>2, <2>1, BootStep
<1>14. CASE UNCHANGED vars
  <2>1. Good(regs', vals', query', disk')  BY <1>1, <1>14 DEF vars
  <2>2. Rest'  BY <1>1, <1>14 DEF vars, Rest, CursorOK, Listed
  <2> QED  BY <1>2, <2>1, <2>2
<1> QED
  BY <1>5, <1>6, <1>7, <1>8, <1>9, <1>10, <1>11, <1>12, <1>13, <1>14 DEF Next

(* IInv holds in every reachable state, however logins, commands, queries,  *)
(* passes, restarts and crashes are interleaved.                           *)
THEOREM Invariance == Spec => []IInv
<1>1. Init => IInv  BY InitIInv
<1>2. IInv /\ [Next]_vars => IInv'  BY NextIInv
<1> QED  BY <1>1, <1>2, PTL DEF Spec

(* Every cell, file, query and counter stays of its type.                  *)
THEOREM TypeCorrect == Spec => []TypeOK
<1>1. IInv => TypeOK  BY DEF IInv
<1> QED  BY <1>1, Invariance, PTL

(* inuse is always the number of logins made through a record.             *)
THEOREM RefCountCorrect == Spec => []RefCount
<1>1. IInv => RefCount  BY DEF IInv
<1> QED  BY <1>1, Invariance, PTL

(* No login ever points to a record that was freed.                        *)
THEOREM NeverDangling == Spec => []NoDangling
<1>1. IInv => NoDangling  BY DEF IInv
<1> QED  BY <1>1, Invariance, PTL

(* A record that waits for the answer of adduser's query is never lost,    *)
(* listed twice or freed twice.                                            *)
THEOREM HookNeverShared == Spec => []HookOwned
<1>1. IInv => HookOwned  BY DEF IInv
<1> QED  BY <1>1, Invariance, PTL
=============================================================================
