---------------------------- MODULE Cache_proofs ----------------------------
(***************************************************************************)
(* The cache of UserDB as its clients see it.  CacheInv says how a record  *)
(* in memory and the slot it stands for are related, for every channel no  *)
(* admin may purge, however queries, commands, passes, restarts and        *)
(* crashes are interleaved; SlotOwner and CleanIsSaved follow.             *)
(*                                                                         *)
(* A step changes the heap f in one of a few ways: it uses records         *)
(* (SameHeap), edits one (EditHeap), copies one from a slot (LoadHeap),    *)
(* makes, lists or frees one.  One lemma per way and per invariant.        *)
(***************************************************************************)
EXTENDS UserDB_proofs

\* Channels whose file is never unlinked.
Kept == Chan \ Purgeable

\* Slots in use.
Used(d, c) == {k \in DOMAIN d[c] : d[c][k] # NULL}

\* A record of the table and its slot.
CellOK(x, d) ==
  /\ x.offset # 0 => x.offset \in Used(d, x.channel)
  /\ x.offset # 0 /\ x.realname # Del =>
       d[x.channel][x.offset].realname = x.realname
  /\ ~x.modified /\ x.access > 0 =>
       x.offset # 0 /\ EntryOf(d[x.channel][x.offset]) = EntryOf(x)
  /\ ~x.modified /\ x.access = 0 => x.offset = 0

\* No two records of a channel stand for one slot.
OwnSlots(f) ==
  \A r, x \in Listed(f) :
    /\ f[r].channel \in Kept /\ f[r].channel = f[x].channel
    /\ f[r].offset = f[x].offset /\ f[r].offset # 0
    => r = x

Cached(f, d) ==
  /\ \A c \in Kept : d[c] # NULL
  /\ \A r \in Pending(f) : f[r].offset = 0 /\ f[r].modified
  /\ \A r \in Listed(f) : f[r].channel = Star => f[r].offset = 0
  /\ \A r \in Listed(f) : f[r].channel \in Kept => CellOK(f[r], d)
  /\ OwnSlots(f)

\* Such a file is not unlinked under a query.
QueriesKept ==
  \A i \in Qids : query[i] # NULL /\ query[i].chan \in Kept => query[i].kept = NULL

\* Channels the running pass is for.
InPass(c) == sync = "quit" \/ (sync = "slice" /\ Bucket[c] = saving)

\* What the running pass has come by is saved.
PassOK ==
  /\ sync = "slice" => cursor \subseteq InBucket(saving)
  /\ \A r \in Listed(regs) \ cursor :
       regs[r].channel \in Kept /\ InPass(regs[r].channel) => ~regs[r].modified

\* The inductive invariant, on top of IInv.
CacheInv == Cached(regs, disk) /\ QueriesKept /\ PassOK

-----------------------------------------------------------------------------
(* The ways a heap changes *)

\* Record b stands for what a does.
Looks(a, b) ==
  /\ b.channel = a.channel /\ b.offset = a.offset
  /\ b.realname = a.realname /\ b.match = a.match
  /\ b.access = a.access /\ b.suspend = a.suspend

Same(a, b) == Looks(a, b) /\ b.listed = a.listed /\ (a.modified => b.modified)

SameAt(f2, f, x) ==
  /\ f2[x] = NULL <=> f[x] = NULL
  /\ f[x] # NULL => Same(f[x], f2[x])

SameHeap(f2, f) == \A x \in Regs : SameAt(f2, f, x)
Others(f2, f, r) == \A x \in Regs \ {r} : SameAt(f2, f, x)

\* A command changed record a to b: its mask, its level or its suspension, or
\* it deleted the record.
Rewritten(a, b) ==
  /\ b.modified /\ b.realname = a.realname
  /\ \/ b.match \in Masks /\ b.access = a.access /\ b.suspend = a.suspend
     \/ /\ b.access \in GrantLevels \cup {0}
        /\ b.match = a.match /\ b.suspend = a.suspend
     \/ b.suspend \in BOOLEAN /\ b.match = a.match /\ b.access = a.access
Deleted(b) ==
  b.realname = Del /\ b.access = 0 /\ (b.offset # 0 => b.modified)

EditHeap(f2, f, r) ==
  /\ r \in Listed(f) /\ f[r].channel \in Chan /\ f2[r] # NULL /\ f2[r].listed
  /\ f2[r].channel = f[r].channel /\ f2[r].offset = f[r].offset
  /\ Rewritten(f[r], f2[r]) \/ Deleted(f2[r])
  /\ Others(f2, f, r)

\* Slot k of channel c, which holds s and which no record stood for, was copied.
LoadHeap(f2, f, r, c, k, s) ==
  /\ \A x \in Listed(f) : f[x].channel = c => f[x].offset # k
  /\ r \in Regs /\ f[r] = NULL /\ f2[r] # NULL
  /\ f2[r].listed /\ ~f2[r].modified
  /\ f2[r].channel = c /\ f2[r].offset = k
  /\ f2[r].realname = s.realname /\ f2[r].match = s.match
  /\ f2[r].access = s.access /\ f2[r].suspend = s.suspend
  /\ Others(f2, f, r)

\* A new record, not in the table yet.
NewHeap(f2, f, r, c, n, acc) ==
  /\ r \in Regs /\ f[r] = NULL /\ f2[r] # NULL
  /\ ~f2[r].listed /\ f2[r].modified
  /\ f2[r].channel = c /\ f2[r].offset = 0
  /\ f2[r].realname = n /\ f2[r].access = acc
  /\ Others(f2, f, r)

ListHeap(f2, f, r) ==
  /\ r \in Regs /\ f[r] # NULL /\ f2[r] # NULL
  /\ f2[r].listed /\ Looks(f[r], f2[r]) /\ f2[r].modified = f[r].modified
  /\ Others(f2, f, r)

FreeHeap(f2, f, r) == r \in Regs /\ f2[r] = NULL /\ Others(f2, f, r)

-----------------------------------------------------------------------------
(* The program's operations change the heap in these ways *)

LEMMA SameSelf == \A a : Same(a, a)
BY DEF Same, Looks

LEMMA SameHeapSelf == \A f : SameHeap(f, f)
BY SameSelf DEF SameHeap, SameAt

(* The table of two heaps alike but for one record.                        *)
LEMMA OthersListed ==
  ASSUME NEW f, NEW f2, NEW r \in Regs, Others(f2, f, r)
  PROVE  \A x \in Regs : x # r =>
           /\ x \in Listed(f2) <=> x \in Listed(f)
           /\ x \in Pending(f2) <=> x \in Pending(f)
BY DEF Others, SameAt, Same, Listed, Pending

LEMMA SameListed ==
  ASSUME NEW f, NEW f2, SameHeap(f2, f)
  PROVE  Listed(f2) = Listed(f) /\ Pending(f2) = Pending(f)
BY DEF SameHeap, SameAt, Same, Listed, Pending

(* One record is put in the place of another.                              *)
LEMMA PutOthers ==
  ASSUME NEW f \in [Regs -> RegUser \cup {NULL}], NEW r \in Regs, NEW reg
  PROVE  /\ [f EXCEPT ![r] = reg][r] = reg
         /\ Others([f EXCEPT ![r] = reg], f, r)
<1> DEFINE f2 == [f EXCEPT ![r] = reg]
<1>1. f2[r] = reg /\ \A x \in Regs \ {r} : f2[x] = f[x]  OBVIOUS
<1> HIDE DEF f2
<1>2. Others(f2, f, r)  BY <1>1, SameSelf DEF Others, SameAt
<1> QED  BY <1>1, <1>2 DEF f2

LEMMA PutSame ==
  ASSUME NEW f \in [Regs -> RegUser \cup {NULL}], NEW r \in Regs, f[r] # NULL,
         NEW reg \in RegUser, Same(f[r], reg)
  PROVE  SameHeap([f EXCEPT ![r] = reg], f)
<1> DEFINE f2 == [f EXCEPT ![r] = reg]
<1>1. f2[r] = reg /\ Others(f2, f, r)  BY PutOthers
<1> HIDE DEF f2
<1>2. reg # NULL  BY NullOK DEF NullOK
<1>3. SameAt(f2, f, r)  BY <1>1, <1>2 DEF SameAt
<1>4. SameHeap(f2, f)  BY <1>1, <1>3 DEF SameHeap, Others
<1> QED  BY <1>4 DEF f2

(* A record of the table, typed.                                           *)
LEMMA ListedOK ==
  ASSUME NEW f, NEW g, HeapOK(f, g), NEW r \in Listed(f)
  PROVE  /\ f \in [Regs -> RegUser \cup {NULL}] /\ r \in Regs /\ f[r] # NULL
         /\ f[r] \in RegUser /\ WellFormed(f[r]) /\ f[r].listed
BY DEF HeapOK, HeapType, Shapes, Listed

(* A login holds the record it is made through.                            *)
LEMMA HeldSame ==
  ASSUME NEW f, NEW g, HeapOK(f, g), NEW r \in Listed(f)
  PROVE  SameHeap(Held(f, r), f)
<1>1. /\ f \in [Regs -> RegUser \cup {NULL}] /\ r \in Regs /\ f[r] # NULL
      /\ f[r] \in RegUser
  BY ListedOK
<1> DEFINE a == [f[r] EXCEPT !.inuse = @ + 1]
           e == [a EXCEPT !.modified = TRUE]
<1>2. Held(f, r) = [f EXCEPT ![r] = e]  BY <1>1 DEF Held
<1>3. f[r].inuse + 1 \in Int  BY <1>1 DEF RegUser
<1>4. a \in RegUser /\ Same(f[r], a)  BY <1>1, <1>3 DEF RegUser, Same, Looks
<1> HIDE DEF a
<1>5. e \in RegUser /\ Same(f[r], e)  BY <1>4 DEF RegUser, Same, Looks
<1> HIDE DEF e
<1> QED  BY <1>1, <1>2, <1>5, PutSame

LEMMA LogoutSame ==
  ASSUME NEW f, NEW g, HeapOK(f, g), NEW r \in Listed(f)
  PROVE  SameHeap([f EXCEPT ![r].inuse = @ - 1], f)
<1>1. /\ f \in [Regs -> RegUser \cup {NULL}] /\ r \in Regs /\ f[r] # NULL
      /\ f[r] \in RegUser
  BY ListedOK
<1> DEFINE a == [f[r] EXCEPT !.inuse = @ - 1]
<1>2. [f EXCEPT ![r].inuse = @ - 1] = [f EXCEPT ![r] = a]  BY <1>1
<1>3. f[r].inuse - 1 \in Int  BY <1>1 DEF RegUser
<1>4. a \in RegUser /\ Same(f[r], a)  BY <1>1, <1>3 DEF RegUser, Same, Looks
<1> HIDE DEF a
<1> QED  BY <1>1, <1>2, <1>4, PutSame

(* Dropping a login only changes the count of its record.                  *)
LEMMA ReleasedSame ==
  ASSUME HeapOK(regs, vals), NEW u, NEW c, NEW z \in Released(u, c)
  PROVE  SameHeap(z[1], regs)
<1>1. CASE LinkTo(vals, u, c) = {}
  BY <1>1, SameHeapSelf DEF Released
<1>2. CASE LinkTo(vals, u, c) # {}
  <2>1. PICK v \in LinkTo(vals, u, c) :
          z = <<[regs EXCEPT ![vals[v].reg].inuse = @ - 1], Unlinked(vals, v)>>
    BY <1>2 DEF Released
  <2>2. v \in Vals /\ vals[v] # NULL  BY DEF LinkTo, First, LinksOf
  <2>3. vals[v].reg \in Listed(regs)
    BY <2>2 DEF HeapOK, HeapType, Points, Listed, avalchan
  <2>4. z[1] = [regs EXCEPT ![vals[v].reg].inuse = @ - 1]  BY <2>1
  <2> QED  BY <2>3, <2>4, LogoutSame
<1> QED  BY <1>1, <1>2

LEMMA AuthSame ==
  ASSUME NEW f, NEW g, HeapOK(f, g), NEW u, NEW c, NEW r \in Listed(f),
         successful_auth(f, g, u, c, r)
  PROVE  SameHeap(regs', f)
<1>1. regs' = Held(f, r)  BY DEF successful_auth
<1> QED  BY <1>1, HeldSame

(* A client that leaves only changes counts.                               *)
LEMMA OnquitSame ==
  ASSUME HeapOK(regs, vals), NEW u \in Users, onquit(u)
  PROVE  SameHeap(regs', regs)
<1> DEFINE n(r) == regs[r].inuse - Left(vals, u, r)
<1>1. regs' = [r \in Regs |-> IF regs[r] = NULL THEN NULL
                              ELSE [regs[r] EXCEPT !.inuse = n(r)]]
  BY DEF onquit
<1>2. ASSUME NEW r \in Regs PROVE SameAt(regs', regs, r)
  <2>1. CASE regs[r] = NULL  BY <1>1, <2>1 DEF SameAt
  <2>2. CASE regs[r] # NULL
    <3>1. regs[r] \in RegUser  BY <2>2 DEF HeapOK, HeapType
    <3>2. HeapOK(regs', vals')
      <4>1. /\ regs' = [r1 \in Regs |-> IF regs[r1] = NULL THEN NULL
                           ELSE [regs[r1] EXCEPT !.inuse = @ - Left(vals, u, r1)]]
            /\ vals' = [v \in Vals |-> IF v \in LinksOf(vals, u) THEN NULL
                                       ELSE vals[v]]
        BY DEF onquit
      <4> QED  BY <4>1, QuitOK
    <3>3. regs'[r] = [regs[r] EXCEPT !.inuse = n(r)]  BY <1>1, <2>2
    <3> HIDE DEF n
    <3>4. Same(regs[r], regs'[r])
      BY <3>1, <3>3 DEF Same, Looks, RegUser
    <3>5. regs'[r] # NULL
      <4>1. Pending(regs') = Pending(regs) /\ Listed(regs') = Listed(regs)
        <5>1. /\ regs' = [r1 \in Regs |-> IF regs[r1] = NULL THEN NULL
                           ELSE [regs[r1] EXCEPT !.inuse = @ - Left(vals, u, r1)]]
              /\ vals' = [v \in Vals |-> IF v \in LinksOf(vals, u) THEN NULL
                                       ELSE vals[v]]
          BY DEF onquit
        <5> QED  BY <5>1, QuitOK
      <4> QED  BY <2>2, <4>1 DEF Pending, Listed
    <3> QED  BY <2>2, <3>4, <3>5 DEF SameAt
  <2> QED  BY <2>1, <2>2
<1> QED  BY <1>2 DEF SameHeap

(* Marking a record, or changing its password, is no matter for its slot.  *)
LEMMA TouchedSame ==
  ASSUME NEW f, NEW g, HeapOK(f, g), NEW r \in Listed(f)
  PROVE  SameHeap(Touched(f, r), f) /\ Touched(f, r)[r].modified
<1>1. /\ f \in [Regs -> RegUser \cup {NULL}] /\ r \in Regs /\ f[r] # NULL
      /\ f[r] \in RegUser
  BY ListedOK
<1> DEFINE e == [f[r] EXCEPT !.modified = TRUE]
<1>2. Touched(f, r) = [f EXCEPT ![r] = e]  BY <1>1 DEF Touched
<1>3. e \in RegUser /\ Same(f[r], e) /\ e.modified
  BY <1>1 DEF RegUser, Same, Looks
<1> HIDE DEF e
<1>4. SameHeap(Touched(f, r), f)  BY <1>1, <1>2, <1>3, PutSame
<1>5. Touched(f, r)[r] = e  BY <1>1, <1>2
<1> QED  BY <1>3, <1>4, <1>5

LEMMA PasswdSame ==
  ASSUME NEW f, NEW g, HeapOK(f, g), NEW r \in Listed(f), NEW pw \in Pws
  PROVE  SameHeap([f EXCEPT ![r].passwd = pw], f)
<1>1. /\ f \in [Regs -> RegUser \cup {NULL}] /\ r \in Regs /\ f[r] # NULL
      /\ f[r] \in RegUser
  BY ListedOK
<1> DEFINE e == [f[r] EXCEPT !.passwd = pw]
<1>2. [f EXCEPT ![r].passwd = pw] = [f EXCEPT ![r] = e]  BY <1>1
<1>3. e \in RegUser /\ Same(f[r], e)  BY <1>1 DEF RegUser, Same, Looks
<1> HIDE DEF e
<1> QED  BY <1>1, <1>2, <1>3, PutSame

(* One change after another.                                               *)
LEMMA SameTrans ==
  ASSUME NEW f, NEW f2, NEW f3, SameHeap(f2, f), SameHeap(f3, f2)
  PROVE  SameHeap(f3, f)
BY DEF SameHeap, SameAt, Same, Looks

(* An edit of a record that was only marked before.                        *)
LEMMA MarkedEdit ==
  ASSUME NEW f, NEW f2, NEW f3, SameHeap(f2, f), NEW r, EditHeap(f3, f2, r)
  PROVE  EditHeap(f3, f, r)
<1>1. r \in Listed(f) /\ r \in Regs /\ f[r] # NULL /\ Same(f[r], f2[r])
  BY SameListed DEF EditHeap, SameHeap, SameAt, Listed
<1>2. Others(f3, f, r)
  BY DEF EditHeap, SameHeap, Others, SameAt, Same, Looks
<1>3. Rewritten(f2[r], f3[r]) => Rewritten(f[r], f3[r])
  BY <1>1 DEF Rewritten, Same, Looks
<1> QED  BY <1>1, <1>2, <1>3 DEF EditHeap, Same, Looks

(* A changed record in the place of what it was.                           *)
LEMMA PutEdit ==
  ASSUME NEW f, NEW g, HeapOK(f, g), NEW r \in Listed(f), f[r].channel \in Chan,
         NEW e \in RegUser, e.listed, e.channel = f[r].channel,
         e.offset = f[r].offset, Rewritten(f[r], e) \/ Deleted(e)
  PROVE  EditHeap([f EXCEPT ![r] = e], f, r)
<1>1. f \in [Regs -> RegUser \cup {NULL}] /\ r \in Regs  BY ListedOK
<1> DEFINE f2 == [f EXCEPT ![r] = e]
<1>2. f2[r] = e /\ Others(f2, f, r)  BY <1>1, PutOthers
<1>3. e # NULL  BY NullOK DEF NullOK
<1> HIDE DEF f2
<1>4. EditHeap(f2, f, r)  BY <1>2, <1>3 DEF EditHeap
<1> QED  BY <1>4 DEF f2

(* remuser *)
LEMMA RemovedEdit ==
  ASSUME NEW f, NEW g, HeapOK(f, g), NEW r \in Listed(f), f[r].channel \in Chan
  PROVE  EditHeap(Removed(f, r), f, r)
<1>1. /\ f \in [Regs -> RegUser \cup {NULL}] /\ r \in Regs /\ f[r] # NULL
      /\ f[r] \in RegUser /\ f[r].listed
  BY ListedOK
<1> DEFINE m == (f[r].offset # 0)
           a == [f[r] EXCEPT !.realname = Del]
           b == [a EXCEPT !.match = Del]
           d == [b EXCEPT !.access = 0]
           e == [d EXCEPT !.modified = m]
<1>2. Removed(f, r) = [f EXCEPT ![r] = e]  BY <1>1 DEF Removed
<1>3. m \in BOOLEAN /\ (m <=> f[r].offset # 0)  OBVIOUS
<1> HIDE DEF m
<1>4. a \in RegUser /\ a.realname = Del /\ a.channel = f[r].channel
      /\ a.offset = f[r].offset /\ a.listed
  BY <1>1 DEF RegUser
<1> HIDE DEF a
<1>5. b \in RegUser /\ b.realname = Del /\ b.channel = f[r].channel
      /\ b.offset = f[r].offset /\ b.listed
  BY <1>4 DEF RegUser
<1> HIDE DEF b
<1>6. d \in RegUser /\ d.realname = Del /\ d.access = 0
      /\ d.channel = f[r].channel /\ d.offset = f[r].offset /\ d.listed
  BY <1>5 DEF RegUser, MASTER_ACCESS
<1> HIDE DEF d
<1>7. e \in RegUser /\ e.realname = Del /\ e.access = 0 /\ e.modified = m
      /\ e.channel = f[r].channel /\ e.offset = f[r].offset /\ e.listed
  BY <1>3, <1>6 DEF RegUser
<1> HIDE DEF e
<1>8. Deleted(e)  BY <1>3, <1>7 DEF Deleted
<1>9. EditHeap([f EXCEPT ![r] = e], f, r)
  BY <1>7, <1>8, PutEdit
<1> QED  BY <1>2, <1>9

(* suspend, on a record that is marked.                                    *)
LEMMA SuspendEdit ==
  ASSUME NEW f, NEW g, HeapOK(f, g), NEW r \in Listed(f), f[r].channel \in Chan,
         f[r].modified, NEW on \in BOOLEAN
  PROVE  EditHeap([f EXCEPT ![r].suspend = on], f, r)
<1>1. /\ f \in [Regs -> RegUser \cup {NULL}] /\ r \in Regs /\ f[r] # NULL
      /\ f[r] \in RegUser /\ f[r].listed
  BY ListedOK
<1> DEFINE e == [f[r] EXCEPT !.suspend = on]
<1>2. [f EXCEPT ![r].suspend = on] = [f EXCEPT ![r] = e]  BY <1>1
<1>3. e \in RegUser /\ e.listed /\ e.channel = f[r].channel
      /\ e.offset = f[r].offset /\ Rewritten(f[r], e)
  BY <1>1 DEF RegUser, Rewritten
<1> HIDE DEF e
<1> QED  BY <1>2, <1>3, PutEdit

(* modinfo, on a record that is marked.                                    *)
LEMMA AccessEdit ==
  ASSUME NEW f, NEW g, HeapOK(f, g), NEW r, Usable(f, r), f[r].channel \in Chan,
         f[r].modified, NEW a \in GrantLevels \cup {0}
  PROVE  EditHeap([f EXCEPT ![r].access = a], f, r)
<1>1. /\ f \in [Regs -> RegUser \cup {NULL}] /\ r \in Regs /\ f[r] # NULL
      /\ f[r] \in RegUser /\ f[r].listed /\ r \in Listed(f)
  BY ListedOK DEF Usable
<1> DEFINE e == [f[r] EXCEPT !.access = a]
<1>2. [f EXCEPT ![r].access = a] = [f EXCEPT ![r] = e]  BY <1>1
<1>3. a \in 0 .. MASTER_ACCESS
  BY ConstantsOK DEF ConstantsOK, MASTER_ACCESS
<1>4. e \in RegUser /\ e.listed /\ e.channel = f[r].channel
      /\ e.offset = f[r].offset /\ Rewritten(f[r], e)
  BY <1>1, <1>3 DEF RegUser, Rewritten
<1> HIDE DEF e
<1> QED  BY <1>1, <1>2, <1>4, PutEdit

LEMMA MatchEdit ==
  ASSUME NEW f, NEW g, HeapOK(f, g), NEW r, Usable(f, r), f[r].channel \in Chan,
         f[r].modified, NEW m \in Masks
  PROVE  EditHeap([f EXCEPT ![r].match = m], f, r)
<1>1. /\ f \in [Regs -> RegUser \cup {NULL}] /\ r \in Regs /\ f[r] # NULL
      /\ f[r] \in RegUser /\ f[r].listed /\ r \in Listed(f)
  BY ListedOK DEF Usable
<1> DEFINE e == [f[r] EXCEPT !.match = m]
<1>2. [f EXCEPT ![r].match = m] = [f EXCEPT ![r] = e]  BY <1>1
<1>3. e \in RegUser /\ e.listed /\ e.channel = f[r].channel
      /\ e.offset = f[r].offset /\ Rewritten(f[r], e)
  BY <1>1 DEF RegUser, Rewritten
<1> HIDE DEF e
<1> QED  BY <1>1, <1>2, <1>3, PutEdit

(* modinfo: one edit, or nothing that matters to the slot.                 *)
LEMMA ModinfoEdit ==
  ASSUME NEW f, NEW g, HeapOK(f, g), NEW r, Usable(f, r), f[r].channel \in Chan,
         NEW u, NEW field, NEW value \in Values(field)
  PROVE  LET f2 == do_modinfo(f, u, r, field, value)
         IN  SameHeap(f2, f) \/ EditHeap(f2, f, r)
<1> DEFINE dirty == Touched(f, r)
           own == {vals[v].reg : v \in LinkTo(vals, u, f[r].channel)}
           above == \E o \in own : f[r].access < f[o].access
           a1 == above /\ (\E o \in own : value < f[o].access)
           a2 == above
           a3 == above \/ r \in own
           f2 == do_modinfo(f, u, r, field, value)
<1>1. f2 = CASE field = "ACCESS" /\ a1 -> [dirty EXCEPT ![r].access = value]
             [] field = "MATCH" /\ a2 -> [dirty EXCEPT ![r].match = value]
             [] field = "PASSWORD" /\ a3 -> [dirty EXCEPT ![r].passwd = value]
             [] field = "AUTOOP" /\ a3 -> dirty
             [] OTHER -> f
  BY Zenon DEF do_modinfo
<1> HIDE DEF a1, a2, a3, above, own, f2
<1>2. r \in Listed(f)  BY DEF Usable
<1>3. Like(dirty, f)  BY <1>2, TouchedLike
<1>4. HeapOK(dirty, g) /\ Listed(dirty) = Listed(f)  BY <1>3, LikeOK
<1>5. SameHeap(dirty, f) /\ dirty[r].modified  BY <1>2, TouchedSame
<1>6. r \in Regs /\ f[r] # NULL  BY <1>2 DEF Listed
<1>7. Usable(dirty, r) /\ dirty[r].channel \in Chan
  BY <1>2, <1>4, <1>5, <1>6 DEF Usable, SameHeap, SameAt, Same, Looks
<1> HIDE DEF dirty
<1>8. CASE field = "ACCESS" /\ a1
  <2>1. value \in GrantLevels \cup {0}  BY <1>8 DEF Values
  <2>2. f2 = [dirty EXCEPT ![r].access = value]  BY <1>1, <1>8
  <2>3. EditHeap(f2, dirty, r)
    BY <1>4, <1>5, <1>7, <2>1, <2>2, AccessEdit
  <2>4. EditHeap(f2, f, r)  BY <1>5, <2>3, MarkedEdit
  <2> QED  BY <2>4 DEF f2
<1>9. CASE field = "MATCH" /\ a2
  <2>1. value \in Masks  BY <1>9 DEF Values
  <2>2. f2 = [dirty EXCEPT ![r].match = value]  BY <1>1, <1>9
  <2>3. EditHeap(f2, dirty, r)
    BY <1>4, <1>5, <1>7, <2>1, <2>2, MatchEdit
  <2>4. EditHeap(f2, f, r)  BY <1>5, <2>3, MarkedEdit
  <2> QED  BY <2>4 DEF f2
<1>10. CASE field = "PASSWORD" /\ a3
  <2>1. value \in Pws /\ r \in Listed(dirty)  BY <1>2, <1>4, <1>10 DEF Values
  <2>2. f2 = [dirty EXCEPT ![r].passwd = value]  BY <1>1, <1>10
  <2>3. SameHeap(f2, dirty)  BY <1>4, <2>1, <2>2, PasswdSame
  <2>4. SameHeap(f2, f)  BY <1>5, <2>3, SameTrans
  <2> QED  BY <2>4 DEF f2
<1>11. CASE field = "AUTOOP" /\ a3
  <2>1. f2 = dirty  BY <1>1, <1>11
  <2> QED  BY <1>5, <2>1 DEF f2
<1>12. CASE /\ ~(field = "ACCESS" /\ a1) /\ ~(field = "MATCH" /\ a2)
            /\ ~(field = "PASSWORD" /\ a3) /\ ~(field = "AUTOOP" /\ a3)
  <2>1. f2 = f  BY <1>1, <1>12
  <2> QED  BY <2>1, SameHeapSelf DEF f2
<1> QED  BY <1>8, <1>9, <1>10, <1>11, <1>12

(* A record is put at the head of the table.                               *)
LEMMA InsertList ==
  ASSUME NEW f, NEW g, HeapOK(f, g), NEW r \in Regs, f[r] # NULL
  PROVE  ListHeap(Insert(f, r), f, r)
<1>1. /\ f \in [Regs -> RegUser \cup {NULL}] /\ f[r] \in RegUser
      /\ Listed(f) \in SUBSET Regs
  BY DEF HeapOK, HeapType, Listed
<1> DEFINE reg == [f[r] EXCEPT !.listed = TRUE, !.next = Listed(f)]
           f2 == Insert(f, r)
<1>2. f2 = [f EXCEPT ![r] = reg]  BY <1>1 DEF Insert
<1>3. /\ reg \in RegUser /\ reg.listed /\ Looks(f[r], reg)
      /\ reg.modified = f[r].modified
  BY <1>1 DEF RegUser, Looks
<1>4. reg # NULL  BY <1>3, NullOK DEF NullOK
<1> HIDE DEF reg, f2
<1>5. f2[r] = reg /\ Others(f2, f, r)  BY <1>1, <1>2, PutOthers
<1>6. ListHeap(f2, f, r)  BY <1>3, <1>4, <1>5 DEF ListHeap
<1> QED  BY <1>6 DEF f2

(* A record is freed.                                                      *)
LEMMA UnlinkedFree ==
  ASSUME NEW f, NEW g, HeapOK(f, g), NEW r \in Regs
  PROVE  FreeHeap(Unlinked(f, r), f, r)
<1> DEFINE f2 == Unlinked(f, r)
<1>1. f2 = [y \in Regs |-> IF y = r \/ f[y] = NULL THEN NULL
                           ELSE [f[y] EXCEPT !.next = @ \ {r}]]
  BY DEF Unlinked, HeapOK, HeapType
<1>2. f2[r] = NULL  BY <1>1
<1>3. ASSUME NEW y \in Regs \ {r} PROVE SameAt(f2, f, y)
  <2>1. CASE f[y] = NULL  BY <1>1, <2>1 DEF SameAt
  <2>2. CASE f[y] # NULL
    <3>1. f[y] \in RegUser  BY <2>2 DEF HeapOK, HeapType
    <3> DEFINE e == [f[y] EXCEPT !.next = @ \ {r}]
    <3>2. f2[y] = e  BY <1>1, <2>2
    <3>3. e \in RegUser /\ Same(f[y], e)
      BY <3>1 DEF RegUser, Same, Looks
    <3> HIDE DEF e
    <3>4. e # NULL  BY <3>3, NullOK DEF NullOK
    <3> QED  BY <2>2, <3>2, <3>3, <3>4 DEF SameAt
  <2> QED  BY <2>1, <2>2
<1>4. FreeHeap(f2, f, r)  BY <1>2, <1>3 DEF FreeHeap, Others
<1> QED  BY <1>4 DEF f2

(* A new record.                                                           *)
LEMMA NewRegNew ==
  ASSUME NEW f \in [Regs -> RegUser \cup {NULL}], NEW r \in Fresh(f),
         NEW c \in Chan, NEW n \in Names, NEW m \in Masks, NEW pw \in Pws,
         NEW acc \in 1 .. MASTER_ACCESS - 1
  PROVE  NewHeap([f EXCEPT ![r] = NewReg(c, n, m, pw, acc)], f, r, c, n, acc)
<1> DEFINE s == [realname |-> n, match |-> m, passwd |-> pw,
                 access |-> acc, suspend |-> FALSE]
           new == FromSlot(c, 0, s)
           reg == [new EXCEPT !.modified = TRUE]
<1>1. r \in Regs /\ f[r] = NULL  BY DEF Fresh
<1>2. NewReg(c, n, m, pw, acc) = reg  BY DEF NewReg
<1>3. s \in Slot  BY DEF Slot
<1>4. /\ new.channel = c /\ new.offset = 0 /\ new.realname = n
      /\ new.access = acc /\ ~new.listed
  BY DEF FromSlot
<1>5. new \in RegUser  BY <1>3, FromSlotOK
<1> HIDE DEF s, new
<1>6. /\ reg.channel = c /\ reg.offset = 0 /\ reg.realname = n
      /\ reg.access = acc /\ ~reg.listed /\ reg.modified /\ reg \in RegUser
  BY <1>4, <1>5 DEF RegUser
<1> HIDE DEF reg
<1>7. reg # NULL  BY <1>6, NullOK DEF NullOK
<1> DEFINE f2 == [f EXCEPT ![r] = reg]
<1>8. f2[r] = reg /\ Others(f2, f, r)  BY <1>1, PutOthers
<1> HIDE DEF f2
<1>9. NewHeap(f2, f, r, c, n, acc)  BY <1>1, <1>6, <1>7, <1>8 DEF NewHeap
<1> QED  BY <1>2, <1>9 DEF f2

(* load_dbuser returns the record in memory, or a copy of the slot.        *)
LEMMA LoadCase ==
  ASSUME NEW g, HeapOK(regs, g), NEW c \in Chan, NEW k \in Nat \ {0},
         NEW s \in Slot, NEW l \in load_dbuser(c, k, s)
  PROVE  \/ /\ l[1] = regs
            /\ \E x \in InMemory(c, k) :
                 l[2] = IF Current(regs[x], s) THEN x ELSE NULL
         \/ LoadHeap(l[1], regs, l[2], c, k, s)
<1> DEFINE hits == InMemory(c, k)
<1>1. CASE hits # {}
  <2>1. PICK r \in First(regs, hits) :
               l = <<regs, IF Current(regs[r], s) THEN r ELSE NULL>>
    BY <1>1 DEF load_dbuser
  <2>2. r \in hits  BY DEF First
  <2> QED  BY <2>1, <2>2
<1>2. CASE hits = {}
  <2> DEFINE reg == FromSlot(c, k, s)
  <2>1. PICK r \in Fresh(regs) :
               l = <<Insert([regs EXCEPT ![r] = reg], r), r>>
    BY <1>2 DEF load_dbuser
  <2> DEFINE f2 == [regs EXCEPT ![r] = reg]
             f3 == Insert(f2, r)
  <2>2. l[1] = f3 /\ l[2] = r  BY <2>1
  <2>3. /\ reg \in RegUser /\ WellFormed(reg) /\ reg.inuse = 0 /\ ~reg.listed
    BY FromSlotOK
  <2>4. /\ reg.channel = c /\ reg.offset = k /\ reg.realname = s.realname
        /\ reg.match = s.match /\ reg.access = s.access
        /\ reg.suspend = s.suspend /\ ~reg.modified
    BY DEF FromSlot
  <2> HIDE DEF reg
  <2>5. HeapOK(f2, g)  BY <2>3, AllocOK
  <2>6. r \in Regs /\ regs[r] = NULL /\ regs \in [Regs -> RegUser \cup {NULL}]
    BY DEF Fresh, HeapOK, HeapType
  <2>7. f2[r] = reg /\ Others(f2, regs, r) /\ reg # NULL
    BY <2>3, <2>6, PutOthers, NullOK DEF NullOK
  <2> HIDE DEF f2
  <2>8. ListHeap(f3, f2, r)  BY <2>5, <2>6, <2>7, InsertList
  <2> HIDE DEF f3
  <2>9. Others(f3, regs, r)
    BY <2>7, <2>8 DEF ListHeap, Others, SameAt, Same, Looks
  <2>10. \A x \in Listed(regs) : regs[x].channel = c => regs[x].offset # k
    BY <1>2 DEF InMemory
  <2>11. LoadHeap(f3, regs, r, c, k, s)
    BY <2>4, <2>6, <2>7, <2>8, <2>9, <2>10 DEF LoadHeap, ListHeap, Looks
  <2> QED  BY <2>2, <2>11
<1> QED  BY <1>1, <1>2

-----------------------------------------------------------------------------
(* Slots and records after such a change *)

LEMMA StarNotChan == Star \notin Chan /\ Star \notin Kept /\ Kept \subseteq Chan
BY ConstantsOK DEF ConstantsOK, Kept

(* A record that looks the same and is marked if the other was.            *)
LEMMA SameCell ==
  ASSUME NEW a, NEW b, NEW d, CellOK(a, d), Same(a, b),
         a.modified \in BOOLEAN, b.modified \in BOOLEAN
  PROVE  CellOK(b, d)
<1>1. EntryOf(b) = EntryOf(a)  BY DEF EntryOf, Same, Looks
<1> QED  BY <1>1 DEF CellOK, Same, Looks

LEMMA Flags ==
  ASSUME NEW f, NEW g, HeapOK(f, g), NEW r \in Regs, f[r] # NULL
  PROVE  /\ f[r] \in RegUser
         /\ f[r].modified \in BOOLEAN /\ f[r].listed \in BOOLEAN
         /\ f[r].offset \in Nat /\ f[r].access \in Nat /\ f[r].channel \in AllChan
BY DEF HeapOK, HeapType, RegUser, MASTER_ACCESS

LEMMA SameCached ==
  ASSUME NEW f, NEW g, NEW d, HeapOK(f, g), Cached(f, d),
         NEW f2, NEW g2, HeapOK(f2, g2), SameHeap(f2, f)
  PROVE  Cached(f2, d)
<1>1. Listed(f2) = Listed(f) /\ Pending(f2) = Pending(f)  BY SameListed
<1>2. \A r \in Regs : f[r] # NULL => f2[r] # NULL /\ Same(f[r], f2[r])
  BY DEF SameHeap, SameAt
<1>3. \A r \in Listed(f) \cup Pending(f) : r \in Regs /\ f[r] # NULL
  BY DEF Listed, Pending
<1>4. \A r \in Pending(f2) : f2[r].offset = 0 /\ f2[r].modified
  BY <1>1, <1>2, <1>3, Flags DEF Cached, Same, Looks
<1>5. \A r \in Listed(f2) : f2[r].channel = Star => f2[r].offset = 0
  BY <1>1, <1>2, <1>3 DEF Cached, Same, Looks
<1>6. ASSUME NEW r \in Listed(f2), f2[r].channel \in Kept
      PROVE  CellOK(f2[r], d)
  <2>1. r \in Listed(f) /\ r \in Regs /\ f[r] # NULL /\ f2[r] # NULL
        /\ Same(f[r], f2[r])
    BY <1>1, <1>2, <1>3
  <2>2. f[r].channel \in Kept  BY <1>6, <2>1 DEF Same, Looks
  <2>3. CellOK(f[r], d)  BY <2>1, <2>2 DEF Cached
  <2> QED  BY <2>1, <2>3, Flags, SameCell
<1>7. OwnSlots(f2)
  BY <1>1, <1>2, <1>3 DEF Cached, OwnSlots, Same, Looks
<1> QED  BY <1>4, <1>5, <1>6, <1>7 DEF Cached

LEMMA EditCached ==
  ASSUME NEW f, NEW g, NEW d, HeapOK(f, g), Cached(f, d),
         NEW f2, NEW g2, HeapOK(f2, g2), NEW e, EditHeap(f2, f, e)
  PROVE  Cached(f2, d)
<1>0. e \in Regs /\ e \in Listed(f) /\ f[e] # NULL /\ f2[e] # NULL /\ f2[e].listed
  BY DEF EditHeap, Listed
<1>1. Listed(f2) = Listed(f) /\ Pending(f2) = Pending(f)
  BY <1>0, OthersListed DEF EditHeap, Listed, Pending
<1>2. \A r \in Regs : f[r] # NULL /\ r # e => f2[r] # NULL /\ Same(f[r], f2[r])
  BY DEF EditHeap, Others, SameAt
<1>3. \A r \in Listed(f) \cup Pending(f) : r \in Regs /\ f[r] # NULL
  BY DEF Listed, Pending
<1>4. \A r \in Pending(f2) : f2[r].offset = 0 /\ f2[r].modified
  <2>1. e \notin Pending(f)  BY <1>0 DEF Pending, Listed
  <2> QED  BY <1>1, <1>2, <1>3, <2>1, Flags DEF Cached, Same, Looks
<1>5. \A r \in Listed(f2) :
        f2[r].channel = f[r].channel /\ f2[r].offset = f[r].offset
  BY <1>1, <1>2, <1>3 DEF EditHeap, Same, Looks
<1>6. ASSUME NEW r \in Listed(f2), f2[r].channel \in Kept
      PROVE  CellOK(f2[r], d)
  <2>1. r \in Listed(f) /\ r \in Regs /\ f[r] # NULL /\ f2[r] # NULL
    BY <1>0, <1>1, <1>2, <1>3
  <2>2. CellOK(f[r], d)  BY <1>5, <1>6, <2>1 DEF Cached
  <2>3. CASE r # e
    BY <1>2, <2>1, <2>2, <2>3, Flags, SameCell
  <2>4. CASE r = e
    <3>1. f2[r].offset = f[r].offset /\ f2[r].channel = f[r].channel
      BY <1>5
    <3>2. CASE Rewritten(f[r], f2[r])
      BY <2>2, <3>1, <3>2 DEF Rewritten, CellOK
    <3>3. CASE Deleted(f2[r])
      BY <2>2, <3>1, <3>3 DEF Deleted, CellOK
    <3> QED  BY <2>4, <3>2, <3>3 DEF EditHeap
  <2> QED  BY <2>3, <2>4
<1>7. OwnSlots(f2)  BY <1>1, <1>5 DEF Cached, OwnSlots
<1> QED  BY <1>1, <1>4, <1>5, <1>6, <1>7 DEF Cached

LEMMA LoadCached ==
  ASSUME NEW f, NEW g, NEW d, HeapOK(f, g), Cached(f, d),
         NEW f2, NEW g2, HeapOK(f2, g2), NEW e, NEW c \in Chan,
         NEW k \in Nat \ {0}, NEW s \in Slot, LoadHeap(f2, f, e, c, k, s),
         c \in Kept => k \in Used(d, c) /\ d[c][k] = s
  PROVE  Cached(f2, d)
<1>0. e \in Regs /\ f[e] = NULL /\ f2[e] # NULL /\ f2[e].listed
  BY DEF LoadHeap
<1>1. Listed(f2) = Listed(f) \cup {e} /\ Pending(f2) = Pending(f)
      /\ e \notin Listed(f)
  BY <1>0, OthersListed DEF LoadHeap, Listed, Pending
<1>2. \A r \in Regs : f[r] # NULL => f2[r] # NULL /\ Same(f[r], f2[r])
  BY <1>0 DEF LoadHeap, Others, SameAt
<1>3. \A r \in Listed(f) \cup Pending(f) : r \in Regs /\ f[r] # NULL
  BY DEF Listed, Pending
<1>4. \A r \in Pending(f2) : f2[r].offset = 0 /\ f2[r].modified
  BY <1>1, <1>2, <1>3, Flags DEF Cached, Same, Looks
<1>5. \A r \in Listed(f2) : f2[r].channel = Star => f2[r].offset = 0
  BY <1>1, <1>2, <1>3, StarNotChan DEF Cached, Same, Looks, LoadHeap
<1>6. ASSUME NEW r \in Listed(f2), f2[r].channel \in Kept
      PROVE  CellOK(f2[r], d)
  <2>1. CASE r # e
    <3>1. r \in Listed(f) /\ r \in Regs /\ f[r] # NULL /\ f2[r] # NULL
          /\ Same(f[r], f2[r])
      BY <1>1, <1>2, <1>3, <2>1
    <3>2. f[r].channel \in Kept  BY <1>6, <3>1 DEF Same, Looks
    <3>3. CellOK(f[r], d)  BY <3>1, <3>2 DEF Cached
    <3> QED  BY <3>1, <3>3, Flags, SameCell
  <2>2. CASE r = e
    <3>1. f2[e].channel = c /\ f2[e].offset = k /\ ~f2[e].modified
          /\ f2[e].realname = s.realname /\ f2[e].access = s.access
      BY DEF LoadHeap
    <3>2. EntryOf(f2[e]) = EntryOf(s)  BY DEF LoadHeap, EntryOf
    <3>3. s.access > 0  BY DEF Slot, MASTER_ACCESS
    <3>4. k # 0 /\ k \in Used(d, c) /\ d[c][k] = s  BY <1>6, <2>2, <3>1
    <3> QED  BY <2>2, <3>1, <3>2, <3>3, <3>4 DEF CellOK
  <2> QED  BY <2>1, <2>2
<1>7. OwnSlots(f2)
  <2>1. ASSUME NEW r \in Listed(f2), NEW x \in Listed(f2),
               f2[r].channel \in Kept, f2[r].channel = f2[x].channel,
               f2[r].offset = f2[x].offset, f2[r].offset # 0
        PROVE  r = x
    <3>1. f2[e].channel = c /\ f2[e].offset = k  BY DEF LoadHeap
    <3>2. \A y \in Listed(f) : f2[y].channel = f[y].channel
                               /\ f2[y].offset = f[y].offset
      BY <1>2, <1>3 DEF Same, Looks
    <3>3. \A y \in Listed(f) : f[y].channel = c => f[y].offset # k
      BY DEF LoadHeap
    <3>4. r \in Listed(f) /\ x \in Listed(f) => r = x
      BY <2>1, <3>2 DEF Cached, OwnSlots
    <3> QED  BY <1>1, <2>1, <3>1, <3>2, <3>3, <3>4
  <2> QED  BY <2>1 DEF OwnSlots
<1> QED  BY <1>4, <1>5, <1>6, <1>7 DEF Cached

LEMMA NewCached ==
  ASSUME NEW f, NEW g, NEW d, HeapOK(f, g), Cached(f, d),
         NEW f2, NEW g2, HeapOK(f2, g2), NEW e, NEW c, NEW n, NEW acc,
         NewHeap(f2, f, e, c, n, acc)
  PROVE  Cached(f2, d)
<1>0. e \in Regs /\ f[e] = NULL /\ f2[e] # NULL /\ ~f2[e].listed
  BY DEF NewHeap
<1>1. Listed(f2) = Listed(f) /\ Pending(f2) = Pending(f) \cup {e}
  BY <1>0, OthersListed DEF NewHeap, Listed, Pending
<1>2. \A r \in Regs : f[r] # NULL => f2[r] # NULL /\ Same(f[r], f2[r])
  BY <1>0 DEF NewHeap, Others, SameAt
<1>3. \A r \in Listed(f) \cup Pending(f) : r \in Regs /\ f[r] # NULL
  BY DEF Listed, Pending
<1>4. \A r \in Pending(f2) : f2[r].offset = 0 /\ f2[r].modified
  BY <1>1, <1>2, <1>3, Flags DEF Cached, Same, Looks, NewHeap
<1>5. \A r \in Listed(f2) : f2[r].channel = Star => f2[r].offset = 0
  BY <1>1, <1>2, <1>3 DEF Cached, Same, Looks
<1>6. ASSUME NEW r \in Listed(f2), f2[r].channel \in Kept
      PROVE  CellOK(f2[r], d)
  <2>1. r \in Listed(f) /\ r \in Regs /\ f[r] # NULL /\ f2[r] # NULL
        /\ Same(f[r], f2[r])
    BY <1>1, <1>2, <1>3
  <2>2. f[r].channel \in Kept  BY <1>6, <2>1 DEF Same, Looks
  <2>3. CellOK(f[r], d)  BY <2>1, <2>2 DEF Cached
  <2> QED  BY <2>1, <2>3, Flags, SameCell
<1>7. OwnSlots(f2)
  BY <1>1, <1>2, <1>3 DEF Cached, OwnSlots, Same, Looks
<1> QED  BY <1>4, <1>5, <1>6, <1>7 DEF Cached

LEMMA ListCached ==
  ASSUME NEW f, NEW g, NEW d, HeapOK(f, g), Cached(f, d),
         NEW f2, NEW g2, HeapOK(f2, g2), NEW e \in Pending(f), ListHeap(f2, f, e)
  PROVE  Cached(f2, d)
<1>0. e \in Regs /\ f[e] # NULL /\ f2[e] # NULL /\ f2[e].listed
  BY DEF ListHeap
<1>1. Listed(f2) = Listed(f) \cup {e} /\ Pending(f2) = Pending(f) \ {e}
  BY <1>0, OthersListed DEF ListHeap, Listed, Pending
<1>2. \A r \in Regs : f[r] # NULL /\ r # e => f2[r] # NULL /\ Same(f[r], f2[r])
  BY DEF ListHeap, Others, SameAt
<1>3. \A r \in Listed(f) \cup Pending(f) : r \in Regs /\ f[r] # NULL
  BY DEF Listed, Pending
<1>4. \A r \in Pending(f2) : f2[r].offset = 0 /\ f2[r].modified
  BY <1>1, <1>2, <1>3, Flags DEF Cached, Same, Looks
<1>5. f2[e].offset = 0 /\ f2[e].modified
  BY DEF Cached, ListHeap, Looks
<1>6. \A r \in Listed(f2) : f2[r].channel = Star => f2[r].offset = 0
  BY <1>1, <1>2, <1>3, <1>5 DEF Cached, Same, Looks
<1>7. ASSUME NEW r \in Listed(f2), f2[r].channel \in Kept
      PROVE  CellOK(f2[r], d)
  <2>1. CASE r # e
    <3>1. r \in Listed(f) /\ r \in Regs /\ f[r] # NULL /\ f2[r] # NULL
          /\ Same(f[r], f2[r])
      BY <1>1, <1>2, <1>3, <2>1
    <3>2. f[r].channel \in Kept  BY <1>7, <3>1 DEF Same, Looks
    <3>3. CellOK(f[r], d)  BY <3>1, <3>2 DEF Cached
    <3> QED  BY <3>1, <3>3, Flags, SameCell
  <2>2. CASE r = e
    BY <1>5, <2>2 DEF CellOK
  <2> QED  BY <2>1, <2>2
<1>8. OwnSlots(f2)
  <2>1. \A y \in Listed(f2) : y # e => y \in Listed(f)
          /\ f2[y].channel = f[y].channel /\ f2[y].offset = f[y].offset
    BY <1>1, <1>2, <1>3 DEF Same, Looks
  <2> QED  BY <1>5, <2>1 DEF Cached, OwnSlots
<1> QED  BY <1>4, <1>6, <1>7, <1>8 DEF Cached

LEMMA FreeCached ==
  ASSUME NEW f, NEW g, NEW d, HeapOK(f, g), Cached(f, d),
         NEW f2, NEW g2, HeapOK(f2, g2), NEW e, FreeHeap(f2, f, e)
  PROVE  Cached(f2, d)
<1>0. e \in Regs /\ f2[e] = NULL  BY DEF FreeHeap
<1>1. Listed(f2) = Listed(f) \ {e} /\ Pending(f2) = Pending(f) \ {e}
  BY <1>0, OthersListed DEF FreeHeap, Listed, Pending
<1>2. \A r \in Regs : f[r] # NULL /\ r # e => f2[r] # NULL /\ Same(f[r], f2[r])
  BY DEF FreeHeap, Others, SameAt
<1>3. \A r \in Listed(f) \cup Pending(f) : r \in Regs /\ f[r] # NULL
  BY DEF Listed, Pending
<1>4. \A r \in Pending(f2) : f2[r].offset = 0 /\ f2[r].modified
  BY <1>1, <1>2, <1>3, Flags DEF Cached, Same, Looks
<1>5. \A r \in Listed(f2) : f2[r].channel = Star => f2[r].offset = 0
  BY <1>1, <1>2, <1>3 DEF Cached, Same, Looks
<1>6. ASSUME NEW r \in Listed(f2), f2[r].channel \in Kept
      PROVE  CellOK(f2[r], d)
  <2>1. r \in Listed(f) /\ r \in Regs /\ f[r] # NULL /\ f2[r] # NULL
        /\ Same(f[r], f2[r])
    BY <1>1, <1>2, <1>3
  <2>2. f[r].channel \in Kept  BY <1>6, <2>1 DEF Same, Looks
  <2>3. CellOK(f[r], d)  BY <2>1, <2>2 DEF Cached
  <2> QED  BY <2>1, <2>3, Flags, SameCell
<1>7. OwnSlots(f2)
  BY <1>1, <1>2, <1>3 DEF Cached, OwnSlots, Same, Looks
<1> QED  BY <1>4, <1>5, <1>6, <1>7 DEF Cached

-----------------------------------------------------------------------------
(* Writing a record back *)

\* Record r was written to slot off, or its slot was freed.
SavedHeap(f2, f, r, off) ==
  /\ r \in Listed(f) /\ f2[r] # NULL /\ f2[r].listed /\ ~f2[r].modified
  /\ f2[r].channel = f[r].channel /\ f2[r].realname = f[r].realname
  /\ f2[r].match = f[r].match /\ f2[r].access = f[r].access
  /\ f2[r].suspend = f[r].suspend
  /\ f2[r].offset = (IF f[r].access = 0 THEN 0 ELSE off)
  /\ Others(f2, f, r)

\* Nothing but r was marked.
Still(f2, f, r) ==
  \A x \in Regs \ {r} : f2[x] # NULL => f2[x].modified = f[x].modified

\* Slot k of channel c was given the value s.
SlotSet(d2, d, c, k, s) ==
  /\ \A x \in Chan \ {c} : d2[x] = d[x]
  /\ d2[c] # NULL /\ k \in DOMAIN d2[c] /\ d2[c][k] = s
  /\ \A j \in Nat \ {k} :
       /\ j \in Used(d2, c) <=> j \in Used(d, c)
       /\ j \in Used(d, c) => d2[c][j] = d[c][j]

LEMMA SavedSaves ==
  ASSUME NEW f, NEW g, HeapOK(f, g), NEW r \in Listed(f), NEW off \in Nat
  PROVE  SavedHeap(Saved(f, r, off), f, r, off) /\ Still(Saved(f, r, off), f, r)
<1>1. /\ f \in [Regs -> RegUser \cup {NULL}] /\ r \in Regs /\ f[r] # NULL
      /\ f[r] \in RegUser /\ f[r].listed
  BY ListedOK
<1> DEFINE n == IF f[r].access = 0 THEN 0 ELSE off
           a == [f[r] EXCEPT !.offset = n]
           e == [a EXCEPT !.modified = FALSE]
           f2 == Saved(f, r, off)
<1>2. f2 = [f EXCEPT ![r] = e]  BY <1>1 DEF Saved
<1>3. n \in Nat  OBVIOUS
<1>4. n = IF f[r].access = 0 THEN 0 ELSE off  OBVIOUS
<1> HIDE DEF n
<1>5. /\ a \in RegUser /\ a.listed /\ a.offset = n
      /\ a.channel = f[r].channel /\ a.realname = f[r].realname
      /\ a.match = f[r].match /\ a.access = f[r].access
      /\ a.suspend = f[r].suspend
  BY <1>1, <1>3 DEF RegUser
<1> HIDE DEF a
<1>6. /\ e \in RegUser /\ e.listed /\ e.offset = n /\ ~e.modified
      /\ e.channel = f[r].channel /\ e.realname = f[r].realname
      /\ e.match = f[r].match /\ e.access = f[r].access
      /\ e.suspend = f[r].suspend
  BY <1>5 DEF RegUser
<1>7. e # NULL  BY <1>6, NullOK DEF NullOK
<1> HIDE DEF e, f2
<1>8. f2[r] = e /\ Others(f2, f, r)  BY <1>1, <1>2, PutOthers
<1>9. \A x \in Regs \ {r} : f2[x] = f[x]  BY <1>1, <1>2
<1>10. SavedHeap(f2, f, r, off)  BY <1>4, <1>6, <1>7, <1>8 DEF SavedHeap
<1>11. Still(f2, f, r)  BY <1>9 DEF Still
<1> QED  BY <1>10, <1>11 DEF f2

LEMMA UnlinkedStill ==
  ASSUME NEW f, NEW g, HeapOK(f, g), NEW r \in Regs
  PROVE  Still(Unlinked(f, r), f, r)
<1> DEFINE f2 == Unlinked(f, r)
<1>1. f2 = [y \in Regs |-> IF y = r \/ f[y] = NULL THEN NULL
                           ELSE [f[y] EXCEPT !.next = @ \ {r}]]
  BY DEF Unlinked, HeapOK, HeapType
<1>2. ASSUME NEW y \in Regs \ {r}, f2[y] # NULL
      PROVE  f2[y].modified = f[y].modified
  <2>1. f[y] # NULL  BY <1>1, <1>2
  <2>2. f[y] \in RegUser  BY <2>1 DEF HeapOK, HeapType
  <2>3. f2[y] = [f[y] EXCEPT !.next = @ \ {r}]  BY <1>1, <2>1
  <2> HIDE DEF f2
  <2> QED  BY <2>2, <2>3 DEF RegUser
<1> QED  BY <1>2 DEF Still

(* A file after one slot was written, inside it or beyond its end.         *)
LEMMA WrittenSlots ==
  ASSUME NEW file \in File, NEW k \in Nat \ {0}, NEW s
  PROVE  LET w == Written(file, k, s)
         IN  /\ k \in DOMAIN w /\ w[k] = s
             /\ \A j \in Nat \ {k} :
                  /\ j \in DOMAIN w /\ w[j] # NULL <=>
                       j \in DOMAIN file /\ file[j] # NULL
                  /\ j \in DOMAIN file /\ file[j] # NULL => w[j] = file[j]
<1> DEFINE n == IF k > Len(file) THEN k ELSE Len(file)
           w == Written(file, k, s)
<1>1. file \in Seq(Slot \cup {NULL}) /\ Len(file) \in Nat
      /\ DOMAIN file = 1 .. Len(file)
  BY DEF File
<1>2. w = [i \in 1 .. n |-> IF i = k THEN s
                            ELSE IF i <= Len(file) THEN file[i] ELSE NULL]
  BY DEF Written
<1>3. n \in Nat /\ k <= n /\ Len(file) <= n  BY <1>1
<1> HIDE DEF n, w
<1>4. DOMAIN w = 1 .. n  BY <1>2
<1>5. k \in DOMAIN w  BY <1>3, <1>4
<1>6. w[k] = s  BY <1>2, <1>4, <1>5
<1>7. ASSUME NEW j \in Nat \ {k}
      PROVE  /\ j \in DOMAIN w /\ w[j] # NULL <=>
                  j \in DOMAIN file /\ file[j] # NULL
             /\ j \in DOMAIN file /\ file[j] # NULL => w[j] = file[j]
  <2>1. CASE j \in DOMAIN file
    <3>1. j \in 1 .. n /\ j <= Len(file)  BY <1>1, <1>3, <2>1
    <3>2. w[j] = file[j]  BY <1>2, <3>1
    <3> QED  BY <1>4, <2>1, <3>1, <3>2
  <2>2. CASE j \notin DOMAIN file
    <3>1. j \in 1 .. n => ~(j <= Len(file))  BY <1>1, <2>2
    <3>2. j \in 1 .. n => w[j] = NULL  BY <1>2, <3>1
    <3> QED  BY <1>4, <2>2, <3>2
  <2> QED  BY <2>1, <2>2
<1>8. /\ k \in DOMAIN w /\ w[k] = s
      /\ \A j \in Nat \ {k} :
           /\ j \in DOMAIN w /\ w[j] # NULL <=>
                j \in DOMAIN file /\ file[j] # NULL
           /\ j \in DOMAIN file /\ file[j] # NULL => w[j] = file[j]
  BY <1>5, <1>6, <1>7
<1> QED  BY <1>8 DEF w

(* cold_save_one of a record of a kept channel.                            *)
LEMMA ColdSaveSet ==
  ASSUME DiskType(disk), NEW reg \in RegUser, WellFormed(reg),
         reg.channel \in Chan, disk[reg.channel] # NULL,
         NEW off \in Nat \ {0}, ColdSave(reg, off)
  PROVE  SlotSet(disk', disk, reg.channel, off, make_dbuser(reg))
<1> DEFINE c == reg.channel
           file == disk[c]
           s == make_dbuser(reg)
           w == Written(file, off, s)
<1>1. file \in File  BY DEF DiskType
<1>2. disk' = [disk EXCEPT ![c] = w]  BY DEF ColdSave, Contents
<1>3. disk'[c] = w /\ \A x \in Chan \ {c} : disk'[x] = disk[x]
  BY <1>2 DEF DiskType
<1> HIDE DEF s
<1>4. /\ off \in DOMAIN w /\ w[off] = s
      /\ \A j \in Nat \ {off} :
           /\ j \in DOMAIN w /\ w[j] # NULL <=>
                j \in DOMAIN file /\ file[j] # NULL
           /\ j \in DOMAIN file /\ file[j] # NULL => w[j] = file[j]
  <2> HIDE DEF file
  <2> QED  BY <1>1, WrittenSlots
<1> HIDE DEF w
<1>5. w # NULL
  <2>1. s \in Slot \cup {NULL}  BY MakeOK DEF s
  <2>2. w \in File  BY <1>1, <2>1, WrittenOK DEF w
  <2> QED  BY <2>2, NullOK DEF NullOK
<1> HIDE DEF file
<1>6. \A j \in Nat \ {off} :
        /\ j \in Used(disk', c) <=> j \in Used(disk, c)
        /\ j \in Used(disk, c) => disk'[c][j] = disk[c][j]
  BY <1>3, <1>4 DEF Used, file
<1>7. SlotSet(disk', disk, c, off, s)  BY <1>3, <1>4, <1>5, <1>6 DEF SlotSet
<1> QED  BY <1>7 DEF s

(* The slot a record goes to: its own, or one not in use.                  *)
LEMMA SlotFits ==
  ASSUME DiskType(disk), NEW reg \in RegUser, reg.channel \in Chan,
         disk[reg.channel] # NULL, NEW off \in SlotFor(reg)
  PROVE  /\ off \in Nat \ {0}
         /\ \/ reg.offset # 0 /\ off = reg.offset
            \/ reg.offset = 0 /\ off \notin Used(disk, reg.channel)
<1>1. reg.offset \in Nat  BY DEF RegUser
<1>2. off \in Nat \ {0}  BY <1>1, SlotForOK
<1>3. CASE reg.offset # 0  BY <1>2, <1>3 DEF SlotFor
<1>4. CASE reg.offset = 0
  <2> DEFINE file == disk[reg.channel]
  <2>1. off \in FirstFree(file)  BY <1>4 DEF SlotFor, Contents
  <2>2. file \in Seq(Slot \cup {NULL})  BY DEF DiskType, File
  <2>3. off = Len(file) + 1 \/ file[off] = NULL  BY <2>1 DEF FirstFree
  <2>4. off \notin Used(disk, reg.channel)  BY <2>2, <2>3 DEF Used
  <2> QED  BY <1>2, <1>4, <2>4
<1> QED  BY <1>3, <1>4

(* A record whose slot was not written.                                    *)
LEMMA CellMoved ==
  ASSUME NEW a, NEW d, NEW d2, CellOK(a, d),
         a.offset # 0 => /\ a.offset \in Used(d2, a.channel)
                         /\ d2[a.channel][a.offset] = d[a.channel][a.offset]
  PROVE  CellOK(a, d2)
BY DEF CellOK

(* What is written of a record is its entry.                               *)
LEMMA MakeEntry ==
  ASSUME NEW reg \in RegUser, WellFormed(reg), reg.channel \in Chan
  PROVE  /\ reg.access = 0 => make_dbuser(reg) = NULL
         /\ reg.access # 0 => /\ make_dbuser(reg) # NULL
                              /\ make_dbuser(reg).realname = reg.realname
                              /\ EntryOf(make_dbuser(reg)) = EntryOf(reg)
<1>1. CASE reg.access = 0  BY <1>1 DEF make_dbuser
<1>2. CASE reg.access # 0
  <2> DEFINE s == [realname |-> reg.realname, match |-> reg.match,
                   passwd |-> reg.passwd, access |-> reg.access,
                   suspend |-> reg.suspend]
  <2>1. make_dbuser(reg) = s  BY <1>2 DEF make_dbuser
  <2>2. /\ reg.realname \in Names /\ reg.match \in Masks
        /\ reg.passwd \in Pws \cup {NoPw} /\ reg.suspend \in BOOLEAN
        /\ reg.access \in 1 .. MASTER_ACCESS - 1
    BY <1>2, StarNotChan DEF WellFormed, RegUser, MASTER_ACCESS
  <2>3. s \in Slot  BY <2>2 DEF Slot
  <2>4. s # NULL  BY <2>3, NullOK DEF NullOK
  <2>5. s.realname = reg.realname /\ EntryOf(s) = EntryOf(reg)  BY DEF EntryOf
  <2> QED  BY <1>2, <2>1, <2>4, <2>5
<1> QED  BY <1>1, <1>2

LEMMA SaveCached ==
  ASSUME NEW f, NEW g, NEW d, HeapOK(f, g), Cached(f, d),
         NEW f2, NEW g2, HeapOK(f2, g2), NEW e, NEW off \in Nat \ {0},
         SavedHeap(f2, f, e, off), f[e].channel \in Kept, NEW d2,
         SlotSet(d2, d, f[e].channel, off, make_dbuser(f[e])),
         \/ f[e].offset # 0 /\ off = f[e].offset
         \/ f[e].offset = 0 /\ off \notin Used(d, f[e].channel)
  PROVE  Cached(f2, d2)
<1> DEFINE c == f[e].channel
<1>0. e \in Regs /\ e \in Listed(f) /\ f[e] # NULL /\ f2[e] # NULL
      /\ f2[e].listed /\ f[e] \in RegUser /\ WellFormed(f[e]) /\ c \in Chan
  BY ListedOK, StarNotChan DEF SavedHeap
<1>1. Listed(f2) = Listed(f) /\ Pending(f2) = Pending(f)
  BY <1>0, OthersListed DEF SavedHeap, Listed, Pending
<1>2. \A r \in Regs : f[r] # NULL /\ r # e => f2[r] # NULL /\ Same(f[r], f2[r])
  BY DEF SavedHeap, Others, SameAt
<1>3. \A r \in Listed(f) \cup Pending(f) : r \in Regs /\ f[r] # NULL
  BY DEF Listed, Pending
<1>4. \A r \in Pending(f2) : f2[r].offset = 0 /\ f2[r].modified
  <2>1. e \notin Pending(f)  BY <1>0 DEF Pending, Listed
  <2> QED  BY <1>1, <1>2, <1>3, <2>1, Flags DEF Cached, Same, Looks
<1>5. \A r \in Listed(f2) : f2[r].channel = Star => f2[r].offset = 0
  BY <1>0, <1>1, <1>2, <1>3, StarNotChan DEF Cached, Same, Looks, SavedHeap
<1>6. ASSUME NEW r \in Listed(f), r # e, f[r].channel = c, f[r].offset # 0
      PROVE  f[r].offset # off
  <2>1. CellOK(f[r], d)  BY <1>6 DEF Cached
  <2>2. f[r].offset \in Used(d, c)  BY <1>6, <2>1 DEF CellOK
  <2>3. f[r].offset # f[e].offset  BY <1>0, <1>6 DEF Cached, OwnSlots
  <2> QED  BY <2>2, <2>3
<1>7. ASSUME NEW r \in Listed(f2), f2[r].channel \in Kept
      PROVE  CellOK(f2[r], d2)
  <2>1. CASE r # e
    <3>1. r \in Listed(f) /\ r \in Regs /\ f[r] # NULL /\ f2[r] # NULL
          /\ Same(f[r], f2[r])
      BY <1>1, <1>2, <1>3, <2>1
    <3>2. f[r].channel \in Kept  BY <1>7, <3>1 DEF Same, Looks
    <3>3. CellOK(f[r], d)  BY <3>1, <3>2 DEF Cached
    <3>4. f[r].offset # 0 =>
             /\ f[r].offset \in Used(d2, f[r].channel)
             /\ d2[f[r].channel][f[r].offset] = d[f[r].channel][f[r].offset]
      <4>1. CASE f[r].channel # c
        <5>1. d2[f[r].channel] = d[f[r].channel]
          BY <3>2, <4>1, StarNotChan DEF SlotSet
        <5> QED  BY <3>3, <5>1 DEF CellOK, Used
      <4>2. CASE f[r].channel = c /\ f[r].offset # 0
        <5>1. f[r].offset \in Nat \ {off}  BY <1>6, <2>1, <3>1, <4>2, Flags
        <5>2. f[r].offset \in Used(d, c)  BY <3>3, <4>2 DEF CellOK
        <5> QED  BY <4>2, <5>1, <5>2 DEF SlotSet
      <4> QED  BY <4>1, <4>2
    <3>5. CellOK(f[r], d2)  BY <3>3, <3>4, CellMoved
    <3> QED  BY <3>1, <3>5, Flags, SameCell
  <2>2. CASE r = e
    <3>1. /\ f2[e].channel = c /\ f2[e].realname = f[e].realname
          /\ f2[e].access = f[e].access /\ ~f2[e].modified
          /\ f2[e].offset = (IF f[e].access = 0 THEN 0 ELSE off)
      BY DEF SavedHeap
    <3>2. EntryOf(f2[e]) = EntryOf(f[e])  BY DEF SavedHeap, EntryOf
    <3>3. off \in DOMAIN d2[c] /\ d2[c][off] = make_dbuser(f[e])  BY DEF SlotSet
    <3>4. CASE f[e].access = 0
      BY <2>2, <3>1, <3>4 DEF CellOK
    <3>5. CASE f[e].access # 0
      <4>1. /\ d2[c][off] # NULL /\ d2[c][off].realname = f[e].realname
            /\ EntryOf(d2[c][off]) = EntryOf(f[e])
        BY <1>0, <3>3, <3>5, MakeEntry
      <4>2. off \in Used(d2, c)  BY <3>3, <4>1 DEF Used
      <4> QED  BY <2>2, <3>1, <3>2, <3>5, <4>1, <4>2 DEF CellOK
    <3> QED  BY <3>4, <3>5
  <2> QED  BY <2>1, <2>2
<1>8. OwnSlots(f2)
  <2>1. \A y \in Listed(f2) : y # e => y \in Listed(f)
          /\ f2[y].channel = f[y].channel /\ f2[y].offset = f[y].offset
    BY <1>1, <1>2, <1>3 DEF Same, Looks
  <2>2. f2[e].channel = c /\ (f2[e].offset = 0 \/ f2[e].offset = off)
    BY DEF SavedHeap
  <2>3. \A y \in Listed(f) :
          y # e /\ f[y].channel = c /\ f[y].offset # 0 => f[y].offset # off
    BY <1>6
  <2> HIDE DEF c
  <2> QED  BY <2>1, <2>2, <2>3 DEF Cached, OwnSlots
<1>9. \A x \in Kept : d2[x] # NULL
  <2>1. \A x \in Kept : x # c => d2[x] = d[x]  BY StarNotChan DEF SlotSet
  <2> QED  BY <2>1 DEF SlotSet, Cached
<1> QED  BY <1>4, <1>5, <1>7, <1>8, <1>9 DEF Cached

(* A step that only concerns a channel that may be purged.                 *)
LEMMA ElsewhereCached ==
  ASSUME NEW f, NEW g, NEW d, HeapOK(f, g), Cached(f, d),
         NEW f2, NEW g2, HeapOK(f2, g2), NEW d2, NEW c \in Chan, c \notin Kept,
         \A x \in Chan \ {c} : d2[x] = d[x],
         \A r \in Regs :
           \/ SameAt(f2, f, r)
           \/ /\ f[r] # NULL /\ f[r].listed /\ f[r].channel = c
              /\ f2[r] # NULL /\ f2[r].listed /\ f2[r].channel = c
  PROVE  Cached(f2, d2)
<1>1. Listed(f2) = Listed(f) /\ Pending(f2) = Pending(f)
  BY DEF SameAt, Same, Listed, Pending
<1>2. \A r \in Regs : f[r] # NULL =>
        /\ f2[r] # NULL
        /\ f2[r].channel = f[r].channel
        /\ Same(f[r], f2[r]) \/ (f[r].listed /\ f[r].channel = c)
  BY DEF SameAt, Same, Looks
<1>3. \A r \in Listed(f) \cup Pending(f) : r \in Regs /\ f[r] # NULL
  BY DEF Listed, Pending
<1>4. \A r \in Pending(f2) : f2[r].offset = 0 /\ f2[r].modified
  BY <1>1, <1>2, <1>3, Flags DEF Cached, Same, Looks, Pending
<1>5. \A r \in Listed(f2) : f2[r].channel = Star => f2[r].offset = 0
  BY <1>1, <1>2, <1>3, StarNotChan DEF Cached, Same, Looks
<1>6. ASSUME NEW r \in Listed(f2), f2[r].channel \in Kept
      PROVE  CellOK(f2[r], d2)
  <2>1. r \in Listed(f) /\ r \in Regs /\ f[r] # NULL /\ f2[r] # NULL
        /\ Same(f[r], f2[r]) /\ f[r].channel \in Kept
    BY <1>1, <1>2, <1>3, <1>6
  <2>2. CellOK(f[r], d)  BY <2>1 DEF Cached
  <2>3. d2[f[r].channel] = d[f[r].channel]  BY <2>1, StarNotChan
  <2>4. CellOK(f[r], d2)  BY <2>2, <2>3, CellMoved DEF CellOK, Used
  <2> QED  BY <2>1, <2>4, Flags, SameCell
<1>7. OwnSlots(f2)
  BY <1>1, <1>2, <1>3 DEF Cached, OwnSlots, Same, Looks
<1>8. \A x \in Kept : d2[x] # NULL  BY StarNotChan DEF Cached
<1> QED  BY <1>4, <1>5, <1>6, <1>7, <1>8 DEF Cached

(* The slots of a file, typed.                                             *)
LEMMA UsedSlot ==
  ASSUME NEW d, DiskType(d), NEW c \in Chan, d[c] # NULL
  PROVE  /\ d[c] \in File
         /\ \A k \in Used(d, c) : k \in Nat \ {0} /\ d[c][k] \in Slot
<1>1. d[c] \in File  BY DEF DiskType
<1>2. \A k \in DOMAIN d[c] : k \in Nat \ {0} /\ d[c][k] \in Slot \cup {NULL}
  BY <1>1 DEF File
<1> QED  BY <1>1, <1>2 DEF Used

\* Nobody is suspended any more.
ExpiredHeap(f2, f) ==
  \A r \in Regs :
    /\ f2[r] = NULL <=> f[r] = NULL
    /\ f[r] # NULL =>
         /\ f2[r].channel = f[r].channel /\ f2[r].offset = f[r].offset
         /\ f2[r].realname = f[r].realname /\ f2[r].match = f[r].match
         /\ f2[r].access = f[r].access /\ f2[r].suspend = FALSE
         /\ f2[r].listed = f[r].listed /\ f2[r].modified = f[r].modified

ExpiredDisk(d2, d) ==
  \A c \in Chan :
    /\ d2[c] = NULL <=> d[c] = NULL
    /\ d[c] # NULL =>
         /\ Used(d2, c) = Used(d, c)
         /\ \A k \in Used(d, c) :
              /\ d2[c][k].realname = d[c][k].realname
              /\ d2[c][k].match = d[c][k].match
              /\ d2[c][k].access = d[c][k].access
              /\ d2[c][k].suspend = FALSE

LEMMA ExpireShape ==
  ASSUME Good(regs, vals, query, disk), SuspensionsExpire
  PROVE  ExpiredHeap(regs', regs) /\ ExpiredDisk(disk', disk)
<1>1. /\ regs' = [r \in Regs |-> IF regs[r] = NULL THEN NULL
                                ELSE [regs[r] EXCEPT !.suspend = FALSE]]
      /\ disk' = [c \in Chan |-> IF disk[c] = NULL THEN NULL
                                ELSE Expired(disk[c])]
  BY DEF SuspensionsExpire
<1>2. ASSUME NEW r \in Regs
      PROVE  /\ regs'[r] = NULL <=> regs[r] = NULL
             /\ regs[r] # NULL =>
                  /\ regs'[r].channel = regs[r].channel
                  /\ regs'[r].offset = regs[r].offset
                  /\ regs'[r].realname = regs[r].realname
                  /\ regs'[r].match = regs[r].match
                  /\ regs'[r].access = regs[r].access
                  /\ regs'[r].suspend = FALSE
                  /\ regs'[r].listed = regs[r].listed
                  /\ regs'[r].modified = regs[r].modified
  <2>1. CASE regs[r] = NULL  BY <1>1, <2>1
  <2>2. CASE regs[r] # NULL
    <3>1. regs[r] \in RegUser  BY <2>2 DEF Good, HeapOK, HeapType
    <3> DEFINE e == [regs[r] EXCEPT !.suspend = FALSE]
    <3>2. regs'[r] = e  BY <1>1, <2>2
    <3>3. /\ e \in RegUser /\ e.suspend = FALSE
          /\ e.channel = regs[r].channel /\ e.offset = regs[r].offset
          /\ e.realname = regs[r].realname /\ e.match = regs[r].match
          /\ e.access = regs[r].access
          /\ e.listed = regs[r].listed /\ e.modified = regs[r].modified
      BY <3>1 DEF RegUser
    <3> HIDE DEF e
    <3>4. e # NULL  BY <3>3, NullOK DEF NullOK
    <3> QED  BY <2>2, <3>2, <3>3, <3>4
  <2> QED  BY <2>1, <2>2
<1>3. ASSUME NEW c \in Chan
      PROVE  /\ disk'[c] = NULL <=> disk[c] = NULL
             /\ disk[c] # NULL =>
                  /\ Used(disk', c) = Used(disk, c)
                  /\ \A k \in Used(disk, c) :
                       /\ disk'[c][k].realname = disk[c][k].realname
                       /\ disk'[c][k].match = disk[c][k].match
                       /\ disk'[c][k].access = disk[c][k].access
                       /\ disk'[c][k].suspend = FALSE
  <2>1. CASE disk[c] = NULL  BY <1>1, <2>1
  <2>2. CASE disk[c] # NULL
    <3> DEFINE file == disk[c]
    <3>1. DiskType(disk)  BY DEF Good
    <3>2. /\ file \in File
          /\ \A k \in Used(disk, c) : k \in Nat \ {0} /\ file[k] \in Slot
      BY <2>2, <3>1, UsedSlot
    <3>3. disk'[c] = Expired(file)  BY <1>1, <2>2
    <3>4. Expired(file) # NULL  BY <3>2, ExpiredOK, NullOK DEF NullOK
    <3>5. Expired(file) = [k \in DOMAIN file |->
                             IF file[k] = NULL THEN NULL
                             ELSE [file[k] EXCEPT !.suspend = FALSE]]
      BY DEF Expired
    <3> HIDE DEF file
    <3>6. ASSUME NEW k \in DOMAIN file, file[k] # NULL
          PROVE  /\ disk'[c][k] # NULL
                 /\ disk'[c][k].realname = file[k].realname
                 /\ disk'[c][k].match = file[k].match
                 /\ disk'[c][k].access = file[k].access
                 /\ disk'[c][k].suspend = FALSE
      <4>1. file[k] \in Slot  BY <3>2, <3>6 DEF Used, file
      <4> DEFINE s == [file[k] EXCEPT !.suspend = FALSE]
      <4>2. disk'[c][k] = s  BY <3>3, <3>5, <3>6
      <4>3. /\ s \in Slot /\ s.suspend = FALSE
            /\ s.realname = file[k].realname /\ s.match = file[k].match
            /\ s.access = file[k].access
        BY <4>1 DEF Slot
      <4> HIDE DEF s
      <4>4. s # NULL  BY <4>3, NullOK DEF NullOK
      <4> QED  BY <4>2, <4>3, <4>4
    <3>7. /\ DOMAIN disk'[c] = DOMAIN file
          /\ \A k \in DOMAIN file : file[k] = NULL => disk'[c][k] = NULL
      BY <3>3, <3>5
    <3>8. Used(disk', c) = Used(disk, c)
      BY <3>6, <3>7 DEF Used, file
    <3> QED  BY <2>2, <3>3, <3>4, <3>6, <3>8 DEF Used, file
  <2> QED  BY <2>1, <2>2
<1>4. ExpiredHeap(regs', regs)  BY <1>2 DEF ExpiredHeap
<1>5. ExpiredDisk(disk', disk)  BY <1>3 DEF ExpiredDisk
<1> QED  BY <1>4, <1>5

LEMMA ExpireListed ==
  ASSUME NEW f, NEW f2, ExpiredHeap(f2, f)
  PROVE  Listed(f2) = Listed(f) /\ Pending(f2) = Pending(f)
BY DEF ExpiredHeap, Listed, Pending

LEMMA ExpireCached ==
  ASSUME NEW f, NEW g, NEW d, HeapOK(f, g), DiskType(d), Cached(f, d),
         NEW f2, NEW d2, ExpiredHeap(f2, f), ExpiredDisk(d2, d)
  PROVE  Cached(f2, d2)
<1>1. Listed(f2) = Listed(f) /\ Pending(f2) = Pending(f)  BY ExpireListed
<1>2. \A r \in Regs : f[r] # NULL =>
        /\ f2[r] # NULL /\ f2[r].channel = f[r].channel
        /\ f2[r].offset = f[r].offset /\ f2[r].modified = f[r].modified
  BY DEF ExpiredHeap
<1>3. \A r \in Listed(f) \cup Pending(f) : r \in Regs /\ f[r] # NULL
  BY DEF Listed, Pending
<1>4. \A r \in Pending(f2) : f2[r].offset = 0 /\ f2[r].modified
  BY <1>1, <1>2, <1>3 DEF Cached
<1>5. \A r \in Listed(f2) : f2[r].channel = Star => f2[r].offset = 0
  BY <1>1, <1>2, <1>3 DEF Cached
<1>6. ASSUME NEW r \in Listed(f2), f2[r].channel \in Kept
      PROVE  CellOK(f2[r], d2)
  <2> DEFINE c == f[r].channel
             k == f[r].offset
  <2>1. /\ r \in Regs /\ r \in Listed(f) /\ f[r] # NULL
        /\ f2[r].channel = c /\ f2[r].offset = k
        /\ f2[r].realname = f[r].realname /\ f2[r].match = f[r].match
        /\ f2[r].access = f[r].access /\ f2[r].suspend = FALSE
        /\ f2[r].modified = f[r].modified
    BY <1>1, <1>3 DEF ExpiredHeap
  <2>2. c \in Kept /\ c \in Chan  BY <1>6, <2>1, StarNotChan
  <2>3. CellOK(f[r], d) /\ d[c] # NULL  BY <2>1, <2>2 DEF Cached
  <2>4. /\ Used(d2, c) = Used(d, c)
        /\ k \in Used(d, c) =>
             /\ d2[c][k].realname = d[c][k].realname
             /\ d2[c][k].match = d[c][k].match
             /\ d2[c][k].access = d[c][k].access
             /\ d2[c][k].suspend = FALSE
    BY <2>2, <2>3 DEF ExpiredDisk
  <2>5. k # 0 => k \in Used(d, c)  BY <2>3 DEF CellOK
  <2>6. EntryOf(d[c][k]) = EntryOf(f[r]) =>
          /\ d[c][k].realname = f[r].realname /\ d[c][k].match = f[r].match
          /\ d[c][k].access = f[r].access
    BY DEF EntryOf
  <2>7. k # 0 /\ EntryOf(d[c][k]) = EntryOf(f[r]) =>
          EntryOf(d2[c][k]) = EntryOf(f2[r])
    BY <2>1, <2>4, <2>5, <2>6 DEF EntryOf
  <2> QED  BY <2>1, <2>3, <2>4, <2>5, <2>7 DEF CellOK
<1>7. OwnSlots(f2)  BY <1>1, <1>2, <1>3 DEF Cached, OwnSlots
<1>8. \A c \in Kept : d2[c] # NULL
  BY StarNotChan DEF Cached, ExpiredDisk
<1> QED  BY <1>4, <1>5, <1>6, <1>7, <1>8 DEF Cached

(* A new process: only the master's record is in memory.                   *)
LEMMA FreshCached ==
  ASSUME NEW d, \A c \in Kept : d[c] # NULL
  PROVE  Cached([r \in Regs |-> IF r = Master THEN MasterReg ELSE NULL], d)
<1> DEFINE f == [r \in Regs |-> IF r = Master THEN MasterReg ELSE NULL]
<1>1. \A r \in Regs : f[r] # NULL => r = Master /\ f[r] = MasterReg  OBVIOUS
<1>2. MasterReg.channel = Star /\ MasterReg.listed /\ MasterReg.offset = 0
  BY DEF MasterReg
<1> HIDE DEF f
<1>3. \A r \in Listed(f) : f[r].channel = Star /\ f[r].offset = 0
  BY <1>1, <1>2 DEF Listed
<1>4. Pending(f) = {}  BY <1>1, <1>2 DEF Pending
<1>5. OwnSlots(f)  BY <1>3 DEF OwnSlots
<1>6. Cached(f, d)  BY <1>3, <1>4, <1>5, StarNotChan DEF Cached
<1> QED  BY <1>6 DEF f

-----------------------------------------------------------------------------
(* The shape of every operation *)

\* What is in memory is used or edited, the files stay.
CommandShape ==
  /\ SameHeap(regs', regs) \/ \E r \in Regs : EditHeap(regs', regs, r)
  /\ disk' = disk

LEMMA DeAuthShape ==
  ASSUME Good(regs, vals, query, disk), NEW u, NEW c, DeAuth(u, c)
  PROVE  SameHeap(regs', regs) /\ disk' = disk /\ query' = query
<1>1. PICK z \in Released(u, c) : regs' = z[1] /\ vals' = z[2]
  BY DEF DeAuth
<1> QED  BY <1>1, ReleasedSame DEF DeAuth, Good

LEMMA TryFindShape ==
  ASSUME Good(regs, vals, query, disk), NEW u, NEW c, try_find(u, c)
  PROVE  SameHeap(regs', regs) /\ disk' = disk /\ query' = query
<1>1. PICK r \in Listed(regs) : successful_auth(regs, vals, u, c, r)
  BY DEF try_find, First
<1> QED  BY <1>1, AuthSame DEF try_find, Good

LEMMA ValidateShape ==
  ASSUME Good(regs, vals, query, disk), NEW u, NEW c, NEW pw, validate(u, c, pw)
  PROVE  /\ SameHeap(regs', regs) /\ disk' = disk
         /\ \/ query' = query
            \/ db_fetch(c, [Ask("validate", c, u, online[u]) EXCEPT !.passwd = pw])
<1> DEFINE x == [Ask("validate", c, u, online[u]) EXCEPT !.passwd = pw]
<1>1. PICK z \in Released(u, c) :
        LET fits(chan) == {r \in Listed(z[1]) : /\ z[1][r].channel = chan
                                                /\ Match(online[u], z[1][r].match)
                                                /\ z[1][r].passwd = pw}
            hits == IF fits(c) # {} THEN fits(c) ELSE fits(Star)
        IN  IF hits # {}
            THEN /\ \E r \in First(z[1], hits) :
                      successful_auth(z[1], z[2], u, c, r)
                 /\ UNCHANGED query
            ELSE /\ regs' = z[1] /\ vals' = z[2]
                 /\ db_fetch(c, x)
  BY DEF validate
<1> DEFINE fits(chan) == {r \in Listed(z[1]) : /\ z[1][r].channel = chan
                                               /\ Match(online[u], z[1][r].match)
                                               /\ z[1][r].passwd = pw}
           hits == IF fits(c) # {} THEN fits(c) ELSE fits(Star)
<1>2. disk' = disk  BY DEF validate
<1>3. SameHeap(z[1], regs) /\ HeapOK(z[1], z[2])
  BY ReleasedSame, ReleasedOK DEF Good
<1>4. hits \subseteq Listed(z[1])  OBVIOUS
<1> HIDE DEF x
<1>5. CASE hits # {}
  <2>1. PICK r \in First(z[1], hits) : successful_auth(z[1], z[2], u, c, r)
    BY <1>1, <1>5
  <2>2. query' = query  BY <1>1, <1>5
  <2>3. r \in Listed(z[1])  BY <1>4 DEF First
  <2>4. SameHeap(regs', z[1])  BY <1>3, <2>1, <2>3, AuthSame
  <2> QED  BY <1>2, <1>3, <2>2, <2>4, SameTrans
<1>6. CASE hits = {}
  <2>1. regs' = z[1] /\ db_fetch(c, x)  BY <1>1, <1>6
  <2> QED  BY <1>2, <1>3, <2>1 DEF x
<1> QED  BY <1>5, <1>6

LEMMA ChPassShape ==
  ASSUME Good(regs, vals, query, disk), NEW u, NEW c, NEW pw \in Pws,
         ChPass(u, c, pw)
  PROVE  SameHeap(regs', regs) /\ disk' = disk /\ query' = query
<1>1. PICK r \in IsValid(u, c) : regs' = [regs EXCEPT ![r].passwd = pw]
  BY DEF ChPass
<1>2. r \in Listed(regs)  BY <1>1, ValidOK DEF Good
<1> QED  BY <1>1, <1>2, PasswdSame DEF ChPass, Good

LEMMA RemoveUserShape ==
  ASSUME Good(regs, vals, query, disk), NEW u, NEW c \in Chan, NEW t,
         RemoveUser(u, c, t)
  PROVE  /\ CommandShape
         /\ \/ query' = query
            \/ db_fetch(c, [Ask("remuser", c, u, t) EXCEPT !.action = LAccess(u, c)])
<1> DEFINE acs == LAccess(u, c)
           hits == {r \in Listed(regs) :
                      /\ regs[r].channel = c
                      /\ IF t \in Names THEN regs[r].realname = t
                                        ELSE regs[r].match = t}
           y == [Ask("remuser", c, u, t) EXCEPT !.action = acs]
<1>1. /\ disk' = disk
      /\ IF hits = {} THEN UNCHANGED regs
         ELSE \E r \in First(regs, hits) :
                regs' = IF regs[r].access < acs THEN Removed(regs, r) ELSE regs
      /\ query' = query \/ db_fetch(c, y)
  BY DEF RemoveUser
<1>2. \/ regs' = regs
      \/ \E r \in First(regs, hits) : regs' = Removed(regs, r)
  BY <1>1
<1>3. ASSUME NEW r \in First(regs, hits), regs' = Removed(regs, r)
      PROVE  r \in Regs /\ EditHeap(regs', regs, r)
  <2>1. r \in Listed(regs) /\ regs[r].channel \in Chan  BY DEF First
  <2> QED  BY <1>3, <2>1, RemovedEdit DEF Good, Listed
<1>4. CommandShape  BY <1>1, <1>2, <1>3, SameHeapSelf DEF CommandShape
<1> QED  BY <1>1, <1>4

LEMMA ModUserInfoShape ==
  ASSUME Good(regs, vals, query, disk), NEW u, NEW c \in Chan, NEW field,
         NEW t \in Names \cup Masks, NEW value \in Values(field),
         ModUserInfo(u, c, field, t, value)
  PROVE  /\ CommandShape
         /\ \/ query' = query
            \/ db_fetch(c, [Ask("modinfo", c, u, t)
                              EXCEPT !.field = field, !.value = value])
<1> DEFINE hits == {r \in Listed(regs) :
                      /\ regs[r].channel = c
                      /\ IF t \in Names THEN regs[r].realname = t
                                        ELSE Match(t, regs[r].match)}
           y == [Ask("modinfo", c, u, t) EXCEPT !.field = field, !.value = value]
<1>1. /\ disk' = disk
      /\ IF hits # {}
         THEN /\ \E r \in First(regs, hits) :
                   regs' = do_modinfo(regs, u, r, field, value)
              /\ query' = query
         ELSE db_fetch(c, y) /\ regs' = regs
  BY DEF ModUserInfo
<1>2. CASE hits # {}
  <2>1. PICK r \in hits : regs' = do_modinfo(regs, u, r, field, value)
    BY <1>1, <1>2 DEF First
  <2>2. r \in Listed(regs) /\ regs[r].channel = c  OBVIOUS
  <2>3. Usable(regs, r)
    <3>1. WellFormed(regs[r])  BY <2>2 DEF Good, HeapOK, Shapes, Listed
    <3>2. Star # c /\ Del \notin Names \cup Masks /\ AnyHost # Del
      BY ConstantsOK DEF ConstantsOK
    <3>3. CASE t \in Names  BY <2>2, <3>3 DEF Usable
    <3>4. CASE t \notin Names
      <4>1. Match(t, regs[r].match) /\ t \in Masks  BY <3>4
      <4>2. regs[r].match # Del  BY <3>2, <4>1 DEF Match
      <4> QED  BY <2>2, <3>1, <3>2, <4>2 DEF Usable, WellFormed
    <3> QED  BY <3>3, <3>4
  <2> HIDE DEF hits
  <2>4. SameHeap(regs', regs) \/ EditHeap(regs', regs, r)
    BY <2>1, <2>2, <2>3, ModinfoEdit DEF Good
  <2>5. CommandShape  BY <1>1, <2>2, <2>4 DEF CommandShape, Listed
  <2>6. query' = query  BY <1>1, <1>2
  <2> QED  BY <2>5, <2>6
<1>3. CASE hits = {}
  <2> HIDE DEF y
  <2>1. CommandShape  BY <1>1, <1>3, SameHeapSelf DEF CommandShape
  <2>2. db_fetch(c, y)  BY <1>1, <1>3
  <2> QED  BY <2>1, <2>2 DEF y
<1> QED  BY <1>2, <1>3

\* The new record of AddUser, listed at once if the channel has no file.
AddShape(f, r, u, c, n, acc) ==
  /\ \A x \in Listed(regs) : regs[x].channel = c => regs[x].realname # n
  /\ NewHeap(f, regs, r, c, n, acc) /\ HeapOK(f, vals)
  /\ Pending(f) = Pending(regs) \cup {r}
  /\ \/ disk[c] = NULL /\ ListHeap(regs', f, r) /\ query' = query
     \/ regs' = f /\ Enqueue([Ask("adduser", c, u, n) EXCEPT !.reg = r])
  /\ vals' = vals /\ disk' = disk

LEMMA AddUserShape ==
  ASSUME Good(regs, vals, query, disk), NEW u, NEW c \in Chan, NEW n \in Names,
         NEW m \in Masks, NEW acc \in GrantLevels, NEW pw \in Pws,
         AddUser(u, c, n, m, acc, pw)
  PROVE  \E f, r : AddShape(f, r, u, c, n, acc)
<1> DEFINE reg == NewReg(c, n, m, pw, acc)
<1>1. acc \in 1 .. MASTER_ACCESS - 1
  BY ConstantsOK DEF ConstantsOK, MASTER_ACCESS
<1>2. PICK r \in Fresh(regs) :
        LET new == [regs EXCEPT ![r] = reg]
        IN  IF disk[c] = NULL
            THEN regs' = Insert(new, r) /\ UNCHANGED query
            ELSE regs' = new /\ Enqueue([Ask("adduser", c, u, n) EXCEPT !.reg = r])
  BY DEF AddUser
<1> DEFINE f == [regs EXCEPT ![r] = reg]
<1>3. /\ reg \in RegUser /\ WellFormed(reg) /\ reg.inuse = 0 /\ ~reg.listed
  BY <1>1, NewRegOK
<1>4. regs \in [Regs -> RegUser \cup {NULL}]  BY DEF Good, HeapOK, HeapType
<1>5. NewHeap(f, regs, r, c, n, acc)  BY <1>1, <1>4, NewRegNew
<1> HIDE DEF reg
<1>6. HeapOK(f, vals) /\ Pending(f) = Pending(regs) \cup {r}
  BY <1>3, AllocOK DEF Good
<1>7. ~Present(c, n) /\ vals' = vals /\ disk' = disk  BY DEF AddUser
<1>8. \A x \in Listed(regs) : regs[x].channel = c => regs[x].realname # n
  BY <1>7 DEF Present
<1>9. r \in Regs /\ f[r] # NULL  BY <1>5 DEF NewHeap
<1>10. \/ disk[c] = NULL /\ regs' = Insert(f, r) /\ query' = query
       \/ regs' = f /\ Enqueue([Ask("adduser", c, u, n) EXCEPT !.reg = r])
  BY <1>2
<1> HIDE DEF f
<1>11. regs' = Insert(f, r) => ListHeap(regs', f, r)
  BY <1>6, <1>9, InsertList
<1> QED  BY <1>5, <1>6, <1>7, <1>8, <1>10, <1>11 DEF AddShape

\* A callback first looks the slot's record up, in memory or in the slot.
Loaded(f, c, k, s) ==
  /\ HeapOK(f, vals) /\ Pending(f) = Pending(regs)
  /\ f = regs \/ \E r : LoadHeap(f, regs, r, c, k, s)

\* It then uses or edits the record.
UseShape(f) == SameHeap(regs', f) \/ \E r \in Regs : EditHeap(regs', f, r)

\* adduser's lists the new record only when the nick's slot is given up.
HookShape(f, q, s) ==
  \/ /\ ListHeap(regs', f, q.reg) /\ f = regs
     /\ \E x \in InMemory(q.chan, q.pos) :
          regs[x].access = 0 \/ regs[x].realname # s.realname
  \/ FreeHeap(regs', f, q.reg)

CallbackShape(f, q, s) ==
  /\ Loaded(f, q.chan, q.pos, s)
  /\ IF q.kind = "adduser" THEN HookShape(f, q, s) ELSE UseShape(f)
  /\ q.kind = "validate" => SameHeap(regs', f)
  /\ q.kind # "validate" => vals' = vals

LEMMA CallbackShaped ==
  ASSUME Good(regs, vals, query, disk), NEW q \in Query,
         QueryOK(q, disk), NEW s \in Slot, Callback(q, s),
         q.kind = "adduser" => q.reg \in Pending(regs)
  PROVE  \E f : CallbackShape(f, q, s)
<1>1. q.chan \in Chan /\ q.pos \in Nat \ {0} /\ q.kind \in Kinds
      /\ q.on \in BOOLEAN
  BY DEF Query
<1>2. ASSUME NEW l \in load_dbuser(q.chan, q.pos, s)
      PROVE  /\ Loaded(l[1], q.chan, q.pos, s) /\ HeapOK(l[1], vals)
             /\ l[2] # NULL => Usable(l[1], l[2]) /\ l[2] \in Listed(l[1])
                               /\ l[1][l[2]].channel \in Chan /\ l[2] \in Regs
  <2>1. /\ HeapOK(l[1], vals) /\ Pending(l[1]) = Pending(regs)
        /\ l[2] # NULL => Usable(l[1], l[2]) /\ l[2] \in Listed(l[1])
                          /\ l[1][l[2]].channel \in Chan
    BY <1>1, <1>2, LoadOK DEF Good, Usable
  <2>2. l[1] = regs \/ LoadHeap(l[1], regs, l[2], q.chan, q.pos, s)
    BY <1>1, LoadCase DEF Good
  <2> QED  BY <2>1, <2>2 DEF Loaded, Listed
<1>3. Loaded(regs, q.chan, q.pos, s)  BY DEF Loaded, Good
<1>4. CASE q.kind = "validate"
  <2>1. validate_callback(q, s)  BY <1>4 DEF Callback
  <2>2. CASE online[q.src] = NULL
    <3>1. regs' = regs  BY <2>1, <2>2 DEF validate_callback
    <3> QED
      BY <1>3, <1>4, <3>1, SameHeapSelf DEF CallbackShape, UseShape
  <2>3. CASE online[q.src] # NULL
    <3>1. PICK l \in load_dbuser(q.chan, q.pos, s) :
            IF l[2] # NULL /\ Match(online[q.src], l[1][l[2]].match)
            THEN successful_auth(l[1], vals, q.src, q.chan, l[2])
            ELSE regs' = l[1] /\ UNCHANGED vals
      BY <2>1, <2>3 DEF validate_callback
    <3>2. SameHeap(regs', l[1])
      <4>1. CASE l[2] # NULL /\ Match(online[q.src], l[1][l[2]].match)
        BY <1>2, <3>1, <4>1, AuthSame
      <4>2. CASE ~(l[2] # NULL /\ Match(online[q.src], l[1][l[2]].match))
        BY <3>1, <4>2, SameHeapSelf
      <4> QED  BY <4>1, <4>2
    <3> QED  BY <1>2, <1>4, <3>2 DEF CallbackShape, UseShape
  <2> QED  BY <2>2, <2>3
<1>5. CASE q.kind = "adduser"
  <2>1. adduser_callback(q, s) /\ vals' = vals
    BY <1>5 DEF Callback, adduser_callback
  <2>2. q.reg \in Regs /\ regs[q.reg] # NULL  BY <1>5 DEF Pending
  <2>3. CASE \E x \in InMemory(q.chan, q.pos) : regs[x].access = 0
    <3>1. regs' = Insert(regs, q.reg)  BY <2>1, <2>3 DEF adduser_callback
    <3>2. ListHeap(regs', regs, q.reg)  BY <2>2, <3>1, InsertList DEF Good
    <3>3. HookShape(regs, q, s)  BY <2>3, <3>2 DEF HookShape
    <3> QED  BY <1>3, <1>5, <2>1, <3>3 DEF CallbackShape
  <2>4. CASE ~\E x \in InMemory(q.chan, q.pos) : regs[x].access = 0
    <3>1. PICK l \in load_dbuser(q.chan, q.pos, s) :
               regs' = IF l[2] # NULL THEN Unlinked(l[1], q.reg)
                                      ELSE Insert(regs, q.reg)
      BY <2>1, <2>4 DEF adduser_callback
    <3>2. CASE l[2] # NULL
      <4>1. FreeHeap(regs', l[1], q.reg)
        BY <1>2, <2>2, <3>1, <3>2, UnlinkedFree
      <4>2. HookShape(l[1], q, s)  BY <4>1 DEF HookShape
      <4> QED  BY <1>2, <1>5, <2>1, <4>2 DEF CallbackShape
    <3>3. CASE l[2] = NULL
      <4>1. ListHeap(regs', regs, q.reg)
        BY <2>2, <3>1, <3>3, InsertList DEF Good
      <4>2. \E x \in InMemory(q.chan, q.pos) :
              l[2] = IF Current(regs[x], s) THEN x ELSE NULL
        <5>1. ~LoadHeap(l[1], regs, l[2], q.chan, q.pos, s)
          BY <3>3, ConstantsOK DEF LoadHeap, ConstantsOK
        <5> QED  BY <1>1, <5>1, LoadCase DEF Good
      <4>3. \E x \in InMemory(q.chan, q.pos) :
              regs[x].access = 0 \/ regs[x].realname # s.realname
        <5>1. PICK x \in InMemory(q.chan, q.pos) :
                l[2] = IF Current(regs[x], s) THEN x ELSE NULL
          BY <4>2
        <5>2. x \in Regs  BY DEF InMemory, Listed
        <5>3. ~Current(regs[x], s)
          BY <3>3, <5>1, <5>2, ConstantsOK DEF ConstantsOK
        <5> QED  BY <5>1, <5>3 DEF Current
      <4>4. HookShape(regs, q, s)  BY <4>1, <4>3 DEF HookShape
      <4> QED  BY <1>3, <1>5, <2>1, <4>4 DEF CallbackShape
    <3> QED  BY <3>2, <3>3
  <2> QED  BY <2>3, <2>4
<1>6. CASE q.kind = "suspend"
  <2>1. suspend_callback(q, s)  BY <1>6 DEF Callback
  <2>2. PICK l \in load_dbuser(q.chan, q.pos, s) :
          \/ /\ l[2] # NULL
             /\ regs' = [Touched(l[1], l[2]) EXCEPT ![l[2]].suspend = q.on]
          \/ regs' = l[1]
    BY <2>1 DEF suspend_callback
  <2>3. vals' = vals  BY <2>1 DEF suspend_callback
  <2>4. UseShape(l[1])
    <3>1. CASE regs' = l[1]  BY <3>1, SameHeapSelf DEF UseShape
    <3>2. CASE /\ l[2] # NULL
               /\ regs' = [Touched(l[1], l[2]) EXCEPT ![l[2]].suspend = q.on]
      <4> DEFINE f == Touched(l[1], l[2])
                 r == l[2]
      <4>1. /\ r \in Listed(l[1]) /\ HeapOK(l[1], vals)
            /\ l[1][r].channel \in Chan /\ r \in Regs
        BY <1>2, <3>2
      <4>2. Like(f, l[1])  BY <4>1, TouchedLike
      <4>3. HeapOK(f, vals) /\ r \in Listed(f)  BY <4>1, <4>2, LikeOK
      <4>4. SameHeap(f, l[1]) /\ f[r].modified  BY <4>1, TouchedSame
      <4>5. f[r].channel \in Chan
        BY <4>1, <4>4 DEF SameHeap, SameAt, Same, Looks, Listed
      <4>6. regs' = [f EXCEPT ![r].suspend = q.on]  BY <3>2
      <4> HIDE DEF f, r
      <4>7. EditHeap(regs', f, r)
        BY <1>1, <4>3, <4>4, <4>5, <4>6, SuspendEdit
      <4>8. EditHeap(regs', l[1], r)  BY <4>4, <4>7, MarkedEdit
      <4> QED  BY <4>1, <4>8 DEF UseShape
    <3> QED  BY <2>2, <3>1, <3>2
  <2> QED  BY <1>2, <1>6, <2>3, <2>4 DEF CallbackShape
<1>7. CASE q.kind = "remuser"
  <2>1. remuser_callback(q, s)  BY <1>7 DEF Callback
  <2>2. PICK l \in load_dbuser(q.chan, q.pos, s) :
          \/ l[2] # NULL /\ regs' = Removed(l[1], l[2])
          \/ regs' = l[1]
    BY <2>1 DEF remuser_callback
  <2>3. vals' = vals  BY <2>1 DEF remuser_callback
  <2>4. UseShape(l[1])
    <3>1. CASE regs' = l[1]  BY <3>1, SameHeapSelf DEF UseShape
    <3>2. CASE l[2] # NULL /\ regs' = Removed(l[1], l[2])
      BY <1>2, <3>2, RemovedEdit DEF UseShape
    <3> QED  BY <2>2, <3>1, <3>2
  <2> QED  BY <1>2, <1>7, <2>3, <2>4 DEF CallbackShape
<1>8. CASE q.kind = "modinfo"
  <2>1. modinfo_callback(q, s)  BY <1>8 DEF Callback
  <2>2. PICK l \in load_dbuser(q.chan, q.pos, s) :
          \/ /\ l[2] # NULL
             /\ regs' = do_modinfo(l[1], q.src, l[2], q.field, q.value)
          \/ regs' = l[1]
    BY <2>1 DEF modinfo_callback
  <2>3. vals' = vals  BY <2>1 DEF modinfo_callback
  <2>4. UseShape(l[1])
    <3>1. CASE regs' = l[1]  BY <3>1, SameHeapSelf DEF UseShape
    <3>2. CASE /\ l[2] # NULL
               /\ regs' = do_modinfo(l[1], q.src, l[2], q.field, q.value)
      <4>1. q.value \in Values(q.field)  BY <1>8 DEF QueryOK
      <4>2. \/ SameHeap(do_modinfo(l[1], q.src, l[2], q.field, q.value), l[1])
            \/ EditHeap(do_modinfo(l[1], q.src, l[2], q.field, q.value), l[1], l[2])
        BY <1>2, <3>2, <4>1, ModinfoEdit
      <4> QED  BY <1>2, <3>2, <4>2 DEF UseShape
    <3> QED  BY <2>2, <3>1, <3>2
  <2> QED  BY <1>2, <1>8, <2>3, <2>4 DEF CallbackShape
<1> QED  BY <1>1, <1>4, <1>5, <1>6, <1>7, <1>8 DEF Kinds

FileOf(q) == IF q.kept = NULL THEN disk[q.chan] ELSE q.kept

\* Query x is query q, further on.
Carried(q, x) ==
  /\ x # NULL /\ x.kind = q.kind /\ x.chan = q.chan /\ x.info = q.info
  /\ x.reg = q.reg /\ x.kept = q.kept

\* One read of query i: the end of the file, a slot passed over, or a hit.
ReadEnd(q, x) ==
  /\ q.pos > Len(FileOf(q))
  /\ ~x.open /\ x.found = q.found
  /\ regs' = regs /\ vals' = vals
ReadPast(q, x, s) ==
  /\ s = NULL \/ ~Hit(q, s)
  /\ x.open /\ x.found = q.found
  /\ regs' = regs /\ vals' = vals
ReadHit(q, x, s) ==
  /\ s \in Slot /\ Hit(q, s)
  /\ x.open <=> ~StopsAtHit(q)
  /\ x.found <=> (q.found \/ q.kind = "adduser")
  /\ \E f : CallbackShape(f, q, s)

ReadShape(q, x) ==
  \/ ReadEnd(q, x)
  \/ /\ q.pos \in DOMAIN FileOf(q) /\ x.pos = q.pos + 1
     /\ ReadPast(q, x, FileOf(q)[q.pos]) \/ ReadHit(q, x, FileOf(q)[q.pos])

LEMMA ReadShaped ==
  ASSUME Good(regs, vals, query, disk), NEW i \in Qids, read_db(i)
  PROVE  /\ query[i] \in Query /\ query[i].open /\ QueryOK(query[i], disk)
         /\ Carried(query[i], query'[i]) /\ ReadShape(query[i], query'[i])
         /\ \A j \in Qids \ {i} : query'[j] = query[j]
         /\ disk' = disk
<1> DEFINE q == query[i]
           file == FileOf(q)
           s == file[q.pos]
           hit == s # NULL /\ Hit(q, s)
           last == hit /\ StopsAtHit(q)
           found == q.found \/ (hit /\ q.kind = "adduser")
           end == [q EXCEPT !.open = FALSE]
           next == [q EXCEPT !.pos = @ + 1, !.found = found, !.open = ~last]
<1>1. q \in Query /\ q # NULL /\ q.open /\ QueryOK(q, disk)
  BY DEF read_db, Good, QueryType, AsksOK
<1>2. disk' = disk  BY DEF read_db
<1>3. file \in File
  <2>1. q.chan \in Chan /\ q.kept \in File \cup {NULL}  BY <1>1 DEF Query
  <2>2. q.kept = NULL => disk[q.chan] # NULL  BY <1>1 DEF QueryOK
  <2> QED  BY <2>1, <2>2 DEF Good, DiskType, FileOf
<1>4. Len(file) \in Nat /\ q.pos \in Nat \ {0} /\ DOMAIN file = 1 .. Len(file)
  BY <1>1, <1>3 DEF File, Query
<1>5. CASE q.pos > Len(file)
  <2>1. query' = [query EXCEPT ![i].open = FALSE] /\ regs' = regs /\ vals' = vals
    BY <1>5 DEF read_db, FileOf
  <2>2. query' = [query EXCEPT ![i] = end]  BY <2>1 DEF Good, QueryType
  <2>3. query'[i] = end /\ \A j \in Qids \ {i} : query'[j] = query[j]
    BY <2>2 DEF Good, QueryType
  <2> HIDE DEF q, file, s, hit, last, found, next
  <2>4. /\ end \in Query /\ end.kind = q.kind /\ end.chan = q.chan
        /\ end.info = q.info /\ end.reg = q.reg /\ end.kept = q.kept
        /\ ~end.open /\ end.found = q.found
    <3>1. /\ end \in Query /\ end.kind = q.kind /\ end.info = q.info
          /\ end.reg = q.reg /\ ~end.open /\ end.found = q.found
      BY <1>1, ClosedOK
    <3>2. end.chan = q.chan /\ end.kept = q.kept  BY <1>1 DEF Query
    <3> QED  BY <3>1, <3>2
  <2> USE DEF q, file
  <2> HIDE DEF end
  <2>5. end # NULL  BY <2>4, NullOK DEF NullOK
  <2>6. Carried(q, end)  BY <2>4, <2>5 DEF Carried
  <2>7. ReadEnd(q, end)  BY <1>5, <2>1, <2>4 DEF ReadEnd
  <2> QED  BY <1>1, <1>2, <2>3, <2>6, <2>7 DEF ReadShape
<1>6. CASE ~(q.pos > Len(file))
  <2>1. /\ query' = [query EXCEPT ![i].pos = @ + 1,
                         ![i].found = @ \/ (hit /\ q.kind = "adduser"),
                         ![i].open = ~(hit /\ StopsAtHit(q))]
        /\ IF hit THEN Callback(q, s) ELSE regs' = regs /\ vals' = vals
    BY <1>6 DEF read_db, FileOf
  <2>2. s \in Slot \cup {NULL} /\ q.pos \in DOMAIN file
    <3>1. q.pos \in 1 .. Len(file)  BY <1>4, <1>6
    <3> QED  BY <1>3, <1>4, <3>1 DEF File
  <2>3. (hit \in BOOLEAN) /\ (hit <=> s # NULL /\ Hit(q, s))  OBVIOUS
  <2> HIDE DEF hit
  <2>4. query' = [query EXCEPT ![i] = next]  BY <2>1 DEF Good, QueryType
  <2>5. query'[i] = next /\ \A j \in Qids \ {i} : query'[j] = query[j]
    BY <2>4 DEF Good, QueryType
  <2>6. found \in BOOLEAN /\ (found <=> q.found \/ (hit /\ q.kind = "adduser"))
    OBVIOUS
  <2>7. last \in BOOLEAN /\ (last <=> hit /\ StopsAtHit(q))  OBVIOUS
  <2> HIDE DEF found, last
  <2>8. q.found \in BOOLEAN /\ q.pos + 1 \in Nat \ {0}  BY <1>1 DEF Query
  <2> DEFINE o == ~last
             n1 == [q EXCEPT !.pos = @ + 1]
             n2 == [n1 EXCEPT !.found = found]
             n3 == [n2 EXCEPT !.open = o]
  <2>9. next = n3  OBVIOUS
  <2>10. /\ n1 \in Query /\ n1.kind = q.kind /\ n1.chan = q.chan
         /\ n1.info = q.info /\ n1.reg = q.reg /\ n1.kept = q.kept
         /\ n1.pos = q.pos + 1
    BY <1>1, <2>8 DEF Query
  <2> HIDE DEF n1, next
  <2>11. /\ n2 \in Query /\ n2.kind = q.kind /\ n2.chan = q.chan
         /\ n2.info = q.info /\ n2.reg = q.reg /\ n2.kept = q.kept
         /\ n2.pos = q.pos + 1 /\ n2.found = found
    BY <2>6, <2>10 DEF Query
  <2> HIDE DEF n2
  <2>12. /\ n3 \in Query /\ n3.kind = q.kind /\ n3.chan = q.chan
         /\ n3.info = q.info /\ n3.reg = q.reg /\ n3.kept = q.kept
         /\ n3.pos = q.pos + 1 /\ n3.found = found /\ n3.open = ~last
    <3>1. o \in BOOLEAN /\ (o <=> ~last)  BY <2>7
    <3> HIDE DEF o
    <3>2. /\ n3 \in Query /\ n3.kind = q.kind /\ n3.chan = q.chan
          /\ n3.info = q.info /\ n3.reg = q.reg /\ n3.kept = q.kept
          /\ n3.pos = n2.pos /\ n3.found = n2.found /\ n3.open = o
      BY <2>11, <3>1 DEF Query
    <3> QED  BY <2>7, <2>11, <3>1, <3>2
  <2> HIDE DEF n3
  <2>13. n3 # NULL /\ query'[i] = n3
    BY <2>5, <2>9, <2>12, NullOK DEF NullOK
  <2>14. Carried(q, n3)  BY <2>12, <2>13 DEF Carried
  <2>15. CASE hit
    <3>1. s \in Slot /\ Hit(q, s) /\ Callback(q, s)
      BY <2>1, <2>2, <2>3, <2>15
    <3>2. q.kind = "adduser" => q.reg \in Pending(regs)
      <4>1. q.kind = "adduser" => ~q.found  BY <1>1, <2>8 DEF QueryOK
      <4> QED  BY <1>1, <4>1 DEF Good, Owned, Holds
    <3>3. \E f : CallbackShape(f, q, s)
      BY <1>1, <3>1, <3>2, CallbackShaped
    <3>4. (n3.open <=> ~StopsAtHit(q)) /\ (n3.found <=> q.found \/ q.kind = "adduser")
      BY <2>6, <2>7, <2>12, <2>15
    <3>5. ReadHit(q, n3, s)  BY <3>1, <3>3, <3>4 DEF ReadHit
    <3> QED
      BY <1>1, <1>2, <2>2, <2>5, <2>12, <2>13, <2>14, <3>5 DEF ReadShape
  <2>16. CASE ~hit
    <3>1. n3.open /\ n3.found = q.found
      BY <2>6, <2>7, <2>8, <2>12, <2>16
    <3>2. ReadPast(q, n3, s)  BY <2>1, <2>3, <2>16, <3>1 DEF ReadPast
    <3> QED
      BY <1>1, <1>2, <2>2, <2>5, <2>12, <2>13, <2>14, <3>2 DEF ReadShape
  <2> QED  BY <2>15, <2>16
<1> QED  BY <1>5, <1>6

\* One record of a pass: f is the heap before it is perhaps dropped.
SyncShape(f, r) ==
  /\ r \in cursor /\ r \in Listed(regs) /\ cursor' = cursor \ {r}
  /\ HeapOK(f, vals)
  /\ \/ f = regs /\ disk' = disk /\ ~NeedsSave(regs[r])
     \/ \E off \in SlotFor(regs[r]) :
          /\ regs[r].channel \in Chan /\ off \in Nat \ {0}
          /\ SavedHeap(f, regs, r, off) /\ Still(f, regs, r)
          /\ ColdSave(regs[r], off)
  /\ \/ regs' = f
     \/ /\ FreeHeap(regs', f, r) /\ Still(regs', f, r)
        /\ regs[r].access < MASTER_ACCESS
  /\ (sync' = sync /\ saving' = saving) \/ sync' = "idle"
  /\ vals' = vals /\ query' = query

LEMMA SyncShaped ==
  ASSUME Good(regs, vals, query, disk), Rest, SyncOne
  PROVE  \E f, r : SyncShape(f, r)
<1>1. PICK r \in First(regs, cursor), expired \in BOOLEAN :
       LET reg == regs[r]
           Evict(f) == IF Evictable(reg, expired) THEN Unlinked(f, r) ELSE f
       IN  /\ IF NeedsSave(reg)
              THEN \E off \in SlotFor(reg) :
                     ColdSave(reg, off) /\ regs' = Evict(Saved(regs, r, off))
              ELSE regs' = Evict(regs) /\ UNCHANGED disk
           /\ cursor' = cursor \ {r}
  BY DEF SyncOne
<1> DEFINE reg == regs[r]
           Evict(f) == IF Evictable(reg, expired) THEN Unlinked(f, r) ELSE f
<1>2. r \in cursor /\ cursor \subseteq Listed(regs) /\ r \in Listed(regs)
  BY DEF First, Rest, CursorOK
<1>3. r \in Regs /\ reg # NULL /\ reg \in RegUser /\ WellFormed(reg)
  BY <1>2, ListedOK DEF Good
<1>4. vals' = vals /\ query' = query /\ cursor' = cursor \ {r}
  BY <1>1 DEF SyncOne
<1>5. (sync' = sync /\ saving' = saving) \/ sync' = "idle"
  BY DEF SyncOne
<1>6. PICK f :
        /\ HeapOK(f, vals) /\ regs' = Evict(f)
        /\ \/ f = regs /\ disk' = disk /\ ~NeedsSave(reg)
           \/ \E off \in SlotFor(reg) :
                /\ reg.channel \in Chan /\ off \in Nat \ {0}
                /\ SavedHeap(f, regs, r, off) /\ Still(f, regs, r)
                /\ ColdSave(reg, off)
  <2>1. CASE NeedsSave(reg)
    <3>1. PICK off \in SlotFor(reg) :
                 ColdSave(reg, off) /\ regs' = Evict(Saved(regs, r, off))
      BY <1>1, <2>1
    <3>2. reg.channel \in Chan
      BY <1>3, <2>1 DEF NeedsSave, WellFormed, RegUser, AllChan, MASTER_ACCESS
    <3>3. off \in Nat \ {0}
      BY <1>3, <3>2, SlotForOK DEF Good, RegUser
    <3>4. /\ SavedHeap(Saved(regs, r, off), regs, r, off)
          /\ Still(Saved(regs, r, off), regs, r)
      BY <1>2, <3>3, SavedSaves DEF Good
    <3>5. HeapOK(Saved(regs, r, off), vals)
      <4>1. Like(Saved(regs, r, off), regs)
        BY <1>2, <2>1, <3>1, SyncSave
      <4> QED  BY <4>1, LikeOK DEF Good
    <3> QED  BY <3>1, <3>2, <3>3, <3>4, <3>5
  <2>2. CASE ~NeedsSave(reg)
    BY <1>1, <2>2 DEF Good
  <2> QED  BY <2>1, <2>2
<1>7. \/ regs' = f
      \/ /\ FreeHeap(regs', f, r) /\ Still(regs', f, r)
         /\ reg.access < MASTER_ACCESS
  <2>1. CASE Evictable(reg, expired)
    <3>1. regs' = Unlinked(f, r)  BY <1>6, <2>1
    <3>2. reg.access < MASTER_ACCESS  BY <2>1 DEF Evictable
    <3> QED  BY <1>3, <1>6, <3>1, <3>2, UnlinkedFree, UnlinkedStill
  <2>2. CASE ~Evictable(reg, expired)
    BY <1>6, <2>2
  <2> QED  BY <2>1, <2>2
<1> HIDE DEF Evict
<1>8. SyncShape(f, r)
  BY <1>2, <1>4, <1>5, <1>6, <1>7 DEF SyncShape
<1> QED  BY <1>8


(* The end of a query gives a record that it still holds to the table.     *)
LEMMA EndShape ==
  ASSUME Good(regs, vals, query, disk), NEW i \in Qids, end_db_read(i)
  PROVE  /\ query[i] # NULL /\ query'[i] = NULL
         /\ \A j \in Qids \ {i} : query'[j] = query[j]
         /\ vals' = vals /\ disk' = disk
         /\ Holds(query, i) => /\ query[i].reg \in Pending(regs)
                               /\ ListHeap(regs', regs, query[i].reg)
         /\ ~Holds(query, i) => regs' = regs
<1>1. /\ query[i] # NULL /\ query' = [query EXCEPT ![i] = NULL]
      /\ vals' = vals /\ disk' = disk
      /\ regs' = IF Holds(query, i) THEN Insert(regs, query[i].reg) ELSE regs
  BY DEF end_db_read, Holds
<1>2. query'[i] = NULL /\ \A j \in Qids \ {i} : query'[j] = query[j]
  BY <1>1 DEF Good, QueryType
<1>3. CASE Holds(query, i)
  <2>1. query[i].reg \in Pending(regs)  BY <1>3 DEF Good, Owned
  <2>2. query[i].reg \in Regs /\ regs[query[i].reg] # NULL  BY <2>1 DEF Pending
  <2>3. ListHeap(regs', regs, query[i].reg)
    BY <1>1, <1>3, <2>2, InsertList DEF Good
  <2> QED  BY <1>1, <1>2, <1>3, <2>1, <2>3
<1>4. CASE ~Holds(query, i)  BY <1>1, <1>2, <1>4
<1> QED  BY <1>3, <1>4

-----------------------------------------------------------------------------
(* Every operation keeps what Cached and QueriesKept say *)

(* A query that is sent has not lost its file.                             *)
LEMMA EnqueueKept ==
  ASSUME QueryType(query), QueriesKept, NEW x, x.kept = NULL, Enqueue(x)
  PROVE  QueriesKept'
<1>1. PICK i \in Fresh(query) : query' = [query EXCEPT ![i] = x]  BY DEF Enqueue
<1>2. i \in Qids  BY DEF Fresh, QueryType
<1>3. query'[i] = x /\ \A j \in Qids \ {i} : query'[j] = query[j]
  BY <1>1, <1>2 DEF QueryType
<1> QED  BY <1>3 DEF QueriesKept

LEMMA FetchKept ==
  ASSUME QueryType(query), QueriesKept, NEW c, NEW x, x.kept = NULL,
         db_fetch(c, x)
  PROVE  QueriesKept'
<1>1. query' = query \/ Enqueue(x)  BY DEF db_fetch
<1> QED  BY <1>1, EnqueueKept DEF QueriesKept

LEMMA CommandCached ==
  ASSUME Good(regs, vals, query, disk), Good(regs', vals', query', disk'),
         Cached(regs, disk), CommandShape
  PROVE  Cached(regs', disk')
<1>1. disk' = disk /\ HeapOK(regs, vals) /\ HeapOK(regs', vals')
  BY DEF CommandShape, Good
<1>2. CASE SameHeap(regs', regs)
  <2>1. Cached(regs', disk)  BY <1>1, <1>2, SameCached
  <2> QED  BY <1>1, <2>1
<1>3. CASE \E r \in Regs : EditHeap(regs', regs, r)
  <2>1. Cached(regs', disk)  BY <1>1, <1>3, EditCached
  <2> QED  BY <1>1, <2>1
<1> QED  BY <1>2, <1>3 DEF CommandShape

LEMMA AddUserCached ==
  ASSUME Good(regs, vals, query, disk), Good(regs', vals', query', disk'),
         Cached(regs, disk), QueriesKept,
         NEW u, NEW c \in Chan, NEW n \in Names, NEW m \in Masks,
         NEW acc \in GrantLevels, NEW pw \in Pws, AddUser(u, c, n, m, acc, pw)
  PROVE  Cached(regs', disk') /\ QueriesKept'
<1>1. PICK f, r : AddShape(f, r, u, c, n, acc)  BY AddUserShape
<1>2. /\ NewHeap(f, regs, r, c, n, acc) /\ HeapOK(f, vals)
      /\ Pending(f) = Pending(regs) \cup {r}
      /\ \/ disk[c] = NULL /\ ListHeap(regs', f, r) /\ query' = query
         \/ regs' = f /\ Enqueue([Ask("adduser", c, u, n) EXCEPT !.reg = r])
      /\ disk' = disk
  BY <1>1 DEF AddShape
<1>3. HeapOK(regs, vals) /\ HeapOK(regs', vals')  BY DEF Good
<1>4. Cached(f, disk)  BY <1>2, <1>3, NewCached
<1>5. CASE disk[c] = NULL /\ ListHeap(regs', f, r) /\ query' = query
  <2>1. r \in Pending(f)  BY <1>2
  <2>2. Cached(regs', disk)  BY <1>2, <1>3, <1>4, <1>5, <2>1, ListCached
  <2> QED  BY <1>2, <1>5, <2>2 DEF QueriesKept
<1>6. CASE regs' = f /\ Enqueue([Ask("adduser", c, u, n) EXCEPT !.reg = r])
  <2> DEFINE x == [Ask("adduser", c, u, n) EXCEPT !.reg = r]
  <2>1. x.kept = NULL  BY DEF Ask
  <2> HIDE DEF x
  <2>2. Enqueue(x)  BY <1>6 DEF x
  <2>3. QueriesKept'  BY <2>1, <2>2, EnqueueKept DEF Good
  <2> QED  BY <1>2, <1>4, <1>6, <2>3
<1> QED  BY <1>2, <1>5, <1>6

(* What a callback loaded is what the slot holds.                          *)
LEMMA LoadedCached ==
  ASSUME Good(regs, vals, query, disk), Cached(regs, disk), NEW f,
         NEW c \in Chan, NEW k \in Nat \ {0}, NEW s \in Slot,
         Loaded(f, c, k, s), c \in Kept => k \in Used(disk, c) /\ disk[c][k] = s
  PROVE  Cached(f, disk)
<1>1. HeapOK(regs, vals) /\ HeapOK(f, vals)  BY DEF Good, Loaded
<1>2. CASE f = regs  BY <1>2
<1>3. CASE \E r : LoadHeap(f, regs, r, c, k, s)
  <2>1. PICK r : LoadHeap(f, regs, r, c, k, s)  BY <1>3
  <2> QED  BY <1>1, <2>1, LoadCached
<1> QED  BY <1>2, <1>3 DEF Loaded

(* A query that reads a kept channel reads its file.                       *)
LEMMA ReadsFile ==
  ASSUME Good(regs, vals, query, disk), QueriesKept, NEW i \in Qids,
         query[i] # NULL, query[i] \in Query, query[i].chan \in Kept,
         query[i].pos \in DOMAIN FileOf(query[i]),
         FileOf(query[i])[query[i].pos] \in Slot
  PROVE  /\ FileOf(query[i]) = disk[query[i].chan]
         /\ query[i].pos \in Used(disk, query[i].chan)
<1>1. query[i].kept = NULL  BY DEF QueriesKept
<1>2. FileOf(query[i]) = disk[query[i].chan]  BY <1>1 DEF FileOf
<1> QED  BY <1>2, NullOK DEF Used, NullOK

LEMMA ReadCached ==
  ASSUME Good(regs, vals, query, disk), Good(regs', vals', query', disk'),
         Cached(regs, disk), QueriesKept, NEW i \in Qids, read_db(i)
  PROVE  Cached(regs', disk') /\ QueriesKept'
<1> DEFINE q == query[i]
           x == query'[i]
           s == FileOf(q)[q.pos]
<1>1. /\ q \in Query /\ q.open /\ QueryOK(q, disk)
      /\ Carried(q, x) /\ ReadShape(q, x)
      /\ \A j \in Qids \ {i} : query'[j] = query[j]
      /\ disk' = disk
  BY ReadShaped
<1>2. q # NULL /\ q.chan \in Chan /\ q.pos \in Nat \ {0}
  BY <1>1, NullOK DEF Query, NullOK
<1>3. QueriesKept'
  <2>1. x.chan = q.chan /\ x.kept = q.kept  BY <1>1 DEF Carried
  <2>2. x.chan \in Kept => x.kept = NULL  BY <1>2, <2>1 DEF QueriesKept
  <2> QED  BY <1>1, <2>2 DEF QueriesKept
<1>4. HeapOK(regs, vals) /\ HeapOK(regs', vals')  BY DEF Good
<1>5. CASE regs' = regs  BY <1>1, <1>3, <1>5
<1>6. CASE q.pos \in DOMAIN FileOf(q) /\ ReadHit(q, x, s)
  <2>1. s \in Slot /\ \E f : CallbackShape(f, q, s)  BY <1>6 DEF ReadHit
  <2>2. PICK f : CallbackShape(f, q, s)  BY <2>1
  <2>3. Loaded(f, q.chan, q.pos, s)  BY <2>2 DEF CallbackShape
  <2>4. q.chan \in Kept => q.pos \in Used(disk, q.chan) /\ disk[q.chan][q.pos] = s
    BY <1>1, <1>2, <1>6, <2>1, ReadsFile
  <2> HIDE DEF s, q, x
  <2>5. Cached(f, disk) /\ HeapOK(f, vals) /\ Pending(f) = Pending(regs)
    BY <1>2, <2>1, <2>3, <2>4, LoadedCached DEF Loaded
  <2>6. Cached(regs', disk)
    <3>1. CASE q.kind = "adduser"
      <4>1. q.reg \in Pending(f)
        <5>1. ~q.found  BY <1>1, <3>1 DEF QueryOK
        <5>2. Holds(query, i)  BY <1>2, <3>1, <5>1 DEF Holds, q
        <5> QED  BY <2>5, <5>2 DEF Good, Owned, q
      <4>2. ListHeap(regs', f, q.reg) \/ FreeHeap(regs', f, q.reg)
        BY <2>2, <3>1 DEF CallbackShape, HookShape
      <4> QED  BY <1>4, <2>5, <4>1, <4>2, ListCached, FreeCached
    <3>2. CASE q.kind # "adduser"
      <4>1. SameHeap(regs', f) \/ \E r \in Regs : EditHeap(regs', f, r)
        BY <2>2, <3>2 DEF CallbackShape, UseShape
      <4> QED  BY <1>4, <2>5, <4>1, SameCached, EditCached
    <3> QED  BY <3>1, <3>2
  <2> QED  BY <1>1, <1>3, <2>6
<1> QED  BY <1>1, <1>5, <1>6 DEF ReadShape, ReadEnd, ReadPast

LEMMA EndCached ==
  ASSUME Good(regs, vals, query, disk), Good(regs', vals', query', disk'),
         Cached(regs, disk), QueriesKept, NEW i \in Qids, end_db_read(i)
  PROVE  Cached(regs', disk') /\ QueriesKept'
<1>1. /\ query[i] # NULL /\ query'[i] = NULL
      /\ \A j \in Qids \ {i} : query'[j] = query[j]
      /\ disk' = disk
      /\ Holds(query, i) => /\ query[i].reg \in Pending(regs)
                            /\ ListHeap(regs', regs, query[i].reg)
      /\ ~Holds(query, i) => regs' = regs
  BY EndShape
<1>2. QueriesKept'  BY <1>1 DEF QueriesKept
<1>3. HeapOK(regs, vals) /\ HeapOK(regs', vals')  BY DEF Good
<1>4. Cached(regs', disk)
  <2>1. CASE Holds(query, i)  BY <1>1, <1>3, <2>1, ListCached
  <2>2. CASE ~Holds(query, i)  BY <1>1, <2>2
  <2> QED  BY <2>1, <2>2
<1> QED  BY <1>1, <1>2, <1>4

(* register is for a channel without a file, so not for a kept one.        *)
LEMMA RegChanCached ==
  ASSUME Good(regs, vals, query, disk), Good(regs', vals', query', disk'),
         Cached(regs, disk), NEW u \in Users, NEW c \in Chan, NEW n \in Names,
         NEW m \in Masks, NEW pw \in Pws, RegChan(u, c, n, m, pw)
  PROVE  Cached(regs', disk')
<1> DEFINE reg == NewReg(c, n, m, pw, OWNER_ACCESS)
<1>1. PICK r \in Fresh(regs), off \in SlotFor(reg) :
        /\ ColdSave(reg, off)
        /\ regs' = Saved(Insert([regs EXCEPT ![r] = reg], r), r, off)
  BY DEF RegChan
<1>2. disk[c] = NULL  BY DEF RegChan
<1>3. c \notin Kept  BY <1>2 DEF Cached
<1>4. OWNER_ACCESS \in 1 .. MASTER_ACCESS - 1
  BY DEF OWNER_ACCESS, MASTER_ACCESS
<1>5. /\ reg \in RegUser /\ WellFormed(reg) /\ reg.inuse = 0 /\ ~reg.listed
      /\ reg.channel = c
  BY <1>4, NewRegOK
<1>6. off \in Nat
  <2>1. off \in Nat \ {0}  BY <1>5, SlotForOK DEF Good, RegUser
  <2> QED  BY <2>1
<1>7. \A x \in Chan \ {c} : disk'[x] = disk[x]
  BY <1>1, <1>5 DEF ColdSave, Good, DiskType
<1> DEFINE new == [regs EXCEPT ![r] = reg]
           ins == Insert(new, r)
<1>8. /\ r \in Regs /\ regs \in [Regs -> RegUser \cup {NULL}]
      /\ HeapOK(regs, vals) /\ HeapOK(regs', vals')
  BY DEF Fresh, Good, HeapOK, HeapType
<1>9. NewHeap(new, regs, r, c, n, OWNER_ACCESS)  BY <1>4, <1>8, NewRegNew
<1> HIDE DEF reg
<1>10. HeapOK(new, vals) /\ Pending(new) = Pending(regs) \cup {r}
  BY <1>5, <1>8, AllocOK
<1>11. regs' = Saved(ins, r, off)  BY <1>1
<1> HIDE DEF new
<1>12. new[r] # NULL /\ new[r].channel = c  BY <1>9 DEF NewHeap
<1>13. HeapOK(ins, vals) /\ Listed(ins) = Listed(new) \cup {r}
  BY <1>8, <1>10, <1>12, InsertOK
<1>14. ListHeap(ins, new, r)  BY <1>8, <1>10, <1>12, InsertList
<1> HIDE DEF ins
<1>15. Cached(new, disk)  BY <1>8, <1>9, <1>10, NewCached
<1>16. Cached(ins, disk)  BY <1>10, <1>13, <1>14, <1>15, ListCached
<1>17. SavedHeap(regs', ins, r, off)  BY <1>6, <1>11, <1>13, SavedSaves
<1>18. ins[r] # NULL /\ ins[r].listed /\ ins[r].channel = c
  BY <1>12, <1>14 DEF ListHeap, Looks
<1>19. regs'[r] # NULL /\ regs'[r].listed /\ regs'[r].channel = c
  BY <1>17, <1>18 DEF SavedHeap
<1>20. \A x \in Regs :
         \/ SameAt(regs', ins, x)
         \/ /\ ins[x] # NULL /\ ins[x].listed /\ ins[x].channel = c
            /\ regs'[x] # NULL /\ regs'[x].listed /\ regs'[x].channel = c
  BY <1>17, <1>18, <1>19 DEF SavedHeap, Others
<1> QED  BY <1>3, <1>7, <1>8, <1>13, <1>16, <1>20, ElsewhereCached

(* Nor is purge.                                                           *)
LEMMA PurgeCached ==
  ASSUME Good(regs, vals, query, disk), Good(regs', vals', query', disk'),
         Cached(regs, disk), QueriesKept, NEW u, NEW c \in Chan, purge(u, c)
  PROVE  Cached(regs', disk') /\ QueriesKept'
<1>1. /\ c \notin Kept
      /\ regs' = [r \in Regs |-> IF r \in Listed(regs) /\ regs[r].channel = c
                                 THEN Purged(regs[r]) ELSE regs[r]]
      /\ disk' = [disk EXCEPT ![c] = NULL]
      /\ query' = [i \in Qids |->
           IF query[i] # NULL /\ query[i].chan = c /\ query[i].kept = NULL
           THEN [query[i] EXCEPT !.kept = disk[c]] ELSE query[i]]
  BY DEF purge, Kept
<1>2. ASSUME NEW i \in Qids, query'[i] # NULL, query'[i].chan \in Kept
      PROVE  query'[i].kept = NULL
  <2>1. CASE query'[i] = query[i]  BY <1>2, <2>1 DEF QueriesKept
  <2>2. CASE query'[i] # query[i]
    <3>1. /\ query[i] # NULL /\ query[i].chan = c
          /\ query'[i] = [query[i] EXCEPT !.kept = disk[c]]
      BY <1>1, <2>2
    <3>2. query[i] \in Query  BY <3>1 DEF Good, QueryType
    <3>3. query'[i].chan = c  BY <3>1, <3>2 DEF Query
    <3> QED  BY <1>1, <1>2, <3>3
  <2> QED  BY <2>1, <2>2
<1>3. QueriesKept'  BY <1>2 DEF QueriesKept
<1>4. \A x \in Chan \ {c} : disk'[x] = disk[x]  BY <1>1 DEF Good, DiskType
<1>5. ASSUME NEW r \in Regs
      PROVE  \/ SameAt(regs', regs, r)
             \/ /\ regs[r] # NULL /\ regs[r].listed /\ regs[r].channel = c
                /\ regs'[r] # NULL /\ regs'[r].listed /\ regs'[r].channel = c
  <2>1. CASE r \in Listed(regs) /\ regs[r].channel = c
    <3>1. /\ regs[r] # NULL /\ regs[r].listed /\ regs[r] \in RegUser
          /\ WellFormed(regs[r])
      BY <2>1, ListedOK DEF Good
    <3>2. regs'[r] = Purged(regs[r])  BY <1>1, <2>1
    <3>3. /\ Purged(regs[r]) \in RegUser
          /\ Purged(regs[r]).listed = regs[r].listed
      BY <2>1, <3>1, PurgedOK
    <3>4. Purged(regs[r]).channel = c  BY <2>1, <3>1 DEF Purged, RegUser
    <3> QED  BY <2>1, <3>1, <3>2, <3>3, <3>4, NullOK DEF NullOK
  <2>2. CASE ~(r \in Listed(regs) /\ regs[r].channel = c)
    <3>1. regs'[r] = regs[r]  BY <1>1, <2>2
    <3> QED  BY <3>1, SameSelf DEF SameAt
  <2> QED  BY <2>1, <2>2
<1>6. Cached(regs', disk')
  <2>1. HeapOK(regs, vals) /\ HeapOK(regs', vals')  BY DEF Good
  <2>2. \A r \in Regs :
          \/ SameAt(regs', regs, r)
          \/ /\ regs[r] # NULL /\ regs[r].listed /\ regs[r].channel = c
             /\ regs'[r] # NULL /\ regs'[r].listed /\ regs'[r].channel = c
    BY <1>5
  <2>3. c \notin Kept  BY <1>1
  <2> HIDE DEF Cached
  <2> QED  BY <1>4, <2>1, <2>2, <2>3, ElsewhereCached
<1> QED  BY <1>3, <1>6

LEMMA SuspensionsExpireCached ==
  ASSUME Good(regs, vals, query, disk), Cached(regs, disk), QueriesKept,
         SuspensionsExpire
  PROVE  Cached(regs', disk') /\ QueriesKept'
<1>1. Cached(regs', disk')  BY ExpireShape, ExpireCached DEF Good
<1>2. query' = [i \in Qids |->
                 IF query[i] = NULL \/ query[i].kept = NULL THEN query[i]
                 ELSE [query[i] EXCEPT !.kept = Expired(@)]]
  BY DEF SuspensionsExpire
<1>3. ASSUME NEW i \in Qids, query'[i] # NULL, query'[i].chan \in Kept
      PROVE  query'[i].kept = NULL
  <2>1. CASE query'[i] = query[i]  BY <1>3, <2>1 DEF QueriesKept
  <2>2. CASE query'[i] # query[i]
    <3>1. /\ query[i] # NULL /\ query[i].kept # NULL
          /\ query'[i] = [query[i] EXCEPT !.kept = Expired(query[i].kept)]
      BY <1>2, <2>2
    <3>2. query[i] \in Query  BY <3>1 DEF Good, QueryType
    <3>3. query'[i].chan = query[i].chan  BY <3>1, <3>2 DEF Query
    <3> QED  BY <1>3, <3>1, <3>3 DEF QueriesKept
  <2> QED  BY <2>1, <2>2
<1>4. QueriesKept'  BY <1>3 DEF QueriesKept
<1> QED  BY <1>1, <1>4

(* One record of a pass, saved or not.                                     *)
LEMMA SyncSavedCached ==
  ASSUME Good(regs, vals, query, disk), Good(regs', vals', query', disk'),
         Cached(regs, disk), NEW f, NEW r, SyncShape(f, r)
  PROVE  Cached(f, disk')
<1>1. /\ r \in Listed(regs) /\ HeapOK(f, vals) /\ HeapOK(regs, vals)
      /\ DiskType(disk)
  BY DEF SyncShape, Good
<1>2. CASE f = regs /\ disk' = disk  BY <1>2
<1>3. CASE ~(f = regs /\ disk' = disk)
  <2>1. PICK off \in SlotFor(regs[r]) :
          /\ regs[r].channel \in Chan /\ off \in Nat \ {0}
          /\ SavedHeap(f, regs, r, off) /\ ColdSave(regs[r], off)
    BY <1>3 DEF SyncShape
  <2> DEFINE c == regs[r].channel
  <2>2. /\ r \in Regs /\ regs[r] # NULL /\ regs[r] \in RegUser
        /\ WellFormed(regs[r]) /\ regs[r].listed
    BY <1>1, ListedOK
  <2>3. CASE c \in Kept
    <3>1. disk[c] # NULL  BY <2>3 DEF Cached
    <3>2. SlotSet(disk', disk, c, off, make_dbuser(regs[r]))
      BY <1>1, <2>1, <2>2, <3>1, ColdSaveSet
    <3>3. \/ regs[r].offset # 0 /\ off = regs[r].offset
          \/ regs[r].offset = 0 /\ off \notin Used(disk, c)
      BY <1>1, <2>1, <2>2, <3>1, SlotFits
    <3> QED  BY <1>1, <2>1, <2>3, <3>2, <3>3, SaveCached
  <2>4. CASE c \notin Kept
    <3>1. \A x \in Chan \ {c} : disk'[x] = disk[x]
      BY <1>1, <2>1 DEF ColdSave, DiskType
    <3>2. \A x \in Regs :
            \/ SameAt(f, regs, x)
            \/ /\ regs[x] # NULL /\ regs[x].listed /\ regs[x].channel = c
               /\ f[x] # NULL /\ f[x].listed /\ f[x].channel = c
      BY <2>1, <2>2 DEF SavedHeap, Others
    <3> QED  BY <1>1, <2>1, <2>4, <3>1, <3>2, ElsewhereCached
  <2> QED  BY <2>3, <2>4
<1> QED  BY <1>2, <1>3

LEMMA SyncOneCached ==
  ASSUME Good(regs, vals, query, disk), Good(regs', vals', query', disk'),
         Rest, CacheInv, SyncOne
  PROVE  CacheInv'
<1>1. PICK f, r : SyncShape(f, r)  BY SyncShaped
<1>2. /\ HeapOK(regs, vals) /\ HeapOK(f, vals) /\ HeapOK(regs', vals')
      /\ DiskType(disk)
  BY <1>1 DEF Good, SyncShape
<1>3. Cached(f, disk')  BY <1>1, SyncSavedCached DEF CacheInv
<1>4. regs' = f \/ FreeHeap(regs', f, r)  BY <1>1 DEF SyncShape
<1>5. Cached(regs', disk')  BY <1>2, <1>3, <1>4, FreeCached
<1>6. QueriesKept'  BY <1>1 DEF SyncShape, QueriesKept, CacheInv
<1>7. /\ r \in cursor /\ r \in Listed(regs) /\ cursor' = cursor \ {r}
      /\ cursor \subseteq Listed(regs)
      /\ (sync' = sync /\ saving' = saving) \/ sync' = "idle"
  BY <1>1 DEF SyncShape, Rest, CursorOK
<1>8. r \in Regs /\ regs[r] # NULL /\ WellFormed(regs[r])
      /\ regs[r] \in RegUser
  BY <1>2, <1>7, ListedOK
<1>9. ASSUME NEW x \in Regs \ {r}
      PROVE  /\ x \in Listed(regs') <=> x \in Listed(regs)
             /\ x \in Listed(regs) => /\ regs'[x].channel = regs[x].channel
                                      /\ regs'[x].modified = regs[x].modified
  <2>1. SameAt(f, regs, x) /\ (f[x] # NULL => f[x].modified = regs[x].modified)
    BY <1>1, SameSelf DEF SyncShape, SavedHeap, Others, Still, SameAt
  <2>2. /\ SameAt(regs', f, x)
        /\ regs'[x] # NULL => regs'[x].modified = f[x].modified
    BY <1>1, SameSelf DEF SyncShape, FreeHeap, Others, Still, SameAt
  <2> QED  BY <2>1, <2>2 DEF SameAt, Same, Looks, Listed
<1>10. ASSUME r \in Listed(regs'), regs'[r].channel \in Kept
       PROVE  ~regs'[r].modified
  <2>1. regs' = f
    <3>1. regs'[r] # NULL  BY <1>10 DEF Listed
    <3> QED  BY <1>4, <3>1 DEF FreeHeap
  <2>2. CASE f = regs /\ ~NeedsSave(regs[r])
    <3>1. regs[r].channel \in Kept  BY <1>10, <2>1, <2>2
    <3>2. disk[regs[r].channel] # NULL  BY <3>1 DEF CacheInv, Cached
    <3>3. regs[r].access < MASTER_ACCESS
      BY <1>8, <3>1, StarNotChan DEF WellFormed
    <3> QED  BY <2>1, <2>2, <3>2, <3>3 DEF NeedsSave
  <2>3. CASE \E off : SavedHeap(f, regs, r, off)
    BY <2>1, <2>3 DEF SavedHeap
  <2> QED  BY <1>1, <2>2, <2>3 DEF SyncShape
<1>11. PassOK'
  <2>1. CASE sync' = "idle"  BY <2>1 DEF PassOK, InPass
  <2>2. CASE sync' # "idle"
    <3>1. sync' = sync /\ saving' = saving  BY <1>7, <2>2
    <3>2. ASSUME sync' = "slice" PROVE cursor' \subseteq InBucket(saving)'
      <4> SUFFICES ASSUME NEW x \in cursor' PROVE x \in InBucket(saving)'
        OBVIOUS
      <4>1. x \in cursor /\ x # r /\ x \in Listed(regs)  BY <1>7
      <4>2. x \in InBucket(saving)  BY <3>1, <3>2, <4>1 DEF CacheInv, PassOK
      <4>3. x \in Regs  BY <4>1 DEF Listed
      <4> QED  BY <1>9, <3>1, <4>1, <4>2, <4>3 DEF InBucket
    <3>3. ASSUME NEW x \in Listed(regs') \ cursor', regs'[x].channel \in Kept,
                 \/ sync' = "quit"
                 \/ sync' = "slice" /\ Bucket[regs'[x].channel] = saving'
          PROVE  ~regs'[x].modified
      <4>1. CASE x = r  BY <1>10, <3>3, <4>1
      <4>2. CASE x # r
        <5>1. x \in Regs  BY DEF Listed
        <5>2. x \in Listed(regs) \ cursor  BY <1>7, <1>9, <4>2, <5>1
        <5>3. InPass(regs[x].channel)
          BY <1>9, <3>1, <3>3, <4>2, <5>1, <5>2 DEF InPass
        <5> QED
          BY <1>9, <3>3, <4>2, <5>1, <5>2, <5>3 DEF CacheInv, PassOK
      <4> QED  BY <4>1, <4>2
    <3> QED  BY <3>2, <3>3 DEF PassOK, InPass
  <2> QED  BY <2>1, <2>2
<1> QED  BY <1>5, <1>6, <1>11 DEF CacheInv

LEMMA BootCached ==
  ASSUME CacheInv, Boot
  PROVE  CacheInv'
<1>1. Cached(regs', disk')  BY FreshCached DEF Boot, CacheInv, Cached
<1>2. QueriesKept'  BY DEF Boot, QueriesKept
<1>3. PassOK'  BY DEF Boot, PassOK, InPass
<1> QED  BY <1>1, <1>2, <1>3 DEF CacheInv

-----------------------------------------------------------------------------
(* The theorems about the cache *)

\* What the steps need.
Whole == IInv /\ CacheInv

(* A step outside the passes, when nobody reads PassOK.                    *)
LEMMA IdlePass ==
  ASSUME sync' = "idle" PROVE PassOK'
BY DEF PassOK, InPass

(* A step that keeps IInv keeps its half.                                  *)
LEMMA IInvPartsNext ==
  ASSUME IInv' PROVE Good(regs', vals', query', disk')
<1>1. HeapOK(regs', vals')
  BY DEF IInv, TypeOK, RefCount, NoDangling, RecordsOK,
         HeapOK, HeapType, Counts, Points, Shapes
<1>2. QueryType(query') /\ DiskType(disk')
  BY DEF IInv, TypeOK, QueryType, DiskType
<1>3. Owned(regs', query')
  BY <1>2, OwnedHook DEF IInv, TypeOK, HookOwned, Holding, Holds
<1>4. AsksOK(query', disk')  BY DEF IInv, QueriesOK, AsksOK, QueryOK
<1> QED  BY <1>1, <1>2, <1>3, <1>4 DEF Good

(* A new process has an empty cache of what the files hold.                *)
THEOREM InitCacheInv == Init => CacheInv
<1> SUFFICES ASSUME Init PROVE CacheInv
  OBVIOUS
<1>1. \A c \in Kept : disk[c] # NULL
  BY FilesOK, NullOK, StarNotChan DEF Init, FilesOK, NullOK
<1>2. Cached(regs, disk)  BY <1>1, FreshCached DEF Init
<1>3. QueriesKept  BY DEF Init, QueriesKept
<1>4. PassOK  BY DEF Init, PassOK, InPass
<1> QED  BY <1>2, <1>3, <1>4 DEF CacheInv

LEMMA LoginsCached ==
  ASSUME Good(regs, vals, query, disk), Good(regs', vals', query', disk'),
         Cached(regs, disk), QueriesKept, Logins
  PROVE  Cached(regs', disk') /\ QueriesKept'
<1>1. PICK u \in Users :
        \/ \E c \in AllChan, pw \in Tries : validate(u, c, pw)
        \/ \E c \in AllChan : DeAuth(u, c)
        \/ \E c \in Chan : try_find(u, c)
        \/ \E h \in Hosts : onnick(u, h)
        \/ onquit(u)
  BY DEF Logins
<1>2. ASSUME SameHeap(regs', regs), disk' = disk
      PROVE  Cached(regs', disk')
  <2>1. CommandShape  BY <1>2 DEF CommandShape
  <2> QED  BY <2>1, CommandCached
<1>3. CASE \E c \in AllChan, pw \in Tries : validate(u, c, pw)
  <2>1. PICK c \in AllChan, pw \in Tries : validate(u, c, pw)  BY <1>3
  <2> DEFINE x == [Ask("validate", c, u, online[u]) EXCEPT !.passwd = pw]
  <2>2. /\ SameHeap(regs', regs) /\ disk' = disk
        /\ query' = query \/ db_fetch(c, x)
    BY <2>1, ValidateShape
  <2>3. x.kept = NULL  BY DEF Ask
  <2> HIDE DEF x
  <2>4. QueriesKept'  BY <2>2, <2>3, FetchKept DEF QueriesKept, Good
  <2> QED  BY <1>2, <2>2, <2>4
<1>4. CASE \E c \in AllChan : DeAuth(u, c)
  <2>1. SameHeap(regs', regs) /\ disk' = disk /\ query' = query
    BY <1>4, DeAuthShape
  <2> QED  BY <1>2, <2>1 DEF QueriesKept
<1>5. CASE \E c \in Chan : try_find(u, c)
  <2>1. SameHeap(regs', regs) /\ disk' = disk /\ query' = query
    BY <1>5, TryFindShape
  <2> QED  BY <1>2, <2>1 DEF QueriesKept
<1>6. CASE \E h \in Hosts : onnick(u, h)
  <2>1. regs' = regs /\ disk' = disk /\ query' = query  BY <1>6 DEF onnick
  <2> QED  BY <1>2, <2>1, SameHeapSelf DEF QueriesKept
<1>7. CASE onquit(u)
  <2>1. SameHeap(regs', regs)  BY <1>7, OnquitSame DEF Good
  <2>2. disk' = disk /\ query' = query  BY <1>7 DEF onquit
  <2> QED  BY <1>2, <2>1, <2>2 DEF QueriesKept
<1> QED  BY <1>1, <1>3, <1>4, <1>5, <1>6, <1>7

LEMMA CommandsCached ==
  ASSUME Good(regs, vals, query, disk), Good(regs', vals', query', disk'),
         Cached(regs, disk), QueriesKept, Commands
  PROVE  Cached(regs', disk') /\ QueriesKept'
<1>1. PICK u \in Users, c \in Chan :
        \/ \E n \in Names, m \in Masks, acc \in GrantLevels, pw \in Pws :
             AddUser(u, c, n, m, acc, pw)
        \/ \E t \in Names \cup Masks : RemoveUser(u, c, t)
        \/ \E field \in Fields, t \in Names \cup Masks :
             \E value \in Values(field) : ModUserInfo(u, c, field, t, value)
        \/ \E pw \in Pws : ChPass(u, c, pw)
        \/ purge(u, c)
        \/ \E n \in Names, m \in Masks, pw \in Pws : RegChan(u, c, n, m, pw)
  BY DEF Commands
<1>2. CASE \E n \in Names, m \in Masks, acc \in GrantLevels, pw \in Pws :
             AddUser(u, c, n, m, acc, pw)
  BY <1>2, AddUserCached
<1>3. CASE \E t \in Names \cup Masks : RemoveUser(u, c, t)
  <2>1. PICK t \in Names \cup Masks : RemoveUser(u, c, t)  BY <1>3
  <2> DEFINE x == [Ask("remuser", c, u, t) EXCEPT !.action = LAccess(u, c)]
  <2>2. CommandShape /\ (query' = query \/ db_fetch(c, x))
    BY <2>1, RemoveUserShape
  <2>3. x.kept = NULL  BY DEF Ask
  <2> HIDE DEF x
  <2>4. QueriesKept'  BY <2>2, <2>3, FetchKept DEF QueriesKept, Good
  <2> QED  BY <2>2, <2>4, CommandCached
<1>4. CASE \E field \in Fields, t \in Names \cup Masks :
             \E value \in Values(field) : ModUserInfo(u, c, field, t, value)
  <2>1. PICK field \in Fields, t \in Names \cup Masks :
               \E value \in Values(field) : ModUserInfo(u, c, field, t, value)
    BY <1>4
  <2>2. PICK value \in Values(field) : ModUserInfo(u, c, field, t, value)
    BY <2>1
  <2> DEFINE x == [Ask("modinfo", c, u, t)
                     EXCEPT !.field = field, !.value = value]
  <2>3. CommandShape /\ (query' = query \/ db_fetch(c, x))
    BY <2>2, ModUserInfoShape
  <2>4. x.kept = NULL  BY DEF Ask
  <2> HIDE DEF x
  <2>5. QueriesKept'  BY <2>3, <2>4, FetchKept DEF QueriesKept, Good
  <2> QED  BY <2>3, <2>5, CommandCached
<1>5. CASE \E pw \in Pws : ChPass(u, c, pw)
  <2>1. SameHeap(regs', regs) /\ disk' = disk /\ query' = query
    BY <1>5, ChPassShape
  <2>2. CommandShape  BY <2>1 DEF CommandShape
  <2> QED  BY <2>1, <2>2, CommandCached DEF QueriesKept
<1>6. CASE purge(u, c)
  BY <1>6, PurgeCached
<1>7. CASE \E n \in Names, m \in Masks, pw \in Pws : RegChan(u, c, n, m, pw)
  <2>1. PICK n \in Names, m \in Masks, pw \in Pws : RegChan(u, c, n, m, pw)
    BY <1>7
  <2>2. query' = query  BY <2>1 DEF RegChan
  <2> QED  BY <2>1, <2>2, RegChanCached DEF QueriesKept
<1> QED  BY <1>1, <1>2, <1>3, <1>4, <1>5, <1>6, <1>7

LEMMA SuspensionsCached ==
  ASSUME Good(regs, vals, query, disk), Good(regs', vals', query', disk'),
         Cached(regs, disk), QueriesKept, Suspensions
  PROVE  Cached(regs', disk') /\ QueriesKept'
<1>1. CASE \E u \in Users \cup {Server}, c \in Chan, t \in Names \cup Masks,
              on \in Durations : suspend(u, c, t, on)
  <2>1. PICK u \in Users \cup {Server}, c \in Chan, t \in Names \cup Masks,
             on \in Durations : suspend(u, c, t, on)
    BY <1>1
  <2> DEFINE x == [Ask("suspend", c, u, t) EXCEPT !.on = on]
  <2>2. regs' = regs /\ disk' = disk /\ db_fetch(c, x)  BY <2>1 DEF suspend
  <2>3. x.kept = NULL  BY DEF Ask
  <2> HIDE DEF x
  <2>4. QueriesKept'  BY <2>2, <2>3, FetchKept DEF Good
  <2> QED  BY <2>2, <2>4
<1>2. CASE SuspensionsExpire  BY <1>2, SuspensionsExpireCached
<1> QED  BY <1>1, <1>2 DEF Suspensions

(* Every step keeps the cache right.                                       *)
THEOREM NextCacheInv == Whole /\ [Next]_vars => Whole'
<1> SUFFICES ASSUME IInv, CacheInv, [Next]_vars PROVE IInv' /\ CacheInv'
  BY DEF Whole
<1>1. IInv'  BY NextIInv
<1>2. Good(regs, vals, query, disk) /\ Rest  BY IInvParts
<1>3. Good(regs', vals', query', disk')
  BY <1>1, IInvPartsNext
<1>4. Cached(regs, disk) /\ QueriesKept /\ PassOK  BY DEF CacheInv
<1>5. ASSUME sync' = "idle", Cached(regs', disk'), QueriesKept'
      PROVE  CacheInv'
  BY <1>5, IdlePass DEF CacheInv
<1>6. CASE sync = "idle" /\ (Logins \/ Commands \/ Suspensions)
  <2>1. Cached(regs', disk') /\ QueriesKept'
    BY <1>2, <1>3, <1>4, <1>6, LoginsCached, CommandsCached, SuspensionsCached
  <2>2. sync' = "idle"
    <3>1. Logins => sync' = sync
      <4>1. \A u, c, pw : validate(u, c, pw) => sync' = sync
        BY DEF validate, syncVars
      <4>2. \A u, c : DeAuth(u, c) \/ try_find(u, c) => sync' = sync
        BY DEF DeAuth, try_find, syncVars
      <4>3. \A u, h : onnick(u, h) \/ onquit(u) => sync' = sync
        BY DEF onnick, onquit, syncVars
      <4> QED  BY <4>1, <4>2, <4>3, Zenon DEF Logins
    <3>2. Commands => sync' = sync
      <4>1. \A u, c, n, m, acc, pw : AddUser(u, c, n, m, acc, pw) => sync' = sync
        BY DEF AddUser, syncVars
      <4>2. \A u, c, t : RemoveUser(u, c, t) => sync' = sync
        BY DEF RemoveUser, syncVars
      <4>3. \A u, c, field, t, value :
              ModUserInfo(u, c, field, t, value) => sync' = sync
        BY DEF ModUserInfo, syncVars
      <4>4. \A u, c, pw : ChPass(u, c, pw) => sync' = sync
        BY DEF ChPass, syncVars
      <4>5. \A u, c : purge(u, c) => sync' = sync
        BY DEF purge, syncVars
      <4>6. \A u, c, n, m, pw : RegChan(u, c, n, m, pw) => sync' = sync
        BY DEF RegChan, syncVars
      <4> QED  BY <4>1, <4>2, <4>3, <4>4, <4>5, <4>6 DEF Commands
    <3>3. Suspensions => sync' = sync
      BY DEF Suspensions, suspend, SuspensionsExpire, syncVars
    <3> QED  BY <1>6, <3>1, <3>2, <3>3
  <2> QED  BY <1>1, <1>5, <2>1, <2>2
<1>7. CASE \E i \in Qids : QueryStep(i)
  <2>1. PICK i \in Qids : QueryStep(i)  BY <1>7
  <2>2. Cached(regs', disk') /\ QueriesKept'
    BY <1>2, <1>3, <1>4, <2>1, ReadCached, EndCached DEF QueryStep
  <2>3. sync' = "idle"
    BY <2>1 DEF QueryStep, read_db, end_db_read, syncVars
  <2> QED  BY <1>1, <1>5, <2>2, <2>3
<1>8. CASE SaveTimer
  BY <1>1, <1>4, <1>5, <1>8 DEF SaveTimer, SaveUserList, QueriesKept
<1>9. CASE SaveSlice
  <2>1. /\ regs' = regs /\ disk' = disk /\ query' = query /\ sync = "idle"
        /\ \/ sync' = sync
           \/ /\ saving' = saving /\ sync' = "slice"
              /\ cursor' = InBucket(saving)
    BY <1>9 DEF SaveSlice, do_cold_sync_slice
  <2>2. CASE sync' = sync
    BY <1>1, <1>4, <1>5, <2>1, <2>2 DEF QueriesKept
  <2>3. CASE saving' = saving /\ sync' = "slice" /\ cursor' = InBucket(saving)
    <3>1. PassOK'
      BY <2>1, <2>3 DEF PassOK, InPass, InBucket, Listed
    <3> QED  BY <1>1, <1>4, <2>1, <3>1 DEF QueriesKept, CacheInv
  <2> QED  BY <2>1, <2>2, <2>3
<1>10. CASE SyncOne
  BY <1>1, <1>2, <1>3, <1>10, SyncOneCached
<1>11. CASE sync = "idle" /\ quit
  <2>1. /\ regs' = regs /\ disk' = disk /\ query' = query
        /\ sync' = "quit" /\ cursor' = Listed(regs)
    BY <1>11 DEF quit
  <2>2. PassOK'  BY <2>1 DEF PassOK, Listed
  <2> QED  BY <1>1, <1>4, <2>1, <2>2 DEF QueriesKept, CacheInv
<1>12. CASE Exit \/ restart \/ Crash
  <2>1. Boot  BY <1>12 DEF Exit, restart, Crash
  <2> QED  BY <1>1, <2>1, BootCached
<1>13. CASE UNCHANGED vars
  BY <1>1, <1>4, <1>13 DEF vars, CacheInv, QueriesKept, PassOK, InPass,
                           InBucket, Listed
<1> QED
  BY <1>6, <1>7, <1>8, <1>9, <1>10, <1>11, <1>12, <1>13 DEF Next

(* However queries, commands, passes, purges, restarts and crashes are     *)
(* interleaved, a record in memory of a channel that may not be purged is  *)
(* the only one for its slot, it has its slot as long as it is in memory,  *)
(* and it says what the slot says unless it is marked to be written.       *)
THEOREM CacheInvariance == Spec => []CacheInv
<1>1. Init => Whole  BY InitIInv, InitCacheInv DEF Whole
<1>2. Whole /\ [Next]_vars => Whole'  BY NextCacheInv
<1>3. Spec => []Whole  BY <1>1, <1>2, PTL DEF Spec
<1>4. Whole => CacheInv  BY DEF Whole
<1> QED  BY <1>3, <1>4, PTL

\* No admin may purge a channel.
NoPurge == Purgeable = {}

(* No two records in memory stand for the same slot.                       *)
THEOREM SlotOwnerCorrect == NoPurge => (Spec => []SlotOwner)
<1> SUFFICES ASSUME NoPurge PROVE Spec => []SlotOwner
  OBVIOUS
<1>1. Whole => SlotOwner
  <2> SUFFICES ASSUME IInv, CacheInv, NEW r \in Listed(regs),
                      NEW x \in Listed(regs),
                      regs[r].channel = regs[x].channel,
                      regs[r].offset = regs[x].offset, regs[r].offset # 0
               PROVE  r = x
    BY DEF Whole, SlotOwner
  <2>1. regs[r] \in RegUser  BY IInvParts, ListedOK DEF Good
  <2>2. regs[r].channel # Star  BY DEF CacheInv, Cached
  <2>3. regs[r].channel \in Kept
    BY <2>1, <2>2 DEF RegUser, AllChan, Kept, NoPurge
  <2> QED  BY <2>3 DEF CacheInv, Cached, OwnSlots
<1>2. Init => Whole  BY InitIInv, InitCacheInv DEF Whole
<1>3. Whole /\ [Next]_vars => Whole'  BY NextCacheInv
<1> QED  BY <1>1, <1>2, <1>3, PTL DEF Spec

(* A record that is not marked may be dropped from memory at any time: its *)
(* slot holds the same entry.                                              *)
THEOREM CleanIsSavedCorrect == NoPurge => (Spec => []CleanIsSaved)
<1> SUFFICES ASSUME NoPurge PROVE Spec => []CleanIsSaved
  OBVIOUS
<1>1. Whole => CleanIsSaved
  <2> SUFFICES ASSUME IInv, CacheInv, NEW c \in Chan, NEW r \in Live(c),
                      ~regs[r].modified
               PROVE  /\ regs[r].offset \in DOMAIN Contents(c)
                      /\ Contents(c)[regs[r].offset] # NULL
                      /\ EntryOf(Contents(c)[regs[r].offset]) = EntryOf(regs[r])
    BY DEF Whole, CleanIsSaved
  <2>1. r \in Listed(regs) /\ regs[r].channel = c /\ regs[r].access > 0
    BY DEF Live
  <2>2. c \in Kept  BY DEF Kept, NoPurge
  <2>3. CellOK(regs[r], disk) /\ disk[c] # NULL
    BY <2>1, <2>2 DEF CacheInv, Cached
  <2> QED  BY <2>1, <2>3 DEF CellOK, Used, Contents
<1>2. Init => Whole  BY InitIInv, InitCacheInv DEF Whole
<1>3. Whole /\ [Next]_vars => Whole'  BY NextCacheInv
<1> QED  BY <1>1, <1>2, <1>3, PTL DEF Spec
=============================================================================
