----------------------------- MODULE Book_proofs -----------------------------
(***************************************************************************)
(* UserDB implements AccessBook.  CacheInv (Cache_proofs) is enough to see *)
(* that loading, saving and evicting a record, and ending the process once *)
(* everything is saved, leave the book as it is.  That a command changes   *)
(* one entry of it needs more: NickInv, that a nick is filed once, which   *)
(* holds when one query runs at a time and the process is not killed in    *)
(* the middle of a pass.                                                   *)
(***************************************************************************)
EXTENDS Cache_proofs

\* BookOf, of any heap f and files d.
LiveAt(f, c) == {r \in Listed(f) : f[r].channel = c /\ f[r].access > 0}
Unshad(f, d, c) ==
  {k \in Used(d, c) : \A r \in Listed(f) : f[r].channel = c => f[r].offset # k}
BookAt(f, d, c) ==
  {EntryOf(f[r]) : r \in LiveAt(f, c)}
  \cup {EntryOf(d[c][k]) : k \in Unshad(f, d, c)}

LEMMA BookNow ==
  ASSUME NEW c, disk[c] # NULL
  PROVE  /\ BookOf(c) = BookAt(regs, disk, c)
         /\ Live(c) = LiveAt(regs, c) /\ Unshadowed(c) = Unshad(regs, disk, c)
         /\ Contents(c) = disk[c]
<1>1. Contents(c) = disk[c]  BY DEF Contents
<1>2. Live(c) = LiveAt(regs, c)  BY DEF Live, LiveAt
<1>3. Unshadowed(c) = Unshad(regs, disk, c)
  BY <1>1 DEF Unshadowed, Unshad, Used
<1> QED  BY <1>1, <1>2, <1>3 DEF BookOf, BookAt

LEMMA BookThen ==
  ASSUME NEW c, disk'[c] # NULL
  PROVE  BookOf(c)' = BookAt(regs', disk', c)
<1>1. Contents(c)' = disk'[c]  BY DEF Contents
<1>2. Live(c)' = LiveAt(regs', c)  BY DEF Live, LiveAt, Listed
<1>3. Unshadowed(c)' = Unshad(regs', disk', c)
  BY <1>1 DEF Unshadowed, Unshad, Used, Listed
<1> QED  BY <1>1, <1>2, <1>3 DEF BookOf, BookAt

-----------------------------------------------------------------------------
(* Changes that leave the book as it is *)

(* The same live records and the same slots only the file knows of.        *)
LEMMA AlikeBook ==
  ASSUME NEW f, NEW f2, NEW d, NEW d2, NEW c,
         LiveAt(f2, c) = LiveAt(f, c),
         \A r \in LiveAt(f, c) : EntryOf(f2[r]) = EntryOf(f[r]),
         Unshad(f2, d2, c) = Unshad(f, d, c),
         \A k \in Unshad(f, d, c) : EntryOf(d2[c][k]) = EntryOf(d[c][k])
  PROVE  BookAt(f2, d2, c) = BookAt(f, d, c)
BY DEF BookAt

\* The access of a record is a number, and a level that is granted is not 0.
LEMMA AccessNat ==
  ASSUME NEW x \in RegUser
  PROVE  x.access \in Nat
BY DEF RegUser, MASTER_ACCESS

LEMMA GrantPositive ==
  ASSUME NEW l \in GrantLevels
  PROVE  l \in Nat /\ l > 0 /\ l # 0
BY ConstantsOK DEF ConstantsOK, MASTER_ACCESS

(* An entry only the file knew of is now a live record's, or the reverse.  *)
LEMMA MovedBook ==
  ASSUME NEW f, NEW f2, NEW d, NEW c, NEW e, NEW k,
         LiveAt(f2, c) = LiveAt(f, c) \cup {e},
         Unshad(f, d, c) = Unshad(f2, d, c) \cup {k},
         EntryOf(f2[e]) = EntryOf(d[c][k]),
         \A r \in LiveAt(f, c) : EntryOf(f2[r]) = EntryOf(f[r])
  PROVE  BookAt(f2, d, c) = BookAt(f, d, c)
<1>1. ASSUME NEW x PROVE x \in BookAt(f2, d, c) <=> x \in BookAt(f, d, c)
  <2>1. x \in BookAt(f2, d, c) <=>
          \/ \E r \in LiveAt(f, c) : x = EntryOf(f[r])
          \/ x = EntryOf(d[c][k])
          \/ \E j \in Unshad(f2, d, c) : x = EntryOf(d[c][j])
    BY DEF BookAt
  <2>2. x \in BookAt(f, d, c) <=>
          \/ \E r \in LiveAt(f, c) : x = EntryOf(f[r])
          \/ \E j \in Unshad(f2, d, c) : x = EntryOf(d[c][j])
          \/ x = EntryOf(d[c][k])
    BY DEF BookAt
  <2> QED  BY <2>1, <2>2
<1> QED  BY <1>1

(* A record unchanged but for what its slot does not hold.                 *)
LEMMA LooksEntry ==
  ASSUME NEW a, NEW b, Looks(a, b) PROVE EntryOf(b) = EntryOf(a)
BY DEF Looks, EntryOf

(* Two heaps that are alike on the table of channel c.                     *)
LEMMA TableBook ==
  ASSUME NEW f, NEW f2, NEW d, NEW c, Listed(f2) = Listed(f),
         \A r \in Listed(f) : Looks(f[r], f2[r])
  PROVE  /\ LiveAt(f2, c) = LiveAt(f, c) /\ Unshad(f2, d, c) = Unshad(f, d, c)
         /\ BookAt(f2, d, c) = BookAt(f, d, c)
<1>1. LiveAt(f2, c) = LiveAt(f, c)  BY DEF LiveAt, Looks
<1>2. Unshad(f2, d, c) = Unshad(f, d, c)  BY DEF Unshad, Looks
<1>3. \A r \in LiveAt(f, c) : EntryOf(f2[r]) = EntryOf(f[r])
  BY LooksEntry DEF LiveAt
<1> QED  BY <1>1, <1>2, <1>3, AlikeBook

LEMMA SameBook ==
  ASSUME NEW f, NEW f2, NEW d, NEW c, SameHeap(f2, f)
  PROVE  /\ LiveAt(f2, c) = LiveAt(f, c) /\ Unshad(f2, d, c) = Unshad(f, d, c)
         /\ BookAt(f2, d, c) = BookAt(f, d, c)
<1>1. Listed(f2) = Listed(f)  BY SameListed
<1>2. \A r \in Listed(f) : Looks(f[r], f2[r])
  BY DEF SameHeap, SameAt, Same, Listed
<1> QED  BY <1>1, <1>2, TableBook

(* Building a record, or freeing one that is not in the table.             *)
LEMMA AsideBook ==
  ASSUME NEW f, NEW f2, NEW d, NEW c, NEW r \in Regs, Others(f2, f, r),
         r \notin Listed(f), r \notin Listed(f2)
  PROVE  /\ Listed(f2) = Listed(f) /\ BookAt(f2, d, c) = BookAt(f, d, c)
         /\ \A x \in Listed(f) : Looks(f[x], f2[x])
<1>1. Listed(f2) = Listed(f)  BY OthersListed DEF Listed
<1>2. \A x \in Listed(f) : Looks(f[x], f2[x])
  BY DEF Others, SameAt, Same, Listed
<1> QED  BY <1>1, <1>2, TableBook

(* Channel b, when one record of another channel changes.                  *)
LEMMA OtherBook ==
  ASSUME NEW f, NEW f2, NEW d, NEW d2, NEW r \in Regs, Others(f2, f, r), NEW b,
         r \in Listed(f) => f[r].channel # b,
         r \in Listed(f2) => f2[r].channel # b, d2[b] = d[b]
  PROVE  /\ LiveAt(f2, b) = LiveAt(f, b) /\ Unshad(f2, d2, b) = Unshad(f, d, b)
         /\ BookAt(f2, d2, b) = BookAt(f, d, b)
<1>1. \A x \in Regs : x # r => /\ x \in Listed(f2) <=> x \in Listed(f)
                               /\ x \in Listed(f) => Looks(f[x], f2[x])
  BY OthersListed DEF Others, SameAt, Same, Listed
<1>2. Listed(f) \subseteq Regs /\ Listed(f2) \subseteq Regs  BY DEF Listed
<1>3. LiveAt(f2, b) = LiveAt(f, b)  BY <1>1, <1>2 DEF LiveAt, Looks
<1>4. Unshad(f2, d2, b) = Unshad(f, d, b)
  BY <1>1, <1>2 DEF Unshad, Used, Looks
<1>5. \A x \in LiveAt(f, b) : EntryOf(f2[x]) = EntryOf(f[x])
  BY <1>1, <1>2, LooksEntry DEF LiveAt
<1> QED  BY <1>3, <1>4, <1>5, AlikeBook

LEMMA LoadBook ==
  ASSUME NEW f, NEW f2, NEW d, NEW c, NEW e, NEW c1, NEW k \in Nat \ {0},
         NEW s \in Slot, LoadHeap(f2, f, e, c1, k, s),
         k \in Used(d, c1), d[c1][k] = s
  PROVE  BookAt(f2, d, c) = BookAt(f, d, c)
<1>1. /\ e \in Regs /\ f[e] = NULL /\ f2[e] # NULL /\ f2[e].listed
      /\ Others(f2, f, e) /\ f2[e].channel = c1 /\ e \notin Listed(f)
      /\ f2[e].offset = k
  BY DEF LoadHeap, Listed
<1>2. CASE c # c1
  BY <1>1, <1>2, OtherBook
<1>3. CASE c = c1
  <2>1. \A x \in Regs : x # e => /\ x \in Listed(f2) <=> x \in Listed(f)
                                 /\ x \in Listed(f) => Looks(f[x], f2[x])
    BY <1>1, OthersListed DEF Others, SameAt, Same, Listed
  <2>2. Listed(f) \subseteq Regs /\ Listed(f2) = Listed(f) \cup {e}
    BY <1>1, <2>1 DEF Listed
  <2>3. f2[e].access = s.access /\ s.access > 0
    BY DEF LoadHeap, Slot, MASTER_ACCESS
  <2>4. LiveAt(f2, c) = LiveAt(f, c) \cup {e}
    BY <1>1, <1>3, <2>1, <2>2, <2>3 DEF LiveAt, Looks
  <2>5. k \in Unshad(f, d, c)
    BY <1>3 DEF LoadHeap, Unshad
  <2>6. Unshad(f, d, c) = Unshad(f2, d, c) \cup {k}
    BY <1>1, <1>3, <2>1, <2>2, <2>5 DEF Unshad, Looks
  <2>7. EntryOf(f2[e]) = EntryOf(d[c][k])
    BY <1>3 DEF LoadHeap, EntryOf
  <2>8. \A x \in LiveAt(f, c) : EntryOf(f2[x]) = EntryOf(f[x])
    BY <1>1, <2>1, <2>2, LooksEntry DEF LiveAt
  <2> QED  BY <2>4, <2>6, <2>7, <2>8, MovedBook, SMTT(60)
<1> QED  BY <1>2, <1>3

(* Writing a record back.                                                  *)
LEMMA SaveBook ==
  ASSUME NEW f, NEW g, NEW d, HeapOK(f, g), DiskType(d), Cached(f, d),
         NEW f2, NEW e, NEW off \in Nat \ {0}, SavedHeap(f2, f, e, off),
         f[e].channel \in Kept, NEW d2, DiskType(d2),
         SlotSet(d2, d, f[e].channel, off, make_dbuser(f[e])),
         \/ f[e].offset # 0 /\ off = f[e].offset
         \/ f[e].offset = 0 /\ off \notin Used(d, f[e].channel),
         NEW c \in Chan
  PROVE  /\ Unshad(f2, d2, c) = Unshad(f, d, c)
         /\ BookAt(f2, d2, c) = BookAt(f, d, c)
<1>1. /\ e \in Regs /\ e \in Listed(f) /\ f[e] # NULL /\ f[e] \in RegUser
      /\ WellFormed(f[e]) /\ f[e].channel \in Chan /\ Others(f2, f, e)
      /\ f2[e].channel = f[e].channel
  BY ListedOK, StarNotChan DEF SavedHeap
<1>2. \A x \in Regs : x # e => /\ x \in Listed(f2) <=> x \in Listed(f)
                               /\ x \in Listed(f) => Looks(f[x], f2[x])
  BY <1>1, OthersListed DEF Others, SameAt, Same, Listed
<1>3. Listed(f) \subseteq Regs /\ Listed(f2) = Listed(f)
  BY <1>1, <1>2 DEF SavedHeap, Listed
<1>4. CASE c # f[e].channel
  <2>1. d2[c] = d[c]  BY <1>4 DEF SlotSet
  <2> QED  BY <1>1, <1>4, <2>1, OtherBook
<1>5. CASE c = f[e].channel
  <2> DEFINE n == f2[e].offset
  <2>1. /\ n = (IF f[e].access = 0 THEN 0 ELSE off)
        /\ f2[e].access = f[e].access /\ EntryOf(f2[e]) = EntryOf(f[e])
    BY DEF SavedHeap, EntryOf
  <2>2. d[c] # NULL /\ d2[c] # NULL /\ d2[c][off] = make_dbuser(f[e])
    BY <1>5 DEF Cached, SlotSet
  <2>3. /\ \A k \in Used(d, c) : k \in Nat \ {0}
        /\ \A k \in Used(d2, c) : k \in Nat \ {0}
    BY <2>2, UsedSlot
  <2>4. \A k \in Nat \ {off} :
          /\ k \in Used(d2, c) <=> k \in Used(d, c)
          /\ k \in Used(d, c) => d2[c][k] = d[c][k]
    BY <1>5 DEF SlotSet
  <2>5. off \in Used(d2, c) => f[e].access # 0
    BY <1>1, <1>5, <2>2, MakeEntry DEF Used
  <2>6. Unshad(f2, d2, c) \subseteq Unshad(f, d, c)
    <3> SUFFICES ASSUME NEW k \in Unshad(f2, d2, c) PROVE k \in Unshad(f, d, c)
      OBVIOUS
    <3>1. k \in Used(d2, c) /\ k \in Nat \ {0}  BY <2>3 DEF Unshad
    <3>2. n # k  BY <1>1, <1>3, <1>5 DEF Unshad
    <3>3. k # off  BY <2>1, <2>5, <3>1, <3>2
    <3>4. k \in Used(d, c)  BY <2>4, <3>1, <3>3
    <3>5. f[e].offset # k  BY <3>1, <3>3
    <3>6. ASSUME NEW x \in Listed(f), f[x].channel = c PROVE f[x].offset # k
      <4>1. CASE x = e  BY <3>5, <4>1
      <4>2. CASE x # e  BY <1>2, <1>3, <3>6, <4>2 DEF Unshad, Looks
      <4> QED  BY <4>1, <4>2
    <3> QED  BY <3>4, <3>6 DEF Unshad
  <2>7. Unshad(f, d, c) \subseteq Unshad(f2, d2, c)
    <3> SUFFICES ASSUME NEW k \in Unshad(f, d, c) PROVE k \in Unshad(f2, d2, c)
      OBVIOUS
    <3>1. k \in Used(d, c) /\ k \in Nat \ {0}  BY <2>3 DEF Unshad
    <3>2. f[e].offset # k  BY <1>1, <1>5 DEF Unshad
    <3>3. k # off  BY <1>5, <3>1, <3>2
    <3>4. k \in Used(d2, c)  BY <2>4, <3>1, <3>3
    <3>5. n # k  BY <2>1, <3>1, <3>3
    <3>6. ASSUME NEW x \in Listed(f2), f2[x].channel = c PROVE f2[x].offset # k
      <4>1. CASE x = e  BY <3>5, <4>1
      <4>2. CASE x # e  BY <1>2, <1>3, <3>6, <4>2 DEF Unshad, Looks
      <4> QED  BY <4>1, <4>2
    <3> QED  BY <3>4, <3>6 DEF Unshad
  <2>8. Unshad(f2, d2, c) = Unshad(f, d, c)  BY <2>6, <2>7
  <2>9. \A k \in Unshad(f, d, c) : EntryOf(d2[c][k]) = EntryOf(d[c][k])
    <3> SUFFICES ASSUME NEW k \in Unshad(f, d, c) PROVE d2[c][k] = d[c][k]
      OBVIOUS
    <3>1. k \in Used(d, c) /\ k \in Nat \ {0}  BY <2>3 DEF Unshad
    <3>2. f[e].offset # k  BY <1>1, <1>5 DEF Unshad
    <3>3. k # off  BY <1>5, <3>1, <3>2
    <3> QED  BY <2>4, <3>1, <3>3
  <2>10. LiveAt(f2, c) = LiveAt(f, c)
    BY <1>1, <1>2, <1>3, <2>1 DEF LiveAt, Looks
  <2>11. \A x \in LiveAt(f, c) : EntryOf(f2[x]) = EntryOf(f[x])
    BY <1>2, <1>3, <2>1, LooksEntry DEF LiveAt
  <2> QED  BY <2>8, <2>9, <2>10, <2>11, AlikeBook
<1> QED  BY <1>4, <1>5

(* Dropping a record from memory that is not marked.                       *)
LEMMA EvictBook ==
  ASSUME NEW f, NEW g, NEW d, HeapOK(f, g), DiskType(d), Cached(f, d),
         NEW f2, NEW e \in Listed(f), FreeHeap(f2, f, e),
         f[e].channel \in Kept, ~f[e].modified, NEW c \in Chan
  PROVE  /\ BookAt(f2, d, c) = BookAt(f, d, c)
         /\ \A k \in Unshad(f2, d, c) \ Unshad(f, d, c) :
              /\ f[e].channel = c /\ k = f[e].offset
              /\ f[e].access > 0 /\ d[c][k].realname = f[e].realname
<1>1. /\ e \in Regs /\ f[e] # NULL /\ f[e] \in RegUser
      /\ f[e].channel \in Chan /\ Others(f2, f, e) /\ e \notin Listed(f2)
  BY ListedOK, StarNotChan DEF FreeHeap, Listed
<1>2. \A x \in Regs : x # e => /\ x \in Listed(f2) <=> x \in Listed(f)
                               /\ x \in Listed(f) => Looks(f[x], f2[x])
  BY <1>1, OthersListed DEF Others, SameAt, Same, Listed
<1>3. Listed(f) \subseteq Regs /\ Listed(f2) = Listed(f) \ {e}
  BY <1>1, <1>2 DEF Listed
<1>4. CASE c # f[e].channel
  <2>1. BookAt(f2, d, c) = BookAt(f, d, c)  BY <1>1, <1>4, OtherBook
  <2>2. Unshad(f2, d, c) = Unshad(f, d, c)  BY <1>1, <1>4, OtherBook
  <2> QED  BY <2>1, <2>2
<1>5. CASE c = f[e].channel
  <2> DEFINE k == f[e].offset
  <2>1. CellOK(f[e], d) /\ d[c] # NULL  BY <1>5 DEF Cached
  <2>2. \A j \in Used(d, c) : j \in Nat \ {0}  BY <2>1, UsedSlot
  <2>3. \A x \in LiveAt(f2, c) : x \in LiveAt(f, c) /\ EntryOf(f[x]) = EntryOf(f2[x])
    BY <1>2, <1>3, LooksEntry DEF LiveAt, Looks
  <2>4. CASE f[e].access = 0
    <3>1. k = 0  BY <2>1, <2>4 DEF CellOK
    <3>2. Unshad(f2, d, c) = Unshad(f, d, c)
      BY <1>2, <1>3, <2>2, <3>1 DEF Unshad, Looks
    <3>3. LiveAt(f2, c) = LiveAt(f, c)
      BY <1>2, <1>3, <2>4 DEF LiveAt, Looks
    <3>4. BookAt(f2, d, c) = BookAt(f, d, c)
      BY <2>3, <3>2, <3>3, AlikeBook
    <3> QED  BY <3>2, <3>4
  <2>5. CASE f[e].access # 0
    <3>1. f[e].access > 0
      <4>1. f[e].access \in Nat  BY <1>1, AccessNat
      <4> QED  BY <2>5, <4>1
    <3>2. /\ k \in Used(d, c) /\ k # 0 /\ EntryOf(d[c][k]) = EntryOf(f[e])
      BY <1>5, <2>1, <3>1 DEF CellOK
    <3>3. d[c][k].realname = f[e].realname  BY <3>2 DEF EntryOf
    <3>4. LiveAt(f, c) = LiveAt(f2, c) \cup {e}
      BY <1>2, <1>3, <1>5, <3>1 DEF LiveAt, Looks
    <3>5. \A x \in Listed(f) : f[x].channel = c /\ f[x].offset = k => x = e
      BY <1>5, <3>2 DEF Cached, OwnSlots
    <3>6. Unshad(f2, d, c) = Unshad(f, d, c) \cup {k}
      <4>1. k \in Unshad(f2, d, c)
        BY <1>2, <1>3, <3>2, <3>5 DEF Unshad, Looks
      <4>2. Unshad(f, d, c) \subseteq Unshad(f2, d, c)
        BY <1>2, <1>3 DEF Unshad, Looks
      <4>3. \A j \in Unshad(f2, d, c) : j = k \/ j \in Unshad(f, d, c)
        BY <1>2, <1>3 DEF Unshad, Looks
      <4> QED  BY <4>1, <4>2, <4>3
    <3>7. BookAt(f, d, c) = BookAt(f2, d, c)
      BY <2>3, <3>2, <3>4, <3>6, MovedBook, SMTT(60)
    <3> QED  BY <1>5, <3>1, <3>3, <3>6, <3>7
  <2> QED  BY <2>4, <2>5
<1> QED  BY <1>4, <1>5

LEMMA NoPurgeKept == NoPurge => Kept = Chan
BY DEF NoPurge, Kept

(* What a pass has come by is not marked.                                  *)
LEMMA SyncClean ==
  ASSUME Good(regs, vals, query, disk), Cached(regs, disk),
         NEW f, NEW r, SyncShape(f, r)
  PROVE  /\ r \in Listed(f) /\ r \in Regs /\ f[r].channel = regs[r].channel
         /\ f[r].access = regs[r].access /\ f[r].realname = regs[r].realname
         /\ Others(f, regs, r)
         /\ regs[r].channel \in Kept => ~f[r].modified
<1>1. /\ r \in Listed(regs) /\ r \in Regs /\ regs[r] # NULL
      /\ regs[r] \in RegUser /\ WellFormed(regs[r])
  BY ListedOK DEF SyncShape, Good
<1>2. CASE f = regs /\ ~NeedsSave(regs[r])
  <2>1. ASSUME regs[r].channel \in Kept PROVE ~regs[r].modified
    <3>1. disk[regs[r].channel] # NULL  BY <2>1 DEF Cached
    <3>2. regs[r].access < MASTER_ACCESS
      BY <1>1, <2>1, StarNotChan DEF WellFormed
    <3> QED  BY <1>2, <3>1, <3>2 DEF NeedsSave
  <2>2. Others(regs, regs, r)  BY SameSelf DEF Others, SameAt
  <2> QED  BY <1>1, <1>2, <2>1, <2>2
<1>3. CASE \E off : SavedHeap(f, regs, r, off)
  BY <1>1, <1>3 DEF SavedHeap, Listed
<1> QED  BY <1>2, <1>3 DEF SyncShape

LEMMA SyncSaveBook ==
  ASSUME Good(regs, vals, query, disk), Good(regs', vals', query', disk'),
         Cached(regs, disk), NoPurge, NEW f, NEW r, SyncShape(f, r), NEW c \in Chan
  PROVE  /\ Unshad(f, disk', c) = Unshad(regs, disk, c)
         /\ BookAt(f, disk', c) = BookAt(regs, disk, c)
<1>1. CASE f = regs /\ disk' = disk  BY <1>1
<1>2. CASE ~(f = regs /\ disk' = disk)
  <2>1. PICK off \in SlotFor(regs[r]) :
          /\ regs[r].channel \in Chan /\ off \in Nat \ {0}
          /\ SavedHeap(f, regs, r, off) /\ ColdSave(regs[r], off)
    BY <1>2 DEF SyncShape
  <2>2. /\ r \in Listed(regs) /\ r \in Regs /\ regs[r] # NULL
        /\ regs[r] \in RegUser /\ WellFormed(regs[r])
    BY ListedOK DEF SyncShape, Good
  <2>3. regs[r].channel \in Kept  BY <2>1, NoPurgeKept
  <2>4. disk[regs[r].channel] # NULL  BY <2>3 DEF Cached
  <2>5. HeapOK(regs, vals) /\ DiskType(disk) /\ DiskType(disk')  BY DEF Good
  <2>6. SlotSet(disk', disk, regs[r].channel, off, make_dbuser(regs[r]))
    BY <2>1, <2>2, <2>4, <2>5, ColdSaveSet
  <2>7. \/ regs[r].offset # 0 /\ off = regs[r].offset
        \/ regs[r].offset = 0 /\ off \notin Used(disk, regs[r].channel)
    BY <2>1, <2>2, <2>4, <2>5, SlotFits
  <2> QED  BY <2>1, <2>3, <2>5, <2>6, <2>7, SaveBook
<1> QED  BY <1>1, <1>2

(* A record that is dropped by a pass is a channel's.                      *)
LEMMA SyncFreed ==
  ASSUME Good(regs, vals, query, disk), NoPurge, NEW f, NEW r, SyncShape(f, r),
         regs' # f
  PROVE  FreeHeap(regs', f, r) /\ regs[r].channel \in Kept
<1>1. regs[r] \in RegUser /\ WellFormed(regs[r])
  BY ListedOK DEF SyncShape, Good
<1>2. FreeHeap(regs', f, r) /\ regs[r].access < MASTER_ACCESS
  BY DEF SyncShape
<1>3. regs[r].channel # Star  BY <1>1, <1>2 DEF WellFormed, MASTER_ACCESS
<1> QED  BY <1>1, <1>2, <1>3, NoPurgeKept DEF RegUser, AllChan

LEMMA SyncBook ==
  ASSUME Good(regs, vals, query, disk), Good(regs', vals', query', disk'),
         Cached(regs, disk), NoPurge, NEW f, NEW r, SyncShape(f, r), NEW c \in Chan
  PROVE  BookAt(regs', disk', c) = BookAt(regs, disk, c)
<1>1. BookAt(f, disk', c) = BookAt(regs, disk, c)  BY SyncSaveBook
<1>2. CASE regs' = f  BY <1>1, <1>2
<1>3. CASE regs' # f
  <2>1. FreeHeap(regs', f, r) /\ regs[r].channel \in Kept  BY <1>3, SyncFreed
  <2>2. r \in Listed(f) /\ f[r].channel \in Kept /\ ~f[r].modified
    BY <2>1, SyncClean
  <2>3. Cached(f, disk') /\ HeapOK(f, vals) /\ DiskType(disk')
    BY SyncSavedCached DEF Good, SyncShape
  <2>4. BookAt(regs', disk', c) = BookAt(f, disk', c)
    BY <2>1, <2>2, <2>3, EvictBook
  <2> QED  BY <1>1, <2>4
<1> QED  BY <1>2, <1>3

(* When everything is saved the files alone hold the book.                 *)
LEMMA SavedBook ==
  ASSUME NEW f, NEW g, NEW d, HeapOK(f, g), DiskType(d), Cached(f, d),
         NEW c \in Kept, \A r \in Listed(f) : f[r].channel = c => ~f[r].modified,
         NEW f2, \A r \in Listed(f2) : f2[r].channel = Star
  PROVE  BookAt(f2, d, c) = BookAt(f, d, c)
<1>1. c \in Chan /\ c # Star /\ d[c] # NULL  BY StarNotChan DEF Cached
<1>2. \A k \in Used(d, c) : k \in Nat \ {0}  BY <1>1, UsedSlot
<1>3. LiveAt(f2, c) = {} /\ Unshad(f2, d, c) = Used(d, c)
  BY <1>1 DEF LiveAt, Unshad
<1>4. \A r \in LiveAt(f, c) :
        /\ f[r].offset \in Used(d, c)
        /\ EntryOf(d[c][f[r].offset]) = EntryOf(f[r])
  BY DEF LiveAt, Cached, CellOK
<1>5. ASSUME NEW k \in Used(d, c), k \notin Unshad(f, d, c)
      PROVE  \E r \in LiveAt(f, c) : EntryOf(d[c][k]) = EntryOf(f[r])
  <2>1. PICK r \in Listed(f) : f[r].channel = c /\ f[r].offset = k
    BY <1>5 DEF Unshad
  <2>2. CellOK(f[r], d) /\ ~f[r].modified  BY <2>1 DEF Cached
  <2>3. f[r].access \in Nat
    <3>1. f[r] \in RegUser  BY <2>1, ListedOK
    <3> QED  BY <3>1, AccessNat
  <2>4. f[r].access # 0  BY <1>2, <2>1, <2>2 DEF CellOK
  <2>5. r \in LiveAt(f, c)  BY <2>1, <2>3, <2>4 DEF LiveAt
  <2> QED  BY <1>4, <2>1, <2>5
<1>6. ASSUME NEW e PROVE e \in BookAt(f2, d, c) <=> e \in BookAt(f, d, c)
  <2>1. e \in BookAt(f2, d, c) <=> \E k \in Used(d, c) : e = EntryOf(d[c][k])
    BY <1>3 DEF BookAt
  <2>2. e \in BookAt(f, d, c) <=>
          \/ \E r \in LiveAt(f, c) : e = EntryOf(f[r])
          \/ \E k \in Unshad(f, d, c) : e = EntryOf(d[c][k])
    BY DEF BookAt
  <2>3. Unshad(f, d, c) \subseteq Used(d, c)  BY DEF Unshad
  <2> QED  BY <1>4, <1>5, <2>1, <2>2, <2>3
<1> QED  BY <1>6

LEMMA ExitBook ==
  ASSUME IInv, CacheInv, NoPurge, Exit, NEW c \in Chan
  PROVE  BookAt(regs', disk', c) = BookAt(regs, disk, c)
<1>1. sync = "quit" /\ cursor = {} /\ disk' = disk
      /\ regs' = [r \in Regs |-> IF r = Master THEN MasterReg ELSE NULL]
  BY DEF Exit, Boot
<1>2. c \in Kept  BY NoPurgeKept
<1>3. \A r \in Listed(regs) : regs[r].channel = c => ~regs[r].modified
  BY <1>1, <1>2 DEF CacheInv, PassOK, InPass
<1>4. \A r \in Listed(regs') : regs'[r].channel = Star
  BY <1>1 DEF Listed, MasterReg
<1>5. HeapOK(regs, vals) /\ DiskType(disk) /\ Cached(regs, disk)
  BY IInvParts DEF Good, CacheInv
<1>6. BookAt(regs', disk, c) = BookAt(regs, disk, c)
  BY <1>2, <1>3, <1>4, <1>5, SavedBook
<1> QED  BY <1>1, <1>6

(* A client that logs in or out uses records and perhaps sends a query.    *)
LEMMA LoginsShape ==
  ASSUME Good(regs, vals, query, disk), Logins
  PROVE  /\ SameHeap(regs', regs) /\ disk' = disk
         /\ \/ query' = query
            \/ \E c \in AllChan : \E x : x.kind = "validate" /\ db_fetch(c, x)
<1>1. PICK u \in Users :
        \/ \E c \in AllChan, pw \in Tries : validate(u, c, pw)
        \/ \E c \in AllChan : DeAuth(u, c)
        \/ \E c \in Chan : try_find(u, c)
        \/ \E h \in Hosts : onnick(u, h)
        \/ onquit(u)
  BY DEF Logins
<1>2. CASE \E c \in AllChan, pw \in Tries : validate(u, c, pw)
  <2>1. PICK c \in AllChan, pw \in Tries : validate(u, c, pw)  BY <1>2
  <2> DEFINE x == [Ask("validate", c, u, online[u]) EXCEPT !.passwd = pw]
  <2>2. /\ SameHeap(regs', regs) /\ disk' = disk
        /\ query' = query \/ db_fetch(c, x)
    BY <2>1, ValidateShape
  <2>3. x.kind = "validate"  BY DEF Ask
  <2> HIDE DEF x
  <2> QED  BY <2>2, <2>3
<1>3. CASE \E c \in AllChan : DeAuth(u, c)  BY <1>3, DeAuthShape
<1>4. CASE \E c \in Chan : try_find(u, c)  BY <1>4, TryFindShape
<1>5. CASE \E h \in Hosts : onnick(u, h)  BY <1>5, SameHeapSelf DEF onnick
<1>6. CASE onquit(u)
  <2>1. SameHeap(regs', regs)  BY <1>6, OnquitSame DEF Good
  <2> QED  BY <1>6, <2>1 DEF onquit
<1> QED  BY <1>1, <1>2, <1>3, <1>4, <1>5, <1>6

(* What a query reads, when it reads a slot in use.                        *)
LEMMA HitSlot ==
  ASSUME Good(regs, vals, query, disk), QueriesKept, NoPurge, NEW i \in Qids,
         query[i] \in Query, query[i].pos \in DOMAIN FileOf(query[i]),
         FileOf(query[i])[query[i].pos] \in Slot
  PROVE  /\ query[i].chan \in Chan /\ query[i].pos \in Nat \ {0}
         /\ query[i].pos \in Used(disk, query[i].chan)
         /\ disk[query[i].chan][query[i].pos] = FileOf(query[i])[query[i].pos]
<1>1. query[i] # NULL /\ query[i].chan \in Kept /\ query[i].pos \in Nat \ {0}
      /\ query[i].chan \in Chan
  BY NoPurgeKept, NullOK DEF Query, NullOK
<1>2. /\ FileOf(query[i]) = disk[query[i].chan]
      /\ query[i].pos \in Used(disk, query[i].chan)
  BY <1>1, ReadsFile
<1> QED  BY <1>1, <1>2

LEMMA LoadedBook ==
  ASSUME NEW f, NEW c1, NEW k \in Nat \ {0}, NEW s \in Slot, Loaded(f, c1, k, s),
         k \in Used(disk, c1), disk[c1][k] = s, NEW c
  PROVE  BookAt(f, disk, c) = BookAt(regs, disk, c)
<1>1. CASE f = regs  BY <1>1
<1>2. CASE \E r : LoadHeap(f, regs, r, c1, k, s)  BY <1>2, LoadBook
<1> QED  BY <1>1, <1>2 DEF Loaded

-----------------------------------------------------------------------------
(* Seen from outside, the cache is not there *)

\* The process neither is restarted on request nor dies in a pass.
Undisturbed == NoPurge /\ ~MayStop

(* The steps that may load, save, evict or end the process.                *)
LEMMA InvisibleStep ==
  ASSUME Whole, Whole', Undisturbed, Next,
         (sync # "idle" /\ ~Crash) \/ vals' # vals,
         NEW c \in Chan
  PROVE  BookOf(c)' = BookOf(c)
<1>1. /\ Good(regs, vals, query, disk) /\ Rest
      /\ Good(regs', vals', query', disk')
      /\ Cached(regs, disk) /\ QueriesKept
  BY IInvParts, IInvPartsNext DEF Whole, CacheInv
<1>2. NoPurge /\ ~MayStop  BY DEF Undisturbed
<1>3. c \in Kept /\ disk[c] # NULL /\ disk'[c] # NULL
  <2>1. c \in Kept  BY <1>2, NoPurgeKept
  <2> QED  BY <2>1 DEF Whole, CacheInv, Cached
<1>4. SUFFICES BookAt(regs', disk', c) = BookAt(regs, disk, c)
  BY <1>3, BookNow, BookThen
<1>5. CASE sync = "idle" /\ Logins
  <2>1. SameHeap(regs', regs) /\ disk' = disk  BY <1>1, <1>5, LoginsShape
  <2> QED  BY <2>1, SameBook
<1>6. CASE \E i \in Qids : QueryStep(i)
  <2>1. PICK i \in Qids : QueryStep(i)  BY <1>6
  <2>2. vals' # vals  BY <2>1 DEF QueryStep
  <2>3. read_db(i)  BY <1>1, <2>1, <2>2, EndShape DEF QueryStep
  <2> DEFINE q == query[i]
             s == FileOf(q)[q.pos]
  <2>4. /\ q \in Query /\ disk' = disk /\ ReadShape(q, query'[i])
    BY <1>1, <2>3, ReadShaped
  <2>5. q.pos \in DOMAIN FileOf(q) /\ ReadHit(q, query'[i], s)
    BY <2>2, <2>4 DEF ReadShape, ReadEnd, ReadPast
  <2>6. s \in Slot /\ \E f : CallbackShape(f, q, s)  BY <2>5 DEF ReadHit
  <2>7. PICK f : CallbackShape(f, q, s)  BY <2>6
  <2>8. Loaded(f, q.chan, q.pos, s) /\ SameHeap(regs', f)
    BY <2>2, <2>7 DEF CallbackShape
  <2>9. /\ q.pos \in Nat \ {0} /\ q.pos \in Used(disk, q.chan)
        /\ disk[q.chan][q.pos] = s
    BY <1>1, <1>2, <2>4, <2>5, <2>6, HitSlot
  <2> HIDE DEF q, s
  <2>10. BookAt(f, disk, c) = BookAt(regs, disk, c)
    BY <2>6, <2>8, <2>9, LoadedBook
  <2>11. BookAt(regs', disk, c) = BookAt(f, disk, c)  BY <2>8, SameBook
  <2> QED  BY <2>4, <2>10, <2>11
<1>7. CASE SyncOne
  <2>1. PICK f, r : SyncShape(f, r)  BY <1>1, <1>7, SyncShaped
  <2> QED  BY <1>1, <1>2, <2>1, SyncBook
<1>8. CASE Exit
  BY <1>2, <1>8, ExitBook DEF Whole
<1>9. CASE sync = "idle" /\ (Commands \/ Suspensions)
  <2>1. vals' = vals
    <3>1. Commands => vals' = vals
      <4>1. \A u, b, n, m, acc, pw : AddUser(u, b, n, m, acc, pw) => vals' = vals
        BY DEF AddUser
      <4>2. \A u, b, t : RemoveUser(u, b, t) => vals' = vals
        BY DEF RemoveUser
      <4>3. \A u, b, field, t, value :
              ModUserInfo(u, b, field, t, value) => vals' = vals
        BY DEF ModUserInfo
      <4>4. \A u, b, pw : ChPass(u, b, pw) => vals' = vals
        BY DEF ChPass
      <4>5. \A u, b : purge(u, b) => vals' = vals
        BY DEF purge
      <4>6. \A u, b, n, m, pw : RegChan(u, b, n, m, pw) => vals' = vals
        BY DEF RegChan
      <4> QED  BY <4>1, <4>2, <4>3, <4>4, <4>5, <4>6 DEF Commands
    <3>2. Suspensions => vals' = vals
      BY DEF Suspensions, suspend, SuspensionsExpire
    <3> QED  BY <1>9, <3>1, <3>2
  <2> QED  BY <1>9, <2>1
<1>10. CASE SaveTimer \/ SaveSlice \/ (sync = "idle" /\ quit)
  <2>1. regs' = regs /\ disk' = disk
    BY <1>10 DEF SaveTimer, SaveUserList, SaveSlice, do_cold_sync_slice, quit
  <2> QED  BY <2>1
<1>11. CASE restart \/ Crash
  BY <1>2, <1>11 DEF restart, Crash
<1> QED
  BY <1>5, <1>6, <1>7, <1>8, <1>9, <1>10, <1>11 DEF Next

(* Writing back, evicting, quitting, and logging in or out with what that  *)
(* loads leave the book as it is, however many queries run.                *)
THEOREM CacheInvisibleCorrect == Undisturbed => (Spec => CacheInvisible)
<1> SUFFICES ASSUME Undisturbed PROVE Spec => CacheInvisible
  OBVIOUS
<1>1. Init => Whole  BY InitIInv, InitCacheInv DEF Whole
<1>2. Whole /\ [Next]_vars => Whole'  BY NextCacheInv
<1>3. Whole /\ Whole' /\ [Next]_vars =>
        [(sync # "idle" /\ ~Crash) \/ vals' # vals =>
           \A c \in Chan : BookOf(c)' = BookOf(c)]_vars
  <2> SUFFICES ASSUME Whole, Whole', [Next]_vars, ~UNCHANGED vars,
                      (sync # "idle" /\ ~Crash) \/ vals' # vals,
                      NEW c \in Chan
               PROVE  BookOf(c)' = BookOf(c)
    OBVIOUS
  <2> QED  BY InvisibleStep
<1> QED  BY <1>1, <1>2, <1>3, PTL DEF Spec, CacheInvisible

-----------------------------------------------------------------------------
(* A nick is filed once *)

\* The records of channel c that are in the table.
On(f, c) == {r \in Listed(f) : f[r].channel = c}

\* No two records of the channel are filed under one nick, nor is a record filed
\* under the nick of a slot only the file knows of; and no two slots hold one
\* nick, unless one of them is a deleted record's, which the running pass, that has
\* come to the new record already, will free.
NickAt(f, d, cur, c) ==
  /\ \A r, x \in On(f, c) :
       f[r].realname = f[x].realname /\ f[r].realname # Del => r = x
  /\ \A r \in On(f, c), k \in Unshad(f, d, c) : f[r].realname # d[c][k].realname
  /\ \A j, k \in Used(d, c) : d[c][j].realname = d[c][k].realname =>
       \/ j = k
       \/ \E r \in On(f, c) :
            r \in cur /\ f[r].access = 0 /\ f[r].offset \in {j, k}

\* The record that adduser's query q holds may be given to the table when the
\* query has come to the end of the file: its nick is in no record, and in no slot
\* but those the query has still to look at.
AddFits(f, d, q) ==
  /\ \A r \in On(f, q.chan) : f[r].realname # q.info
  /\ \A k \in Used(d, q.chan) :
       d[q.chan][k].realname = q.info => q.open /\ k >= q.pos
  /\ f[q.reg].channel = q.chan /\ f[q.reg].realname = q.info
  /\ f[q.reg].access \in GrantLevels

AddOK(f, d, qs) == \A i \in Qids : Holds(qs, i) => AddFits(f, d, qs[i])

\* The inductive invariant, on top of IInv and CacheInv.
NickInv ==
  /\ \A c \in Chan : NickAt(regs, disk, cursor, c)
  /\ AddOK(regs, disk, query)

LEMMA DelNoName == Del \notin Names
BY ConstantsOK DEF ConstantsOK

LEMMA SlotName ==
  ASSUME NEW d, DiskType(d), NEW c \in Chan, d[c] # NULL, NEW k \in Used(d, c)
  PROVE  d[c][k] \in Slot /\ d[c][k].realname \in Names /\ d[c][k].realname # Del
<1>1. d[c][k] \in Slot  BY UsedSlot
<1> QED  BY <1>1, DelNoName DEF Slot

(* What only depends on the table.                                         *)
LEMMA NickTable ==
  ASSUME NEW f, NEW f2, NEW d, NEW cur, NEW c, Listed(f2) = Listed(f),
         \A r \in Listed(f) : Looks(f[r], f2[r]), NickAt(f, d, cur, c)
  PROVE  NickAt(f2, d, cur, c)
<1>1. On(f2, c) = On(f, c)  BY DEF On, Looks
<1>2. Unshad(f2, d, c) = Unshad(f, d, c)  BY TableBook
<1>3. \A r \in On(f, c) : /\ f2[r].realname = f[r].realname
                          /\ f2[r].access = f[r].access
                          /\ f2[r].offset = f[r].offset
  BY DEF On, Looks
<1> QED  BY <1>1, <1>2, <1>3 DEF NickAt

LEMMA NickSame ==
  ASSUME NEW f, NEW f2, NEW d, NEW cur, NEW c, SameHeap(f2, f),
         NickAt(f, d, cur, c)
  PROVE  NickAt(f2, d, cur, c)
<1>1. Listed(f2) = Listed(f)  BY SameListed
<1>2. \A r \in Listed(f) : Looks(f[r], f2[r])
  BY DEF SameHeap, SameAt, Same, Listed
<1> QED  BY <1>1, <1>2, NickTable

LEMMA NickEdit ==
  ASSUME NEW f, NEW f2, NEW d, DiskType(d), NEW c \in Chan, d[c] # NULL,
         NEW e \in Regs, EditHeap(f2, f, e), NickAt(f, d, {}, c)
  PROVE  NickAt(f2, d, {}, c)
<1>1. \A x \in Regs : x # e => /\ x \in Listed(f2) <=> x \in Listed(f)
                               /\ x \in Listed(f) => Looks(f[x], f2[x])
  BY OthersListed DEF EditHeap, Others, SameAt, Same, Listed
<1>2. /\ e \in Listed(f) /\ e \in Listed(f2) /\ f2[e].channel = f[e].channel
      /\ f2[e].offset = f[e].offset
      /\ f2[e].realname = f[e].realname \/ f2[e].realname = Del
  BY DEF EditHeap, Listed, Rewritten, Deleted
<1>3. Listed(f2) = Listed(f)  BY <1>1, <1>2 DEF Listed
<1>4. /\ On(f2, c) = On(f, c)
      /\ \A r \in On(f, c) : \/ f2[r].realname = f[r].realname
                             \/ f2[r].realname = Del
  <2>1. On(f, c) \subseteq Regs  BY DEF On, Listed
  <2>2. \A r \in Listed(f) : f2[r].channel = f[r].channel
    BY <1>1, <1>2 DEF Looks, Listed
  <2>3. On(f2, c) = On(f, c)  BY <1>3, <2>2 DEF On
  <2> QED  BY <1>1, <1>2, <2>1, <2>3 DEF On, Looks
<1>5. Unshad(f2, d, c) = Unshad(f, d, c)
  <2>1. \A r \in Listed(f) : /\ f2[r].channel = f[r].channel
                             /\ f2[r].offset = f[r].offset
    BY <1>1, <1>2 DEF Looks, Listed
  <2> QED  BY <1>3, <2>1 DEF Unshad
<1>6. \A k \in Unshad(f, d, c) : d[c][k].realname # Del
  BY SlotName DEF Unshad
<1>7. \A r, x \in On(f2, c) :
        f2[r].realname = f2[x].realname /\ f2[r].realname # Del => r = x
  BY <1>4 DEF NickAt
<1>8. \A r \in On(f2, c), k \in Unshad(f2, d, c) :
        f2[r].realname # d[c][k].realname
  BY <1>4, <1>5, <1>6 DEF NickAt
<1> QED  BY <1>7, <1>8 DEF NickAt

LEMMA NickLoad ==
  ASSUME NEW f, NEW f2, NEW d, NEW c, NEW e, NEW c1, NEW k \in Nat \ {0},
         NEW s, LoadHeap(f2, f, e, c1, k, s),
         k \in Used(d, c1), d[c1][k] = s, NickAt(f, d, {}, c)
  PROVE  NickAt(f2, d, {}, c)
<1>1. /\ e \in Regs /\ e \notin Listed(f) /\ e \in Listed(f2)
      /\ f2[e].channel = c1 /\ f2[e].offset = k /\ f2[e].realname = s.realname
      /\ Others(f2, f, e)
  BY DEF LoadHeap, Listed
<1>2. \A x \in Regs : x # e => /\ x \in Listed(f2) <=> x \in Listed(f)
                               /\ x \in Listed(f) => Looks(f[x], f2[x])
  BY <1>1, OthersListed DEF Others, SameAt, Same, Listed
<1>3. Listed(f) \subseteq Regs /\ Listed(f2) = Listed(f) \cup {e}
  BY <1>1, <1>2 DEF Listed
<1>4. \A x \in Listed(f) : x # e /\ Looks(f[x], f2[x])  BY <1>1, <1>2, <1>3
<1>5. Unshad(f2, d, c) \subseteq Unshad(f, d, c)
  BY <1>3, <1>4 DEF Unshad, Looks
<1>6. \A x \in On(f2, c) : x = e \/ (x \in On(f, c) /\ f2[x].realname = f[x].realname)
  BY <1>3, <1>4 DEF On, Looks
<1>7. CASE c # c1
  <2>1. e \notin On(f2, c)  BY <1>1, <1>7 DEF On
  <2> QED  BY <1>5, <1>6, <2>1 DEF NickAt
<1>8. CASE c = c1
  <2>1. k \in Unshad(f, d, c)  BY <1>8 DEF LoadHeap, Unshad
  <2>2. k \notin Unshad(f2, d, c)  BY <1>1, <1>3, <1>8 DEF Unshad
  <2>3. \A x \in On(f, c) : f[x].realname # s.realname
    BY <1>8, <2>1 DEF NickAt
  <2>4. \A j \in Unshad(f2, d, c) : d[c][j].realname # s.realname
    <3> SUFFICES ASSUME NEW j \in Unshad(f2, d, c), d[c][j].realname = s.realname
                 PROVE  FALSE
      OBVIOUS
    <3>1. j \in Used(d, c) /\ k \in Used(d, c)  BY <1>8 DEF Unshad
    <3>2. j = k  BY <1>8, <3>1 DEF NickAt
    <3> QED  BY <2>2, <3>2
  <2>5. \A r, x \in On(f2, c) :
          f2[r].realname = f2[x].realname /\ f2[r].realname # Del => r = x
    BY <1>1, <1>6, <2>3 DEF NickAt
  <2>6. \A r \in On(f2, c), j \in Unshad(f2, d, c) :
          f2[r].realname # d[c][j].realname
    BY <1>1, <1>5, <1>6, <2>4 DEF NickAt
  <2> QED  BY <2>5, <2>6 DEF NickAt
<1> QED  BY <1>7, <1>8

LEMMA NickList ==
  ASSUME NEW f, NEW f2, NEW d, NEW c, NEW e, ListHeap(f2, f, e), e \in Pending(f),
         \A r \in On(f, f[e].channel) : f[r].realname # f[e].realname,
         \A k \in Unshad(f, d, f[e].channel) :
           d[f[e].channel][k].realname # f[e].realname,
         NickAt(f, d, {}, c)
  PROVE  NickAt(f2, d, {}, c)
<1>1. /\ e \in Regs /\ e \notin Listed(f) /\ Looks(f[e], f2[e]) /\ e \in Listed(f2)
      /\ Others(f2, f, e)
  BY DEF ListHeap, Pending, Listed
<1>2. \A x \in Regs : x # e => /\ x \in Listed(f2) <=> x \in Listed(f)
                               /\ x \in Listed(f) => Looks(f[x], f2[x])
  BY <1>1, OthersListed DEF Others, SameAt, Same, Listed
<1>3. Listed(f) \subseteq Regs /\ Listed(f2) = Listed(f) \cup {e}
  BY <1>1, <1>2 DEF Listed
<1>4. \A x \in Listed(f) : x # e /\ Looks(f[x], f2[x])  BY <1>1, <1>2, <1>3
<1>5. Unshad(f2, d, c) \subseteq Unshad(f, d, c)
  BY <1>3, <1>4 DEF Unshad, Looks
<1>6. \A x \in On(f2, c) : x = e \/ (x \in On(f, c) /\ f2[x].realname = f[x].realname)
  BY <1>3, <1>4 DEF On, Looks
<1>7. f2[e].channel = f[e].channel /\ f2[e].realname = f[e].realname
  BY <1>1 DEF Looks
<1>8. e \in On(f2, c) => c = f[e].channel  BY <1>7 DEF On
<1>9. \A r, x \in On(f2, c) :
        f2[r].realname = f2[x].realname /\ f2[r].realname # Del => r = x
  BY <1>6, <1>7, <1>8 DEF NickAt
<1>10. \A r \in On(f2, c), j \in Unshad(f2, d, c) :
        f2[r].realname # d[c][j].realname
  BY <1>5, <1>6, <1>7, <1>8 DEF NickAt
<1> QED  BY <1>9, <1>10 DEF NickAt

-----------------------------------------------------------------------------
(* The record adduser's query holds *)

\* No record is filed under a nick it had not before, and those that are not in
\* the table stay as they are.
KeepNames(f2, f) ==
  /\ \A r \in Listed(f2) :
       /\ r \in Listed(f) /\ f2[r].channel = f[r].channel
       /\ f2[r].realname = f[r].realname \/ f2[r].realname = Del
  /\ \A r \in Pending(f) :
       /\ f2[r].channel = f[r].channel /\ f2[r].realname = f[r].realname
       /\ f2[r].access = f[r].access

LEMMA SameKeeps == ASSUME NEW f, NEW f2, SameHeap(f2, f) PROVE KeepNames(f2, f)
BY DEF SameHeap, SameAt, Same, Looks, Listed, Pending, KeepNames

\* A record of the table changes, is deleted or dropped.
LEMMA OneKeeps ==
  ASSUME NEW f, NEW f2, NEW e \in Listed(f), Others(f2, f, e),
         e \in Listed(f2) => /\ f2[e].channel = f[e].channel
                             /\ \/ f2[e].realname = f[e].realname
                                \/ f2[e].realname = Del
  PROVE  KeepNames(f2, f)
<1>1. \A x \in Regs : x # e => SameAt(f2, f, x)  BY DEF Others
<1>2. \A x \in Listed(f2) : x = e \/ (x \in Listed(f) /\ Looks(f[x], f2[x]))
  BY <1>1 DEF Listed, SameAt, Same
<1>3. \A x \in Pending(f) : x # e /\ Looks(f[x], f2[x])
  BY <1>1 DEF Listed, Pending, SameAt, Same
<1> QED  BY <1>2, <1>3 DEF KeepNames, Looks

LEMMA EditKeeps ==
  ASSUME NEW f, NEW f2, NEW e, EditHeap(f2, f, e) PROVE KeepNames(f2, f)
<1>1. /\ e \in Listed(f) /\ Others(f2, f, e) /\ f2[e].channel = f[e].channel
      /\ f2[e].realname = f[e].realname \/ f2[e].realname = Del
  BY DEF EditHeap, Rewritten, Deleted
<1> QED  BY <1>1, OneKeeps

LEMMA AddHeap ==
  ASSUME NEW f, NEW f2, NEW d, NEW q, KeepNames(f2, f), q.reg \in Pending(f),
         q.info \in Names, AddFits(f, d, q)
  PROVE  AddFits(f2, d, q)
<1>1. \A r \in On(f2, q.chan) : f2[r].realname # q.info
  BY DelNoName DEF On, KeepNames, AddFits
<1>2. /\ f2[q.reg].channel = q.chan /\ f2[q.reg].realname = q.info
      /\ f2[q.reg].access \in GrantLevels
  BY DEF KeepNames, AddFits
<1> QED  BY <1>1, <1>2 DEF AddFits

\* Slots are written for records that are in the table.
LEMMA AddFiles ==
  ASSUME NEW f, NEW d, NEW d2, NEW q, AddFits(f, d, q),
         \A k \in Used(d2, q.chan) :
           \/ /\ k \in Used(d, q.chan)
              /\ d2[q.chan][k].realname = d[q.chan][k].realname
           \/ \E r \in On(f, q.chan) : d2[q.chan][k].realname = f[r].realname
  PROVE  AddFits(f, d2, q)
BY DEF AddFits

LEMMA HoldsOwn ==
  ASSUME Good(regs, vals, query, disk), NEW i \in Qids, Holds(query, i)
  PROVE  query[i].reg \in Pending(regs) /\ query[i].info \in Names
BY DEF Good, Owned, AsksOK, QueryOK, Holds

LEMMA AddOKHeap ==
  ASSUME Good(regs, vals, query, disk), NEW f2, KeepNames(f2, regs),
         AddOK(regs, disk, query)
  PROVE  AddOK(f2, disk, query)
<1> SUFFICES ASSUME NEW i \in Qids, Holds(query, i)
             PROVE  AddFits(f2, disk, query[i])
  BY DEF AddOK
<1>1. AddFits(regs, disk, query[i])  BY DEF AddOK
<1>2. query[i].reg \in Pending(regs) /\ query[i].info \in Names  BY HoldsOwn
<1> QED  BY <1>1, <1>2, AddHeap

LEMMA AddOKFetch ==
  ASSUME QueryType(query), NEW f, NEW d, AddOK(f, d, query), NEW c, NEW x,
         x.kind # "adduser", db_fetch(c, x)
  PROVE  AddOK(f, d, query')
<1>1. CASE query' = query  BY <1>1
<1>2. CASE Enqueue(x)
  <2>1. PICK i \in Fresh(query) : query' = [query EXCEPT ![i] = x]
    BY <1>2 DEF Enqueue
  <2>2. i \in Qids  BY DEF Fresh, QueryType
  <2>3. query'[i] = x /\ \A j \in Qids \ {i} : query'[j] = query[j]
    BY <2>1, <2>2 DEF QueryType
  <2>4. ~Holds(query', i)  BY <2>3 DEF Holds
  <2>5. \A j \in Qids \ {i} : Holds(query', j) => Holds(query, j)
    BY <2>3 DEF Holds
  <2> QED  BY <2>3, <2>4, <2>5 DEF AddOK
<1> QED  BY <1>1, <1>2 DEF db_fetch

-----------------------------------------------------------------------------
(* One query at a time *)

\* There is room for one query, and at the start a nick is in a file once.
OneQuery == \A i, j \in Qids : i = j
FilesDistinct ==
  \A d \in InitialFiles : \A j, k \in DOMAIN d :
    d[j] # NULL /\ d[k] # NULL /\ d[j].realname = d[k].realname => j = k
Serial == Undisturbed /\ OneQuery /\ FilesDistinct

\* Between two passes no pass is running.
IdleNick == \A c \in Chan : NickAt(regs, disk, {}, c)

LEMMA IdleIs ==
  ASSUME IInv, NickInv, sync = "idle"
  PROVE  IdleNick /\ AddOK(regs, disk, query) /\ cursor = {}
<1>1. cursor = {}  BY DEF IInv, CursorOK
<1> QED  BY <1>1 DEF NickInv, IdleNick

LEMMA IdleThen ==
  ASSUME IInv', sync' = "idle", IdleNick', AddOK(regs', disk', query')
  PROVE  NickInv'
<1>1. cursor' = {}  BY DEF IInv, CursorOK
<1>2. \A c \in Chan : NickAt(regs', disk', {}, c)
  BY DEF IdleNick, NickAt, On, Unshad, Used, Listed
<1>3. AddOK(regs, disk, query)'
  BY DEF AddOK, Holds, AddFits, On, Used, Listed
<1>4. (\A c \in Chan : NickAt(regs, disk, cursor, c))'
  BY <1>1, <1>2 DEF NickAt, On, Unshad, Used, Listed
<1> QED  BY <1>3, <1>4 DEF NickInv

\* A command that uses or edits a record in memory and perhaps sends a query.
LEMMA CommandNick ==
  ASSUME Whole, NickInv, sync = "idle", Undisturbed, CommandShape,
         \/ query' = query
         \/ \E c : \E x : x.kind # "adduser" /\ db_fetch(c, x)
  PROVE  IdleNick' /\ AddOK(regs', disk', query')
<1>1. /\ Good(regs, vals, query, disk) /\ Cached(regs, disk)
      /\ IdleNick /\ AddOK(regs, disk, query) /\ disk' = disk
  BY IInvParts, IdleIs DEF Whole, CacheInv, CommandShape
<1>2. \A c \in Chan : disk[c] # NULL
  BY <1>1, NoPurgeKept DEF Undisturbed, Cached
<1>3. DiskType(disk) /\ QueryType(query)  BY <1>1 DEF Good
<1>4. KeepNames(regs', regs) /\ \A c \in Chan : NickAt(regs', disk, {}, c)
  <2>1. CASE SameHeap(regs', regs)
    BY <1>1, <2>1, SameKeeps, NickSame DEF IdleNick
  <2>2. CASE \E r \in Regs : EditHeap(regs', regs, r)
    BY <1>1, <1>2, <1>3, <2>2, EditKeeps, NickEdit DEF IdleNick
  <2> QED  BY <2>1, <2>2 DEF CommandShape
<1>5. IdleNick'
  BY <1>1, <1>4 DEF IdleNick
<1>6. AddOK(regs', disk, query)  BY <1>1, <1>4, AddOKHeap
<1>7. AddOK(regs', disk, query')  BY <1>3, <1>6, AddOKFetch
<1> QED  BY <1>1, <1>5, <1>7

\* AddUser builds the record and sends the query that looks for the nick.
LEMMA AddUserNick ==
  ASSUME Whole, NickInv, sync = "idle", Serial, NEW u, NEW c \in Chan,
         NEW n \in Names, NEW m \in Masks, NEW acc \in GrantLevels,
         NEW pw \in Pws, AddUser(u, c, n, m, acc, pw)
  PROVE  /\ IdleNick' /\ AddOK(regs', disk', query') /\ disk' = disk
         /\ \A b : BookAt(regs', disk, b) = BookAt(regs, disk, b)
<1> DEFINE x(r) == [Ask("adduser", c, u, n) EXCEPT !.reg = r]
<1>1. /\ Good(regs, vals, query, disk) /\ Cached(regs, disk)
      /\ IdleNick /\ OneQuery
  BY IInvParts, IdleIs DEF Whole, CacheInv, Serial
<1>2. disk[c] # NULL  BY <1>1, NoPurgeKept DEF Serial, Undisturbed, Cached
<1>3. PICK f, r : AddShape(f, r, u, c, n, acc)  BY <1>1, AddUserShape
<1>4. /\ NewHeap(regs', regs, r, c, n, acc) /\ disk' = disk /\ Enqueue(x(r))
      /\ \A y \in Listed(regs) : regs[y].channel = c => regs[y].realname # n
  BY <1>2, <1>3 DEF AddShape
<1>5. /\ r \in Regs /\ Others(regs', regs, r)
      /\ r \notin Listed(regs) /\ r \notin Listed(regs')
      /\ regs'[r].channel = c /\ regs'[r].realname = n /\ regs'[r].access = acc
  BY <1>4 DEF NewHeap, Listed
<1>6. /\ Listed(regs') = Listed(regs)
      /\ \A y \in Listed(regs) : Looks(regs[y], regs'[y])
      /\ \A b : BookAt(regs', disk, b) = BookAt(regs, disk, b)
  BY <1>5, AsideBook
<1>7. \A b \in Chan : NickAt(regs', disk, {}, b)
  BY <1>1, <1>6, NickTable DEF IdleNick
<1>8. IdleNick'  BY <1>4, <1>7 DEF IdleNick
<1>9. PICK i \in Fresh(query) : query' = [query EXCEPT ![i] = x(r)]
  BY <1>4 DEF Enqueue
<1>10. i \in Qids /\ query'[i] = x(r)
  BY <1>1, <1>9 DEF Fresh, Good, QueryType
<1>11. /\ x(r).chan = c /\ x(r).info = n /\ x(r).reg = r
       /\ x(r).open /\ x(r).pos = 1
  BY DEF Ask
<1> HIDE DEF x
<1>12. \A y \in On(regs', c) : regs'[y].realname # n
  BY <1>4, <1>6 DEF On, Looks
<1>13. \A k \in Used(disk, c) : k >= 1
  BY <1>1, <1>2, UsedSlot DEF Good
<1>14. AddFits(regs', disk, x(r))
  BY <1>5, <1>11, <1>12, <1>13 DEF AddFits
<1>15. AddOK(regs', disk, query')
  BY <1>1, <1>10, <1>14 DEF AddOK, OneQuery
<1> QED  BY <1>4, <1>6, <1>8, <1>15

\* All suspensions run out.
LEMMA ExpireNick ==
  ASSUME Whole, NickInv, sync = "idle", Undisturbed, SuspensionsExpire
  PROVE  IdleNick' /\ AddOK(regs', disk', query')
<1>1. /\ Good(regs, vals, query, disk) /\ Cached(regs, disk) /\ QueriesKept
      /\ IdleNick /\ AddOK(regs, disk, query)
  BY IInvParts, IdleIs DEF Whole, CacheInv
<1>2. ExpiredHeap(regs', regs) /\ ExpiredDisk(disk', disk)
  BY <1>1, ExpireShape
<1>3. \A c \in Chan : disk[c] # NULL /\ c \in Kept
  BY <1>1, NoPurgeKept DEF Undisturbed, Cached
<1>4. Listed(regs') = Listed(regs)  BY <1>2 DEF ExpiredHeap, Listed
<1>5. \A r \in Listed(regs) :
        /\ regs'[r].channel = regs[r].channel
        /\ regs'[r].offset = regs[r].offset
        /\ regs'[r].realname = regs[r].realname
        /\ regs'[r].access = regs[r].access
  BY <1>2 DEF ExpiredHeap, Listed
<1>6. \A c \in Chan : Used(disk', c) = Used(disk, c)
  BY <1>2, <1>3 DEF ExpiredDisk
<1>7. \A c \in Chan : \A k \in Used(disk, c) :
        disk'[c][k].realname = disk[c][k].realname
  BY <1>2, <1>3 DEF ExpiredDisk
<1>8. \A c : On(regs', c) = On(regs, c)  BY <1>4, <1>5 DEF On
<1>9. ASSUME NEW c \in Chan PROVE NickAt(regs', disk', {}, c)
  <2>1. Unshad(regs', disk', c) = Unshad(regs, disk, c)
    BY <1>4, <1>5, <1>6 DEF Unshad
  <2>2. Unshad(regs, disk, c) \subseteq Used(disk, c)  BY DEF Unshad
  <2>3. \A r \in On(regs, c) : regs'[r].realname = regs[r].realname
    BY <1>5 DEF On
  <2>4. \A k \in Unshad(regs, disk, c) :
          disk'[c][k].realname = disk[c][k].realname
    BY <1>7, <2>2
  <2>5. NickAt(regs, disk, {}, c)  BY <1>1 DEF IdleNick
  <2>6. \A r, y \in On(regs', c) :
          regs'[r].realname = regs'[y].realname /\ regs'[r].realname # Del => r = y
    BY <1>8, <2>3, <2>5 DEF NickAt
  <2>7. \A r \in On(regs', c), k \in Unshad(regs', disk', c) :
          regs'[r].realname # disk'[c][k].realname
    BY <1>8, <2>1, <2>3, <2>4, <2>5 DEF NickAt
  <2>8. \A j, k \in Used(disk', c) :
          disk'[c][j].realname = disk'[c][k].realname => j = k
    BY <1>6, <1>7, <2>5 DEF NickAt
  <2> QED  BY <2>6, <2>7, <2>8 DEF NickAt
<1>10. IdleNick'  BY <1>9 DEF IdleNick
<1>11. \A i \in Qids : query'[i] = query[i]
  <2>1. \A i \in Qids : query[i] # NULL => query[i].kept = NULL
    <3>1. \A i \in Qids : query[i] # NULL => query[i].chan \in Chan
      BY <1>1, NullOK DEF Good, QueryType, Query
    <3> QED  BY <1>1, <1>3, <3>1 DEF QueriesKept
  <2> QED  BY <2>1 DEF SuspensionsExpire
<1>12. ASSUME NEW i \in Qids, Holds(query', i)
       PROVE  AddFits(regs', disk', query'[i])
  <2> DEFINE q == query[i]
  <2>1. Holds(query, i) /\ query'[i] = q  BY <1>11, <1>12 DEF Holds
  <2>2. AddFits(regs, disk, q)  BY <1>1, <2>1 DEF AddOK
  <2>3. q.reg \in Pending(regs) /\ q.chan \in Chan
    BY <1>1, <2>1, HoldsOwn, NullOK DEF Good, QueryType, Query, Holds
  <2>4. regs'[q.reg].channel = regs[q.reg].channel
        /\ regs'[q.reg].realname = regs[q.reg].realname
        /\ regs'[q.reg].access = regs[q.reg].access
    BY <1>2, <2>3 DEF ExpiredHeap, Pending
  <2> HIDE DEF q
  <2>5. \A r \in On(regs', q.chan) : regs'[r].realname # q.info
    BY <1>5, <1>8, <2>2 DEF On, AddFits
  <2>6. \A k \in Used(disk', q.chan) :
          disk'[q.chan][k].realname = q.info => q.open /\ k >= q.pos
    BY <1>6, <1>7, <2>2, <2>3 DEF AddFits
  <2>7. AddFits(regs', disk', q)  BY <2>2, <2>4, <2>5, <2>6 DEF AddFits
  <2> QED  BY <2>1, <2>7
<1>13. AddOK(regs', disk', query')  BY <1>12 DEF AddOK
<1> QED  BY <1>10, <1>13

\* Record e's nick is new on its channel.
NewNick(f, d, e) ==
  /\ \A r \in On(f, f[e].channel) : f[r].realname # f[e].realname
  /\ \A k \in Unshad(f, d, f[e].channel) :
       d[f[e].channel][k].realname # f[e].realname

\* What one command or one read does to the heap f, once it has loaded what it needs.
Way(f2, f, d) ==
  \/ SameHeap(f2, f)
  \/ \E e \in Regs : EditHeap(f2, f, e)
  \/ \E e \in Pending(f) : FreeHeap(f2, f, e)
  \/ \E e \in Pending(f) : /\ ListHeap(f2, f, e) /\ NewNick(f, d, e)
                           /\ f[e].channel \in Chan /\ f[e].access \in GrantLevels
                           /\ f[e].realname \in Names

LEMMA WayNick ==
  ASSUME NEW f, NEW f2, NEW d, DiskType(d), NEW c \in Chan, d[c] # NULL,
         Way(f2, f, d), NickAt(f, d, {}, c)
  PROVE  NickAt(f2, d, {}, c)
<1>1. CASE SameHeap(f2, f)  BY <1>1, NickSame
<1>2. CASE \E e \in Regs : EditHeap(f2, f, e)  BY <1>2, NickEdit
<1>3. CASE \E e \in Pending(f) : FreeHeap(f2, f, e)
  <2>1. PICK e \in Pending(f) : FreeHeap(f2, f, e)  BY <1>3
  <2>2. /\ e \in Regs /\ Others(f2, f, e)
        /\ e \notin Listed(f) /\ e \notin Listed(f2)
    BY <2>1 DEF FreeHeap, Pending, Listed
  <2>3. Listed(f2) = Listed(f) /\ \A x \in Listed(f) : Looks(f[x], f2[x])
    BY <2>2, AsideBook
  <2> QED  BY <2>3, NickTable
<1>4. CASE \E e \in Pending(f) : ListHeap(f2, f, e) /\ NewNick(f, d, e)
  BY <1>4, NickList DEF NewNick
<1> QED  BY <1>1, <1>2, <1>3, <1>4 DEF Way

\* adduser's record is new when no slot but a deleted record's has its nick.
LEMMA HookNew ==
  ASSUME NEW d, NEW f, NEW q, q.reg \in Pending(f), AddFits(f, d, q),
         q.chan \in Chan, q.info \in Names,
         \A k \in Unshad(f, d, q.chan) : d[q.chan][k].realname # q.info
  PROVE  /\ NewNick(f, d, q.reg) /\ f[q.reg].channel \in Chan
         /\ f[q.reg].access \in GrantLevels /\ f[q.reg].realname \in Names
BY DEF AddFits, NewNick

\* The callback has found the nick in a slot that a record in memory has given up.
LEMMA HitNew ==
  ASSUME Good(regs, vals, query, disk), Cached(regs, disk), IdleNick, NoPurge,
         NEW q, q.chan \in Chan, q.pos \in Used(disk, q.chan),
         disk[q.chan][q.pos].realname = q.info, q.pos \in Nat \ {0},
         NEW x \in InMemory(q.chan, q.pos),
         regs[x].access = 0 \/ regs[x].realname # q.info,
         NEW k \in Unshad(regs, disk, q.chan)
  PROVE  disk[q.chan][k].realname # q.info
<1>1. x \in Listed(regs) /\ regs[x].channel = q.chan /\ regs[x].offset = q.pos
  BY DEF InMemory
<1>2. k # q.pos /\ k \in Used(disk, q.chan)  BY <1>1 DEF Unshad
<1>3. NickAt(regs, disk, {}, q.chan)  BY DEF IdleNick
<1> QED  BY <1>2, <1>3 DEF NickAt

LEMMA HitName ==
  ASSUME NEW q, NEW s, Hit(q, s), q.kind = "adduser", q.info \in Names
  PROVE  s.realname = q.info
BY DEF Hit

\* Nothing is loaded by a read that is no hit.
LEMMA ReadWay ==
  ASSUME Whole, NickInv, sync = "idle", Serial, NEW i \in Qids, read_db(i)
  PROVE  /\ disk' = disk
         /\ \E f : /\ HeapOK(f, vals) /\ Cached(f, disk)
                   /\ \A c \in Chan : NickAt(f, disk, {}, c)
                   /\ \A c : BookAt(f, disk, c) = BookAt(regs, disk, c)
                   /\ Way(regs', f, disk)
<1> DEFINE q == query[i]
           x == query'[i]
           s == FileOf(q)[q.pos]
<1>1. /\ Good(regs, vals, query, disk) /\ Cached(regs, disk) /\ QueriesKept
      /\ IdleNick /\ AddOK(regs, disk, query) /\ OneQuery /\ NoPurge
  BY IInvParts, IdleIs DEF Whole, CacheInv, Serial, Undisturbed
<1>2. /\ q \in Query /\ q.open /\ QueryOK(q, disk) /\ disk' = disk
      /\ ReadShape(q, x)
  BY <1>1, ReadShaped
<1>3. q # NULL /\ q.chan \in Chan  BY <1>2, NullOK DEF Query, NullOK
<1>4. HeapOK(regs, vals) /\ DiskType(disk)  BY <1>1 DEF Good
<1>5. CASE regs' = regs
  <2>1. Way(regs', regs, disk)  BY <1>5, SameHeapSelf DEF Way
  <2> QED  BY <1>1, <1>2, <1>4, <2>1 DEF IdleNick
<1>6. CASE q.pos \in DOMAIN FileOf(q) /\ ReadHit(q, x, s)
  <2>1. s \in Slot /\ Hit(q, s) /\ \E f : CallbackShape(f, q, s)
    BY <1>6 DEF ReadHit
  <2>2. PICK f : CallbackShape(f, q, s)  BY <2>1
  <2>3. /\ q.pos \in Nat \ {0} /\ q.pos \in Used(disk, q.chan)
        /\ disk[q.chan][q.pos] = s
    BY <1>1, <1>2, <1>6, <2>1, HitSlot
  <2>4. q.kind = "adduser" => Holds(query, i)
    BY <1>2, <1>3 DEF QueryOK, Holds
  <2>5. q.kind = "adduser" =>
          /\ q.reg \in Pending(regs) /\ q.info \in Names
          /\ AddFits(regs, disk, q)
    BY <1>1, <2>4, HoldsOwn DEF AddOK
  <2> HIDE DEF q, x, s
  <2>6. Loaded(f, q.chan, q.pos, s)  BY <2>2 DEF CallbackShape
  <2>7. /\ HeapOK(f, vals) /\ Pending(f) = Pending(regs)
        /\ f = regs \/ \E r : LoadHeap(f, regs, r, q.chan, q.pos, s)
    BY <2>6 DEF Loaded
  <2>8. Cached(f, disk)  BY <1>1, <1>3, <2>1, <2>3, <2>6, LoadedCached
  <2>9. \A c : BookAt(f, disk, c) = BookAt(regs, disk, c)
    BY <2>1, <2>3, <2>6, LoadedBook
  <2>10. ASSUME NEW c \in Chan PROVE NickAt(f, disk, {}, c)
    <3>1. NickAt(regs, disk, {}, c)  BY <1>1 DEF IdleNick
    <3>2. CASE f = regs  BY <3>1, <3>2
    <3>3. CASE \E r : LoadHeap(f, regs, r, q.chan, q.pos, s)
      BY <2>3, <3>1, <3>3, NickLoad
    <3> QED  BY <2>7, <3>2, <3>3
  <2>11. Way(regs', f, disk)
    <3>1. CASE q.kind # "adduser"
      BY <2>2, <3>1 DEF CallbackShape, UseShape, Way
    <3>2. CASE q.kind = "adduser"
      <4>1. HookShape(f, q, s)  BY <2>2, <3>2 DEF CallbackShape
      <4>2. CASE FreeHeap(regs', f, q.reg)  BY <2>5, <2>7, <3>2, <4>2 DEF Way
      <4>3. CASE /\ ListHeap(regs', f, q.reg) /\ f = regs
                 /\ \E y \in InMemory(q.chan, q.pos) :
                      regs[y].access = 0 \/ regs[y].realname # s.realname
        <5>1. s.realname = q.info  BY <2>1, <2>5, <3>2, HitName
        <5>2. \A k \in Unshad(regs, disk, q.chan) :
                disk[q.chan][k].realname # q.info
          BY <1>1, <1>3, <2>3, <4>3, <5>1, HitNew
        <5>3. /\ NewNick(regs, disk, q.reg) /\ regs[q.reg].channel \in Chan
              /\ regs[q.reg].access \in GrantLevels
              /\ regs[q.reg].realname \in Names
          BY <1>3, <2>5, <3>2, <5>2, HookNew
        <5> QED  BY <2>5, <3>2, <4>3, <5>3 DEF Way
      <4> QED  BY <4>1, <4>2, <4>3 DEF HookShape
    <3> QED  BY <3>1, <3>2
  <2> QED  BY <1>2, <2>7, <2>8, <2>9, <2>10, <2>11
<1> QED  BY <1>2, <1>5, <1>6 DEF ReadShape, ReadEnd, ReadPast

\* What the query has come by holds no slot of the nick.
LEMMA ReadAdd ==
  ASSUME Whole, NickInv, sync = "idle", Serial, NEW i \in Qids, read_db(i)
  PROVE  AddOK(regs', disk', query')
<1> DEFINE q == query[i]
           x == query'[i]
           s == FileOf(q)[q.pos]
<1>1. /\ Good(regs, vals, query, disk) /\ Cached(regs, disk) /\ QueriesKept
      /\ AddOK(regs, disk, query) /\ OneQuery /\ NoPurge
  BY IInvParts, IdleIs DEF Whole, CacheInv, Serial, Undisturbed
<1>2. /\ q \in Query /\ q.open /\ QueryOK(q, disk) /\ disk' = disk
      /\ Carried(q, x) /\ ReadShape(q, x)
  BY <1>1, ReadShaped
<1>3. q # NULL /\ q.chan \in Chan /\ q.pos \in Nat
  BY <1>2, NullOK DEF Query, NullOK
<1> SUFFICES ASSUME Holds(query', i) PROVE AddFits(regs', disk, x)
  BY <1>1, <1>2 DEF AddOK, OneQuery
<1>4. q.kind = "adduser" /\ ~x.found  BY <1>2 DEF Holds, Carried
<1>5. ~q.found /\ regs' = regs /\ (x.found = q.found)
  BY <1>2, <1>4 DEF ReadShape, ReadEnd, ReadPast, ReadHit
<1>6. Holds(query, i)  BY <1>3, <1>4, <1>5 DEF Holds
<1>7. AddFits(regs, disk, q) /\ q.info \in Names
  BY <1>1, <1>6, HoldsOwn DEF AddOK
<1>8. FileOf(q) = disk[q.chan]
  <2>1. q.chan \in Kept  BY <1>1, <1>3, NoPurgeKept
  <2>2. q.kept = NULL  BY <1>1, <1>3, <2>1 DEF QueriesKept
  <2> QED  BY <2>2 DEF FileOf
<1>9. disk[q.chan] # NULL  BY <1>1, <1>3, NoPurgeKept DEF Cached
<1>10. /\ \A k \in Used(disk, q.chan) : k \in Nat \ {0} /\ k \in DOMAIN disk[q.chan]
       /\ disk[q.chan] \in File
  BY <1>1, <1>3, <1>9, UsedSlot DEF Good, Used
<1>11. x.chan = q.chan /\ x.info = q.info /\ x.reg = q.reg
  BY <1>2 DEF Carried
<1>12. ASSUME NEW k \in Used(disk, q.chan), disk[q.chan][k].realname = q.info
       PROVE  x.open /\ k >= x.pos
  <2>1. k >= q.pos /\ k \in Nat /\ disk[q.chan][k] # NULL
    BY <1>7, <1>10, <1>12 DEF AddFits, Used
  <2>2. ~(q.pos > Len(FileOf(q)))
    BY <1>3, <1>8, <1>10, <2>1 DEF File
  <2>3. /\ x.pos = q.pos + 1 /\ ReadPast(q, x, s)
    BY <1>2, <1>4, <2>2 DEF ReadShape, ReadEnd, ReadHit
  <2>4. k # q.pos
    <3>1. s = NULL \/ ~Hit(q, s)  BY <2>3 DEF ReadPast
    <3>2. Hit(q, s) <=> s.realname = q.info  BY <1>4, <1>7 DEF Hit
    <3> QED  BY <1>8, <1>12, <2>1, <3>1, <3>2
  <2> QED  BY <1>3, <2>1, <2>3, <2>4 DEF ReadPast
<1> HIDE DEF q, x, s
<1>13. AddFits(regs, disk, x)  BY <1>7, <1>11, <1>12 DEF AddFits
<1> QED  BY <1>5, <1>13

LEMMA EndWay ==
  ASSUME Whole, NickInv, sync = "idle", Serial, NEW i \in Qids, end_db_read(i)
  PROVE  disk' = disk /\ Way(regs', regs, disk) /\ AddOK(regs', disk', query')
<1> DEFINE q == query[i]
<1>1. /\ Good(regs, vals, query, disk) /\ Cached(regs, disk)
      /\ AddOK(regs, disk, query) /\ OneQuery
  BY IInvParts, IdleIs DEF Whole, CacheInv, Serial
<1>2. /\ q # NULL /\ query'[i] = NULL /\ disk' = disk
      /\ Holds(query, i) => /\ q.reg \in Pending(regs)
                            /\ ListHeap(regs', regs, q.reg)
      /\ ~Holds(query, i) => regs' = regs
  BY <1>1, EndShape
<1>3. AddOK(regs', disk', query')
  BY <1>1, <1>2 DEF AddOK, OneQuery, Holds
<1>4. CASE Holds(query, i)
  <2>1. AddFits(regs, disk, q) /\ q.info \in Names /\ q.reg \in Pending(regs)
    BY <1>1, <1>4, HoldsOwn DEF AddOK
  <2>2. ~q.open  BY DEF end_db_read, Finished
  <2>3. q.chan \in Chan
    BY <1>1, <1>2, NullOK DEF Good, QueryType, Query, NullOK
  <2> HIDE DEF q
  <2>4. \A k \in Unshad(regs, disk, q.chan) : disk[q.chan][k].realname # q.info
    BY <2>1, <2>2 DEF AddFits, Unshad
  <2>5. /\ NewNick(regs, disk, q.reg) /\ regs[q.reg].channel \in Chan
        /\ regs[q.reg].access \in GrantLevels /\ regs[q.reg].realname \in Names
    BY <2>1, <2>3, <2>4, HookNew
  <2>6. Way(regs', regs, disk)  BY <1>2, <1>4, <2>1, <2>5 DEF Way
  <2> QED  BY <1>2, <1>3, <2>6
<1>5. CASE ~Holds(query, i)
  <2>1. Way(regs', regs, disk)  BY <1>2, <1>5, SameHeapSelf DEF Way
  <2> QED  BY <1>2, <1>3, <2>1
<1> QED  BY <1>4, <1>5

LEMMA QueryNick ==
  ASSUME Whole, Whole', NickInv, Serial, NEW i \in Qids, QueryStep(i)
  PROVE  NickInv'
<1>1. /\ sync = "idle" /\ sync' = "idle" /\ IInv'
  BY DEF QueryStep, read_db, end_db_read, syncVars, Whole
<1>2. /\ Good(regs, vals, query, disk) /\ Cached(regs, disk) /\ IdleNick
  BY <1>1, IInvParts, IdleIs DEF Whole, CacheInv
<1>3. DiskType(disk) /\ \A c \in Chan : disk[c] # NULL
  BY <1>2, NoPurgeKept DEF Good, Serial, Undisturbed, Cached
<1>4. CASE read_db(i)
  <2>1. PICK f : /\ \A c \in Chan : NickAt(f, disk, {}, c)
                 /\ Way(regs', f, disk)
    BY <1>1, <1>4, ReadWay
  <2>2. disk' = disk  BY <1>1, <1>4, ReadWay
  <2>3. \A c \in Chan : NickAt(regs', disk, {}, c)  BY <1>3, <2>1, WayNick
  <2>4. IdleNick'  BY <2>2, <2>3 DEF IdleNick
  <2>5. AddOK(regs', disk', query')  BY <1>1, <1>4, ReadAdd
  <2> QED  BY <1>1, <2>4, <2>5, IdleThen
<1>5. CASE end_db_read(i)
  <2>1. disk' = disk /\ Way(regs', regs, disk) /\ AddOK(regs', disk', query')
    BY <1>1, <1>5, EndWay
  <2>2. \A c \in Chan : NickAt(regs, disk, {}, c)  BY <1>2 DEF IdleNick
  <2>3. \A c \in Chan : NickAt(regs', disk, {}, c)  BY <1>3, <2>1, <2>2, WayNick
  <2>4. IdleNick'  BY <2>1, <2>3 DEF IdleNick
  <2> QED  BY <1>1, <2>1, <2>4, IdleThen
<1> QED  BY <1>4, <1>5 DEF QueryStep

-----------------------------------------------------------------------------
(* The pass *)

\* Record e, that the pass has come to, is written.  The nick it is written under
\* may be in another slot still: then that one's record was deleted, and the pass
\* has not come to it yet.
LEMMA SaveNick ==
  ASSUME NEW f, NEW g, NEW d, HeapOK(f, g), DiskType(d), Cached(f, d),
         NEW f2, NEW e \in Listed(f), NEW off \in Nat \ {0}, SavedHeap(f2, f, e, off),
         f[e].channel \in Kept, NEW d2, DiskType(d2),
         SlotSet(d2, d, f[e].channel, off, make_dbuser(f[e])),
         \/ f[e].offset # 0 /\ off = f[e].offset
         \/ f[e].offset = 0 /\ off \notin Used(d, f[e].channel),
         NEW cur, \A w \in On(f, f[e].channel) : w \notin cur => ~f[w].modified,
         NEW c \in Chan, NickAt(f, d, cur, c)
  PROVE  NickAt(f2, d2, cur \ {e}, c)
<1>1. /\ e \in Regs /\ f[e] # NULL /\ f[e] \in RegUser
      /\ WellFormed(f[e]) /\ f[e].channel \in Chan /\ Others(f2, f, e)
      /\ f2[e].channel = f[e].channel /\ f2[e].realname = f[e].realname
      /\ e \in Listed(f2)
  BY ListedOK, StarNotChan DEF SavedHeap, Listed
<1>2. \A x \in Regs : x # e => /\ x \in Listed(f2) <=> x \in Listed(f)
                               /\ x \in Listed(f) => Looks(f[x], f2[x])
  BY <1>1, OthersListed DEF Others, SameAt, Same, Listed
<1>3. Listed(f) \subseteq Regs /\ Listed(f2) = Listed(f)
  BY <1>1, <1>2 DEF Listed
<1>4. On(f2, c) = On(f, c) /\ \A x \in On(f, c) : f2[x].realname = f[x].realname
  <2>1. \A x \in Listed(f) : /\ f2[x].channel = f[x].channel
                             /\ f2[x].realname = f[x].realname
    BY <1>1, <1>2, <1>3 DEF Looks
  <2> QED  BY <1>3, <2>1 DEF On
<1>5. \A w \in On(f, c) : w # e => /\ f2[w].access = f[w].access
                                   /\ f2[w].offset = f[w].offset
  BY <1>2, <1>3 DEF On, Looks
<1>6. Unshad(f2, d2, c) = Unshad(f, d, c)  BY SaveBook
<1>7. \A r, x \in On(f2, c) :
        f2[r].realname = f2[x].realname /\ f2[r].realname # Del => r = x
  BY <1>4 DEF NickAt
<1>8. CASE c # f[e].channel
  <2>1. d2[c] = d[c] /\ Used(d2, c) = Used(d, c)  BY <1>8 DEF SlotSet, Used
  <2>2. \A r \in On(f2, c), k \in Unshad(f2, d2, c) :
          f2[r].realname # d2[c][k].realname
    BY <1>4, <1>6, <2>1 DEF NickAt
  <2>3. e \notin On(f, c)  BY <1>8 DEF On
  <2>4. \A j, k \in Used(d2, c) : d2[c][j].realname = d2[c][k].realname =>
           \/ j = k
           \/ \E r \in On(f2, c) :
                r \in cur \ {e} /\ f2[r].access = 0 /\ f2[r].offset \in {j, k}
    BY <1>4, <1>5, <2>1, <2>3 DEF NickAt
  <2> QED  BY <1>7, <2>2, <2>4 DEF NickAt
<1>9. CASE c = f[e].channel
  <2> DEFINE n == f[e].realname
             Given(j, k) == \E r \in On(f2, c) : /\ r \in cur \ {e}
                                                 /\ f2[r].access = 0
                                                 /\ f2[r].offset \in {j, k}
  <2>1. d[c] # NULL /\ d2[c] # NULL /\ d2[c][off] = make_dbuser(f[e])
    BY <1>9 DEF Cached, SlotSet
  <2>2. /\ \A k \in Used(d, c) : k \in Nat \ {0}
        /\ \A k \in Used(d2, c) : k \in Nat \ {0}
    BY <2>1, UsedSlot
  <2>3. \A k \in Nat \ {off} :
          /\ k \in Used(d2, c) <=> k \in Used(d, c)
          /\ k \in Used(d, c) => d2[c][k] = d[c][k]
    BY <1>9 DEF SlotSet
  <2>4. off \in Used(d2, c) => /\ f[e].access # 0 /\ f2[e].offset = off
                               /\ d2[c][off].realname = n
    BY <1>1, <1>9, <2>1, MakeEntry DEF Used, SavedHeap
  <2>5. e \in On(f, c) /\ e \in On(f2, c)  BY <1>1, <1>9 DEF On
  <2>6. \A k \in Unshad(f2, d2, c) : k # off /\ d2[c][k] = d[c][k]
    <3> SUFFICES ASSUME NEW k \in Unshad(f2, d2, c)
                 PROVE  k # off /\ d2[c][k] = d[c][k]
      OBVIOUS
    <3>1. k \in Used(d2, c) /\ k \in Nat /\ f2[e].offset # k
      BY <1>1, <1>9, <2>2 DEF Unshad
    <3>2. k # off  BY <2>4, <3>1
    <3> QED  BY <2>3, <3>1, <3>2
  <2>7. \A r \in On(f2, c), k \in Unshad(f2, d2, c) :
          f2[r].realname # d2[c][k].realname
    BY <1>4, <1>6, <2>6 DEF NickAt
  <2>8. ASSUME NEW j \in Used(d2, c), NEW k \in Used(d2, c), j # off, k # off,
               d2[c][j].realname = d2[c][k].realname, j # k
        PROVE  Given(j, k)
    <3>1. /\ j \in Used(d, c) /\ k \in Used(d, c) /\ j \in Nat \ {0} /\ k \in Nat \ {0}
          /\ d[c][j].realname = d[c][k].realname
      BY <2>2, <2>3, <2>8
    <3>2. PICK w \in On(f, c) : w \in cur /\ f[w].access = 0 /\ f[w].offset \in {j, k}
      BY <2>8, <3>1 DEF NickAt
    <3>3. w # e  BY <2>8, <3>1, <3>2
    <3> QED  BY <1>4, <1>5, <3>2, <3>3
  <2>9. ASSUME off \in Used(d2, c), NEW k \in Used(d2, c), k # off,
               d2[c][k].realname = d2[c][off].realname
        PROVE  \E r \in On(f2, c) :
                 r \in cur \ {e} /\ f2[r].access = 0 /\ f2[r].offset \in {off, k}
    <3>1. /\ k \in Used(d, c) /\ k \in Nat \ {0} /\ d[c][k].realname = n
          /\ f[e].access # 0
      BY <2>2, <2>3, <2>4, <2>9
    <3>2. n \in Names /\ n # Del
      BY <1>1, <1>9, <3>1, StarNotChan, DelNoName DEF WellFormed
    <3>3. CellOK(f[e], d)  BY <1>9 DEF Cached
    <3>4. CASE f[e].offset # 0
      <4>1. off \in Used(d, c) /\ d[c][off].realname = n
        BY <1>9, <3>2, <3>3, <3>4 DEF CellOK
      <4>2. PICK w \in On(f, c) :
              w \in cur /\ f[w].access = 0 /\ f[w].offset \in {off, k}
        BY <2>9, <3>1, <4>1 DEF NickAt
      <4>3. w # e  BY <3>1, <4>2
      <4> QED  BY <1>4, <1>5, <4>2, <4>3
    <3>5. CASE f[e].offset = 0
      <4>1. k \notin Unshad(f, d, c)  BY <2>5, <3>1 DEF NickAt
      <4>2. PICK w \in On(f, c) : f[w].offset = k
        BY <3>1, <4>1 DEF Unshad, On
      <4>3. w # e  BY <3>1, <3>5, <4>2
      <4>4. /\ CellOK(f[w], d) /\ w \in Listed(f) /\ f[w].channel = c
            /\ WellFormed(f[w])
        BY <1>9, ListedOK DEF Cached, On
      <4>5. f[w].realname = Del
        <5>1. f[w].realname # Del => f[w].realname = n
          BY <3>1, <4>2, <4>4 DEF CellOK
        <5> QED  BY <2>5, <3>2, <4>3, <5>1 DEF NickAt
      <4>6. f[w].access = 0
        BY <1>9, <4>4, <4>5, StarNotChan, DelNoName DEF WellFormed
      <4>7. f[w].modified  BY <3>1, <4>2, <4>4, <4>6 DEF CellOK
      <4>8. w \in cur  BY <1>9, <4>7
      <4> QED  BY <1>4, <1>5, <4>2, <4>3, <4>6, <4>8
    <3> QED  BY <3>4, <3>5
  <2>10. \A j, k \in Used(d2, c) : d2[c][j].realname = d2[c][k].realname =>
           \/ j = k
           \/ \E r \in On(f2, c) :
                r \in cur \ {e} /\ f2[r].access = 0 /\ f2[r].offset \in {j, k}
    BY <2>8, <2>9
  <2> QED  BY <1>7, <2>7, <2>10 DEF NickAt
<1> QED  BY <1>8, <1>9

\* Record e, which is not marked, is dropped: what its slot holds is its nick.
LEMMA EvictNick ==
  ASSUME NEW f, NEW g, NEW d, HeapOK(f, g), DiskType(d), Cached(f, d),
         NEW f2, NEW e \in Listed(f), FreeHeap(f2, f, e),
         f[e].channel \in Kept, ~f[e].modified, NEW cur, e \notin cur,
         NEW c \in Chan, d[c] # NULL, NickAt(f, d, cur, c)
  PROVE  NickAt(f2, d, cur, c)
<1>1. e \in Regs /\ Others(f2, f, e) /\ e \notin Listed(f2)
  BY DEF FreeHeap, Listed
<1>2. \A x \in Regs : x # e => /\ x \in Listed(f2) <=> x \in Listed(f)
                               /\ x \in Listed(f) => Looks(f[x], f2[x])
  BY <1>1, OthersListed DEF Others, SameAt, Same, Listed
<1>3. Listed(f) \subseteq Regs /\ Listed(f2) = Listed(f) \ {e}
  BY <1>1, <1>2 DEF Listed
<1>4. \A x \in Listed(f2) : Looks(f[x], f2[x])  BY <1>2, <1>3
<1>5. On(f2, c) = On(f, c) \ {e}  BY <1>3, <1>4 DEF On, Looks
<1>6. \A x \in On(f2, c) : /\ x \in On(f, c) /\ x # e
                           /\ f2[x].realname = f[x].realname
                           /\ f2[x].access = f[x].access
                           /\ f2[x].offset = f[x].offset
  BY <1>4, <1>5 DEF On, Looks
<1>7. \A k \in Unshad(f2, d, c) \ Unshad(f, d, c) :
        f[e].channel = c /\ d[c][k].realname = f[e].realname
  BY EvictBook
<1>8. \A k \in Unshad(f2, d, c) : d[c][k].realname # Del
  BY SlotName DEF Unshad
<1>9. \A r, x \in On(f2, c) :
        f2[r].realname = f2[x].realname /\ f2[r].realname # Del => r = x
  BY <1>6 DEF NickAt
<1>10. ASSUME NEW r \in On(f2, c), NEW k \in Unshad(f2, d, c)
       PROVE  f2[r].realname # d[c][k].realname
  <2>1. CASE k \in Unshad(f, d, c)  BY <1>6, <2>1 DEF NickAt
  <2>2. CASE k \notin Unshad(f, d, c)
    <3>1. /\ d[c][k].realname = f[e].realname /\ e \in On(f, c)
          /\ f[e].realname # Del
      BY <1>7, <1>8, <2>2 DEF On
    <3> QED  BY <1>6, <3>1 DEF NickAt
  <2> QED  BY <2>1, <2>2
<1>11. \A j, k \in Used(d, c) : d[c][j].realname = d[c][k].realname =>
         \/ j = k
         \/ \E r \in On(f2, c) :
              r \in cur /\ f2[r].access = 0 /\ f2[r].offset \in {j, k}
  BY <1>5, <1>6 DEF NickAt
<1> QED  BY <1>9, <1>10, <1>11 DEF NickAt

\* What the running pass is for and has come by is not marked.
LEMMA Behind ==
  ASSUME IInv, PassOK, NoPurge, NEW r \in cursor, regs[r].channel \in Chan
  PROVE  \A w \in On(regs, regs[r].channel) : w \notin cursor => ~regs[w].modified
<1>1. sync # "idle" /\ sync \in {"idle", "slice", "quit"}
  BY DEF IInv, CursorOK, TypeOK
<1>2. InPass(regs[r].channel)  BY <1>1 DEF InPass, PassOK, InBucket
<1> QED  BY <1>2, NoPurgeKept DEF PassOK, On

LEMMA SyncSavedNick ==
  ASSUME Whole, Whole', NickInv, NoPurge, NEW f, NEW r, SyncShape(f, r),
         NEW c \in Chan
  PROVE  NickAt(f, disk', cursor \ {r}, c)
<1>1. /\ Good(regs, vals, query, disk) /\ Good(regs', vals', query', disk')
      /\ Cached(regs, disk) /\ PassOK /\ NickAt(regs, disk, cursor, c)
  BY IInvParts, IInvPartsNext DEF Whole, CacheInv, NickInv
<1>2. /\ r \in Listed(regs) /\ r \in Regs /\ regs[r] # NULL
      /\ regs[r] \in RegUser /\ WellFormed(regs[r]) /\ r \in cursor
  BY <1>1, ListedOK DEF SyncShape, Good
<1>3. CASE f = regs /\ disk' = disk /\ ~NeedsSave(regs[r])
  <2>1. ASSUME NEW j \in Used(disk, c), NEW k \in Used(disk, c),
               r \in On(regs, c), regs[r].access = 0, regs[r].offset \in {j, k}
        PROVE  FALSE
    <3>1. regs[r].channel = c /\ c \in Kept  BY <2>1, NoPurgeKept DEF On
    <3>2. ~regs[r].modified  BY <1>1, <1>3, <3>1, SyncClean
    <3>3. regs[r].offset = 0  BY <1>1, <1>2, <2>1, <3>1, <3>2 DEF Cached, CellOK
    <3>4. disk[c] # NULL  BY <1>1, <3>1 DEF Cached
    <3>5. \A l \in Used(disk, c) : l # 0  BY <1>1, <3>4, UsedSlot DEF Good
    <3> QED  BY <2>1, <3>3, <3>5
  <2> QED  BY <1>1, <1>3, <2>1 DEF NickAt
<1>4. CASE ~(f = regs /\ disk' = disk /\ ~NeedsSave(regs[r]))
  <2>1. PICK off \in SlotFor(regs[r]) :
          /\ regs[r].channel \in Chan /\ off \in Nat \ {0}
          /\ SavedHeap(f, regs, r, off) /\ ColdSave(regs[r], off)
    BY <1>4 DEF SyncShape
  <2>2. regs[r].channel \in Kept  BY <2>1, NoPurgeKept
  <2>3. disk[regs[r].channel] # NULL  BY <1>1, <2>2 DEF Cached
  <2>4. HeapOK(regs, vals) /\ DiskType(disk) /\ DiskType(disk')  BY <1>1 DEF Good
  <2>5. SlotSet(disk', disk, regs[r].channel, off, make_dbuser(regs[r]))
    BY <1>2, <2>1, <2>3, <2>4, ColdSaveSet
  <2>6. \/ regs[r].offset # 0 /\ off = regs[r].offset
        \/ regs[r].offset = 0 /\ off \notin Used(disk, regs[r].channel)
    BY <1>2, <2>1, <2>3, <2>4, SlotFits
  <2>7. \A w \in On(regs, regs[r].channel) : w \notin cursor => ~regs[w].modified
    BY <1>1, <1>2, <2>1, Behind DEF Whole
  <2> QED
    BY <1>1, <1>2, <2>1, <2>2, <2>4, <2>5, <2>6, <2>7, SaveNick
<1> QED  BY <1>3, <1>4

\* The pass writes the nick of a record in the table, and changes none.
LEMMA SyncAdd ==
  ASSUME Whole, Whole', NickInv, NoPurge, NEW f, NEW r, SyncShape(f, r)
  PROVE  AddOK(regs', disk', query')
<1>1. /\ Good(regs, vals, query, disk) /\ Good(regs', vals', query', disk')
      /\ Cached(regs, disk) /\ AddOK(regs, disk, query) /\ query' = query
  BY IInvParts, IInvPartsNext DEF Whole, CacheInv, NickInv, SyncShape
<1>2. /\ r \in Listed(f) /\ r \in Regs /\ f[r].channel = regs[r].channel
      /\ f[r].realname = regs[r].realname /\ Others(f, regs, r)
      /\ r \in Listed(regs) /\ regs[r] \in RegUser /\ WellFormed(regs[r])
  BY <1>1, SyncClean, ListedOK DEF SyncShape, Good
<1>3. KeepNames(f, regs)  BY <1>2, OneKeeps
<1>4. KeepNames(regs', f)
  <2>1. CASE regs' = f  BY <2>1, SameHeapSelf, SameKeeps
  <2>2. CASE regs' # f
    <3>1. FreeHeap(regs', f, r)  BY <2>2 DEF SyncShape
    <3>2. Others(regs', f, r) /\ r \notin Listed(regs')
      BY <3>1 DEF FreeHeap, Listed
    <3> QED  BY <1>2, <3>2, OneKeeps
  <2> QED  BY <2>1, <2>2
<1>5. SUFFICES ASSUME NEW i \in Qids, Holds(query, i)
               PROVE  AddFits(regs', disk', query[i])
  BY <1>1 DEF AddOK, Holds
<1> DEFINE q == query[i]
<1>6. AddFits(regs, disk, q) /\ q.reg \in Pending(regs) /\ q.info \in Names
  BY <1>1, <1>5, HoldsOwn DEF AddOK
<1>7. q.chan \in Chan
  BY <1>1, <1>5, NullOK DEF Good, QueryType, Query, NullOK, Holds
<1>8. q.reg \in Pending(f)
  <2>1. q.reg # r /\ q.reg \in Regs  BY <1>2, <1>6 DEF Pending, Listed
  <2> QED  BY <1>2, <1>6, <2>1, OthersListed
<1> HIDE DEF q
<1>9. ASSUME NEW k \in Used(disk', q.chan)
      PROVE  \/ /\ k \in Used(disk, q.chan)
                /\ disk'[q.chan][k].realname = disk[q.chan][k].realname
             \/ \E x \in On(regs, q.chan) :
                  disk'[q.chan][k].realname = regs[x].realname
  <2>1. CASE disk' = disk  BY <1>9, <2>1
  <2>2. CASE disk' # disk
    <3>1. PICK off \in SlotFor(regs[r]) :
            /\ regs[r].channel \in Chan /\ off \in Nat \ {0}
            /\ ColdSave(regs[r], off)
      BY <2>2 DEF SyncShape
    <3>2. disk[regs[r].channel] # NULL /\ disk'[q.chan] # NULL
      <4>1. Cached(regs', disk')  BY DEF Whole, CacheInv, Cached, OwnSlots,
                                         Listed, Pending
      <4> QED  BY <1>1, <1>7, <3>1, <4>1, NoPurgeKept DEF Cached
    <3>3. SlotSet(disk', disk, regs[r].channel, off, make_dbuser(regs[r]))
      BY <1>1, <1>2, <3>1, <3>2, ColdSaveSet DEF Good
    <3>4. CASE q.chan # regs[r].channel
      BY <1>7, <1>9, <3>3, <3>4 DEF SlotSet, Used
    <3>5. CASE q.chan = regs[r].channel
      <4>1. k \in Nat \ {0}  BY <1>1, <1>7, <1>9, <3>2, UsedSlot DEF Good
      <4>2. CASE k # off  BY <1>9, <3>3, <3>5, <4>1, <4>2 DEF SlotSet
      <4>3. CASE k = off
        <5>1. disk'[q.chan][k] = make_dbuser(regs[r]) /\ disk'[q.chan][k] # NULL
          BY <1>9, <3>3, <3>5, <4>3 DEF SlotSet, Used
        <5>2. disk'[q.chan][k].realname = regs[r].realname
          BY <1>2, <3>1, <5>1, MakeEntry
        <5> QED  BY <1>2, <3>5, <5>2 DEF On
      <4> QED  BY <4>2, <4>3
    <3> QED  BY <3>4, <3>5
  <2> QED  BY <2>1, <2>2
<1>10. AddFits(regs, disk', q)  BY <1>6, <1>9, AddFiles
<1>11. AddFits(f, disk', q)  BY <1>3, <1>6, <1>10, AddHeap
<1>12. AddFits(regs', disk', q)  BY <1>4, <1>6, <1>8, <1>11, AddHeap
<1> QED  BY <1>12 DEF q

LEMMA SyncNick ==
  ASSUME Whole, Whole', NickInv, NoPurge, SyncOne
  PROVE  NickInv'
<1>1. /\ Good(regs, vals, query, disk) /\ Rest
      /\ Good(regs', vals', query', disk') /\ Cached(regs, disk)
  BY IInvParts, IInvPartsNext DEF Whole, CacheInv
<1>2. PICK f, r : SyncShape(f, r)  BY <1>1, SyncShaped
<1>3. cursor' = cursor \ {r}  BY <1>2 DEF SyncShape
<1>4. ASSUME NEW c \in Chan PROVE NickAt(regs', disk', cursor \ {r}, c)
  <2>1. NickAt(f, disk', cursor \ {r}, c)  BY <1>2, SyncSavedNick
  <2>2. CASE regs' = f  BY <2>1, <2>2
  <2>3. CASE regs' # f
    <3>1. FreeHeap(regs', f, r) /\ regs[r].channel \in Kept
      BY <1>1, <1>2, <2>3, SyncFreed
    <3>2. r \in Listed(f) /\ f[r].channel \in Kept /\ ~f[r].modified
      BY <1>1, <1>2, <3>1, SyncClean
    <3>3. Cached(f, disk') /\ HeapOK(f, vals) /\ DiskType(disk')
      BY <1>1, <1>2, SyncSavedCached DEF Good, SyncShape
    <3>4. disk'[c] # NULL  BY <3>3, NoPurgeKept DEF Cached
    <3>5. r \notin cursor \ {r}  OBVIOUS
    <3> QED  BY <2>1, <3>1, <3>2, <3>3, <3>4, <3>5, EvictNick
  <2> QED  BY <2>2, <2>3
<1>5. AddOK(regs', disk', query')  BY <1>2, SyncAdd
<1>6. AddOK(regs, disk, query)'
  BY <1>5 DEF AddOK, Holds, AddFits, On, Used, Listed
<1>7. (\A c \in Chan : NickAt(regs, disk, cursor, c))'
  BY <1>3, <1>4 DEF NickAt, On, Unshad, Used, Listed
<1> QED  BY <1>6, <1>7 DEF NickInv

LEMMA ExitNick ==
  ASSUME Whole, Whole', NickInv, Exit
  PROVE  NickInv'
<1>1. /\ cursor = {} /\ disk' = disk /\ sync' = "idle"
      /\ regs' = [r \in Regs |-> IF r = Master THEN MasterReg ELSE NULL]
      /\ query' = [i \in Qids |-> NULL]
  BY DEF Exit, Boot
<1>2. \A r \in Listed(regs') : regs'[r].channel = Star
  BY <1>1 DEF Listed, MasterReg
<1>3. \A c \in Chan : On(regs', c) = {}  BY <1>2, StarNotChan DEF On
<1>4. \A c \in Chan : NickAt(regs', disk, {}, c)
  BY <1>1, <1>3 DEF NickInv, NickAt
<1>5. IdleNick'  BY <1>1, <1>4 DEF IdleNick
<1>6. AddOK(regs', disk', query')  BY <1>1 DEF AddOK, Holds
<1> QED  BY <1>1, <1>5, <1>6, IdleThen DEF Whole

LEMMA LoginsNick ==
  ASSUME Whole, NickInv, sync = "idle", Undisturbed, Logins
  PROVE  IdleNick' /\ AddOK(regs', disk', query')
<1>1. Good(regs, vals, query, disk)  BY IInvParts DEF Whole
<1>2. /\ SameHeap(regs', regs) /\ disk' = disk
      /\ \/ query' = query
         \/ \E c \in AllChan : \E x : x.kind = "validate" /\ db_fetch(c, x)
  BY <1>1, LoginsShape
<1>3. \/ query' = query
      \/ \E c : \E x : x.kind # "adduser" /\ db_fetch(c, x)
  BY <1>2
<1>4. CommandShape  BY <1>2 DEF CommandShape
<1> QED  BY <1>3, <1>4, CommandNick

LEMMA SuspensionsNick ==
  ASSUME Whole, NickInv, sync = "idle", Undisturbed, Suspensions
  PROVE  IdleNick' /\ AddOK(regs', disk', query')
<1>1. CASE \E u \in Users \cup {Server}, c \in Chan, t \in Names \cup Masks,
              on \in Durations : suspend(u, c, t, on)
  <2>1. PICK u \in Users \cup {Server}, c \in Chan, t \in Names \cup Masks,
             on \in Durations : suspend(u, c, t, on)
    BY <1>1
  <2> DEFINE x == [Ask("suspend", c, u, t) EXCEPT !.on = on]
  <2>2. regs' = regs /\ disk' = disk /\ db_fetch(c, x)  BY <2>1 DEF suspend
  <2>3. x.kind # "adduser"  BY DEF Ask
  <2>4. CommandShape  BY <2>2, SameHeapSelf DEF CommandShape
  <2> HIDE DEF x
  <2> QED  BY <2>2, <2>3, <2>4, CommandNick
<1>2. CASE SuspensionsExpire  BY <1>2, ExpireNick
<1> QED  BY <1>1, <1>2 DEF Suspensions

\* What a command does: one on records and queries that are there, or AddUser.
LEMMA CommandsShape ==
  ASSUME Whole, Undisturbed, Commands
  PROVE  \/ /\ CommandShape
            /\ \/ query' = query
               \/ \E c : \E x : x.kind # "adduser" /\ db_fetch(c, x)
         \/ \E u : \E c \in Chan, n \in Names, m \in Masks, acc \in GrantLevels,
               pw \in Pws : AddUser(u, c, n, m, acc, pw)
<1>1. Good(regs, vals, query, disk) /\ Cached(regs, disk)
  BY IInvParts DEF Whole, CacheInv
<1>2. PICK u \in Users, c \in Chan :
        \/ \E n \in Names, m \in Masks, acc \in GrantLevels, pw \in Pws :
             AddUser(u, c, n, m, acc, pw)
        \/ \E t \in Names \cup Masks : RemoveUser(u, c, t)
        \/ \E field \in Fields, t \in Names \cup Masks :
             \E value \in Values(field) : ModUserInfo(u, c, field, t, value)
        \/ \E pw \in Pws : ChPass(u, c, pw)
        \/ purge(u, c)
        \/ \E n \in Names, m \in Masks, pw \in Pws : RegChan(u, c, n, m, pw)
  BY DEF Commands
<1>3. CASE \E t \in Names \cup Masks : RemoveUser(u, c, t)
  <2>1. PICK t \in Names \cup Masks : RemoveUser(u, c, t)  BY <1>3
  <2> DEFINE x == [Ask("remuser", c, u, t) EXCEPT !.action = LAccess(u, c)]
  <2>2. CommandShape /\ (query' = query \/ db_fetch(c, x))
    BY <1>1, <2>1, RemoveUserShape
  <2>3. x.kind # "adduser"  BY DEF Ask
  <2> HIDE DEF x
  <2> QED  BY <2>2, <2>3
<1>4. CASE \E field \in Fields, t \in Names \cup Masks :
             \E value \in Values(field) : ModUserInfo(u, c, field, t, value)
  <2>0. PICK field \in Fields, t \in Names \cup Masks :
               \E value \in Values(field) : ModUserInfo(u, c, field, t, value)
    BY <1>4
  <2>1. PICK value \in Values(field) : ModUserInfo(u, c, field, t, value)
    BY <2>0
  <2> DEFINE x == [Ask("modinfo", c, u, t)
                     EXCEPT !.field = field, !.value = value]
  <2>2. CommandShape /\ (query' = query \/ db_fetch(c, x))
    BY <1>1, <2>1, ModUserInfoShape
  <2>3. x.kind # "adduser"  BY DEF Ask
  <2> HIDE DEF x
  <2> QED  BY <2>2, <2>3
<1>5. CASE \E pw \in Pws : ChPass(u, c, pw)
  BY <1>1, <1>5, ChPassShape DEF CommandShape
<1>6. CASE purge(u, c)  BY <1>6 DEF purge, Undisturbed, NoPurge
<1>7. CASE \E n \in Names, m \in Masks, pw \in Pws : RegChan(u, c, n, m, pw)
  <2>1. disk[c] = NULL  BY <1>7 DEF RegChan
  <2> QED  BY <1>1, <2>1, NoPurgeKept DEF Undisturbed, Cached
<1>8. CASE \E n \in Names, m \in Masks, acc \in GrantLevels, pw \in Pws :
             AddUser(u, c, n, m, acc, pw)
  BY <1>8
<1> QED  BY <1>2, <1>3, <1>4, <1>5, <1>6, <1>7, <1>8

LEMMA CommandsNick ==
  ASSUME Whole, NickInv, sync = "idle", Serial, Commands
  PROVE  IdleNick' /\ AddOK(regs', disk', query')
<1>1. CASE \E u : \E c \in Chan, n \in Names, m \in Masks, acc \in GrantLevels,
              pw \in Pws : AddUser(u, c, n, m, acc, pw)
  BY <1>1, AddUserNick
<1>2. CASE /\ CommandShape
           /\ \/ query' = query
              \/ \E c : \E x : x.kind # "adduser" /\ db_fetch(c, x)
  BY <1>2, CommandNick DEF Serial
<1> QED  BY <1>1, <1>2, CommandsShape DEF Serial

\* A command or a client leaves the pass alone.
LEMMA IdleStays == Logins \/ Commands \/ Suspensions => sync' = sync
<1>1. Logins => sync' = sync
  <2>1. \A u, c, pw : validate(u, c, pw) => sync' = sync
    BY DEF validate, syncVars
  <2>2. \A u, c : DeAuth(u, c) \/ try_find(u, c) => sync' = sync
    BY DEF DeAuth, try_find, syncVars
  <2>3. \A u, h : onnick(u, h) \/ onquit(u) => sync' = sync
    BY DEF onnick, onquit, syncVars
  <2> QED  BY <2>1, <2>2, <2>3, Zenon DEF Logins
<1>2. Commands => sync' = sync
  <2>1. \A u, c, n, m, acc, pw : AddUser(u, c, n, m, acc, pw) => sync' = sync
    BY DEF AddUser, syncVars
  <2>2. \A u, c, t : RemoveUser(u, c, t) => sync' = sync
    BY DEF RemoveUser, syncVars
  <2>3. \A u, c, field, t, value :
          ModUserInfo(u, c, field, t, value) => sync' = sync
    BY DEF ModUserInfo, syncVars
  <2>4. \A u, c, pw : ChPass(u, c, pw) => sync' = sync
    BY DEF ChPass, syncVars
  <2>5. \A u, c : purge(u, c) => sync' = sync
    BY DEF purge, syncVars
  <2>6. \A u, c, n, m, pw : RegChan(u, c, n, m, pw) => sync' = sync
    BY DEF RegChan, syncVars
  <2> QED  BY <2>1, <2>2, <2>3, <2>4, <2>5, <2>6 DEF Commands
<1>3. Suspensions => sync' = sync
  BY DEF Suspensions, suspend, SuspensionsExpire, syncVars
<1> QED  BY <1>1, <1>2, <1>3

\* Every step keeps a nick filed once.
LEMMA NextNick ==
  ASSUME Serial, Whole, Whole', NickInv, [Next]_vars
  PROVE  NickInv'
<1>1. Undisturbed /\ NoPurge /\ IInv /\ IInv'
  BY DEF Serial, Undisturbed, Whole
<1>2. CASE sync = "idle" /\ (Logins \/ Commands \/ Suspensions)
  <2>1. sync' = "idle"  BY <1>2, IdleStays
  <2>2. IdleNick' /\ AddOK(regs', disk', query')
    BY <1>1, <1>2, LoginsNick, CommandsNick, SuspensionsNick
  <2> QED  BY <1>1, <2>1, <2>2, IdleThen
<1>3. CASE \E i \in Qids : QueryStep(i)  BY <1>3, QueryNick
<1>4. CASE SaveTimer \/ SaveSlice \/ (sync = "idle" /\ quit)
  <2>1. /\ regs' = regs /\ disk' = disk /\ query' = query
        /\ sync = "idle"
    BY <1>4 DEF SaveTimer, SaveUserList, SaveSlice, do_cold_sync_slice, quit
  <2>2. IdleNick /\ AddOK(regs, disk, query)  BY <1>1, <2>1, IdleIs
  <2>3. AddOK(regs, disk, query)'
    BY <2>1, <2>2 DEF AddOK, Holds, AddFits, On, Used, Listed
  <2>4. (\A c \in Chan : NickAt(regs, disk, cursor, c))'
    BY <2>1, <2>2 DEF IdleNick, NickAt, On, Unshad, Used, Listed
  <2> QED  BY <2>3, <2>4 DEF NickInv
<1>5. CASE SyncOne  BY <1>1, <1>5, SyncNick
<1>6. CASE Exit  BY <1>6, ExitNick
<1>7. CASE restart \/ Crash
  BY <1>1, <1>7 DEF restart, Crash, Undisturbed
<1>8. CASE UNCHANGED vars
  BY <1>8 DEF vars, NickInv, NickAt, AddOK, Holds, AddFits, On, Unshad, Used,
              Listed
<1> QED
  BY <1>2, <1>3, <1>4, <1>5, <1>6, <1>7, <1>8 DEF Next

LEMMA InitNick == ASSUME Serial, Init PROVE NickInv
<1>1. /\ regs = [r \in Regs |-> IF r = Master THEN MasterReg ELSE NULL]
      /\ disk \in [Chan -> InitialFiles]
      /\ query = [i \in Qids |-> NULL]
  BY DEF Init
<1>2. \A r \in Listed(regs) : regs[r].channel = Star
  BY <1>1 DEF Listed, MasterReg
<1>3. \A c \in Chan : On(regs, c) = {}  BY <1>2, StarNotChan DEF On
<1>4. ASSUME NEW c \in Chan, NEW j \in Used(disk, c), NEW k \in Used(disk, c),
             disk[c][j].realname = disk[c][k].realname
      PROVE  j = k
  <2>1. disk[c] \in InitialFiles  BY <1>1
  <2> QED  BY <1>4, <2>1 DEF Used, Serial, FilesDistinct
<1>5. \A c \in Chan : NickAt(regs, disk, cursor, c)
  BY <1>3, <1>4 DEF NickAt
<1>6. AddOK(regs, disk, query)  BY <1>1 DEF AddOK, Holds
<1> QED  BY <1>5, <1>6 DEF NickInv

\* The names of a channel's book are those of different entries.
LEMMA NickUnique ==
  ASSUME Whole, NickInv, NoPurge, NEW c \in Chan
  PROVE  /\ OneEntryPerNick(c)
         /\ \A r \in LiveAt(regs, c) : r \in On(regs, c) /\ regs[r].realname # Del
         /\ \A j, k \in Unshad(regs, disk, c) :
              disk[c][j].realname = disk[c][k].realname => j = k
<1>1. /\ Good(regs, vals, query, disk) /\ Cached(regs, disk)
      /\ NickAt(regs, disk, cursor, c)
  BY IInvParts DEF Whole, CacheInv, NickInv
<1>2. c \in Kept /\ disk[c] # NULL  BY <1>1, NoPurgeKept DEF Cached
<1>3. /\ Contents(c) = disk[c] /\ Live(c) = LiveAt(regs, c)
      /\ Unshadowed(c) = Unshad(regs, disk, c)
  BY <1>2, BookNow
<1>4. ASSUME NEW r \in LiveAt(regs, c)
      PROVE  r \in On(regs, c) /\ regs[r].realname # Del
  <2>1. /\ r \in Listed(regs) /\ regs[r].channel = c /\ regs[r].access > 0
        /\ regs[r] \in RegUser /\ WellFormed(regs[r])
    BY <1>1, ListedOK DEF LiveAt, Good
  <2>2. regs[r].realname \in Names
    BY <2>1, StarNotChan DEF WellFormed
  <2> QED  BY <2>1, <2>2, DelNoName DEF On
<1>5. \A j, k \in Unshad(regs, disk, c) :
        disk[c][j].realname = disk[c][k].realname => j = k
  BY <1>1 DEF NickAt, Unshad, On
<1>6. OneEntryPerNick(c)
  BY <1>1, <1>3, <1>4, <1>5 DEF OneEntryPerNick, NickAt
<1> QED  BY <1>4, <1>5, <1>6

\* The three invariants together.
Filed == Whole /\ NickInv

LEMMA FiledAlways ==
  Serial => (Init => Filed) /\ (Filed /\ [Next]_vars => Filed')
<1> SUFFICES ASSUME Serial
             PROVE  (Init => Filed) /\ (Filed /\ [Next]_vars => Filed')
  OBVIOUS
<1>1. Init => Filed  BY InitIInv, InitCacheInv, InitNick DEF Whole, Filed
<1>2. Filed /\ [Next]_vars => Filed'
  <2> SUFFICES ASSUME Whole, NickInv, [Next]_vars PROVE Whole' /\ NickInv'
    BY DEF Filed
  <2>1. Whole'  BY NextCacheInv
  <2> QED  BY <2>1, NextNick
<1> QED  BY <1>1, <1>2

(* A nick is filed once on a channel, in memory or in the file, whatever   *)
(* is loaded, added, removed, saved and dropped in between, in the middle  *)
(* of a pass too.                                                          *)
THEOREM UniqueNickCorrect == Serial => (Spec => []UniqueNick)
<1> SUFFICES ASSUME Serial PROVE Spec => []UniqueNick
  OBVIOUS
<1>1. Init => Filed  BY FiledAlways
<1>2. Filed /\ [Next]_vars => Filed'  BY FiledAlways
<1>3. Filed => UniqueNick
  BY NickUnique DEF Filed, UniqueNick, Serial, Undisturbed
<1> QED  BY <1>1, <1>2, <1>3, PTL DEF Spec

-----------------------------------------------------------------------------
(* One entry at a time *)

\* What one operation of AccessBook does to a channel's entries.
Changed(a, b) ==
  \/ b = a
  \/ \E e \in a : \/ b = a \ {e}
                  \/ \E m \in Masks : b = (a \ {e}) \cup {[e EXCEPT !.match = m]}
                  \/ \E l \in GrantLevels :
                       b = (a \ {e}) \cup {[e EXCEPT !.access = l]}
                  \/ \E s \in BOOLEAN : b = (a \ {e}) \cup {[e EXCEPT !.suspend = s]}
  \/ \E e \in Book!Entry : /\ \A x \in a : x.realname # e.realname
                           /\ b = a \cup {e}

(* A changed entry, a new one.                                             *)
LEMMA Replaced ==
  ASSUME NEW a, NEW e \in a, NEW x, NEW b, b = (a \ {e}) \cup {x},
         \/ \E m \in Masks : x = [e EXCEPT !.match = m]
         \/ \E l \in GrantLevels : x = [e EXCEPT !.access = l]
         \/ \E s \in BOOLEAN : x = [e EXCEPT !.suspend = s]
  PROVE  Changed(a, b)
<1>1. CASE \E m \in Masks : x = [e EXCEPT !.match = m]
  <2>1. PICK m \in Masks : x = [e EXCEPT !.match = m]  BY <1>1
  <2>2. b = (a \ {e}) \cup {[e EXCEPT !.match = m]}  BY <2>1
  <2> QED  BY <2>2, Zenon DEF Changed
<1>2. CASE \E l \in GrantLevels : x = [e EXCEPT !.access = l]
  <2>1. PICK l \in GrantLevels : x = [e EXCEPT !.access = l]  BY <1>2
  <2>2. b = (a \ {e}) \cup {[e EXCEPT !.access = l]}  BY <2>1
  <2> QED  BY <2>2, Zenon DEF Changed
<1>3. CASE \E s \in BOOLEAN : x = [e EXCEPT !.suspend = s]
  <2>1. PICK s \in BOOLEAN : x = [e EXCEPT !.suspend = s]  BY <1>3
  <2>2. b = (a \ {e}) \cup {[e EXCEPT !.suspend = s]}  BY <2>1
  <2> QED  BY <2>2, Zenon DEF Changed
<1> QED  BY <1>1, <1>2, <1>3

LEMMA AddedEntry ==
  ASSUME NEW a, NEW e \in Book!Entry, \A x \in a : x.realname # e.realname,
         NEW b, b = a \cup {e}
  PROVE  Changed(a, b)
BY Zenon DEF Changed

LEMMA EntryShape ==
  ASSUME NEW a
  PROVE  /\ \A v : [EntryOf(a) EXCEPT !.match = v] =
              [realname |-> a.realname, match |-> v,
               access |-> a.access, suspend |-> a.suspend]
         /\ \A v : [EntryOf(a) EXCEPT !.access = v] =
              [realname |-> a.realname, match |-> a.match,
               access |-> v, suspend |-> a.suspend]
         /\ \A v : [EntryOf(a) EXCEPT !.suspend = v] =
              [realname |-> a.realname, match |-> a.match,
               access |-> a.access, suspend |-> v]
         /\ EntryOf(a).realname = a.realname
BY DEF EntryOf

(* The entries of a channel whose record e alone changed: without e's.     *)
LEMMA RestBook ==
  ASSUME NEW f, NEW d, NEW c, NEW e \in LiveAt(f, c),
         \A x \in LiveAt(f, c) : f[x].realname = f[e].realname => x = e,
         \A k \in Unshad(f, d, c) : d[c][k].realname # f[e].realname
  PROVE  /\ EntryOf(f[e]) \in BookAt(f, d, c)
         /\ BookAt(f, d, c) \ {EntryOf(f[e])} =
              {EntryOf(f[x]) : x \in LiveAt(f, c) \ {e}}
              \cup {EntryOf(d[c][k]) : k \in Unshad(f, d, c)}
<1>1. \A x \in LiveAt(f, c) : EntryOf(f[x]) = EntryOf(f[e]) => x = e
  BY DEF EntryOf
<1>2. \A k \in Unshad(f, d, c) : EntryOf(d[c][k]) # EntryOf(f[e])
  BY DEF EntryOf
<1> QED  BY <1>1, <1>2 DEF BookAt

(* A command changes or deletes one record.                                *)
LEMMA EditBook ==
  ASSUME NEW f, NEW g, NEW f2, NEW g2, NEW d, HeapOK(f, g), HeapOK(f2, g2),
         DiskType(d), NEW e \in Regs, EditHeap(f2, f, e),
         NEW c \in Chan, f[e].channel = c, d[c] # NULL, NickAt(f, d, {}, c)
  PROVE  Changed(BookAt(f, d, c), BookAt(f2, d, c))
<1>1. /\ e \in Listed(f) /\ f[e] \in RegUser /\ WellFormed(f[e])
      /\ e \in Listed(f2) /\ f2[e] \in RegUser /\ WellFormed(f2[e])
      /\ f2[e].channel = c /\ f2[e].offset = f[e].offset
      /\ Rewritten(f[e], f2[e]) \/ Deleted(f2[e])
  BY ListedOK DEF EditHeap, Listed
<1>2. \A x \in Regs : x # e => /\ x \in Listed(f2) <=> x \in Listed(f)
                               /\ x \in Listed(f) => Looks(f[x], f2[x])
  BY OthersListed DEF EditHeap, Others, SameAt, Same, Listed
<1>3. Listed(f) \subseteq Regs /\ Listed(f2) = Listed(f)
  BY <1>1, <1>2 DEF Listed
<1>4. Unshad(f2, d, c) = Unshad(f, d, c)
  <2>1. \A x \in Listed(f) : /\ f2[x].channel = f[x].channel
                             /\ f2[x].offset = f[x].offset
    BY <1>1, <1>2, <1>3 DEF Looks
  <2> QED  BY <1>3, <2>1 DEF Unshad
<1>5. LiveAt(f2, c) \ {e} = LiveAt(f, c) \ {e}
  BY <1>2, <1>3 DEF LiveAt, Looks
<1>6. \A x \in LiveAt(f, c) \ {e} : EntryOf(f2[x]) = EntryOf(f[x])
  BY <1>2, <1>3, LooksEntry DEF LiveAt
<1> DEFINE Others1 == {EntryOf(f[x]) : x \in LiveAt(f, c) \ {e}}
                      \cup {EntryOf(d[c][k]) : k \in Unshad(f, d, c)}
           a == BookAt(f, d, c)
           b == BookAt(f2, d, c)
<1>7. e \in LiveAt(f2, c) => b = Others1 \cup {EntryOf(f2[e])}
  BY <1>4, <1>5, <1>6 DEF BookAt
<1>8. e \notin LiveAt(f2, c) => b = Others1
  BY <1>4, <1>5, <1>6 DEF BookAt
<1>9. CASE e \in LiveAt(f, c)
  <2>1. f[e].realname \in Names /\ f[e].realname # Del
    BY <1>1, <1>9, StarNotChan, DelNoName DEF WellFormed, LiveAt
  <2>2. e \in On(f, c) /\ LiveAt(f, c) \subseteq On(f, c)
    BY <1>9 DEF LiveAt, On
  <2>3. /\ \A x \in LiveAt(f, c) : f[x].realname = f[e].realname => x = e
        /\ \A k \in Unshad(f, d, c) : d[c][k].realname # f[e].realname
    BY <2>1, <2>2 DEF NickAt
  <2>4. EntryOf(f[e]) \in a /\ a \ {EntryOf(f[e])} = Others1
    BY <1>9, <2>3, RestBook
  <2>5. CASE e \notin LiveAt(f2, c)
    BY <1>8, <2>4, <2>5 DEF Changed
  <2>6. CASE e \in LiveAt(f2, c)
    <3>1. f2[e].access > 0  BY <2>6 DEF LiveAt
    <3>2. Rewritten(f[e], f2[e])  BY <1>1, <3>1 DEF Deleted
    <3>3. b = (a \ {EntryOf(f[e])}) \cup {EntryOf(f2[e])}
      BY <1>7, <2>4, <2>6
    <3>4. \/ \E m \in Masks : EntryOf(f2[e]) = [EntryOf(f[e]) EXCEPT !.match = m]
          \/ \E l \in GrantLevels :
               EntryOf(f2[e]) = [EntryOf(f[e]) EXCEPT !.access = l]
          \/ \E s \in BOOLEAN :
               EntryOf(f2[e]) = [EntryOf(f[e]) EXCEPT !.suspend = s]
      <4>1. f2[e].access # 0  BY <3>1
      <4>2. EntryOf(f2[e]) = [realname |-> f[e].realname, match |-> f2[e].match,
                              access |-> f2[e].access, suspend |-> f2[e].suspend]
        BY <3>2 DEF Rewritten, EntryOf
      <4>3. CASE /\ f2[e].match \in Masks
                 /\ f2[e].access = f[e].access /\ f2[e].suspend = f[e].suspend
        BY <4>2, <4>3, EntryShape
      <4>4. CASE /\ f2[e].access \in GrantLevels \cup {0}
                 /\ f2[e].match = f[e].match /\ f2[e].suspend = f[e].suspend
        BY <4>1, <4>2, <4>4, EntryShape
      <4>5. CASE /\ f2[e].suspend \in BOOLEAN
                 /\ f2[e].match = f[e].match /\ f2[e].access = f[e].access
        BY <4>2, <4>5, EntryShape
      <4> QED  BY <3>2, <4>3, <4>4, <4>5 DEF Rewritten
    <3> DEFINE e0 == EntryOf(f[e])
               e1 == EntryOf(f2[e])
    <3>5. e0 \in a /\ b = (a \ {e0}) \cup {e1}  BY <2>4, <3>3
    <3>6. \/ \E m \in Masks : e1 = [e0 EXCEPT !.match = m]
          \/ \E l \in GrantLevels : e1 = [e0 EXCEPT !.access = l]
          \/ \E s \in BOOLEAN : e1 = [e0 EXCEPT !.suspend = s]
      BY <3>4
    <3> HIDE DEF a, b, e0, e1
    <3>7. Changed(a, b)  BY <3>5, <3>6, Replaced
    <3> QED  BY <3>7 DEF a, b
  <2> QED  BY <2>5, <2>6
<1>10. CASE e \notin LiveAt(f, c)
  <2>1. a = Others1  BY <1>10 DEF BookAt
  <2>2. CASE e \notin LiveAt(f2, c)
    BY <1>8, <2>1, <2>2 DEF Changed
  <2>3. CASE e \in LiveAt(f2, c)
    <3>1. f2[e].access > 0 /\ f[e].access = 0
      <4>1. f[e].access \in Nat  BY <1>1, AccessNat
      <4>2. ~ (f[e].access > 0) /\ f2[e].access > 0
        BY <1>1, <1>10, <2>3 DEF LiveAt
      <4> QED  BY <4>1, <4>2
    <3>2. Rewritten(f[e], f2[e])  BY <1>1, <3>1 DEF Deleted
    <3>3. f2[e].access \in GrantLevels /\ f2[e].realname = f[e].realname
      BY <3>1, <3>2 DEF Rewritten
    <3>4. /\ f2[e].realname \in Names /\ f2[e].match \in Masks
          /\ f2[e].suspend \in BOOLEAN
      BY <1>1, <3>1, StarNotChan DEF WellFormed, RegUser
    <3>5. EntryOf(f2[e]) \in Book!Entry
      BY <3>3, <3>4 DEF Book!Entry, EntryOf
    <3>6. e \in On(f, c) /\ f[e].realname # Del
      BY <1>1, <3>3, <3>4, DelNoName DEF On
    <3>7. /\ \A x \in LiveAt(f, c) : f[x].realname # f[e].realname
          /\ \A k \in Unshad(f, d, c) : d[c][k].realname # f[e].realname
      <4>1. LiveAt(f, c) \subseteq On(f, c)  BY DEF LiveAt, On
      <4> QED  BY <1>10, <3>6, <4>1 DEF NickAt
    <3>8. \A x \in a : x.realname # EntryOf(f2[e]).realname
      BY <3>3, <3>7 DEF BookAt, EntryOf
    <3>9. b = a \cup {EntryOf(f2[e])}  BY <1>7, <2>1, <2>3
    <3> DEFINE e1 == EntryOf(f2[e])
    <3>10. /\ e1 \in Book!Entry /\ b = a \cup {e1}
           /\ \A x \in a : x.realname # e1.realname
      BY <3>5, <3>8, <3>9
    <3> HIDE DEF a, b, e1
    <3>11. Changed(a, b)  BY <3>10, AddedEntry
    <3> QED  BY <3>11 DEF a, b
  <2> QED  BY <2>2, <2>3
<1> QED  BY <1>9, <1>10

(* adduser's record is given to the table.                                 *)
LEMMA ListBook ==
  ASSUME NEW f, NEW g, NEW d, HeapOK(f, g), DiskType(d), Cached(f, d),
         NEW f2, NEW e \in Pending(f), ListHeap(f2, f, e), NewNick(f, d, e),
         NEW c \in Chan, f[e].channel = c, d[c] # NULL,
         f[e].access \in GrantLevels, f[e].realname \in Names
  PROVE  Changed(BookAt(f, d, c), BookAt(f2, d, c))
<1>1. /\ e \in Regs /\ e \notin Listed(f) /\ e \in Listed(f2)
      /\ Looks(f[e], f2[e]) /\ Others(f2, f, e) /\ f[e] # NULL
  BY DEF ListHeap, Pending, Listed
<1>2. \A x \in Regs : x # e => /\ x \in Listed(f2) <=> x \in Listed(f)
                               /\ x \in Listed(f) => Looks(f[x], f2[x])
  BY <1>1, OthersListed DEF Others, SameAt, Same, Listed
<1>3. Listed(f) \subseteq Regs /\ Listed(f2) = Listed(f) \cup {e}
  BY <1>1, <1>2 DEF Listed
<1>4. /\ f[e] \in RegUser /\ WellFormed(f[e])
      /\ f[e].access > 0 /\ f2[e].channel = c /\ f2[e].offset = 0
  <2>1. f[e] \in RegUser /\ WellFormed(f[e])
    BY <1>1 DEF HeapOK, HeapType, Shapes
  <2>2. f[e].access > 0
    BY GrantPositive
  <2> QED  BY <1>1, <2>1, <2>2 DEF Cached, Looks
<1>5. LiveAt(f2, c) = LiveAt(f, c) \cup {e}
  BY <1>1, <1>2, <1>3, <1>4 DEF LiveAt, Looks
<1>6. \A k \in Used(d, c) : k \in Nat \ {0}  BY UsedSlot
<1>7. Unshad(f2, d, c) = Unshad(f, d, c)
  <2>1. \A x \in Listed(f) : x # e /\ Looks(f[x], f2[x])
    BY <1>1, <1>2, <1>3
  <2>2. \A k \in Used(d, c) : f2[e].offset # k  BY <1>4, <1>6
  <2> QED  BY <1>3, <2>1, <2>2 DEF Unshad, Looks
<1>8. \A x \in LiveAt(f, c) : EntryOf(f2[x]) = EntryOf(f[x])
  BY <1>1, <1>2, <1>3, LooksEntry DEF LiveAt
<1> DEFINE a == BookAt(f, d, c)
           b == BookAt(f2, d, c)
           e1 == EntryOf(f2[e])
<1>9. b = a \cup {e1}
  BY <1>5, <1>7, <1>8 DEF BookAt
<1>10. e1 = EntryOf(f[e])  BY <1>1, LooksEntry
<1>11. f[e].match \in Masks /\ f[e].suspend \in BOOLEAN
  BY <1>4, StarNotChan, DelNoName DEF WellFormed, RegUser
<1>12. e1 \in Book!Entry
  BY <1>10, <1>11 DEF Book!Entry, EntryOf
<1>13. \A x \in a : x.realname # e1.realname
  <2>1. LiveAt(f, c) \subseteq On(f, c)  BY DEF LiveAt, On
  <2>2. e1.realname = f[e].realname  BY <1>10 DEF EntryOf
  <2> QED  BY <2>1, <2>2 DEF NewNick, BookAt, EntryOf
<1> HIDE DEF a, b, e1
<1>14. Changed(a, b)  BY <1>9, <1>12, <1>13, AddedEntry
<1> QED  BY <1>14 DEF a, b

\* The entries of one channel at most change.
OneBook(f2, f, d) ==
  \/ \A c \in Chan : BookAt(f2, d, c) = BookAt(f, d, c)
  \/ \E b \in Chan : /\ Changed(BookAt(f, d, b), BookAt(f2, d, b))
                     /\ \A c \in Chan \ {b} : BookAt(f2, d, c) = BookAt(f, d, c)

LEMMA WayBook ==
  ASSUME NEW f, NEW g, NEW f2, NEW g2, NEW d, HeapOK(f, g), HeapOK(f2, g2),
         DiskType(d), Cached(f, d), \A c \in Chan : d[c] # NULL,
         \A c \in Chan : NickAt(f, d, {}, c), Way(f2, f, d)
  PROVE  OneBook(f2, f, d)
<1>1. CASE SameHeap(f2, f)  BY <1>1, SameBook DEF OneBook
<1>2. CASE \E e \in Regs : EditHeap(f2, f, e)
  <2>1. PICK e \in Regs : EditHeap(f2, f, e)  BY <1>2
  <2> DEFINE b == f[e].channel
  <2>2. /\ b \in Chan /\ f2[e].channel = b /\ Others(f2, f, e)
    BY <2>1 DEF EditHeap
  <2>3. Changed(BookAt(f, d, b), BookAt(f2, d, b))  BY <2>1, <2>2, EditBook
  <2>4. \A c \in Chan \ {b} : BookAt(f2, d, c) = BookAt(f, d, c)
    BY <2>2, OtherBook
  <2> QED  BY <2>2, <2>3, <2>4 DEF OneBook
<1>3. CASE \E e \in Pending(f) : FreeHeap(f2, f, e)
  <2>1. PICK e \in Pending(f) : FreeHeap(f2, f, e)  BY <1>3
  <2>2. /\ e \in Regs /\ Others(f2, f, e)
        /\ e \notin Listed(f) /\ e \notin Listed(f2)
    BY <2>1 DEF FreeHeap, Pending, Listed
  <2>3. \A c : BookAt(f2, d, c) = BookAt(f, d, c)  BY <2>2, AsideBook
  <2> QED  BY <2>3 DEF OneBook
<1>4. CASE \E e \in Pending(f) : /\ ListHeap(f2, f, e) /\ NewNick(f, d, e)
                                 /\ f[e].channel \in Chan
                                 /\ f[e].access \in GrantLevels
                                 /\ f[e].realname \in Names
  <2>1. PICK e \in Pending(f) : /\ ListHeap(f2, f, e) /\ NewNick(f, d, e)
                                /\ f[e].channel \in Chan
                                /\ f[e].access \in GrantLevels
                                /\ f[e].realname \in Names
    BY <1>4
  <2> DEFINE b == f[e].channel
  <2>2. /\ e \in Regs /\ Others(f2, f, e) /\ f2[e].channel = b
    BY <2>1 DEF ListHeap, Looks
  <2>3. Changed(BookAt(f, d, b), BookAt(f2, d, b))  BY <2>1, ListBook
  <2>4. \A c \in Chan \ {b} : BookAt(f2, d, c) = BookAt(f, d, c)
    BY <2>2, OtherBook
  <2> QED  BY <2>1, <2>3, <2>4 DEF OneBook
<1> QED  BY <1>1, <1>2, <1>3, <1>4 DEF Way

(* All suspensions run out, in memory and in the files.                    *)
LEMMA ExpireBook ==
  ASSUME NEW f, NEW f2, NEW d, NEW d2, ExpiredHeap(f2, f), ExpiredDisk(d2, d),
         NEW c \in Chan, d[c] # NULL
  PROVE  BookAt(f2, d2, c) = {[e EXCEPT !.suspend = FALSE] : e \in BookAt(f, d, c)}
<1>1. Listed(f2) = Listed(f)  BY DEF ExpiredHeap, Listed
<1>2. \A r \in Listed(f) : /\ f2[r].channel = f[r].channel
                           /\ f2[r].offset = f[r].offset
                           /\ f2[r].access = f[r].access
  BY DEF ExpiredHeap, Listed
<1>3. Used(d2, c) = Used(d, c)  BY DEF ExpiredDisk
<1>4. LiveAt(f2, c) = LiveAt(f, c)  BY <1>1, <1>2 DEF LiveAt
<1>5. Unshad(f2, d2, c) = Unshad(f, d, c)  BY <1>1, <1>2, <1>3 DEF Unshad
<1>6. \A r \in LiveAt(f, c) :
        EntryOf(f2[r]) = [EntryOf(f[r]) EXCEPT !.suspend = FALSE]
  <2> SUFFICES ASSUME NEW r \in LiveAt(f, c)
               PROVE  EntryOf(f2[r]) = [EntryOf(f[r]) EXCEPT !.suspend = FALSE]
    OBVIOUS
  <2>1. /\ f2[r].realname = f[r].realname /\ f2[r].match = f[r].match
        /\ f2[r].access = f[r].access /\ f2[r].suspend = FALSE
    BY DEF ExpiredHeap, LiveAt, Listed
  <2>2. [EntryOf(f[r]) EXCEPT !.suspend = FALSE] =
          [realname |-> f[r].realname, match |-> f[r].match,
           access |-> f[r].access, suspend |-> FALSE]
    BY EntryShape
  <2>3. EntryOf(f2[r]) =
          [realname |-> f[r].realname, match |-> f[r].match,
           access |-> f[r].access, suspend |-> FALSE]
    BY <2>1 DEF EntryOf
  <2> QED  BY <2>2, <2>3
<1>7. \A k \in Unshad(f, d, c) :
        EntryOf(d2[c][k]) = [EntryOf(d[c][k]) EXCEPT !.suspend = FALSE]
  <2> SUFFICES ASSUME NEW k \in Unshad(f, d, c)
               PROVE  EntryOf(d2[c][k]) = [EntryOf(d[c][k]) EXCEPT !.suspend = FALSE]
    OBVIOUS
  <2>1. /\ d2[c][k].realname = d[c][k].realname /\ d2[c][k].match = d[c][k].match
        /\ d2[c][k].access = d[c][k].access /\ d2[c][k].suspend = FALSE
    BY DEF ExpiredDisk, Unshad
  <2>2. [EntryOf(d[c][k]) EXCEPT !.suspend = FALSE] =
          [realname |-> d[c][k].realname, match |-> d[c][k].match,
           access |-> d[c][k].access, suspend |-> FALSE]
    BY EntryShape
  <2>3. EntryOf(d2[c][k]) =
          [realname |-> d[c][k].realname, match |-> d[c][k].match,
           access |-> d[c][k].access, suspend |-> FALSE]
    BY <2>1 DEF EntryOf
  <2> QED  BY <2>2, <2>3
<1>8. ASSUME NEW x
      PROVE  x \in BookAt(f2, d2, c) <=>
               x \in {[e EXCEPT !.suspend = FALSE] : e \in BookAt(f, d, c)}
  <2>1. x \in BookAt(f2, d2, c) <=>
          \/ \E r \in LiveAt(f, c) : x = [EntryOf(f[r]) EXCEPT !.suspend = FALSE]
          \/ \E k \in Unshad(f, d, c) :
               x = [EntryOf(d[c][k]) EXCEPT !.suspend = FALSE]
    <3>1. x \in BookAt(f2, d2, c) <=>
            \/ \E r \in LiveAt(f, c) : x = EntryOf(f2[r])
            \/ \E k \in Unshad(f, d, c) : x = EntryOf(d2[c][k])
      BY <1>4, <1>5 DEF BookAt
    <3> QED  BY <1>6, <1>7, <3>1
  <2>2. x \in {[e EXCEPT !.suspend = FALSE] : e \in BookAt(f, d, c)} <=>
          \E e \in BookAt(f, d, c) : x = [e EXCEPT !.suspend = FALSE]
    OBVIOUS
  <2>3. \A e : e \in BookAt(f, d, c) <=>
          \/ \E r \in LiveAt(f, c) : e = EntryOf(f[r])
          \/ \E k \in Unshad(f, d, c) : e = EntryOf(d[c][k])
    BY DEF BookAt
  <2> QED  BY <2>1, <2>2, <2>3
<1> QED  BY <1>8

-----------------------------------------------------------------------------
(* UserDB implements AccessBook *)

(* One channel's entries change as an operation of AccessBook says.        *)
LEMMA ChangedStep ==
  ASSUME NEW c \in Chan, Changed(BookOf(c), BookOf(c)'),
         \A d \in Chan \ {c} : BookOf(d)' = BookOf(d)
  PROVE  [Book!Next]_[d \in Chan |-> BookOf(d)]
<1> DEFINE b == [d \in Chan |-> BookOf(d)]
<1>1. CASE BookOf(c)' = BookOf(c)
  <2>1. b' = b  BY <1>1
  <2> QED  BY <2>1
<1>2. CASE \E e \in BookOf(c) : BookOf(c)' = BookOf(c) \ {e}
  <2>1. PICK e \in BookOf(c) : BookOf(c)' = BookOf(c) \ {e}  BY <1>2
  <2>2. b' = [b EXCEPT ![c] = @ \ {e}]  BY <2>1
  <2>3. Book!Remove(c, e)  BY <2>2 DEF Book!Remove
  <2>4. e \in b[c]  BY <2>1
  <2> QED  BY <2>3, <2>4 DEF Book!Next
<1>3. CASE \E e \in BookOf(c) : \E m \in Masks :
             BookOf(c)' = (BookOf(c) \ {e}) \cup {[e EXCEPT !.match = m]}
  <2>1. PICK e \in BookOf(c) : \E m \in Masks :
               BookOf(c)' = (BookOf(c) \ {e}) \cup {[e EXCEPT !.match = m]}
    BY <1>3
  <2>2. PICK m \in Masks :
               BookOf(c)' = (BookOf(c) \ {e}) \cup {[e EXCEPT !.match = m]}
    BY <2>1
  <2>3. b' = [b EXCEPT ![c] = (@ \ {e}) \cup {[e EXCEPT !.match = m]}]
    BY <2>2
  <2>4. Book!Edit(c, e)  BY <2>3 DEF Book!Edit, Book!Replace
  <2>5. e \in b[c]  BY <2>1
  <2> QED  BY <2>4, <2>5 DEF Book!Next
<1>4. CASE \E e \in BookOf(c) : \E l \in GrantLevels :
             BookOf(c)' = (BookOf(c) \ {e}) \cup {[e EXCEPT !.access = l]}
  <2>1. PICK e \in BookOf(c) : \E l \in GrantLevels :
               BookOf(c)' = (BookOf(c) \ {e}) \cup {[e EXCEPT !.access = l]}
    BY <1>4
  <2>2. PICK l \in GrantLevels :
               BookOf(c)' = (BookOf(c) \ {e}) \cup {[e EXCEPT !.access = l]}
    BY <2>1
  <2>3. b' = [b EXCEPT ![c] = (@ \ {e}) \cup {[e EXCEPT !.access = l]}]
    BY <2>2
  <2>4. Book!Edit(c, e)  BY <2>3 DEF Book!Edit, Book!Replace
  <2>5. e \in b[c]  BY <2>1
  <2> QED  BY <2>4, <2>5 DEF Book!Next
<1>5. CASE \E e \in BookOf(c) : \E s \in BOOLEAN :
             BookOf(c)' = (BookOf(c) \ {e}) \cup {[e EXCEPT !.suspend = s]}
  <2>1. PICK e \in BookOf(c) : \E s \in BOOLEAN :
               BookOf(c)' = (BookOf(c) \ {e}) \cup {[e EXCEPT !.suspend = s]}
    BY <1>5
  <2>2. PICK s \in BOOLEAN :
               BookOf(c)' = (BookOf(c) \ {e}) \cup {[e EXCEPT !.suspend = s]}
    BY <2>1
  <2>3. b' = [b EXCEPT ![c] = (@ \ {e}) \cup {[e EXCEPT !.suspend = s]}]
    BY <2>2
  <2>4. Book!Edit(c, e)  BY <2>3 DEF Book!Edit, Book!Replace
  <2>5. e \in b[c]  BY <2>1
  <2> QED  BY <2>4, <2>5 DEF Book!Next
<1>6. CASE \E e \in Book!Entry : /\ \A x \in BookOf(c) : x.realname # e.realname
                                 /\ BookOf(c)' = BookOf(c) \cup {e}
  <2>1. PICK e \in Book!Entry : /\ \A x \in BookOf(c) : x.realname # e.realname
                                /\ BookOf(c)' = BookOf(c) \cup {e}
    BY <1>6
  <2>2. b' = [b EXCEPT ![c] = @ \cup {e}]  BY <2>1
  <2>3. \A x \in b[c] : x.realname # e.realname  BY <2>1
  <2>4. Book!Add(c, e)  BY <2>2, <2>3 DEF Book!Add
  <2> QED  BY <2>4 DEF Book!Next
<1> QED  BY <1>1, <1>2, <1>3, <1>4, <1>5, <1>6, Zenon DEF Changed

(* The files of all channels are there, before and after a step.           *)
LEMMA BooksNow ==
  ASSUME Whole, Whole', NoPurge
  PROVE  /\ \A c \in Chan : disk[c] # NULL /\ BookOf(c) = BookAt(regs, disk, c)
         /\ \A c \in Chan : BookOf(c)' = BookAt(regs', disk', c)
<1>1. \A c \in Chan : c \in Kept  BY NoPurgeKept
<1>2. \A c \in Chan : disk[c] # NULL /\ disk'[c] # NULL
  BY <1>1 DEF Whole, CacheInv, Cached
<1>3. \A c \in Chan : BookOf(c) = BookAt(regs, disk, c)  BY <1>2, BookNow
<1>4. ASSUME NEW c \in Chan PROVE BookOf(c)' = BookAt(regs', disk', c)
  BY <1>2, BookThen
<1> QED  BY <1>2, <1>3, <1>4

LEMMA OneStep ==
  ASSUME Whole, Whole', NoPurge, disk' = disk, OneBook(regs', regs, disk)
  PROVE  [Book!Next]_[c \in Chan |-> BookOf(c)]
<1>1. /\ \A c \in Chan : BookOf(c) = BookAt(regs, disk, c)
      /\ \A c \in Chan : BookOf(c)' = BookAt(regs', disk, c)
  BY BooksNow
<1>2. CASE \A c \in Chan : BookAt(regs', disk, c) = BookAt(regs, disk, c)
  <2>1. \A c \in Chan : BookOf(c)' = BookOf(c)  BY <1>1, <1>2
  <2> QED  BY <2>1
<1>3. CASE \E b \in Chan :
             /\ Changed(BookAt(regs, disk, b), BookAt(regs', disk, b))
             /\ \A c \in Chan \ {b} : BookAt(regs', disk, c) = BookAt(regs, disk, c)
  <2>1. PICK b \in Chan :
             /\ Changed(BookAt(regs, disk, b), BookAt(regs', disk, b))
             /\ \A c \in Chan \ {b} : BookAt(regs', disk, c) = BookAt(regs, disk, c)
    BY <1>3
  <2>2. Changed(BookOf(b), BookOf(b)')  BY <1>1, <2>1
  <2>3. \A c \in Chan \ {b} : BookOf(c)' = BookOf(c)  BY <1>1, <2>1
  <2> QED  BY <2>2, <2>3, ChangedStep
<1> QED  BY <1>2, <1>3 DEF OneBook

\* A step in which one query or one command runs.
LEMMA QueryStepBook ==
  ASSUME Whole, Whole', NickInv, Serial, NEW i \in Qids, QueryStep(i)
  PROVE  disk' = disk /\ OneBook(regs', regs, disk)
<1>1. /\ sync = "idle" /\ Good(regs, vals, query, disk) /\ Cached(regs, disk)
      /\ Good(regs', vals', query', disk') /\ IdleNick /\ NoPurge
  BY IInvParts, IInvPartsNext, IdleIs
     DEF QueryStep, Whole, CacheInv, Serial, Undisturbed
<1>2. /\ DiskType(disk) /\ HeapOK(regs, vals) /\ HeapOK(regs', vals')
      /\ \A c \in Chan : disk[c] # NULL
  BY <1>1, NoPurgeKept DEF Good, Cached
<1>3. CASE read_db(i)
  <2>1. PICK f : /\ HeapOK(f, vals) /\ Cached(f, disk)
                 /\ \A c \in Chan : NickAt(f, disk, {}, c)
                 /\ \A c : BookAt(f, disk, c) = BookAt(regs, disk, c)
                 /\ Way(regs', f, disk)
    BY <1>1, <1>3, ReadWay
  <2>2. disk' = disk  BY <1>1, <1>3, ReadWay
  <2>3. OneBook(regs', f, disk)  BY <1>2, <2>1, WayBook
  <2> QED  BY <2>1, <2>2, <2>3 DEF OneBook
<1>4. CASE end_db_read(i)
  <2>1. disk' = disk /\ Way(regs', regs, disk)  BY <1>1, <1>4, EndWay
  <2>2. OneBook(regs', regs, disk)  BY <1>1, <1>2, <2>1, WayBook DEF IdleNick
  <2> QED  BY <2>1, <2>2
<1> QED  BY <1>3, <1>4 DEF QueryStep

LEMMA CommandsBook ==
  ASSUME Whole, Whole', NickInv, Serial, sync = "idle", Commands
  PROVE  disk' = disk /\ OneBook(regs', regs, disk)
<1>1. /\ Good(regs, vals, query, disk) /\ Cached(regs, disk)
      /\ Good(regs', vals', query', disk') /\ IdleNick /\ NoPurge
  BY IInvParts, IInvPartsNext, IdleIs DEF Whole, CacheInv, Serial, Undisturbed
<1>2. /\ DiskType(disk) /\ HeapOK(regs, vals) /\ HeapOK(regs', vals')
      /\ \A c \in Chan : disk[c] # NULL
  BY <1>1, NoPurgeKept DEF Good, Cached
<1>3. CASE CommandShape
  <2>1. Way(regs', regs, disk)  BY <1>3 DEF CommandShape, Way
  <2>2. OneBook(regs', regs, disk)  BY <1>1, <1>2, <2>1, WayBook DEF IdleNick
  <2> QED  BY <1>3, <2>2 DEF CommandShape
<1>4. CASE \E u : \E c \in Chan, n \in Names, m \in Masks, acc \in GrantLevels,
              pw \in Pws : AddUser(u, c, n, m, acc, pw)
  BY <1>4, AddUserNick DEF OneBook
<1> QED  BY <1>3, <1>4, CommandsShape DEF Serial

LEMMA SuspensionsBook ==
  ASSUME Whole, Whole', NoPurge, Suspensions
  PROVE  [Book!Next]_[c \in Chan |-> BookOf(c)]
<1> DEFINE b == [c \in Chan |-> BookOf(c)]
<1>1. /\ \A c \in Chan : disk[c] # NULL /\ BookOf(c) = BookAt(regs, disk, c)
      /\ \A c \in Chan : BookOf(c)' = BookAt(regs', disk', c)
  BY BooksNow
<1>2. CASE SuspensionsExpire
  <2>1. Good(regs, vals, query, disk)  BY IInvParts DEF Whole
  <2>2. ExpiredHeap(regs', regs) /\ ExpiredDisk(disk', disk)
    BY <1>2, <2>1, ExpireShape
  <2>3. \A c \in Chan :
          BookOf(c)' = {[e EXCEPT !.suspend = FALSE] : e \in BookOf(c)}
    BY <1>1, <2>2, ExpireBook
  <2>4. b' = [c \in Chan |-> {[e EXCEPT !.suspend = FALSE] : e \in b[c]}]
    BY <2>3
  <2>5. Book!Expire  BY <2>4 DEF Book!Expire
  <2> QED  BY <2>5 DEF Book!Next
<1>3. CASE ~SuspensionsExpire
  <2>1. regs' = regs /\ disk' = disk  BY <1>3 DEF Suspensions, suspend
  <2>2. \A c \in Chan : BookOf(c)' = BookOf(c)  BY <1>1, <2>1
  <2> QED  BY <2>2
<1> QED  BY <1>2, <1>3

(* Every step of UserDB is one of AccessBook, or leaves the book as it is. *)
LEMMA BookStep ==
  ASSUME Serial, Filed, Filed', [Next]_vars
  PROVE  [Book!Next]_[c \in Chan |-> BookOf(c)]
<1>1. /\ Whole /\ Whole' /\ NickInv /\ NoPurge /\ Undisturbed
  BY DEF Filed, Serial, Undisturbed
<1>2. CASE \E i \in Qids : QueryStep(i)
  BY <1>1, <1>2, QueryStepBook, OneStep
<1>3. CASE sync = "idle" /\ Commands
  BY <1>1, <1>3, CommandsBook, OneStep
<1>4. CASE sync = "idle" /\ Suspensions
  BY <1>1, <1>4, SuspensionsBook
<1>5. CASE SyncOne \/ Exit
  <2>1. sync # "idle" /\ ~Crash
    BY <1>1, <1>5 DEF SyncOne, Exit, Crash, Undisturbed
  <2>2. Next  BY <1>5 DEF Next
  <2>3. \A c \in Chan : BookOf(c)' = BookOf(c)
    BY <1>1, <2>1, <2>2, InvisibleStep
  <2> QED  BY <2>3
<1>6. CASE sync = "idle" /\ Logins
  <2>1. SameHeap(regs', regs) /\ disk' = disk
    BY <1>1, <1>6, IInvParts, LoginsShape DEF Whole
  <2>2. \A c : BookAt(regs', disk, c) = BookAt(regs, disk, c)
    BY <2>1, SameBook
  <2>3. OneBook(regs', regs, disk)  BY <2>2 DEF OneBook
  <2> QED  BY <1>1, <2>1, <2>3, OneStep
<1>7. CASE SaveTimer \/ SaveSlice \/ (sync = "idle" /\ quit) \/ UNCHANGED vars
  <2>1. regs' = regs /\ disk' = disk
    BY <1>7 DEF SaveTimer, SaveUserList, SaveSlice, do_cold_sync_slice, quit, vars
  <2>2. OneBook(regs', regs, disk)  BY <2>1 DEF OneBook
  <2> QED  BY <1>1, <2>1, <2>2, OneStep
<1>8. CASE restart \/ Crash
  BY <1>1, <1>8 DEF restart, Crash, Undisturbed
<1> QED
  BY <1>2, <1>3, <1>4, <1>5, <1>6, <1>7, <1>8 DEF Next

\* The levels in the files are those that commands give, and the owners'.
FilesLevels ==
  \A d \in InitialFiles : \A k \in DOMAIN d :
    d[k] # NULL => d[k].access \in GrantLevels \cup {OWNER_ACCESS}

LEMMA BookInit ==
  ASSUME Serial, FilesLevels, Init PROVE Book!Init
<1> DEFINE b == [c \in Chan |-> BookOf(c)]
<1>1. /\ regs = [r \in Regs |-> IF r = Master THEN MasterReg ELSE NULL]
      /\ disk \in [Chan -> InitialFiles]
  BY DEF Init
<1>2. \A r \in Listed(regs) : regs[r].channel = Star
  BY <1>1 DEF Listed, MasterReg
<1>3. ASSUME NEW c \in Chan
      PROVE  /\ BookOf(c) = {EntryOf(disk[c][k]) : k \in Used(disk, c)}
             /\ disk[c] \in InitialFiles
             /\ \A k \in Used(disk, c) : EntryOf(disk[c][k]) \in Book!Entry
  <2>1. disk[c] \in InitialFiles /\ disk[c] \in File /\ disk[c] # NULL
    BY <1>1, FilesOK, NullOK DEF FilesOK, NullOK
  <2>2. LiveAt(regs, c) = {}  BY <1>2, StarNotChan DEF LiveAt
  <2>3. Unshad(regs, disk, c) = Used(disk, c)
    BY <1>2, StarNotChan DEF Unshad
  <2>4. BookOf(c) = {EntryOf(disk[c][k]) : k \in Used(disk, c)}
    BY <2>1, <2>2, <2>3, BookNow DEF BookAt
  <2>5. ASSUME NEW k \in Used(disk, c)
        PROVE  EntryOf(disk[c][k]) \in Book!Entry
    <3>1. k \in DOMAIN disk[c] /\ disk[c][k] # NULL  BY DEF Used
    <3>2. disk[c][k] \in Slot  BY <2>1, <3>1 DEF File
    <3>3. disk[c][k].access \in GrantLevels \cup {OWNER_ACCESS}
      BY <2>1, <3>1 DEF FilesLevels
    <3> QED  BY <3>2, <3>3 DEF Slot, Book!Entry, EntryOf
  <2> QED  BY <2>1, <2>4, <2>5
<1>4. b \in [Chan -> SUBSET Book!Entry]  BY <1>3
<1>5. ASSUME NEW c \in Chan PROVE Book!OnePerName(b[c])
  <2> SUFFICES ASSUME NEW j \in Used(disk, c), NEW k \in Used(disk, c),
                      EntryOf(disk[c][j]).realname = EntryOf(disk[c][k]).realname
               PROVE  j = k
    BY <1>3 DEF Book!OnePerName
  <2>1. disk[c][j].realname = disk[c][k].realname  BY DEF EntryOf
  <2> QED  BY <1>3, <2>1 DEF Used, Serial, FilesDistinct
<1> QED  BY <1>4, <1>5 DEF Book!Init

(* Seen from outside, the database is the book: a step of the program, be  *)
(* it a command, a query's read, a pass, a login or the end of the         *)
(* process, changes one entry as AccessBook allows, or none.               *)
THEOREM ImplementsBookCorrect ==
  Serial /\ FilesLevels => (Spec => ImplementsBook)
<1> SUFFICES ASSUME Serial, FilesLevels PROVE Spec => ImplementsBook
  OBVIOUS
<1>1. Init => Book!Init  BY BookInit
<1>2. Init => Filed  BY FiledAlways
<1>3. Filed /\ [Next]_vars => Filed'  BY FiledAlways
<1>4. Filed /\ Filed' /\ [Next]_vars =>
        [Book!Next]_[c \in Chan |-> BookOf(c)]
  BY BookStep
<1>5. Spec => Book!Spec
  BY <1>1, <1>2, <1>3, <1>4, PTL DEF Spec, Book!Spec
<1> QED  BY <1>5 DEF ImplementsBook
=============================================================================
