---------------------------- MODULE Timers_proofs ----------------------------
(***************************************************************************)
(* The list of events stays in order, one save is always in it, every      *)
(* ignore has its event, and the network silences what is ignored, but for *)
(* masks of IPv6 networks: for any clients, addresses, channels, durations *)
(* and length of the list, with restarts and crashes.                      *)
(***************************************************************************)
EXTENDS Timers, ShitList_proofs, FiniteSetTheorems

Entry(event, time, param) == [event |-> event, time |-> time, param |-> param]
EventsOK(list) == list \in Seq(Event) /\ Sorted(list) /\ OneSave(list)

-----------------------------------------------------------------------------
(* The operators on the list.                                              *)

\* The walk of AddEvent ends, before the first event that is not earlier.
LEMMA WalkStops ==
  ASSUME NEW list \in Seq(Event), NEW time \in Int
  PROVE  /\ Walk(list, time) \in 0..Len(list)
         /\ \A i \in 1..Walk(list, time) : list[i].time < time
         /\ Walk(list, time) < Len(list) => list[Walk(list, time) + 1].time >= time
<1> DEFINE Late == {n \in Nat : n \in 0..Len(list) - 1 /\ list[n + 1].time >= time}
           Stop(n) == /\ \A i \in 1..n : list[i].time < time
                      /\ n < Len(list) => list[n + 1].time >= time
<1>0. Len(list) \in Nat /\ \A i \in 1..Len(list) : list[i].time \in Int
  BY DEF Event
<1>1. \E n \in 0..Len(list) : Stop(n)
  <2>1. CASE Late = {}
    <3>1. \A i \in 1..Len(list) : list[i].time < time
      <4> TAKE i \in 1..Len(list)
      <4>1. i - 1 \in Nat /\ i - 1 \in 0..Len(list) - 1 /\ (i - 1) + 1 = i
        BY <1>0
      <4>2. ~ (list[(i - 1) + 1].time >= time)
        BY <2>1, <4>1
      <4> QED BY <4>1, <4>2, <1>0
    <3>2. Stop(Len(list)) /\ Len(list) \in 0..Len(list)
      BY <3>1, <1>0
    <3> QED BY <3>2
  <2>2. CASE Late # {}
    <3>1. PICK n \in Late : \A k \in Late : ~ (k < n)
      <4>1. Late \in SUBSET Nat
        OBVIOUS
      <4> HIDE DEF Late
      <4> QED BY <2>2, <4>1, Least
    <3>2. n \in Nat /\ n \in 0..Len(list) - 1 /\ list[n + 1].time >= time
      OBVIOUS
    <3>3. \A k \in Late : ~ (k < n)
      BY <3>1
    <3>4. \A i \in 1..n : list[i].time < time
      <4> TAKE i \in 1..n
      <4>1. i - 1 \in Nat /\ i - 1 \in 0..Len(list) - 1 /\ (i - 1) + 1 = i /\ i - 1 < n
            /\ i \in 1..Len(list)
        BY <1>0, <3>2
      <4>2. ~ (list[(i - 1) + 1].time >= time)
        BY <3>3, <4>1
      <4> QED BY <4>1, <4>2, <1>0
    <3>5. n \in 0..Len(list) /\ Stop(n)
      <4>1. n \in 0..Len(list)
        BY <3>2, <1>0
      <4> QED BY <3>2, <3>4, <4>1
    <3> QED BY <3>5
  <2> QED BY <2>1, <2>2
<1>2. Walk(list, time) = CHOOSE n \in 0..Len(list) : Stop(n)
  BY DEF Walk
<1> HIDE DEF Stop
<1>3. Walk(list, time) \in 0..Len(list) /\ Stop(Walk(list, time))
  BY <1>1, <1>2
<1> QED BY <1>3 DEF Stop

\* What AddEvent returns: the list, with the new event between two others.
LEMMA AddShape ==
  ASSUME NEW list \in Seq(Event), NEW e \in Event
  PROVE  LET new == AddEvent(list, e.event, e.time, e.param)
             n == Walk(list, e.time)
         IN /\ n \in 0..Len(list)
            /\ new \in Seq(Event) /\ Len(new) = Len(list) + 1
            /\ \A i \in 1..n : new[i] = list[i]
            /\ new[n + 1] = e
            /\ \A i \in n + 1..Len(list) : new[i + 1] = list[i]
<1> DEFINE n == Walk(list, e.time)
           new == AddEvent(list, e.event, e.time, e.param)
<1>1. n \in 0..Len(list) /\ Len(list) \in Nat
  BY WalkStops DEF Event
<1>2. e = [event |-> e.event, time |-> e.time, param |-> e.param]
  BY DEF Event
<1>3. new = SubSeq(list, 1, n) \o <<e>> \o SubSeq(list, n + 1, Len(list))
  BY <1>2 DEF AddEvent
<1> HIDE DEF n, new
<1>4. SubSeq(list, 1, n) \in Seq(Event) /\ Len(SubSeq(list, 1, n)) = n
      /\ \A i \in 1..n : SubSeq(list, 1, n)[i] = list[i]
  BY <1>1
<1>5. SubSeq(list, n + 1, Len(list)) \in Seq(Event)
      /\ Len(SubSeq(list, n + 1, Len(list))) = Len(list) - n
      /\ \A i \in 1..Len(list) - n : SubSeq(list, n + 1, Len(list))[i] = list[n + i]
  BY <1>1
<1> DEFINE front == SubSeq(list, 1, n)
           back == SubSeq(list, n + 1, Len(list))
<1> HIDE DEF front, back
<1>6. /\ new = front \o <<e>> \o back
      /\ front \in Seq(Event) /\ Len(front) = n /\ \A i \in 1..n : front[i] = list[i]
      /\ back \in Seq(Event) /\ Len(back) = Len(list) - n
      /\ \A i \in 1..Len(list) - n : back[i] = list[n + i]
  <2>1. new = front \o <<e>> \o back
    BY <1>3 DEF front, back
  <2>2. front \in Seq(Event) /\ Len(front) = n /\ \A i \in 1..n : front[i] = list[i]
    BY <1>4 DEF front
  <2>3. /\ back \in Seq(Event) /\ Len(back) = Len(list) - n
        /\ \A i \in 1..Len(list) - n : back[i] = list[n + i]
    BY <1>5 DEF back
  <2> QED BY <2>1, <2>2, <2>3
<1> DEFINE fronts == front \o <<e>>
<1>7. <<e>> \in Seq(Event) /\ Len(<<e>>) = 1 /\ <<e>>[1] = e
  OBVIOUS
<1>8. /\ fronts \in Seq(Event) /\ Len(fronts) = n + 1
      /\ \A i \in 1..n : fronts[i] = front[i]
      /\ fronts[n + 1] = e
  <2>1. n \in Nat /\ front \in Seq(Event) /\ Len(front) = n
    BY <1>1, <1>6
  <2>2. fronts \in Seq(Event) /\ Len(fronts) = n + 1
    BY <1>7, <2>1
  <2>3. \A i \in 1..n : fronts[i] = front[i]
    BY <1>7, <2>1
  <2>4. fronts[n + 1] = <<e>>[1]
    BY <1>7, <2>1
  <2> QED BY <1>7, <2>2, <2>3, <2>4
<1>9. new = fronts \o back
  BY <1>6
<1> HIDE DEF fronts
<1>10. new \in Seq(Event) /\ Len(new) = Len(list) + 1
  <2>1. back \in Seq(Event) /\ Len(back) = Len(list) - n /\ fronts \in Seq(Event)
    BY <1>6, <1>8
  <2>2. fronts \o back \in Seq(Event) /\ Len(fronts \o back) = Len(fronts) + Len(back)
    BY <2>1
  <2> QED BY <1>1, <1>8, <1>9, <2>1, <2>2
<1>11. \A i \in 1..n : new[i] = list[i]
  <2> TAKE i \in 1..n
  <2>1. fronts \in Seq(Event) /\ back \in Seq(Event) /\ i \in 1..Len(fronts)
    BY <1>1, <1>6, <1>8
  <2>2. (fronts \o back)[i] = fronts[i]
    BY <2>1
  <2> QED BY <1>6, <1>8, <1>9, <2>2
<1>12. new[n + 1] = e
  <2>1. fronts \in Seq(Event) /\ back \in Seq(Event) /\ n + 1 \in 1..Len(fronts)
    BY <1>1, <1>6, <1>8
  <2>2. (fronts \o back)[n + 1] = fronts[n + 1]
    BY <2>1
  <2> QED BY <1>8, <1>9, <2>2
<1>13. \A i \in n + 1..Len(list) : new[i + 1] = list[i]
  <2> TAKE i \in n + 1..Len(list)
  <2>1. i - n \in 1..Len(list) - n /\ n + (i - n) = i /\ i + 1 = (n + 1) + (i - n)
    BY <1>1
  <2>2. new[(n + 1) + (i - n)] = back[i - n]
    BY <1>1, <1>6, <1>8, <1>9, <2>1
  <2> QED BY <1>6, <2>1, <2>2
<1> QED BY <1>1, <1>10, <1>11, <1>12, <1>13 DEF n, new

\* AddEvent keeps the order and what is in the list, and adds the event.
LEMMA AddKeeps ==
  ASSUME NEW list \in Seq(Event), Sorted(list), NEW e \in Event
  PROVE  LET new == AddEvent(list, e.event, e.time, e.param)
         IN /\ new \in Seq(Event) /\ Sorted(new)
            /\ InList(new, e)
            /\ \A f \in Event : InList(list, f) => InList(new, f)
            /\ e.event # "SAVESHITLIST" /\ OneSave(list) => OneSave(new)
            /\ /\ e.event = "SAVESHITLIST"
               /\ \A i \in 1..Len(list) : list[i].event # "SAVESHITLIST"
               => OneSave(new)
<1> DEFINE new == AddEvent(list, e.event, e.time, e.param)
           n == Walk(list, e.time)
<1>1. /\ n \in 0..Len(list) /\ Len(list) \in Nat
      /\ new \in Seq(Event) /\ Len(new) = Len(list) + 1
      /\ \A i \in 1..n : new[i] = list[i]
      /\ new[n + 1] = e
      /\ \A i \in n + 1..Len(list) : new[i + 1] = list[i]
  <2>1. Len(list) \in Nat
    OBVIOUS
  <2> QED BY AddShape, <2>1, Zenon
<1>2. /\ \A i \in 1..n : list[i].time < e.time
      /\ n < Len(list) => list[n + 1].time >= e.time
  BY WalkStops DEF Event
<1>3. e.time \in Int /\ \A i \in 1..Len(list) : list[i].time \in Int
  BY DEF Event
<1> HIDE DEF new, n
\* Where the events of the new list come from.
<1>4. \A i \in 1..Len(new) : \/ i \in 1..n /\ new[i] = list[i]
                             \/ i = n + 1 /\ new[i] = e
                             \/ i \in n + 2..Len(new) /\ i - 1 \in n + 1..Len(list)
                                /\ new[i] = list[i - 1]
  <2> TAKE i \in 1..Len(new)
  <2>1. CASE i <= n
    BY <1>1, <2>1
  <2>2. CASE i = n + 1
    BY <1>1, <2>2
  <2>3. CASE i > n + 1
    <3>1. i - 1 \in n + 1..Len(list) /\ (i - 1) + 1 = i /\ i \in n + 2..Len(new)
      BY <1>1, <2>3
    <3>2. new[(i - 1) + 1] = list[i - 1]
      BY <1>1, <3>1
    <3> QED BY <3>1, <3>2
  <2> QED BY <1>1, <2>1, <2>2, <2>3
<1>5. Sorted(new)
  <2>1. \A i \in n + 1..Len(list) : e.time <= list[i].time
    <3> TAKE i \in n + 1..Len(list)
    <3>1. n < Len(list) /\ n + 1 \in 1..Len(list) /\ i \in 1..Len(list)
      BY <1>1
    <3>2. list[n + 1].time <= list[i].time
      BY <1>1, <1>3, <3>1 DEF Sorted
    <3> QED BY <1>2, <1>3, <3>1, <3>2
  <2> SUFFICES ASSUME NEW i \in 1..Len(new), NEW j \in 1..Len(new), i < j
               PROVE  new[i].time <= new[j].time
    BY DEF Sorted
  <2>2. CASE j <= n
    <3>1. /\ i \in 1..Len(list) /\ j \in 1..Len(list)
          /\ new[i] = list[i] /\ new[j] = list[j]
      BY <1>1, <2>2
    <3> QED BY <3>1 DEF Sorted
  <2>3. CASE j = n + 1
    <3>1. i \in 1..n /\ i \in 1..Len(list)
      BY <1>1, <2>3
    <3> QED BY <1>1, <1>2, <1>3, <2>3, <3>1
  <2>4. CASE j > n + 1
    <3>1. j - 1 \in n + 1..Len(list) /\ new[j] = list[j - 1]
      BY <1>1, <1>4, <2>4
    <3>2. CASE i <= n
      <4>1. /\ i \in 1..Len(list) /\ j - 1 \in 1..Len(list) /\ i < j - 1
            /\ new[i] = list[i]
        BY <1>1, <3>1, <3>2
      <4> QED BY <3>1, <4>1 DEF Sorted
    <3>3. CASE i = n + 1
      BY <1>1, <1>4, <2>1, <3>1, <3>3
    <3>4. CASE i > n + 1
      <4>1. /\ i - 1 \in 1..Len(list) /\ j - 1 \in 1..Len(list) /\ i - 1 < j - 1
            /\ new[i] = list[i - 1]
        BY <1>1, <1>4, <3>1, <3>4
      <4> QED BY <3>1, <4>1 DEF Sorted
    <3> QED BY <1>1, <3>2, <3>3, <3>4
  <2> QED BY <1>1, <2>2, <2>3, <2>4
<1>6. InList(new, e)
  BY <1>1 DEF InList
<1>7. ASSUME NEW f \in Event, InList(list, f)
      PROVE  InList(new, f)
  <2>1. PICK i \in 1..Len(list) : list[i] = f
    BY <1>7 DEF InList
  <2>2. CASE i <= n
    <3>1. i \in 1..n /\ i \in 1..Len(new)
      BY <1>1, <2>2
    <3> QED BY <1>1, <2>1, <3>1 DEF InList
  <2>3. CASE i > n
    <3>1. i \in n + 1..Len(list) /\ i + 1 \in 1..Len(new)
      BY <1>1, <2>3
    <3> QED BY <1>1, <2>1, <3>1 DEF InList
  <2> QED BY <1>1, <2>2, <2>3
<1>8. ASSUME e.event # "SAVESHITLIST", OneSave(list)
      PROVE  OneSave(new)
  <2>1. PICK s \in 1..Len(list) :
          \A j \in 1..Len(list) : list[j].event = "SAVESHITLIST" <=> s = j
    BY <1>8 DEF OneSave
  <2> DEFINE t == IF s <= n THEN s ELSE s + 1
  <2>2. t \in 1..Len(new)
    BY <1>1
  <2>3. \A j \in 1..Len(new) : new[j].event = "SAVESHITLIST" <=> t = j
    <3> TAKE j \in 1..Len(new)
    <3>1. CASE j \in 1..n /\ new[j] = list[j]
      <4>1. j \in 1..Len(list)
        BY <1>1, <3>1
      <4> QED BY <1>1, <2>1, <3>1, <4>1
    <3>2. CASE j = n + 1 /\ new[j] = e
      BY <1>1, <1>8, <3>2
    <3>3. CASE j \in n + 2..Len(new) /\ j - 1 \in n + 1..Len(list) /\ new[j] = list[j - 1]
      <4>1. j - 1 \in 1..Len(list)
        BY <1>1, <3>3
      <4>2. new[j].event = "SAVESHITLIST" <=> s = j - 1
        BY <2>1, <3>3, <4>1
      <4> QED BY <1>1, <3>3, <4>1, <4>2
    <3> QED BY <1>4, <3>1, <3>2, <3>3
  <2> QED BY <2>2, <2>3 DEF OneSave
<1>9. ASSUME e.event = "SAVESHITLIST",
             \A i \in 1..Len(list) : list[i].event # "SAVESHITLIST"
      PROVE  OneSave(new)
  <2>1. n + 1 \in 1..Len(new)
    BY <1>1
  <2>2. \A j \in 1..Len(new) : new[j].event = "SAVESHITLIST" <=> n + 1 = j
    <3> TAKE j \in 1..Len(new)
    <3>1. CASE j \in 1..n /\ new[j] = list[j]
      BY <1>1, <1>9, <3>1
    <3>2. CASE j = n + 1 /\ new[j] = e
      BY <1>9, <3>2
    <3>3. CASE j \in n + 2..Len(new) /\ j - 1 \in n + 1..Len(list) /\ new[j] = list[j - 1]
      <4>1. j - 1 \in 1..Len(list) /\ j # n + 1
        BY <1>1, <3>3
      <4> QED BY <1>9, <3>3, <4>1
    <3> QED BY <1>4, <3>1, <3>2, <3>3
  <2> QED BY <2>1, <2>2 DEF OneSave
<1> QED BY <1>1, <1>5, <1>6, <1>7, <1>8, <1>9 DEF new

\* The list without its head: what is lost is the head alone.
LEMMA TailKeeps ==
  ASSUME NEW list \in Seq(Event), Sorted(list), list # <<>>
  PROVE  /\ Tail(list) \in Seq(Event) /\ Sorted(Tail(list))
         /\ list[1] \in Event
         /\ \A f : InList(list, f) => f = list[1] \/ InList(Tail(list), f)
         /\ list[1].event # "SAVESHITLIST" /\ OneSave(list) => OneSave(Tail(list))
         /\ list[1].event = "SAVESHITLIST" /\ OneSave(list) =>
              \A i \in 1..Len(Tail(list)) : Tail(list)[i].event # "SAVESHITLIST"
<1> DEFINE rest == Tail(list)
<1>1. /\ rest \in Seq(Event) /\ Len(list) \in Nat /\ Len(list) >= 1
      /\ Len(rest) = Len(list) - 1
      /\ \A i \in 1..Len(rest) : rest[i] = list[i + 1]
  OBVIOUS
<1>2. list[1] \in Event
  BY <1>1
<1> HIDE DEF rest
<1>3. Sorted(rest)
  <2> SUFFICES ASSUME NEW i \in 1..Len(rest), NEW j \in 1..Len(rest), i < j
               PROVE  rest[i].time <= rest[j].time
    BY DEF Sorted
  <2>1. i + 1 \in 1..Len(list) /\ j + 1 \in 1..Len(list) /\ i + 1 < j + 1
    BY <1>1
  <2> QED BY <1>1, <2>1 DEF Sorted
<1>4. ASSUME NEW f, InList(list, f)
      PROVE  f = list[1] \/ InList(rest, f)
  <2>1. PICK i \in 1..Len(list) : list[i] = f
    BY <1>4 DEF InList
  <2>2. CASE i # 1
    <3>1. i - 1 \in 1..Len(rest) /\ (i - 1) + 1 = i
      BY <1>1, <2>2
    <3>2. rest[i - 1] = f
      BY <1>1, <2>1, <3>1
    <3> QED BY <3>1, <3>2 DEF InList
  <2> QED BY <2>1, <2>2
<1>5. ASSUME list[1].event # "SAVESHITLIST", OneSave(list)
      PROVE  OneSave(rest)
  <2>1. PICK s \in 1..Len(list) :
          \A j \in 1..Len(list) : list[j].event = "SAVESHITLIST" <=> s = j
    BY <1>5 DEF OneSave
  <2>2. s # 1
    BY <1>1, <1>5, <2>1
  <2>3. s - 1 \in 1..Len(rest)
    BY <1>1, <2>2
  <2>4. \A j \in 1..Len(rest) : rest[j].event = "SAVESHITLIST" <=> s - 1 = j
    <3> TAKE j \in 1..Len(rest)
    <3>1. j + 1 \in 1..Len(list) /\ rest[j] = list[j + 1]
      BY <1>1
    <3>2. rest[j].event = "SAVESHITLIST" <=> s = j + 1
      BY <2>1, <3>1
    <3> QED BY <3>1, <3>2
  <2> QED BY <2>3, <2>4 DEF OneSave
<1>6. ASSUME list[1].event = "SAVESHITLIST", OneSave(list),
             NEW i \in 1..Len(rest)
      PROVE  rest[i].event # "SAVESHITLIST"
  <2>1. PICK s \in 1..Len(list) :
          \A j \in 1..Len(list) : list[j].event = "SAVESHITLIST" <=> s = j
    BY <1>6 DEF OneSave
  <2>2. 1 \in 1..Len(list) /\ i + 1 \in 1..Len(list) /\ rest[i] = list[i + 1] /\ i + 1 # 1
    BY <1>1
  <2> QED BY <1>6, <2>1, <2>2
<1> QED BY <1>1, <1>2, <1>3, <1>4, <1>5, <1>6 DEF rest

-----------------------------------------------------------------------------
(* The invariant: the list, the ignores and their events, the silences.    *)

ListOK == now \in Nat /\ EventsOK(events)
Scheduled == ignores \in Seq(Ignore) /\ IgnoreScheduled
\* The masks that are ignored were made of clients, or are of their sites.
Known(m) == \E c \in Clients : m = MakeBanMask(c) \/ m = SiteMask(MakeBanMask(c))
\* SilencesAgree, of a list and a set of silences, and that the masks are known.
Agree(list, sil) ==
  /\ sil \subseteq MasksOf(list)
  /\ \A i \in 1..Len(list) :
       list[i].mask.node # Prefix =>
         /\ list[i].mask \in sil
         /\ \A j \in 1..Len(list) : list[j].mask = list[i].mask => i = j
  /\ \A i \in 1..Len(list) : Known(list[i].mask)
Silenced == Agree(ignores, silences)
TInv == ListOK /\ Scheduled /\ Silenced

\* A handler that adds an event of the ban list or of the ignores keeps the
\* list right, and every event that waits.
LEMMA AddOne ==
  ASSUME NEW list, EventsOK(list), NEW e \in Event, e.event # "SAVESHITLIST"
  PROVE  LET new == AddEvent(list, e.event, e.time, e.param)
         IN /\ EventsOK(new) /\ InList(new, e)
            /\ \A f \in Event : InList(list, f) => InList(new, f)
<1>1. list \in Seq(Event) /\ Sorted(list) /\ OneSave(list)
  BY DEF EventsOK
<1> QED BY <1>1, AddKeeps DEF EventsOK

\* The events of the ban list and of the ignores.
LEMMA CleanIsEvent ==
  ASSUME NEW t \in Int, NEW c \in Channels
  PROVE  Entry("CLEANSHITLIST", t, c) \in Event
BY DEF Entry, Event

LEMMA IgnoreIsEvent ==
  ASSUME NEW t \in Int
  PROVE  Entry("CLEAN_IGNORES", t, NoParam) \in Event
BY DEF Entry, Event

LEMMA SaveIsEvent ==
  ASSUME NEW t \in Int
  PROVE  Entry("SAVESHITLIST", t, NoParam) \in Event
BY DEF Entry, Event

\* A ban is added: one event more.
LEMMA AddCleanEvent ==
  ASSUME EventsOK(events), NEW t \in Int, NEW c \in Channels
  PROVE  LET new == AddEvent(events, "CLEANSHITLIST", t, c)
         IN EventsOK(new) /\ \A f \in Event : InList(events, f) => InList(new, f)
<1> DEFINE e == Entry("CLEANSHITLIST", t, c)
<1>1. e \in Event
  BY CleanIsEvent
<1>2. e.event = "CLEANSHITLIST" /\ e.time = t /\ e.param = c
  BY DEF Entry
<1> HIDE DEF e
<1> QED BY <1>1, <1>2, AddOne

\* An ignore is added: one event more, its own.
LEMMA AddIgnoreEvent ==
  ASSUME NEW list, EventsOK(list), NEW t \in Int
  PROVE  LET new == AddEvent(list, "CLEAN_IGNORES", t, NoParam)
         IN /\ EventsOK(new) /\ InList(new, Entry("CLEAN_IGNORES", t, NoParam))
            /\ \A f \in Event : InList(list, f) => InList(new, f)
<1> DEFINE e == Entry("CLEAN_IGNORES", t, NoParam)
<1>1. e \in Event
  BY IgnoreIsEvent
<1>2. e.event = "CLEAN_IGNORES" /\ e.time = t /\ e.param = NoParam
  BY DEF Entry
<1> HIDE DEF e
<1>3. LET new == AddEvent(list, "CLEAN_IGNORES", t, NoParam)
      IN /\ EventsOK(new) /\ InList(new, e)
         /\ \A f \in Event : InList(list, f) => InList(new, f)
  BY <1>1, <1>2, AddOne
<1> QED BY <1>3 DEF e

\* The list of a new process.
LEMMA InitEventOK == ASSUME NEW t \in Nat PROVE EventsOK(InitEvent(t))
<1> DEFINE e == Entry("SAVESHITLIST", t + FirstSave, NoParam)
<1>1. e \in Event /\ e.event = "SAVESHITLIST"
  BY SaveIsEvent, TimesOK DEF Entry
<1>2. InitEvent(t) = <<e>>
  BY DEF InitEvent, Entry
<1> HIDE DEF e
<1>3. <<e>> \in Seq(Event) /\ Len(<<e>>) = 1 /\ <<e>>[1] = e
  BY <1>1
<1>4. Sorted(<<e>>)
  BY <1>3 DEF Sorted
<1>5. OneSave(<<e>>)
  <2>1. \A j \in 1..Len(<<e>>) : <<e>>[j].event = "SAVESHITLIST" <=> 1 = j
    BY <1>1, <1>3
  <2> QED BY <1>3, <2>1 DEF OneSave
<1> QED BY <1>2, <1>3, <1>4, <1>5 DEF EventsOK

\* What an entry of the ignores holds.
LEMMA IgnoreFields ==
  ASSUME NEW list \in Seq(Ignore), NEW i \in 1..Len(list)
  PROVE  list[i].mask \in Mask /\ list[i].time \in Int
<1>1. list[i] \in Ignore
  OBVIOUS
<1> HIDE DEF Mask
<1> QED BY <1>1 DEF Ignore

\* Events that wait on keep the ignores scheduled.
LEMMA StillScheduled ==
  ASSUME Scheduled, UNCHANGED ignores,
         \A f \in Event : InList(events, f) => InList(events', f)
  PROVE  Scheduled'
<1> SUFFICES ASSUME NEW i \in 1..Len(ignores)
             PROVE  InList(events', Entry("CLEAN_IGNORES", ignores[i].time, NoParam))
  BY DEF Scheduled, IgnoreScheduled, Pending, Entry
<1>1. ignores[i].time \in Int
  BY IgnoreFields DEF Scheduled
<1>2. InList(events, Entry("CLEAN_IGNORES", ignores[i].time, NoParam))
  BY DEF Scheduled, IgnoreScheduled, Pending, Entry
<1> QED BY <1>1, <1>2, IgnoreIsEvent

\* Ignores and silences that stay agree as before.
LEMMA StillSilenced == ASSUME Silenced, UNCHANGED ignorevars PROVE Silenced'
BY DEF Silenced, Agree, MasksOf, ignorevars

\* A process that starts has nothing to ignore and its first save to do.
LEMMA StartedOK == ASSUME now' \in Nat, Started(now), now' = now PROVE TInv'
<1>1. ListOK'
  BY InitEventOK DEF Started, ListOK, EventsOK, Sorted, OneSave
<1>2. Scheduled' /\ Silenced'
  BY DEF Started, Scheduled, IgnoreScheduled, Silenced, Agree, MasksOf
<1> QED BY <1>1, <1>2 DEF TInv

-----------------------------------------------------------------------------
(* The ignores.                                                            *)

\* A client whose mask is not of an IPv6 network is found under it, and under its site.
LEMMA OwnIsKnown ==
  ASSUME NEW c \in Clients, MakeBanMask(c).node # Prefix
  PROVE  /\ Compare(Shown[c], MakeBanMask(c)) /\ Compare(Shown[c], SiteMask(MakeBanMask(c)))
         /\ c \notin Hidden => MakeBanMask(c) # SiteMask(MakeBanMask(c))
<1>1. /\ Shown[c] \in Address /\ Real[c] \in Address /\ (c \notin Hidden => Shown[c] = Real[c])
      /\ Star \notin Users
  BY MasksOK
<1>2. PICK u \in Users, n \in Nets, d \in Nodes :
        Shown[c] = [user |-> u, net |-> n, node |-> d]
  BY <1>1, Zenon DEF Address
<1>3. CASE c \in Hidden
  <2>1. MakeBanMask(c) = [user |-> Star, net |-> n, node |-> d]
    BY <1>2, <1>3 DEF MakeBanMask
  <2> QED BY <1>2, <1>3, <2>1 DEF Compare, Alike, SiteMask
<1>4. CASE c \notin Hidden
  <2>a. MakeBanMask(c) = IF Real[c].net \in Long
                         THEN [user |-> Real[c].user, net |-> Groups[c], node |-> Prefix]
                         ELSE [Real[c] EXCEPT !.node = Star]
    BY <1>4 DEF MakeBanMask
  <2>b. [user |-> Real[c].user, net |-> Groups[c], node |-> Prefix].node = Prefix
    OBVIOUS
  <2>c. MakeBanMask(c) = [Real[c] EXCEPT !.node = Star]
    BY <2>a, <2>b, Zenon
  <2>1. MakeBanMask(c) = [user |-> u, net |-> n, node |-> Star]
    BY <1>1, <1>2, <1>4, <2>c
  <2>2. SiteMask(MakeBanMask(c)) = [user |-> Star, net |-> n, node |-> Star]
    BY <2>1 DEF SiteMask
  <2> QED BY <1>1, <1>2, <2>1, <2>2 DEF Compare, Alike
<1> QED BY <1>3, <1>4

\* What is known and names a node is the mask of a hidden client: it leaves the user open.
LEMMA NodeIsHidden ==
  ASSUME NEW m, Known(m), m.node \in Nodes
  PROVE  m = SiteMask(m)
<1>1. PICK c \in Clients : m = MakeBanMask(c) \/ m = SiteMask(MakeBanMask(c))
  BY DEF Known
<1>2. Real[c] \in Address /\ Shown[c] \in Address /\ Star \notin Nodes /\ Prefix \notin Nodes
  BY MasksOK
<1>3. PICK u \in Users, n \in Nets, d \in Nodes : Real[c] = [user |-> u, net |-> n, node |-> d]
  BY <1>2 DEF Address
<1>4. PICK v \in Users, k \in Nets, e \in Nodes : Shown[c] = [user |-> v, net |-> k, node |-> e]
  BY <1>2 DEF Address
<1>5. CASE c \in Hidden
  <2>1. MakeBanMask(c) = [user |-> Star, net |-> k, node |-> e]
    BY <1>4, <1>5 DEF MakeBanMask
  <2> QED BY <1>1, <2>1 DEF SiteMask
<1>6. CASE c \notin Hidden
  <2>1. \/ MakeBanMask(c) = [user |-> u, net |-> Groups[c], node |-> Prefix]
        \/ MakeBanMask(c) = [user |-> u, net |-> n, node |-> Star]
    BY <1>3, <1>6 DEF MakeBanMask
  <2>2. MakeBanMask(c).node \notin Nodes /\ SiteMask(MakeBanMask(c)).node \notin Nodes
    BY <1>2, <2>1 DEF SiteMask
  <2> QED BY <1>1, <2>2
<1> QED BY <1>5, <1>6

\* The site of what is made of a client is a mask; its node is that of the mask.
LEMMA SiteIsMask ==
  ASSUME NEW m \in Mask
  PROVE  /\ SiteMask(m) \in Mask /\ SiteMask(m).node = m.node
         /\ SiteMask(SiteMask(m)) = SiteMask(m)
<1>1. PICK u \in Users \cup {Star}, n \in Nets \cup {Star}, d \in Nodes \cup {Star, Prefix} :
        m = [user |-> u, net |-> n, node |-> d]
  BY DEF Mask
<1>2. SiteMask(m) = [user |-> Star, net |-> n, node |-> d]
  BY <1>1 DEF SiteMask
<1>3. SiteMask(SiteMask(m)) = [user |-> Star, net |-> n, node |-> d]
  BY <1>2 DEF SiteMask
<1> QED BY <1>1, <1>2, <1>3 DEF Mask

\* What IsIgnored finds.
LEMMA FirstIgnore ==
  ASSUME ignores \in Seq(Ignore), NEW c
  PROVE  IF IsIgnored(c) THEN FindIgnore(c) \in 1..Len(ignores)
         ELSE \A i \in 1..Len(ignores) : ~Compare(Shown[c], ignores[i].mask)
<1> DEFINE T == {i \in 1..Len(ignores) : \/ Compare(Real[c], ignores[i].mask)
                                         \/ Compare(Shown[c], ignores[i].mask)}
<1>1. FindIgnore(c) = IF T # {} THEN Min(T) ELSE 0
  BY DEF FindIgnore, SelectInSeq
<1>2. Len(ignores) \in Nat /\ T \in SUBSET Nat /\ T \subseteq 1..Len(ignores)
  OBVIOUS
<1>3. (\E i \in 1..Len(ignores) : Compare(Shown[c], ignores[i].mask)) => T # {}
  OBVIOUS
<1> HIDE DEF T
<1>4. T # {} => Min(T) \in 1..Len(ignores)
  <2>1. T # {} => Min(T) \in T
    BY <1>2, MinIsFirst
  <2> QED BY <1>2, <2>1
<1>5. 0 \notin 1..Len(ignores)
  BY <1>2
<1> QED BY <1>1, <1>3, <1>4, <1>5, Zenon DEF IsIgnored

\* Entries that go take no silence that others want; those that stay are as before.
LEMMA ThinnedKeeps ==
  ASSUME ignores \in Seq(Ignore), Silenced, NEW over \in SUBSET (1..Len(ignores)),
         Thinned(over)
  PROVE  /\ ignores' \in Seq(Ignore) /\ Silenced'
         /\ \A k \in 1..Len(ignores') :
              \E i \in 1..Len(ignores) : i \notin over /\ ignores'[k] = ignores[i]
         /\ \A i \in (1..Len(ignores)) \ over :
              \E k \in 1..Len(ignores') : ignores'[k] = ignores[i]
<1> DEFINE I == (1..Len(ignores)) \ over
           new == Kept(ignores, I)
<1>1. ignores' = new /\ silences' = silences \ {ignores[i].mask : i \in over}
  BY DEF Thinned
<1>2. new \in Seq(Ignore) /\ \E place : Placed(new, ignores, I, place, Len(ignores))
  BY KeptShape
<1> HIDE DEF new
<1>3. PICK place : Placed(new, ignores, I, place, Len(ignores))
  BY <1>2
<1>4. \A k \in 1..Len(new) :
        /\ place[k] \in 1..Len(ignores) /\ place[k] \notin over
        /\ new[k] = ignores[place[k]]
  BY <1>3 DEF Placed
<1>5. \A i \in 1..Len(ignores) : i \notin over => \E k \in 1..Len(new) : place[k] = i
  BY <1>3 DEF Placed
<1>6. silences' \subseteq MasksOf(new)
  <2> SUFFICES ASSUME NEW m \in silences, \A i \in over : ignores[i].mask # m
               PROVE  \E k \in 1..Len(new) : new[k].mask = m
    BY <1>1, Zenon DEF MasksOf
  <2>1. PICK i \in 1..Len(ignores) : ignores[i].mask = m
    BY DEF Silenced, Agree, MasksOf
  <2>2. PICK k \in 1..Len(new) : place[k] = i
    BY <1>5, <2>1
  <2> QED BY <1>4, <2>1, <2>2
<1>7. ASSUME NEW k \in 1..Len(new), new[k].mask.node # Prefix
      PROVE  /\ new[k].mask \in silences'
             /\ \A l \in 1..Len(new) : new[l].mask = new[k].mask => k = l
  <2>1. /\ ignores[place[k]].mask \in silences
        /\ \A j \in 1..Len(ignores) : ignores[j].mask = ignores[place[k]].mask => place[k] = j
    BY <1>4, <1>7 DEF Silenced, Agree
  <2>2. \A i \in over : i \in 1..Len(ignores) => ignores[i].mask # new[k].mask
    BY <1>4, <2>1
  <2>3. ASSUME NEW l \in 1..Len(new), new[l].mask = new[k].mask PROVE k = l
    <3>1. place[l] = place[k]
      BY <1>4, <2>1, <2>3
    <3>2. ~ (place[k] < place[l]) /\ ~ (place[l] < place[k])
      BY <1>4, <3>1
    <3>3. ~ (k < l) /\ ~ (l < k)
      BY <1>3, <3>2, Zenon DEF Placed
    <3>4. Len(new) \in Nat
      BY <1>2
    <3> QED BY <3>3, <3>4
  <2>4. new[k].mask \in silences /\ \A i \in over : i \in 1..Len(ignores) =>
                                                 ignores[i].mask # new[k].mask
    BY <1>4, <2>1, <2>2
  <2>5. over \subseteq 1..Len(ignores)
    OBVIOUS
  <2>6. new[k].mask \in silences'
    BY <1>1, <2>4, <2>5, Zenon
  <2> QED BY <2>3, <2>6
<1>8. \A k \in 1..Len(new) : Known(new[k].mask)
  BY <1>4 DEF Silenced, Agree
<1>9. Silenced'
  BY <1>1, <1>6, <1>7, <1>8 DEF Silenced, Agree, MasksOf
<1>10. ignores' \in Seq(Ignore)
  BY <1>1, <1>2
<1>11. \A k \in 1..Len(ignores') :
         \E i \in 1..Len(ignores) : i \notin over /\ ignores'[k] = ignores[i]
  BY <1>1, <1>4
<1>12. \A i \in (1..Len(ignores)) \ over :
         \E k \in 1..Len(ignores') : ignores'[k] = ignores[i]
  BY <1>1, <1>4, <1>5
<1> QED BY <1>9, <1>10, <1>11, <1>12

\* An entry put in front of the list, with a mask that is not there or is of an IPv6 network.
LEMMA PutInFront ==
  ASSUME NEW list \in Seq(Ignore), NEW sil, Agree(list, sil), NEW e \in Ignore, Known(e.mask),
         e.mask.node # Prefix => \A i \in 1..Len(list) : list[i].mask # e.mask
  PROVE  LET new == <<e>> \o list
         IN /\ new \in Seq(Ignore) /\ Agree(new, sil \cup {e.mask})
            /\ \A k \in 1..Len(new) : new[k] = e \/ \E i \in 1..Len(list) : new[k] = list[i]
<1> DEFINE new == <<e>> \o list
<1>1. /\ new \in Seq(Ignore) /\ Len(new) = Len(list) + 1 /\ new[1] = e
      /\ \A k \in 1..Len(list) : new[k + 1] = list[k]
  OBVIOUS
<1> HIDE DEF new
<1>2. Len(list) \in Nat
  OBVIOUS
<1>3. \A k \in 1..Len(new) :
        \/ k = 1 /\ new[k] = e
        \/ k # 1 /\ k - 1 \in 1..Len(list) /\ new[k] = list[k - 1]
  <2> TAKE k \in 1..Len(new)
  <2>1. CASE k # 1
    <3>1. k - 1 \in 1..Len(list) /\ (k - 1) + 1 = k
      BY <1>1, <1>2, <2>1
    <3> QED BY <1>1, <2>1, <3>1
  <2> QED BY <1>1, <2>1
<1>4. sil \cup {e.mask} \subseteq MasksOf(new)
  <2>1. 1 \in 1..Len(new) /\ \A k \in 1..Len(list) : k + 1 \in 1..Len(new)
    BY <1>1, <1>2
  <2> QED BY <1>1, <2>1 DEF Agree, MasksOf
<1>5. ASSUME NEW k \in 1..Len(new), new[k].mask.node # Prefix
      PROVE  /\ new[k].mask \in sil \cup {e.mask}
             /\ \A l \in 1..Len(new) : new[l].mask = new[k].mask => k = l
  <2>1. CASE k = 1
    <3>1. \A i \in 1..Len(list) : list[i].mask # new[k].mask
      BY <1>1, <1>5, <2>1
    <3> QED BY <1>1, <1>3, <2>1, <3>1
  <2>2. CASE k # 1
    <3>1. k - 1 \in 1..Len(list) /\ new[k] = list[k - 1]
      BY <1>3, <2>2
    <3>2. /\ list[k - 1].mask \in sil
          /\ \A j \in 1..Len(list) : list[j].mask = list[k - 1].mask => k - 1 = j
      BY <1>5, <3>1 DEF Agree
    <3>3. ASSUME NEW l \in 1..Len(new), new[l].mask = new[k].mask PROVE k = l
      <4>1. CASE l = 1
        <5>1. e.mask = list[k - 1].mask
          BY <1>3, <3>1, <3>3, <4>1
        <5> QED BY <1>5, <3>1, <5>1
      <4>2. CASE l # 1
        <5>1. l - 1 \in 1..Len(list) /\ new[l] = list[l - 1]
          BY <1>3, <4>2
        <5>2. k - 1 = l - 1
          BY <3>1, <3>2, <3>3, <5>1
        <5> QED BY <5>2
      <4> QED BY <4>1, <4>2
    <3> QED BY <3>1, <3>2, <3>3
  <2> QED BY <2>1, <2>2
<1>6. \A k \in 1..Len(new) : Known(new[k].mask)
  BY <1>3 DEF Agree
<1>7. Agree(new, sil \cup {e.mask})
  BY <1>4, <1>5, <1>6 DEF Agree
<1> QED BY <1>1, <1>3, <1>7 DEF new

-----------------------------------------------------------------------------
(* The steps.                                                              *)

\* The handlers of the ban list and the clock: at most one event more.
LEMMA BanHandlersKeep ==
  ASSUME TInv, BanHandlers, UNCHANGED ignorevars
  PROVE  TInv'
<1> USE DEF Handler
<1>1. EventsOK(events) /\ now \in Nat /\ Scheduled /\ Silenced
  BY DEF TInv, ListOK
<1>2. ASSUME NEW t \in Int, NEW c \in Channels, now' = now,
             events' = AddEvent(events, "CLEANSHITLIST", t, c)
      PROVE  TInv'
  <2>1. EventsOK(events') /\ \A f \in Event : InList(events, f) => InList(events', f)
    BY <1>1, <1>2, AddCleanEvent
  <2>2. Scheduled'
    BY <1>1, <2>1, StillScheduled DEF ignorevars
  <2>3. Silenced'
    BY <1>1, StillSilenced
  <2> QED BY <1>1, <1>2, <2>1, <2>2, <2>3 DEF TInv, ListOK, EventsOK, Sorted, OneSave
<1>3. ASSUME now' = now, UNCHANGED events
      PROVE  TInv'
  BY <1>1, <1>3, StillSilenced DEF ignorevars, TInv, ListOK, EventsOK, Sorted, OneSave,
                                   Scheduled, IgnoreScheduled, Pending, InList
<1>4. ASSUME NEW c \in Channels, NEW typed \in Typed, NEW hours \in Hours,
             NEW level \in Levels, NEW access \in Accesses,
             AddToShitList(c, typed, hours, level, access)
      PROVE  TInv'
  <2>1. now + hours \in Int
    BY <1>1, BansOK
  <2> QED BY <1>2, <1>4, <2>1 DEF AddToShitList, Added
<1>5. ASSUME NEW c \in Channels, NEW x \in Flooders, CheckFlood(c, x)
      PROVE  TInv'
  <2>1. now + FloodTime \in Int
    BY <1>1, BansOK
  <2> QED BY <1>2, <1>5, <2>1 DEF CheckFlood, Added
<1>6. ASSUME NEW c \in Channels, NEW x \in Deopers, MassDeop(c, x)
      PROVE  TInv'
  <2>1. now + DeopTime \in Int
    BY <1>1, BansOK
  <2> QED BY <1>2, <1>6, <2>1 DEF MassDeop, Added
<1>7. ASSUME NEW c \in Channels, NEW typed \in Typed, NEW access \in Accesses,
             RemShitList(c, typed, access)
      PROVE  TInv'
  BY <1>3, <1>7 DEF RemShitList
<1>8. ASSUME NEW c \in Channels, CleanCommand(c) \/ ChannelComes(c) \/ ChannelGoes(c)
      PROVE  TInv'
  BY <1>3, <1>8 DEF CleanCommand, ChannelComes, ChannelGoes
<1>9. ASSUME LoadCommand \/ SaveCommand
      PROVE  TInv'
  BY <1>3, <1>9 DEF LoadCommand, SaveCommand
<1> QED BY <1>4, <1>5, <1>6, <1>7, <1>8, <1>9 DEF BanHandlers

\* A client is ignored: its entry, and that of its site, get their events.
LEMMA AddIgnoreKeeps ==
  ASSUME TInv, NEW c \in Clients, NEW t \in IgnoreTimes, AddIgnore(c, t)
  PROVE  TInv'
<1>1. /\ EventsOK(events) /\ now \in Nat /\ Scheduled /\ Agree(ignores, silences)
      /\ ignores \in Seq(Ignore)
  BY DEF TInv, ListOK, Silenced, Scheduled
<1> DEFINE m == MakeBanMask(c)
           w == SiteMask(m)
           own == Own(c, t)
           whole == Whole(c)
           one == <<own>> \o ignores
           two == <<whole>> \o one
           sil == silences \cup {m}
           once == AddEvent(events, "CLEAN_IGNORES", now + t, NoParam)
           twice == AddEvent(once, "CLEAN_IGNORES", now + SiteTime, NoParam)
<1>2. /\ now' = now /\ ~IsIgnored(c)
      /\ ignores' = (IF Crowded(c) THEN two ELSE one)
      /\ silences' = silences \cup ({m} \cup IF Crowded(c) THEN {w} ELSE {})
      /\ events' = IF Crowded(c) THEN twice ELSE once
  BY DEF AddIgnore, Handler, Grown, Asked
<1>3. now + t \in Int /\ now + SiteTime \in Int
  BY <1>1, IgnoresOK
<1>4. m \in Mask /\ w \in Mask /\ w.node = m.node /\ SiteMask(w) = w /\ Known(m) /\ Known(w)
  BY MadeIsMask, SiteIsMask DEF Known
<1>5. /\ own \in Ignore /\ own.mask = m /\ own.time = now + t
      /\ whole \in Ignore /\ whole.mask = w /\ whole.time = now + SiteTime
  <2>1. own = [mask |-> m, time |-> now + t] /\ whole = [mask |-> w, time |-> now + SiteTime]
    BY DEF Own, Whole
  <2> HIDE DEF m, w, own, whole
  <2> QED BY <1>3, <1>4, <2>1 DEF Ignore
<1>6. /\ EventsOK(once) /\ InList(once, Entry("CLEAN_IGNORES", now + t, NoParam))
      /\ \A f \in Event : InList(events, f) => InList(once, f)
  BY <1>1, <1>3, AddIgnoreEvent
<1>7. /\ EventsOK(twice) /\ InList(twice, Entry("CLEAN_IGNORES", now + SiteTime, NoParam))
      /\ \A f \in Event : InList(once, f) => InList(twice, f)
  <2> HIDE DEF once
  <2> QED BY <1>3, <1>6, AddIgnoreEvent
<1>8. m.node # Prefix =>
        /\ \A i \in 1..Len(ignores) : ignores[i].mask # m /\ ignores[i].mask # w
        /\ c \notin Hidden => m # w
  <2> SUFFICES ASSUME m.node # Prefix
               PROVE  /\ \A i \in 1..Len(ignores) : ignores[i].mask # m /\ ignores[i].mask # w
                      /\ c \notin Hidden => m # w
    OBVIOUS
  <2>1. Compare(Shown[c], m) /\ Compare(Shown[c], w) /\ (c \notin Hidden => m # w)
    BY OwnIsKnown
  <2>2. \A i \in 1..Len(ignores) : ~Compare(Shown[c], ignores[i].mask)
    BY <1>1, <1>2, FirstIgnore, Zenon
  <2> HIDE DEF m, w
  <2> QED BY <2>1, <2>2
\* The site of a hidden client, whose own mask it is, is not crowded.
<1>9. Crowded(c) /\ c \in Hidden => m.node = Prefix
  <2> SUFFICES ASSUME Crowded(c), c \in Hidden, m.node # Prefix PROVE FALSE
    OBVIOUS
  <2> DEFINE I == {i \in 1..Len(ignores) : SiteMask(ignores[i].mask) = w}
  <2>1. Cardinality(I) >= MaxPerSite - 1
    BY DEF Crowded
  <2>a. MaxPerSite - 1 \in Nat /\ ~ (0 >= MaxPerSite - 1)
    BY IgnoresOK
  <2>2. I # {}
    <3> HIDE DEF I
    <3>1. Cardinality({}) = 0
      BY FS_EmptySet, Zenon
    <3> QED BY <2>1, <2>a, <3>1
  <2>3. PICK i \in 1..Len(ignores) : SiteMask(ignores[i].mask) = w
    BY <2>2
  <2>4. m.node \in Nodes
    BY MasksOK DEF MakeBanMask, Address
  <2> HIDE DEF m, w
  <2>5. ignores[i].mask \in Mask /\ Known(ignores[i].mask)
    BY <1>1, IgnoreFields DEF Agree
  <2>6. SiteMask(ignores[i].mask).node = ignores[i].mask.node
    BY <2>5, SiteIsMask
  <2>7. ignores[i].mask.node \in Nodes
    BY <1>4, <2>3, <2>4, <2>6
  <2>8. ignores[i].mask = w
    BY <2>3, <2>5, <2>7, NodeIsHidden
  <2> QED BY <1>8, <2>8
<1> HIDE DEF m, w, own, whole, once, twice
<1>10. /\ EventsOK(events') /\ \A f \in Event : InList(events, f) => InList(events', f)
       /\ InList(events', Entry("CLEAN_IGNORES", own.time, NoParam))
       /\ Crowded(c) => InList(events', Entry("CLEAN_IGNORES", whole.time, NoParam))
  <2>1. Entry("CLEAN_IGNORES", now + t, NoParam) \in Event
    BY <1>3, IgnoreIsEvent
  <2>2. CASE Crowded(c)
    BY <1>2, <1>5, <1>6, <1>7, <2>1, <2>2
  <2>3. CASE ~Crowded(c)
    BY <1>2, <1>5, <1>6, <2>3
  <2> QED BY <2>2, <2>3
<1>11. /\ one \in Seq(Ignore) /\ Agree(one, sil)
       /\ \A k \in 1..Len(one) : one[k] = own \/ \E i \in 1..Len(ignores) : one[k] = ignores[i]
  BY <1>1, <1>4, <1>5, <1>8, PutInFront
<1> HIDE DEF one, sil
<1>12. ASSUME Crowded(c)
       PROVE  /\ two \in Seq(Ignore) /\ Agree(two, sil \cup {w})
              /\ \A k \in 1..Len(two) : two[k] = whole \/ \E i \in 1..Len(one) : two[k] = one[i]
  <2>1. w.node # Prefix => \A i \in 1..Len(one) : one[i].mask # w
    BY <1>4, <1>5, <1>8, <1>9, <1>11, <1>12
  <2> QED BY <1>4, <1>5, <1>11, <2>1, PutInFront
<1> HIDE DEF two
<1>13. ignores' \in Seq(Ignore) /\ Silenced'
  <2>1. CASE Crowded(c)
    <3>1. silences' = sil \cup {w} /\ ignores' = two
      BY <1>2, <2>1 DEF sil
    <3> QED BY <1>12, <2>1, <3>1 DEF Silenced, Agree, MasksOf
  <2>2. CASE ~Crowded(c)
    <3>1. silences' = sil /\ ignores' = one
      BY <1>2, <2>2 DEF sil
    <3> QED BY <1>11, <3>1 DEF Silenced, Agree, MasksOf
  <2> QED BY <2>1, <2>2
<1>14. \A k \in 1..Len(ignores') :
         \/ \E i \in 1..Len(ignores) : ignores'[k] = ignores[i]
         \/ ignores'[k] = own
         \/ Crowded(c) /\ ignores'[k] = whole
  BY <1>2, <1>11, <1>12
<1>15. Scheduled'
  <2>1. ASSUME NEW k \in 1..Len(ignores')
        PROVE  InList(events', Entry("CLEAN_IGNORES", ignores'[k].time, NoParam))
    <3>1. ASSUME NEW i \in 1..Len(ignores), ignores'[k] = ignores[i]
          PROVE  InList(events', Entry("CLEAN_IGNORES", ignores'[k].time, NoParam))
      <4>1. /\ InList(events, Entry("CLEAN_IGNORES", ignores[i].time, NoParam))
            /\ ignores[i].time \in Int
        BY <1>1, IgnoreFields DEF Scheduled, IgnoreScheduled, Pending, Entry
      <4> QED BY <1>10, <3>1, <4>1, IgnoreIsEvent
    <3> QED BY <1>10, <1>14, <3>1
  <2> QED BY <1>13, <2>1 DEF Scheduled, IgnoreScheduled, Pending, Entry
<1> QED BY <1>1, <1>2, <1>10, <1>13, <1>15 DEF TInv, ListOK, EventsOK, Sorted, OneSave

\* A client that is ignored is silenced again: its mask is in the list.
LEMMA SilenceAgainKeeps ==
  ASSUME TInv, NEW c, SilenceAgain(c)
  PROVE  TInv'
<1>1. /\ EventsOK(events) /\ now \in Nat /\ Scheduled /\ Agree(ignores, silences)
      /\ ignores \in Seq(Ignore)
  BY DEF TInv, ListOK, Silenced, Scheduled
<1>2. /\ now' = now /\ IsIgnored(c) /\ UNCHANGED <<ignores, events>>
      /\ silences' = silences \cup {ignores[FindIgnore(c)].mask}
  BY DEF SilenceAgain, Handler
<1>3. FindIgnore(c) \in 1..Len(ignores)
  BY <1>1, <1>2, FirstIgnore, Zenon
<1>4. Silenced'
  BY <1>1, <1>2, <1>3 DEF Silenced, Agree, MasksOf
<1>5. ListOK' /\ Scheduled'
  BY <1>1, <1>2 DEF ListOK, EventsOK, Sorted, OneSave, Scheduled, IgnoreScheduled, Pending, InList
<1> QED BY <1>4, <1>5 DEF TInv

\* An administrator takes ignores off: what is left is still scheduled.
LEMMA RemoveKeeps ==
  ASSUME TInv, NEW masks, AdminRemoveIgnore(masks)
  PROVE  TInv'
<1>1. /\ EventsOK(events) /\ now \in Nat /\ Scheduled /\ Silenced
      /\ ignores \in Seq(Ignore)
  BY DEF TInv, ListOK, Scheduled
<1> DEFINE over == {i \in 1..Len(ignores) : ignores[i].mask \in masks}
<1>2. now' = now /\ events' = events /\ Thinned(over)
  BY DEF AdminRemoveIgnore, Handler
<1>3. ListOK'
  BY <1>1, <1>2 DEF ListOK, EventsOK, Sorted, OneSave
<1>6. over \in SUBSET (1..Len(ignores))
  OBVIOUS
<1> HIDE DEF over
<1>4. /\ ignores' \in Seq(Ignore) /\ Silenced'
      /\ \A k \in 1..Len(ignores') :
           \E i \in 1..Len(ignores) : i \notin over /\ ignores'[k] = ignores[i]
  BY <1>1, <1>2, <1>6, ThinnedKeeps
<1>5. Scheduled'
  BY <1>1, <1>2, <1>4 DEF Scheduled, IgnoreScheduled, Pending, InList
<1> QED BY <1>3, <1>4, <1>5 DEF TInv

\* CheckEvent: the head goes, and with it only ignores that are over.
LEMMA CheckEventKeeps ==
  ASSUME TInv, CheckEvent
  PROVE  TInv'
<1>1. /\ EventsOK(events) /\ now \in Nat /\ Scheduled /\ Silenced
      /\ events \in Seq(Event) /\ Sorted(events) /\ OneSave(events)
  BY DEF TInv, ListOK, EventsOK
<1>2. events # <<>> /\ events[1].time <= now /\ now' = now
  BY DEF CheckEvent, BanEvents, SaveEvent, CleanEvent, IgnoreEvent, Pop, Due
<1> DEFINE rest == Tail(events)
<1>3. /\ rest \in Seq(Event) /\ Sorted(rest) /\ events[1] \in Event
      /\ \A f : InList(events, f) => f = events[1] \/ InList(rest, f)
      /\ events[1].event # "SAVESHITLIST" => OneSave(rest)
      /\ events[1].event = "SAVESHITLIST" =>
           \A i \in 1..Len(rest) : rest[i].event # "SAVESHITLIST"
  BY <1>1, <1>2, TailKeeps
<1> HIDE DEF rest
<1>4. CASE SaveEvent /\ UNCHANGED ignorevars
  <2> DEFINE e == Entry("SAVESHITLIST", now + SaveFreq, NoParam)
  <2>1. e \in Event /\ e.event = "SAVESHITLIST" /\ e.time = now + SaveFreq /\ e.param = NoParam
    BY <1>1, TimesOK, SaveIsEvent DEF Entry
  <2>2. /\ events[1].event = "SAVESHITLIST"
        /\ events' = AddEvent(rest, e.event, e.time, e.param)
    BY <1>4, <2>1 DEF SaveEvent, Pop, Rest, rest
  <2> HIDE DEF e
  <2>3. /\ events' \in Seq(Event) /\ Sorted(events') /\ OneSave(events')
        /\ \A f \in Event : InList(rest, f) => InList(events', f)
    BY <1>3, <2>1, <2>2, AddKeeps
  <2>4. \A i \in 1..Len(ignores) :
          InList(events', Entry("CLEAN_IGNORES", ignores[i].time, NoParam))
    <3> TAKE i \in 1..Len(ignores)
    <3>1. /\ InList(events, Entry("CLEAN_IGNORES", ignores[i].time, NoParam))
          /\ Entry("CLEAN_IGNORES", ignores[i].time, NoParam) \in Event
          /\ Entry("CLEAN_IGNORES", ignores[i].time, NoParam).event # "SAVESHITLIST"
      <4>1. ignores[i].time \in Int
        BY <1>1, IgnoreFields DEF Scheduled
      <4> QED BY <1>1, <4>1, IgnoreIsEvent DEF Scheduled, IgnoreScheduled, Pending, Entry
    <3> QED BY <1>3, <2>2, <2>3, <3>1
  <2>5. ListOK' /\ Scheduled'
    BY <1>1, <1>2, <1>4, <2>3, <2>4
       DEF ListOK, EventsOK, Sorted, OneSave, Scheduled, IgnoreScheduled, Pending, Entry,
           ignorevars
  <2>6. Silenced'
    BY <1>1, <1>4, StillSilenced
  <2> QED BY <2>5, <2>6 DEF TInv
<1>5. CASE CleanEvent /\ UNCHANGED ignorevars
  <2>1. events[1].event = "CLEANSHITLIST" /\ events' = rest
    BY <1>5 DEF CleanEvent, Pop, Rest, rest
  <2>2. \A i \in 1..Len(ignores) :
          InList(events', Entry("CLEAN_IGNORES", ignores[i].time, NoParam))
    <3> TAKE i \in 1..Len(ignores)
    <3>1. /\ InList(events, Entry("CLEAN_IGNORES", ignores[i].time, NoParam))
          /\ Entry("CLEAN_IGNORES", ignores[i].time, NoParam).event # "CLEANSHITLIST"
      BY <1>1 DEF Scheduled, IgnoreScheduled, Pending, Entry
    <3> QED BY <1>3, <2>1, <3>1
  <2>3. ListOK' /\ Scheduled'
    BY <1>1, <1>2, <1>3, <1>5, <2>1, <2>2
       DEF ListOK, EventsOK, Sorted, OneSave, Scheduled, IgnoreScheduled, Pending, Entry,
           ignorevars
  <2>4. Silenced'
    BY <1>1, <1>5, StillSilenced
  <2> QED BY <2>3, <2>4 DEF TInv
<1>6. CASE IgnoreEvent
  <2> DEFINE over == {i \in 1..Len(ignores) : ignores[i].time <= now}
  <2>1. events[1].event = "CLEAN_IGNORES" /\ events' = rest /\ Thinned(over)
    BY <1>6 DEF IgnoreEvent, CleanIgnores, Pop, Rest, rest
  <2>2. \A i \in 1..Len(ignores) : i \notin over => ~ (ignores[i].time <= now)
    OBVIOUS
  <2>7. over \in SUBSET (1..Len(ignores))
    OBVIOUS
  <2> HIDE DEF over
  <2>3. /\ ignores' \in Seq(Ignore) /\ Silenced'
        /\ \A k \in 1..Len(ignores') :
             \E i \in 1..Len(ignores) : i \notin over /\ ignores'[k] = ignores[i]
    BY <1>1, <2>1, <2>7, ThinnedKeeps DEF Scheduled
  <2>4. \A k \in 1..Len(ignores') :
          InList(events', Entry("CLEAN_IGNORES", ignores'[k].time, NoParam))
    <3> TAKE k \in 1..Len(ignores')
    <3>1. PICK i \in 1..Len(ignores) : i \notin over /\ ignores'[k] = ignores[i]
      BY <2>3
    <3>2. /\ InList(events, Entry("CLEAN_IGNORES", ignores[i].time, NoParam))
          /\ Entry("CLEAN_IGNORES", ignores[i].time, NoParam).time = ignores[i].time
      BY <1>1 DEF Scheduled, IgnoreScheduled, Pending, Entry
    <3>3. Entry("CLEAN_IGNORES", ignores[i].time, NoParam) # events[1]
      BY <1>2, <2>2, <3>1, <3>2
    <3> QED BY <1>3, <2>1, <3>1, <3>2, <3>3
  <2>5. ListOK' /\ Scheduled'
    BY <1>1, <1>2, <1>3, <2>1, <2>3, <2>4
       DEF ListOK, EventsOK, Sorted, OneSave, Scheduled, IgnoreScheduled, Pending, Entry
  <2> QED BY <2>3, <2>5 DEF TInv
<1> QED BY <1>4, <1>5, <1>6 DEF CheckEvent, BanEvents

\* Every step of the service keeps the invariant.
THEOREM TimersNext == TInv /\ [Next]_vars => TInv'
<1> SUFFICES ASSUME TInv, [Next]_vars PROVE TInv'
  OBVIOUS
<1>1. now \in Nat
  BY DEF TInv, ListOK
<1>2. CASE Tick /\ UNCHANGED <<banvars, ignorevars>>
  <2>1. now' \in Nat /\ events' = events /\ ignores' = ignores /\ silences' = silences
    BY <1>1, <1>2 DEF Tick, ignorevars
  <2>2. ListOK'
    BY <2>1 DEF TInv, ListOK, EventsOK, Sorted, OneSave
  <2>3. Scheduled'
    BY <2>1 DEF TInv, Scheduled, IgnoreScheduled, Pending, InList
  <2>4. Silenced'
    BY <1>2, StillSilenced DEF TInv
  <2> QED BY <2>2, <2>3, <2>4 DEF TInv
<1>3. CASE BanHandlers /\ UNCHANGED ignorevars
  BY <1>3, BanHandlersKeep
<1>4. CASE IgnoreHandlers /\ UNCHANGED banvars
  BY <1>4, AddIgnoreKeeps, SilenceAgainKeeps, RemoveKeeps DEF IgnoreHandlers
<1>5. CASE CheckEvent
  BY <1>5, CheckEventKeeps
<1>6. CASE quit \/ Crash
  BY <1>1, <1>6, StartedOK DEF quit, Crash, Handler
<1>7. CASE UNCHANGED vars
  BY <1>7, StillSilenced DEF vars, ignorevars, TInv, ListOK, EventsOK, Sorted, OneSave,
                             Scheduled, IgnoreScheduled, Pending, InList
<1> QED BY <1>2, <1>3, <1>4, <1>5, <1>6, <1>7 DEF Next

\* The invariant holds in every behaviour.
THEOREM TimersInvariance == Spec => []TInv
<1>1. Init => TInv
  BY InitEventOK
     DEF Init, TInv, ListOK, Scheduled, IgnoreScheduled, Silenced, Agree, MasksOf
<1> QED BY <1>1, TimersNext, PTL DEF Spec

-----------------------------------------------------------------------------
(* The ban list.                                                           *)

\* Has the removal of ban b its event?
Waits(list, b) == InList(list, Entry("CLEANSHITLIST", b.expiration, b.channel))

\* The bans of a bucket wait for their removal, or they were read from the file.
AllWait(bucket, list, marks) ==
  \A k \in 1..Len(bucket) : Waits(list, bucket[k]) \/ Mark(bucket[k]) \in marks

Marks == [channel : Channels, match : Mask, expiration : Int]
Lists == Bucket(shitlist) /\ Bucket(disk) /\ chans \subseteq Channels /\ loaded \subseteq Marks
BInv == Lists /\ AllWait(shitlist, events, loaded)

\* The level of a client is one of a ban, or none.
LEMMA LevelRange ==
  ASSUME NEW list, Bucket(list), NEW channel, NEW client
  PROVE  IsShit(list, channel, client) \in 0..1000
<1> DEFINE i == FindShit(list, channel, client)
<1>1. i = 0 \/ i \in 1..Len(list)
  BY FirstFound, Zenon
<1>2. IsShit(list, channel, client) = IF i = 0 THEN 0 ELSE list[i].level
  BY DEF IsShit
<1> HIDE DEF i
<1>3. i # 0 => list[i] \in Standing
  BY <1>1 DEF Bucket
<1> QED BY <1>2, <1>3 DEF Standing, Ban

\* A ban whose event waits, or that was read, when bans and marks stay.
LEMMA BansStay ==
  ASSUME BInv, UNCHANGED <<shitlist, loaded>>, Bucket(disk'), chans' \subseteq Channels,
         \A f \in Event : f.event = "CLEANSHITLIST" /\ InList(events, f) => InList(events', f)
  PROVE  BInv'
<1>1. Lists'
  BY DEF BInv, Lists
<1>2. ASSUME NEW k \in 1..Len(shitlist), Waits(events, shitlist[k])
      PROVE  Waits(events', shitlist[k])
  <2> DEFINE e == Entry("CLEANSHITLIST", shitlist[k].expiration, shitlist[k].channel)
  <2>1. shitlist[k] \in Standing
    BY DEF BInv, Lists, Bucket
  <2>2. e \in Event /\ e.event = "CLEANSHITLIST"
    BY <2>1, CleanIsEvent DEF Standing, Ban, Entry
  <2> QED BY <1>2, <2>2 DEF Waits
<1>3. AllWait(shitlist', events', loaded')
  BY <1>2 DEF BInv, AllWait
<1> QED BY <1>1, <1>3 DEF BInv

\* Bans of which each is one of the list, its event still there.
LEMMA FewerBans ==
  ASSUME BInv, UNCHANGED <<disk, chans, loaded>>, Bucket(shitlist'),
         \A k \in 1..Len(shitlist') : \E i \in 1..Len(shitlist) :
           /\ shitlist'[k] = shitlist[i]
           /\ Waits(events, shitlist[i]) => Waits(events', shitlist[i])
  PROVE  BInv'
<1>1. Lists'
  BY DEF BInv, Lists
<1>2. AllWait(shitlist', events', loaded')
  BY DEF BInv, AllWait
<1> QED BY <1>1, <1>2 DEF BInv

\* A ban is added, with its event.
LEMMA AddedKeeps ==
  ASSUME TInv, BInv, UNCHANGED <<disk, chans, loaded>>,
         NEW c \in Channels, NEW exact, NEW m \in Mask, NEW exp \in Int,
         NEW level \in Weight, Added(c, exact, m, exp, level)
  PROVE  BInv'
<1> DEFINE new == Listed(c, exact, m, exp, level)
           e == Entry("CLEANSHITLIST", exp, c)
<1>1. events' = AddEvent(events, "CLEANSHITLIST", exp, c) /\ shitlist' = Clean(new, c)
  BY DEF Added
<1>2. e \in Event /\ e.event = "CLEANSHITLIST" /\ e.time = exp /\ e.param = c
  BY CleanIsEvent DEF Entry
<1> HIDE DEF e
<1>3. InList(events', e) /\ \A f \in Event : InList(events, f) => InList(events', f)
  BY <1>1, <1>2, AddOne DEF TInv, ListOK
<1>5. Bucket(shitlist)
  BY DEF BInv, Lists
<1>6. Bucket(new)
  BY <1>5, ListedShape, Zenon
<1>7. EndsOf(new, c, exp)
  BY <1>5, ListedShape, Zenon
<1> HIDE DEF new
<1>8. Bucket(shitlist')
  BY <1>1, <1>6, CleanKeeps
<1>9. \A k \in 1..Len(shitlist') : \E i \in 1..Len(new) : shitlist'[k] = new[i]
  <2> DEFINE kept == Clean(new, c)
  <2>1. \A k \in 1..Len(kept) : \E i \in 1..Len(new) : Stays(new[i], c) /\ kept[k] = new[i]
    BY <1>6, CleanKeeps
  <2> QED BY <1>1, <2>1
<1>10. ASSUME NEW i \in 1..Len(new)
      PROVE  Waits(events', new[i]) \/ Mark(new[i]) \in loaded
  <2>1. CASE \E j \in 1..Len(shitlist) : Mark(new[i]) = Mark(shitlist[j])
    <3>1. PICK j \in 1..Len(shitlist) : Mark(new[i]) = Mark(shitlist[j])
      BY <2>1
    <3>2. new[i].channel = shitlist[j].channel /\ new[i].expiration = shitlist[j].expiration
      BY <3>1 DEF Mark
    <3>3. shitlist[j] \in Standing
      BY DEF BInv, Lists, Bucket
    <3>4. Entry("CLEANSHITLIST", shitlist[j].expiration, shitlist[j].channel) \in Event
      BY <3>3, CleanIsEvent DEF Standing, Ban
    <3>5. Waits(events, shitlist[j]) \/ Mark(shitlist[j]) \in loaded
      BY DEF BInv, AllWait
    <3>6. Waits(events, shitlist[j]) => Waits(events', new[i])
      BY <1>3, <3>2, <3>4 DEF Waits
    <3> QED BY <3>1, <3>5, <3>6
  <2>2. CASE new[i].channel = c /\ new[i].expiration = exp
    BY <1>3, <2>2 DEF Waits, e
  <2> QED BY <1>7, <2>1, <2>2 DEF EndsOf
<1>11. AllWait(shitlist', events', loaded')
  BY <1>9, <1>10 DEF AllWait
<1>12. Lists'
  BY <1>8 DEF BInv, Lists
<1> QED BY <1>11, <1>12 DEF BInv

\* unban: the ban it takes off has its end set to the past, and goes at once.
LEMMA RemovedKeeps ==
  ASSUME TInv, BInv, NEW c \in Channels, NEW typed, NEW access,
         RemShitList(c, typed, access)
  PROVE  BInv'
<1> DEFINE T == {k \in 1..Len(shitlist) :
                   Meant(shitlist[k], c, typed) /\ shitlist[k].level <= access}
           i == SelectInSeq(shitlist, LAMBDA b : Meant(b, c, typed) /\ b.level <= access)
           mid == [shitlist EXCEPT ![i].expiration = now - 1]
           cut == [shitlist[i] EXCEPT !.expiration = now - 1]
<1>1. i # 0 /\ shitlist' = Clean(mid, c) /\ UNCHANGED <<events, disk, chans, loaded>>
  BY DEF RemShitList
<1>2. i = IF T # {} THEN Min(T) ELSE 0
  BY DEF SelectInSeq
<1>3. mid = [shitlist EXCEPT ![i] = cut]
  OBVIOUS
<1>4. Bucket(shitlist) /\ now \in Nat
  BY DEF BInv, Lists, TInv, ListOK
<1>5. shitlist \in Seq(Standing) /\ Once(shitlist) /\ Len(shitlist) \in Nat
  BY <1>4 DEF Bucket
<1>6. T \in SUBSET Nat /\ T \subseteq 1..Len(shitlist)
        /\ \A k \in T : Meant(shitlist[k], c, typed)
  BY <1>5
<1>a. \A b : Meant(b, c, typed) => b.channel = c
  BY Zenon DEF Meant
<1> HIDE DEF T, i, mid
<1>7. i \in T
  BY <1>1, <1>2, <1>6, MinIsFirst
<1>8. i \in 1..Len(shitlist) /\ shitlist[i].channel = c /\ shitlist[i] \in Standing
  BY <1>5, <1>6, <1>7, <1>a
<1>9. /\ cut \in Standing /\ cut.channel = c /\ cut.match = shitlist[i].match
      /\ cut.expiration = now - 1
  <2> DEFINE b == shitlist[i]
  <2>1. b \in Ban /\ b.level # 0 /\ b.channel = c
    BY <1>8 DEF Standing
  <2> HIDE DEF b
  <2>2. [b EXCEPT !.expiration = now - 1] =
          [channel |-> b.channel, match |-> b.match, expiration |-> now - 1, level |-> b.level]
    BY <2>1 DEF Ban
  <2>3. now - 1 \in Int
    BY <1>4
  <2>4. /\ [b EXCEPT !.expiration = now - 1] \in Standing
        /\ [b EXCEPT !.expiration = now - 1].channel = c
        /\ [b EXCEPT !.expiration = now - 1].match = b.match
        /\ [b EXCEPT !.expiration = now - 1].expiration = now - 1
    BY <2>1, <2>2, <2>3 DEF Ban, Standing
  <2> QED BY <2>4 DEF b
<1> HIDE DEF cut
<1>10. /\ mid \in Seq(Standing) /\ Len(mid) = Len(shitlist) /\ mid[i] = cut
       /\ \A k \in 1..Len(shitlist) : k # i => mid[k] = shitlist[k]
  BY <1>3, <1>5, <1>8, <1>9
<1>11. Bucket(mid)
  <2>1. \A k \in 1..Len(mid) :
          mid[k].channel = shitlist[k].channel /\ mid[k].match = shitlist[k].match
    BY <1>8, <1>9, <1>10
  <2> QED BY <1>5, <1>10, <2>1 DEF Bucket, Once
<1>12. ~Stays(cut, c)
  <2>1. now - 1 <= now
    BY <1>4
  <2> QED BY <1>9, <2>1 DEF Stays
<1> DEFINE new == Clean(mid, c)
<1>13. Bucket(new)
  BY <1>11, CleanKeeps
<1>14. \A k \in 1..Len(new) : \E j \in 1..Len(mid) : Stays(mid[j], c) /\ new[k] = mid[j]
  BY <1>11, CleanKeeps
<1> HIDE DEF new
<1>15. \A k \in 1..Len(new) : \E j \in 1..Len(shitlist) : new[k] = shitlist[j]
  BY <1>10, <1>12, <1>14
<1> QED BY <1>1, <1>13, <1>15, FewerBans DEF new

\* The list is what LoadShitList makes of the file, and loaded says which bans it read.
LEMMA LoadKeeps ==
  ASSUME Bucket(disk'), chans' \subseteq Channels, NEW t, shitlist' = Load(disk', t),
         loaded' = {Mark(b) : b \in ToSet(shitlist')}
  PROVE  BInv'
<1>1. Bucket(shitlist')
  BY LoadBucket
<1>2. shitlist' \in Seq(Standing)
  BY <1>1 DEF Bucket
<1>3. \A k \in 1..Len(shitlist') : Mark(shitlist'[k]) \in loaded'
  BY <1>2 DEF ToSet
<1>4. ASSUME NEW b \in ToSet(shitlist') PROVE Mark(b) \in Marks
  <2>1. b \in Standing
    BY <1>2, <1>4 DEF ToSet
  <2> QED BY <2>1 DEF Standing, Ban, Mark, Marks
<1>5. Lists'
  BY <1>1, <1>4 DEF Lists
<1>6. AllWait(shitlist', events', loaded')
  BY <1>3 DEF AllWait
<1> QED BY <1>5, <1>6 DEF BInv

\* The handlers of the ban list.
LEMMA BanHandlersBans ==
  ASSUME TInv, BInv, BanHandlers
  PROVE  BInv'
<1>1. now \in Nat /\ Bucket(shitlist) /\ Bucket(disk) /\ chans \subseteq Channels
  BY DEF TInv, ListOK, BInv, Lists
<1>2. /\ Typed \subseteq Clients \cup Mask /\ Flooders \subseteq Clients /\ Deopers \subseteq Clients
      /\ \A x \in Clients : MakeBanMask(x) \in Mask
  BY BansOK, MadeIsMask
<1>3. ASSUME NEW c \in Channels, NEW typed \in Typed, NEW hours \in Hours,
             NEW level \in Levels, NEW access \in Accesses,
             AddToShitList(c, typed, hours, level, access)
      PROVE  BInv'
  <2>1. now + hours \in Int /\ level \in Weight
    BY <1>1, BansOK DEF Weight
  <2>2. /\ Added(c, typed \notin Clients, Pattern(typed), now + hours, level)
        /\ UNCHANGED <<disk, chans, loaded>>
    BY <1>3, Zenon DEF AddToShitList
  <2>3. Pattern(typed) \in Mask
    BY <1>2 DEF Pattern
  <2> QED BY <2>1, <2>2, <2>3, AddedKeeps, Zenon
<1>4. ASSUME NEW c \in Channels, NEW x \in Flooders, CheckFlood(c, x)
      PROVE  BInv'
  <2> DEFINE count == IsShit(shitlist, c, x)
             level == IF count < 10 THEN count + 5 ELSE FloodLevel
  <2>1. count \in 0..1000
    BY <1>1, LevelRange
  <2>2. /\ UNCHANGED <<disk, chans, loaded>>
        /\ Added(c, Exactly, MakeBanMask(x), now + FloodTime, level)
    BY <1>4 DEF CheckFlood, Exactly
  <2> HIDE DEF count
  <2>3. now + FloodTime \in Int /\ level \in Weight
    BY <1>1, <2>1, BansOK DEF FloodLevel, Weight
  <2> HIDE DEF level
  <2> QED BY <1>2, <2>2, <2>3, AddedKeeps
<1>5. ASSUME NEW c \in Channels, NEW x \in Deopers, MassDeop(c, x)
      PROVE  BInv'
  <2>1. now + DeopTime \in Int /\ DeopLevel \in Weight
    BY <1>1, BansOK DEF DeopLevel, Weight
  <2>2. /\ UNCHANGED <<disk, chans, loaded>>
        /\ Added(c, Exactly, MakeBanMask(x), now + DeopTime, DeopLevel)
    BY <1>5 DEF MassDeop, Exactly
  <2> QED BY <1>2, <2>1, <2>2, AddedKeeps
<1>6. ASSUME NEW c \in Channels, CleanCommand(c)
      PROVE  BInv'
  <2> DEFINE new == Clean(shitlist, c)
  <2>1. shitlist' = new /\ UNCHANGED <<events, disk, chans, loaded>>
    BY <1>6 DEF CleanCommand
  <2>2. Bucket(new)
    BY <1>1, CleanKeeps
  <2>3. \A k \in 1..Len(new) : \E j \in 1..Len(shitlist) :
          Stays(shitlist[j], c) /\ new[k] = shitlist[j]
    BY <1>1, CleanKeeps
  <2> HIDE DEF new
  <2> QED BY <2>1, <2>2, <2>3, FewerBans
<1>7. ASSUME NEW c \in Channels, ChannelComes(c) \/ ChannelGoes(c)
      PROVE  BInv'
  BY <1>1, <1>7, BansStay DEF ChannelComes, ChannelGoes
<1>8. ASSUME SaveCommand PROVE BInv'
  <2>1. Bucket(disk')
    BY <1>1, <1>8 DEF SaveCommand, SaveShitList
  <2> QED BY <1>1, <1>8, <2>1, BansStay DEF SaveCommand
<1>9. ASSUME LoadCommand PROVE BInv'
  <2>1. /\ disk' = disk /\ chans' = chans /\ shitlist' = Load(disk', now)
        /\ loaded' = {Mark(b) : b \in ToSet(shitlist')}
    BY <1>9 DEF LoadCommand
  <2> QED BY <1>1, <2>1, LoadKeeps
<1> QED BY <1>3, <1>4, <1>5, <1>6, <1>7, <1>8, <1>9, RemovedKeeps DEF BanHandlers

\* The handlers of the ignores take no event from the list.
LEMMA IgnoreHandlersBans ==
  ASSUME TInv, BInv, IgnoreHandlers, UNCHANGED banvars
  PROVE  BInv'
<1>1. EventsOK(events) /\ now \in Nat /\ Bucket(disk) /\ chans \subseteq Channels
  BY DEF TInv, ListOK, BInv, Lists
<1>2. \A f \in Event : InList(events, f) => InList(events', f)
  <2>1. ASSUME NEW c \in Clients, NEW t \in IgnoreTimes, AddIgnore(c, t),
               NEW f \in Event, InList(events, f)
        PROVE  InList(events', f)
    <3> DEFINE once == AddEvent(events, "CLEAN_IGNORES", now + t, NoParam)
               twice == AddEvent(once, "CLEAN_IGNORES", now + SiteTime, NoParam)
    <3>1. events' = IF Crowded(c) THEN twice ELSE once
      BY <2>1 DEF AddIgnore
    <3>2. now + t \in Int /\ now + SiteTime \in Int
      BY <1>1, IgnoresOK
    <3>3. EventsOK(once) /\ InList(once, f)
      BY <1>1, <2>1, <3>2, AddIgnoreEvent
    <3> HIDE DEF once
    <3>4. InList(twice, f)
      BY <3>2, <3>3, AddIgnoreEvent
    <3> QED BY <3>1, <3>3, <3>4
  <2>2. ASSUME NEW masks, AdminRemoveIgnore(masks) PROVE events' = events
    BY <2>2 DEF AdminRemoveIgnore
  <2>3. ASSUME NEW c, SilenceAgain(c) PROVE events' = events
    BY <2>3 DEF SilenceAgain
  <2> QED BY <2>1, <2>2, <2>3 DEF IgnoreHandlers
<1> QED BY <1>1, <1>2, BansStay DEF banvars

\* CheckEvent: the event that goes takes the bans of its channel that are over.
LEMMA CheckEventBans ==
  ASSUME TInv, BInv, CheckEvent
  PROVE  BInv'
<1> DEFINE rest == Tail(events)
           head == events[1]
<1>1. /\ EventsOK(events) /\ now \in Nat /\ Bucket(disk) /\ Bucket(shitlist)
      /\ chans \subseteq Channels /\ AllWait(shitlist, events, loaded)
  BY DEF TInv, ListOK, BInv, Lists
<1>2. events # <<>> /\ head.time <= now
  BY DEF CheckEvent, BanEvents, SaveEvent, CleanEvent, IgnoreEvent, Pop, Due
<1>3. /\ rest \in Seq(Event) /\ Sorted(rest)
      /\ \A f : InList(events, f) => f = head \/ InList(rest, f)
      /\ head.event = "SAVESHITLIST" => \A i \in 1..Len(rest) : rest[i].event # "SAVESHITLIST"
  BY <1>1, <1>2, TailKeeps DEF EventsOK
<1>4. CASE SaveEvent
  <2> DEFINE e == Entry("SAVESHITLIST", now + SaveFreq, NoParam)
  <2>1. e \in Event /\ e.event = "SAVESHITLIST" /\ e.time = now + SaveFreq /\ e.param = NoParam
    BY <1>1, TimesOK, SaveIsEvent DEF Entry
  <2>2. /\ head.event = "SAVESHITLIST"
        /\ events' = AddEvent(rest, e.event, e.time, e.param)
        /\ UNCHANGED <<shitlist, chans, loaded>> /\ disk' \in {shitlist, disk}
    BY <1>4, <2>1 DEF SaveEvent, Pop, Rest, SaveShitList
  <2> HIDE DEF e, rest, head
  <2>3. \A f \in Event : InList(rest, f) => InList(events', f)
    BY <1>3, <2>1, <2>2, AddKeeps
  <2>4. \A f \in Event : f.event = "CLEANSHITLIST" /\ InList(events, f) => InList(events', f)
    BY <1>3, <2>2, <2>3
  <2>5. Bucket(disk')
    BY <1>1, <2>2
  <2> QED BY <1>1, <2>2, <2>4, <2>5, BansStay
<1>5. CASE CleanEvent
  <2> DEFINE c == head.param
             new == Clean(shitlist, c)
  <2>1. /\ head.event = "CLEANSHITLIST" /\ events' = rest
        /\ shitlist' = new /\ UNCHANGED <<disk, chans, loaded>>
    BY <1>5 DEF CleanEvent, Pop, Rest
  <2>2. Bucket(new)
    BY <1>1, CleanKeeps
  <2>3. \A k \in 1..Len(new) : \E j \in 1..Len(shitlist) :
          Stays(shitlist[j], c) /\ new[k] = shitlist[j]
    BY <1>1, CleanKeeps
  <2>4. ASSUME NEW j \in 1..Len(shitlist), Stays(shitlist[j], c), Waits(events, shitlist[j])
        PROVE  Waits(rest, shitlist[j])
    <3> DEFINE f == Entry("CLEANSHITLIST", shitlist[j].expiration, shitlist[j].channel)
    <3>1. f.time = shitlist[j].expiration /\ f.param = shitlist[j].channel
      BY DEF Entry
    <3>2. InList(events, f)
      BY <2>4 DEF Waits
    <3>3. f # head
      BY <1>2, <2>4, <3>1 DEF Stays
    <3> HIDE DEF f, rest, head
    <3>4. InList(rest, f)
      BY <1>3, <3>2, <3>3
    <3> QED BY <3>4 DEF Waits, f
  <2> HIDE DEF new, rest
  <2> QED BY <2>1, <2>2, <2>3, <2>4, FewerBans
<1>6. CASE IgnoreEvent /\ UNCHANGED banvars
  <2>1. head.event = "CLEAN_IGNORES" /\ events' = rest
    BY <1>6 DEF IgnoreEvent, Pop, Rest
  <2> HIDE DEF rest, head
  <2>2. \A f \in Event : f.event = "CLEANSHITLIST" /\ InList(events, f) => InList(events', f)
    BY <1>3, <2>1
  <2> QED BY <1>1, <1>6, <2>2, BansStay DEF banvars
<1> QED BY <1>4, <1>5, <1>6 DEF CheckEvent, BanEvents

\* Every step keeps the bans scheduled.
THEOREM BansNext == TInv /\ BInv /\ [Next]_vars => BInv'
<1> SUFFICES ASSUME TInv, BInv, [Next]_vars PROVE BInv'
  OBVIOUS
<1>1. Bucket(shitlist) /\ Bucket(disk) /\ chans \subseteq Channels
  BY DEF BInv, Lists
<1>2. CASE Tick /\ UNCHANGED <<banvars, ignorevars>>
  BY <1>1, <1>2, BansStay DEF Tick, banvars
<1>3. CASE BanHandlers /\ UNCHANGED ignorevars
  BY <1>3, BanHandlersBans
<1>4. CASE IgnoreHandlers /\ UNCHANGED banvars
  BY <1>4, IgnoreHandlersBans
<1>5. CASE CheckEvent
  BY <1>5, CheckEventBans
<1>6. CASE quit \/ Crash
  <2>1. Started(now) /\ disk' \in {shitlist, disk}
    BY <1>6 DEF quit, Crash, SaveShitList
  <2>2. Bucket(disk')
    BY <1>1, <2>1
  <2> QED BY <2>1, <2>2, LoadKeeps DEF Started
<1>7. CASE UNCHANGED vars
  BY <1>1, <1>7, BansStay DEF vars, banvars
<1> QED BY <1>2, <1>3, <1>4, <1>5, <1>6, <1>7 DEF Next

\* The bans are in order in every behaviour.
THEOREM BansInvariance == Spec => [](TInv /\ BInv)
<1>1. Init => BInv
  <2>1. Bucket(<<>>)
    BY DEF Bucket, Once
  <2> QED BY <2>1 DEF Init, BInv, Lists, AllWait
<1> QED BY <1>1, TimersInvariance, BansNext, PTL DEF Spec

-----------------------------------------------------------------------------
(* What the runs check, for all values of the constants.                   *)

\* CheckEvent, which looks at the head only, misses no event that is due.
THEOREM OrderedCorrect == Spec => []Ordered
<1>1. TInv => Ordered
  BY DEF TInv, ListOK, EventsOK, Ordered
<1> QED BY <1>1, TimersInvariance, PTL

\* The ban list will be saved again, whatever became of the last save.
THEOREM SaveArmedCorrect == Spec => []SaveArmed
<1>1. TInv => SaveArmed
  BY DEF TInv, ListOK, EventsOK, SaveArmed
<1> QED BY <1>1, TimersInvariance, PTL

\* No client and no site is ignored without an event that ends it.
THEOREM IgnoreScheduledCorrect == Spec => []IgnoreScheduled
<1>1. TInv => IgnoreScheduled
  BY DEF TInv, Scheduled
<1> QED BY <1>1, TimersInvariance, PTL

\* The network silences nothing but what is ignored; every mask that is ignored, and is not
\* of an IPv6 network (whose clients IsIgnored does not find), is silenced and listed once,
\* so that the end of an entry takes no silence that another one needs.
THEOREM SilencesAgreeCorrect == Spec => []SilencesAgree
<1>1. TInv => SilencesAgree
  BY DEF TInv, Silenced, Agree, SilencesAgree
<1> QED BY <1>1, TimersInvariance, PTL

\* Every ban whose end was set by a command or by flood protection has its event, whatever
\* was added, raised, unbanned, saved or loaded in between.
THEOREM BanScheduledCorrect == Spec => []BanScheduled
<1>1. TInv /\ BInv => BanScheduled
  BY DEF BInv, AllWait, Waits, Entry, BanScheduled, Pending
<1> QED BY <1>1, BansInvariance, PTL

\* No mask is banned twice on a channel, after a reload of the file either.
THEOREM BanOnceCorrect == Spec => []BanOnce
<1>1. TInv /\ BInv => BanOnce
  BY DEF BInv, Lists, Bucket, Once, BanOnce
<1> QED BY <1>1, BansInvariance, PTL

\* The clock stays within its bound, and CheckEvent is in its loop or not.
LEMMA ClockNext == now \in 0..Horizon /\ checking \in BOOLEAN /\ [Next]_vars
                     => (now \in 0..Horizon /\ checking \in BOOLEAN)'
<1> SUFFICES ASSUME now \in 0..Horizon, checking \in BOOLEAN, [Next]_vars
             PROVE  now' \in 0..Horizon /\ checking' \in BOOLEAN
  OBVIOUS
<1>1. CASE Tick
  BY <1>1, TimesOK DEF Tick
<1>2. CASE BanHandlers
  <2>1. \A c, typed, hours, level, access :
          AddToShitList(c, typed, hours, level, access) => Handler
    BY Zenon DEF AddToShitList
  <2>2. \A c, typed, access : RemShitList(c, typed, access) => Handler
    BY Zenon DEF RemShitList
  <2>3. \A c, x : CheckFlood(c, x) \/ MassDeop(c, x) => Handler
    BY Zenon DEF CheckFlood, MassDeop
  <2>4. \A c : CleanCommand(c) \/ ChannelComes(c) \/ ChannelGoes(c) => Handler
    BY Zenon DEF CleanCommand, ChannelComes, ChannelGoes
  <2>5. LoadCommand \/ SaveCommand => Handler
    BY Zenon DEF LoadCommand, SaveCommand
  <2>6. Handler
    BY <1>2, <2>1, <2>2, <2>3, <2>4, <2>5, Zenon DEF BanHandlers
  <2> QED BY <2>6 DEF Handler
<1>3. CASE IgnoreHandlers
  BY <1>3 DEF IgnoreHandlers, AddIgnore, SilenceAgain, AdminRemoveIgnore, Handler
<1>4. CASE CheckEvent
  BY <1>4 DEF CheckEvent, BanEvents, SaveEvent, CleanEvent, IgnoreEvent, Pop, Rest, Due
<1>5. CASE quit \/ Crash
  BY <1>5 DEF quit, Crash, Started, Handler
<1> QED BY <1>1, <1>2, <1>3, <1>4, <1>5 DEF Next, vars

\* The variables keep their types.
THEOREM TimersTypeCorrect == Spec => []TypeOK
<1>1. Init => now \in 0..Horizon /\ checking \in BOOLEAN
  <2>1. 0 \in 0..Horizon
    BY TimesOK
  <2> QED BY <2>1, Zenon DEF Init
<1>2. /\ TInv /\ BInv /\ now \in 0..Horizon /\ checking \in BOOLEAN
      => TypeOK
  <2> SUFFICES ASSUME TInv, BInv, now \in 0..Horizon, checking \in BOOLEAN PROVE TypeOK
    OBVIOUS
  <2>1. events \in Seq(Event) /\ ignores \in Seq(Ignore) /\ silences \subseteq MasksOf(ignores)
    BY DEF TInv, ListOK, EventsOK, Scheduled, Silenced, Agree
  <2>2. silences \subseteq Mask
    BY <2>1, IgnoreFields DEF MasksOf
  <2>3. /\ chans \subseteq Channels /\ loaded \subseteq Marks
        /\ shitlist \in Seq(Standing) /\ disk \in Seq(Standing)
    BY DEF BInv, Lists, Bucket
  <2>4. Standing \subseteq Ban
    BY DEF Standing
  <2>5. shitlist \in Seq(Ban) /\ disk \in Seq(Ban)
    BY <2>3, <2>4
  <2> QED BY <2>1, <2>2, <2>3, <2>5 DEF TypeOK, Marks
<1> QED BY <1>1, <1>2, ClockNext, BansInvariance, PTL DEF Spec

\* An event ends only what has run out: a ban that was renewed, or one of another channel,
\* survives the event of a shorter one.
THEOREM OnlyExpiredGoCorrect == Spec => OnlyExpiredGo
<1> DEFINE Goes == CheckEvent =>
             /\ \A b \in ToSet(shitlist) \ ToSet(shitlist') :
                  b.expiration <= now \/ b.channel \notin chans
             /\ \A i \in ToSet(ignores) \ ToSet(ignores') : i.time <= now
<1>1. TInv /\ BInv /\ [Next]_vars => Goes
  <2> SUFFICES ASSUME TInv, BInv, CheckEvent
               PROVE  /\ \A b \in ToSet(shitlist) \ ToSet(shitlist') :
                           b.expiration <= now \/ b.channel \notin chans
                      /\ \A i \in ToSet(ignores) \ ToSet(ignores') : i.time <= now
    OBVIOUS
  <2>1. CASE SaveEvent /\ UNCHANGED ignorevars
    BY <2>1 DEF SaveEvent, ignorevars
  <2>2. CASE IgnoreEvent /\ UNCHANGED banvars
    <3> DEFINE over == {i \in 1..Len(ignores) : ignores[i].time <= now}
    <3>1. Thinned(over) /\ UNCHANGED <<shitlist, chans>>
      BY <2>2 DEF IgnoreEvent, CleanIgnores, banvars
    <3>2. ignores \in Seq(Ignore) /\ Silenced
      BY DEF TInv, Scheduled
    <3>3. \A i \in 1..Len(ignores) : ~ (ignores[i].time <= now) => i \notin over
      OBVIOUS
    <3>4. over \in SUBSET (1..Len(ignores))
      OBVIOUS
    <3> HIDE DEF over
    <3>5. /\ ignores' \in Seq(Ignore)
          /\ \A i \in (1..Len(ignores)) \ over :
               \E k \in 1..Len(ignores') : ignores'[k] = ignores[i]
      BY <3>1, <3>2, <3>4, ThinnedKeeps
    <3>6. ASSUME NEW e \in ToSet(ignores), ~ (e.time <= now) PROVE e \in ToSet(ignores')
      <4>1. PICK i \in 1..Len(ignores) : ignores[i] = e
        BY <3>2, <3>6 DEF ToSet
      <4>2. PICK k \in 1..Len(ignores') : ignores'[k] = e
        BY <3>3, <3>5, <3>6, <4>1
      <4> QED BY <4>2 DEF ToSet
    <3> QED BY <3>1, <3>6
  <2>3. CASE CleanEvent /\ UNCHANGED ignorevars
    <3> DEFINE new == Clean(shitlist, events[1].param)
    <3>1. shitlist' = new /\ ignores' = ignores
      BY <2>3 DEF CleanEvent, ignorevars
    <3>2. Bucket(shitlist) /\ shitlist \in Seq(Standing)
      BY DEF BInv, Lists, Bucket
    <3>3. \A j \in 1..Len(shitlist) : Stays(shitlist[j], events[1].param) =>
            \E k \in 1..Len(new) : new[k] = shitlist[j]
      BY <3>2, CleanKeeps
    <3>4. Bucket(new) /\ Len(new) \in Nat
      BY <3>2, CleanKeeps DEF Bucket
    <3> HIDE DEF new
    <3>5. ASSUME NEW b \in ToSet(shitlist), b \notin ToSet(new)
          PROVE  b.expiration <= now \/ b.channel \notin chans
      <4>1. PICK j \in 1..Len(shitlist) : shitlist[j] = b
        BY <3>2, <3>5 DEF ToSet
      <4>2. ~Stays(b, events[1].param)
        BY <3>3, <3>4, <3>5, <4>1 DEF ToSet, Bucket
      <4>3. b \in Standing
        BY <3>2, <4>1
      <4> QED BY <4>2, <4>3 DEF Stays, Standing
    <3> QED BY <3>1, <3>5
  <2> QED BY <2>1, <2>2, <2>3 DEF CheckEvent, BanEvents
<1>2. TInv /\ BInv /\ [Next]_vars => [Goes]_vars
  BY <1>1
<1>3. Spec => [][Goes]_vars
  BY <1>2, BansInvariance, PTL DEF Spec
<1> QED BY <1>3 DEF OnlyExpiredGo

\* Each flood raises the level of the client: the ban raised by mask is the one found by
\* address, or one of the same level or more stands before it, and it survives the clean
\* that follows; unless what stands before is a ban the mask is not within, or the mask
\* made of the client does not match it.
THEOREM EscalatesCorrect == Spec => Escalates
<1> DEFINE Up == \A c \in Channels, x \in Flooders : CheckFlood(c, x) =>
             LET before == IsShit(shitlist, c, x)
                 after == IsShit(shitlist', c, x)
                 i == FindShit(shitlist', c, x)
             IN \/ after >= (IF before < 10 THEN before + 5 ELSE FloodLevel)
                \/ i # 0 /\ ~Match(MakeBanMask(x), shitlist'[i].match)
                \/ ~Match(Real[x], MakeBanMask(x)) /\ ~Match(Shown[x], MakeBanMask(x))
<1>1. TInv /\ BInv /\ [Next]_vars => Up
  <2> SUFFICES ASSUME TInv, BInv, NEW c \in Channels, NEW x \in Flooders, CheckFlood(c, x),
                      \/ Match(Real[x], MakeBanMask(x)) \/ Match(Shown[x], MakeBanMask(x))
               PROVE  LET before == IsShit(shitlist, c, x)
                          after == IsShit(shitlist', c, x)
                          i == FindShit(shitlist', c, x)
                      IN \/ after >= (IF before < 10 THEN before + 5 ELSE FloodLevel)
                         \/ i # 0 /\ ~Match(MakeBanMask(x), shitlist'[i].match)
    OBVIOUS
  <2> DEFINE count == IsShit(shitlist, c, x)
             level == IF count < 10 THEN count + 5 ELSE FloodLevel
             end == now + FloodTime
             new == Clean(Listed(c, Exactly, MakeBanMask(x), end, level), c)
  <2>1. Bucket(shitlist) /\ now \in Nat /\ x \in Clients
    BY BansOK DEF TInv, ListOK, BInv, Lists
  <2>2. count \in 0..1000
    BY <2>1, LevelRange
  <2>3. c \in chans /\ shitlist' = new
    BY DEF CheckFlood, Added, Exactly
  <2>4. end \in Int /\ end > now /\ now \in Int
    BY <2>1, BansOK
  <2> HIDE DEF count
  <2>5. level \in Weight
    BY <2>2 DEF FloodLevel, Weight
  <2> HIDE DEF level, end
  <2>6. LET i == FindShit(new, c, x)
        IN \/ IsShit(new, c, x) >= level
           \/ i # 0 /\ ~Match(MakeBanMask(x), new[i].match)
    BY <2>1, <2>3, <2>4, <2>5, AddedHolds, Zenon
  <2> HIDE DEF new
  <2> QED BY <2>3, <2>6 DEF level, count
<1>2. TInv /\ BInv /\ [Next]_vars => [Up]_vars
  BY <1>1
<1>3. Spec => [][Up]_vars
  BY <1>2, BansInvariance, PTL DEF Spec
<1> QED BY <1>3 DEF Escalates
=============================================================================
