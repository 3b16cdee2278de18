--------------------------- MODULE Channels_proofs ---------------------------
(***************************************************************************)
(* The two lists of every membership agree, and no list points to a freed  *)
(* channel, whatever the order of messages, commands and reconnections.    *)
(***************************************************************************)
EXTENDS Channels, TLAPS

\* IInv in the parts the operations change separately: the lists,
HeapOK ==
  /\ chan \in [Cells -> Channel \cup {NULL}]
  /\ members \in [Cells -> [Users -> Nat]]
  /\ channel \in [Users -> [Cells -> Nat]]
  /\ Mirror /\ NoStray /\ OneCell

\* the clients and their servers,
TreeOK ==
  /\ server \in [Users -> Servers \cup {NULL}]
  /\ uplink \in Servers \cup {NULL}
  /\ path \in [Servers -> SUBSET Servers]
  /\ \A u \in Users : server[u] # NULL => path[server[u]] # {}
  /\ \A s \in Servers : path[s] # {} =>
        /\ s \in path[s] /\ uplink \in path[s]
        /\ \A t \in path[s] : path[t] # {} /\ path[t] \subseteq path[s]

\* what ties the two,
GoneOK == \A u \in Users : server[u] = NULL => \A c \in Cells : channel[u][c] = 0

\* and the rest.
BookOK ==
  /\ defs \in SUBSET Names /\ file \in SUBSET Names
  /\ bursting \in BOOLEAN
  /\ sent \in Seq(Message)

\* The parts make up the invariant.
LEMMA FourParts == IInv <=> HeapOK /\ TreeOK /\ GoneOK /\ BookOK
BY DEF IInv, TypeOK, HeapOK, TreeOK, GoneOK, BookOK, Attached

\* The same of the next state.
LEMMA PartsNext == IInv' <=> HeapOK' /\ TreeOK' /\ GoneOK' /\ BookOK'
BY DEF IInv, TypeOK, HeapOK, TreeOK, GoneOK, BookOK, Attached,
       Mirror, NoStray, OneCell

\* A turn that sends nothing leaves sent of its type,
LEMMA NothingSent == <<>> \in Seq(Message)
OBVIOUS

\* and so does one that sends a message.
LEMMA OneSent == ASSUME NEW m \in Message PROVE <<m>> \in Seq(Message)
OBVIOUS

-----------------------------------------------------------------------------
(* Operations on the lists.                                                *)

\* JoinUser on the cell of a channel that was found or made keeps the lists right and
\* touches the lists of no other client.
LEMMA JoinStep ==
  ASSUME HeapOK, NEW x \in Names, NEW on \in BOOLEAN, NEW c \in Cells, NEW us \in SUBSET Users,
         NewChannel(x, on, c), JoinUser(us, c)
  PROVE  HeapOK' /\ \A u \in Users \ us : channel'[u] = channel[u]
<1> USE DEF HeapOK
<1>0. NULL \notin Channel
  BY NamesOK DEF Channel
<1>1. /\ chan' \in [Cells -> Channel \cup {NULL}]
      /\ chan'[c] # NULL
      /\ \A d \in Cells \ {c} : chan'[d] = chan[d]
      /\ chan[c] # NULL => chan'[c] = chan[c]
      /\ chan'[c].name = x
      /\ chan[c] = NULL => ToChannel(x) = {}
  BY <1>0 DEF NewChannel, ToChannel, Channel
<1>2. /\ members' \in [Cells -> [Users -> Nat]]
      /\ channel' \in [Users -> [Cells -> Nat]]
      /\ \A d \in Cells, u \in Users :
           /\ members'[d][u] = IF d = c /\ u \in us THEN members[d][u] + 1 ELSE members[d][u]
           /\ channel'[u][d] = IF d = c /\ u \in us THEN channel[u][d] + 1 ELSE channel[u][d]
      /\ \A u \in Users \ us : channel'[u] = channel[u]
  <2>1. members' \in [Cells -> [Users -> Nat]]
    BY DEF JoinUser
  <2>2. channel' \in [Users -> [Cells -> Nat]]
    BY DEF JoinUser
  <2>3. \A d \in Cells, u \in Users :
           members'[d][u] = IF d = c /\ u \in us THEN members[d][u] + 1 ELSE members[d][u]
    BY DEF JoinUser
  <2>4. \A d \in Cells, u \in Users :
           channel'[u][d] = IF d = c /\ u \in us THEN channel[u][d] + 1 ELSE channel[u][d]
    BY DEF JoinUser
  <2> QED BY <2>1, <2>2, <2>3, <2>4 DEF JoinUser
<1>3. Mirror'
  BY <1>2 DEF Mirror
<1>4. NoStray'
  BY <1>1, <1>2 DEF NoStray
<1>5. OneCell'
  <2> SUFFICES ASSUME NEW d \in Cells, NEW e \in Cells,
                      chan'[d] # NULL, chan'[e] # NULL, chan'[d].name = chan'[e].name
               PROVE  d = e
    BY DEF OneCell
  <2> QED BY <1>1 DEF OneCell, ToChannel
<1> QED BY <1>1, <1>2, <1>3, <1>4, <1>5

\* PartAll takes its clients off both lists, and frees a channel only when nobody is left.
LEMMA PartAllStep ==
  ASSUME HeapOK, NEW us \in SUBSET Users, PartAll(us)
  PROVE  /\ HeapOK'
         /\ \A u \in us, c \in Cells : channel'[u][c] = 0
         /\ \A u \in Users \ us : channel'[u] = channel[u]
<1> USE DEF HeapOK
<1>1. \A c \in Cells, u \in Users :
        Left(us, c, u) = IF u \in us THEN 0 ELSE members[c][u]
  BY DEF Left, Less, Mirror
<1>2. /\ members' \in [Cells -> [Users -> Nat]]
      /\ channel' \in [Users -> [Cells -> Nat]]
      /\ chan' \in [Cells -> Channel \cup {NULL}]
  BY <1>1 DEF PartAll
<1>3. \A c \in Cells, u \in Users :
        /\ members'[c][u] = IF u \in us THEN 0 ELSE members[c][u]
        /\ channel'[u][c] = IF u \in us THEN 0 ELSE channel[u][c]
  BY <1>1 DEF PartAll
<1>4. \A c \in Cells : \/ chan'[c] = chan[c]
                       \/ chan'[c] = NULL /\ \A u \in Users : members'[c][u] = 0
  BY <1>1, <1>3 DEF PartAll
<1>5. Mirror' /\ NoStray' /\ OneCell'
  <2>1. Mirror'
    BY <1>3 DEF Mirror
  <2>2. NoStray'
    <3> SUFFICES ASSUME NEW c \in Cells, NEW u \in Users, channel'[u][c] > 0
                 PROVE  chan'[c] # NULL
      BY DEF NoStray
    <3>1. u \notin us /\ channel[u][c] > 0 /\ members'[c][u] > 0
      BY <1>3, <2>1 DEF Mirror
    <3> QED BY <3>1, <1>4 DEF NoStray
  <2>3. OneCell'
    BY <1>4 DEF OneCell
  <2> QED BY <2>1, <2>2, <2>3
<1>6. \A u \in Users \ us : channel'[u] = channel[u]
  BY DEF PartAll
<1>7. \A u \in us, c \in Cells : channel'[u][c] = 0
  BY <1>3
<1> QED BY <1>2, <1>5, <1>6, <1>7

\* onpart takes one node off each list.
LEMMA PartStep ==
  ASSUME HeapOK, NEW u \in Users, NEW x \in Names, Part(u, x)
  PROVE  /\ HeapOK'
         /\ \A w \in Users \ {u} : channel'[w] = channel[w]
         /\ \A c \in Cells : channel[u][c] = 0 => channel'[u][c] = 0
<1> USE DEF HeapOK
<1> PICK c \in ToChannel(x) :
      LET out == [members[c] EXCEPT ![u] = Less(@, 1)]
      IN  /\ members' = [members EXCEPT ![c] = out]
          /\ channel' = [channel EXCEPT ![u][c] = Less(@, 1)]
          /\ chan' = IF out = Nobody /\ ~chan[c].on THEN [chan EXCEPT ![c] = NULL] ELSE chan
  BY DEF Part
<1>0. c \in Cells
  BY DEF ToChannel
<1>1. /\ members' \in [Cells -> [Users -> Nat]]
      /\ channel' \in [Users -> [Cells -> Nat]]
      /\ chan' \in [Cells -> Channel \cup {NULL}]
  BY <1>0 DEF Less
<1>2. \A d \in Cells, w \in Users :
        /\ members'[d][w] = IF d = c /\ w = u THEN Less(members[d][w], 1) ELSE members[d][w]
        /\ channel'[w][d] = IF d = c /\ w = u THEN Less(channel[w][d], 1) ELSE channel[w][d]
  BY <1>0
<1>3. \A d \in Cells : \/ chan'[d] = chan[d]
                       \/ chan'[d] = NULL /\ \A w \in Users : members'[d][w] = 0
  BY <1>0, <1>2 DEF Nobody
<1>4. Mirror' /\ NoStray' /\ OneCell'
  <2>1. Mirror'
    BY <1>2 DEF Mirror
  <2>2. NoStray'
    <3> SUFFICES ASSUME NEW d \in Cells, NEW w \in Users, channel'[w][d] > 0
                 PROVE  chan'[d] # NULL
      BY DEF NoStray
    <3>1. members'[d][w] > 0
      BY <2>1 DEF Mirror
    <3>2. channel[w][d] > 0
      BY <1>2 DEF Less
    <3> QED BY <3>1, <3>2, <1>3 DEF NoStray
  <2>3. OneCell'
    BY <1>3 DEF OneCell
  <2> QED BY <2>1, <2>2, <2>3
<1>5. \A d \in Cells : channel[u][d] = 0 => channel'[u][d] = 0
  BY <1>2 DEF Less
<1> QED BY <1>0, <1>1, <1>4, <1>5

\* The service leaves channels: only those without members are freed.
LEMMA LeaveStep ==
  ASSUME HeapOK, NEW xs \in SUBSET Names, Leave(xs)
  PROVE  HeapOK' /\ channel' = channel /\ sent' \in Seq(Message)
<1> USE DEF HeapOK
<1>0. NULL \notin Channel
  BY NamesOK DEF Channel
<1>1. \A c \in Cells : \/ chan'[c] = NULL /\ (chan[c] = NULL \/ members[c] = Nobody)
                       \/ /\ chan[c] \in Channel
                          /\ chan'[c] \in Channel /\ chan'[c].name = chan[c].name
  BY <1>0 DEF Leave, Channel
<1>2. chan' \in [Cells -> Channel \cup {NULL}]
  BY <1>1 DEF Leave
<1>3. Mirror' /\ OneCell'
  BY <1>0, <1>1 DEF Leave, Mirror, OneCell
<1>4. NoStray'
  BY <1>0, <1>1 DEF Leave, NoStray, Mirror, Nobody
<1>5. sent' \in Seq(Message)
  BY OneSent DEF Leave, Message
<1> QED BY <1>2, <1>3, <1>4, <1>5 DEF Leave

-----------------------------------------------------------------------------
(* Messages of the network.                                                *)

\* What a kick sends is a message.
LEMMA KicksSent ==
  ASSUME chan' \in [Cells -> Channel \cup {NULL}], NEW c \in Cells, NEW us \in SUBSET Users,
         Kicks(c, us)
  PROVE  sent' \in Seq(Message)
<1>1. chan'[c].name \in Names
  BY DEF Kicks, Channel
<1>2. [cmd |-> "K", chans |-> {chan'[c].name}, who |-> us] \in Message
  BY <1>1 DEF Message
<1> QED BY <1>2, OneSent DEF Kicks

\* A handler that puts known clients on a channel keeps the invariant.
LEMMA JoinInv ==
  ASSUME IInv, NEW x \in Names, NEW c \in Cells, NEW us \in SUBSET Users,
         \A u \in us : server[u] # NULL,
         NewChannel(x, FALSE, c), JoinUser(us, c), AutoKick(us, c),
         UNCHANGED <<tree, book, bursting>>
  PROVE  IInv'
<1> USE DEF tree, book
<1>1. HeapOK /\ TreeOK /\ GoneOK /\ BookOK
  BY FourParts
<1>2. HeapOK' /\ \A u \in Users \ us : channel'[u] = channel[u]
  BY <1>1, JoinStep
<1>3. TreeOK'
  BY <1>1 DEF TreeOK
<1>4. GoneOK'
  BY <1>1, <1>2 DEF GoneOK
<1>5. BookOK'
  <2>1. chan' \in [Cells -> Channel \cup {NULL}]
    BY <1>2 DEF HeapOK
  <2>2. CASE sent' = <<>>
    BY <1>1, <2>2, NothingSent DEF BookOK
  <2>3. CASE \E ws \in SUBSET Users : Kicks(c, ws)
    BY <1>1, <2>1, <2>3, KicksSent DEF BookOK
  <2> QED BY <2>2, <2>3 DEF AutoKick
<1> QED BY <1>2, <1>3, <1>4, <1>5, PartsNext

\* A client joins or creates a channel.
LEMMA OnJoinInv == ASSUME IInv, NEW u \in Users, NEW x \in Names, onjoin(u, x) PROVE IInv'
BY JoinInv DEF onjoin

\* A burst puts the clients that are known on a channel.
LEMMA OnBurstInv ==
  ASSUME IInv, NEW x \in Names, NEW us \in SUBSET Users, onburst(x, us) PROVE IInv'
<1> DEFINE known == {u \in us : server[u] # NULL}
<1>1. PICK c \in Cells : NewChannel(x, FALSE, c) /\ JoinUser(known, c) /\ AutoKick(known, c)
  BY DEF onburst
<1>2. UNCHANGED <<tree, book, bursting>>
  BY DEF onburst
<1>3. known \in SUBSET Users /\ \A u \in known : server[u] # NULL
  OBVIOUS
<1> HIDE DEF known
<1> QED BY <1>1, <1>2, <1>3, JoinInv

\* What leaves the clients' servers and the defaults alone and only shortens the
\* clients' lists.
LEMMA HeapInv ==
  ASSUME IInv, HeapOK', UNCHANGED <<tree, bursting>>,
         \A u \in Users, c \in Cells : channel[u][c] = 0 => channel'[u][c] = 0,
         defs' \in SUBSET Names, file' \in SUBSET Names, sent' \in Seq(Message)
  PROVE  IInv'
<1> USE DEF tree
<1>1. TreeOK /\ GoneOK /\ BookOK
  BY FourParts
<1>2. TreeOK'
  BY <1>1 DEF TreeOK
<1>3. GoneOK'
  BY <1>1 DEF GoneOK
<1>4. BookOK'
  BY <1>1 DEF BookOK
<1> QED BY <1>2, <1>3, <1>4, PartsNext

\* Nothing happens to the lists.
LEMMA SameHeap == ASSUME HeapOK, UNCHANGED heap PROVE HeapOK' /\ channel' = channel
BY DEF HeapOK, heap, Mirror, NoStray, OneCell

\* A client leaves all its channels.
LEMMA OnJoin0Inv == ASSUME IInv, NEW u \in Users, onjoin0(u) PROVE IInv'
<1>1. HeapOK /\ BookOK /\ {u} \in SUBSET Users
  BY FourParts
<1>2. PartAll({u}) /\ sent' = <<>> /\ UNCHANGED <<tree, book, bursting>>
  BY DEF onjoin0
<1>3. /\ HeapOK'
      /\ \A c \in Cells : channel'[u][c] = 0
      /\ \A w \in Users \ {u} : channel'[w] = channel[w]
  BY <1>1, <1>2, PartAllStep
<1>4. \A w \in Users, c \in Cells : channel[w][c] = 0 => channel'[w][c] = 0
  BY <1>3
<1> QED BY <1>1, <1>2, <1>3, <1>4, HeapInv, NothingSent DEF book, BookOK

\* A client leaves a channel, or the message is ignored.
LEMMA OnPartInv == ASSUME IInv, NEW u \in Users, NEW x \in Names, onpart(u, x) PROVE IInv'
<1>1. HeapOK /\ BookOK
  BY FourParts
<1>2. sent' = <<>> /\ UNCHANGED <<tree, book, bursting>>
  BY DEF onpart
<1>3. HeapOK' /\ \A w \in Users, c \in Cells : channel[w][c] = 0 => channel'[w][c] = 0
  <2>1. CASE Part(u, x)
    BY <1>1, <2>1, PartStep
  <2>2. CASE UNCHANGED heap
    BY <1>1, <2>2, SameHeap
  <2> QED BY <2>1, <2>2 DEF onpart
<1> QED BY <1>1, <1>2, <1>3, HeapInv, NothingSent DEF book, BookOK

\* The service leaves a channel.
LEMMA PartInv == ASSUME IInv, NEW x \in Names, part(x) PROVE IInv'
<1>1. HeapOK /\ BookOK
  BY FourParts
<1>2. UNCHANGED <<tree, book, bursting>>
  BY DEF part
<1>3. HeapOK' /\ channel' = channel /\ sent' \in Seq(Message)
  <2>1. CASE Leave({x})
    BY <1>1, <2>1, LeaveStep
  <2>2. CASE UNCHANGED heap /\ sent' = <<>>
    BY <1>1, <2>2, SameHeap, NothingSent
  <2> QED BY <2>1, <2>2 DEF part
<1> QED BY <1>1, <1>2, <1>3, HeapInv DEF book, BookOK

\* A kick is a part, of the service or of a client.
LEMMA OnKickInv ==
  ASSUME IInv, NEW w \in Users \cup {Me}, NEW x \in Names, onkick(w, x) PROVE IInv'
BY PartInv, OnPartInv DEF onkick

\* Clients that go leave both lists and lose their server together.
LEMMA QuitStep ==
  ASSUME IInv, NEW us \in SUBSET Users, Quit(us)
  PROVE  HeapOK' /\ GoneOK'
         /\ server' \in [Users -> Servers \cup {NULL}]
         /\ \A u \in Users : server'[u] = IF u \in us THEN NULL ELSE server[u]
<1>1. HeapOK /\ TreeOK /\ GoneOK
  BY FourParts
<1>2. PartAll(us) /\ server' = [u \in Users |-> IF u \in us THEN NULL ELSE server[u]]
  BY DEF Quit
<1>3. /\ HeapOK'
      /\ \A u \in us, c \in Cells : channel'[u][c] = 0
      /\ \A u \in Users \ us : channel'[u] = channel[u]
  BY <1>1, <1>2, PartAllStep
<1>4. /\ server' \in [Users -> Servers \cup {NULL}]
      /\ \A u \in Users : server'[u] = IF u \in us THEN NULL ELSE server[u]
  BY <1>1, <1>2 DEF TreeOK
<1>5. GoneOK'
  BY <1>1, <1>3, <1>4 DEF GoneOK
<1> QED BY <1>3, <1>4, <1>5

\* A client comes, in place of one with its numeric.
LEMMA OnNickInv == ASSUME IInv, NEW u \in Users, NEW s \in Servers, onnick(u, s) PROVE IInv'
<1>1. HeapOK /\ TreeOK /\ GoneOK /\ BookOK
  BY FourParts
<1>2. /\ path[s] # {} /\ server' = [server EXCEPT ![u] = s] /\ sent' = <<>>
      /\ UNCHANGED <<uplink, path, book, bursting>>
  BY DEF onnick
<1>3. HeapOK' /\ \A w \in Users \ {u} : channel'[w] = channel[w]
  <2>1. CASE PartAll({u})
    BY <1>1, <2>1, PartAllStep
  <2>2. CASE UNCHANGED heap
    BY <1>1, <2>2, SameHeap
  <2> QED BY <2>1, <2>2 DEF onnick
<1>4. TreeOK'
  BY <1>1, <1>2 DEF TreeOK
<1>5. GoneOK'
  BY <1>1, <1>2, <1>3, NamesOK DEF GoneOK, TreeOK
<1>6. BookOK'
  BY <1>1, <1>2, NothingSent DEF BookOK, book
<1> QED BY <1>3, <1>4, <1>5, <1>6, PartsNext

\* A client goes.
LEMMA OnQuitInv == ASSUME IInv, NEW u \in Users, onquit(u) PROVE IInv'
<1>1. TreeOK /\ BookOK
  BY FourParts
<1>2. Quit({u}) /\ sent' = <<>> /\ UNCHANGED <<uplink, path, book, bursting>>
  BY DEF onquit
<1>3. /\ HeapOK' /\ GoneOK' /\ server' \in [Users -> Servers \cup {NULL}]
      /\ \A w \in Users : server'[w] = IF w \in {u} THEN NULL ELSE server[w]
  BY <1>2, QuitStep
<1>4. TreeOK'
  BY <1>1, <1>2, <1>3 DEF TreeOK
<1>5. BookOK'
  BY <1>1, <1>2, NothingSent DEF BookOK, book
<1> QED BY <1>3, <1>4, <1>5, PartsNext

\* The uplink is the root of the tree.
LEMMA OnUplinkInv == ASSUME IInv, NEW s \in Servers, onuplink(s) PROVE IInv'
<1>1. HeapOK /\ TreeOK /\ GoneOK /\ BookOK
  BY FourParts
<1>2. /\ uplink = NULL /\ uplink' = s /\ path' = [path EXCEPT ![s] = {s}] /\ sent' = <<>>
      /\ UNCHANGED <<heap, server, book, bursting>>
  BY DEF onuplink
<1>3. HeapOK' /\ channel' = channel
  BY <1>1, <1>2, SameHeap
<1>4. \A t \in Servers : path[t] = {}
  BY <1>1, <1>2, NamesOK DEF TreeOK
<1>5. TreeOK'
  <2>1. /\ path' \in [Servers -> SUBSET Servers]
        /\ \A t \in Servers : path'[t] = IF t = s THEN {s} ELSE {}
    BY <1>1, <1>2, <1>4 DEF TreeOK
  <2> QED BY <1>1, <1>2, <1>4, <2>1 DEF TreeOK
<1>6. GoneOK' /\ BookOK'
  BY <1>1, <1>2, <1>3, NothingSent DEF GoneOK, BookOK, book
<1> QED BY <1>3, <1>5, <1>6, PartsNext

\* A server is hung below one that is in the tree.
LEMMA OnServerInv == ASSUME IInv, NEW s \in Servers, NEW p \in Servers, onserver(s, p) PROVE IInv'
<1>1. HeapOK /\ TreeOK /\ GoneOK /\ BookOK
  BY FourParts
<1>2. /\ path[p] # {} /\ path[s] = {} /\ path' = [path EXCEPT ![s] = {s} \cup path[p]]
      /\ sent' = <<>> /\ UNCHANGED <<heap, server, uplink, book, bursting>>
  BY DEF onserver
<1>3. HeapOK' /\ channel' = channel
  BY <1>1, <1>2, SameHeap
<1>4. TreeOK'
  <2>1. /\ path' \in [Servers -> SUBSET Servers]
        /\ \A t \in Servers : path'[t] = IF t = s THEN {s} \cup path[p] ELSE path[t]
    BY <1>1, <1>2 DEF TreeOK
  <2>2. \A t \in Servers : s \notin path[t]
    BY <1>1, <1>2 DEF TreeOK
  <2>3. \A u \in Users : server'[u] # NULL => path'[server'[u]] # {}
    BY <1>1, <1>2, <2>1 DEF TreeOK
  <2>4. ASSUME NEW t \in Servers, path'[t] # {}
        PROVE  /\ t \in path'[t] /\ uplink' \in path'[t]
               /\ \A q \in path'[t] : path'[q] # {} /\ path'[q] \subseteq path'[t]
    <3>1. CASE t = s
      BY <1>1, <1>2, <2>1, <2>2, <2>4, <3>1 DEF TreeOK
    <3>2. CASE t # s
      BY <1>1, <1>2, <2>1, <2>2, <2>4, <3>2 DEF TreeOK
    <3> QED BY <3>1, <3>2
  <2> QED BY <1>1, <1>2, <2>1, <2>3, <2>4 DEF TreeOK
<1>5. GoneOK' /\ BookOK'
  BY <1>1, <1>2, <1>3, NothingSent DEF GoneOK, BookOK, book
<1> QED BY <1>3, <1>4, <1>5, PartsNext

\* The servers below one that goes take their clients with them; the rest of the tree stays.
LEMMA OnSquitInv ==
  ASSUME IInv, NEW s \in Servers, NEW same \in BOOLEAN, onsquit(s, same) PROVE IInv'
<1>1. HeapOK /\ TreeOK /\ GoneOK /\ BookOK
  BY FourParts
<1>2. path[s] # {} /\ s # uplink /\ sent' = <<>> /\ UNCHANGED <<book, bursting>>
  BY DEF onsquit
<1>3. CASE Squit(s)
  <2> DEFINE us == {u \in Users : server[u] \in Below(s)}
  <2>1. /\ Quit(us)
        /\ path' = [t \in Servers |-> IF t \in Below(s) THEN {} ELSE path[t]]
        /\ uplink' = uplink
    BY <1>2, <1>3 DEF Squit
  <2>2. /\ HeapOK' /\ GoneOK' /\ server' \in [Users -> Servers \cup {NULL}]
        /\ \A u \in Users : server'[u] = IF u \in us THEN NULL ELSE server[u]
    BY <2>1, QuitStep
  <2>3. \A t \in Servers : path'[t] = IF s \in path[t] THEN {} ELSE path[t]
    BY <2>1 DEF Below
  <2>4. TreeOK'
    <3>1. path' \in [Servers -> SUBSET Servers] /\ uplink' \in Servers \cup {NULL}
      BY <1>1, <2>1 DEF TreeOK
    <3>2. \A u \in Users : server'[u] # NULL => path'[server'[u]] # {}
      BY <1>1, <2>2, <2>3 DEF TreeOK, Below
    <3>3. ASSUME NEW t \in Servers, path'[t] # {}
          PROVE  /\ t \in path'[t] /\ uplink' \in path'[t]
                 /\ \A q \in path'[t] : path'[q] # {} /\ path'[q] \subseteq path'[t]
      <4>1. s \notin path[t] /\ path'[t] = path[t] /\ path[t] # {}
        BY <2>3, <3>3
      <4>2. \A q \in path[t] : q \in Servers /\ path[q] # {} /\ path[q] \subseteq path[t]
        BY <1>1, <4>1 DEF TreeOK
      <4>3. \A q \in path[t] : path'[q] = path[q]
        BY <2>3, <4>1, <4>2
      <4> QED BY <1>1, <2>1, <4>1, <4>2, <4>3 DEF TreeOK
    <3> QED BY <2>2, <3>1, <3>2, <3>3 DEF TreeOK
  <2>5. BookOK'
    BY <1>1, <1>2, NothingSent DEF BookOK, book
  <2> QED BY <2>2, <2>4, <2>5, PartsNext
<1>4. CASE UNCHANGED <<heap, tree>>
  <2>1. HeapOK' /\ channel' = channel
    BY <1>1, <1>4, SameHeap
  <2> QED BY <1>1, <1>2, <1>4, <2>1, HeapInv, NothingSent DEF book, BookOK
<1> QED BY <1>3, <1>4 DEF onsquit

-----------------------------------------------------------------------------
(* Commands, timers, and the end of the burst.                             *)

\* join marks the channel it finds, or makes one with no members.
LEMMA JoinCommandInv == ASSUME IInv, NEW x \in Names, join(x) PROVE IInv'
<1> USE DEF HeapOK
<1>0. NULL \notin Channel
  BY NamesOK DEF Channel
<1>1. HeapOK /\ BookOK /\ UNCHANGED <<members, channel, tree, book, bursting>>
  BY FourParts DEF join
<1>2. PICK c \in Cells :
        IF ToChannel(x) = {}
        THEN /\ NewChannel(x, TRUE, c)
             /\ sent' = <<[cmd |-> "C", chans |-> {x}]>>
        ELSE /\ c \in ToChannel(x)
             /\ chan' = [chan EXCEPT ![c].on = TRUE]
             /\ sent' = <<[cmd |-> "J", chans |-> {x}]>>
  BY DEF join
<1>3. sent' \in Seq(Message)
  BY <1>2, OneSent DEF Message
<1>4. /\ chan' \in [Cells -> Channel \cup {NULL}]
      /\ \A d \in Cells : chan[d] # NULL => chan'[d] # NULL /\ chan'[d].name = chan[d].name
      /\ \A d \in Cells \ {c} : chan'[d] = chan[d]
      /\ chan'[c] # NULL /\ chan'[c].name = x
      /\ chan[c] = NULL => ToChannel(x) = {}
  <2>1. CASE ToChannel(x) = {} /\ c \in ToChannel(x)
    BY <2>1
  <2>2. CASE /\ ToChannel(x) = {} /\ chan[c] = NULL
             /\ chan' = [chan EXCEPT ![c] = [name |-> x, on |-> TRUE]]
    <3>1. [name |-> x, on |-> TRUE] \in Channel
      BY DEF Channel
    <3>2. chan' \in [Cells -> Channel \cup {NULL}] /\ chan'[c] = [name |-> x, on |-> TRUE]
      BY <1>1, <2>2, <3>1
    <3> QED BY <1>0, <1>1, <2>2, <3>1, <3>2
  <2>3. CASE c \in ToChannel(x) /\ chan' = [chan EXCEPT ![c].on = TRUE]
    <3>1. chan[c] # NULL /\ chan[c] \in Channel /\ chan[c].name = x
      BY <1>1, <2>3 DEF ToChannel
    <3>2. [chan[c] EXCEPT !.on = TRUE] \in Channel /\ [chan[c] EXCEPT !.on = TRUE].name = x
      BY <3>1 DEF Channel
    <3>3. /\ chan' \in [Cells -> Channel \cup {NULL}]
          /\ chan'[c] \in Channel /\ chan'[c].name = x
          /\ \A d \in Cells \ {c} : chan'[d] = chan[d]
      BY <1>1, <2>3, <3>1, <3>2
    <3> QED BY <1>0, <1>1, <3>1, <3>3
  <2> QED BY <1>2, <2>1, <2>2, <2>3 DEF NewChannel
<1>5. Mirror' /\ NoStray'
  BY <1>1, <1>4 DEF Mirror, NoStray
<1>6. OneCell'
  <2> SUFFICES ASSUME NEW d \in Cells, NEW e \in Cells,
                      chan'[d] # NULL, chan'[e] # NULL, chan'[d].name = chan'[e].name
               PROVE  d = e
    BY DEF OneCell
  <2> QED BY <1>1, <1>4 DEF OneCell, ToChannel
<1> QED BY <1>1, <1>3, <1>4, <1>5, <1>6, HeapInv DEF book, BookOK

\* A kick only sends.
LEMMA KickInv == ASSUME IInv, NEW us \in SUBSET Users, NEW x \in Names, kick(us, x) PROVE IInv'
<1>1. HeapOK /\ BookOK
  BY FourParts
<1>2. UNCHANGED <<heap, tree, book, bursting>>
  BY DEF kick
<1>3. HeapOK' /\ channel' = channel
  BY <1>1, <1>2, SameHeap
<1>4. sent' \in Seq(Message)
  <2>1. PICK c \in ToChannel(x) : Kicks(c, us)
    BY DEF kick
  <2> QED BY <1>3, <2>1, KicksSent DEF ToChannel, HeapOK
<1> QED BY <1>1, <1>2, <1>3, <1>4, HeapInv DEF book, BookOK

\* Idle channels are left and taken off the defaults.
LEMMA CheckIdleInv == ASSUME IInv, NEW idle \in SUBSET Names, CheckIdleChannels(idle) PROVE IInv'
<1>1. HeapOK /\ BookOK
  BY FourParts
<1>2. Leave(idle) /\ defs' \in SUBSET defs /\ UNCHANGED <<tree, file, bursting>>
  BY DEF CheckIdleChannels
<1>3. HeapOK' /\ channel' = channel /\ sent' \in Seq(Message)
  BY <1>1, <1>2, LeaveStep
<1> QED BY <1>1, <1>2, <1>3, HeapInv DEF BookOK

\* So is a channel that is purged.
LEMMA PurgeInv == ASSUME IInv, NEW x \in Names, purge(x) PROVE IInv'
<1>1. HeapOK /\ BookOK
  BY FourParts
<1>2. defs' = defs \ {x} /\ UNCHANGED <<tree, file, bursting>>
  BY DEF purge
<1>3. HeapOK' /\ channel' = channel /\ sent' \in Seq(Message)
  <2>1. CASE Leave({x})
    BY <1>1, <2>1, LeaveStep
  <2>2. CASE UNCHANGED heap /\ sent' = <<>>
    BY <1>1, <2>2, SameHeap, NothingSent
  <2> QED BY <2>1, <2>2 DEF purge
<1> QED BY <1>1, <1>2, <1>3, HeapInv DEF BookOK

\* The commands and timers of the defaults touch nothing else.
LEMMA DefaultsInv ==
  ASSUME IInv, SaveDefs \/ LoadDefs \/ \E x \in Names : AddChan(x) \/ RemChan(x)
  PROVE  IInv'
<1>1. HeapOK /\ BookOK
  BY FourParts
<1>2. /\ sent' = <<>> /\ UNCHANGED <<heap, tree, bursting>>
      /\ defs' \in SUBSET Names /\ file' \in SUBSET Names
  BY <1>1 DEF BookOK, SaveDefs, LoadDefs, AddChan, RemChan
<1>3. HeapOK' /\ channel' = channel
  BY <1>1, <1>2, SameHeap
<1> QED BY <1>2, <1>3, HeapInv, NothingSent

\* The burst of the service marks the default channels it knows and makes the others, each
\* in a cell of its own.
LEMMA SendBurstStep ==
  ASSUME HeapOK, BookOK, SendBurst
  PROVE  HeapOK' /\ channel' = channel /\ sent' \in Seq(Message)
<1> USE DEF HeapOK
<1>0. NULL \notin Channel
  BY NamesOK DEF Channel
<1>1. PICK at \in [defs -> Cells] :
        /\ \A x, y \in defs : at[x] = at[y] => x = y
        /\ \A x \in defs : IF ToChannel(x) # {} THEN at[x] \in ToChannel(x)
                                               ELSE chan[at[x]] = NULL
        /\ chan' = [c \in Cells |-> IF \E x \in defs : at[x] = c
                                    THEN [name |-> CHOOSE x \in defs : at[x] = c, on |-> TRUE]
                                    ELSE chan[c]]
  BY DEF SendBurst
<1>2. defs \subseteq Names
  BY DEF BookOK
<1>3. \A x \in defs, c \in Cells : at[x] = c =>
        chan'[c] \in Channel /\ chan'[c] # NULL /\ chan'[c].name = x
  <2> SUFFICES ASSUME NEW x \in defs, NEW c \in Cells, at[x] = c
               PROVE  chan'[c] \in Channel /\ chan'[c] # NULL /\ chan'[c].name = x
    OBVIOUS
  <2>1. x = CHOOSE y \in defs : at[y] = c
    BY <1>1
  <2>2. chan'[c] = [name |-> x, on |-> TRUE]
    BY <1>1, <2>1
  <2>3. chan'[c] \in Channel /\ chan'[c].name = x
    BY <1>2, <2>2 DEF Channel
  <2> QED BY <1>0, <2>3
<1>4. \A c \in Cells : (\A x \in defs : at[x] # c) => chan'[c] = chan[c]
  BY <1>1
<1>5. \A c \in Cells : chan[c] # NULL => chan'[c] # NULL
  BY <1>3, <1>4
<1>6. chan' \in [Cells -> Channel \cup {NULL}]
  <2>1. \A c \in Cells : chan'[c] \in Channel \cup {NULL}
    BY <1>3, <1>4
  <2> QED BY <1>1, <2>1
<1>7. Mirror' /\ NoStray'
  BY <1>5 DEF SendBurst, Mirror, NoStray
<1>8. OneCell'
  <2> SUFFICES ASSUME NEW c \in Cells, NEW d \in Cells,
                      chan'[c] # NULL, chan'[d] # NULL, chan'[c].name = chan'[d].name
               PROVE  c = d
    BY DEF OneCell
  \* a cell the burst marks is the one of its name
  <2>1. ASSUME NEW e \in Cells, NEW f \in Cells, NEW x \in defs, at[x] = e,
               chan'[f] # NULL, chan'[f].name = x
        PROVE  e = f
    <3>1. CASE \E y \in defs : at[y] = f
      BY <1>3, <2>1, <3>1
    <3>2. CASE \A y \in defs : at[y] # f
      <4>1. f \in ToChannel(x)
        BY <1>4, <2>1, <3>2 DEF ToChannel
      <4>2. e \in ToChannel(x)
        BY <1>1, <2>1, <4>1
      <4> QED BY <4>1, <4>2 DEF ToChannel, OneCell
    <3> QED BY <3>1, <3>2
  <2>2. CASE \E x \in defs : at[x] = c
    BY <1>3, <2>1, <2>2
  <2>3. CASE \E x \in defs : at[x] = d
    BY <1>3, <2>1, <2>3
  <2>4. CASE (\A x \in defs : at[x] # c) /\ (\A x \in defs : at[x] # d)
    BY <1>4, <2>4 DEF OneCell
  <2> QED BY <2>2, <2>3, <2>4
<1>9. sent' \in Seq(Message)
  BY <1>2, OneSent DEF SendBurst, Message
<1> QED BY <1>6, <1>7, <1>8, <1>9 DEF SendBurst

\* The end of a burst: the uplink's makes the service burst, any other does nothing.
LEMMA EBInv == ASSUME IInv, NEW s \in Servers, EB(s) PROVE IInv'
<1>1. HeapOK /\ TreeOK /\ GoneOK /\ BookOK
  BY FourParts
<1>2. UNCHANGED <<tree, book>> /\ bursting' \in BOOLEAN
  BY <1>1 DEF EB, BookOK
<1>3. HeapOK' /\ channel' = channel /\ sent' \in Seq(Message)
  <2>1. CASE SendBurst
    BY <1>1, <2>1, SendBurstStep
  <2>2. CASE UNCHANGED heap /\ sent' = <<>>
    BY <1>1, <2>2, SameHeap, NothingSent
  <2> QED BY <2>1, <2>2 DEF EB
<1>4. TreeOK' /\ GoneOK' /\ BookOK'
  BY <1>1, <1>2, <1>3 DEF TreeOK, GoneOK, BookOK, tree, book
<1> QED BY <1>3, <1>4, PartsNext

-----------------------------------------------------------------------------
(* The connection is lost, or the process ends.                            *)

\* Nothing is on any list, no client is known and the tree is empty.
LEMMA EmptyInv ==
  ASSUME chan' = [c \in Cells |-> NULL],
         members' = [c \in Cells |-> Nobody],
         \A u \in Users, c \in Cells : channel'[u][c] = 0,
         channel' \in [Users -> [Cells -> Nat]],
         server' \in [Users -> {NULL}],
         uplink' = NULL,
         path' \in [Servers -> {{}}],
         BookOK'
  PROVE  IInv'
<1>1. HeapOK'
  BY DEF HeapOK, Mirror, NoStray, OneCell, Nobody
<1>2. TreeOK' /\ GoneOK'
  BY DEF TreeOK, GoneOK
<1> QED BY <1>1, <1>2, PartsNext

\* QuitAll leaves nothing behind, because every client hangs on the uplink.
LEMMA ReconnectInv == ASSUME IInv, reconnect PROVE IInv'
<1>1. HeapOK /\ TreeOK /\ GoneOK /\ BookOK
  BY FourParts
<1>2. QuitAll /\ bursting' = TRUE /\ sent' = <<>> /\ UNCHANGED book
  BY DEF reconnect
<1> DEFINE gone == IF uplink = NULL THEN {} ELSE {u \in Users : server[u] \in Below(uplink)}
<1>3. /\ server' = [u \in Users |-> IF u \in gone THEN NULL ELSE server[u]]
      /\ channel' = [u \in Users |-> IF u \in gone THEN [c \in Cells |-> 0] ELSE channel[u]]
      /\ chan' = [c \in Cells |-> NULL] /\ members' = [c \in Cells |-> Nobody]
      /\ uplink' = NULL
  BY <1>2 DEF QuitAll
<1>4. path' = [t \in Servers |-> IF uplink # NULL /\ t \in Below(uplink) THEN {} ELSE path[t]]
  BY <1>2 DEF QuitAll
<1>5. \A t \in Servers : path[t] # {} => uplink # NULL /\ t \in Below(uplink)
  BY <1>1, NamesOK DEF TreeOK, Below
<1>6. \A u \in Users : server[u] # NULL => u \in gone
  BY <1>1, <1>5 DEF TreeOK
<1> HIDE DEF gone
<1>7. path' \in [Servers -> {{}}]
  BY <1>4, <1>5
<1>8. server' \in [Users -> {NULL}]
  BY <1>3, <1>6
<1>9. /\ channel' \in [Users -> [Cells -> Nat]]
      /\ \A u \in Users, c \in Cells : channel'[u][c] = 0
  <2>1. channel \in [Users -> [Cells -> Nat]]
    BY <1>1 DEF HeapOK
  <2> QED BY <1>1, <1>3, <1>6, <2>1 DEF GoneOK
<1>10. BookOK'
  BY <1>1, <1>2, NothingSent DEF BookOK, book
<1> QED BY <1>3, <1>7, <1>8, <1>9, <1>10, EmptyInv

\* So does the end of the process.
LEMMA RestartedInv == ASSUME IInv, NEW saved \in SUBSET Names, Restarted(saved) PROVE IInv'
<1>1. BookOK'
  BY NothingSent DEF BookOK, Restarted
<1>2. /\ chan' = [c \in Cells |-> NULL] /\ members' = [c \in Cells |-> Nobody]
      /\ channel' \in [Users -> [Cells -> Nat]]
      /\ \A u \in Users, c \in Cells : channel'[u][c] = 0
      /\ server' \in [Users -> {NULL}] /\ uplink' = NULL /\ path' \in [Servers -> {{}}]
  BY DEF Restarted
<1> QED BY <1>1, <1>2, EmptyInv

-----------------------------------------------------------------------------
(* The specification.                                                      *)

\* The service starts with empty lists and the defaults of the file.
THEOREM ChannelsInit == Init => IInv
<1> SUFFICES ASSUME Init PROVE IInv
  OBVIOUS
<1>1. HeapOK
  BY DEF Init, HeapOK, Mirror, NoStray, OneCell, Nobody
<1>2. TreeOK /\ GoneOK
  BY DEF Init, TreeOK, GoneOK
<1>3. BookOK
  BY NothingSent DEF Init, BookOK
<1> QED BY <1>1, <1>2, <1>3, FourParts

\* No handler, command or timer breaks the invariant.
THEOREM ChannelsNext == IInv /\ [Next]_vars => IInv'
<1> SUFFICES ASSUME IInv, [Next]_vars PROVE IInv'
  OBVIOUS
<1>1. ASSUME NEW u \in Users, NEW x \in Names,
             onjoin(u, x) \/ onpart(u, x) \/ onkick(u, x)
      PROVE  IInv'
  BY <1>1, OnJoinInv, OnPartInv, OnKickInv
<1>2. ASSUME NEW u \in Users, onjoin0(u) \/ onquit(u) \/ onkill(u) PROVE IInv'
  BY <1>2, OnJoin0Inv, OnQuitInv DEF onkill
<1>3. ASSUME NEW x \in Names, NEW us \in SUBSET Users, onburst(x, us) \/ kick(us, x) PROVE IInv'
  BY <1>3, OnBurstInv, KickInv
<1>4. ASSUME NEW u \in Users, NEW s \in Servers, onnick(u, s) PROVE IInv'
  BY <1>4, OnNickInv
<1>5. ASSUME NEW s \in Servers, onuplink(s) \/ EB(s) PROVE IInv'
  BY <1>5, OnUplinkInv, EBInv
<1>6. ASSUME NEW s \in Servers, NEW p \in Servers, onserver(s, p) PROVE IInv'
  BY <1>6, OnServerInv
<1>7. ASSUME NEW s \in Servers, NEW same \in BOOLEAN, onsquit(s, same) PROVE IInv'
  BY <1>7, OnSquitInv
<1>8. ASSUME NEW x \in Names, join(x) \/ part(x) \/ onkick(Me, x) \/ purge(x) PROVE IInv'
  BY <1>8, JoinCommandInv, PartInv, OnKickInv, PurgeInv
<1>9. ASSUME NEW x \in Names, AddChan(x) \/ RemChan(x) PROVE IInv'
  BY <1>9, DefaultsInv
<1>10. ASSUME NEW idle \in SUBSET Names, CheckIdleChannels(idle) PROVE IInv'
  BY <1>10, CheckIdleInv
<1>11. CASE SaveDefs \/ LoadDefs
  BY <1>11, DefaultsInv
<1>12. CASE reconnect
  BY <1>12, ReconnectInv
<1>13. CASE quit \/ Die
  <2>1. defs \in SUBSET Names /\ file \in SUBSET Names
    BY DEF IInv, TypeOK
  <2> QED BY <1>13, <2>1, RestartedInv DEF quit, Die
<1>14. CASE UNCHANGED vars
  <2>1. HeapOK /\ BookOK /\ UNCHANGED <<heap, tree, book, bursting, sent>>
    BY <1>14, FourParts DEF vars
  <2>2. HeapOK' /\ channel' = channel
    BY <2>1, SameHeap
  <2> QED BY <2>1, <2>2, HeapInv DEF book, BookOK
<1> QED BY <1>1, <1>2, <1>3, <1>4, <1>5, <1>6, <1>7, <1>8, <1>9, <1>10, <1>11, <1>12,
           <1>13, <1>14 DEF Next

\* The invariant holds in every behaviour.
THEOREM ChannelsInvariance == Spec => []IInv
<1> QED BY ChannelsInit, ChannelsNext, PTL DEF Spec

\* All state stays of its type; the counters of Part and PartAll never go below zero.
THEOREM ChannelsTypeCorrect == Spec => []TypeOK
<1>1. IInv => TypeOK
  BY DEF IInv
<1> QED BY <1>1, ChannelsInvariance, PTL

\* The two lists of every membership agree, however handlers, commands, splits and
\* reconnections follow each other.
THEOREM MirrorCorrect == Spec => []Mirror
<1>1. IInv => Mirror
  BY DEF IInv
<1> QED BY <1>1, ChannelsInvariance, PTL

\* No client's list ever points to a channel that was freed.
THEOREM NoStrayCorrect == Spec => []NoStray
<1>1. IInv => NoStray
  BY DEF IInv
<1> QED BY <1>1, ChannelsInvariance, PTL

\* No channel is ever in the hash table twice.
THEOREM OneCellCorrect == Spec => []OneCell
<1>1. IInv => OneCell
  BY DEF IInv
<1> QED BY <1>1, ChannelsInvariance, PTL

\* Clients that are gone are on no list, and the others hang on the uplink: a lost
\* connection forgets them all.
THEOREM AttachedCorrect == Spec => []Attached
<1>1. IInv => Attached
  BY DEF IInv
<1> QED BY <1>1, ChannelsInvariance, PTL
=============================================================================
