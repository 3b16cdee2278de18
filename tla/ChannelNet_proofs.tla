-------------------------- MODULE ChannelNet_proofs --------------------------
(***************************************************************************)
(* The service on its network implements Channels: every message that can  *)
(* arrive is one a handler of Channels is defined for, with a client, a    *)
(* server and a channel of the network.  What Channels_proofs shows of the *)
(* lists for messages in any order thus holds of the composition, for any  *)
(* network and any length of the pipes.  The second half is about what is  *)
(* in the pipes: Agreement, NoDouble and NoAbandoned.                      *)
(***************************************************************************)
EXTENDS ChannelNet, Channels_proofs, FiniteSetTheorems, SequenceTheorems

\* What the network can tell the service.
InMessage ==
  [cmd : {"SERVER", "S", "SQ", "EB"}, srv : Servers]
  \cup [cmd : {"N"}, who : Users, srv : Servers]
  \cup [cmd : {"Q", "J0"}, who : Users]
  \cup [cmd : {"C", "J", "L"}, who : Users, chan : Names]
  \cup [cmd : {"K"}, who : Users \cup {Me}, chan : Names]
  \cup [cmd : {"B"}, who : SUBSET Users, chan : Names]

\* The network and the pipes are of their type, and without a connection the service is
\* on no channel and nothing of it is on its way.
PipesOK ==
  /\ link \in BOOLEAN
  /\ net \in [Names -> SUBSET (Users \cup {Me})]
  /\ home \in [Users -> Servers \cup {NULL}]
  /\ leaves \in SUBSET Servers
  /\ zombies \in SUBSET (Users \X Names)
  /\ toX \in Seq(InMessage)
  /\ toNet \in Seq(Message)
  /\ ~link => toNet = <<>> /\ \A x \in Names : net[x] \subseteq Users

NetInv == IInv /\ PipesOK

-----------------------------------------------------------------------------
(* What arrives.                                                           *)

LEMMA InMessageParts ==
  ASSUME NEW m \in InMessage
  PROVE  /\ m.cmd \in {"SERVER", "S", "SQ", "EB", "N", "Q", "J0", "C", "J", "L", "K", "B"}
         /\ m.cmd \in {"SERVER", "S", "SQ", "EB", "N"} => m.srv \in Servers
         /\ m.cmd \in {"N", "Q", "J0", "C", "J", "L"} => m.who \in Users
         /\ m.cmd \in {"C", "J", "L", "K", "B"} => m.chan \in Names
         /\ m.cmd = "K" => m.who \in Users \cup {Me}
         /\ m.cmd = "B" => m.who \in SUBSET Users
<1>1. CASE m \in [cmd : {"SERVER", "S", "SQ", "EB"}, srv : Servers]
  BY <1>1
<1>2. CASE m \in [cmd : {"N"}, who : Users, srv : Servers]
  BY <1>2
<1>3. CASE m \in [cmd : {"Q", "J0"}, who : Users]
  BY <1>3
<1>4. CASE m \in [cmd : {"C", "J", "L"}, who : Users, chan : Names]
  BY <1>4
<1>5. CASE m \in [cmd : {"K"}, who : Users \cup {Me}, chan : Names]
  BY <1>5
<1>6. CASE m \in [cmd : {"B"}, who : SUBSET Users, chan : Names]
  BY <1>6
<1> QED BY <1>1, <1>2, <1>3, <1>4, <1>5, <1>6 DEF InMessage

LEMMA SetToSeqInto ==
  ASSUME NEW S, IsFiniteSet(S)
  PROVE  SetToSeq(S) \in [1..Cardinality(S) -> S] /\ Cardinality(S) \in Nat
<1>1. Cardinality(S) \in Nat /\ ExistsBijection(1..Cardinality(S), S)
  BY FS_CardinalityType
<1>2. \E f \in [1..Cardinality(S) -> S] : IsInjective(f)
  BY <1>1, Zenon DEF ExistsBijection, Bijection, Injection
<1> QED BY <1>1, <1>2, Zenon DEF SetToSeq

\* Every message of the uplink's burst.
LEMMA BurstTyped ==
  ASSUME PipesOK, ~link
  PROVE  Burst \in Seq(InMessage)
<1> DEFINE open == SetToSeq({x \in Names : net[x] # {}})
           S == [i \in 1..Len(SetToSeq(leaves)) |->
                   [cmd |-> "S", srv |-> SetToSeq(leaves)[i]]]
           N == [i \in 1..Len(SetToSeq(Online)) |->
                   [cmd |-> "N", who |-> SetToSeq(Online)[i], srv |-> home[SetToSeq(Online)[i]]]]
           B == [i \in 1..Len(open) |-> [cmd |-> "B", who |-> net[open[i]], chan |-> open[i]]]
<1>1. <<[cmd |-> "SERVER", srv |-> Hub]>> \in Seq(InMessage)
  BY NetOK DEF InMessage
<1>2. S \in Seq(InMessage)
  <2>1. IsFiniteSet(leaves)
    BY NetOK, FS_Subset DEF PipesOK
  <2>2. SetToSeq(leaves) \in Seq(leaves)
    BY <2>1, SetToSeqInto
  <2> DEFINE f == SetToSeq(leaves)
  <2> HIDE DEF f
  <2>3. f \in Seq(leaves) /\ leaves \subseteq Servers
    BY <2>2 DEF f, PipesOK
  <2>4. \A i \in 1..Len(f) : [cmd |-> "S", srv |-> f[i]] \in InMessage
    BY <2>3 DEF InMessage
  <2>5. [i \in 1..Len(f) |-> [cmd |-> "S", srv |-> f[i]]] \in Seq(InMessage)
    BY <2>3, <2>4
  <2> QED BY <2>5 DEF f
<1>3. N \in Seq(InMessage)
  <2>1. IsFiniteSet(Online)
    BY NetOK, FS_Subset DEF Online
  <2>2. SetToSeq(Online) \in Seq(Online)
    BY <2>1, SetToSeqInto
  <2> DEFINE f == SetToSeq(Online)
  <2> HIDE DEF f
  <2>3. f \in Seq(Online) /\ \A u \in Online : u \in Users /\ home[u] \in Servers
    BY <2>2 DEF f, PipesOK, Online
  <2>4. \A i \in 1..Len(f) : [cmd |-> "N", who |-> f[i], srv |-> home[f[i]]] \in InMessage
    BY <2>3 DEF InMessage
  <2>5. [i \in 1..Len(f) |-> [cmd |-> "N", who |-> f[i], srv |-> home[f[i]]]]
          \in Seq(InMessage)
    BY <2>3, <2>4
  <2> QED BY <2>5 DEF f
<1>4. B \in Seq(InMessage)
  <2> DEFINE O == {x \in Names : net[x] # {}}
  <2>1. IsFiniteSet(O)
    BY NetOK, FS_Subset
  <2>2. SetToSeq(O) \in Seq(O)
    BY <2>1, SetToSeqInto
  <2> DEFINE f == SetToSeq(O)
  <2> HIDE DEF f
  <2>3. f \in Seq(O) /\ \A x \in O : x \in Names /\ net[x] \in SUBSET Users
    BY <2>2 DEF f, PipesOK
  <2> HIDE DEF O
  <2>4. \A i \in 1..Len(f) : [cmd |-> "B", who |-> net[f[i]], chan |-> f[i]] \in InMessage
    BY <2>3 DEF InMessage
  <2>5. [i \in 1..Len(f) |-> [cmd |-> "B", who |-> net[f[i]], chan |-> f[i]]]
          \in Seq(InMessage)
    BY <2>3, <2>4
  <2> QED BY <2>5 DEF f, O
<1>5. <<[cmd |-> "EB", srv |-> Hub]>> \in Seq(InMessage)
  BY NetOK DEF InMessage
<1> HIDE DEF S, N, B
<1>6. <<[cmd |-> "SERVER", srv |-> Hub]>> \o S \o N \o (B \o <<[cmd |-> "EB", srv |-> Hub]>>)
        \in Seq(InMessage)
  BY <1>1, <1>2, <1>3, <1>4, <1>5
<1> QED BY <1>6, Zenon DEF Burst, S, N, B

\* Whatever the network adds to the pipe.
LEMMA TellTyped ==
  ASSUME NEW ms \in Seq(InMessage), toX \in Seq(InMessage), Tell(ms)
  PROVE  toX' \in Seq(InMessage)
BY DEF Tell

LEMMA SendTyped ==
  ASSUME toNet \in Seq(Message), sent' \in Seq(Message), Send
  PROVE  toNet' \in Seq(Message) /\ (~link => toNet' = toNet)
BY DEF Send

-----------------------------------------------------------------------------
(* Every step of the composition is a step of Channels or leaves it alone. *)

LEMMA ReceiveSteps ==
  ASSUME NEW m \in InMessage, proc(m)
  PROVE  Next
<1> USE InMessageParts
<1>1. CASE m.cmd = "SERVER"
  <2>1. onuplink(m.srv)
    BY <1>1 DEF proc
  <2> QED BY <1>1, <2>1 DEF Next
<1>2. CASE m.cmd = "S"
  <2>1. onserver(m.srv, Hub)
    BY <1>2 DEF proc
  <2> QED BY <1>2, <2>1, NetOK DEF Next
<1>3. CASE m.cmd = "SQ"
  <2>1. onsquit(m.srv, TRUE)
    BY <1>3 DEF proc
  <2> QED BY <1>3, <2>1 DEF Next
<1>4. CASE m.cmd = "EB"
  <2>1. EB(m.srv)
    BY <1>4 DEF proc
  <2> QED BY <1>4, <2>1 DEF Next
<1>5. CASE m.cmd = "N"
  <2>1. onnick(m.who, m.srv)
    BY <1>5 DEF proc
  <2> QED BY <1>5, <2>1 DEF Next
<1>6. CASE m.cmd = "Q"
  <2>1. onquit(m.who)
    BY <1>6 DEF proc
  <2> QED BY <1>6, <2>1 DEF Next
<1>7. CASE m.cmd \in {"C", "J"}
  <2>1. onjoin(m.who, m.chan)
    BY <1>7 DEF proc
  <2> QED BY <1>7, <2>1 DEF Next
<1>8. CASE m.cmd = "J0"
  <2>1. onjoin0(m.who)
    BY <1>8 DEF proc
  <2> QED BY <1>8, <2>1 DEF Next
<1>9. CASE m.cmd = "B"
  <2>1. onburst(m.chan, m.who)
    BY <1>9 DEF proc
  <2> QED BY <1>9, <2>1 DEF Next
<1>10. CASE m.cmd = "L"
  <2>1. onpart(m.who, m.chan)
    BY <1>10 DEF proc
  <2> QED BY <1>10, <2>1 DEF Next
<1>11. CASE m.cmd = "K"
  <2>1. onkick(m.who, m.chan)
    BY <1>11 DEF proc
  <2>2. CASE m.who = Me
    BY <1>11, <2>1, <2>2 DEF Next
  <2>3. CASE m.who # Me
    BY <1>11, <2>1, <2>3 DEF Next
  <2> QED BY <2>2, <2>3
<1> QED BY <1>1, <1>2, <1>3, <1>4, <1>5, <1>6, <1>7, <1>8, <1>9, <1>10, <1>11

\* The steps of the network that the service has no part in.
Network ==
  \/ \E u \in Users, s \in Servers : SignOn(u, s)
  \/ \E u \in Users : SignOff(u) \/ PartsAll(u)
  \/ \E u \in Users, x \in Names : Joins(u, x) \/ Parts(u, x) \/ ZombieGone(u, x)
  \/ \E us \in SUBSET Users, x \in Names : BurstsIn(us, x)
  \/ \E w \in Users \cup {Me}, x \in Names : Kicked(w, x)
  \/ \E s \in Servers : NetJoin(s) \/ NetSplit(s)

LEMMA NetSteps ==
  ASSUME PipesOK, [NetNext]_<<vars, netvars>>
  PROVE  [Next]_vars
<1>1. CASE Receive
  <2>1. Head(toX) \in InMessage
    BY <1>1 DEF Receive, PipesOK
  <2> QED BY <1>1, <2>1, ReceiveSteps DEF Receive
<1>2. CASE Command
  BY <1>2 DEF Command, Next
<1>3. CASE Timer
  BY <1>3 DEF Timer, Next
<1>4. CASE Reconnect
  BY <1>4 DEF Reconnect, Next
<1>5. CASE Stop
  BY <1>5 DEF Stop, Next
<1>6. CASE Hear \/ LinkLost
  BY <1>6, Zenon DEF Hear, LinkLost
<1>7. CASE Network
  <2>1. UNCHANGED vars
    BY <1>7, Zenon DEF Network, SignOn, SignOff, PartsAll, Joins, Parts, ZombieGone, BurstsIn,
                Kicked, NetJoin, NetSplit, NetStep
  <2> QED BY <2>1
<1>8. CASE UNCHANGED <<vars, netvars>>
  BY <1>8
<1> QED
  BY <1>1, <1>2, <1>3, <1>4, <1>5, <1>6, <1>7, <1>8, Zenon DEF NetNext, Network

-----------------------------------------------------------------------------
(* The pipes stay of their type.                                           *)

LEMMA PipesInit ==
  ASSUME NetInit
  PROVE  PipesOK
<1>1. toX \in Seq(InMessage) /\ toNet \in Seq(Message)
  BY DEF NetInit
<1>2. /\ link = FALSE /\ leaves \in SUBSET Servers /\ zombies \in SUBSET (Users \X Names)
      /\ net \in [Names -> SUBSET (Users \cup {Me})]
      /\ \A x \in Names : net[x] \subseteq Users
      /\ home \in [Users -> Servers \cup {NULL}]
  BY DEF NetInit
<1> QED BY <1>1, <1>2 DEF NetInit, PipesOK

\* What is new on the network.
LEMMA NetworkPipes ==
  ASSUME PipesOK, Network
  PROVE  PipesOK'
<1> DEFINE Said(ms) == ms \in Seq(InMessage) /\ Tell(ms)
<1> USE NetOK
<1>0. ASSUME NEW ms, Said(ms) PROVE toX' \in Seq(InMessage)
  BY <1>0, TellTyped DEF PipesOK
<1> HIDE DEF Said
<1>1. ASSUME NEW u \in Users, NEW s \in Servers, SignOn(u, s)
      PROVE  PipesOK'
  <2>1. Said(<<[cmd |-> "N", who |-> u, srv |-> s]>>)
    BY <1>1 DEF SignOn, Said, InMessage
  <2> QED BY <1>1, <2>1, <1>0 DEF SignOn, NetStep, PipesOK
<1>2. ASSUME NEW u \in Users, SignOff(u)
      PROVE  PipesOK'
  <2>1. Said(<<[cmd |-> "Q", who |-> u]>>)
    BY <1>2 DEF SignOff, Said, InMessage
  <2> QED BY <1>2, <2>1, <1>0 DEF SignOff, Without, NetStep, PipesOK
<1>3. ASSUME NEW u \in Users, PartsAll(u)
      PROVE  PipesOK'
  <2>1. Said(<<[cmd |-> "J0", who |-> u]>>)
    BY <1>3 DEF PartsAll, Said, InMessage
  <2> QED BY <1>3, <2>1, <1>0 DEF PartsAll, NetStep, PipesOK
<1>4. ASSUME NEW u \in Users, NEW x \in Names, Joins(u, x)
      PROVE  PipesOK'
  <2>1. Said(<<[cmd |-> IF net[x] = {} THEN "C" ELSE "J", who |-> u, chan |-> x]>>)
    BY <1>4 DEF Joins, Said, InMessage
  <2> QED BY <1>4, <2>1, <1>0 DEF Joins, NetStep, PipesOK
<1>5. ASSUME NEW u \in Users, NEW x \in Names, Parts(u, x)
      PROVE  PipesOK'
  <2>1. Said(<<[cmd |-> "L", who |-> u, chan |-> x]>>)
    BY <1>5 DEF Parts, Said, InMessage
  <2> QED BY <1>5, <2>1, <1>0 DEF Parts, NetStep, PipesOK
<1>6. ASSUME NEW u \in Users, NEW x \in Names, ZombieGone(u, x)
      PROVE  PipesOK'
  <2>1. Said(<<[cmd |-> "L", who |-> u, chan |-> x]>>)
    BY <1>6 DEF ZombieGone, Said, InMessage
  <2> QED BY <1>6, <2>1, <1>0 DEF ZombieGone, NetStep, PipesOK
<1>7. ASSUME NEW us \in SUBSET Users, NEW x \in Names, BurstsIn(us, x)
      PROVE  PipesOK'
  <2>1. Said(<<[cmd |-> "B", who |-> us, chan |-> x]>>)
    BY <1>7 DEF BurstsIn, Said, InMessage
  <2> QED BY <1>7, <2>1, <1>0 DEF BurstsIn, NetStep, PipesOK
<1>8. ASSUME NEW w \in Users \cup {Me}, NEW x \in Names, Kicked(w, x)
      PROVE  PipesOK'
  <2>1. Said(<<[cmd |-> "K", who |-> w, chan |-> x]>>)
    BY <1>8 DEF Kicked, Said, InMessage
  <2>2. zombies' \in SUBSET (Users \X Names)
    BY <1>8 DEF Kicked, PipesOK
  <2> QED BY <1>8, <2>1, <2>2, <1>0 DEF Kicked, NetStep, PipesOK
<1>9. ASSUME NEW s \in Servers, NetJoin(s)
      PROVE  PipesOK'
  <2>1. Said(<<[cmd |-> "S", srv |-> s], [cmd |-> "EB", srv |-> s]>>)
    BY <1>9 DEF NetJoin, Said, InMessage
  <2> QED BY <1>9, <2>1, <1>0 DEF NetJoin, NetStep, PipesOK
<1>10. ASSUME NEW s \in Servers, NetSplit(s)
      PROVE  PipesOK'
  <2>1. Said(<<[cmd |-> "SQ", srv |-> s]>>)
    BY <1>10 DEF NetSplit, Said, InMessage
  <2> QED BY <1>10, <2>1, <1>0 DEF NetSplit, Without, NetStep, PipesOK
<1> QED
  BY <1>1, <1>2, <1>3, <1>4, <1>5, <1>6, <1>7, <1>8, <1>9, <1>10, Zenon DEF Network

LEMMA MessageParts ==
  ASSUME NEW m \in Message
  PROVE  /\ m.cmd \in {"C", "J", "L", "B", "K"}
         /\ m.chans \in SUBSET Names
BY DEF Message

LEMMA HearPipes ==
  ASSUME PipesOK, Hear
  PROVE  PipesOK'
<1>1. link /\ link'
  BY DEF Hear, PipesOK
<1>2. Head(toNet) \in Message /\ toNet' \in Seq(Message)
  BY DEF Hear, PipesOK
<1> DEFINE m == Head(toNet)
           heard(x) == CASE m.cmd \in {"C", "J", "B"} -> net[x] \cup {Me}
                         [] m.cmd = "L" -> net[x] \ {Me}
                         [] m.cmd = "K" -> net[x] \ m.who
<1>3. ASSUME NEW x \in Names PROVE heard(x) \in SUBSET (Users \cup {Me})
  <2>1. m.cmd \in {"C", "J", "L", "B", "K"}
    BY <1>2, MessageParts
  <2> QED BY <2>1 DEF PipesOK
<1>4. net' = [x \in Names |-> IF x \notin m.chans THEN net[x] ELSE heard(x)]
  BY Zenon DEF Hear
<1> HIDE DEF heard, m
<1>5. net' \in [Names -> SUBSET (Users \cup {Me})]
  BY <1>3, <1>4 DEF PipesOK
<1>6. zombies' \in SUBSET (Users \X Names)
  BY DEF Hear, PipesOK
<1> QED BY <1>1, <1>2, <1>5, <1>6 DEF Hear, PipesOK

\* A turn of the service writes what Channels allows it to.
LEMMA TurnPipes ==
  ASSUME PipesOK, sent' \in Seq(Message), Receive \/ Command \/ Timer
  PROVE  PipesOK'
<1>1. Send /\ UNCHANGED <<link, net, home, leaves, zombies>>
  BY Zenon DEF Receive, Command, Timer
<1>2. toNet' \in Seq(Message) /\ (~link => toNet' = toNet)
  BY <1>1, SendTyped DEF PipesOK
<1>3. toX' = toX \/ (toX # <<>> /\ toX' = Tail(toX))
  BY Zenon DEF Receive, Command, Timer
<1>4. toX' \in Seq(InMessage)
  <2>1. ASSUME toX # <<>> PROVE Tail(toX) \in Seq(InMessage)
    BY <2>1 DEF PipesOK
  <2> QED BY <1>3, <2>1 DEF PipesOK
<1> QED BY <1>1, <1>2, <1>4 DEF PipesOK

LEMMA NetPipes ==
  ASSUME PipesOK, sent' \in Seq(Message), [NetNext]_<<vars, netvars>>
  PROVE  PipesOK'
<1>1. CASE Receive \/ Command \/ Timer
  BY <1>1, TurnPipes
<1>2. CASE Hear
  BY <1>2, HearPipes
<1>0. ASSUME net' = [x \in Names |-> net[x] \ {Me}]
      PROVE  /\ net' \in [Names -> SUBSET (Users \cup {Me})]
             /\ \A x \in Names : net'[x] \subseteq Users
  BY <1>0 DEF PipesOK
<1> DEFINE none == <<>>
<1>9. none \in Seq(InMessage) /\ none \in Seq(Message)
  OBVIOUS
<1>3. CASE LinkLost
  <2>1. /\ link' = FALSE /\ toNet' = none
        /\ net' = [x \in Names |-> net[x] \ {Me}]
        /\ UNCHANGED <<home, leaves, zombies, toX>>
    BY <1>3 DEF LinkLost
  <2> HIDE DEF none
  <2>2. toNet' \in Seq(Message)
    BY <1>9, <2>1
  <2> QED BY <1>0, <2>1, <2>2 DEF PipesOK, none
<1>4. CASE Reconnect
  BY <1>4, BurstTyped DEF Reconnect, PipesOK
<1>5. CASE Stop
  <2>1. /\ link' = FALSE /\ toX' = none /\ toNet' = none
        /\ net' = [x \in Names |-> net[x] \ {Me}]
        /\ UNCHANGED <<home, leaves, zombies>>
    BY <1>5 DEF Stop
  <2> HIDE DEF none
  <2>2. toX' \in Seq(InMessage) /\ toNet' \in Seq(Message)
    BY <1>9, <2>1
  <2> QED BY <1>0, <2>1, <2>2 DEF PipesOK, none
<1>6. CASE UNCHANGED <<vars, netvars>>
  BY <1>6 DEF netvars, PipesOK
<1>7. CASE Network
  BY <1>7, NetworkPipes
<1> QED BY <1>1, <1>2, <1>3, <1>4, <1>5, <1>6, <1>7, Zenon DEF NetNext, Network

-----------------------------------------------------------------------------
(* The composition implements Channels.                                    *)

\* The invariant of the lists, the pipes and the network together.
THEOREM NetInvariance == NetSpec => []NetInv
<1>1. NetInit => NetInv
  BY PipesInit, ChannelsInit DEF NetInit, NetInv
<1>2. NetInv /\ [NetNext]_<<vars, netvars>> => NetInv'
  <2> SUFFICES ASSUME NetInv, [NetNext]_<<vars, netvars>> PROVE NetInv'
    OBVIOUS
  <2>1. IInv'
    BY NetSteps, ChannelsNext DEF NetInv
  <2>2. sent' \in Seq(Message)
    BY <2>1 DEF IInv, TypeOK
  <2> QED BY <2>1, <2>2, NetPipes DEF NetInv
<1> QED BY <1>1, <1>2, PTL DEF NetSpec

\* The service on its network only takes steps of Channels: a message never names a
\* server, client or channel its handler is not defined for.
THEOREM ImplementsChannels == NetSpec => Spec
<1>1. NetInit => Init
  BY DEF NetInit
<1>2. NetInv /\ [NetNext]_<<vars, netvars>> => [Next]_vars
  BY NetSteps DEF NetInv
<1> QED BY <1>1, <1>2, NetInvariance, PTL DEF NetSpec, Spec

\* On its network too the service keeps every membership on both lists or on neither,
\* points to no freed channel and knows no channel twice.
THEOREM NetListsCorrect == NetSpec => [](Mirror /\ NoStray /\ OneCell /\ Attached)
<1>1. NetInv => Mirror /\ NoStray /\ OneCell /\ Attached
  BY DEF NetInv, IInv
<1> QED BY <1>1, NetInvariance, PTL

-----------------------------------------------------------------------------
(* Once the pipes are empty the service knows who is where: what is on its *)
(* way to the service turns its picture of the network into the network,   *)
(* message by message, whatever crossed before and however long the pipes. *)

\* A picture of the network: the server of each client, and who is on each channel.
Homes == [Users -> Servers \cup {NULL}]
Rolls == [Names -> SUBSET Users]

Off(r, us) == [x \in Names |-> r[x] \ us]

\* Message m turns the picture h, r into h2, r2; nobody is told of twice.
Turns(h, r, m, h2, r2) ==
  \/ m.cmd \in {"SERVER", "S", "EB"} /\ (m.cmd = "SERVER" => m.srv = Hub)
       /\ h2 = h /\ r2 = r
  \/ m.cmd = "N" /\ h[m.who] = NULL /\ h2 = [h EXCEPT ![m.who] = m.srv] /\ r2 = r
  \/ m.cmd = "Q" /\ h2 = [h EXCEPT ![m.who] = NULL] /\ r2 = Off(r, {m.who})
  \/ /\ m.cmd = "SQ"
     /\ h2 = [u \in Users |-> IF h[u] = m.srv THEN NULL ELSE h[u]]
     /\ r2 = Off(r, {u \in Users : h[u] = m.srv})
  \/ m.cmd = "J0" /\ h2 = h /\ r2 = Off(r, {m.who})
  \/ /\ m.cmd \in {"C", "J"} /\ m.who \notin r[m.chan]
     /\ h2 = h /\ r2 = [r EXCEPT ![m.chan] = r[m.chan] \cup {m.who}]
  \/ /\ m.cmd = "B" /\ m.who # {}
     /\ \A u \in m.who : h[u] # NULL /\ u \notin r[m.chan]
     /\ h2 = h /\ r2 = [r EXCEPT ![m.chan] = r[m.chan] \cup m.who]
  \/ /\ m.cmd \in {"L", "K"}
     /\ h2 = h /\ r2 = [r EXCEPT ![m.chan] = r[m.chan] \ {m.who}]

\* The pictures H, R, one before each message and one after the last.
Tale(H, R, ms) ==
  /\ H \in [1..Len(ms) + 1 -> Homes] /\ R \in [1..Len(ms) + 1 -> Rolls]
  /\ \A i \in 1..Len(ms) : Turns(H[i], R[i], ms[i], H[i + 1], R[i + 1])

\* The messages ms turn the picture h, r into g, p.
Leads(h, r, ms, g, p) ==
  \E H, R : /\ Tale(H, R, ms)
            /\ H[1] = h /\ R[1] = r /\ H[Len(ms) + 1] = g /\ R[Len(ms) + 1] = p

-----------------------------------------------------------------------------
(* Messages in a row.                                                      *)

\* Without messages nothing changes.
LEMMA LeadsNone ==
  ASSUME NEW h \in Homes, NEW r \in Rolls
  PROVE  Leads(h, r, <<>>, h, r)
<1> DEFINE H == [i \in 1..1 |-> h]
           R == [i \in 1..1 |-> r]
           none == <<>>
<1>1. Len(none) = 0
  OBVIOUS
<1>2. Tale(H, R, none) /\ H[1] = h /\ R[1] = r
  BY <1>1 DEF Tale
<1> HIDE DEF H, R, none
<1>3. Leads(h, r, none, h, r)
  BY <1>1, <1>2 DEF Leads
<1> QED BY <1>3 DEF none

\* One message.
LEMMA LeadsOne ==
  ASSUME NEW h \in Homes, NEW r \in Rolls, NEW g \in Homes, NEW p \in Rolls,
         NEW m, Turns(h, r, m, g, p)
  PROVE  Leads(h, r, <<m>>, g, p)
<1> DEFINE H == [i \in 1..2 |-> IF i = 1 THEN h ELSE g]
           R == [i \in 1..2 |-> IF i = 1 THEN r ELSE p]
           one == <<m>>
<1>1. Len(one) = 1 /\ one[1] = m
  OBVIOUS
<1>2. H \in [1..2 -> Homes] /\ R \in [1..2 -> Rolls]
      /\ H[1] = h /\ R[1] = r /\ H[2] = g /\ R[2] = p
  OBVIOUS
<1> HIDE DEF H, R, one
<1>3. Tale(H, R, one)
  BY <1>1, <1>2 DEF Tale
<1>4. Leads(h, r, one, g, p)
  BY <1>1, <1>2, <1>3 DEF Leads
<1> QED BY <1>4 DEF one

\* First these messages, then those.
LEMMA LeadsOn ==
  ASSUME NEW S, NEW ms \in Seq(S), NEW ns \in Seq(S),
         NEW h, NEW r, NEW g, NEW p, NEW k, NEW q,
         Leads(h, r, ms, g, p), Leads(g, p, ns, k, q)
  PROVE  Leads(h, r, ms \o ns, k, q)
<1> DEFINE a == Len(ms)
           b == Len(ns)
           all == ms \o ns
<1>1. PICK H1, R1 : /\ Tale(H1, R1, ms)
                    /\ H1[1] = h /\ R1[1] = r /\ H1[a + 1] = g /\ R1[a + 1] = p
  BY DEF Leads
<1>2. PICK H2, R2 : /\ Tale(H2, R2, ns)
                    /\ H2[1] = g /\ R2[1] = p /\ H2[b + 1] = k /\ R2[b + 1] = q
  BY DEF Leads
<1> DEFINE H == [i \in 1..a + b + 1 |-> IF i <= a THEN H1[i] ELSE H2[i - a]]
           R == [i \in 1..a + b + 1 |-> IF i <= a THEN R1[i] ELSE R2[i - a]]
<1>3. /\ a \in Nat /\ b \in Nat /\ Len(all) = a + b
      /\ \A i \in 1..a : all[i] = ms[i]
      /\ \A i \in 1..a + b : all[i] = IF i <= a THEN ms[i] ELSE ns[i - a]
  <2>1. a \in Nat /\ b \in Nat
    OBVIOUS
  <2>2. /\ Len(all) = a + b
        /\ \A i \in 1..a + b : all[i] = IF i <= a THEN ms[i] ELSE ns[i - a]
    BY ConcatProperties
  <2> HIDE DEF a, b, all
  <2> QED BY <2>1, <2>2
<1>4. /\ H1 \in [1..a + 1 -> Homes] /\ R1 \in [1..a + 1 -> Rolls]
      /\ \A i \in 1..a : Turns(H1[i], R1[i], ms[i], H1[i + 1], R1[i + 1])
  BY <1>1 DEF Tale
<1>5. /\ H2 \in [1..b + 1 -> Homes] /\ R2 \in [1..b + 1 -> Rolls]
      /\ \A i \in 1..b : Turns(H2[i], R2[i], ns[i], H2[i + 1], R2[i + 1])
  BY <1>2 DEF Tale
<1> HIDE DEF a, b, all
<1>6. /\ H \in [1..a + b + 1 -> Homes] /\ R \in [1..a + b + 1 -> Rolls]
      /\ \A i \in 1..a + b + 1 : H[i] = IF i <= a THEN H1[i] ELSE H2[i - a]
      /\ \A i \in 1..a + b + 1 : R[i] = IF i <= a THEN R1[i] ELSE R2[i - a]
  BY <1>3, <1>4, <1>5
<1> HIDE DEF H, R
<1>7. \A i \in 1..a + 1 : H[i] = H1[i] /\ R[i] = R1[i]
  <2> TAKE i \in 1..a + 1
  <2>1. i \in 1..a + b + 1 /\ (i <= a \/ (i = a + 1 /\ ~ (i <= a) /\ i - a = 1))
    BY <1>3
  <2> QED BY <1>1, <1>2, <1>6, <2>1
<1>8. \A i \in 1..b + 1 : H[a + i] = H2[i] /\ R[a + i] = R2[i]
  <2> TAKE i \in 1..b + 1
  <2>1. a + i \in 1..a + b + 1 /\ ~ (a + i <= a) /\ (a + i) - a = i
    BY <1>3
  <2> QED BY <1>6, <2>1
<1>9. ASSUME NEW i \in 1..a + b
      PROVE  Turns(H[i], R[i], all[i], H[i + 1], R[i + 1])
  <2>1. CASE i <= a
    <3>1. i \in 1..a /\ i \in 1..a + 1 /\ i + 1 \in 1..a + 1
      BY <1>3, <2>1
    <3> QED BY <1>3, <1>4, <1>7, <3>1
  <2>2. CASE ~ (i <= a)
    <3> DEFINE j == i - a
    <3>1. j \in 1..b /\ j \in 1..b + 1 /\ j + 1 \in 1..b + 1 /\ i = a + j /\ i + 1 = a + (j + 1)
      BY <1>3, <2>2
    <3> HIDE DEF j
    <3>2. H[a + j] = H2[j] /\ R[a + j] = R2[j]
      BY <1>8, <3>1
    <3>3. H[a + (j + 1)] = H2[j + 1] /\ R[a + (j + 1)] = R2[j + 1]
      BY <1>8, <3>1
    <3>4. all[a + j] = ns[j]
      <4>1. all[i] = ns[i - a]
        BY <1>3, <2>2
      <4> QED BY <4>1, <3>1 DEF j
    <3>5. Turns(H2[j], R2[j], ns[j], H2[j + 1], R2[j + 1])
      BY <1>5, <3>1
    <3> QED BY <3>1, <3>2, <3>3, <3>4, <3>5
  <2> QED BY <2>1, <2>2
<1>10. Tale(H, R, all)
  BY <1>3, <1>6, <1>9 DEF Tale
<1>11. H[1] = h /\ R[1] = r
  <2>1. 1 \in 1..a + 1
    BY <1>3
  <2> QED BY <1>1, <1>7, <2>1
<1>12. H[Len(all) + 1] = k /\ R[Len(all) + 1] = q
  <2>1. b + 1 \in 1..b + 1 /\ Len(all) + 1 = a + (b + 1)
    BY <1>3
  <2> QED BY <1>2, <1>8, <2>1
<1> QED BY <1>10, <1>11, <1>12 DEF Leads, all

\* One message is taken from the pipe.
LEMMA LeadsTail ==
  ASSUME NEW S, NEW ms \in Seq(S), ms # <<>>, NEW h, NEW r, NEW g, NEW p,
         Leads(h, r, ms, g, p)
  PROVE  \E h2 \in Homes, r2 \in Rolls :
           Turns(h, r, Head(ms), h2, r2) /\ Leads(h2, r2, Tail(ms), g, p)
<1> DEFINE rest == Tail(ms)
           a == Len(rest)
<1>1. /\ a \in Nat /\ Len(ms) = a + 1 /\ Head(ms) = ms[1]
      /\ \A i \in 1..a : rest[i] = ms[i + 1]
  OBVIOUS
<1>2. PICK H1, R1 : /\ Tale(H1, R1, ms) /\ H1[1] = h /\ R1[1] = r
                    /\ H1[Len(ms) + 1] = g /\ R1[Len(ms) + 1] = p
  BY DEF Leads
<1> HIDE DEF rest
<1>3. /\ H1 \in [1..(a + 1) + 1 -> Homes] /\ R1 \in [1..(a + 1) + 1 -> Rolls]
      /\ \A i \in 1..a + 1 : Turns(H1[i], R1[i], ms[i], H1[i + 1], R1[i + 1])
  BY <1>1, <1>2 DEF Tale
<1> DEFINE H == [i \in 1..a + 1 |-> H1[i + 1]]
           R == [i \in 1..a + 1 |-> R1[i + 1]]
<1> HIDE DEF a
<1>4. /\ H \in [1..a + 1 -> Homes] /\ R \in [1..a + 1 -> Rolls]
      /\ \A i \in 1..a + 1 : H[i] = H1[i + 1] /\ R[i] = R1[i + 1]
  BY <1>1, <1>3 DEF a
<1> HIDE DEF H, R
<1>5. ASSUME NEW i \in 1..a
      PROVE  Turns(H[i], R[i], rest[i], H[i + 1], R[i + 1])
  <2>1. i \in 1..a + 1 /\ i + 1 \in 1..a + 1
    BY <1>1 DEF a
  <2> QED BY <1>1, <1>3, <1>4, <2>1 DEF a
<1>6. Tale(H, R, rest)
  BY <1>4, <1>5 DEF Tale, a
<1>7. 1 \in 1..a + 1 /\ a + 1 \in 1..a + 1 /\ 1 + 1 \in 1..(a + 1) + 1
  BY <1>1 DEF a
<1>8. Leads(H[1], R[1], rest, g, p)
  <2>1. H[a + 1] = g /\ R[a + 1] = p
    BY <1>1, <1>2, <1>4, <1>7 DEF a
  <2> QED BY <1>6, <2>1 DEF Leads, a
<1>9. Turns(h, r, Head(ms), H[1], R[1])
  <2>1. H[1] = H1[1 + 1] /\ R[1] = R1[1 + 1]
    BY <1>4, <1>7
  <2> QED BY <1>1, <1>2, <1>3, <1>7, <2>1
<1>10. H[1] \in Homes /\ R[1] \in Rolls
  BY <1>4, <1>7
<1> QED BY <1>8, <1>9, <1>10 DEF rest

-----------------------------------------------------------------------------
(* What the service's operations do to its picture.                        *)

Shown == [x \in Names |-> MembersOf(x)]

Tidy == NoDouble /\ NoAbandoned

\* The service's picture is of its type.
LEMMA ShownType == Shown \in Rolls /\ Shown' \in Rolls
BY DEF Shown, Rolls, MembersOf

\* Channels on which the service is.
LEMMA OnCell ==
  ASSUME NEW x \in Names
  PROVE  /\ x \in On <=> \E c \in Cells : chan[c] # NULL /\ chan[c].name = x /\ chan[c].on
         /\ x \in On' <=> \E c \in Cells : chan'[c] # NULL /\ chan'[c].name = x /\ chan'[c].on
BY DEF On, ToChannel

\* Who is a member, in the cells.
LEMMA MemberCell ==
  ASSUME NEW x \in Names, NEW u \in Users
  PROVE  /\ u \in MembersOf(x)
              <=> \E c \in Cells : chan[c] # NULL /\ chan[c].name = x /\ members[c][u] > 0
         /\ u \in MembersOf(x)'
              <=> \E c \in Cells : chan'[c] # NULL /\ chan'[c].name = x /\ members'[c][u] > 0
BY DEF MembersOf, ToChannel

\* Nobody is a member of a channel that is not there.
LEMMA MemberHere ==
  ASSUME HeapOK, NEW c \in Cells, NEW u \in Users, chan[c] = NULL
  PROVE  members[c][u] = 0
<1>1. members[c][u] \in Nat
  BY DEF HeapOK
<1>2. ~ (channel[u][c] > 0) /\ members[c][u] = channel[u][c]
  BY DEF HeapOK, Mirror, NoStray
<1> QED BY <1>1, <1>2

\* The picture changes for nobody whose nodes stay where they are.
LEMMA SameCells ==
  ASSUME HeapOK, HeapOK', NEW u \in Users, NEW x \in Names,
         \A c \in Cells : chan[c] # NULL /\ chan'[c] # NULL => chan'[c].name = chan[c].name,
         \A c \in Cells : members[c][u] > 0 <=> members'[c][u] > 0
  PROVE  u \in MembersOf(x)' <=> u \in MembersOf(x)
<1>1. \A c \in Cells : members[c][u] > 0 => chan[c] # NULL /\ chan'[c] # NULL
  BY DEF HeapOK, Mirror, NoStray
<1> QED BY <1>1, MemberCell

\* What NewChannel allocates is a channel.
LEMMA NewCell ==
  ASSUME NEW x \in Names, NEW on \in BOOLEAN, NEW new, new = [name |-> x, on |-> on]
  PROVE  new # NULL /\ new.name = x /\ new.on = on
<1>1. new \in [name : Names, on : BOOLEAN]
  OBVIOUS
<1> QED BY <1>1, NamesOK

\* Clients not on the channel before are put on it.
LEMMA JoinTurn ==
  ASSUME HeapOK, HeapOK', Tidy, NEW x \in Names, NEW c \in Cells, NEW us \in SUBSET Users,
         NewChannel(x, FALSE, c), JoinUser(us, c),
         us # {}, \A u \in us : u \notin Shown[x]
  PROVE  Tidy' /\ On' = On /\ Shown' = [Shown EXCEPT ![x] = Shown[x] \cup us]
<1>1. /\ \A d \in Cells \ {c} : chan'[d] = chan[d]
      /\ chan'[c] # NULL /\ chan'[c].name = x
      /\ chan[c] # NULL => chan'[c] = chan[c]
      /\ chan[c] = NULL => ~chan'[c].on
  <2> DEFINE new == [name |-> x, on |-> FALSE]
  <2>1. new # NULL /\ new.name = x /\ ~new.on
    BY NewCell
  <2> HIDE DEF new
  <2>2. CASE c \in ToChannel(x) /\ chan' = chan
    BY <2>2 DEF ToChannel
  <2>3. CASE chan[c] = NULL /\ chan' = [chan EXCEPT ![c] = new]
    BY <2>1, <2>3 DEF HeapOK
  <2> QED BY <2>2, <2>3 DEF NewChannel, new
<1>2. \A d \in Cells, w \in Users :
        members'[d][w] = IF d = c /\ w \in us THEN members[d][w] + 1 ELSE members[d][w]
  BY DEF JoinUser, HeapOK
<1>3. \A d \in Cells, w \in Users : members[d][w] \in Nat /\ members[d][w] <= 1
  BY DEF HeapOK, Tidy, NoDouble
<1>4. \A w \in us : members[c][w] = 0
  <2> TAKE w \in us
  <2>1. chan[c] # NULL => chan[c].name = x
    BY <1>1
  <2>2. chan[c] # NULL => ~ (members[c][w] > 0)
    BY <2>1, MemberCell DEF Shown
  <2> QED BY <2>2, <1>3, MemberHere
<1>5. NoDouble'
  BY <1>2, <1>3, <1>4 DEF NoDouble
<1>6. NoAbandoned'
  <2> SUFFICES ASSUME NEW d \in Cells, chan'[d] # NULL, ~chan'[d].on
               PROVE  members'[d] # Nobody
    BY DEF NoAbandoned
  <2>1. CASE d = c
    <3> PICK w \in us : TRUE
      OBVIOUS
    <3> QED BY <2>1, <1>2, <1>4 DEF Nobody
  <2>2. CASE d # c
    <3>1. chan[d] = chan'[d] /\ members[d] # Nobody
      BY <1>1, <2>2 DEF Tidy, NoAbandoned
    <3>2. members'[d] = members[d]
      BY <2>2 DEF JoinUser, HeapOK
    <3> QED BY <3>1, <3>2
  <2> QED BY <2>1, <2>2
<1>7. On' = On
  <2>1. \A y \in Names : y \in On' <=> y \in On
    BY <1>1, OnCell
  <2> QED BY <2>1 DEF On
<1>8. ASSUME NEW y \in Names, NEW w \in Users
      PROVE  w \in MembersOf(y)' <=> w \in MembersOf(y) \/ (y = x /\ w \in us)
  <2>1. \A d \in Cells : members'[d][w] > 0 <=> members[d][w] > 0 \/ (d = c /\ w \in us)
    BY <1>2, <1>3
  <2>2. \A d \in Cells : members[d][w] > 0 => chan[d] # NULL
    BY <1>3, MemberHere
  <2>3. \A d \in Cells : members[d][w] > 0 => chan'[d] = chan[d]
    BY <2>2, <1>1
  <2> QED BY <2>1, <2>2, <2>3, <1>1, MemberCell
<1>9. \A y \in Names : MembersOf(y)' = IF y = x THEN MembersOf(y) \cup us ELSE MembersOf(y)
  <2> TAKE y \in Names
  <2>1. MembersOf(y) \subseteq Users /\ MembersOf(y)' \subseteq Users
    BY DEF MembersOf
  <2> QED BY <2>1, <1>8
<1>10. Shown' = [Shown EXCEPT ![x] = Shown[x] \cup us]
  BY <1>9 DEF Shown
<1> QED BY <1>5, <1>6, <1>7, <1>10 DEF Tidy

\* Clients are taken off all channels.
LEMMA PartAllTurn ==
  ASSUME HeapOK, HeapOK', Tidy, NEW us \in SUBSET Users, PartAll(us)
  PROVE  Tidy' /\ On' = On /\ Shown' = Off(Shown, us)
<1>1. \A c \in Cells, u \in Users :
        Left(us, c, u) = IF u \in us THEN 0 ELSE members[c][u]
  BY DEF Left, Less, Mirror, HeapOK
<1>2. \A c \in Cells, u \in Users : members'[c][u] = IF u \in us THEN 0 ELSE members[c][u]
  BY <1>1 DEF PartAll
<1>3. \A c \in Cells : \/ chan'[c] = chan[c]
                       \/ chan[c] # NULL /\ ~chan[c].on /\ chan'[c] = NULL
  BY DEF PartAll
<1>4. NoDouble'
  BY <1>2 DEF Tidy, NoDouble
<1>5. NoAbandoned'
  <2> SUFFICES ASSUME NEW c \in Cells, chan'[c] # NULL, ~chan'[c].on, members'[c] = Nobody
               PROVE  FALSE
    BY DEF NoAbandoned
  <2>1. chan'[c] = chan[c] /\ members[c] # Nobody
    BY <1>3 DEF Tidy, NoAbandoned
  <2>2. \A u \in Users : members'[c][u] = 0
    BY DEF Nobody
  <2>3. PICK u \in Users : members[c][u] # 0
    BY <2>1 DEF HeapOK, Nobody
  <2>4. u \in us
    BY <2>2, <2>3, <1>2
  <2>5. channel[u][c] > 0
    <3>1. channel[u][c] \in Nat /\ channel[u][c] = members[c][u]
      BY DEF HeapOK, Mirror
    <3> QED BY <3>1, <2>3
  <2>6. \A w \in Users : Left(us, c, w) = 0
    BY <1>1, <1>2, <2>2
  <2>7. chan'[c] = NULL
    BY <2>1, <2>4, <2>5, <2>6 DEF PartAll
  <2> QED BY <2>7
<1>6. On' = On
  <2>1. \A y \in Names : y \in On' <=> y \in On
    BY <1>3, OnCell
  <2> QED BY <2>1 DEF On
<1>7. ASSUME NEW y \in Names, NEW w \in Users
      PROVE  w \in MembersOf(y)' <=> w \in MembersOf(y) /\ w \notin us
  <2>1. CASE w \in us
    <3>1. \A d \in Cells : members'[d][w] = 0
      BY <1>2, <2>1
    <3> QED BY <3>1, <2>1, MemberCell
  <2>2. CASE w \notin us
    <3>1. \A d \in Cells : members'[d][w] = members[d][w]
      BY <1>2, <2>2
    <3> QED BY <3>1, <2>2, <1>3, SameCells
  <2> QED BY <2>1, <2>2
<1>8. \A y \in Names : MembersOf(y)' = MembersOf(y) \ us
  <2> TAKE y \in Names
  <2>1. MembersOf(y) \subseteq Users /\ MembersOf(y)' \subseteq Users
    BY DEF MembersOf
  <2> QED BY <2>1, <1>7
<1>9. Shown' = Off(Shown, us)
  BY <1>8 DEF Shown, Off
<1> QED BY <1>4, <1>5, <1>6, <1>9 DEF Tidy

\* A client leaves a channel, or was not on it.
LEMMA PartTurn ==
  ASSUME IInv, HeapOK', Tidy, NEW u \in Users, NEW x \in Names, onpart(u, x)
  PROVE  Tidy' /\ On' = On /\ Shown' = [Shown EXCEPT ![x] = Shown[x] \ {u}]
<1>0. HeapOK /\ GoneOK
  BY FourParts
<1>1. CASE ~ (server[u] # NULL /\ ToChannel(x) # {})
  <2>1. UNCHANGED heap
    BY <1>1 DEF onpart
  <2>2. u \notin MembersOf(x)
    <3>1. CASE server[u] = NULL
      <4>1. \A c \in Cells : members[c][u] = 0
        BY <1>0, <3>1 DEF GoneOK, HeapOK, Mirror
      <4> QED BY <4>1, MemberCell
    <3>2. CASE ToChannel(x) = {}
      BY <3>2 DEF MembersOf
    <3> QED BY <3>1, <3>2, <1>1
  <2>3. Tidy' /\ On' = On /\ \A y \in Names : MembersOf(y)' = MembersOf(y)
    BY <2>1 DEF heap, Tidy, NoDouble, NoAbandoned, On, ToChannel, MembersOf
  <2>4. Shown' = [Shown EXCEPT ![x] = Shown[x] \ {u}]
    BY <2>2, <2>3 DEF Shown
  <2> QED BY <2>3, <2>4
<1>2. CASE server[u] # NULL /\ ToChannel(x) # {}
  <2>0. Part(u, x)
    BY <1>2 DEF onpart
  <2> PICK c \in ToChannel(x) :
        LET out == [members[c] EXCEPT ![u] = Less(@, 1)]
        IN  /\ members' = [members EXCEPT ![c] = out]
            /\ channel' = [channel EXCEPT ![u][c] = Less(@, 1)]
            /\ chan' = IF out = Nobody /\ ~chan[c].on THEN [chan EXCEPT ![c] = NULL] ELSE chan
    BY <2>0 DEF Part
  <2>1. c \in Cells /\ chan[c] # NULL /\ chan[c].name = x
    BY DEF ToChannel
  <2>2. \A d \in Cells, w \in Users : members[d][w] \in Nat /\ members[d][w] <= 1
    BY <1>0 DEF HeapOK, Tidy, NoDouble
  <2>3. \A d \in Cells, w \in Users :
          members'[d][w] = IF d = c /\ w = u THEN 0 ELSE members[d][w]
    BY <1>0, <2>1, <2>2 DEF HeapOK, Less
  <2>4. \A d \in Cells : \/ chan'[d] = chan[d]
                         \/ chan[d] # NULL /\ ~chan[d].on /\ chan'[d] = NULL
    BY <1>0, <2>1 DEF HeapOK
  <2>5. NoDouble'
    BY <2>2, <2>3 DEF NoDouble
  <2>6. NoAbandoned'
    <3> SUFFICES ASSUME NEW d \in Cells, chan'[d] # NULL, ~chan'[d].on
                 PROVE  members'[d] # Nobody
      BY DEF NoAbandoned
    <3>1. chan'[d] = chan[d] /\ members[d] # Nobody
      BY <2>4 DEF Tidy, NoAbandoned
    <3>2. CASE d = c
      <4>1. members'[c] = [members[c] EXCEPT ![u] = Less(@, 1)]
        BY <1>0, <2>1 DEF HeapOK
      <4>2. members'[c] = Nobody /\ ~chan[c].on => chan'[c] = NULL
        BY <4>1, <1>0, <2>1 DEF HeapOK
      <4> QED BY <4>2, <3>1, <3>2
    <3>3. CASE d # c
      BY <3>1, <3>3, <1>0, <2>1 DEF HeapOK
    <3> QED BY <3>2, <3>3
  <2>7. On' = On
    <3>1. \A y \in Names : y \in On' <=> y \in On
      BY <2>4, OnCell
    <3> QED BY <3>1 DEF On
  <2>8. ASSUME NEW y \in Names, NEW w \in Users
        PROVE  w \in MembersOf(y)' <=> w \in MembersOf(y) /\ ~ (y = x /\ w = u)
    <3>1. CASE w # u
      <4>1. \A d \in Cells : members'[d][w] = members[d][w]
        BY <2>3, <3>1
      <4> QED BY <4>1, <3>1, <2>4, <1>0, SameCells
    <3>2. CASE w = u /\ y = x
      <4>1. \A d \in Cells : chan[d] # NULL /\ chan[d].name = x => d = c
        BY <1>0, <2>1 DEF HeapOK, OneCell
      <4>2. \A d \in Cells : chan'[d] # NULL /\ chan'[d].name = x => members'[d][u] = 0
        BY <4>1, <2>3, <2>4
      <4> QED BY <3>2, <4>2, MemberCell
    <3>3. CASE w = u /\ y # x
      <4>1. \A d \in Cells : d # c => members'[d][w] = members[d][w]
        BY <2>3
      <4>2. \A d \in Cells : chan[d] = NULL => members[d][w] = 0
        BY <1>0, MemberHere
      <4>3. \A d \in Cells : members'[d][w] > 0 => members[d][w] > 0
        BY <2>2, <2>3
      <4>4. \A d \in Cells : members'[d][w] > 0 => chan'[d] # NULL
        BY DEF HeapOK, Mirror, NoStray
      <4>5. \A d \in Cells : chan[d].name = y => d # c
        BY <2>1, <3>3
      <4>6. w \in MembersOf(y)' => w \in MembersOf(y)
        BY <4>3, <2>4, MemberCell
      <4>7. w \in MembersOf(y) => w \in MembersOf(y)'
        <5> SUFFICES ASSUME w \in MembersOf(y) PROVE w \in MembersOf(y)'
          OBVIOUS
        <5>1. PICK d \in Cells : chan[d] # NULL /\ chan[d].name = y /\ members[d][w] > 0
          BY MemberCell
        <5>2. members'[d][w] > 0 /\ chan'[d] = chan[d]
          BY <5>1, <4>1, <4>4, <4>5, <2>4
        <5> QED BY <5>1, <5>2, MemberCell
      <4> QED BY <3>3, <4>6, <4>7
    <3> QED BY <3>1, <3>2, <3>3
  <2>9. \A y \in Names : MembersOf(y)' = IF y = x THEN MembersOf(y) \ {u} ELSE MembersOf(y)
    <3> TAKE y \in Names
    <3>1. MembersOf(y) \subseteq Users /\ MembersOf(y)' \subseteq Users
      BY DEF MembersOf
    <3> QED BY <3>1, <2>8
  <2>10. Shown' = [Shown EXCEPT ![x] = Shown[x] \ {u}]
    BY <2>9 DEF Shown
  <2> QED BY <2>5, <2>6, <2>7, <2>10 DEF Tidy
<1> QED BY <1>1, <1>2

\* The service's own coming and going shows nobody else otherwise.
LEMMA OwnTurn ==
  ASSUME HeapOK, HeapOK', members' = members,
         \A c \in Cells : chan[c] # NULL /\ chan'[c] # NULL => chan'[c].name = chan[c].name
  PROVE  Shown' = Shown
<1>1. \A y \in Names, w \in Users : w \in MembersOf(y)' <=> w \in MembersOf(y)
  BY SameCells
<1>2. \A y \in Names : MembersOf(y)' = MembersOf(y)
  <2> TAKE y \in Names
  <2>1. MembersOf(y) \subseteq Users /\ MembersOf(y)' \subseteq Users
    BY DEF MembersOf
  <2> QED BY <2>1, <1>1
<1> QED BY <1>2 DEF Shown

\* It leaves channels,
LEMMA LeaveTurn ==
  ASSUME HeapOK, HeapOK', Tidy, NEW xs \in SUBSET Names, Leave(xs)
  PROVE  Tidy' /\ Shown' = Shown /\ On' = On \ xs
<1>0. NULL \notin Channel
  BY NamesOK DEF Channel
<1>1. \A c \in Cells :
        \/ chan'[c] = chan[c] /\ (chan[c] # NULL => chan[c].name \notin xs)
        \/ chan[c] # NULL /\ chan[c].name \in xs /\ members[c] = Nobody /\ chan'[c] = NULL
        \/ /\ chan[c] # NULL /\ chan[c].name \in xs /\ members[c] # Nobody
           /\ chan'[c].name = chan[c].name /\ ~chan'[c].on
  <2> TAKE c \in Cells
  <2>1. chan[c] \in Channel \cup {NULL}
    BY DEF HeapOK
  <2>2. chan'[c] = IF chan[c] = NULL \/ chan[c].name \notin xs THEN chan[c]
                   ELSE IF members[c] = Nobody THEN NULL
                   ELSE [chan[c] EXCEPT !.on = FALSE]
    BY DEF Leave
  <2> QED BY <1>0, <2>1, <2>2 DEF Channel
<1>2. members' = members
  BY DEF Leave
<1>3. Tidy'
  BY <1>1, <1>2 DEF Tidy, NoDouble, NoAbandoned
<1>4. Shown' = Shown
  BY <1>1, <1>2, OwnTurn
<1>5. On' = On \ xs
  <2>1. \A y \in Names : y \in On' <=> y \in On /\ y \notin xs
    BY <1>1, OnCell
  <2> QED BY <2>1 DEF On
<1> QED BY <1>3, <1>4, <1>5

\* joins one,
LEMMA OnTurn ==
  ASSUME HeapOK, HeapOK', Tidy, NEW x \in Names, join(x)
  PROVE  Tidy' /\ Shown' = Shown /\ On' = On \cup {x}
<1>0. NULL \notin Channel
  BY NamesOK DEF Channel
<1>1. PICK c \in Cells :
        \/ ToChannel(x) = {} /\ NewChannel(x, TRUE, c)
        \/ c \in ToChannel(x) /\ chan' = [chan EXCEPT ![c].on = TRUE]
  BY DEF join
<1>2. /\ \A d \in Cells \ {c} : chan'[d] = chan[d]
      /\ chan[c] # NULL => chan[c].name = x
      /\ chan'[c] # NULL /\ chan'[c].name = x /\ chan'[c].on
  <2>1. CASE ToChannel(x) = {} /\ NewChannel(x, TRUE, c)
    <3> DEFINE new == [name |-> x, on |-> TRUE]
    <3>1. new # NULL /\ new.name = x /\ new.on
      BY NewCell
    <3> HIDE DEF new
    <3>2. chan[c] = NULL /\ chan' = [chan EXCEPT ![c] = new]
      BY <2>1 DEF NewChannel, new
    <3> QED BY <3>1, <3>2 DEF HeapOK
  <2>2. CASE c \in ToChannel(x) /\ chan' = [chan EXCEPT ![c].on = TRUE]
    <3>1. chan[c] \in Channel /\ chan[c].name = x
      BY <2>2 DEF ToChannel, HeapOK
    <3>2. chan'[c] = [chan[c] EXCEPT !.on = TRUE] /\ \A d \in Cells \ {c} : chan'[d] = chan[d]
      BY <2>2 DEF HeapOK
    <3>3. chan'[c] \in Channel /\ chan'[c].name = x /\ chan'[c].on
      BY <3>1, <3>2 DEF Channel
    <3> QED BY <1>0, <3>1, <3>2, <3>3
  <2> QED BY <1>1, <2>1, <2>2
<1>3. members' = members
  BY DEF join
<1>4. Tidy'
  BY <1>2, <1>3 DEF Tidy, NoDouble, NoAbandoned
<1>5. Shown' = Shown
  BY <1>2, <1>3, OwnTurn
<1>6. On' = On \cup {x}
  <2>1. \A y \in Names : y \in On' <=> y \in On \/ y = x
    BY <1>2, OnCell
  <2> QED BY <2>1 DEF On
<1> QED BY <1>4, <1>5, <1>6

\* or bursts into the default channels.
LEMMA BurstTurn ==
  ASSUME HeapOK, HeapOK', Tidy, defs \in SUBSET Names, SendBurst
  PROVE  Tidy' /\ Shown' = Shown /\ On' = On \cup defs
<1>1. PICK at \in [defs -> Cells] :
        /\ \A x, y \in defs : at[x] = at[y] => x = y
        /\ \A x \in defs : IF ToChannel(x) # {} THEN at[x] \in ToChannel(x)
                                                ELSE chan[at[x]] = NULL
        /\ chan' = [c \in Cells |-> IF \E x \in defs : at[x] = c
                                    THEN [name |-> CHOOSE x \in defs : at[x] = c, on |-> TRUE]
                                    ELSE chan[c]]
  BY DEF SendBurst
<1>2. ASSUME NEW x \in defs
      PROVE  /\ chan'[at[x]] # NULL /\ chan'[at[x]].name = x /\ chan'[at[x]].on
             /\ chan[at[x]] # NULL => chan[at[x]].name = x
  <2>1. at[x] \in Cells /\ \E y \in defs : at[y] = at[x]
    BY <1>1
  <2>2. (CHOOSE y \in defs : at[y] = at[x]) = x
    BY <1>1
  <2> DEFINE new == [name |-> x, on |-> TRUE]
  <2>3. chan'[at[x]] = new
    BY <1>1, <2>1, <2>2
  <2>4. new # NULL /\ new.name = x /\ new.on
    BY NewCell
  <2> HIDE DEF new
  <2>5. chan[at[x]] # NULL => chan[at[x]].name = x
    BY <1>1 DEF ToChannel
  <2> QED BY <2>3, <2>4, <2>5
<1>3. \A c \in Cells : (\A x \in defs : at[x] # c) => chan'[c] = chan[c]
  BY <1>1
<1>4. members' = members
  BY DEF SendBurst
<1>5. Tidy'
  BY <1>2, <1>3, <1>4 DEF Tidy, NoDouble, NoAbandoned
<1>6. \A c \in Cells : chan[c] # NULL => chan'[c] # NULL /\ chan'[c].name = chan[c].name
  BY <1>2, <1>3
<1>7. Shown' = Shown
  BY <1>4, <1>6, OwnTurn
<1>8. On' = On \cup defs
  <2>1. ASSUME NEW y \in Names PROVE y \in On' => y \in On \/ y \in defs
    BY <1>2, <1>3, OnCell
  <2>2. ASSUME NEW y \in defs PROVE y \in On'
    <3>1. at[y] \in Cells
      BY <1>1
    <3> QED BY <1>2, <3>1, OnCell
  <2>3. ASSUME NEW y \in On PROVE y \in On'
    <3>1. PICK c \in Cells : chan[c] # NULL /\ chan[c].name = y /\ chan[c].on
      BY OnCell DEF On
    <3>2. y \in Names
      BY DEF On
    <3> QED BY <3>1, <3>2, <1>2, <1>3, OnCell
  <2> QED BY <2>1, <2>2, <2>3 DEF On
<1> QED BY <1>5, <1>7, <1>8

-----------------------------------------------------------------------------
(* What a message does to the service's picture.                           *)

\* The servers form a star: only the uplink has servers behind it.
Flat == /\ uplink \in {NULL, Hub}
        /\ \A s, t \in Servers : s \in path[t] => s = t \/ s = Hub

\* A message that changes whether the service is on x.
Speaks(m, x) == x \in m.chans /\ m.cmd # "K"

\* The service says of every channel it joins or leaves that it did, and of no other.
Truthful ==
  \/ sent' = <<>> /\ On' = On
  \/ \E n \in Message :
       /\ sent' = <<n>>
       /\ \A x \in Names : x \in On' <=> IF Speaks(n, x) THEN n.cmd # "L" ELSE x \in On

\* Nothing is seen of a turn that leaves the lists alone.
LEMMA StillTurn ==
  ASSUME Tidy, UNCHANGED heap
  PROVE  Tidy' /\ On' = On /\ Shown' = Shown
BY DEF heap, Tidy, NoDouble, NoAbandoned, On, ToChannel, MembersOf, Shown

\* The invariant before and after, in its parts.
LEMMA HeapNext ==
  ASSUME IInv, IInv'
  PROVE  HeapOK /\ HeapOK' /\ TreeOK /\ GoneOK /\ BookOK /\ BookOK'
BY FourParts, PartsNext

\* A kick says nothing of the service itself.
LEMMA KickTruthful ==
  ASSUME HeapOK', NEW c \in Cells, NEW us \in SUBSET Users, Kicks(c, us), On' = On
  PROVE  Truthful
<1> DEFINE n == [cmd |-> "K", chans |-> {chan'[c].name}, who |-> us]
<1>1. chan'[c].name \in Names
  BY DEF Kicks, HeapOK, Channel
<1>2. n \in Message /\ n.cmd = "K" /\ sent' = <<n>>
  BY <1>1 DEF Message, Kicks
<1> HIDE DEF n
<1> QED BY <1>2 DEF Truthful, Speaks

\* The kick that follows a join says nothing of it either.
LEMMA AutoKickTruthful ==
  ASSUME HeapOK', NEW c \in Cells, NEW us \in SUBSET Users, AutoKick(us, c), On' = On
  PROVE  Truthful
<1>1. CASE sent' = <<>>
  BY <1>1 DEF Truthful
<1>2. CASE \E ws \in SUBSET Users : Kicks(c, ws)
  BY <1>2, KickTruthful
<1> QED BY <1>1, <1>2 DEF AutoKick

\* The L of channels that are left names just those.
LEMMA LeaveTruthful ==
  ASSUME HeapOK, HeapOK', Tidy, NEW xs \in SUBSET Names, Leave(xs)
  PROVE  Truthful
<1> DEFINE n == [cmd |-> "L", chans |-> xs]
<1>1. n \in Message /\ n.cmd = "L" /\ n.chans = xs /\ sent' = <<n>>
  BY DEF Message, Leave
<1>2. On' = On \ xs
  BY LeaveTurn
<1> HIDE DEF n
<1> QED BY <1>1, <1>2 DEF Truthful, Speaks, On

\* One that is put on the channels xs by a message of the commands that join.
LEMMA JoinTruthful ==
  ASSUME NEW xs \in SUBSET Names, NEW k \in {"C", "J", "B"},
         sent' = <<[cmd |-> k, chans |-> xs]>>, On' = On \cup xs
  PROVE  Truthful
<1> DEFINE n == [cmd |-> k, chans |-> xs]
<1>1. n \in Message /\ n.cmd = k /\ n.chans = xs /\ sent' = <<n>>
  BY DEF Message
<1> HIDE DEF n
<1>2. k # "K" /\ k # "L"
  OBVIOUS
<1> QED BY <1>1, <1>2 DEF Truthful, Speaks, On

\* Most turns leave the servers alone.
LEMMA FlatKept == ASSUME Flat, UNCHANGED <<uplink, path>> PROVE Flat'
BY DEF Flat

\* Another server is removed with its own clients only.
LEMMA BelowLeaf ==
  ASSUME IInv, Flat, NEW s \in Servers, path[s] # {}, s # uplink
  PROVE  Below(s) = {s}
<1>1. TreeOK
  BY FourParts
<1>2. s \in path[s] /\ uplink \in path[s] /\ path[s] \subseteq Servers
  BY <1>1 DEF TreeOK
<1>3. uplink = Hub
  BY <1>2, NamesOK DEF Flat
<1> QED BY <1>2, <1>3 DEF Below, Flat

\* The messages about servers.
LEMMA ServerTurn ==
  ASSUME IInv, IInv', Tidy, Flat, NEW m \in InMessage, m.cmd \in {"SERVER", "S", "EB"},
         proc(m), NEW g \in Homes, NEW p \in Rolls, Turns(server, Shown, m, g, p)
  PROVE  Tidy' /\ Flat' /\ Truthful /\ server' = g /\ Shown' = p
<1>0. HeapOK /\ HeapOK' /\ TreeOK /\ BookOK
  BY HeapNext
<1>1. g = server /\ p = Shown /\ (m.cmd = "SERVER" => m.srv = Hub)
  BY DEF Turns
<1>2. m.srv \in Servers
  BY InMessageParts
<1>3. CASE m.cmd = "SERVER"
  <2>1. onuplink(Hub)
    BY <1>1, <1>3 DEF proc
  <2>2. Tidy' /\ On' = On /\ Shown' = Shown /\ server' = server
    BY <2>1, StillTurn DEF onuplink
  <2>3. Flat'
    BY <2>1, <1>0, NetOK DEF onuplink, Flat, TreeOK
  <2>4. Truthful
    BY <2>1, <2>2 DEF onuplink, Truthful
  <2> QED BY <1>1, <2>2, <2>3, <2>4
<1>4. CASE m.cmd = "S"
  <2>1. onserver(m.srv, Hub)
    BY <1>4 DEF proc
  <2>2. Tidy' /\ On' = On /\ Shown' = Shown /\ server' = server
    BY <2>1, StillTurn DEF onserver
  <2>3. Flat'
    <3>1. path[Hub] \subseteq {Hub}
      BY <1>0, NetOK DEF Flat, TreeOK
    <3>2. path' = [path EXCEPT ![m.srv] = {m.srv} \cup path[Hub]] /\ uplink' = uplink
      BY <2>1 DEF onserver
    <3> QED BY <3>1, <3>2, <1>0, <1>2 DEF Flat, TreeOK
  <2>4. Truthful
    BY <2>1, <2>2 DEF onserver, Truthful
  <2> QED BY <1>1, <2>2, <2>3, <2>4
<1>5. CASE m.cmd = "EB"
  <2>1. EB(m.srv)
    BY <1>5 DEF proc
  <2>2. Flat' /\ server' = server
    BY <2>1, FlatKept DEF EB, tree
  <2>3. CASE m.srv = uplink
    <3>1. SendBurst /\ defs \in SUBSET Names
      BY <2>1, <2>3, <1>0 DEF EB, BookOK
    <3>2. Tidy' /\ Shown' = Shown /\ On' = On \cup defs
      BY <3>1, <1>0, BurstTurn
    <3>3. Truthful
      BY <3>1, <3>2, JoinTruthful DEF SendBurst
    <3> QED BY <1>1, <2>2, <3>2, <3>3
  <2>4. CASE m.srv # uplink
    <3>1. UNCHANGED heap /\ sent' = <<>>
      BY <2>1, <2>4 DEF EB
    <3>2. Tidy' /\ Shown' = Shown /\ On' = On
      BY <3>1, StillTurn
    <3> QED BY <1>1, <2>2, <3>1, <3>2 DEF Truthful
  <2> QED BY <2>3, <2>4
<1> QED BY <1>3, <1>4, <1>5

\* The messages by which clients come and go.
LEMMA UserTurn ==
  ASSUME IInv, IInv', Tidy, Flat, NEW m \in InMessage, m.cmd \in {"N", "Q", "SQ", "J0"},
         proc(m), NEW g \in Homes, NEW p \in Rolls, Turns(server, Shown, m, g, p)
  PROVE  Tidy' /\ Flat' /\ Truthful /\ server' = g /\ Shown' = p
<1>0. HeapOK /\ HeapOK' /\ TreeOK /\ BookOK
  BY HeapNext
<1>1. CASE m.cmd = "N"
  <2>1. onnick(m.who, m.srv)
    BY <1>1 DEF proc
  <2>2. server[m.who] = NULL /\ g = [server EXCEPT ![m.who] = m.srv] /\ p = Shown
    BY <1>1 DEF Turns
  <2>3. UNCHANGED heap /\ sent' = <<>> /\ server' = g /\ UNCHANGED <<uplink, path>>
    BY <2>1, <2>2 DEF onnick
  <2> QED BY <2>2, <2>3, StillTurn, FlatKept DEF Truthful
<1>2. CASE m.cmd = "Q"
  <2>0. m.who \in Users
    BY <1>2, InMessageParts
  <2>1. onquit(m.who)
    BY <1>2 DEF proc
  <2>2. g = [server EXCEPT ![m.who] = NULL] /\ p = Off(Shown, {m.who})
    BY <1>2 DEF Turns
  <2>3. PartAll({m.who}) /\ sent' = <<>> /\ UNCHANGED <<uplink, path>>
    BY <2>1 DEF onquit, Quit
  <2>4. server' = g
    BY <2>1, <2>2, <1>0 DEF onquit, Quit, TreeOK
  <2>5. Tidy' /\ On' = On /\ Shown' = Off(Shown, {m.who})
    BY <2>0, <2>3, <1>0, PartAllTurn
  <2> QED BY <2>2, <2>3, <2>4, <2>5, FlatKept DEF Truthful
<1>3. CASE m.cmd = "SQ"
  <2>0. m.srv \in Servers
    BY <1>3, InMessageParts
  <2> DEFINE us == {u \in Users : server[u] = m.srv}
  <2>1. onsquit(m.srv, TRUE)
    BY <1>3 DEF proc
  <2>2. g = [u \in Users |-> IF server[u] = m.srv THEN NULL ELSE server[u]] /\ p = Off(Shown, us)
    BY <1>3 DEF Turns
  <2>3. Below(m.srv) = {m.srv}
    BY <2>0, <2>1, BelowLeaf DEF onsquit
  <2>4. {u \in Users : server[u] \in Below(m.srv)} = us
    BY <2>3
  <2>5. Quit(us) /\ sent' = <<>>
    BY <2>1, <2>4 DEF onsquit, Squit
  <2>6. server' = g
    BY <2>2, <2>5 DEF Quit
  <2>7. Tidy' /\ On' = On /\ Shown' = Off(Shown, us)
    BY <2>5, <1>0, PartAllTurn DEF Quit
  <2>8. Flat'
    <3>1. /\ path' = [t \in Servers |-> IF t \in Below(m.srv) THEN {} ELSE path[t]]
          /\ uplink' = IF m.srv = uplink THEN NULL ELSE uplink
      BY <2>1 DEF onsquit, Squit
    <3> QED BY <3>1 DEF Flat
  <2> QED BY <2>2, <2>5, <2>6, <2>7, <2>8 DEF Truthful
<1>4. CASE m.cmd = "J0"
  <2>0. m.who \in Users
    BY <1>4, InMessageParts
  <2>1. onjoin0(m.who)
    BY <1>4 DEF proc
  <2>2. g = server /\ p = Off(Shown, {m.who})
    BY <1>4 DEF Turns
  <2>3. PartAll({m.who}) /\ sent' = <<>> /\ UNCHANGED <<server, uplink, path>>
    BY <2>1 DEF onjoin0, tree
  <2>4. Tidy' /\ On' = On /\ Shown' = Off(Shown, {m.who})
    BY <2>0, <2>3, <1>0, PartAllTurn
  <2> QED BY <2>2, <2>3, <2>4, FlatKept DEF Truthful
<1> QED BY <1>1, <1>2, <1>3, <1>4

\* The messages about one channel.
LEMMA ChanTurn ==
  ASSUME IInv, IInv', Tidy, Flat, NEW m \in InMessage, m.cmd \in {"C", "J", "B", "L", "K"},
         proc(m), NEW g \in Homes, NEW p \in Rolls, Turns(server, Shown, m, g, p)
  PROVE  /\ Tidy' /\ Flat' /\ Truthful /\ server' = g /\ Shown' = p
         /\ m.cmd = "K" /\ m.who = Me => m.chan \notin On'
<1>0. HeapOK /\ HeapOK' /\ TreeOK /\ BookOK
  BY HeapNext
<1>1. m.chan \in Names
  BY InMessageParts
<1>2. ASSUME NEW us \in SUBSET Users, us # {}, \A u \in us : u \notin Shown[m.chan],
             NEW c \in Cells, NewChannel(m.chan, FALSE, c), JoinUser(us, c), AutoKick(us, c)
      PROVE  Tidy' /\ Truthful /\ Shown' = [Shown EXCEPT ![m.chan] = Shown[m.chan] \cup us]
  <2>1. Tidy' /\ On' = On /\ Shown' = [Shown EXCEPT ![m.chan] = Shown[m.chan] \cup us]
    BY <1>0, <1>1, <1>2, JoinTurn
  <2> QED BY <1>0, <1>2, <2>1, AutoKickTruthful
<1>3. CASE m.cmd \in {"C", "J"}
  <2> DEFINE us == {m.who}
  <2>1. onjoin(m.who, m.chan) /\ us \in SUBSET Users
    BY <1>3, InMessageParts DEF proc
  <2>2. /\ g = server /\ m.who \notin Shown[m.chan]
        /\ p = [Shown EXCEPT ![m.chan] = Shown[m.chan] \cup us]
    BY <1>3 DEF Turns
  <2>3. PICK c \in Cells : NewChannel(m.chan, FALSE, c) /\ JoinUser(us, c) /\ AutoKick(us, c)
    BY <2>1 DEF onjoin
  <2>4. UNCHANGED <<server, uplink, path>>
    BY <2>1 DEF onjoin, tree
  <2>5. us # {} /\ \A u \in us : u \notin Shown[m.chan]
    BY <2>2
  <2> HIDE DEF us
  <2>6. Tidy' /\ Truthful /\ Shown' = [Shown EXCEPT ![m.chan] = Shown[m.chan] \cup us]
    BY <1>2, <2>1, <2>3, <2>5
  <2> QED BY <1>3, <2>2, <2>4, <2>6, FlatKept
<1>4. CASE m.cmd = "B"
  <2> DEFINE us == m.who
             known == {u \in us : server[u] # NULL}
  <2>1. onburst(m.chan, us) /\ us \in SUBSET Users
    BY <1>4, InMessageParts DEF proc
  <2>2. /\ g = server /\ us # {}
        /\ \A u \in us : server[u] # NULL /\ u \notin Shown[m.chan]
        /\ p = [Shown EXCEPT ![m.chan] = Shown[m.chan] \cup us]
    BY <1>4 DEF Turns
  <2>3. known = us
    BY <2>2
  <2> HIDE DEF us
  <2>4. PICK c \in Cells : /\ NewChannel(m.chan, FALSE, c)
                           /\ JoinUser(known, c) /\ AutoKick(known, c)
    BY <2>1 DEF onburst
  <2>5. UNCHANGED <<server, uplink, path>>
    BY <2>1 DEF onburst, tree
  <2> HIDE DEF known
  <2>6. JoinUser(us, c) /\ AutoKick(us, c)
    BY <2>3, <2>4
  <2>7. Tidy' /\ Truthful /\ Shown' = [Shown EXCEPT ![m.chan] = Shown[m.chan] \cup us]
    BY <1>2, <2>1, <2>2, <2>4, <2>6
  <2> QED BY <1>4, <2>2, <2>5, <2>7, FlatKept
<1>5. CASE m.cmd \in {"L", "K"} /\ m.who # Me
  <2>1. onpart(m.who, m.chan) /\ m.who \in Users
    BY <1>5, InMessageParts DEF proc, onkick
  <2>2. g = server /\ p = [Shown EXCEPT ![m.chan] = Shown[m.chan] \ {m.who}]
    BY <1>5 DEF Turns
  <2>3. Tidy' /\ On' = On /\ Shown' = [Shown EXCEPT ![m.chan] = Shown[m.chan] \ {m.who}]
    BY <1>0, <1>1, <2>1, PartTurn
  <2>4. sent' = <<>> /\ UNCHANGED <<server, uplink, path>>
    BY <2>1 DEF onpart, tree
  <2> QED BY <1>5, <2>2, <2>3, <2>4, FlatKept DEF Truthful
<1>6. CASE m.cmd \in {"L", "K"} /\ m.who = Me
  <2>0. m.cmd = "K"
    BY <1>6, InMessageParts, NetOK
  <2>1. part(m.chan)
    BY <1>6, <2>0 DEF proc, onkick
  <2>2. g = server /\ p = Shown
    <3>1. Me \notin Shown[m.chan]
      BY <1>1, NetOK DEF Shown, MembersOf
    <3> QED BY <1>6, <3>1, <1>1 DEF Turns, Shown
  <2>3. UNCHANGED <<server, uplink, path>>
    BY <2>1 DEF part, tree
  <2>4. CASE ToChannel(m.chan) # {}
    <3>1. Leave({m.chan})
      BY <2>1, <2>4 DEF part
    <3>2. Tidy' /\ Shown' = Shown /\ On' = On \ {m.chan} /\ Truthful
      BY <3>1, <1>0, <1>1, LeaveTurn, LeaveTruthful
    <3> QED BY <2>2, <2>3, <3>2, FlatKept
  <2>5. CASE ToChannel(m.chan) = {}
    <3>1. UNCHANGED heap /\ sent' = <<>>
      BY <2>1, <2>5 DEF part
    <3>2. m.chan \notin On
      BY <2>5 DEF On
    <3> QED BY <2>2, <2>3, <3>1, <3>2, StillTurn, FlatKept DEF Truthful
  <2> QED BY <2>4, <2>5
<1> QED BY <1>3, <1>4, <1>5, <1>6

\* A message does to the service's picture what it means, when it means something.
LEMMA ReceiveTurn ==
  ASSUME IInv, IInv', Tidy, Flat, NEW m \in InMessage, proc(m),
         NEW g \in Homes, NEW p \in Rolls, Turns(server, Shown, m, g, p)
  PROVE  /\ Tidy' /\ Flat' /\ Truthful /\ server' = g /\ Shown' = p
         /\ m.cmd = "K" /\ m.who = Me => m.chan \notin On'
<1>1. CASE m.cmd \in {"SERVER", "S", "EB"}
  BY <1>1, ServerTurn
<1>2. CASE m.cmd \in {"N", "Q", "SQ", "J0"}
  BY <1>2, UserTurn
<1>3. CASE m.cmd \in {"C", "J", "B", "L", "K"}
  BY <1>3, ChanTurn
<1> QED BY <1>1, <1>2, <1>3, InMessageParts

\* Commands and timers show nobody else otherwise.
LEMMA CommandTurn ==
  ASSUME IInv, IInv', Tidy, Flat, Command \/ Timer
  PROVE  Tidy' /\ Flat' /\ Truthful /\ server' = server /\ Shown' = Shown
<1>0. HeapOK /\ HeapOK' /\ TreeOK /\ BookOK
  BY HeapNext
<1>1. ASSUME UNCHANGED tree PROVE Flat' /\ server' = server
  BY <1>1, FlatKept DEF tree
<1>2. ASSUME UNCHANGED heap, sent' = <<>> PROVE Tidy' /\ Shown' = Shown /\ Truthful
  BY <1>2, StillTurn DEF Truthful
<1>3. ASSUME NEW xs \in SUBSET Names, Leave(xs) PROVE Tidy' /\ Shown' = Shown /\ Truthful
  BY <1>0, <1>3, LeaveTurn, LeaveTruthful
<1>4. ASSUME NEW x \in Names, join(x)
      PROVE  Tidy' /\ Flat' /\ Truthful /\ server' = server /\ Shown' = Shown
  <2>1. Tidy' /\ Shown' = Shown /\ On' = On \cup {x}
    BY <1>0, <1>4, OnTurn
  <2>2. sent' = <<[cmd |-> "C", chans |-> {x}]>> \/ sent' = <<[cmd |-> "J", chans |-> {x}]>>
    BY <1>4 DEF join
  <2>3. Truthful
    BY <2>1, <2>2, JoinTruthful
  <2> QED BY <1>1, <1>4, <2>1, <2>3 DEF join
<1>5. ASSUME NEW x \in Names, part(x) \/ purge(x)
      PROVE  Tidy' /\ Flat' /\ Truthful /\ server' = server /\ Shown' = Shown
  <2>1. UNCHANGED tree /\ (Leave({x}) \/ (UNCHANGED heap /\ sent' = <<>>))
    BY <1>5 DEF part, purge
  <2> QED BY <1>1, <1>2, <1>3, <2>1
<1>6. ASSUME NEW us \in SUBSET Users, NEW x \in Names, kick(us, x)
      PROVE  Tidy' /\ Flat' /\ Truthful /\ server' = server /\ Shown' = Shown
  <2>1. PICK c \in ToChannel(x) : Kicks(c, us)
    BY <1>6 DEF kick
  <2>2. Tidy' /\ On' = On /\ Shown' = Shown
    BY <1>6, StillTurn DEF kick
  <2>3. Truthful
    BY <2>1, <2>2, <1>0, KickTruthful DEF ToChannel
  <2> QED BY <1>1, <1>6, <2>2, <2>3 DEF kick
<1>7. ASSUME NEW idle \in SUBSET Names, CheckIdleChannels(idle)
      PROVE  Tidy' /\ Flat' /\ Truthful /\ server' = server /\ Shown' = Shown
  BY <1>1, <1>3, <1>7 DEF CheckIdleChannels
<1>8. ASSUME NEW x \in Names, AddChan(x) \/ RemChan(x)
      PROVE  Tidy' /\ Flat' /\ Truthful /\ server' = server /\ Shown' = Shown
  BY <1>1, <1>2, <1>8 DEF AddChan, RemChan
<1>9. ASSUME SaveDefs \/ LoadDefs
      PROVE  Tidy' /\ Flat' /\ Truthful /\ server' = server /\ Shown' = Shown
  BY <1>1, <1>2, <1>9 DEF SaveDefs, LoadDefs
<1> QED BY <1>4, <1>5, <1>6, <1>7, <1>8, <1>9 DEF Command, Timer

-----------------------------------------------------------------------------
(* Where the network sees the service.                                     *)

\* Whether the service is on x, where now there are the clients us, once the messages ms
\* have been heard: the last one that speaks of it counts.
Ends(ms, us, x) ==
  \/ \E i \in 1..Len(ms) : /\ Speaks(ms[i], x) /\ ms[i].cmd # "L"
                           /\ \A j \in 1..Len(ms) : j > i => ~Speaks(ms[j], x)
  \/ Me \in us /\ \A i \in 1..Len(ms) : ~Speaks(ms[i], x)

\* A kick of the service off x is among the messages ms.
KickIn(ms, x) == \E i \in 1..Len(ms) : ms[i].cmd = "K" /\ ms[i].who = Me /\ ms[i].chan = x

\* What the network sees once it has heard everything is what the service believes, but
\* for kicks of the service that are still on their way to it.
Presence ==
  link => \A x \in Names :
            /\ Ends(toNet, net[x], x) => x \in On
            /\ x \in On => Ends(toNet, net[x], x) \/ KickIn(toX, x)

\* When nothing is on its way, it is what is seen now.
LEMMA EndsNone ==
  ASSUME NEW us, NEW x
  PROVE  Ends(<<>>, us, x) <=> Me \in us
<1> DEFINE none == <<>>
<1>1. Len(none) = 0
  OBVIOUS
<1> HIDE DEF none
<1>2. Ends(none, us, x) <=> Me \in us
  BY <1>1 DEF Ends
<1> QED BY <1>2 DEF none

\* One more message is sent.
LEMMA EndsSent ==
  ASSUME NEW ms \in Seq(Message), NEW n \in Message, NEW us, NEW x
  PROVE  Ends(ms \o <<n>>, us, x) <=> IF Speaks(n, x) THEN n.cmd # "L" ELSE Ends(ms, us, x)
<1> DEFINE a == Len(ms)
           all == ms \o <<n>>
<1>1. /\ a \in Nat /\ Len(all) = a + 1 /\ all[a + 1] = n
      /\ \A i \in 1..a : all[i] = ms[i]
  OBVIOUS
<1> HIDE DEF a, all
<1>2. 1..a + 1 = 1..a \cup {a + 1}
  BY <1>1
<1>3. CASE Speaks(n, x)
  <2>1. ~ \A i \in 1..a + 1 : ~Speaks(all[i], x)
    BY <1>1, <1>2, <1>3
  <2>2. ASSUME NEW i \in 1..a + 1, \A j \in 1..a + 1 : j > i => ~Speaks(all[j], x)
        PROVE  i = a + 1
    BY <1>1, <1>2, <1>3, <2>2
  <2>3. \A j \in 1..a + 1 : ~ (j > a + 1)
    BY <1>1
  <2>4. Ends(all, us, x) <=> n.cmd # "L"
    <3>1. ASSUME Ends(all, us, x) PROVE n.cmd # "L"
      <4>1. PICK i \in 1..a + 1 : /\ Speaks(all[i], x) /\ all[i].cmd # "L"
                                  /\ \A j \in 1..a + 1 : j > i => ~Speaks(all[j], x)
        BY <1>1, <2>1, <3>1 DEF Ends
      <4> QED BY <4>1, <2>2, <1>1
    <3>2. ASSUME n.cmd # "L" PROVE Ends(all, us, x)
      <4>1. a + 1 \in 1..a + 1
        BY <1>1
      <4> QED BY <1>1, <1>3, <2>3, <3>2, <4>1 DEF Ends
    <3> QED BY <3>1, <3>2
  <2> QED BY <1>3, <2>4 DEF all
<1>4. CASE ~Speaks(n, x)
  <2>1. (\A i \in 1..a + 1 : ~Speaks(all[i], x)) <=> (\A i \in 1..a : ~Speaks(ms[i], x))
    BY <1>1, <1>2, <1>4
  <2>2. ASSUME NEW i \in 1..a
        PROVE  (\A j \in 1..a + 1 : j > i => ~Speaks(all[j], x))
                  <=> (\A j \in 1..a : j > i => ~Speaks(ms[j], x))
    BY <1>1, <1>2, <1>4
  <2>3. Ends(all, us, x) <=> Ends(ms, us, x)
    <3>1. ASSUME NEW i \in 1..a + 1, Speaks(all[i], x) PROVE i \in 1..a
      BY <1>1, <1>2, <1>4, <3>1
    <3>2. ASSUME NEW i \in 1..a + 1, Speaks(all[i], x), all[i].cmd # "L",
                 \A j \in 1..a + 1 : j > i => ~Speaks(all[j], x)
          PROVE  Ends(ms, us, x)
      <4>1. i \in 1..a
        BY <3>1, <3>2
      <4> QED BY <4>1, <3>2, <2>2, <1>1 DEF Ends, a
    <3>3. ASSUME NEW i \in 1..a, Speaks(ms[i], x), ms[i].cmd # "L",
                 \A j \in 1..a : j > i => ~Speaks(ms[j], x)
          PROVE  Ends(all, us, x)
      <4>1. i \in 1..a + 1
        BY <1>2
      <4> QED BY <4>1, <3>3, <2>2, <1>1 DEF Ends
    <3>4. Ends(all, us, x) => Ends(ms, us, x)
      BY <1>1, <2>1, <3>2 DEF Ends, a
    <3>5. Ends(ms, us, x) => Ends(all, us, x)
      BY <1>1, <2>1, <3>3 DEF Ends, a
    <3> QED BY <3>4, <3>5
  <2> QED BY <1>4, <2>3 DEF all
<1> QED BY <1>3, <1>4

\* The first message is heard.
LEMMA EndsHeard ==
  ASSUME NEW ms \in Seq(Message), ms # <<>>, NEW us, NEW vs, NEW x,
         Me \in vs <=> IF Speaks(Head(ms), x) THEN Head(ms).cmd # "L" ELSE Me \in us
  PROVE  Ends(Tail(ms), vs, x) <=> Ends(ms, us, x)
<1> DEFINE rest == Tail(ms)
           a == Len(rest)
<1>1. /\ a \in Nat /\ Len(ms) = a + 1 /\ Head(ms) = ms[1]
      /\ \A i \in 1..a : rest[i] = ms[i + 1]
  OBVIOUS
<1> HIDE DEF rest, a
<1>2. 1 \in 1..a + 1 /\ \A i \in 1..a : i + 1 \in 1..a + 1
  BY <1>1
<1>3. \A i \in 1..a + 1 : i # 1 => i - 1 \in 1..a /\ (i - 1) + 1 = i
  BY <1>1
<1>4. \A i \in 1..a + 1 : i # 1 => rest[i - 1] = ms[i]
  <2> TAKE i \in 1..a + 1
  <2> HAVE i # 1
  <2>1. i - 1 \in 1..a /\ (i - 1) + 1 = i
    BY <1>3
  <2> QED BY <1>1, <2>1
<1>5. (\A j \in 1..a + 1 : j > 1 => ~Speaks(ms[j], x)) <=> (\A j \in 1..a : ~Speaks(rest[j], x))
  <2>1. ASSUME \A j \in 1..a + 1 : j > 1 => ~Speaks(ms[j], x), NEW j \in 1..a
        PROVE  ~Speaks(rest[j], x)
    <3>1. j + 1 \in 1..a + 1 /\ j + 1 > 1 /\ rest[j] = ms[j + 1]
      BY <1>1, <1>2
    <3> QED BY <2>1, <3>1
  <2>2. ASSUME \A j \in 1..a : ~Speaks(rest[j], x), NEW j \in 1..a + 1, j > 1
        PROVE  ~Speaks(ms[j], x)
    <3>1. j - 1 \in 1..a /\ rest[j - 1] = ms[j]
      BY <1>3, <1>4, <2>2
    <3> QED BY <2>2, <3>1
  <2> QED BY <2>1, <2>2
<1>6. ASSUME NEW i \in 1..a
      PROVE  (\A j \in 1..a + 1 : j > i + 1 => ~Speaks(ms[j], x))
                <=> (\A j \in 1..a : j > i => ~Speaks(rest[j], x))
  <2>1. ASSUME \A j \in 1..a + 1 : j > i + 1 => ~Speaks(ms[j], x), NEW j \in 1..a, j > i
        PROVE  ~Speaks(rest[j], x)
    <3>1. j + 1 \in 1..a + 1 /\ j + 1 > i + 1 /\ rest[j] = ms[j + 1]
      BY <1>1, <1>2, <2>1
    <3> QED BY <2>1, <3>1
  <2>2. ASSUME \A j \in 1..a : j > i => ~Speaks(rest[j], x), NEW j \in 1..a + 1, j > i + 1
        PROVE  ~Speaks(ms[j], x)
    <3>1. j - 1 \in 1..a /\ j - 1 > i /\ rest[j - 1] = ms[j]
      BY <1>1, <1>3, <1>4, <2>2
    <3> QED BY <2>2, <3>1
  <2> QED BY <2>1, <2>2
<1>7. Ends(rest, vs, x) => Ends(ms, us, x)
  <2>1. ASSUME NEW i \in 1..a, Speaks(rest[i], x), rest[i].cmd # "L",
               \A j \in 1..a : j > i => ~Speaks(rest[j], x)
        PROVE  Ends(ms, us, x)
    <3>1. rest[i] = ms[i + 1] /\ i + 1 \in 1..Len(ms)
      BY <1>1, <1>2
    <3>2. \A j \in 1..Len(ms) : j > i + 1 => ~Speaks(ms[j], x)
      BY <1>1, <1>6, <2>1
    <3> QED BY <2>1, <3>1, <3>2 DEF Ends
  <2>2. ASSUME Me \in vs, \A j \in 1..a : ~Speaks(rest[j], x)
        PROVE  Ends(ms, us, x)
    <3>1. \A j \in 1..Len(ms) : j > 1 => ~Speaks(ms[j], x)
      BY <1>1, <1>5, <2>2
    <3>2. CASE Speaks(ms[1], x)
      BY <1>1, <1>2, <2>2, <3>1, <3>2 DEF Ends
    <3>3. CASE ~Speaks(ms[1], x)
      <4>1. \A j \in 1..Len(ms) : ~Speaks(ms[j], x)
        <5> TAKE j \in 1..Len(ms)
        <5>1. j = 1 \/ j > 1
          BY <1>1
        <5> QED BY <5>1, <3>1, <3>3
      <4> QED BY <1>1, <2>2, <3>3, <4>1 DEF Ends
    <3> QED BY <3>2, <3>3
  <2> QED BY <2>1, <2>2 DEF Ends, a
<1>8. Ends(ms, us, x) => Ends(rest, vs, x)
  <2>1. ASSUME NEW i \in 1..a + 1, Speaks(ms[i], x), ms[i].cmd # "L",
               \A j \in 1..a + 1 : j > i => ~Speaks(ms[j], x)
        PROVE  Ends(rest, vs, x)
    <3>1. CASE i = 1
      <4>1. Me \in vs /\ \A j \in 1..a : ~Speaks(rest[j], x)
        BY <1>1, <1>5, <2>1, <3>1
      <4> QED BY <4>1 DEF Ends, a
    <3>2. CASE i # 1
      <4> DEFINE k == i - 1
      <4>1. k \in 1..a /\ k + 1 = i /\ rest[k] = ms[i]
        BY <1>3, <1>4, <3>2
      <4> HIDE DEF k
      <4>2. \A j \in 1..a : j > k => ~Speaks(rest[j], x)
        BY <1>6, <2>1, <4>1
      <4> QED BY <2>1, <4>1, <4>2 DEF Ends, a
    <3> QED BY <3>1, <3>2
  <2>2. ASSUME Me \in us, \A j \in 1..a + 1 : ~Speaks(ms[j], x)
        PROVE  Ends(rest, vs, x)
    <3>1. Me \in vs /\ \A j \in 1..a : ~Speaks(rest[j], x)
      BY <1>1, <1>2, <1>5, <2>2
    <3> QED BY <3>1 DEF Ends, a
  <2> QED BY <1>1, <2>1, <2>2 DEF Ends
<1> QED BY <1>7, <1>8 DEF rest

\* Whoever leaves the channel, the service does not get on it that way.
LEMMA EndsLess ==
  ASSUME NEW ms, NEW us, NEW vs, NEW x, Me \in vs => Me \in us
  PROVE  Ends(ms, vs, x) => Ends(ms, us, x)
BY DEF Ends

\* A kick stays among the messages until it is read.
LEMMA KickAdded ==
  ASSUME NEW ms \in Seq(InMessage), NEW ns \in Seq(InMessage), NEW x
  PROVE  /\ KickIn(ms, x) => KickIn(ms \o ns, x)
         /\ KickIn(ns, x) => KickIn(ms \o ns, x)
<1> DEFINE a == Len(ms)
           b == Len(ns)
           all == ms \o ns
<1>1. a \in Nat /\ b \in Nat /\ Len(all) = a + b
  OBVIOUS
<1>2. \A i \in 1..a + b : all[i] = IF i <= a THEN ms[i] ELSE ns[i - a]
  BY ConcatProperties
<1> HIDE DEF a, b, all
<1>3. ASSUME NEW i \in 1..a, ms[i].cmd = "K", ms[i].who = Me, ms[i].chan = x
      PROVE  KickIn(all, x)
  <2>1. i \in 1..Len(all) /\ all[i] = ms[i]
    BY <1>1, <1>2
  <2> QED BY <1>3, <2>1 DEF KickIn
<1>4. ASSUME NEW i \in 1..b, ns[i].cmd = "K", ns[i].who = Me, ns[i].chan = x
      PROVE  KickIn(all, x)
  <2> DEFINE k == a + i
  <2>1. k \in 1..a + b /\ ~ (k <= a) /\ k - a = i
    BY <1>1
  <2> HIDE DEF k
  <2>2. all[k] = ns[i]
    BY <1>2, <2>1
  <2> QED BY <1>1, <1>4, <2>1, <2>2 DEF KickIn
<1> QED BY <1>3, <1>4 DEF KickIn, a, b, all

\* The message read may be the kick itself.
LEMMA KickRead ==
  ASSUME NEW ms \in Seq(InMessage), ms # <<>>, NEW x, KickIn(ms, x)
  PROVE  \/ KickIn(Tail(ms), x)
         \/ Head(ms).cmd = "K" /\ Head(ms).who = Me /\ Head(ms).chan = x
<1> DEFINE rest == Tail(ms)
           a == Len(rest)
<1>1. /\ a \in Nat /\ Len(ms) = a + 1 /\ Head(ms) = ms[1]
      /\ \A i \in 1..a : rest[i] = ms[i + 1]
  OBVIOUS
<1> HIDE DEF rest, a
<1>2. PICK i \in 1..a + 1 : ms[i].cmd = "K" /\ ms[i].who = Me /\ ms[i].chan = x
  BY <1>1 DEF KickIn
<1>3. CASE i = 1
  BY <1>1, <1>2, <1>3
<1>4. CASE i # 1
  <2> DEFINE k == i - 1
  <2>1. k \in 1..a /\ k + 1 = i
    BY <1>1, <1>4
  <2> HIDE DEF k
  <2>2. rest[k] = ms[i]
    BY <1>1, <2>1
  <2>3. KickIn(rest, x)
    BY <1>2, <2>1, <2>2 DEF KickIn, a
  <2> QED BY <2>3 DEF rest
<1> QED BY <1>3, <1>4

\* The service does something and says so.
LEMMA TurnPresence ==
  ASSUME PipesOK, Presence, Truthful, Send, UNCHANGED <<link, net>>,
         \A x \in Names : KickIn(toX, x) => KickIn(toX', x) \/ x \notin On'
  PROVE  Presence'
<1> SUFFICES ASSUME link, NEW x \in Names
             PROVE  /\ Ends(toNet', net'[x], x) => x \in On'
                    /\ x \in On' => Ends(toNet', net'[x], x) \/ KickIn(toX', x)
  BY DEF Presence
<1>1. toNet \in Seq(Message) /\ net' = net /\ toNet' = toNet \o sent'
  BY DEF PipesOK, Send
<1>2. CASE sent' = <<>> /\ On' = On
  <2>1. toNet' = toNet
    BY <1>1, <1>2
  <2> QED BY <1>1, <1>2, <2>1 DEF Presence
<1>3. CASE \E n \in Message :
             /\ sent' = <<n>>
             /\ \A y \in Names : y \in On' <=> IF Speaks(n, y) THEN n.cmd # "L" ELSE y \in On
  <2> PICK n \in Message :
        /\ sent' = <<n>>
        /\ \A y \in Names : y \in On' <=> IF Speaks(n, y) THEN n.cmd # "L" ELSE y \in On
    BY <1>3
  <2>1. Ends(toNet', net[x], x) <=> IF Speaks(n, x) THEN n.cmd # "L" ELSE Ends(toNet, net[x], x)
    BY <1>1, EndsSent
  <2> QED BY <1>1, <2>1 DEF Presence
<1> QED BY <1>2, <1>3 DEF Truthful

\* The network hears a message.
LEMMA HearPresence ==
  ASSUME PipesOK, Presence, Hear
  PROVE  Presence'
<1> SUFFICES ASSUME link, NEW x \in Names
             PROVE  /\ Ends(toNet', net'[x], x) => x \in On
                    /\ x \in On => Ends(toNet', net'[x], x) \/ KickIn(toX, x)
  BY DEF Hear, Presence, vars, heap, On, ToChannel
<1> DEFINE m == Head(toNet)
<1>1. toNet \in Seq(Message) /\ toNet # <<>> /\ toNet' = Tail(toNet) /\ m \in Message
  BY DEF PipesOK, Hear
<1>2. m.cmd = "K" => Me \notin m.who
  BY <1>1, NetOK DEF Message
<1>3. m.cmd \in {"C", "J", "L", "B", "K"}
  BY <1>1, MessageParts
<1> DEFINE heard(y) == CASE m.cmd \in {"C", "J", "B"} -> net[y] \cup {Me}
                         [] m.cmd = "L" -> net[y] \ {Me}
                         [] m.cmd = "K" -> net[y] \ m.who
<1>4. net' = [y \in Names |-> IF y \notin m.chans THEN net[y] ELSE heard(y)]
  BY Zenon DEF Hear
<1>5. Me \in heard(x) <=> IF m.cmd # "K" THEN m.cmd # "L" ELSE Me \in net[x]
  BY <1>2, <1>3
<1> HIDE DEF heard
<1>6. Me \in net'[x] <=> IF Speaks(m, x) THEN m.cmd # "L" ELSE Me \in net[x]
  BY <1>4, <1>5 DEF Speaks
<1>7. Ends(toNet', net'[x], x) <=> Ends(toNet, net[x], x)
  BY <1>1, <1>6, EndsHeard
<1> QED BY <1>7 DEF Presence

\* The network goes on: it takes the service off a channel only with a kick.
LEMMA NetPresence ==
  ASSUME PipesOK, Presence, NetStep, NEW ms \in Seq(InMessage), Tell(ms),
         \A x \in Names : Me \in net'[x] => Me \in net[x],
         \A x \in Names : Me \in net[x] => Me \in net'[x] \/ KickIn(ms, x)
  PROVE  Presence'
<1> SUFFICES ASSUME link, NEW x \in Names
             PROVE  /\ Ends(toNet, net'[x], x) => x \in On
                    /\ x \in On => Ends(toNet, net'[x], x) \/ KickIn(toX', x)
  BY DEF NetStep, Presence, vars, heap, On, ToChannel
<1>1. toX \in Seq(InMessage) /\ toX' = toX \o ms
  BY DEF PipesOK, Tell
<1>2. Ends(toNet, net'[x], x) => Ends(toNet, net[x], x)
  BY EndsLess
<1>3. Me \in net'[x] \/ Me \notin net[x] => (Ends(toNet, net[x], x) => Ends(toNet, net'[x], x))
  BY EndsLess
<1>4. KickIn(toX, x) \/ KickIn(ms, x) => KickIn(toX', x)
  BY <1>1, KickAdded
<1> QED BY <1>2, <1>3, <1>4 DEF Presence

-----------------------------------------------------------------------------
(* The network goes on, and tells the service.                             *)

\* Only clients that are online are on channels, and zombies are on none.
Sane == \A x \in Names, u \in Users : /\ u \in net[x] => home[u] # NULL
                                      /\ <<u, x>> \in zombies => u \notin net[x]

\* The picture g, p is the network, but for zombies.
Matches(g, p) ==
  /\ g = home
  /\ \A x \in Names, u \in Users : /\ u \in net[x] => u \in p[x]
                                   /\ u \in p[x] => u \in net[x] \/ <<u, x>> \in zombies

\* What is on its way to the service makes its picture the network.
Story == \E g \in Homes, p \in Rolls : /\ Leads(server, Shown, toX, g, p)
                                       /\ link => Matches(g, p)

\* The message m takes the picture of the network as it was to the network as it is.
News(m) == \A g \in Homes, p \in Rolls :
             Matches(g, p) => \E g2 \in Homes, p2 \in Rolls :
                                Turns(g, p, m, g2, p2) /\ Matches(g2, p2)'

\* The picture is the service's alone.
LEMMA ShownSame == ASSUME UNCHANGED vars PROVE server' = server /\ Shown' = Shown
BY DEF vars, heap, tree, Shown, MembersOf, ToChannel

\* The network changes by one message, and the story goes on.
LEMMA OneTold ==
  ASSUME PipesOK, Story, Presence, NetStep, NEW m \in InMessage, Tell(<<m>>), News(m),
         \A x \in Names : Me \in net'[x] => Me \in net[x],
         \A x \in Names : Me \in net[x] =>
            Me \in net'[x] \/ (m.cmd = "K" /\ m.who = Me /\ m.chan = x)
  PROVE  Story' /\ Presence'
<1> DEFINE one == <<m>>
<1>1. one \in Seq(InMessage) /\ Len(one) = 1 /\ one[1] = m
  OBVIOUS
<1> HIDE DEF one
<1>2. \A x \in Names : m.cmd = "K" /\ m.who = Me /\ m.chan = x => KickIn(one, x)
  BY <1>1 DEF KickIn
<1>3. Presence'
  <2>1. Tell(one)
    BY DEF one
  <2>2. \A x \in Names : Me \in net[x] => Me \in net'[x] \/ KickIn(one, x)
    BY <1>2
  <2> QED BY <1>1, <2>1, <2>2, NetPresence
<1>4. PICK g \in Homes, p \in Rolls : /\ Leads(server, Shown, toX, g, p)
                                      /\ link => Matches(g, p)
  BY DEF Story
<1>5. server' = server /\ Shown' = Shown /\ link' = link
  BY ShownSame DEF NetStep
<1>6. CASE ~link
  <2>1. toX' = toX
    BY <1>6 DEF Tell
  <2>2. Leads(server', Shown', toX', g, p)
    BY <1>4, <1>5, <2>1
  <2> QED BY <1>3, <1>5, <1>6, <2>2 DEF Story
<1>7. CASE link
  <2>1. PICK g2 \in Homes, p2 \in Rolls : Turns(g, p, m, g2, p2) /\ Matches(g2, p2)'
    BY <1>4, <1>7 DEF News
  <2>2. Leads(g, p, one, g2, p2)
    BY <2>1, LeadsOne DEF one
  <2>3. toX \in Seq(InMessage) /\ toX' = toX \o one
    BY <1>7 DEF PipesOK, Tell, one
  <2>4. Leads(server, Shown, toX \o one, g2, p2)
    BY <1>1, <1>4, <2>2, <2>3, LeadsOn
  <2>5. Leads(server', Shown', toX', g2, p2)
    BY <1>5, <2>3, <2>4
  <2> QED BY <1>3, <2>1, <2>5 DEF Story
<1> QED BY <1>6, <1>7

\* A client signs on,
LEMMA SignOnTold ==
  ASSUME PipesOK, Sane, Story, Presence, NEW u \in Users, NEW s \in Servers, SignOn(u, s)
  PROVE  Sane' /\ Story' /\ Presence'
<1> DEFINE m == [cmd |-> "N", who |-> u, srv |-> s]
<1>1. m \in InMessage /\ m.cmd = "N" /\ m.who = u /\ m.srv = s
  BY DEF InMessage
<1>2. NetStep /\ Tell(<<m>>) /\ UNCHANGED <<net, leaves, zombies>>
      /\ home[u] = NULL /\ home' = [home EXCEPT ![u] = s]
  BY DEF SignOn, Online
<1> HIDE DEF m
<1>3. Sane'
  BY <1>2, NamesOK DEF Sane, PipesOK
<1>4. News(m)
  <2> SUFFICES ASSUME NEW g \in Homes, NEW p \in Rolls, Matches(g, p)
               PROVE  \E g2 \in Homes, p2 \in Rolls :
                        Turns(g, p, m, g2, p2) /\ Matches(g2, p2)'
    BY DEF News
  <2> DEFINE g2 == [g EXCEPT ![u] = s]
  <2>1. g2 \in Homes /\ Turns(g, p, m, g2, p)
    BY <1>1, <1>2 DEF Turns, Homes, Matches
  <2>2. Matches(g2, p)'
    BY <1>2 DEF Matches
  <2> QED BY <2>1, <2>2
<1> QED BY <1>1, <1>2, <1>3, <1>4, OneTold

\* signs off,
LEMMA SignOffTold ==
  ASSUME PipesOK, Sane, Story, Presence, NEW u \in Users, SignOff(u)
  PROVE  Sane' /\ Story' /\ Presence'
<1> DEFINE m == [cmd |-> "Q", who |-> u]
<1>1. m \in InMessage /\ m.cmd = "Q" /\ m.who = u
  BY DEF InMessage
<1>2. /\ NetStep /\ Tell(<<m>>) /\ home' = [home EXCEPT ![u] = NULL]
      /\ net' = [x \in Names |-> net[x] \ {u}]
      /\ zombies' = {z \in zombies : z[1] \notin {u}}
  BY DEF SignOff, Without
<1> HIDE DEF m
<1>3. Sane'
  BY <1>2 DEF Sane, PipesOK
<1>4. News(m)
  <2> SUFFICES ASSUME NEW g \in Homes, NEW p \in Rolls, Matches(g, p)
               PROVE  \E g2 \in Homes, p2 \in Rolls :
                        Turns(g, p, m, g2, p2) /\ Matches(g2, p2)'
    BY DEF News
  <2> DEFINE g2 == [g EXCEPT ![u] = NULL]
  <2>1. g2 \in Homes /\ Off(p, {u}) \in Rolls /\ Turns(g, p, m, g2, Off(p, {u}))
    BY <1>1 DEF Turns, Homes, Rolls, Off
  <2>2. Matches(g2, Off(p, {u}))'
    BY <1>2 DEF Matches, Off
  <2> QED BY <2>1, <2>2
<1>5. \A x \in Names : Me \in net'[x] <=> Me \in net[x]
  BY <1>2, NetOK
<1> QED BY <1>1, <1>2, <1>3, <1>4, <1>5, OneTold

\* leaves all its channels,
LEMMA PartsAllTold ==
  ASSUME PipesOK, Sane, Story, Presence, NEW u \in Users, PartsAll(u)
  PROVE  Sane' /\ Story' /\ Presence'
<1> DEFINE m == [cmd |-> "J0", who |-> u]
<1>1. m \in InMessage /\ m.cmd = "J0" /\ m.who = u
  BY DEF InMessage
<1>2. /\ NetStep /\ Tell(<<m>>) /\ net' = [x \in Names |-> net[x] \ {u}]
      /\ UNCHANGED <<home, zombies>>
  BY DEF PartsAll
<1> HIDE DEF m
<1>3. Sane'
  BY <1>2 DEF Sane
<1>4. News(m)
  <2> SUFFICES ASSUME NEW g \in Homes, NEW p \in Rolls, Matches(g, p)
               PROVE  \E g2 \in Homes, p2 \in Rolls :
                        Turns(g, p, m, g2, p2) /\ Matches(g2, p2)'
    BY DEF News
  <2>1. Off(p, {u}) \in Rolls /\ Turns(g, p, m, g, Off(p, {u}))
    BY <1>1 DEF Turns, Rolls, Off
  <2>2. Matches(g, Off(p, {u}))'
    BY <1>2 DEF Matches, Off
  <2> QED BY <2>1, <2>2
<1>5. \A x \in Names : Me \in net'[x] <=> Me \in net[x]
  BY <1>2, NetOK
<1> QED BY <1>1, <1>2, <1>3, <1>4, <1>5, OneTold

\* or joins one;
LEMMA JoinsTold ==
  ASSUME PipesOK, Sane, Story, Presence, NEW u \in Users, NEW x \in Names, Joins(u, x)
  PROVE  Sane' /\ Story' /\ Presence'
<1> DEFINE m == [cmd |-> IF net[x] = {} THEN "C" ELSE "J", who |-> u, chan |-> x]
<1>1. m \in InMessage /\ m.cmd \in {"C", "J"} /\ m.who = u /\ m.chan = x
  BY DEF InMessage
<1>2. /\ NetStep /\ Tell(<<m>>) /\ net' = [net EXCEPT ![x] = @ \cup {u}]
      /\ UNCHANGED <<home, zombies>>
      /\ home[u] # NULL /\ u \notin net[x] /\ <<u, x>> \notin zombies
  BY DEF Joins, Online
<1> HIDE DEF m
<1>3. Sane'
  BY <1>2 DEF Sane, PipesOK
<1>4. News(m)
  <2> SUFFICES ASSUME NEW g \in Homes, NEW p \in Rolls, Matches(g, p)
               PROVE  \E g2 \in Homes, p2 \in Rolls :
                        Turns(g, p, m, g2, p2) /\ Matches(g2, p2)'
    BY DEF News
  <2> DEFINE p2 == [p EXCEPT ![x] = p[x] \cup {u}]
  <2>1. p2 \in Rolls /\ Turns(g, p, m, g, p2)
    BY <1>1, <1>2 DEF Turns, Rolls, Matches
  <2>2. Matches(g, p2)'
    BY <1>2 DEF Matches, Rolls, PipesOK
  <2> QED BY <2>1, <2>2
<1>5. \A y \in Names : Me \in net'[y] <=> Me \in net[y]
  BY <1>2, NetOK DEF PipesOK
<1> QED BY <1>1, <1>2, <1>3, <1>4, <1>5, OneTold

\* several come with their server;
LEMMA BurstsInTold ==
  ASSUME PipesOK, Sane, Story, Presence, NEW us \in SUBSET Users, NEW x \in Names,
         BurstsIn(us, x)
  PROVE  Sane' /\ Story' /\ Presence'
<1> DEFINE m == [cmd |-> "B", who |-> us, chan |-> x]
<1>1. m \in InMessage /\ m.cmd = "B" /\ m.who = us /\ m.chan = x
  BY DEF InMessage
<1>2. /\ NetStep /\ Tell(<<m>>) /\ net' = [net EXCEPT ![x] = @ \cup us]
      /\ UNCHANGED <<home, zombies>> /\ us # {}
      /\ \A u \in us : home[u] # NULL /\ u \notin net[x] /\ <<u, x>> \notin zombies
  BY NamesOK DEF BurstsIn, PipesOK
<1> HIDE DEF m
<1>3. Sane'
  BY <1>2 DEF Sane, PipesOK
<1>4. News(m)
  <2> SUFFICES ASSUME NEW g \in Homes, NEW p \in Rolls, Matches(g, p)
               PROVE  \E g2 \in Homes, p2 \in Rolls :
                        Turns(g, p, m, g2, p2) /\ Matches(g2, p2)'
    BY DEF News
  <2> DEFINE p2 == [p EXCEPT ![x] = p[x] \cup us]
  <2>1. p2 \in Rolls /\ Turns(g, p, m, g, p2)
    BY <1>1, <1>2 DEF Turns, Rolls, Matches
  <2>2. Matches(g, p2)'
    BY <1>2 DEF Matches, Rolls, PipesOK
  <2> QED BY <2>1, <2>2
<1>5. \A y \in Names : Me \in net'[y] <=> Me \in net[y]
  BY <1>2, NetOK DEF PipesOK
<1> QED BY <1>1, <1>2, <1>3, <1>4, <1>5, OneTold

\* one leaves, or its kick is confirmed;
LEMMA PartsTold ==
  ASSUME PipesOK, Sane, Story, Presence, NEW u \in Users, NEW x \in Names,
         Parts(u, x) \/ ZombieGone(u, x)
  PROVE  Sane' /\ Story' /\ Presence'
<1> DEFINE m == [cmd |-> "L", who |-> u, chan |-> x]
<1>1. m \in InMessage /\ m.cmd = "L" /\ m.who = u /\ m.chan = x
  BY DEF InMessage
<1>2. /\ NetStep /\ Tell(<<m>>) /\ UNCHANGED home
      /\ \/ net' = [net EXCEPT ![x] = @ \ {u}] /\ zombies' = zombies
         \/ net' = net /\ zombies' = zombies \ {<<u, x>>} /\ <<u, x>> \in zombies
  BY DEF Parts, ZombieGone
<1> HIDE DEF m
<1>3. Sane'
  <2>1. CASE net' = [net EXCEPT ![x] = @ \ {u}] /\ zombies' = zombies
    BY <1>2, <2>1, Zenon DEF Sane, PipesOK
  <2>2. CASE net' = net /\ zombies' = zombies \ {<<u, x>>}
    BY <1>2, <2>2, Zenon DEF Sane
  <2> QED BY <1>2, <2>1, <2>2
<1>4. News(m)
  <2> SUFFICES ASSUME NEW g \in Homes, NEW p \in Rolls, Matches(g, p)
               PROVE  \E g2 \in Homes, p2 \in Rolls :
                        Turns(g, p, m, g2, p2) /\ Matches(g2, p2)'
    BY DEF News
  <2> DEFINE p2 == [p EXCEPT ![x] = p[x] \ {u}]
  <2>1. p2 \in Rolls /\ Turns(g, p, m, g, p2)
    BY <1>1 DEF Turns, Rolls
  <2>2. Matches(g, p2)'
    BY <1>2 DEF Matches, Rolls, PipesOK, Sane
  <2> QED BY <2>1, <2>2
<1>5. \A y \in Names : Me \in net'[y] <=> Me \in net[y]
  BY <1>2, NetOK DEF PipesOK
<1> QED BY <1>1, <1>2, <1>3, <1>4, <1>5, OneTold

\* one is kicked, or the service is.
LEMMA KickedTold ==
  ASSUME PipesOK, Sane, Story, Presence, NEW w \in Users \cup {Me}, NEW x \in Names,
         Kicked(w, x)
  PROVE  Sane' /\ Story' /\ Presence'
<1> DEFINE m == [cmd |-> "K", who |-> w, chan |-> x]
<1>1. m \in InMessage /\ m.cmd = "K" /\ m.who = w /\ m.chan = x
  BY DEF InMessage
<1>2. /\ NetStep /\ Tell(<<m>>) /\ UNCHANGED home /\ w \in net[x]
      /\ net' = [net EXCEPT ![x] = @ \ {w}]
      /\ zombies' = IF w = Me THEN zombies ELSE zombies \cup {<<w, x>>}
  BY DEF Kicked
<1> HIDE DEF m
<1>3. Sane'
  BY <1>2 DEF Sane, PipesOK
<1>4. News(m)
  <2> SUFFICES ASSUME NEW g \in Homes, NEW p \in Rolls, Matches(g, p)
               PROVE  \E g2 \in Homes, p2 \in Rolls :
                        Turns(g, p, m, g2, p2) /\ Matches(g2, p2)'
    BY DEF News
  <2> DEFINE p2 == [p EXCEPT ![x] = p[x] \ {w}]
  <2>1. p2 \in Rolls /\ Turns(g, p, m, g, p2)
    BY <1>1 DEF Turns, Rolls
  <2>2. Matches(g, p2)'
    BY <1>2, NetOK DEF Matches, Rolls, PipesOK
  <2> QED BY <2>1, <2>2
<1>5. \A y \in Names : /\ Me \in net'[y] => Me \in net[y]
                       /\ Me \in net[y] => Me \in net'[y] \/ (w = Me /\ y = x)
  BY <1>2 DEF PipesOK
<1> QED BY <1>1, <1>2, <1>3, <1>4, <1>5, OneTold

\* Two messages are one after the other.
LEMMA Pair ==
  ASSUME NEW S, NEW m \in S, NEW n \in S
  PROVE  <<m, n>> = <<m>> \o <<n>>
<1> DEFINE a == <<m>>
           c == <<m, n>>
<1>1. a \in Seq(S) /\ Len(a) = 1 /\ a[1] = m
  OBVIOUS
<1>2. c \in Seq(S) /\ Len(c) = 2 /\ c[1] = m /\ c[2] = n
  OBVIOUS
<1>3. a \o <<n>> = Append(a, n)
  BY <1>1, AppendIsConcat
<1> HIDE DEF a, c
<1>4. Append(a, n) = c
  <2> DEFINE d == Append(a, n)
  <2>1. d \in Seq(S) /\ Len(d) = 2 /\ d[1] = m /\ d[2] = n
    <3>1. 1 \in 1..Len(a) /\ Len(a) + 1 = 2
      BY <1>1
    <3>2. d \in Seq(S) /\ Len(d) = Len(a) + 1
      BY <1>1, AppendProperties, Zenon
    <3>3. d[Len(a) + 1] = n
      BY <1>1, AppendProperties, SMTT(30)
    <3>4. d[1] = a[1]
      BY <1>1, <3>1, AppendProperties, SMTT(30)
    <3> QED BY <1>1, <3>1, <3>2, <3>3, <3>4
  <2> HIDE DEF d
  <2>2. \A i \in 1..Len(d) : d[i] = c[i]
    BY <1>2, <2>1
  <2>3. d = c
    BY <1>2, <2>1, <2>2, SeqEqual
  <2> QED BY <2>3 DEF d
<1>5. a \o <<n>> = c
  BY <1>3, <1>4
<1> QED BY <1>5 DEF a, c

\* A server comes,
LEMMA NetJoinTold ==
  ASSUME PipesOK, Sane, Story, Presence, NEW s \in Servers, NetJoin(s)
  PROVE  Sane' /\ Story' /\ Presence'
<1> DEFINE m == [cmd |-> "S", srv |-> s]
           n == [cmd |-> "EB", srv |-> s]
           two == <<m, n>>
<1>1. m \in InMessage /\ m.cmd = "S" /\ n \in InMessage /\ n.cmd = "EB"
  BY DEF InMessage
<1>2. NetStep /\ Tell(two) /\ UNCHANGED <<net, home, zombies>>
  BY DEF NetJoin
<1> HIDE DEF m, n
<1>3. two \in Seq(InMessage) /\ two = <<m>> \o <<n>>
  BY <1>1, Pair
<1>4. <<m>> \in Seq(InMessage) /\ <<n>> \in Seq(InMessage)
  BY <1>1
<1> HIDE DEF two
<1>5. Sane'
  BY <1>2 DEF Sane
<1>6. Presence'
  BY <1>2, <1>3, NetPresence
<1>7. Story'
  <2>1. PICK g \in Homes, p \in Rolls : /\ Leads(server, Shown, toX, g, p)
                                        /\ link => Matches(g, p)
    BY DEF Story
  <2>2. server' = server /\ Shown' = Shown /\ link' = link
    BY <1>2, ShownSame DEF NetStep
  <2>3. Turns(g, p, m, g, p) /\ Turns(g, p, n, g, p)
    BY <1>1 DEF Turns
  <2>4. Leads(g, p, <<m>>, g, p) /\ Leads(g, p, <<n>>, g, p)
    BY <2>3, LeadsOne
  <2>5. Leads(g, p, two, g, p)
    BY <1>3, <1>4, <2>4, LeadsOn
  <2>6. toX \in Seq(InMessage) /\ (toX' = toX \/ toX' = toX \o two)
    BY <1>2 DEF PipesOK, Tell
  <2>7. Leads(server, Shown, toX', g, p)
    BY <1>3, <2>1, <2>5, <2>6, LeadsOn
  <2>8. Leads(server', Shown', toX', g, p)
    BY <2>2, <2>7
  <2>9. link' => Matches(g, p)'
    BY <1>2, <2>1, <2>2 DEF Matches
  <2> QED BY <2>8, <2>9 DEF Story
<1> QED BY <1>5, <1>6, <1>7

\* or goes.
LEMMA NetSplitTold ==
  ASSUME PipesOK, Sane, Story, Presence, NEW s \in Servers, NetSplit(s)
  PROVE  Sane' /\ Story' /\ Presence'
<1> DEFINE m == [cmd |-> "SQ", srv |-> s]
           us == {u \in Users : home[u] = s}
<1>1. m \in InMessage /\ m.cmd = "SQ" /\ m.srv = s
  BY DEF InMessage
<1>2. /\ NetStep /\ Tell(<<m>>)
      /\ home' = [u \in Users |-> IF home[u] = s THEN NULL ELSE home[u]]
      /\ net' = [x \in Names |-> net[x] \ us]
      /\ zombies' = {z \in zombies : z[1] \notin us}
  BY DEF NetSplit, Without
<1> HIDE DEF m
<1>3. Sane'
  BY <1>2 DEF Sane, PipesOK
<1>4. News(m)
  <2> SUFFICES ASSUME NEW g \in Homes, NEW p \in Rolls, Matches(g, p)
               PROVE  \E g2 \in Homes, p2 \in Rolls :
                        Turns(g, p, m, g2, p2) /\ Matches(g2, p2)'
    BY DEF News
  <2> DEFINE g2 == [u \in Users |-> IF g[u] = s THEN NULL ELSE g[u]]
             vs == {u \in Users : g[u] = s}
  <2>1. g2 \in Homes /\ Off(p, vs) \in Rolls /\ Turns(g, p, m, g2, Off(p, vs))
    BY <1>1 DEF Turns, Homes, Rolls, Off
  <2>2. vs = us /\ g2 = home'
    BY <1>2 DEF Matches
  <2> HIDE DEF g2, vs
  <2>3. Matches(g2, Off(p, vs))'
    BY <1>2, <2>2 DEF Matches, Off
  <2> QED BY <2>1, <2>3
<1>5. \A x \in Names : Me \in net'[x] <=> Me \in net[x]
  BY <1>2, NetOK
<1> QED BY <1>1, <1>2, <1>3, <1>4, <1>5, OneTold

\* All that the network does.
LEMMA NetworkTold ==
  ASSUME PipesOK, Sane, Story, Presence, Network
  PROVE  Sane' /\ Story' /\ Presence'
BY SignOnTold, SignOffTold, PartsAllTold, JoinsTold, PartsTold, BurstsInTold, KickedTold,
   NetJoinTold, NetSplitTold, Zenon DEF Network

-----------------------------------------------------------------------------
(* The burst tells of the whole network.                                   *)

\* SetToSeq lists every element once.
LEMMA SetToSeqAll ==
  ASSUME NEW S, IsFiniteSet(S)
  PROVE  LET f == SetToSeq(S)
         IN /\ f \in Seq(S) /\ f \in [1..Len(f) -> S]
            /\ \A i, j \in 1..Len(f) : f[i] = f[j] => i = j
            /\ \A e \in S : \E i \in 1..Len(f) : f[i] = e
<1> DEFINE n == Cardinality(S)
           f == SetToSeq(S)
<1>1. n \in Nat /\ ExistsBijection(1..n, S)
  BY FS_CardinalityType
<1>2. \E h \in [1..n -> S] : IsInjective(h)
  BY <1>1, Zenon DEF ExistsBijection, Bijection, Injection
<1>3. f \in [1..n -> S] /\ IsInjective(f)
  BY <1>2, Zenon DEF SetToSeq
<1>4. Cardinality(1..n) = n
  <2> HIDE DEF n
  <2>1. 1 \in Int /\ n \in Int
    BY <1>1
  <2>2. Cardinality(1..n) = IF 1 > n THEN 0 ELSE n - 1 + 1
    BY <2>1, FS_Interval, Zenon
  <2> QED BY <1>1, <2>2
<1>5. f \in Injection(1..n, S)
  BY <1>3, Zenon DEF Injection
<1>6. f \in Surjection(1..n, S)
  BY <1>4, <1>5, FS_Injection, Zenon
<1> HIDE DEF n
<1>7. f \in Seq(S) /\ Len(f) = n
  BY <1>1, <1>3
<1>8. \A e \in S : \E i \in 1..n : f[i] = e
  BY <1>6, Zenon DEF Surjection
<1>9. \A i, j \in 1..n : f[i] = f[j] => i = j
  BY <1>3 DEF IsInjective
<1> QED BY <1>3, <1>7, <1>8, <1>9

\* The servers change nothing in the picture.
LEMMA LeadsServers ==
  ASSUME NEW h \in Homes, NEW r \in Rolls, NEW f \in Seq(Servers)
  PROVE  Leads(h, r, [i \in 1..Len(f) |-> [cmd |-> "S", srv |-> f[i]]], h, r)
<1> DEFINE ms == [i \in 1..Len(f) |-> [cmd |-> "S", srv |-> f[i]]]
           n == Len(f)
           H == [i \in 1..n + 1 |-> h]
           R == [i \in 1..n + 1 |-> r]
<1>1. n \in Nat /\ Len(ms) = n /\ \A i \in 1..n : ms[i].cmd = "S"
  OBVIOUS
<1>2. 1 \in 1..n + 1 /\ n + 1 \in 1..n + 1 /\ \A i \in 1..n : i \in 1..n + 1 /\ i + 1 \in 1..n + 1
  BY <1>1
<1> HIDE DEF ms, n
<1>3. /\ H \in [1..n + 1 -> Homes] /\ R \in [1..n + 1 -> Rolls]
      /\ \A i \in 1..n + 1 : H[i] = h /\ R[i] = r
  OBVIOUS
<1> HIDE DEF H, R
<1>4. \A i \in 1..n : Turns(H[i], R[i], ms[i], H[i + 1], R[i + 1])
  BY <1>1, <1>2, <1>3 DEF Turns
<1>5. Leads(h, r, ms, h, r)
  BY <1>1, <1>2, <1>3, <1>4 DEF Leads, Tale
<1> QED BY <1>5 DEF ms

\* The first i - 1 of the list f.
Before(f, i, e) == \E j \in 1..Len(f) : j < i /\ f[j] = e

\* One more of the list.
LEMMA BeforeNext ==
  ASSUME NEW S, NEW f \in Seq(S), NEW i \in 1..Len(f),
         \A k, j \in 1..Len(f) : f[k] = f[j] => k = j
  PROVE  /\ ~Before(f, i, f[i])
         /\ \A e : Before(f, i + 1, e) <=> Before(f, i, e) \/ e = f[i]
<1> DEFINE n == Len(f)
<1>1. n \in Nat /\ i \in 1..n
  OBVIOUS
<1> HIDE DEF n
<1>2. \A j \in 1..n : j < i + 1 <=> j < i \/ j = i
  BY <1>1
<1>3. ~ (i < i)
  BY <1>1
<1> QED BY <1>1, <1>2, <1>3 DEF Before, n

\* Each client that is online signs on.
LEMMA LeadsUsers ==
  ASSUME home \in Homes, NEW r \in Rolls, NEW f \in Seq(Users),
         \A k, j \in 1..Len(f) : f[k] = f[j] => k = j,
         \A u \in Users : home[u] # NULL => \E k \in 1..Len(f) : f[k] = u
  PROVE  Leads([u \in Users |-> NULL], r,
               [i \in 1..Len(f) |-> [cmd |-> "N", who |-> f[i], srv |-> home[f[i]]]], home, r)
<1> DEFINE ms == [i \in 1..Len(f) |-> [cmd |-> "N", who |-> f[i], srv |-> home[f[i]]]]
           n == Len(f)
           H == [i \in 1..n + 1 |-> [u \in Users |-> IF Before(f, i, u) THEN home[u] ELSE NULL]]
           R == [i \in 1..n + 1 |-> r]
           none == [u \in Users |-> NULL]
<1>1. /\ n \in Nat /\ Len(ms) = n
      /\ \A i \in 1..n : /\ ms[i].cmd = "N" /\ ms[i].who = f[i] /\ ms[i].srv = home[f[i]]
                         /\ f[i] \in Users
  OBVIOUS
<1>2. 1 \in 1..n + 1 /\ n + 1 \in 1..n + 1 /\ \A i \in 1..n : i \in 1..n + 1 /\ i + 1 \in 1..n + 1
  BY <1>1
<1>3. \A i \in 1..n : /\ ~Before(f, i, f[i])
                      /\ \A e : Before(f, i + 1, e) <=> Before(f, i, e) \/ e = f[i]
  BY BeforeNext
<1>4. \A u \in Users : ~Before(f, 1, u) /\ (home[u] # NULL => Before(f, n + 1, u))
  <2> TAKE u \in Users
  <2>1. \A j \in 1..n : ~ (j < 1) /\ j < n + 1
    BY <1>1
  <2> QED BY <2>1 DEF Before
<1> HIDE DEF ms, n
<1>5. /\ H \in [1..n + 1 -> Homes] /\ R \in [1..n + 1 -> Rolls]
      /\ \A i \in 1..n + 1 : /\ H[i] = [u \in Users |-> IF Before(f, i, u) THEN home[u] ELSE NULL]
                             /\ R[i] = r
  BY DEF Homes
<1> HIDE DEF H, R
<1>6. ASSUME NEW i \in 1..n
      PROVE  Turns(H[i], R[i], ms[i], H[i + 1], R[i + 1])
  <2>1. /\ H[i] = [u \in Users |-> IF Before(f, i, u) THEN home[u] ELSE NULL]
        /\ H[i + 1] = [u \in Users |-> IF Before(f, i + 1, u) THEN home[u] ELSE NULL]
        /\ R[i] = r /\ R[i + 1] = r
    BY <1>2, <1>5
  <2>2. H[i][f[i]] = NULL
    BY <1>1, <1>3, <2>1
  <2>3. H[i + 1] = [H[i] EXCEPT ![f[i]] = home[f[i]]]
    <3>1. \A u \in Users : Before(f, i + 1, u) <=> Before(f, i, u) \/ u = f[i]
      BY <1>3
    <3>2. \A u \in Users : H[i + 1][u] = IF u = f[i] THEN home[f[i]] ELSE H[i][u]
      <4> TAKE u \in Users
      <4>1. H[i][u] = IF Before(f, i, u) THEN home[u] ELSE NULL
        BY <2>1
      <4>2. H[i + 1][u] = IF Before(f, i + 1, u) THEN home[u] ELSE NULL
        BY <2>1
      <4>3. Before(f, i + 1, u) <=> Before(f, i, u) \/ u = f[i]
        BY <3>1
      <4> QED BY <4>1, <4>2, <4>3
    <3>3. H[i] \in Homes /\ H[i + 1] \in Homes
      BY <1>2, <1>5
    <3> QED BY <1>1, <3>2, <3>3 DEF Homes
  <2> QED BY <1>1, <2>1, <2>2, <2>3 DEF Turns
<1>7. H[1] = none /\ H[n + 1] = home /\ R[1] = r /\ R[n + 1] = r
  <2>1. /\ H[1] = [u \in Users |-> IF Before(f, 1, u) THEN home[u] ELSE NULL]
        /\ H[n + 1] = [u \in Users |-> IF Before(f, n + 1, u) THEN home[u] ELSE NULL]
        /\ R[1] = r /\ R[n + 1] = r
    BY <1>2, <1>5
  <2>2. H[1] = none
    BY <1>4, <2>1
  <2>3. H[n + 1] = home
    BY <1>4, <2>1 DEF Homes
  <2> QED BY <2>1, <2>2, <2>3
<1> HIDE DEF none
<1>8. Tale(H, R, ms)
  BY <1>1, <1>5, <1>6 DEF Tale
<1>9. Leads(none, r, ms, home, r)
  BY <1>1, <1>7, <1>8 DEF Leads
<1> QED BY <1>9 DEF ms, none

\* Each channel that anyone is on is told with all who are.
LEMMA LeadsChannels ==
  ASSUME home \in Homes, net \in Rolls, NEW f \in Seq(Names),
         \A x \in Names, u \in Users : u \in net[x] => home[u] # NULL,
         \A k, j \in 1..Len(f) : f[k] = f[j] => k = j,
         \A k \in 1..Len(f) : net[f[k]] # {},
         \A x \in Names : net[x] # {} => \E k \in 1..Len(f) : f[k] = x
  PROVE  Leads(home, [x \in Names |-> {}],
               [i \in 1..Len(f) |-> [cmd |-> "B", who |-> net[f[i]], chan |-> f[i]]], home, net)
<1> DEFINE ms == [i \in 1..Len(f) |-> [cmd |-> "B", who |-> net[f[i]], chan |-> f[i]]]
           n == Len(f)
           H == [i \in 1..n + 1 |-> home]
           R == [i \in 1..n + 1 |-> [x \in Names |-> IF Before(f, i, x) THEN net[x] ELSE {}]]
           none == [x \in Names |-> {}]
<1>1. /\ n \in Nat /\ Len(ms) = n
      /\ \A i \in 1..n : /\ ms[i].cmd = "B" /\ ms[i].who = net[f[i]] /\ ms[i].chan = f[i]
                         /\ f[i] \in Names /\ net[f[i]] # {}
  OBVIOUS
<1>2. 1 \in 1..n + 1 /\ n + 1 \in 1..n + 1 /\ \A i \in 1..n : i \in 1..n + 1 /\ i + 1 \in 1..n + 1
  BY <1>1
<1>3. \A i \in 1..n : /\ ~Before(f, i, f[i])
                      /\ \A e : Before(f, i + 1, e) <=> Before(f, i, e) \/ e = f[i]
  BY BeforeNext
<1>4. \A x \in Names : ~Before(f, 1, x) /\ (net[x] # {} => Before(f, n + 1, x))
  <2> TAKE x \in Names
  <2>1. \A j \in 1..n : ~ (j < 1) /\ j < n + 1
    BY <1>1
  <2> QED BY <2>1 DEF Before
<1> HIDE DEF ms, n
<1>5. /\ H \in [1..n + 1 -> Homes] /\ R \in [1..n + 1 -> Rolls]
      /\ \A i \in 1..n + 1 : /\ H[i] = home
                             /\ R[i] = [x \in Names |-> IF Before(f, i, x) THEN net[x] ELSE {}]
  BY DEF Rolls
<1> HIDE DEF H, R
<1>6. ASSUME NEW i \in 1..n
      PROVE  Turns(H[i], R[i], ms[i], H[i + 1], R[i + 1])
  <2>1. /\ R[i] = [x \in Names |-> IF Before(f, i, x) THEN net[x] ELSE {}]
        /\ R[i + 1] = [x \in Names |-> IF Before(f, i + 1, x) THEN net[x] ELSE {}]
        /\ H[i] = home /\ H[i + 1] = home
    BY <1>2, <1>5
  <2>2. R[i][f[i]] = {}
    BY <1>1, <1>3, <2>1
  <2>3. R[i + 1] = [R[i] EXCEPT ![f[i]] = R[i][f[i]] \cup net[f[i]]]
    <3>1. \A x \in Names : Before(f, i + 1, x) <=> Before(f, i, x) \/ x = f[i]
      BY <1>3
    <3>2. \A x \in Names : R[i + 1][x] = IF x = f[i] THEN R[i][f[i]] \cup net[f[i]] ELSE R[i][x]
      <4> TAKE x \in Names
      <4>1. R[i][x] = IF Before(f, i, x) THEN net[x] ELSE {}
        BY <2>1
      <4>2. R[i + 1][x] = IF Before(f, i + 1, x) THEN net[x] ELSE {}
        BY <2>1
      <4>3. Before(f, i + 1, x) <=> Before(f, i, x) \/ x = f[i]
        BY <3>1
      <4> QED BY <2>2, <4>1, <4>2, <4>3
    <3>3. R[i] \in Rolls /\ R[i + 1] \in Rolls
      BY <1>2, <1>5
    <3>4. f[i] \in Names
      BY <1>1
    <3> QED BY <3>2, <3>3, <3>4 DEF Rolls
  <2>4. \A u \in net[f[i]] : home[u] # NULL
    BY <1>1 DEF Rolls
  <2> QED BY <1>1, <2>1, <2>2, <2>3, <2>4 DEF Turns
<1>7. R[1] = none /\ R[n + 1] = net /\ H[1] = home /\ H[n + 1] = home
  <2>1. /\ R[1] = [x \in Names |-> IF Before(f, 1, x) THEN net[x] ELSE {}]
        /\ R[n + 1] = [x \in Names |-> IF Before(f, n + 1, x) THEN net[x] ELSE {}]
        /\ H[1] = home /\ H[n + 1] = home
    BY <1>2, <1>5
  <2>2. R[1] = none
    BY <1>4, <2>1
  <2>3. R[n + 1] = net
    BY <1>4, <2>1 DEF Rolls
  <2> QED BY <2>1, <2>2, <2>3
<1> HIDE DEF none
<1>8. Tale(H, R, ms)
  BY <1>1, <1>5, <1>6 DEF Tale
<1>9. Leads(home, none, ms, home, net)
  BY <1>1, <1>7, <1>8 DEF Leads
<1> QED BY <1>9 DEF ms, none

\* The burst as a whole: from nothing to the network.
LEMMA BurstTold ==
  ASSUME PipesOK, Sane, ~link
  PROVE  Leads([u \in Users |-> NULL], [x \in Names |-> {}], Burst, home, net)
<1> DEFINE none == [u \in Users |-> NULL]
           empty == [x \in Names |-> {}]
           fs == SetToSeq(leaves)
           fu == SetToSeq(Online)
           open == {x \in Names : net[x] # {}}
           fx == SetToSeq(open)
           A == <<[cmd |-> "SERVER", srv |-> Hub]>>
           S == [i \in 1..Len(fs) |-> [cmd |-> "S", srv |-> fs[i]]]
           N == [i \in 1..Len(fu) |-> [cmd |-> "N", who |-> fu[i], srv |-> home[fu[i]]]]
           B == [i \in 1..Len(fx) |-> [cmd |-> "B", who |-> net[fx[i]], chan |-> fx[i]]]
           E == <<[cmd |-> "EB", srv |-> Hub]>>
<1>0. /\ none \in Homes /\ empty \in Rolls /\ home \in Homes /\ net \in Rolls
  BY DEF Homes, Rolls, PipesOK
<1>1. A \in Seq(InMessage) /\ Leads(none, empty, A, none, empty)
  <2> DEFINE a == [cmd |-> "SERVER", srv |-> Hub]
  <2>1. a \in InMessage /\ a.cmd = "SERVER" /\ a.srv = Hub
    BY NetOK DEF InMessage
  <2> HIDE DEF a, none, empty
  <2>2. Turns(none, empty, a, none, empty)
    BY <2>1 DEF Turns
  <2>3. <<a>> \in Seq(InMessage)
    BY <2>1
  <2>4. Leads(none, empty, <<a>>, none, empty)
    BY <1>0, <2>2, LeadsOne
  <2> QED BY <2>3, <2>4 DEF a
<1>2. E \in Seq(InMessage) /\ Leads(home, net, E, home, net)
  <2> DEFINE a == [cmd |-> "EB", srv |-> Hub]
  <2>1. a \in InMessage /\ a.cmd = "EB"
    BY NetOK DEF InMessage
  <2> HIDE DEF a
  <2>2. Turns(home, net, a, home, net)
    BY <2>1 DEF Turns
  <2>3. <<a>> \in Seq(InMessage)
    BY <2>1
  <2>4. Leads(home, net, <<a>>, home, net)
    BY <1>0, <2>2, LeadsOne
  <2> QED BY <2>3, <2>4 DEF a
<1>3. S \in Seq(InMessage) /\ Leads(none, empty, S, none, empty)
  <2>1. IsFiniteSet(leaves)
    BY NetOK, FS_Subset DEF PipesOK
  <2>2. fs \in Seq(leaves)
    BY <2>1, SetToSeqAll
  <2> HIDE DEF fs, none, empty
  <2>3. fs \in Seq(Servers)
    BY <2>2 DEF PipesOK
  <2>4. \A i \in 1..Len(fs) : [cmd |-> "S", srv |-> fs[i]] \in InMessage
    BY <2>3 DEF InMessage
  <2> QED BY <1>0, <2>3, <2>4, LeadsServers
<1>4. N \in Seq(InMessage) /\ Leads(none, empty, N, home, empty)
  <2>1. IsFiniteSet(Online)
    BY NetOK, FS_Subset DEF Online
  <2>2. /\ fu \in Seq(Online) /\ \A k, j \in 1..Len(fu) : fu[k] = fu[j] => k = j
        /\ \A u \in Online : \E k \in 1..Len(fu) : fu[k] = u
    BY <2>1, SetToSeqAll
  <2> HIDE DEF fu, empty
  <2>3. fu \in Seq(Users) /\ \A u \in Users : home[u] # NULL => \E k \in 1..Len(fu) : fu[k] = u
    BY <2>2 DEF Online
  <2>4. \A i \in 1..Len(fu) : [cmd |-> "N", who |-> fu[i], srv |-> home[fu[i]]] \in InMessage
    <3>1. \A i \in 1..Len(fu) : fu[i] \in Online
      BY <2>2
    <3>2. \A u \in Online : u \in Users /\ home[u] \in Servers
      BY DEF Online, PipesOK
    <3> QED BY <3>1, <3>2 DEF InMessage
  <2>5. N \in Seq(InMessage)
    BY <2>3, <2>4
  <2>6. Leads(none, empty, N, home, empty)
    BY <1>0, <2>2, <2>3, LeadsUsers
  <2> QED BY <2>5, <2>6
<1>5. B \in Seq(InMessage) /\ Leads(home, empty, B, home, net)
  <2>1. IsFiniteSet(open)
    BY NetOK, FS_Subset
  <2>2. /\ fx \in Seq(open) /\ \A k, j \in 1..Len(fx) : fx[k] = fx[j] => k = j
        /\ \A x \in open : \E k \in 1..Len(fx) : fx[k] = x
    BY <2>1, SetToSeqAll
  <2> HIDE DEF fx
  <2>3. /\ fx \in Seq(Names)
        /\ \A k \in 1..Len(fx) : net[fx[k]] # {}
        /\ \A x \in Names : net[x] # {} => \E k \in 1..Len(fx) : fx[k] = x
    BY <2>2
  <2>4. \A i \in 1..Len(fx) : [cmd |-> "B", who |-> net[fx[i]], chan |-> fx[i]] \in InMessage
    BY <1>0, <2>3 DEF InMessage, Rolls
  <2>5. B \in Seq(InMessage)
    BY <2>3, <2>4
  <2>6. Leads(home, empty, B, home, net)
    BY <1>0, <2>2, <2>3, LeadsChannels DEF Sane
  <2> QED BY <2>5, <2>6
<1> HIDE DEF A, S, N, B, E, none, empty
<1>6. A \o S \in Seq(InMessage) /\ A \o S \o N \in Seq(InMessage) /\ B \o E \in Seq(InMessage)
  BY <1>1, <1>2, <1>3, <1>4, <1>5
<1>7. Leads(none, empty, A \o S, none, empty)
  BY <1>1, <1>3, LeadsOn
<1>8. Leads(none, empty, A \o S \o N, home, empty)
  BY <1>4, <1>6, <1>7, LeadsOn
<1>9. Leads(home, empty, B \o E, home, net)
  BY <1>2, <1>5, LeadsOn
<1>10. Leads(none, empty, A \o S \o N \o (B \o E), home, net)
  BY <1>6, <1>8, <1>9, LeadsOn
<1> QED BY <1>10, Zenon DEF Burst, A, S, N, B, E, none, empty

-----------------------------------------------------------------------------
(* The invariant, and what follows once the pipes are empty.               *)

PictureInv == Tidy /\ Flat /\ Sane /\ Story /\ Presence

\* At first all are empty.
LEMMA PictureInit ==
  ASSUME NetInit
  PROVE  PictureInv
<1>1. /\ chan = [c \in Cells |-> NULL] /\ members = [c \in Cells |-> Nobody]
      /\ server = [u \in Users |-> NULL] /\ uplink = NULL /\ path = [s \in Servers |-> {}]
      /\ link = FALSE /\ net = [x \in Names |-> {}] /\ zombies = {} /\ toX = <<>>
  BY DEF NetInit, Init
<1>2. Tidy
  BY <1>1 DEF Tidy, NoDouble, NoAbandoned, Nobody
<1>3. Flat /\ Sane /\ Presence
  BY <1>1 DEF Flat, Sane, Presence
<1>4. Shown \in Rolls /\ server \in Homes
  BY <1>1, ShownType DEF Homes
<1>5. Story
  BY <1>1, <1>4, LeadsNone DEF Story
<1> QED BY <1>2, <1>3, <1>5 DEF PictureInv

\* The service reads a message.
LEMMA ReceivePicture ==
  ASSUME NetInv, IInv', PictureInv, Receive
  PROVE  PictureInv'
<1> DEFINE m == Head(toX)
<1>1. IInv /\ PipesOK /\ Tidy /\ Flat /\ Sane /\ Story /\ Presence
  BY DEF NetInv, PictureInv
<1>2. /\ toX \in Seq(InMessage) /\ toX # <<>> /\ m \in InMessage
      /\ proc(m) /\ toX' = Tail(toX) /\ Send
      /\ UNCHANGED <<link, net, home, zombies>>
  BY <1>1 DEF Receive, PipesOK
<1>3. PICK g \in Homes, p \in Rolls : /\ Leads(server, Shown, toX, g, p)
                                      /\ link => Matches(g, p)
  BY <1>1 DEF Story
<1>4. PICK h2 \in Homes, r2 \in Rolls :
        Turns(server, Shown, m, h2, r2) /\ Leads(h2, r2, Tail(toX), g, p)
  BY <1>2, <1>3, LeadsTail
<1> HIDE DEF m
<1>5. /\ Tidy' /\ Flat' /\ Truthful /\ server' = h2 /\ Shown' = r2
      /\ m.cmd = "K" /\ m.who = Me => m.chan \notin On'
  BY <1>1, <1>2, <1>4, ReceiveTurn
<1>6. Sane'
  BY <1>1, <1>2 DEF Sane
<1>7. Story'
  <2>1. Leads(server', Shown', toX', g, p)
    BY <1>2, <1>4, <1>5
  <2>2. link' => Matches(g, p)'
    BY <1>2, <1>3 DEF Matches
  <2> QED BY <2>1, <2>2 DEF Story
<1>8. Presence'
  <2>1. ASSUME NEW x \in Names, KickIn(toX, x) PROVE KickIn(toX', x) \/ x \notin On'
    <3>1. KickIn(Tail(toX), x) \/ (m.cmd = "K" /\ m.who = Me /\ m.chan = x)
      BY <1>2, <2>1, KickRead DEF m
    <3> QED BY <1>2, <1>5, <3>1
  <2> QED BY <1>1, <1>2, <1>5, <2>1, TurnPresence
<1> QED BY <1>5, <1>6, <1>7, <1>8 DEF PictureInv

\* The service acts of itself.
LEMMA CommandPicture ==
  ASSUME NetInv, IInv', PictureInv, Command \/ Timer
  PROVE  PictureInv'
<1>1. IInv /\ PipesOK /\ Tidy /\ Flat /\ Sane /\ Story /\ Presence
  BY DEF NetInv, PictureInv
<1>2. Send /\ UNCHANGED <<link, net, home, zombies, toX>>
  BY Zenon DEF Command, Timer
<1>3. Tidy' /\ Flat' /\ Truthful /\ server' = server /\ Shown' = Shown
  BY <1>1, CommandTurn
<1>4. Sane'
  BY <1>1, <1>2 DEF Sane
<1>5. Story'
  <2>1. PICK g \in Homes, p \in Rolls : /\ Leads(server, Shown, toX, g, p)
                                        /\ link => Matches(g, p)
    BY <1>1 DEF Story
  <2>2. Leads(server', Shown', toX', g, p)
    BY <1>2, <1>3, <2>1
  <2>3. link' => Matches(g, p)'
    BY <1>2, <2>1 DEF Matches
  <2> QED BY <2>2, <2>3 DEF Story
<1>6. Presence'
  <2>1. toX' = toX
    BY <1>2
  <2>2. \A x \in Names : KickIn(toX, x) => KickIn(toX', x) \/ x \notin On'
    BY <2>1
  <2> QED BY <1>1, <1>2, <1>3, <2>2, TurnPresence
<1> QED BY <1>3, <1>4, <1>5, <1>6 DEF PictureInv

\* What the network does leaves the service alone.
LEMMA TidyFlatSame == ASSUME Tidy, Flat, UNCHANGED vars PROVE Tidy' /\ Flat'
BY StillTurn, FlatKept DEF vars, tree

\* The uplink hears the service: those it kicks are zombies.
LEMMA HearPicture ==
  ASSUME NetInv, PictureInv, Hear
  PROVE  PictureInv'
<1>1. PipesOK /\ Tidy /\ Flat /\ Sane /\ Story /\ Presence
  BY DEF NetInv, PictureInv
<1>2. UNCHANGED <<vars, link, home, toX>>
  BY DEF Hear
<1>3. Tidy' /\ Flat'
  BY <1>1, <1>2, TidyFlatSame
<1> DEFINE m == Head(toNet)
           heard(y) == CASE m.cmd \in {"C", "J", "B"} -> net[y] \cup {Me}
                         [] m.cmd = "L" -> net[y] \ {Me}
                         [] m.cmd = "K" -> net[y] \ m.who
           hit == {z \in Users \X Names :
                     m.cmd = "K" /\ z[1] \in m.who /\ z[2] \in m.chans /\ z[1] \in net[z[2]]}
<1>4. m \in Message /\ m.cmd \in {"C", "J", "L", "B", "K"}
  BY <1>1, MessageParts DEF PipesOK, Hear
<1>5. /\ net' = [y \in Names |-> IF y \notin m.chans THEN net[y] ELSE heard(y)]
      /\ zombies' = zombies \cup hit
  BY Zenon DEF Hear
<1>6. ASSUME NEW x \in Names, NEW u \in Users
      PROVE  /\ u \in net'[x] <=> u \in net[x] /\ <<u, x>> \notin hit
             /\ <<u, x>> \in hit => u \in net[x]
             /\ <<u, x>> \in zombies' <=> <<u, x>> \in zombies \/ <<u, x>> \in hit
  <2>1. u # Me
    BY NetOK
  <2>2. <<u, x>> \in hit <=> m.cmd = "K" /\ u \in m.who /\ x \in m.chans /\ u \in net[x]
    OBVIOUS
  <2>3. u \in heard(x) <=> u \in net[x] /\ ~ (m.cmd = "K" /\ u \in m.who)
    BY <1>4, <2>1
  <2> HIDE DEF heard, hit
  <2> QED BY <1>5, <2>2, <2>3
<1> HIDE DEF heard, hit, m
<1>7. Sane'
  <2> SUFFICES ASSUME NEW x \in Names, NEW u \in Users
               PROVE  /\ u \in net'[x] => home'[u] # NULL
                      /\ <<u, x>> \in zombies' => u \notin net'[x]
    BY DEF Sane
  <2> QED BY <1>1, <1>2, <1>6 DEF Sane
<1>8. Story'
  <2>1. PICK g \in Homes, p \in Rolls : /\ Leads(server, Shown, toX, g, p)
                                        /\ link => Matches(g, p)
    BY <1>1 DEF Story
  <2>2. server' = server /\ Shown' = Shown
    BY <1>2, ShownSame
  <2>3. Leads(server', Shown', toX', g, p)
    BY <1>2, <2>1, <2>2
  <2>4. ASSUME link' PROVE Matches(g, p)'
    <3>1. Matches(g, p) /\ home' = home
      BY <1>2, <2>1, <2>4
    <3>2. ASSUME NEW x \in Names, NEW u \in Users
          PROVE  /\ u \in net'[x] => u \in p[x]
                 /\ u \in p[x] => u \in net'[x] \/ <<u, x>> \in zombies'
      BY <1>6, <3>1 DEF Matches
    <3> QED BY <3>1, <3>2 DEF Matches
  <2> QED BY <2>3, <2>4 DEF Story
<1>9. Presence'
  BY <1>1, HearPresence
<1> QED BY <1>3, <1>7, <1>8, <1>9 DEF PictureInv

\* The connection breaks.
LEMMA LostPicture ==
  ASSUME NetInv, PictureInv, LinkLost
  PROVE  PictureInv'
<1>1. Tidy /\ Flat /\ Sane /\ Story
  BY DEF PictureInv
<1>2. /\ UNCHANGED <<vars, home, zombies, toX>> /\ link' = FALSE
      /\ net' = [x \in Names |-> net[x] \ {Me}]
  BY DEF LinkLost
<1>3. Tidy' /\ Flat'
  BY <1>1, <1>2, TidyFlatSame
<1>4. Sane' /\ Presence'
  BY <1>1, <1>2 DEF Sane, Presence
<1>5. Story'
  <2>1. PICK g \in Homes, p \in Rolls : Leads(server, Shown, toX, g, p)
    BY <1>1 DEF Story
  <2>2. server' = server /\ Shown' = Shown /\ toX' = toX
    BY <1>2, ShownSame
  <2>3. Leads(server', Shown', toX', g, p)
    BY <2>1, <2>2
  <2> QED BY <1>2, <2>3 DEF Story
<1> QED BY <1>3, <1>4, <1>5 DEF PictureInv

\* When the service has forgotten all, its picture is empty.
LEMMA Forgotten ==
  ASSUME chan' = [c \in Cells |-> NULL], members' = [c \in Cells |-> Nobody]
  PROVE  Tidy' /\ On' = {} /\ Shown' = [x \in Names |-> {}]
BY DEF Tidy, NoDouble, NoAbandoned, Nobody, On, ToChannel, Shown, MembersOf

\* It connects again.
LEMMA ReconnectPicture ==
  ASSUME NetInv, IInv', PictureInv, Reconnect
  PROVE  PictureInv'
<1> DEFINE none == [u \in Users |-> NULL]
           empty == [x \in Names |-> {}]
<1>1. IInv /\ TreeOK /\ PipesOK /\ Sane /\ Flat
  BY FourParts DEF NetInv, PictureInv
<1>2. /\ ~link /\ QuitAll /\ toX' = Burst /\ toNet' = <<>>
      /\ UNCHANGED <<net, home, zombies>>
  BY DEF Reconnect, reconnect
<1>3. /\ Tidy' /\ On' = {} /\ Shown' = empty
  BY <1>2, Forgotten DEF QuitAll
<1>4. server' = none
  <2>1. \A u \in Users : server[u] # NULL => /\ uplink # NULL /\ uplink \in Servers
                                             /\ server[u] \in Below(uplink)
    <3> TAKE u \in Users
    <3> HAVE server[u] # NULL
    <3>1. server[u] \in Servers /\ path[server[u]] # {}
      BY <1>1 DEF TreeOK
    <3>2. uplink \in path[server[u]] /\ path[server[u]] \subseteq Servers
      BY <1>1, <3>1 DEF TreeOK
    <3> QED BY <3>1, <3>2, NamesOK DEF Below
  <2> DEFINE gone == IF uplink = NULL THEN {} ELSE {u \in Users : server[u] \in Below(uplink)}
  <2>2. server' = [u \in Users |-> IF u \in gone THEN NULL ELSE server[u]]
    BY <1>2 DEF QuitAll
  <2> QED BY <2>1, <2>2
<1>5. Flat'
  <2>1. /\ uplink' = NULL
        /\ path' = [t \in Servers |->
                      IF uplink # NULL /\ t \in Below(uplink) THEN {} ELSE path[t]]
    BY <1>2 DEF QuitAll
  <2> QED BY <1>1, <2>1 DEF Flat
<1>6. Sane'
  BY <1>1, <1>2 DEF Sane
<1>7. Story'
  <2>1. Leads(none, empty, Burst, home, net)
    BY <1>1, <1>2, BurstTold
  <2>2. home \in Homes /\ net \in Rolls
    BY <1>1, <1>2 DEF PipesOK, Homes, Rolls
  <2> HIDE DEF none, empty
  <2>3. Leads(server', Shown', toX', home, net)
    BY <1>2, <1>3, <1>4, <2>1
  <2>4. Matches(home, net)'
    BY <1>2 DEF Matches
  <2>5. home' = home /\ net' = net
    BY <1>2
  <2> QED BY <2>2, <2>3, <2>4, <2>5 DEF Story, Matches
<1>8. Presence'
  <2>1. \A x \in Names : Me \notin net[x]
    BY <1>1, <1>2, NetOK DEF PipesOK
  <2>2. \A x \in Names : ~Ends(toNet', net'[x], x)
    BY <1>2, <2>1, EndsNone
  <2> QED BY <1>3, <2>2 DEF Presence
<1> QED BY <1>3, <1>5, <1>6, <1>7, <1>8 DEF PictureInv

\* The process ends and is started again.
LEMMA StopPicture ==
  ASSUME NetInv, PictureInv, Stop
  PROVE  PictureInv'
<1>1. Sane
  BY DEF PictureInv
<1>2. /\ chan' = [c \in Cells |-> NULL] /\ members' = [c \in Cells |-> Nobody]
      /\ server' = [u \in Users |-> NULL] /\ uplink' = NULL /\ path' = [s \in Servers |-> {}]
  BY DEF Stop, quit, Die, Restarted
<1>3. /\ link' = FALSE /\ toX' = <<>> /\ net' = [x \in Names |-> net[x] \ {Me}]
      /\ UNCHANGED <<home, zombies>>
  BY DEF Stop
<1>4. Tidy' /\ Shown' \in Rolls /\ server' \in Homes
  BY <1>2, Forgotten, ShownType DEF Homes
<1>5. Flat' /\ Sane' /\ Presence'
  BY <1>1, <1>2, <1>3 DEF Flat, Sane, Presence
<1>6. Story'
  BY <1>3, <1>4, LeadsNone DEF Story
<1> QED BY <1>4, <1>5, <1>6 DEF PictureInv

\* Every step of the composition.
LEMMA PictureNext ==
  ASSUME NetInv, IInv', PictureInv, [NetNext]_<<vars, netvars>>
  PROVE  PictureInv'
<1>1. CASE Receive
  BY <1>1, ReceivePicture
<1>2. CASE Command \/ Timer
  BY <1>2, CommandPicture
<1>3. CASE Hear
  BY <1>3, HearPicture
<1>4. CASE LinkLost
  BY <1>4, LostPicture
<1>5. CASE Reconnect
  BY <1>5, ReconnectPicture
<1>6. CASE Stop
  BY <1>6, StopPicture
<1>7. CASE Network
  <2>1. Sane' /\ Story' /\ Presence'
    BY <1>7, NetworkTold DEF NetInv, PictureInv
  <2>2. UNCHANGED vars
    BY <1>7, Zenon DEF Network, SignOn, SignOff, PartsAll, Joins, Parts, ZombieGone, BurstsIn,
                Kicked, NetJoin, NetSplit, NetStep
  <2> QED BY <2>1, <2>2, TidyFlatSame DEF PictureInv
<1>8. CASE UNCHANGED <<vars, netvars>>
  <2>1. UNCHANGED vars /\ UNCHANGED netvars
    BY <1>8
  <2>2. Tidy' /\ Flat' /\ server' = server /\ Shown' = Shown /\ On' = On
    BY <2>1, TidyFlatSame, ShownSame DEF PictureInv, vars, heap, On, ToChannel
  <2>3. Sane' /\ Presence'
    BY <2>1, <2>2 DEF netvars, PictureInv, Sane, Presence
  <2>4. PICK g \in Homes, p \in Rolls : /\ Leads(server, Shown, toX, g, p)
                                        /\ link => Matches(g, p)
    BY DEF PictureInv, Story
  <2>5. Leads(server', Shown', toX', g, p)
    BY <2>1, <2>2, <2>4 DEF netvars
  <2>6. link' => Matches(g, p)'
    BY <2>1, <2>4 DEF netvars, Matches
  <2>7. Story'
    BY <2>5, <2>6 DEF Story
  <2> QED BY <2>2, <2>3, <2>7 DEF PictureInv
<1> QED
  BY <1>1, <1>2, <1>3, <1>4, <1>5, <1>6, <1>7, <1>8, Zenon DEF NetNext, Network

\* What is on its way to the service always completes its picture, and what is on its way
\* from it the network's picture of the service.
THEOREM PictureInvariance == NetSpec => []PictureInv
<1>1. NetInit => PictureInv
  BY PictureInit
<1>2. NetInv /\ NetInv' /\ PictureInv /\ [NetNext]_<<vars, netvars>> => PictureInv'
  BY PictureNext DEF NetInv
<1> QED BY <1>1, <1>2, NetInvariance, PTL DEF NetSpec

\* With no message left, the first and the last picture are the same.
LEMMA LeadsNowhere ==
  ASSUME NEW h, NEW r, NEW g, NEW p, Leads(h, r, <<>>, g, p)
  PROVE  h = g /\ r = p
<1> DEFINE none == <<>>
<1>1. Len(none) + 1 = 1
  OBVIOUS
<1> HIDE DEF none
<1>2. Leads(h, r, none, g, p)
  BY DEF none
<1> QED BY <1>1, <1>2 DEF Leads

\* Whenever nothing is on its way the service knows exactly who is where, and the network
\* exactly on which channels the service believes to be: for any network and pipes of any
\* length, through joins, kicks, splits, lost connections and restarts that cross.
THEOREM AgreementCorrect == NetSpec => []Agreement
<1>1. NetInv /\ PictureInv => Agreement
  <2> SUFFICES ASSUME NetInv, PictureInv, link, toX = <<>>, toNet = <<>>, zombies = {}
               PROVE  /\ server = home
                      /\ \A x \in Names : /\ MembersOf(x) = net[x] \ {Me}
                                          /\ x \in On <=> Me \in net[x]
    BY DEF Agreement
  <2>1. PICK g \in Homes, p \in Rolls : Leads(server, Shown, toX, g, p) /\ Matches(g, p)
    BY DEF PictureInv, Story
  <2>2. server = g /\ Shown = p
    BY <2>1, LeadsNowhere
  <2>3. server = home
    BY <2>1, <2>2 DEF Matches
  <2>4. ASSUME NEW x \in Names PROVE MembersOf(x) = net[x] \ {Me}
    <3>1. \A u \in Users : u \in p[x] <=> u \in net[x]
      BY <2>1 DEF Matches
    <3>2. p[x] \subseteq Users /\ net[x] \subseteq Users \cup {Me}
      BY DEF Rolls, NetInv, PipesOK
    <3>3. MembersOf(x) = p[x]
      BY <2>2 DEF Shown
    <3> QED BY <3>1, <3>2, <3>3, NetOK
  <2>5. ASSUME NEW x \in Names PROVE x \in On <=> Me \in net[x]
    <3>1. Ends(toNet, net[x], x) <=> Me \in net[x]
      BY EndsNone
    <3>2. ~KickIn(toX, x)
      BY DEF KickIn
    <3> QED BY <3>1, <3>2 DEF PictureInv, Presence
  <2> QED BY <2>3, <2>4, <2>5
<1> QED BY <1>1, NetInvariance, PictureInvariance, PTL

\* No client is ever twice on a channel: JoinUser, which never looks, is only called for
\* clients that are not there.
THEOREM NoDoubleCorrect == NetSpec => []NoDouble
<1>1. PictureInv => NoDouble
  BY DEF PictureInv, Tidy
<1> QED BY <1>1, PictureInvariance, PTL

\* A channel that is empty and not the service's is never kept, whoever was the last to
\* leave it.
THEOREM NoAbandonedCorrect == NetSpec => []NoAbandoned
<1>1. PictureInv => NoAbandoned
  BY DEF PictureInv, Tidy
<1> QED BY <1>1, PictureInvariance, PTL
=============================================================================
