----------------------------- MODULE ChannelNet -----------------------------
(***************************************************************************)
(* The service's picture of the channels (Channels) together with the      *)
(* network it is a picture of.  The service and its uplink exchange        *)
(* messages through two pipes, each in order; what they send crosses.  The *)
(* network is what the uplink knows: it is not in the repository and is    *)
(* modelled from what the handlers of the service rely on.                 *)
(***************************************************************************)
EXTENDS Channels, SequencesExt

CONSTANTS
  Hub,        \* the uplink
  MaxIn,      \* bound: the network does nothing new while this much is on its way in
  MaxOut      \* bound: the service waits while this much is on its way out

ASSUME NetOK == /\ Hub \in Servers /\ Me \notin Users
                /\ IsFiniteSet(Users) /\ IsFiniteSet(Servers) /\ IsFiniteSet(Names)
                /\ MaxIn \in Nat /\ MaxOut \in Nat

VARIABLES
  link,       \* whether the uplink has a connection to the service
  net,        \* who is on each channel
  home,       \* the server of each client, NULL when it is not on the network
  leaves,     \* servers linked behind the uplink
  zombies,    \* clients kicked off a channel whose own server has not yet said L
  toX, toNet  \* messages to the service and from it

netvars == <<link, net, home, leaves, zombies, toX, toNet>>

NetInit ==
  /\ Init
  /\ link = FALSE
  /\ net = [x \in Names |-> {}]
  /\ home = [u \in Users |-> NULL]
  /\ leaves = {}
  /\ zombies = {}
  /\ toX = <<>> /\ toNet = <<>>

-----------------------------------------------------------------------------
(* The network.                                                            *)

\* The uplink tells the service, if it is there.
Tell(ms) == toX' = IF link THEN toX \o ms ELSE toX

NetStep == Len(toX) < MaxIn /\ UNCHANGED <<vars, link, toNet>>

Online == {u \in Users : home[u] # NULL}
Channels(u) == {x \in Names : u \in net[x]}

\* These clients are gone from the channels and as zombies.
Without(us) ==
  /\ net' = [x \in Names |-> net[x] \ us]
  /\ zombies' = {z \in zombies : z[1] \notin us}

SignOn(u, s) ==
  /\ NetStep
  /\ u \notin Online /\ s \in leaves \cup {Hub}
  /\ home' = [home EXCEPT ![u] = s]
  /\ Tell(<<[cmd |-> "N", who |-> u, srv |-> s]>>)
  /\ UNCHANGED <<net, leaves, zombies>>

SignOff(u) ==
  /\ NetStep
  /\ u \in Online
  /\ home' = [home EXCEPT ![u] = NULL]
  /\ Without({u})
  /\ Tell(<<[cmd |-> "Q", who |-> u]>>)
  /\ UNCHANGED leaves

Joins(u, x) ==
  /\ NetStep
  /\ u \in Online /\ u \notin net[x] /\ <<u, x>> \notin zombies
  /\ net' = [net EXCEPT ![x] = @ \cup {u}]
  /\ Tell(<<[cmd |-> IF net[x] = {} THEN "C" ELSE "J", who |-> u, chan |-> x]>>)
  /\ UNCHANGED <<home, leaves, zombies>>

\* Several clients come with the burst of a server that joins the network.
BurstsIn(us, x) ==
  /\ NetStep
  /\ us # {}
  /\ \A u \in us : /\ home[u] \in leaves
                   /\ u \notin net[x] /\ <<u, x>> \notin zombies
  /\ net' = [net EXCEPT ![x] = @ \cup us]
  /\ Tell(<<[cmd |-> "B", who |-> us, chan |-> x]>>)
  /\ UNCHANGED <<home, leaves, zombies>>

Parts(u, x) ==
  /\ NetStep
  /\ u \in net[x]
  /\ net' = [net EXCEPT ![x] = @ \ {u}]
  /\ Tell(<<[cmd |-> "L", who |-> u, chan |-> x]>>)
  /\ UNCHANGED <<home, leaves, zombies>>

PartsAll(u) ==
  /\ NetStep
  /\ Channels(u) # {}
  /\ net' = [x \in Names |-> net[x] \ {u}]
  /\ Tell(<<[cmd |-> "J0", who |-> u]>>)
  /\ UNCHANGED <<home, leaves, zombies>>

\* Someone kicks a client, or the service.
Kicked(w, x) ==
  /\ NetStep
  /\ w \in net[x]
  /\ net' = [net EXCEPT ![x] = @ \ {w}]
  /\ zombies' = IF w = Me THEN zombies ELSE zombies \cup {<<w, x>>}
  /\ Tell(<<[cmd |-> "K", who |-> w, chan |-> x]>>)
  /\ UNCHANGED <<home, leaves>>

\* The kicked client's own server confirms; only then can the client join again.
ZombieGone(u, x) ==
  /\ NetStep
  /\ <<u, x>> \in zombies
  /\ zombies' = zombies \ {<<u, x>>}
  /\ Tell(<<[cmd |-> "L", who |-> u, chan |-> x]>>)
  /\ UNCHANGED <<net, home, leaves>>

NetJoin(s) ==
  /\ NetStep
  /\ s \in Servers \ (leaves \cup {Hub})
  /\ leaves' = leaves \cup {s}
  /\ Tell(<<[cmd |-> "S", srv |-> s], [cmd |-> "EB", srv |-> s]>>)
  /\ UNCHANGED <<net, home, zombies>>

NetSplit(s) ==
  /\ NetStep
  /\ s \in leaves
  /\ leaves' = leaves \ {s}
  /\ home' = [u \in Users |-> IF home[u] = s THEN NULL ELSE home[u]]
  /\ Without({u \in Users : home[u] = s})
  /\ Tell(<<[cmd |-> "SQ", srv |-> s]>>)

\* The uplink takes the next message of the service.  A kick makes its target a zombie
\* and is not echoed.
Hear ==
  /\ toNet # <<>>
  /\ LET m == Head(toNet) IN
     /\ net' = [x \in Names |->
                 IF x \notin m.chans THEN net[x]
                 ELSE CASE m.cmd \in {"C", "J", "B"} -> net[x] \cup {Me}
                        [] m.cmd = "L" -> net[x] \ {Me}
                        [] m.cmd = "K" -> net[x] \ m.who]
     /\ zombies' = zombies \cup {z \in Users \X Names :
                      m.cmd = "K" /\ z[1] \in m.who /\ z[2] \in m.chans /\ z[1] \in net[z[2]]}
  /\ toNet' = Tail(toNet)
  /\ UNCHANGED <<vars, link, home, leaves, toX>>

\* The connection breaks: what the service had sent is lost, what it was sent may still
\* be read; the network sees the service go.
LinkLost ==
  /\ link
  /\ link' = FALSE
  /\ toNet' = <<>>
  /\ net' = [x \in Names |-> net[x] \ {Me}]
  /\ UNCHANGED <<vars, home, leaves, zombies, toX>>

\* What the uplink sends when the service connects.
Burst ==
  <<[cmd |-> "SERVER", srv |-> Hub]>>
  \o [i \in 1..Len(SetToSeq(leaves)) |-> [cmd |-> "S", srv |-> SetToSeq(leaves)[i]]]
  \o [i \in 1..Len(SetToSeq(Online)) |->
        [cmd |-> "N", who |-> SetToSeq(Online)[i], srv |-> home[SetToSeq(Online)[i]]]]
  \o LET open == SetToSeq({x \in Names : net[x] # {}})
     IN  [i \in 1..Len(open) |-> [cmd |-> "B", who |-> net[open[i]], chan |-> open[i]]]
  \o <<[cmd |-> "EB", srv |-> Hub]>>

-----------------------------------------------------------------------------
(* The service.                                                            *)

\* What a turn wrote goes to the uplink, or nowhere.
Send == toNet' = IF link THEN toNet \o sent' ELSE toNet

\* The handler of a message.
proc(m) ==
  CASE m.cmd = "SERVER" -> onuplink(m.srv)
    [] m.cmd = "S" -> onserver(m.srv, Hub)
    [] m.cmd = "SQ" -> onsquit(m.srv, TRUE)
    [] m.cmd = "EB" -> EB(m.srv)
    [] m.cmd = "N" -> onnick(m.who, m.srv)
    [] m.cmd = "Q" -> onquit(m.who)
    [] m.cmd \in {"C", "J"} -> onjoin(m.who, m.chan)
    [] m.cmd = "J0" -> onjoin0(m.who)
    [] m.cmd = "B" -> onburst(m.chan, m.who)
    [] m.cmd = "L" -> onpart(m.who, m.chan)
    [] m.cmd = "K" -> onkick(m.who, m.chan)

Receive ==
  /\ toX # <<>> /\ Len(toNet) < MaxOut
  /\ proc(Head(toX))
  /\ toX' = Tail(toX)
  /\ Send
  /\ UNCHANGED <<link, net, home, leaves, zombies>>

\* Commands reach the service once it is on the network.
Command ==
  /\ ~bursting /\ Len(toNet) < MaxOut
  /\ \/ \E x \in Names : join(x) \/ part(x) \/ purge(x) \/ AddChan(x) \/ RemChan(x)
     \/ \E us \in SUBSET Users, x \in Names : kick(us, x)
     \/ LoadDefs
  /\ Send
  /\ UNCHANGED <<link, net, home, leaves, zombies, toX>>

Timer ==
  /\ Len(toNet) < MaxOut
  /\ SaveDefs \/ \E idle \in SUBSET Names : CheckIdleChannels(idle)
  /\ Send
  /\ UNCHANGED <<link, net, home, leaves, zombies, toX>>

\* The service is connected again: the buffers are zapped, the uplink bursts.
Reconnect ==
  /\ ~link
  /\ reconnect
  /\ link' = TRUE
  /\ toX' = Burst
  /\ toNet' = <<>>
  /\ UNCHANGED <<net, home, leaves, zombies>>

Stop ==
  /\ quit \/ Die
  /\ link' = FALSE
  /\ toX' = <<>> /\ toNet' = <<>>
  /\ net' = [x \in Names |-> net[x] \ {Me}]
  /\ UNCHANGED <<home, leaves, zombies>>

NetNext ==
  \/ \E u \in Users, s \in Servers : SignOn(u, s)
  \/ \E u \in Users : SignOff(u) \/ PartsAll(u)
  \/ \E u \in Users, x \in Names : Joins(u, x) \/ Parts(u, x) \/ ZombieGone(u, x)
  \/ \E us \in SUBSET Users, x \in Names : BurstsIn(us, x)
  \/ \E w \in Users \cup {Me}, x \in Names : Kicked(w, x)
  \/ \E s \in Servers : NetJoin(s) \/ NetSplit(s)
  \/ Hear \/ LinkLost
  \/ Receive \/ Command \/ Timer \/ Reconnect \/ Stop

NetSpec == NetInit /\ [][NetNext]_<<vars, netvars>>

-----------------------------------------------------------------------------
(* What the handlers achieve together with the network.                    *)

MembersOf(x) == {u \in Users : \E c \in ToChannel(x) : members[c][u] > 0}

\* Whenever nothing is on its way, the service's picture is the network: the same
\* clients on the same servers and channels, and the service on the channels it
\* believes it is on; whatever joins, parts, kicks, splits, reconnections and restarts
\* crossed before.
Agreement ==
  link /\ ~bursting /\ toX = <<>> /\ toNet = <<>> /\ zombies = {} =>
    /\ server = home
    /\ \A x \in Names : /\ MembersOf(x) = net[x] \ {Me}
                        /\ x \in On <=> Me \in net[x]

\* Every message finds what its handler takes for granted: the server it comes from, the
\* client it speaks of; nothing is known twice.
Understood == toX # <<>> => ENABLED proc(Head(toX))

\* No client is twice on a channel, although JoinUser never looks.
NoDouble == \A c \in Cells, u \in Users : members[c][u] <= 1

\* A channel is kept only while someone is on it: onpart, part and onkick free it with
\* its last member, and onburst never makes one for clients that are all unknown.
NoAbandoned == \A c \in Cells : chan[c] # NULL => chan[c].on \/ members[c] # Nobody
=============================================================================
