------------------------------ MODULE Channels ------------------------------
(***************************************************************************)
(* Channels and their members as the service keeps them: channels.c, the   *)
(* part of users.c and servers.c that clients come and go by, the list of  *)
(* default channels of defchan.c, and the reconnection in main.c.          *)
(*                                                                         *)
(* A membership is kept twice: chan->users is the channel's list of auser  *)
(* nodes, luser->channel the client's list of achannelnodes, and each is   *)
(* freed through the other.  Cells are addresses of achannel structures.   *)
(*                                                                         *)
(* ChannelNet joins this module to the network it talks to; here messages  *)
(* arrive in any order the handlers can be called in.                      *)
(***************************************************************************)
EXTENDS Naturals, Sequences

CONSTANTS
  Users,      \* clients of the network, by numeric
  Servers,    \* servers of the network
  Names,      \* names of channels
  Cells,      \* addresses of achannel structures
  Me,         \* the service's own numeric, myYYXXX
  NULL,
  MaxNodes    \* bound: how often one client may be on one channel's list

ASSUME NamesOK == /\ NULL \notin Servers
                  /\ NULL \notin [name : Names, on : BOOLEAN]
                  /\ MaxNodes \in Nat

VARIABLES
  chan,       \* ChannelList: the channel at each address, NULL where memory is free
  members,    \* chan->users: how many auser nodes the channel has for each client
  channel,    \* luser->channel: how many achannelnodes the client has for each cell
  server,     \* luser->server of the clients in Lusers, NULL for the others
  uplink,     \* the head of ServerList
  path,       \* the server tree: a server and all those above it, {} when not in the tree
  defs,       \* DefChanList
  file,       \* channellist.dat
  bursting,
  sent        \* what the last turn wrote to the send queue about channels

heap == <<chan, members, channel>>
book == <<defs, file>>
tree == <<server, uplink, path>>
vars == <<heap, tree, book, bursting, sent>>

Channel == [name : Names, on : BOOLEAN]
Message == [cmd : {"C", "J", "L", "B"}, chans : SUBSET Names]
           \cup [cmd : {"K"}, chans : SUBSET Names, who : SUBSET Users]
Nobody == [u \in Users |-> 0]

Init ==
  /\ chan = [c \in Cells |-> NULL]
  /\ members = [c \in Cells |-> Nobody]
  /\ channel = [u \in Users |-> [c \in Cells |-> 0]]
  /\ server = [u \in Users |-> NULL]
  /\ uplink = NULL
  /\ path = [s \in Servers |-> {}]
  /\ file \in SUBSET Names
  /\ defs = file
  /\ bursting = TRUE
  /\ sent = <<>>

-----------------------------------------------------------------------------
(* The lists.                                                              *)

ToChannel(x) == {c \in Cells : chan[c] # NULL /\ chan[c].name = x}

\* The channels the service believes it is on.
On == {x \in Names : \E c \in ToChannel(x) : chan[c].on}

\* The cell c of channel x: the one ToChannel finds, or one made by NewChannel.
NewChannel(x, on, c) ==
  \/ c \in ToChannel(x) /\ chan' = chan
  \/ /\ ToChannel(x) = {}
     /\ chan[c] = NULL
     /\ chan' = [chan EXCEPT ![c] = [name |-> x, on |-> on]]

\* The clients us are put on both lists; nothing asks whether they are there.
JoinUser(us, c) ==
  /\ \A u \in us : channel[u][c] < MaxNodes
  /\ members' = [members EXCEPT ![c] =
                   [u \in Users |-> IF u \in us THEN members[c][u] + 1 ELSE members[c][u]]]
  /\ channel' = [u \in Users |-> IF u \in us THEN [channel[u] EXCEPT ![c] = @ + 1]
                                             ELSE channel[u]]

\* A mistake: a node that is not there is taken off.
Less_Raw(i, j) == i - j

Less(i, j) == IF i > j THEN i - j ELSE 0

\* What is left of client u on the list of c when the clients us call onpart
\* once for every node of theirs.
Left(us, c, u) == IF u \in us THEN Less(members[c][u], channel[u][c]) ELSE members[c][u]

\* A mistake: the client's list is freed, the channel's is not.
PartAll_OneSided(us) ==
  /\ channel' = [u \in Users |-> IF u \in us THEN [c \in Cells |-> 0] ELSE channel[u]]
  /\ UNCHANGED <<chan, members>>

\* The clients us leave all their channels ("join 0", onquit): the last one out of
\* a channel the service is not on frees it.
PartAll(us) ==
  /\ members' = [c \in Cells |-> [u \in Users |-> Left(us, c, u)]]
  /\ channel' = [u \in Users |-> IF u \in us THEN [c \in Cells |-> 0] ELSE channel[u]]
  /\ chan' = [c \in Cells |->
                IF /\ chan[c] # NULL
                   /\ ~chan[c].on
                   /\ \E u \in us : channel[u][c] > 0
                   /\ \A u \in Users : Left(us, c, u) = 0
                THEN NULL ELSE chan[c]]

-----------------------------------------------------------------------------
(* Messages of the network.                                                *)

\* K of members of the channel in cell c.  A kick changes no list: its target stays until
\* its own server answers L.
Kicks(c, us) ==
  /\ us # {} /\ \A u \in us : members'[c][u] > 0
  /\ chan'[c] # NULL /\ chan'[c].on
  /\ sent' = <<[cmd |-> "K", chans |-> {chan'[c].name}, who |-> us]>>

\* The end of JoinUser: those who join may match a ban, and are kicked with all it matches.
AutoKick(us, c) ==
  \/ sent' = <<>>
  \/ ~bursting /\ \E ws \in SUBSET Users : ws \cap us # {} /\ Kicks(c, ws)

\* J and C of a client: onjoin.
onjoin(u, x) ==
  /\ server[u] # NULL
  /\ \E c \in Cells : /\ NewChannel(x, FALSE, c)
                      /\ JoinUser({u}, c)
                      /\ AutoKick({u}, c)
  /\ UNCHANGED <<tree, book, bursting>>

\* J 0.
onjoin0(u) ==
  /\ server[u] # NULL
  /\ PartAll({u})
  /\ sent' = <<>>
  /\ UNCHANGED <<tree, book, bursting>>

\* B: the channel is made first; clients that are not known are skipped.
onburst(x, us) ==
  /\ \E c \in Cells : LET known == {u \in us : server[u] # NULL}
                      IN  /\ NewChannel(x, FALSE, c)
                          /\ JoinUser(known, c)
                          /\ AutoKick(known, c)
  /\ UNCHANGED <<tree, book, bursting>>

\* A mistake: a channel that was left by its last member is kept.
Part_NoDelete(u, x) ==
  \E c \in ToChannel(x) :
    /\ members' = [members EXCEPT ![c][u] = Less(@, 1)]
    /\ channel' = [channel EXCEPT ![u][c] = Less(@, 1)]
    /\ UNCHANGED chan

\* L, and K of a client.
Part(u, x) ==
  \E c \in ToChannel(x) :
    LET out == [members[c] EXCEPT ![u] = Less(@, 1)]
    IN  /\ members' = [members EXCEPT ![c] = out]
        /\ channel' = [channel EXCEPT ![u][c] = Less(@, 1)]
        /\ chan' = IF out = Nobody /\ ~chan[c].on THEN [chan EXCEPT ![c] = NULL] ELSE chan

onpart(u, x) ==
  /\ IF server[u] # NULL /\ ToChannel(x) # {} THEN Part(u, x) ELSE UNCHANGED heap
  /\ sent' = <<>>
  /\ UNCHANGED <<tree, book, bursting>>

\* A mistake: the channel is freed whoever is on it.
Leave_Always(xs) ==
  /\ chan' = [c \in Cells |-> IF chan[c] # NULL /\ chan[c].name \in xs THEN NULL ELSE chan[c]]
  /\ sent' = <<[cmd |-> "L", chans |-> xs]>>
  /\ UNCHANGED <<members, channel>>

\* The service leaves the channels xs: it is freed when nobody is on it, and L is sent.
Leave(xs) ==
  /\ chan' = [c \in Cells |->
                IF chan[c] = NULL \/ chan[c].name \notin xs THEN chan[c]
                ELSE IF members[c] = Nobody THEN NULL
                ELSE [chan[c] EXCEPT !.on = FALSE]]
  /\ sent' = <<[cmd |-> "L", chans |-> xs]>>
  /\ UNCHANGED <<members, channel>>

\* part asks only whether there is such a channel, not whether the service is on it.
part(x) ==
  /\ IF ToChannel(x) # {} THEN Leave({x}) ELSE UNCHANGED heap /\ sent' = <<>>
  /\ UNCHANGED <<tree, book, bursting>>

\* A mistake: kicked off, the service only marks that it is gone.
onkick_Silent(who, x) ==
  IF who # Me THEN onpart(who, x)
  ELSE /\ chan' = [c \in Cells |-> IF c \notin ToChannel(x) THEN chan[c]
                                   ELSE IF members[c] = Nobody THEN NULL
                                   ELSE [chan[c] EXCEPT !.on = FALSE]]
       /\ sent' = <<>>
       /\ UNCHANGED <<members, channel, tree, book, bursting>>

onkick(who, x) == IF who = Me THEN part(x) ELSE onpart(who, x)

\* N of a new client; a client with the same numeric is taken out first.
onnick(u, s) ==
  /\ path[s] # {}
  /\ IF server[u] # NULL THEN PartAll({u}) ELSE UNCHANGED heap
  /\ server' = [server EXCEPT ![u] = s]
  /\ sent' = <<>>
  /\ UNCHANGED <<uplink, path, book, bursting>>

\* A mistake: the client is forgotten, not the channels it was on.
Quit_KeepsLists(us) ==
  /\ server' = [u \in Users |-> IF u \in us THEN NULL ELSE server[u]]
  /\ UNCHANGED heap

\* Clients go: Q, D, or with their server.
Quit(us) ==
  /\ PartAll(us)
  /\ server' = [u \in Users |-> IF u \in us THEN NULL ELSE server[u]]

onquit(u) ==
  /\ server[u] # NULL
  /\ Quit({u})
  /\ sent' = <<>>
  /\ UNCHANGED <<uplink, path, book, bursting>>

onkill(u) == onquit(u)

\* SERVER of the uplink, the first message of a connection.
onuplink(s) ==
  /\ uplink = NULL
  /\ uplink' = s
  /\ path' = [path EXCEPT ![s] = {s}]
  /\ sent' = <<>>
  /\ UNCHANGED <<heap, server, book, bursting>>

\* S of a server behind server p.
onserver(s, p) ==
  /\ path[p] # {} /\ path[s] = {}
  /\ path' = [path EXCEPT ![s] = {s} \cup path[p]]
  /\ sent' = <<>>
  /\ UNCHANGED <<heap, server, uplink, book, bursting>>

Below(s) == {t \in Servers : s \in path[t]}

\* A mistake: the servers behind the one that went stay.
Squit_ServerOnly(s) ==
  /\ Quit({u \in Users : server[u] \in Below(s)})
  /\ path' = [path EXCEPT ![s] = {}]
  /\ uplink' = IF s = uplink THEN NULL ELSE uplink

\* The server s, those below it and all their clients go.
Squit(s) ==
  /\ Quit({u \in Users : server[u] \in Below(s)})
  /\ path' = [t \in Servers |-> IF t \in Below(s) THEN {} ELSE path[t]]
  /\ uplink' = IF s = uplink THEN NULL ELSE uplink

\* SQ; one that names another link's time stamp is ignored.  After the uplink's own
\* SQ the process exits: Die.
onsquit(s, sameTS) ==
  /\ path[s] # {} /\ s # uplink
  /\ IF sameTS THEN Squit(s) ELSE UNCHANGED <<heap, tree>>
  /\ sent' = <<>>
  /\ UNCHANGED <<book, bursting>>

-----------------------------------------------------------------------------
(* Commands, timers, and the end of the burst.                             *)

join(x) ==
  /\ \E c \in Cells :
       IF ToChannel(x) = {}
       THEN /\ NewChannel(x, TRUE, c)
            /\ sent' = <<[cmd |-> "C", chans |-> {x}]>>
       ELSE /\ c \in ToChannel(x)
            /\ chan' = [chan EXCEPT ![c].on = TRUE]
            /\ sent' = <<[cmd |-> "J", chans |-> {x}]>>
  /\ UNCHANGED <<members, channel, tree, book, bursting>>

\* One client, or all that match a mask.
kick(us, x) ==
  /\ UNCHANGED heap
  /\ \E c \in ToChannel(x) : Kicks(c, us)
  /\ UNCHANGED <<tree, book, bursting>>

\* Channels idle for too long are left and forgotten.  The name given to RemChan is that of
\* the cell, which part has freed when nobody else was there: whether a name read from
\* freed memory still names the channel is anyone's guess.
CheckIdleChannels(idle) ==
  /\ idle \subseteq On /\ idle # {}
  /\ Leave(idle)
  /\ \E forgotten \in SUBSET idle :
       /\ \A x \in idle \ forgotten : \E c \in ToChannel(x) : chan'[c] = NULL
       /\ defs' = defs \ forgotten
  /\ UNCHANGED <<tree, file, bursting>>

purge(x) ==
  /\ IF x \in On THEN Leave({x}) ELSE UNCHANGED heap /\ sent' = <<>>
  /\ defs' = defs \ {x}
  /\ UNCHANGED <<tree, file, bursting>>

AddChan(x) ==
  /\ x \in On
  /\ defs' = defs \cup {x}
  /\ sent' = <<>>
  /\ UNCHANGED <<heap, tree, file, bursting>>

RemChan(x) ==
  /\ defs' = defs \ {x}
  /\ sent' = <<>>
  /\ UNCHANGED <<heap, tree, file, bursting>>

SaveDefs ==
  /\ file' = defs
  /\ sent' = <<>>
  /\ UNCHANGED <<heap, tree, defs, bursting>>

LoadDefs ==
  /\ defs' = file
  /\ sent' = <<>>
  /\ UNCHANGED <<heap, tree, file, bursting>>

\* A mistake: every default channel is made, whether it is known or not.
SendBurst_Fresh ==
  /\ \E at \in [defs -> Cells] :
       /\ \A x, y \in defs : at[x] = at[y] => x = y
       /\ \A x \in defs : chan[at[x]] = NULL
       /\ chan' = [c \in Cells |-> IF \E x \in defs : at[x] = c
                                   THEN [name |-> CHOOSE x \in defs : at[x] = c, on |-> TRUE]
                                   ELSE chan[c]]
  /\ sent' = <<[cmd |-> "B", chans |-> defs]>>
  /\ UNCHANGED <<members, channel>>

\* EB of the uplink: the service signs on and bursts itself into the default channels,
\* those it knows and those it makes; at is the cell of each.
SendBurst ==
  /\ \E at \in [defs -> Cells] :
       /\ \A x, y \in defs : at[x] = at[y] => x = y
       /\ \A x \in defs : IF ToChannel(x) # {} THEN at[x] \in ToChannel(x)
                                              ELSE chan[at[x]] = NULL
       /\ chan' = [c \in Cells |-> IF \E x \in defs : at[x] = c
                                   THEN [name |-> CHOOSE x \in defs : at[x] = c, on |-> TRUE]
                                   ELSE chan[c]]
  /\ sent' = <<[cmd |-> "B", chans |-> defs]>>
  /\ UNCHANGED <<members, channel>>

\* EB of any other server is ignored.
EB(s) ==
  /\ IF s = uplink THEN SendBurst /\ bursting' = FALSE
                   ELSE UNCHANGED <<heap, bursting>> /\ sent' = <<>>
  /\ UNCHANGED <<tree, book>>

\* A mistake: the channels are forgotten, the servers are not.
QuitAll_KeepsServers ==
  /\ chan' = [c \in Cells |-> NULL]
  /\ members' = [c \in Cells |-> Nobody]
  /\ channel' = [u \in Users |-> [c \in Cells |-> 0]]
  /\ UNCHANGED tree

\* The network is forgotten: onsquit of the uplink, then DelChannel of what is left.
QuitAll ==
  LET gone == IF uplink = NULL THEN {} ELSE {u \in Users : server[u] \in Below(uplink)}
  IN  /\ server' = [u \in Users |-> IF u \in gone THEN NULL ELSE server[u]]
      /\ channel' = [u \in Users |-> IF u \in gone THEN [c \in Cells |-> 0] ELSE channel[u]]
      /\ chan' = [c \in Cells |-> NULL]
      /\ members' = [c \in Cells |-> Nobody]
      /\ path' = [t \in Servers |->
                    IF uplink # NULL /\ t \in Below(uplink) THEN {} ELSE path[t]]
      /\ uplink' = NULL

\* The connection was lost: QuitAll, connection, regist.
reconnect ==
  /\ QuitAll
  /\ bursting' = TRUE
  /\ sent' = <<>>
  /\ UNCHANGED book

\* The process ends, saving the defaults (quit, restart) or not (exit, a signal), and
\* is started again.
Restarted(saved) ==
  /\ chan' = [c \in Cells |-> NULL]
  /\ members' = [c \in Cells |-> Nobody]
  /\ channel' = [u \in Users |-> [c \in Cells |-> 0]]
  /\ server' = [u \in Users |-> NULL]
  /\ uplink' = NULL
  /\ path' = [s \in Servers |-> {}]
  /\ file' = saved
  /\ defs' = saved
  /\ bursting' = TRUE
  /\ sent' = <<>>

quit == Restarted(defs)
Die == Restarted(file)

Next ==
  \/ \E u \in Users, x \in Names :
        onjoin(u, x) \/ onpart(u, x) \/ onkick(u, x)
  \/ \E u \in Users : onjoin0(u) \/ onquit(u) \/ onkill(u)
  \/ \E x \in Names, us \in SUBSET Users : onburst(x, us) \/ kick(us, x)
  \/ \E u \in Users, s \in Servers : onnick(u, s)
  \/ \E s \in Servers : onuplink(s) \/ EB(s)
  \/ \E s, p \in Servers : onserver(s, p)
  \/ \E s \in Servers, same \in BOOLEAN : onsquit(s, same)
  \/ \E x \in Names : join(x) \/ part(x) \/ onkick(Me, x) \/ purge(x)
  \/ \E x \in Names : AddChan(x) \/ RemChan(x)
  \/ \E idle \in SUBSET Names : CheckIdleChannels(idle)
  \/ SaveDefs \/ LoadDefs \/ reconnect \/ quit \/ Die

Spec == Init /\ [][Next]_vars

-----------------------------------------------------------------------------
(* Invariants.                                                             *)

\* All state stays of its type.
TypeOK ==
  /\ chan \in [Cells -> Channel \cup {NULL}]
  /\ members \in [Cells -> [Users -> Nat]]
  /\ channel \in [Users -> [Cells -> Nat]]
  /\ server \in [Users -> Servers \cup {NULL}]
  /\ uplink \in Servers \cup {NULL}
  /\ path \in [Servers -> SUBSET Servers]
  /\ defs \in SUBSET Names /\ file \in SUBSET Names
  /\ bursting \in BOOLEAN
  /\ sent \in Seq(Message)

\* The two lists of memberships agree: a client is on the channel's list as often as
\* the channel is on the client's, whoever removed it from either.
Mirror == \A c \in Cells, u \in Users : members[c][u] = channel[u][c]

\* No client's list points to a channel that was freed (DelChannel frees the channel's
\* own list but does not touch the clients').
NoStray == \A c \in Cells, u \in Users : channel[u][c] > 0 => chan[c] # NULL

\* No channel is in the hash table twice: ToChannel would find only one of them.
OneCell == \A c, d \in Cells : chan[c] # NULL /\ chan[d] # NULL /\ chan[c].name = chan[d].name
                               => c = d

\* Clients that are gone are on no channel, and the others belong to a server of the
\* tree, which hangs on the uplink: so that QuitAll reaches every client.
Attached ==
  /\ \A u \in Users : IF server[u] = NULL THEN \A c \in Cells : channel[u][c] = 0
                                          ELSE path[server[u]] # {}
  /\ \A s \in Servers : path[s] # {} =>
        /\ s \in path[s] /\ uplink \in path[s]
        /\ \A t \in path[s] : path[t] # {} /\ path[t] \subseteq path[s]

IInv == TypeOK /\ Mirror /\ NoStray /\ OneCell /\ Attached
=============================================================================
