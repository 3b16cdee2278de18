------------------------------ MODULE ShitList ------------------------------
(***************************************************************************)
(* The ban list of the service (shitlist.c): bans with a level that run    *)
(* out, the events that take them off, the file they are saved to, and the *)
(* bans flood protection adds by itself (floodpro.c, modes.c).             *)
(*                                                                         *)
(* shitlist is one bucket, newest ban first: every walk takes the first    *)
(* ban that fits.  What a ban does to a channel (mban, kick, unban) is     *)
(* ModeQueue's; the time, author and reason kept with a ban are left out.  *)
(***************************************************************************)
EXTENDS EventList, Masks

CONSTANTS
  Hours,        \* bound: the durations asked for; at most MAX_BAN_DURATION
  Levels,       \* bound: the levels asked for, of 1..1000
  Accesses,     \* bound: the levels of access of those who ask
  Typed,        \* bound: the nicks and the masks that are typed
  Flooders,     \* bound: the clients that flood
  Deopers,      \* bound: the clients that deop many
  FloodTime,    \* PUBLIC_FLOOD_SHITLIST_TIME
  DeopTime,     \* MASSDEOP_SHITLIST_TIME
  MaxBan,       \* MAX_BAN
  MaxBans       \* bound: bans in the bucket

ASSUME BansOK ==
  /\ Hours \subseteq Nat /\ FloodTime \in Nat \ {0} /\ DeopTime \in Nat
  /\ Levels \subseteq 1..1000 /\ Accesses \subseteq Nat
  /\ Flooders \cup Deopers \subseteq Clients /\ Typed \subseteq Clients \cup Mask
  /\ MaxBan \in Nat /\ MaxBans \in Nat

VARIABLES
  shitlist,     \* ShitList[i]
  disk,         \* SHITLIST_FILE
  chans,        \* the channels that have a structure
  loaded        \* history: the expirations that were read from the file
banvars == <<shitlist, disk, chans, loaded>>

AddLevel == 75              \* ADD_TO_SHITLIST_LEVEL
CleanLevel == 200           \* CLEAN_SHITLIST_LEVEL
FloodLevel == 75            \* PUBLIC_FLOOD_SHITLIST_LEVEL
DeopLevel == 20             \* MASSDEOP_SHITLIST_LEVEL

Ban == [channel : Channels, match : Mask, expiration : Int, level : 0..1000]
Mark(b) == [channel |-> b.channel, match |-> b.match, expiration |-> b.expiration]

-----------------------------------------------------------------------------
(* The walks over the bucket.                                              *)

\* A mistake: a ban that ends now is not yet over.
Stays_Later(b, channel) == /\ b.channel \in chans
                           /\ b.expiration < now => b.channel # channel
                           /\ b.level # 0

\* CleanShitList, called by channel: bans of channels that are gone, and
\* bans with no level, are dropped whatever the channel.
Stays(b, channel) == /\ b.channel \in chans
                     /\ b.expiration <= now => b.channel # channel
                     /\ b.level # 0
Clean(list, channel) == Kept(list, {i \in 1..Len(list) : Stays(list[i], channel)})

\* What is typed: the nick of a client that is online becomes its mask.
Pattern(typed) == IF typed \in Clients THEN MakeBanMask(typed) ELSE typed

\* Is ban b there already for mask m: the same mask, or, for a mask made of a client, one
\* that mask is within?
Fits(b, channel, exact, m) ==
  b.channel = channel /\ IF exact THEN b.match = m ELSE Match(m, b.match)

\* The ban a client is under: one its own address is within.
FindShit(list, channel, client) ==
  SelectInSeq(list, LAMBDA b : /\ b.channel = channel
                               /\ Match(Real[client], b.match) \/ Match(Shown[client], b.match))
IsShit(list, channel, client) ==
  LET i == FindShit(list, channel, client)
  IN IF i = 0 THEN 0 ELSE list[i].level

\* A mistake: the level of a ban that is there stays.
Raise_Longer(b, exp, level) ==
  [b EXCEPT !.expiration = IF b.expiration < exp THEN exp ELSE b.expiration]

\* The information already present only grows.
Raise(b, exp, level) ==
  [b EXCEPT !.expiration = IF b.expiration < exp THEN exp ELSE b.expiration,
            !.level = IF b.level < level THEN level ELSE b.level]

\* A mistake: nobody looks whether the ban is there.
Listed_Twice(channel, exact, m, exp, level) ==
  <<[channel |-> channel, match |-> m, expiration |-> exp, level |-> level]>> \o shitlist

\* The list with the ban in it, by raising one or in front.
Listed(channel, exact, m, exp, level) ==
  LET i == SelectInSeq(shitlist, LAMBDA b : Fits(b, channel, exact, m))
  IN IF i # 0 THEN [shitlist EXCEPT ![i] = Raise(@, exp, level)]
     ELSE <<[channel |-> channel, match |-> m, expiration |-> exp, level |-> level]>>
            \o shitlist

-----------------------------------------------------------------------------
(* The commands.  A refused command changes nothing.                       *)

Fewer(channel, exact, m, exp, level) == Len(Listed(channel, exact, m, exp, level)) <= MaxBans

\* A mistake: the removal is scheduled only when the ban is new.
Added_NewOnly(channel, exact, m, exp, level) ==
  /\ Fewer(channel, exact, m, exp, level)
  /\ events' = IF Len(Listed(channel, exact, m, exp, level)) > Len(shitlist)
               THEN AddEvent(events, "CLEANSHITLIST", exp, channel) ELSE events
  /\ shitlist' = Clean(Listed(channel, exact, m, exp, level), channel)

\* A mistake: the event does not say which channel to clean.
Added_NoChannel(channel, exact, m, exp, level) ==
  /\ Fewer(channel, exact, m, exp, level)
  /\ events' = AddEvent(events, "CLEANSHITLIST", exp, NoParam)
  /\ shitlist' = Clean(Listed(channel, exact, m, exp, level), channel)

\* The end of AddToShitList: the ban, its event, and a clean at once.
Added(channel, exact, m, exp, level) ==
  /\ Fewer(channel, exact, m, exp, level)
  /\ events' = AddEvent(events, "CLEANSHITLIST", exp, channel)
  /\ shitlist' = Clean(Listed(channel, exact, m, exp, level), channel)

\* ban, with a mask or the nick of a client that is online.
AddToShitList(channel, typed, hours, level, access) ==
  /\ Handler /\ Room
  /\ access >= AddLevel /\ access >= level
  /\ Len(SelectSeq(shitlist, LAMBDA b : b.channel = channel)) <= MaxBan
  /\ Added(channel, typed \notin Clients, Pattern(typed), now + hours, level)
  /\ UNCHANGED <<disk, chans, loaded>>

\* A client reaches the flood limit of a channel: five more than its level,
\* and banned for good when that was ten.
CheckFlood(channel, client) ==
  /\ Handler /\ Room
  /\ channel \in chans
  /\ LET count == IsShit(shitlist, channel, client)
     IN Added(channel, FALSE, MakeBanMask(client), now + FloodTime,
              IF count < 10 THEN count + 5 ELSE FloodLevel)
  /\ UNCHANGED <<disk, chans, loaded>>

\* A client reaches the limit of deops.
MassDeop(channel, client) ==
  /\ Handler /\ Room
  /\ channel \in chans
  /\ Added(channel, FALSE, MakeBanMask(client), now + DeopTime, DeopLevel)
  /\ UNCHANGED <<disk, chans, loaded>>

\* Does unban mean ban b: by its mask, or by the address a client shows?
Meant(b, channel, typed) ==
  /\ b.channel = channel
  /\ IF typed \in Clients THEN Match(Shown[typed], b.match) ELSE b.match = typed

\* unban: the first ban that is meant and whose level the source has.
RemShitList(channel, typed, access) ==
  /\ Handler
  /\ access >= AddLevel
  /\ LET i == SelectInSeq(shitlist,
                LAMBDA b : Meant(b, channel, typed) /\ b.level <= access)
     IN /\ i # 0
        /\ shitlist' = Clean([shitlist EXCEPT ![i].expiration = now - 1], channel)
  /\ UNCHANGED <<events, disk, chans, loaded>>

\* cleanbanlist.
CleanCommand(channel) ==
  /\ Handler
  /\ \E access \in Accesses : access >= CleanLevel
  /\ shitlist' = Clean(shitlist, channel)
  /\ UNCHANGED <<events, disk, chans, loaded>>

-----------------------------------------------------------------------------
(* The file.                                                               *)

\* SaveShitList writes another file and renames it: when it cannot, or is
\* interrupted, the file stays what it was.
SaveShitList == disk' \in {shitlist, disk}

\* What LoadShitList makes of the file at time t: the bucket is built from
\* its head, so the order turns round.
Load(file, t) ==
  LET live == Reverse(Kept(file, {i \in 1..Len(file) : file[i].expiration >= t}))
  IN [i \in 1..Len(live) |-> [live[i] EXCEPT !.level = IF @ > 500 THEN 500 ELSE @]]

\* loadbanlist, of an administrator.
LoadCommand ==
  /\ Handler
  /\ shitlist' = Load(disk, now)
  /\ loaded' = {Mark(b) : b \in ToSet(shitlist')}
  /\ UNCHANGED <<events, disk, chans>>

SaveCommand ==
  /\ Handler
  /\ SaveShitList
  /\ UNCHANGED <<events, shitlist, chans, loaded>>

\* A channel gets its structure, or loses it (Channels).
ChannelComes(c) == /\ Handler
                   /\ c \notin chans /\ chans' = chans \cup {c}
                   /\ UNCHANGED <<events, shitlist, disk, loaded>>
ChannelGoes(c) == /\ Handler
                  /\ c \in chans /\ chans' = chans \ {c}
                  /\ UNCHANGED <<events, shitlist, disk, loaded>>

-----------------------------------------------------------------------------
(* The events of the list.                                                 *)

\* A mistake: after a save that failed no other is scheduled.
SaveEvent_Once ==
  /\ Pop("SAVESHITLIST")
  /\ SaveShitList
  /\ Rest(IF disk' = disk THEN Tail(events)
          ELSE AddEvent(Tail(events), "SAVESHITLIST", now + SaveFreq, NoParam))
  /\ UNCHANGED <<shitlist, chans, loaded>>

SaveEvent ==
  /\ Pop("SAVESHITLIST")
  /\ SaveShitList
  /\ Rest(AddEvent(Tail(events), "SAVESHITLIST", now + SaveFreq, NoParam))
  /\ UNCHANGED <<shitlist, chans, loaded>>

\* A mistake: the event is taken for the end of every ban of its channel.
CleanEvent_All ==
  /\ Pop("CLEANSHITLIST")
  /\ Rest(Tail(events))
  /\ shitlist' = SelectSeq(shitlist, LAMBDA b : b.channel # events[1].param)
  /\ UNCHANGED <<disk, chans, loaded>>

CleanEvent ==
  /\ Pop("CLEANSHITLIST")
  /\ Rest(Tail(events))
  /\ shitlist' = Clean(shitlist, events[1].param)
  /\ UNCHANGED <<disk, chans, loaded>>

BanHandlers ==
  \/ \E c \in Channels, typed \in Typed, access \in Accesses :
       \/ \E hours \in Hours, level \in Levels : AddToShitList(c, typed, hours, level, access)
       \/ RemShitList(c, typed, access)
  \/ \E c \in Channels : \/ \E x \in Flooders : CheckFlood(c, x)
                         \/ \E x \in Deopers : MassDeop(c, x)
  \/ \E c \in Channels : CleanCommand(c) \/ ChannelComes(c) \/ ChannelGoes(c)
  \/ LoadCommand \/ SaveCommand

BanEvents == SaveEvent \/ CleanEvent
=============================================================================
