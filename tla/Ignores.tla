------------------------------ MODULE Ignores ------------------------------
(***************************************************************************)
(* The clients the service ignores (ignore.c): entries that run out, the   *)
(* events that take them off, and the silences the service asks the        *)
(* network for, so that messages of an ignored client do not reach it.     *)
(*                                                                         *)
(* When the counters of messages, of lines sent and of adduser commands    *)
(* reach their limit is an input: any client may flood at any time.  A     *)
(* silence is asked of the client that flooded; whose it is is left out.   *)
(***************************************************************************)
EXTENDS EventList, Masks, FiniteSets

CONSTANTS
  IgnoreTimes,  \* IGNORE_TIME, FLOOD_FLOOD_IGNORE and the 120 s of adduser
  SiteTime,     \* 300 s, for a site
  MaxPerSite    \* MAX_IGNORE_PER_SITE

ASSUME IgnoresOK == /\ IgnoreTimes \subseteq Nat /\ SiteTime \in Nat
                    /\ MaxPerSite \in Nat /\ MaxPerSite > 1

VARIABLES
  ignores,      \* IgnoreList, newest first
  silences      \* the masks that are silenced on the network
ignorevars == <<ignores, silences>>

Ignore == [mask : Mask, time : Int]
MasksOf(list) == {list[i].mask : i \in 1..Len(list)}

\* The first ignore a client is found under, and the mask it then is silenced by again.
FindIgnore(client) ==
  SelectInSeq(ignores, LAMBDA i : Compare(Real[client], i.mask) \/ Compare(Shown[client], i.mask))
IsIgnored(client) == FindIgnore(client) # 0

\* Once others of the site are ignored, the site is, for a while.
Crowded(client) ==
  LET site == SiteMask(MakeBanMask(client))
  IN Cardinality({i \in 1..Len(ignores) : SiteMask(ignores[i].mask) = site}) >= MaxPerSite - 1
Own(client, t) == [mask |-> MakeBanMask(client), time |-> now + t]
Whole(client) == [mask |-> SiteMask(MakeBanMask(client)), time |-> now + SiteTime]

\* The list with the client in front and, when it is crowded, its site before it.
Grown(client, t) ==
  LET own == <<Own(client, t)>> \o ignores
  IN IF Crowded(client) THEN <<Whole(client)>> \o own ELSE own
Asked(client) ==
  {MakeBanMask(client)} \cup IF Crowded(client) THEN {SiteMask(MakeBanMask(client))} ELSE {}

\* A mistake: an ignored client is put on the list again.
AddIgnore_Again(client, t) ==
  /\ Handler /\ Room
  /\ ignores' = <<Own(client, t)>> \o ignores
  /\ silences' = silences \cup {MakeBanMask(client)}
  /\ events' = AddEvent(events, "CLEAN_IGNORES", now + t, NoParam)

\* A mistake: the event of a client ends the ignore of its site too.
AddIgnore_OneEvent(client, t) ==
  /\ Handler /\ Room
  /\ ~IsIgnored(client)
  /\ ignores' = Grown(client, t)
  /\ silences' = silences \cup Asked(client)
  /\ events' = AddEvent(events, "CLEAN_IGNORES", now + t, NoParam)

\* AddIgnore, of a client that flooded.
AddIgnore(client, t) ==
  LET once == AddEvent(events, "CLEAN_IGNORES", now + t, NoParam)
  IN /\ Handler /\ Room
     /\ ~IsIgnored(client)
     /\ ignores' = Grown(client, t)
     /\ silences' = silences \cup Asked(client)
     /\ events' = IF Crowded(client)
                  THEN AddEvent(once, "CLEAN_IGNORES", now + SiteTime, NoParam)
                  ELSE once

\* A message of a client that is ignored: it is silenced again.
SilenceAgain(client) ==
  /\ Handler
  /\ IsIgnored(client)
  /\ silences' = silences \cup {ignores[FindIgnore(client)].mask}
  /\ UNCHANGED <<ignores, events>>

\* Each entry that goes takes its silence with it.
Thinned(over) ==
  /\ ignores' = Kept(ignores, (1..Len(ignores)) \ over)
  /\ silences' = silences \ {ignores[i].mask : i \in over}

\* remignore, of an administrator, with a mask or "all": their events stay.
AdminRemoveIgnore(masks) ==
  /\ Handler
  /\ Thinned({i \in 1..Len(ignores) : ignores[i].mask \in masks})
  /\ UNCHANGED events

CleanIgnores == Thinned({i \in 1..Len(ignores) : ignores[i].time <= now})

IgnoreEvent ==
  /\ Pop("CLEAN_IGNORES")
  /\ Rest(Tail(events))
  /\ CleanIgnores

IgnoreHandlers ==
  \/ \E c \in Clients : SilenceAgain(c) \/ \E t \in IgnoreTimes : AddIgnore(c, t)
  \/ \E m \in MasksOf(ignores) : AdminRemoveIgnore({m})
  \/ AdminRemoveIgnore(Mask)
=============================================================================
