------------------------------- MODULE Timers -------------------------------
(***************************************************************************)
(* The ban list and the ignores on their common list of events, with the   *)
(* clock, restarts and crashes of the service.                             *)
(***************************************************************************)
EXTENDS ShitList, Ignores

vars == <<now, events, checking, banvars, ignorevars>>

\* A new process: the events, the ignores and the channels are gone; the
\* bans are those of the file.
Started(t) ==
  /\ events' = InitEvent(t)
  /\ checking' = FALSE
  /\ shitlist' = Load(disk', t)
  /\ loaded' = {Mark(b) : b \in ToSet(shitlist')}
  /\ chans' = {}
  /\ ignores' = <<>> /\ silences' = {}

Init ==
  /\ now = 0 /\ events = InitEvent(0) /\ checking = FALSE
  /\ shitlist = <<>> /\ disk = <<>> /\ loaded = {} /\ chans = {}
  /\ ignores = <<>> /\ silences = {}

\* quit and restart save the list; another process starts.
quit == /\ Handler
        /\ SaveShitList
        /\ Started(now)

\* The process dies, in the middle of CheckEvent or not.
Crash == /\ now' = now /\ disk' = disk
         /\ Started(now)

CheckEvent == \/ BanEvents /\ UNCHANGED ignorevars
              \/ IgnoreEvent /\ UNCHANGED banvars

Next == \/ Tick /\ UNCHANGED <<banvars, ignorevars>>
        \/ BanHandlers /\ UNCHANGED ignorevars
        \/ IgnoreHandlers /\ UNCHANGED banvars
        \/ CheckEvent
        \/ quit
        \/ Crash

Spec == Init /\ [][Next]_vars
\* The main loop calls CheckEvent on every turn.
FairSpec == Spec /\ WF_vars(CheckEvent)

-----------------------------------------------------------------------------
TypeOK ==
  /\ now \in 0..Horizon /\ checking \in BOOLEAN
  /\ events \in Seq(Event)
  /\ shitlist \in Seq(Ban) /\ disk \in Seq(Ban)
  /\ chans \subseteq Channels
  /\ loaded \subseteq [channel : Channels, match : Mask, expiration : Int]
  /\ ignores \in Seq(Ignore) /\ silences \subseteq Mask

InList(list, e) == \E i \in 1..Len(list) : list[i] = e
Pending(event, time, param) ==
  InList(events, [event |-> event, time |-> time, param |-> param])

(* Every ignore has its event waiting: no list of ignores, however it was  *)
(* built or thinned out, holds a client for ever.                          *)
IgnoreScheduled ==
  \A i \in 1..Len(ignores) : Pending("CLEAN_IGNORES", ignores[i].time, NoParam)

(* Every ban whose end was set by AddToShitList has its event waiting, be  *)
(* it new or made longer; bans read from the file are cleaned with others. *)
BanScheduled ==
  \A i \in 1..Len(shitlist) :
    \/ Pending("CLEANSHITLIST", shitlist[i].expiration, shitlist[i].channel)
    \/ Mark(shitlist[i]) \in loaded

(* A ban is in the list once: unban, which takes the first that fits, ends *)
(* it.                                                                     *)
BanOnce ==
  \A i, j \in 1..Len(shitlist) :
    i # j => \/ shitlist[i].channel # shitlist[j].channel
             \/ shitlist[i].match # shitlist[j].match

(* The network silences what is ignored and nothing else, each mask ignored *)
(* once, so that a silence that ends with one entry is not still wanted by  *)
(* another.  But the masks of IPv6 networks: IsIgnored does not know their  *)
(* clients, so that they are ignored again while they are ignored.          *)
SilencesAgree ==
  /\ silences \subseteq MasksOf(ignores)
  /\ \A i \in 1..Len(ignores) :
       ignores[i].mask.node # Prefix =>
         /\ ignores[i].mask \in silences
         /\ \A j \in 1..Len(ignores) : ignores[j].mask = ignores[i].mask => i = j

(* Exactly one save of the ban list is always on its way, after a save that*)
(* failed too.                                                             *)
OneSave(list) ==
  \E i \in 1..Len(list) :
    \A j \in 1..Len(list) : list[j].event = "SAVESHITLIST" <=> i = j
SaveArmed == OneSave(events)

(* An event takes off nothing that has not run out, but bans of a channel  *)
(* that is gone: in particular the event of a ban that was renewed since.  *)
OnlyExpiredGo ==
  [][CheckEvent =>
       /\ \A b \in ToSet(shitlist) \ ToSet(shitlist') :
            b.expiration <= now \/ b.channel \notin chans
       /\ \A i \in ToSet(ignores) \ ToSet(ignores') : i.time <= now]_vars

(* Every flood raises the level a client has on the channel, and one of a   *)
(* client warned twice bans it: the ban that is raised, looked up by mask,  *)
(* is the one found by address.  But a ban may stand before it that the     *)
(* address is within and the mask is not, as one of the very address; and   *)
(* the mask of a compressed IPv6 address may not be the client's.           *)
Escalates ==
  [][\A c \in Channels, x \in Flooders : CheckFlood(c, x) =>
       LET before == IsShit(shitlist, c, x)
           after == IsShit(shitlist', c, x)
           i == FindShit(shitlist', c, x)
       IN \/ after >= (IF before < 10 THEN before + 5 ELSE FloodLevel)
          \/ i # 0 /\ ~Match(MakeBanMask(x), shitlist'[i].match)
          \/ ~Match(Real[x], MakeBanMask(x)) /\ ~Match(Shown[x], MakeBanMask(x))]_vars

(* Whatever has run out and was scheduled goes: CheckEvent comes to a point *)
(* where nothing of it is left.                                            *)
Overdue ==
  \/ \E i \in 1..Len(shitlist) : shitlist[i].expiration <= now /\ Mark(shitlist[i]) \notin loaded
  \/ \E i \in 1..Len(ignores) : ignores[i].time <= now
ExpiredGo == Overdue ~> ~Overdue
=============================================================================
