----------------------------- MODULE EventList -----------------------------
(***************************************************************************)
(* The timed events of the service (events.c): one list in order of time,  *)
(* into which handlers put events and from whose head CheckEvent takes     *)
(* those that are due, in one go, once per turn of the main loop.          *)
(*                                                                         *)
(* The kinds of events here are those of the ban list and of the ignores.  *)
(* FLUSHMODEBUFF and GETOPS are in ModeQueue, CHECK_IDLE in Channels; the  *)
(* others (SYNC, RENAME_LOGFILE, ...) are re-armed just as SAVESHITLIST is *)
(* and change no state of the models.                                      *)
(***************************************************************************)
EXTENDS Integers, Sequences, SequencesExt

CONSTANTS
  Channels,     \* channels whose names have one sl_hash: one bucket of ShitList
  SaveFreq,     \* SHITLIST_SAVE_FREQ
  FirstSave,    \* SHITLIST_SAVE_FREQ + 300
  Horizon,      \* bound: the clock stops here
  MaxEvents     \* bound: events in the list when a command adds more

ASSUME TimesOK == /\ SaveFreq \in Nat \ {0} /\ FirstSave \in Nat \ {0}
                  /\ Horizon \in Nat /\ MaxEvents \in Nat

VARIABLES
  now,          \* the clock, read once per turn
  events,       \* EventList
  checking      \* is CheckEvent in its loop? Nothing else runs then

NoParam == ""
ASSUME ChannelsOK == NoParam \notin Channels

Event == [event : {"CLEANSHITLIST"}, time : Int, param : Channels]
           \cup [event : {"SAVESHITLIST", "CLEAN_IGNORES"}, time : Int, param : {NoParam}]

\* The entries of a list at the places I, in their order.
Kept(list, I) ==
  LET kept[n \in 0..Len(list)] ==
        IF n = 0 THEN <<>>
        ELSE IF n \in I THEN Append(kept[n - 1], list[n]) ELSE kept[n - 1]
  IN kept[Len(list)]

\* A mistake: the walk passes every event, whatever its time.
WalkToEnd(list, time) == Len(list)

\* How many events of the list the walk of AddEvent passes.
Walk(list, time) ==
  CHOOSE n \in 0..Len(list) :
    /\ \A i \in 1..n : list[i].time < time
    /\ n < Len(list) => list[n + 1].time >= time

AddEvent(list, event, time, param) ==
  LET n == Walk(list, time)
  IN SubSeq(list, 1, n) \o <<[event |-> event, time |-> time, param |-> param]>>
       \o SubSeq(list, n + 1, Len(list))

InitEvent(t) == <<[event |-> "SAVESHITLIST", time |-> t + FirstSave, param |-> NoParam]>>

Due(list) == list # <<>> /\ list[1].time <= now

\* The main loop reads the clock.
Tick == /\ ~checking
        /\ now < Horizon
        /\ now' = now + 1
        /\ UNCHANGED <<events, checking>>

\* CheckEvent takes the head of the list; its handler may add events.
Pop(event) == /\ Due(events)
              /\ events[1].event = event
              /\ now' = now
Rest(list) == /\ events' = list
              /\ checking' = Due(list)

\* What happens between the calls of CheckEvent.
Handler == ~checking /\ now' = now /\ checking' = checking
Room == Len(events) < MaxEvents

Sorted(list) == \A i, j \in 1..Len(list) : i < j => list[i].time <= list[j].time

(* In every state the events are in ascending order of time: CheckEvent,   *)
(* which stops at the first that is not due, leaves out none that is.      *)
Ordered == Sorted(events)
=============================================================================
