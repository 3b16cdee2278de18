----------------------------- MODULE ModeQueue -----------------------------
(***************************************************************************)
(* The modes of one channel: the queue of changes to be sent (modes.c),    *)
(* the handlers that hear of changes, the op, deop and ban commands (ops.c,*)
(* bans.c), and how the service gets and loses its own op (channels.c).    *)
(*                                                                         *)
(* A change is believed before it is sent: op() sets user->chanop and only *)
(* queues "+o"; the queue is flushed two seconds later, or by the next     *)
(* mode change heard.  net is the channel as the network has it, and       *)
(* changes by what the service writes and by what others do.  Messages do  *)
(* not cross: a handler runs with the network as the message left it.      *)
(*                                                                         *)
(* The service's ban list is ShitList's business; here the answers of      *)
(* IsShit are an input of the handlers that ask, shit[u] for client u.     *)
(***************************************************************************)
EXTENDS Naturals, Sequences, FiniteSets, SequencesExt

CONSTANTS
  Users,        \* clients, by numeric; also the ban mask MakeBanMask makes of each
  Me,           \* myYYXXX
  Services,     \* clients with LFL_ISSERVICE: nobody but a server can deop them
  OpAccess,     \* clients with access OP_LEVEL or more
  Wardens,      \* clients with access ACCESS_BAN_PRIORITY or more
  AutoOps,      \* clients with access and the AUTOOP flag
  Deopable,     \* bound: whom servers deop
  Bannable,     \* bound: the clients that are banned, or on the service's ban list
  Levels,       \* bound: the levels of the bans on the list
  DefFlags, DefModes,  \* the channel's line of the default list
  Settable,     \* bound: the flags that are set and reset
  Letters,      \* bound: the mode letters others change, of o, b, k, l and i
  MaxArgs,      \* MAX_MODE_PER_LINE
  MaxMembers,   \* bound: clients on the channel at a time
  MaxLine,      \* bound: changes in one message of the network
  Key           \* the channel key

NoArg == "none"
Low == "1"      \* a limit below 2
Flags == {"NOOP", "ALWAYSOP", "STRICTOP"}
Plain == Users \ Services
Shits == {shit \in [Users -> {0} \cup Levels] : \A u \in Users \ Bannable : shit[u] = 0}

Modes == {"k", "l", "i"}
ModeLetters == {"o", "b"} \cup Modes

\* The words of a message are told apart, and a mode is in the mode string once.
ASSUME ModesOK ==
  /\ MaxArgs \in Nat \ {0} /\ MaxLine \in Nat /\ Levels \subseteq Nat
  /\ IsFiniteSet(Users)
  /\ Services \cup Deopable \cup Bannable \subseteq Users
  /\ Users \cap {Me, Key, NoArg, Low, "server"} = {}
  /\ Cardinality({Me, Key, NoArg, Low}) = 4
  /\ DefFlags \subseteq Flags /\ Settable \subseteq Flags
  /\ DefModes \in Seq(Modes) /\ IsInjective(DefModes)
  /\ Letters \subseteq ModeLetters

VARIABLES
  chan,      \* the achannel structure; exists is FALSE while there is none
  flushes,   \* is there an EVENT_FLUSHMODEBUFF for the channel in EventList?
  getops,    \* is there an EVENT_GETOPS?
  net        \* the network: who is op, and the bans
vars == <<chan, flushes, getops, net>>

Args == Users \cup {Me, Key, NoArg, Low}
Change == [sign : {"+", "-"}, letter : ModeLetters, arg : Args]
Entry == [sign : {"+", "-"}, letter : ModeLetters, arg : Args, server : BOOLEAN]

\* DelChannel frees the structure, its members, its queue and its bans.
DelChannel ==
  [exists |-> FALSE, on |-> FALSE, amOp |-> FALSE, users |-> {}, chanop |-> {},
   queue |-> <<>>, bans |-> {}, mode |-> <<>>, flags |-> {}, out |-> <<>>]

-----------------------------------------------------------------------------
(* The mode words and the queue (modes.c).                                 *)

\* The elements of s that are in S, in order.
Only(s, S) == FoldLeft(LAMBDA t, x : IF x \in S THEN Append(t, x) ELSE t, <<>>, s)

RemFlag(mode, f) == Only(mode, Modes \ {f})
AddFlag(mode, f) == Append(RemFlag(mode, f), f)

\* Does channel c have mode f, with that argument when it is a key?
IsSet(c, f, arg) == f \in ToSet(c.mode) /\ (f = "k" => arg = Key)

\* A mistake: the opposite change stays in the queue.
ChangeModeNoCancel(c, sign, letter, arg, server) ==
  LET new == [sign |-> sign, letter |-> letter, arg |-> arg, server |-> server]
      same == \E e \in ToSet(c.queue) :
                e.letter = letter /\ e.arg = arg /\ e.sign = sign
  IN IF same \/ (~server /\ ~c.on) THEN c ELSE [c EXCEPT !.queue = Append(@, new)]

\* An opposite change that waits is cancelled and the new one goes to the end.
\* The walk goes on from the cell just freed, whose next is still there.
ChangeMode(c, sign, letter, arg, server) ==
  LET same == {e \in ToSet(c.queue) : e.letter = letter /\ e.arg = arg}
      new == [sign |-> sign, letter |-> letter, arg |-> arg, server |-> server]
  IN IF (~server /\ ~c.on) \/ (\E e \in same : e.sign = sign) THEN c
     ELSE [c EXCEPT !.queue = Append(Only(@, ToSet(@) \ same), new)]

\* A mistake: a line that is full ends without forgetting the sign.
LinesOfKeepSign(q, server) ==
  LET Write(w, e) ==
        LET args == IF e.arg = NoArg THEN w.args ELSE Append(w.args, e.arg)
            flags == w.flags \o (IF w.last = e.sign THEN <<>> ELSE <<e.sign>>) \o <<e.letter>>
            line == [server |-> server, flags |-> flags, args |-> args]
        IN IF Len(args) = MaxArgs
             THEN [lines |-> Append(w.lines, line), flags |-> <<>>, args |-> <<>>, last |-> e.sign]
             ELSE [lines |-> w.lines, flags |-> flags, args |-> args, last |-> e.sign]
      w == FoldLeft(Write, [lines |-> <<>>, flags |-> <<>>, args |-> <<>>, last |-> ""], q)
  IN IF w.flags = <<>> THEN w.lines
     ELSE Append(w.lines, [server |-> server, flags |-> w.flags, args |-> w.args])

\* The lines flushmode makes of the entries q of one pass.  The sign is left
\* out when it is that of the change before, or '+' at the start of a line
\* that is not the first.
LinesOf(q, server) ==
  LET Break(w) == IF w.flags = <<>> THEN w
                  ELSE [lines |-> Append(w.lines, [server |-> server, flags |-> w.flags,
                                                   args |-> w.args]),
                        flags |-> <<>>, args |-> <<>>, last |-> "+"]
      Write(w, e) ==
        LET args == IF e.arg = NoArg THEN w.args ELSE Append(w.args, e.arg)
            more == [w EXCEPT !.args = args, !.last = e.sign,
                              !.flags = @ \o (IF w.last = e.sign THEN <<>> ELSE <<e.sign>>)
                                          \o <<e.letter>>]
        IN IF Len(args) = MaxArgs THEN Break(more) ELSE more
      start == [lines |-> <<>>, flags |-> <<>>, args |-> <<>>, last |-> ""]
  IN Break(FoldLeft(Write, start, q)).lines

\* A mistake: the bans sent are not entered in the list.
FlushModeNoAddBan(c) ==
  LET Of(server) == Only(c.queue, {e \in ToSet(c.queue) : e.server = server})
  IN [c EXCEPT !.queue = <<>>,
               !.bans = @ \ {e.arg : e \in {e \in ToSet(c.queue) : e.letter = "b" /\ e.sign = "-"}},
               !.out = @ \o LinesOf(Of(TRUE), TRUE)
                         \o (IF c.amOp THEN LinesOf(Of(FALSE), FALSE) ELSE <<>>)]

\* First what the server changes, then what the service changes as a client,
\* which is dropped when it is not op.
FlushMode(c) ==
  LET Of(server) == Only(c.queue, {e \in ToSet(c.queue) : e.server = server})
      Masks(sign) == {e.arg : e \in {e \in ToSet(c.queue) : e.letter = "b" /\ e.sign = sign}}
  IN IF c.queue = <<>> THEN c ELSE
     [c EXCEPT !.queue = <<>>,
               !.bans = (@ \ Masks("-")) \cup Masks("+"),
               !.out = @ \o LinesOf(Of(TRUE), TRUE)
                         \o (IF c.amOp THEN LinesOf(Of(FALSE), FALSE) ELSE <<>>)]

-----------------------------------------------------------------------------
(* The network (external).  A line is read from its letters and arguments  *)
(* alone; one that a client sends counts only when that client is op.      *)

ReadLine(line) ==
  LET Read(r, ch) ==
        IF ch \in {"+", "-"} THEN [r EXCEPT !.sign = ch]
        ELSE LET takes == ch \in {"o", "b", "k"} \/ (ch = "l" /\ r.sign = "+")
                 arg == IF takes /\ r.args # <<>> THEN Head(r.args) ELSE NoArg
             IN [r EXCEPT !.changes = Append(@, [sign |-> r.sign, letter |-> ch, arg |-> arg]),
                          !.args = IF takes /\ @ # <<>> THEN Tail(@) ELSE @]
  IN FoldLeft(Read, [sign |-> "+", args |-> line.args, changes |-> <<>>], line.flags).changes

Present(c) == c.users \cup (IF c.on THEN {Me} ELSE {})

Apply(n, l, present) ==
  LET Put(S, sign, x) == IF sign = "+" THEN S \cup {x} ELSE S \ {x}
      One(m, ch) == CASE ch.letter = "o" /\ ch.arg \in present ->
                           [m EXCEPT !.op = Put(@, ch.sign, ch.arg)]
                      [] ch.letter = "b" -> [m EXCEPT !.bans = Put(@, ch.sign, ch.arg)]
                      [] ch.letter \in Modes ->
                           [m EXCEPT !.modes = Put(@, ch.sign, ch.letter)]
                      [] OTHER -> m
  IN FoldLeft(One, n, l)

Deliver(n, out, present) ==
  LET Line(m, line) == IF line.server \/ Me \in m.op
                         THEN Apply(m, ReadLine(line), present) ELSE m
  IN FoldLeft(Line, n, out)

-----------------------------------------------------------------------------
(* What the handlers do to the structure.                                  *)

TakeOp(c, u) == ChangeMode([c EXCEPT !.chanop = @ \ {u}], "-", "o", u, FALSE)

\* A client op is fought when the channel or the target does not allow it.
\* A warden's op of somebody on the ban list stands: unban is given a numeric
\* where it looks for a nick or a mask, finds nothing, and flushes the queue.
OnOp(c, source, target, shit) ==
  LET opped == [c EXCEPT !.chanop = @ \cup {target}]
      both == TakeOp(TakeOp(opped, target), source)
      watched == c.on /\ source \in Plain /\ target \notin Services
  IN IF target = Me THEN [c EXCEPT !.amOp = TRUE]
     ELSE IF target \notin c.users THEN c
     ELSE IF ~watched THEN opped
     ELSE IF "NOOP" \in c.flags THEN both
     ELSE IF "STRICTOP" \in c.flags /\ target \notin OpAccess
       THEN IF source \in OpAccess THEN TakeOp(opped, target) ELSE both
     ELSE IF shit[target] >= 20
       THEN IF source \notin Wardens THEN both
            ELSE IF c.amOp THEN FlushMode(opped) ELSE opped
     ELSE opped

\* A deop by a server, or by anybody who is not on the channel, is not noted.
OnDeop(c, source, target) ==
  IF source \in c.users THEN [c EXCEPT !.chanop = @ \ {target}] ELSE c

Hear(c, source, ch, shit) ==
  LET noted == CASE ch.letter \in Modes ->
                      [c EXCEPT !.mode = IF ch.sign = "+" THEN AddFlag(@, ch.letter)
                                                          ELSE RemFlag(@, ch.letter)]
                 [] ch.letter = "b" ->
                      [c EXCEPT !.bans = IF ch.sign = "+" THEN @ \cup {ch.arg}
                                                          ELSE @ \ {ch.arg}]
                 [] ch.letter = "o" -> IF ch.sign = "+" THEN OnOp(c, source, ch.arg, shit)
                                                        ELSE OnDeop(c, source, ch.arg)
  IN IF ch.letter = "l" /\ ch.sign = "+" /\ ch.arg = Low /\ c.on /\ c.amOp
       THEN ChangeMode([noted EXCEPT !.mode = RemFlag(@, "l")], "-", "l", NoArg, FALSE)
       ELSE noted

\* A mistake: mban leaves it to the next message to send the queue.
MbanUnsent(c, u) ==
  IF c.on /\ c.amOp /\ u \in c.users \ Services
    THEN ChangeMode(IF u \in c.chanop THEN TakeOp(c, u) ELSE c, "+", "b", u, FALSE)
    ELSE c

\* mban with the mask of client u.
Mban(c, u) ==
  IF c.on /\ c.amOp /\ u \in c.users \ Services
    THEN FlushMode(ChangeMode(IF u \in c.chanop THEN TakeOp(c, u) ELSE c,
                              "+", "b", u, FALSE))
    ELSE c

\* unban with the mask of client u.
Unban(c, u) ==
  IF ~(c.on /\ c.amOp) THEN c
  ELSE IF u \in c.bans
    THEN FlushMode([ChangeMode(c, "-", "b", u, FALSE) EXCEPT !.bans = @ \ {u}])
    ELSE FlushMode(c)

\* bitten: CheckFlood finds that the source has said too much, and bans it.
ModeChange(c, source, l, shit, bitten) ==
  LET heard == FoldLeft(LAMBDA d, ch : Hear(d, source, ch, shit), c, l)
  IN FlushMode(IF bitten THEN Mban(heard, source) ELSE heard)

OpMe == [sign |-> "+", letter |-> "o", arg |-> Me]

\* What a server does is not compared with the ban list.
NoShit == [u \in Users |-> 0]

GetOps(c) ==
  LET line == [server |-> TRUE, flags |-> <<"+", "o">>, args |-> <<Me>>]
  IN ModeChange([c EXCEPT !.out = Append(@, line)], "server", <<OpMe>>, NoShit, FALSE)

IsOpless(c) == c.chanop = {} /\ ~c.amOp

\* The modes of the default list are those somebody may have removed; a limit
\* is not restored.
Bounce(c) ==
  LET Back(d, f) == IF f = "l" \/ ~IsSet(d, f, Key) THEN d
                    ELSE ChangeMode(d, "+", f, IF f = "k" THEN Key ELSE NoArg, TRUE)
  IN FoldLeft(Back, c, DefModes)

NewChannel(on) ==
  LET new == [DelChannel EXCEPT !.exists = TRUE, !.on = on, !.amOp = on,
                                !.mode = DefModes, !.flags = DefFlags]
  IN IF on THEN FlushMode(Bounce(ChangeMode(new, "+", "o", Me, TRUE))) ELSE new

OpNick(c, u, shit) ==
  IF /\ u \in c.users \ c.chanop
     /\ "STRICTOP" \in c.flags => u \in OpAccess
     /\ shit[u] < 20
    THEN ChangeMode([c EXCEPT !.chanop = @ \cup {u}], "+", "o", u, FALSE)
    ELSE c

DeopNick(c, u) == IF u \in c.users /\ u \in c.chanop THEN TakeOp(c, u) ELSE c

MassDeop(c) ==
  IF c.on /\ c.amOp
    THEN FlushMode(FoldLeft(TakeOp, c, SetToSeq(c.chanop \ Services)))
    ELSE c

\* The words of the mode string are counted on while the flags before them,
\* and their words, are being removed.
ClearModes(c) ==
  LET Clear(w, f) ==
        LET words == Only(w.c.mode, {"k", "l"})
            word == IF w.i > Len(words) THEN NoArg
                    ELSE IF words[w.i] = "k" THEN Key ELSE Low
        IN [c |-> [ChangeMode(w.c, "-", f, IF f = "k" THEN word ELSE NoArg, FALSE)
                     EXCEPT !.mode = RemFlag(@, f)],
            i |-> IF f \in {"k", "l"} THEN w.i + 1 ELSE w.i]
  IN FlushMode(FoldLeft(Clear, [c |-> c, i |-> 1], c.mode).c)

-----------------------------------------------------------------------------
\* The handler leaves the structure as c, having found the network as n.
Turn(c, n) == /\ chan' = [c EXCEPT !.out = <<>>]
              /\ net' = Deliver(n, c.out, Present(c))

Nobody == [op |-> {}, bans |-> {}, modes |-> {}]

\* The last client and the service gone, the channel is no more.
Leave(c, n) == IF c.users = {} /\ ~c.on
                 THEN chan' = DelChannel /\ net' = Nobody
                 ELSE Turn(c, n)

FlushLater == flushes' = TRUE
Quiet == UNCHANGED <<flushes, getops>>

\* A mistake: the automatic op at a join does not ask for NOOP.
ClientJoinsAnyway(u, isOp, quiet, shit) ==
  LET c == IF chan.exists THEN chan ELSE NewChannel(FALSE)
      joined == [c EXCEPT !.users = @ \cup {u}, !.chanop = IF isOp THEN @ \cup {u} ELSE @]
      n == IF isOp THEN [net EXCEPT !.op = @ \cup {u}] ELSE net
      acts == ~quiet /\ c.on /\ c.amOp
  IN /\ u \notin c.users /\ Cardinality(c.users) < MaxMembers
     /\ isOp \/ (chan.exists /\ u \notin Services)
     /\ UNCHANGED getops
     /\ CASE acts /\ shit[u] >= 75 -> Turn(Mban(joined, u), n) /\ UNCHANGED flushes
          [] acts /\ u \in AutoOps /\ shit[u] < 20 ->
               Turn(OpNick(joined, u, shit), n) /\ FlushLater
          [] OTHER -> Turn(joined, n) /\ UNCHANGED flushes

\* onburst, onjoin and JoinUser: a client comes, as op if it makes the channel
\* or comes with a burst.  quiet: JoinUser returns early, bursting.
ClientJoins(u, isOp, quiet, shit) ==
  LET c == IF chan.exists THEN chan ELSE NewChannel(FALSE)
      joined == [c EXCEPT !.users = @ \cup {u}, !.chanop = IF isOp THEN @ \cup {u} ELSE @]
      n == IF isOp THEN [net EXCEPT !.op = @ \cup {u}] ELSE net
      acts == ~quiet /\ c.on /\ c.amOp
  IN /\ u \notin c.users /\ Cardinality(c.users) < MaxMembers
     /\ isOp \/ (chan.exists /\ u \notin Services)
     /\ UNCHANGED getops
     /\ CASE acts /\ shit[u] >= 75 -> Turn(Mban(joined, u), n) /\ UNCHANGED flushes
          [] acts /\ u \in AutoOps /\ "NOOP" \notin c.flags /\ shit[u] < 20 ->
               Turn(OpNick(joined, u, shit), n) /\ FlushLater
          [] OTHER -> Turn(joined, n) /\ UNCHANGED flushes

\* A mistake: a client that leaves stays among the ops.
ClientLeavesOpped(u) ==
  /\ u \in chan.users
  /\ Leave([chan EXCEPT !.users = @ \ {u}], [net EXCEPT !.op = @ \ {u}])
  /\ Quiet

\* onpart, onquit, onkick: the client's membership is freed, what was queued
\* about it is not.
ClientLeaves(u) ==
  /\ u \in chan.users
  /\ Leave([chan EXCEPT !.users = @ \ {u}, !.chanop = @ \ {u}],
           [net EXCEPT !.op = @ \ {u}])
  /\ Quiet

\* What changes something on the network; clients cannot deop a service, this
\* one included.  Bound: the other services' op is never changed singly.
Effective(source) ==
  LET ops == IF source = "server" THEN Deopable ELSE Plain
      Flip(S, x) == IF x \in S THEN "-" ELSE "+"
      Arg(f) == CASE f = "k" -> Key
                  [] f = "l" /\ f \notin net.modes -> Low
                  [] OTHER -> NoArg
      changes ==
        [sign : {"+"}, letter : {"o"}, arg : Present(chan) \ (net.op \cup Services)]
          \cup [sign : {"-"}, letter : {"o"}, arg : net.op \cap ops]
          \cup {[sign |-> Flip(net.bans, m), letter |-> "b", arg |-> m] : m \in Bannable}
          \cup {[sign |-> Flip(net.modes, f), letter |-> f, arg |-> Arg(f)] : f \in Modes}
  IN {ch \in changes : ch.letter \in Letters}

Message(source) == UNION {[1..n -> Effective(source)] : n \in 1..MaxLine}

\* M from a client.
OnMode(w, l, shit, bitten) ==
  /\ w \in net.op \ {Me}
  /\ bitten => chan.on /\ w \in Plain \cap Bannable
  /\ Turn(ModeChange(chan, w, l, shit, bitten), Apply(net, l, Present(chan)))
  /\ Quiet

\* M from a server.  Bound: about ops.
OnServerMode(l) ==
  /\ chan.exists /\ \A i \in DOMAIN l : l[i].letter = "o"
  /\ Turn(ModeChange(chan, "server", l, NoShit, FALSE), Apply(net, l, Present(chan)))
  /\ Quiet

\* onclearmode.  Letters other than o, v and b go through ModeChange first.
OnClearMode(S) ==
  LET l == SetToSeq({[sign |-> "-", letter |-> f, arg |-> NoArg] : f \in S \ {"o", "b"}})
      c == IF l = <<>> THEN chan ELSE ModeChange(chan, "server", l, NoShit, FALSE)
      cleared == [c EXCEPT !.chanop = IF "o" \in S THEN {} ELSE @,
                           !.amOp = IF "o" \in S /\ c.on THEN FALSE ELSE @,
                           !.bans = IF "b" \in S THEN {} ELSE @]
      n == [op |-> IF "o" \in S THEN {} ELSE net.op,
            bans |-> IF "b" \in S THEN {} ELSE net.bans,
            modes |-> net.modes \ S]
  IN chan.exists /\ Turn(cleared, n) /\ Quiet

-----------------------------------------------------------------------------
(* Commands.  A source without the access they ask for is refused.         *)

\* Nicks that are not on the channel are passed over.  Bound: two that are.
Lists == {<<u>> : u \in Users} \cup SetToSeqs(chan.users)

\* A mistake: op() leaves it to the next message to send the queue.
OpUntimed(list, shit) ==
  /\ chan.on /\ chan.amOp /\ "NOOP" \notin chan.flags
  /\ Turn(FoldLeft(LAMBDA c, u : OpNick(c, u, shit), chan, list), net)
  /\ UNCHANGED <<flushes, getops>>

Op(list, shit) ==
  /\ chan.on /\ chan.amOp /\ "NOOP" \notin chan.flags
  /\ Turn(FoldLeft(LAMBDA c, u : OpNick(c, u, shit), chan, list), net)
  /\ FlushLater
  /\ UNCHANGED getops

\* The nicks up to the first service that is on the channel.
UpToService(list) ==
  LET i == SelectInSeq(list, LAMBDA u : u \in chan.users \cap Services)
  IN IF i = 0 THEN list ELSE SubSeq(list, 1, i - 1)

\* When there is a service in the list deop returns without asking for a flush.
Deop(list) ==
  /\ chan.on /\ chan.amOp
  /\ Turn(FoldLeft(DeopNick, chan, UpToService(list)), net)
  /\ IF UpToService(list) = list THEN FlushLater ELSE UNCHANGED flushes
  /\ UNCHANGED getops

\* A client with AUTOOP logs in.
LoginOp(u, shit) ==
  /\ u \in AutoOps /\ chan.on /\ chan.amOp
  /\ "NOOP" \notin chan.flags /\ shit[u] < 20
  /\ Turn(OpNick(chan, u, shit), net)
  /\ FlushLater
  /\ UNCHANGED getops

\* SET of a flag; calmdown sets NOOP too.
SetFlag(f, value) ==
  LET c == [chan EXCEPT !.flags = IF value THEN @ \cup {f} ELSE @ \ {f}]
      done == CASE f = "NOOP" /\ value -> MassDeop(c)
                [] f = "ALWAYSOP" /\ value /\ ~c.amOp -> GetOps(c)
                [] OTHER -> c
  IN chan.exists /\ Turn(done, net) /\ Quiet

ClearMode == chan.on /\ chan.amOp /\ Turn(ClearModes(chan), net) /\ Quiet

\* The ban command, with a level that kicks, and the removal or expiry of a ban.
BanClient(u) == chan.exists /\ Turn(Mban(chan, u), net) /\ Quiet
UnbanClient(u) == chan.exists /\ Turn(Unban(chan, u), net) /\ Quiet

\* onnick: the nick flood protection calls ban, which does not reset chanop.
NickFlood(u) ==
  LET c == IF u \in chan.chanop THEN ChangeMode(chan, "-", "o", u, FALSE) ELSE chan
  IN /\ u \in chan.users /\ chan.on
     /\ Turn(IF chan.amOp THEN FlushMode(ChangeMode(c, "+", "b", u, FALSE)) ELSE chan, net)
     /\ Quiet

-----------------------------------------------------------------------------
(* The service's own membership and the timers.                            *)

\* J to a channel that exists, C to one that does not.
Join ==
  /\ IF chan.exists
       THEN LET c == [chan EXCEPT !.on = TRUE]
            IN /\ Turn(c, net)
               /\ UNCHANGED flushes
               /\ IF IsOpless(c) \/ ("ALWAYSOP" \in c.flags /\ ~c.amOp)
                    THEN getops' = TRUE
                    ELSE UNCHANGED getops
       ELSE /\ Turn(NewChannel(TRUE), [net EXCEPT !.op = {Me}])
            /\ IF DefModes = <<>> THEN UNCHANGED flushes ELSE FlushLater
            /\ UNCHANGED getops

\* part, and onkick of the service itself.  The queue stays.
Part ==
  /\ chan.exists
  /\ Leave([chan EXCEPT !.on = FALSE, !.amOp = FALSE], [net EXCEPT !.op = @ \ {Me}])
  /\ Quiet

\* An event of several that are pending goes off, or the last.
FlushTimer ==
  /\ flushes
  /\ flushes' \in BOOLEAN
  /\ Turn(FlushMode(chan), net)
  /\ UNCHANGED getops

GetOpsTimer ==
  /\ getops
  /\ getops' \in BOOLEAN
  /\ Turn(IF /\ chan.on
             /\ IsOpless(chan) \/ ("ALWAYSOP" \in chan.flags /\ ~chan.amOp)
            THEN GetOps(chan) ELSE chan, net)
  /\ UNCHANGED flushes

\* The channel is not there yet, or SendBurst has just made it.
Init ==
  /\ chan \in {DelChannel, [DelChannel EXCEPT !.exists = TRUE, !.on = TRUE, !.amOp = TRUE,
                                              !.mode = DefModes, !.flags = DefFlags]}
  /\ net = [op |-> IF chan.on THEN {Me} ELSE {}, bans |-> {},
            modes |-> ToSet(chan.mode)]
  /\ flushes = FALSE /\ getops = FALSE

Next ==
  \/ \E u \in Users, shit \in Shits :
       (\E isOp, quiet \in BOOLEAN : ClientJoins(u, isOp, quiet, shit)) \/ LoginOp(u, shit)
  \/ \E u \in Users : ClientLeaves(u)
  \/ \E u \in Plain \cap Bannable : NickFlood(u)
  \/ \E w \in Users \cap net.op : \E l \in Message(w), shit \in Shits, bitten \in BOOLEAN :
       OnMode(w, l, shit, bitten)
  \/ \E l \in Message("server") : OnServerMode(l)
  \/ \E S \in SUBSET Letters \ {{}} : OnClearMode(S)
  \/ \E list \in Lists : (\E shit \in Shits : Op(list, shit)) \/ Deop(list)
  \/ \E f \in Settable, value \in BOOLEAN : SetFlag(f, value)
  \/ ClearMode
  \/ \E u \in Bannable : BanClient(u) \/ UnbanClient(u)
  \/ Join \/ Part \/ FlushTimer \/ GetOpsTimer

Spec == Init /\ [][Next]_vars

-----------------------------------------------------------------------------
(* Properties.                                                             *)

\* Every variable has its type.
TypeOK ==
  /\ chan.exists \in BOOLEAN /\ chan.on \in BOOLEAN /\ chan.amOp \in BOOLEAN
  /\ chan.chanop \subseteq chan.users /\ chan.users \subseteq Users
  /\ chan.queue \in Seq(Entry) /\ chan.bans \subseteq Users
  /\ chan.mode \in Seq(Modes) /\ chan.flags \subseteq Flags
  /\ flushes \in BOOLEAN /\ getops \in BOOLEAN
  /\ net.op \subseteq Users \cup {Me} /\ net.bans \subseteq Users
  /\ net.modes \subseteq Modes

\* What the network will have when the queue has been sent.
Queued(sign, letter, x) ==
  \E i \in DOMAIN chan.queue : /\ chan.queue[i].arg = x
                               /\ chan.queue[i].letter = letter
                               /\ chan.queue[i].sign = sign
WillBe(letter, x, now) == Queued("+", letter, x) \/ (now /\ ~Queued("-", letter, x))

OpWrong(u) == u \in chan.users /\ (u \in chan.chanop) # WillBe("o", u, u \in net.op)
ModeWrong(f) == (f \in ToSet(chan.mode)) # WillBe(f, IF f = "k" THEN Key ELSE NoArg, f \in net.modes)
BanWrong(m) == (m \in chan.bans) # WillBe("b", m, m \in net.bans)

\* The service is op, and knows it: what it sends as a client is heard.
Heard == chan.on /\ chan.amOp /\ Me \in net.op

\* Between two handlers only ops and deops of clients wait, that the service asks
\* for as a client, and of no client both: no handler returns with a ban, a mode
\* or a change by the server in the queue, where a later flush would undo what
\* was heard of it meanwhile, and a part with a queue (part() keeps it) holds
\* nothing but ops.
OnlyOpsWait ==
  /\ \A e \in ToSet(chan.queue) : e.letter = "o" /\ ~e.server /\ e.arg \in Users
  /\ \A u \in Users : ~(Queued("+", "o", u) /\ Queued("-", "o", u))

\* The ways to be wrong about a client's op that the code has: a server deops
\* (modes.c:645); word of the client comes while an older change of it waits;
\* ban() forgets chanop (bans.c:103).
Tells(l, sign, u) == \E ch \in ToSet(l) : ch.letter = "o" /\ ch.sign = sign /\ ch.arg = u
ServerDeops(u) == \E l \in Message("server") : Tells(l, "-", u) /\ OnServerMode(l)
Crossed(u) ==
  /\ Queued("+", "o", u) \/ Queued("-", "o", u)
  /\ \/ \E isOp, quiet \in BOOLEAN, shit \in Shits : ClientJoins(u, isOp, quiet, shit)
     \/ \E l \in Message("server"), sign \in {"+", "-"} : Tells(l, sign, u) /\ OnServerMode(l)
     \/ \E w \in Users, shit \in Shits, bitten \in BOOLEAN, sign \in {"+", "-"} :
          \E l \in Message(w) : Tells(l, sign, u) /\ OnMode(w, l, shit, bitten)

\* Who the service takes for an op is who will be op once the queue is sent.
\* A step that breaks this is one of those above, or leaves the service unable
\* to send (flushmode drops the changes of a service that is not op).
OpsAgree ==
  [][\A u \in Users : OpWrong(u)' /\ ~OpWrong(u) =>
       ~Heard' \/ ServerDeops(u) \/ Crossed(u) \/ NickFlood(u)]_vars

\* The ban list is the network's.  No change of a ban waits between handlers, so
\* no later flush undoes what was heard of it (flushmode calls RemBan and AddBan
\* for all it finds); only a service that cannot send is wrong about a ban.
BansAgree == [][\A m \in Users : BanWrong(m)' /\ ~BanWrong(m) => ~Heard']_vars

\* The mode words are the network's, with the same exception; bounce() has sent
\* what a new channel is believed to have, but for a limit of the default list
\* (modes.c:212 sends nothing when it is "-l").
ModesAgree ==
  [][\A f \in Modes :
       ModeWrong(f)' /\ ~ModeWrong(f) =>
         ~Heard' \/ (f \in {"l"} \cap ToSet(DefModes) /\ Join)]_vars

\* The ways to become op under NOOP: a server or a service gives it, or the
\* client comes as op (it makes the channel, or comes with a burst).
GivenOp(u) ==
  \/ \E source \in Services \cup {"server"} : \E l \in Message(source) :
       /\ Tells(l, "+", u)
       /\ \/ source = "server" /\ OnServerMode(l)
          \/ source \in Services /\ OnMode(source, l, NoShit, FALSE)
  \/ \E quiet \in BOOLEAN, shit \in Shits : ClientJoins(u, TRUE, quiet, shit)

\* Under NOOP no step makes somebody on the channel op to be, a client that just
\* joins included, but these: neither an op by a client, nor a command, nor the
\* automatic op at a join (channels.c:1069) or a login (userlist.c:388) gets
\* through.  Who joins was not to be op before, unless an op asked for earlier,
\* without NOOP, still waits for it.
NoOpHolds ==
  [][("NOOP" \in chan.flags /\ "NOOP" \in chan'.flags /\ Heard /\ Heard') =>
       \A u \in Plain \cap chan'.users :
         WillBe("o", u, u \in net.op)' /\ ~WillBe("o", u, u \in net.op) => GivenOp(u)]_vars

Stuck == chan.queue # <<>> /\ ~flushes

\* A change that is queued has its flush in EventList: only deop, returning at
\* a network service in its list, leaves changes that no timer sends.
Scheduled ==
  [][Stuck' => Stuck \/ \E list \in Lists : UpToService(list) # list /\ Deop(list)]_vars

\* A deop command that was carried out leaves none of its targets that
\* are on the channel op.
\* XHELP/OP: "op and deop respectively give and remove channel operator
\* priviledges to the specified users."
DeopWorks ==
  [][\A list \in Lists :
       Deop(list) /\ Heard /\ Heard' =>
         \A u \in ToSet(UpToService(list)) \cap chan.users : ~WillBe("o", u, u \in net.op)']_vars
=============================================================================
