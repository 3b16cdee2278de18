# Undernet channel service (cservice-p10): a verification project

The channel service ("X") is one single-threaded C process that speaks the P10
server protocol to an IRC uplink. It keeps a picture of the network, holds ops
in registered channels, and lets channel managers log in and change the
access lists, the bans and the modes of their channels. This directory models
the program in TLA+, checks the models with TLC and proves some of their
invariants with TLAPS. Source paths are relative to `src/Sources/`.

## 1. The system

Everything happens in `select_loop` (connect.c): a turn of the loop finishes the
database queries whose file was closed, waits in `select`, feeds input to
`proc` (main.c), lets each readable query read records, runs the timed
events that are due, and does one slice of a running database pass. Handlers run to
completion; what interleaves are the *turns*: commands, network events, steps of
queries, slices of the pass, timer events, and the death of the process.

| Component | Sources | State | Operations | What is hard | What makes it correct |
|---|---|---|---|---|---|
| Access record database | userlist.c, dbio.c, struct.h | `UserList` (hash table of `RegUser`), the login lists `luser->valchan`, one file per channel, `DBQuery`, `DB_Save_Status` | validate, deauth, adduser, remuser, modinfo, newpass, suspend, register, purge, query steps, write-back pass, eviction, quit, restart | a query spans many turns; its callback works on state read turns ago; records are shared between logins, commands, queries and the pass | a record is never freed while a login points at it; the cache (memory + file + eviction) behaves as one list; changes reach the file |
| Users and servers | users.c, servers.c | `Lusers`, the numeric table, the server tree | onnick, onquit, onkill, onserver, onsquit, QuitAll | a quit while requests of the client are pending; net splits | nobody refers to a client that left |
| Channels and membership | channels.c, list.c | `ChanList`, `chan->users`, `luser->channel` | onburst, onjoin, onpart, onkick, join, part, NewChannel, DelChannel | the two lists of a membership; freeing a channel under a caller | each membership is in both lists; a channel exists iff someone or the service is on it |
| Modes and the mode queue | modes.c | `chan->AmChanOp`, mode words, `user->chanop`, `chan->modebuff`, `chan->bans` | changemode, flushmode, clearmode, bounce, ModeChange, onclearmode, onop, ondeop, AddBan, RemBan | a change is believed before it is sent; changes that wait against what the network did meanwhile | what the service believes is what the network has or will have once the queue is sent; a queue that is not empty has a flush scheduled |
| Op commands, bans and kicks | ops.c, bans.c, kicks.c | none of their own | op, deop, massdeop, ban, mban, unban, kick | early returns between the queueing and its flush; belief changed or not with the queue | under NOOP nobody is opped, whatever the route; belief and queue go together |
| Ban list of the service | shitlist.c | `ShitList[1000]`, the file, one event per ban | AddToShitList, RemShitList, IsShit, CleanShitList, SaveShitList, LoadShitList | the event of a first term against a ban that was renewed; entries found by first match; a save that fails | one entry per mask; gone after its end, not before; floods escalate |
| Buffers | buffer.c, socketio.c | chains of blocks, the free list | copy_to_buffer, copy_from_buffer, look_in_buffer, zap, find/skip | a full block, an empty block, the end mark | first in, first out; no block lost or shared |
| Timed events | events.c | `EventList`, in order of time | AddEvent, CheckEvent, InitEvent | handlers that add events to the list they are run from; nothing ever removes one | due events run, in order; periodic ones are re-armed |
| Flood protection, ignores | floodpro.c, ignore.c | counters per client, `IgnoreList`, silences on the network | CheckFlood, CheckPrivateFlood, AddIgnore, CleanIgnores, AdminRemoveIgnore | a site ignored next to its clients, for another time; one clean for all entries | flooders are ignored, and only for a while; the network silences whom the service ignores |
| Channel defaults | defchan.c | `DefList` | LoadDefs, SaveDefs, AddChan, RemChan | file against memory | the saved list is the list |
| Main loop, life cycle | main.c, connect.c | the server connection, send queue | quit, restart, signals, reconnection | stopping in the middle of things | what must be saved is saved |
| Nick service | nickserv.c | its own files | compiled in only with NICKSERV | | |
| Front ends, text | privmsg.c, http.c, chat.c, replies.c, help.c | | dispatch and output | | |
| Off-line tools | fixdb.c, showdb.c, ... | files | run by hand | | |

How they interact: `proc` calls the handlers of users.c and channels.c; these
ask the database (`try_find` on a join, `LAccess` in every command) and queue
modes; events call back into all of them; the database's callbacks answer
through the send queue (a buffer) and use the client table to find who asked.

The behaviours the properties are for are listed, each at its line, under
`hazards` in PROJECT.json.

## 2. Modules

| Module | What it is |
|---|---|
| `UserDB` | the access record database, one action per operation |
| `AccessBook` | the abstract specification `UserDB` implements: a list with at most one entry per nick |
| `MC_UserDB` | small instances for TLC |
| `Channels` | channels, members, clients, servers and default channels, one action per handler, command and timer |
| `ChannelNet` | `Channels` joined to the network through two message pipes |
| `MC_Channels` | small instances for TLC |
| `ModeQueue` | ops, modes and bans of one channel: the queue of changes, the handlers that hear of changes, the op and ban commands, how the service gets its own op; `net` is the channel as the network has it |
| `MC_ModeQueue` | a small channel for TLC |
| `EventList` | the list of timed events and the clock |
| `Masks` | addresses, the masks made of them, and the two ways the code matches them |
| `ShitList` | the ban list of the service over `EventList` |
| `Ignores` | ignores and silences over `EventList` |
| `Timers` | `ShitList` and `Ignores` on their common list, with restarts and crashes; the properties of the three |
| `MC_Timers` | a small instance for TLC |
| `ShitList_proofs` | what the walks over the ban list return, keep and find: lemmas |
| `Timers_proofs` | the list of events, the bans and the ignores that wait in it: the inductive invariants are proved |
| `ChannelNet_proofs` | `ChannelNet` implements `Channels`; service and network agree once the pipes are empty, no client is twice on a channel, none is kept empty: proved |
| `ModeQueue_proofs` | what `flushmode` writes is what waited; types, ops, NOOP, bans, mode words and the scheduling of the flush: proved |
| `Channels_proofs` | the two lists of memberships and the tree of servers: the inductive invariant is proved |
| `UserDB_proofs` | lemmas on cells, lists, counts, slots, loading and writing; the inductive invariant is proved: one lemma per operation, then `Invariance` |
| `Cache_proofs` | how a record in memory and its slot are related: `SlotOwner` and `CleanIsSaved` are proved |
| `Book_proofs` | what this means for a channel's access list: `CacheInvisible` and `UniqueNick` are proved, and that `UserDB` implements `AccessBook` |

### UserDB against the code

*State.* `regs` are the `RegUser` cells by address: `NULL` is free memory,
`listed` says the cell is linked in `UserList`, `next` is the set of the cells that
come after it in its list (so `First(f, M)` is the cell of M a scan meets
first, and order matters only where the code's scan makes it matter).
`vals` are the `avalchan` cells of the clients' login lists in the same way.
`disk[c]` is the channel's file, a sequence of slots; a slot whose access is 0 is
`NULL`; the file does not exist when `disk[c]` is `NULL`. `query` is `DBQuery`:
`pos` is the file position, `open` is `fd >= 0`, `reg` is the record `hook2`
carries for adduser, `kept` is the content of a file that was unlinked while the
query has it open. `saving` is `DB_Save_Status`; `sync` and `cursor` say that a
pass over the records in `cursor` is under way.

*Actions.* `validate`, `DeAuth`, `try_find`, `AddUser`, `RemoveUser`, `suspend`,
`ModUserInfo`, `ChPass`, `purge`, `RegChan`, `onnick`, `onquit`, `SaveUserList`,
`do_cold_sync_slice`, `quit`, `restart` are the functions of that name.
`read_db` is one record read by a query, with the callback it makes;
`end_db_read` is the last callback of a closed query. `SyncOne` is one round of
the loop in `do_cold_sync[_slice]`: the record is saved by `cold_save_one` when
dirty and freed when idle. A pass is cut in steps only so that the process can
die between two of them (`Crash`); every other action is guarded by
`sync = "idle"`, because the code runs the whole slice in one turn.

*Abstractions.*
- Strings are members of small sets; `match` and `compare` are what they answer
  on them. A target is either a nick or a mask, as `strchr(.., '!')` tells.
- `lastused` and `CACHE_TIMEOUT`: an idle record may or may not have expired
  when the pass meets it. Suspension times: suspended or not, and all
  suspensions run out together in `SuspensionsExpire`, at any time.
- The code reads up to ten records per call of `read_db`; the model one per
  step, which gives more interleavings.
- The admin list `*` is the master record only; its file is not modelled.
- `found` (the code's `count > 0`) is kept for adduser only, the one callback that acts
  on it; the others only word their answer by it.
- Commands are sent on registered channels. Signals arrive between turns.
- Not modelled: `showaccess` and `verify` (read only), flags other than the
  suspension and the opping they cause, `CheckAdduserFlood`, torn or failing
  writes, `fix_db`, the `db_sync` machinery (used by a DEBUG command), logins
  through the web and chat front ends.

*Bounds* (named constants) of `UserDB`: `Regs`, `Vals`, `Qids` (memory cells and queries at
the same time: an operation that finds no free cell does not happen), `Tries`,
`GrantLevels`, `Fields`, `Durations`, `Purgeable`, `MayStop`, `MaxEntries`. No
counter is left unbounded.

### Channels against the code

*State.* `chan` is the `achannel` at each address (`NULL`: free memory); `members[c][u]`
is the number of `auser` nodes client u has on the list of cell c, and `channel[u][c]`
the number of `achannelnode`s that point from u to c. They are two variables because
they are two lists in the code: `JoinUser` puts a node on each without
looking, and `onpart`, `DelChannel`, `onquit` and `QuitAll` take nodes off. `server` is
`luser->server` (`NULL`: not in `Lusers`), `path[s]` the servers from s up to the root
of `ServerList` (`{}`: not in the tree), `defs` is `DefChanList`, `file` the
saved channel list. `sent` is what the last turn wrote to the send queue about
who is on which channel.

*Actions* have the names of the functions. `onuplink` and `onserver` are the two uses
of `onserver` (SERVER of the uplink, S of the others); `onjoin0` is the "join 0" of
`onjoin`; `reconnect` is `QuitAll`, `connection` and `regist`; `quit` and `Die` end in a new
process, after `SaveDefs` (quit, restart, the signals) or without it (`exit`).
`AutoKick` is the end of `JoinUser`. A kick by the service leaves its own lists
alone (the `onpart` in kicks.c is commented out): the client becomes a zombie
that its own server takes off with L.

*Undefined behaviour.* `CheckIdleChannels` passes `chan->name` to `RemChan` after `part`
freed `chan`, which it does when the service was alone there. The model lets the default
go or stay for such channels; that the process may die instead is `Die` or `quit`.

*Abstractions.* Modes, ops and bans are `ModeQueue`'s, topics and time stamps are left out, so a kick
needs no `AmChanOp` here. Long names, several channels in one message and messages that
cannot be parsed are left out: a list of channels is several messages. Clients with a '+' nick (the virtual server) are
not modelled, nor the options compiled out (`ALLOW_PAL` is defined, FAKE_UWORLD, BACKUP and NICKSERV are not).

*ChannelNet.* The network is external: `net`, `home`, `leaves` and `zombies` are what the uplink
knows, and its actions are the messages it may send. Both pipes keep order; what they
carry crosses. `proc` picks the handler. When the connection breaks the service may still read
what had arrived, and what it had sent is gone. It bursts anew on `Reconnect`, which
empties both pipes (`zap_buffer` in `connection`).

*Bounds*: `Cells`, `MaxNodes` (a client that joins a channel oftener than that
does not happen; `channelnet` shows that it never does), `MaxIn` and `MaxOut` (messages on
their way in each direction before the network, or the service, waits).

### ModeQueue against the code

*State.* `chan` is one `achannel`: `on`, `amOp` (`AmChanOp`), `users` and those of them with
`chanop` set, `queue` (`modebuff`, in order), `bans`, `mode` (the letters of the mode string, in order), `flags`
(`CFL_NOOP`, `CFL_ALWAYSOP`, `CFL_STRICTOP`); `out` is what the handler writes, and is
empty between handlers. `flushes` and `getops` say whether an EVENT_FLUSHMODEBUFF or EVENT_GETOPS of the channel is
pending; several may be, so one that goes off leaves them as they were or not. `net` is
external: who is op, which bans and modes are set.

*Actions.* A command, message or timer is one action that runs `changemode`, `flushmode`, `mban`,
`unban`, `massdeop`, `GetOps` and so on as operators on `chan`, and then `Turn` gives the lines written
to the network. `FlushMode` is the two passes of `flushmode`: first what goes out as the
server, then what goes out as the client, which is dropped when the service is not op. `LinesOf`
cuts a pass into lines of at most `MaxArgs` arguments and leaves out repeated signs; `ReadLine` is how
a server reads such a line. `Only` is the loop of `RemFlag` over the letters. `OnMode`, `OnServerMode` and `OnClearMode` are M of a client,
of a server, and CM. `ClientJoins` stands for a burst, J, C and the rest of `JoinUser`.

*Abstractions.* Messages do not cross: a handler sees the network as the message left it (who is
where while messages cross is `ChannelNet`'s question). What `IsShit` answers is an
input of the handlers that ask (`shit`), as is whether `CheckFlood` punishes the source (`bitten`).
A client's mask stands for it, so a ban concerns one client. The walk of `changemode` goes on from the cell it
has just freed; the model takes the cell's `next` to be intact, as the memory is not used
again in between. Left out: voices, time stamps and the modes `bounce` takes back after a burst, topics.

### EventList, ShitList, Ignores and Timers against the code

*State.* `events` is `EventList`; `checking` is TRUE while `CheckEvent` is in its loop, one event
per step, when no handler runs and only a crash can intervene; `now` is read once per turn.
`shitlist` is one bucket of `ShitList`, newest first; `Channels` are channels whose names share
`sl_hash`, as `CleanShitList` walks bucket-mates too. `disk` is the file, `chans` the channels that have an `achannel`. `loaded`
is history: bans read from the file have no event of their own in the new process. `ignores` is `IgnoreList`, newest first; `silences` are the masks
`add_silence` and `rem_silence` told the network to silence, whoever they are for.

*Masks.* An address and a mask are a user, a network and a node of it, since that is where `MakeBanMask`,
`match` and `compare` cut them. `MakeBanMask` makes three kinds of masks: `user@*.network`
of a named or IPv4 host, `user@groups::/64` of an IPv6 one (`Long`), `*@hiddenhost` of a client that is registered and +x
(`Hidden`). `Groups` are the first groups of the address as `strtok` finds them: of a shortened address
(`2001:db8:1::5`) they are not its network. `Match` is `match`, which reads `::/64` as a wildcard; `Alike` and `Compare` are `compare`, which does
not. `AddToShitList` takes the made mask of a nick (`Pattern`) and raises the first ban *that mask* is within (`Fits`, shitlist.c:241);
`IsShit` looks for the first ban the *address* is within, real or shown (`FindShit`, shitlist.c:529); unban of a nick for one the shown address is within
(`Meant`); `IsIgnored` compares both addresses with what is ignored. These are four different lookups, and the properties below
are about whether they mean the same entry.

*Actions.* `AddToShitList`, `RemShitList`, `CleanCommand`, `LoadCommand`, `SaveCommand` are the commands;
`CheckFlood` and `MassDeop` are the bans the service adds by itself when a limit is
reached. `Added` is the end of `AddToShitList`: the event, then `CleanShitList` at once. `SaveEvent`,
`CleanEvent` and `IgnoreEvent` are the cases of `CheckEvent`. `AddIgnore` puts the client in front of the list, and its
site before it once the site is crowded, each with its silence and event; `SilenceAgain` is what `IsIgnored` does for a message
of a client it finds. A save that fails at any point leaves the
file as it was, since the new file is renamed only at its end.

*Abstractions.* Of masks are left out: the nick (every mask that is made leaves it open), the `*` put before a user and its
trimming, wildcards inside a part, hosts of so few labels that their mask names the node, the user `^wld`. Who is +x and registered
stays so during a run. That a save which fails leaves the old file holds by how `SaveShitList` is modelled. The counters
of floods and of deops are left out: a limit may be reached at any time. Time is counted in a unit for which the
durations of the instance are small numbers. What a ban does on its channel is `ModeQueue`'s.

*Undefined behaviour.* `AddToShitList` words an answer in `chan->lang` when the nick is that of a network service, and
`chan` is set only for commands: such calls of the service itself do not happen in the
model, or end in `Crash`.

*Bounds* of both: `MaxMembers`, `MaxLine`, `Letters`, `Settable`, `Bannable`, `Deopable`, `Levels`; `Horizon`, `MaxEvents`, `MaxBans`, `Hours`,
`Accesses`, `Typed`, `Flooders`, `Deopers`. In `Timers` a command waits while the list holds `MaxEvents`;
events themselves never do, so they are not held up by a bound.

## 3. What is checked

| Run | Instance | Properties | What it shows |
|---|---|---|---|
| `userdb_two_queries` | 1 client, 1 channel, 2 queries at once, 2 logins, 2 records besides the master's | `TypeOK`, `RefCount`, `NoDangling`, `HookOwned` | with two queries, commands, passes, crashes and restarts interleaved, counts and pointers stay right |
| `userdb_purge` | 1 client, 1 query, purge and register | `IInv` | the same for purged channels, and the invariant the proofs use |
| `userdb_serial` | 2 clients, 2 nicks, 1 query at a time, no purge, no stop | `UniqueNick`, `SlotOwner`, `CleanIsSaved`, `ImplementsBook`, `CacheInvisible` | memory, file and eviction together are one access list; writing back, evicting, quitting and logging in or out leave that list as it is (`AccessBook` alone would allow an addition at any step) |
| `userdb_live` | 1 client, 2 buckets, restarts and crashes | `QueryEnds`, `ChangeIsSaved` | every query is answered, every change is written unless given up |
| `channels_lists` | 2 clients, 3 servers, 2 names, 2 cells, at most 2 nodes of a client on a channel | `TypeOK`, `Mirror`, `NoStray`, `OneCell`, `Attached` | in whatever order handlers, commands and timers run, the two lists are one set of memberships and nothing points to freed memory |
| `channelnet` | 2 clients, uplink and one more server, 1 channel, 2 messages each way | `Agreement`, `Understood`, `NoDouble`, `NoAbandoned` | joins, parts, kicks, splits, lost connections and restarts may cross: once the pipes are empty, the service knows who is where and is where it believes to be |
| `modequeue` | 2 clients and a network service, one channel, NOOP and STRICTOP set and reset, a key, lines of 2 arguments | `TypeOK`, `OnlyOpsWait`, `OpsAgree`, `ModesAgree`, `BansAgree`, `Scheduled`, `NoOpHolds` | the service's picture of ops, modes and bans is the network's once the queue is sent, except along the ways the properties name; what waits between handlers is only ops and deops, and it is sent; NOOP holds on every route |
| `timers` | 3 clients: alice at an IPv4 host, carol at an IPv6 one whose address is shortened, hal at alice's network behind a hidden host; one channel, alice's nick and a ban of her very address typed, clock 0..2, 2 bans, commands while at most 3 events wait | `TypeOK`, `Ordered`, `IgnoreScheduled`, `BanScheduled`, `BanOnce`, `SilencesAgree`, `SaveArmed`, `OnlyExpiredGo`, `Escalates`, `ExpiredGo` | through renewals, floods, saves, loads, restarts and crashes, each entry has its event and its silence, floods escalate, what has run out goes and nothing goes before |
| `modequeue_deop` (violation) | 1 client | `DeopWorks` | a deop does nothing about an op that still waits in the queue |
| `userdb_newpass` (violation) | 1 client | `PasswordSurvives` | a changed password is lost on eviction |
| `userdb_restart` (violation) | 1 client | `RestartSaves` | a restart loses what was not written |
| `userdb_adduser_race` (violation) | 2 queries | `UniqueNick` | two overlapping adduser commands for one nick both succeed |

Why the bounds are enough to meet the hard cases: two queries can hold two
pending records or race for one slot; two logins can share one record, belong to one
client or to two; with two records besides the master's one can be removed or evicted
while the other takes its slot; a file with an owner and a second entry has
slots that are freed and used again; one bucket holds all records, so that passes meet
several of them, two buckets let a record be marked behind the pass.
`userdb_serial` has one query because with two `UniqueNick` fails, which is
the third violation; it has no purge because a query that still reads the
unlinked file brings the purged channel's records back, and no stops because a
restart loses changes (the second violation). These are the limits of
the promise, so the run says exactly under which conditions the cache is
invisible. Heap cells of the same kind are interchangeable: `Alike` is used
as symmetry in the runs that check safety only.

In `channels_lists` three servers make a server behind one that splits; two cells and two
names make a freed cell be used again for another channel; two nodes let a client be on a
list twice, which the handlers alone do not exclude. In `channelnet` two clients are
enough for the last one out and one who stays, the second server for splits, and two messages
each way for the service's join, part, kick and burst to cross a kick of itself, the return
of a kicked client, or a split. `Understood` says that the error paths of the
handlers (unknown client, unknown server) are never taken.

In `modequeue` two clients let one act on the other and leave and come back while a change of it
waits; the service in a list makes `deop` return early; lines of two arguments are cut by three
changes; a ban level of 20 forbids op, of 75 the channel. One change per message is enough to have
several queued, since handlers add to the queue without sending it. The properties are
about steps: a belief that is wrong once stays wrong, so what matters is which step makes it wrong.
`OpsAgree` names these: a deop by a server (modes.c:644 returns), word about a client while an older change
of it waits, the nick flood's `ban` (bans.c:103 leaves `chanop`), and losing the op with changes queued (flushmode drops them).
The message it blames is one that speaks of the client (`Tells`), however many other changes the message has.
`ModesAgree` excuses one thing: a limit of the default list, which `bounce` does not send (modes.c:212) though the new channel is believed
to have it. `OnlyOpsWait` is why bans and modes are never undone by an old change: none of theirs survives the handler that asked for it.
`ModesOK` asks of the constants that the words of a message (a client, the service, the key, a low limit, none) can be told apart, that the
clients are finitely many, and that the default modes name no mode twice, as `AddFlag` never puts one in a second time.
In `timers` a clock of three values is enough for a ban to be renewed before, at and after its end, with a
save between any two steps; a second channel, or one more tick, leads beyond ten million states. Two bans are enough for one to stand
before another, three clients for each kind of mask, and for two of one network. The one level asked for, 50, is
between those flood protection gives. `ExpiredGo` is one leads-to: at some later point nothing that has run out is left.

Two of its properties name what the code does not give. `SilencesAgree`: a mask that is ignored is silenced, and ignored once, so that no end of an entry takes a
silence another needs; but for `::/64` masks, as `IsIgnored` does not find their clients and they are listed again. `Escalates`: a flood
leaves the client at five levels more than it had, or banned, though the ban that is raised and the ban that counts are looked up in different ways; it
excepts a ban in front that the address is within and the made mask is not, and a client whose made mask is
not its own, which a shortened IPv6 address may have: the ban is raised or listed and never found. Each exception is needed in the instance. `OnlyExpiredGo` is
about `CheckEvent` in memory; it says nothing of the file.

In `modequeue` the others set and reset ops and bans only (the letters k, l, i change by `bounce` and `clearmode` there); the theorem
`ModesAgreeCorrect` has no such limit.
`NoOpHolds` looks at whoever is on the channel after a step, a client that has just joined included, so it covers the automatic op of
`JoinUser` (channels.c:1069) as well as a command, a login and an op by a client. `GivenOp` names what may give op under NOOP: a server, a network
service, and a client that comes as op in a burst. A client whose op was asked for before NOOP was set, and still waits, is not made op by
the step.

`CHECK_DEADLOCK FALSE`: with small heaps, the system may have nothing to do but wait for
clients.

*Fairness* (`FairSpec`): the main loop always comes round. Each query is served
in every turn in which its file is readable, which a regular file always is;
but while a pass runs no query does, so the query's step is enabled again
and again rather than for ever: strong fairness (`QueryStep`, `SaveSlice`,
`SaveTimer`; the timer is EVENT_SYNCDB, re-armed by its own handler). A pass that has
begun goes on to its end unless the process dies: weak fairness (`SyncOne`, `Exit`).
`Timers` assumes weak fairness of `CheckEvent`, which connect.c:457 calls on
every turn when its head is due. Nothing is assumed of clients, and nothing of restarts and crashes; they may
happen for ever or never.

*The four disagreements.*
1. `ChPass` (userlist.c:2324) does not set `modified`. The password is changed in
   memory; when the record was clean and the client deauths, the pass frees the
   record without writing it, and the old password opens it again. The answer is
   "Password changed!".
2. `restart` (main.c:456) calls `SaveUserList` to "save necessary data...", which
   only sets `DB_Save_Status`; the process then execs. `quit` does call
   `do_cold_sync`.
3. `AddUser` (userlist.c:837) checks memory at the command and the file in the
   query; the record is listed when the query ends. Two overlapping commands see
   neither each other's record in memory nor on disk.
4. `deop` (ops.c:242) queues -o only for clients whose `chanop` is set. A client that was opped by
   command, left and came back before the queue was sent has a new membership without `chanop`, and
   `deop` passes it over; nothing took the +o out of the queue, which is then sent.

*Two lookups that miss.* The exceptions of `SilencesAgree` and `Escalates` come from these; the models have both.
`IsIgnored` (ignore.c:265) uses `compare`, which reads the `::/64` that `MakeBanMask` writes (bans.c:412) letter by letter, where `match`
knows it. An IPv6 client that is ignored is not found: messages of its that still arrive are served, and a second flood lists and silences the
mask again. The end of the first entry lifts the silence while the second entry stands.
Flood protection (shitlist.c:241) looks for the ban of a client by the mask made of it. That mask is not within a ban of the client's very address,
so a new ban is put in front, and `IsShit` (shitlist.c:529) finds that one first: a client banned at level 50 by its address that deops many
is then under a ban of level 20. `Escalates` does not speak of that: it is about floods, which raise the level that is found.

## 4. What is proved

`UserDB_proofs` proves `Invariance == Spec => []IInv` for every value of the
constants that satisfies `ConstantsOK`, `FilesOK` and `NullOK` (the service's own strings are no
nicks or masks of others, files hold slots, the table has at least one bucket, the set of login
cells is finite). From it follow
`TypeCorrect`, `RefCountCorrect` (`inuse` is the number of logins through a
record), `NeverDangling` (no login points to a freed or unlisted record) and
`HookNeverShared` (the record of a pending adduser belongs to that query alone
and is not lost).

*The argument.* `RefCount /\ NoDangling /\ HookOwned` is not inductive.
Three facts are added: `RecordsOK` (a record is the master's or fits a slot or is
deleted: otherwise writing it could break the file's type, and the master could
be evicted), `QueriesOK` (an adduser query that found its nick is closed: otherwise it
could free its record a second time; an open query has a file), and `CursorOK` (a
pass meets listed records only and nothing unlists one under it: otherwise it
could free a record twice). For the proof `IInv` is cut in `Good(regs, vals, query,
disk)` and the rest (clients and the pass), so that an operation is one lemma about the four
heaps it changes (`AddUserStep`, `OnQuitStep`, `ReadStep`, `SyncOneStep`,
...). These rest on lemmas for the primitives in the first half of the module: allocate, insert,
free, log in, log out, load a slot, change fields that no other part looks at.
`NextIInv` has one step per action; the temporal step is PTL.

`Cache_proofs` proves `CacheInvariance == Spec => []CacheInv` on top of `IInv`, for every channel outside `Purgeable`, whatever
purges there are of others, however many queries, restarts and crashes. `CacheInv` says how a record in memory and its slot are
related (`CellOK`): a record that has a slot stands for a slot in use, under the record's nick unless it was deleted meanwhile; one
that is not marked says what its slot says, and a deleted one that is not marked has no slot. No two records stand for one
slot (`OwnSlots`), a record still held by its adduser query has none, the file of such a channel is never unlinked under a query, and
what a running pass has come by is not marked (`PassOK`: it is why `quit` loses nothing). `SlotOwnerCorrect` and
`CleanIsSavedCorrect` follow when no channel may be purged (`NoPurge`): a purge unlinks the file, and a query that still has it open loads
its records again. A step changes the heap in one of six ways (`SameHeap`, `EditHeap`, `LoadHeap`, `NewHeap`, `ListHeap`, `FreeHeap`, and
`SavedHeap` for the pass); each operation is shown to be one or two of them (the `...Shape` lemmas), each way to keep `CacheInv`, so the
book proofs below argue about the ways and not about the operations again.

`Book_proofs` has three results about a channel's access list, each with the conditions it needs as a named hypothesis. `CacheInvisibleCorrect` needs
`Undisturbed` (no purge, no restart or crash) and allows any number of queries: `CacheInv` is enough to see that loading, saving, evicting
and ending the process leave `BookOf` as it is, since the record and the slot that change places hold the same entry. `UniqueNickCorrect`
needs `Serial`: also one query at a time, and files that hold a nick once at the start. All three conditions are needed: two adduser queries that overlap add a nick twice (the run
`userdb_adduser_race`); after a crash in the middle of a pass a nick that was removed and added again may be in two slots, its new one written and
its old one not yet freed; a purge leaves a query with records that are no longer there. `UniqueNick` is not inductive. `NickInv` adds what the files hold:
a nick is in two slots only while a pass runs that has written the new record and not yet come to the deleted one (`NickAt`; that
the pass still has to come to it is `PassOK`, since a deleted record keeps its slot only while it is marked), and the record adduser's query holds has a
nick that is in no record of the table and in no slot the query has passed (`AddFits`), so listing it at the end of the file, or when the nick is found
in a slot whose record gave it up, makes no second one. `ImplementsBookCorrect`, that `UserDB` implements `AccessBook`, rests on the same invariant: an edit replaces
one entry only if no other entry, in memory or in the file, is equal to it but for the field that changes, and a nick filed once excludes that
(`EditBook`); a record given to the table is an `Add` because of `AddFits` (`ListBook`); a record whose level `modinfo` set to 0 keeps its nick until
a pass meets it, and raising it again is an `Add` too. It also needs the levels in the initial files to be those commands give, or the owner's
(`FilesLevels`): `AccessBook` has no other entries. `userdb_serial` is an instance of all these hypotheses.

`Channels_proofs` proves `ChannelsInvariance == Spec => []IInv` for any clients, servers, names
and cells, assuming only that `NULL` is no server and no channel. `MirrorCorrect`,
`NoStrayCorrect`, `OneCellCorrect`, `AttachedCorrect` and `ChannelsTypeCorrect` are its parts.
None of them is inductive alone: `NoStray` needs `Mirror` (a channel is freed when *its*
list is empty, and it is the *clients'* lists that must not point to it), `Mirror` needs
`Attached` when a connection is lost (`DelChannel` empties all channels' lists, but only
clients below the uplink are taken off theirs), and `Attached` needs to know that
`path` is closed under going up. The invariant is cut in what the lists need (`HeapOK`), what the
tree needs (`TreeOK`) and what ties them (`GoneOK`), with one lemma per operation on lists
(`JoinStep`, `PartAllStep`, `PartStep`, `LeaveStep`, `QuitStep`, `SendBurstStep`) and one per action.

`ChannelNet_proofs` proves `ImplementsChannels == NetSpec => Spec`: the composition takes only steps of `Channels`
or leaves its variables alone, for any finite network and pipes of any length (`MaxIn` and `MaxOut` are any numbers).
The step that needs an argument is `Receive`: the message at the head of the pipe must name a server, a client and a
channel the handler is defined for. `PipesOK` says so of all that crosses: what the network tells is typed, the uplink's
burst too (`BurstTyped`, which needs the sets to be finite for `SetToSeq` to have a value), and without a connection
nothing of the service is left on the way and it is on no channel, so that it never comes back in a burst as a client.
`PipesOK` needs what the handlers write (`sent`) to be typed, which is part of `IInv`, and `IInv` needs the step to be one
of `Channels`, which needs `PipesOK`: the two are proved together as `NetInv` (`NetInvariance`). `NetListsCorrect` is the
consequence for the lists. That a handler is *enabled* for its message stays with TLC (`Understood`).

The second half of `ChannelNet_proofs` proves `PictureInvariance == NetSpec => []PictureInv` and from it `AgreementCorrect`, `NoDoubleCorrect` and
`NoAbandonedCorrect`, for any finite network and pipes of any length. The promise is about empty pipes; what holds always is about
what is in them. `Story`: the messages on their way to the service, read one by one, turn its picture of the network (`server`, and
`Shown`, the members of each channel) into the network as it is, but for zombies, and none of them tells of something twice. It is
stated by a `Tale`, the pictures before and after every message, each one `Turns` into the next; so a message that is told is a
tale that is longer at its end (`LeadsOn`), a message that is read one that is shorter at its beginning (`LeadsTail`), and the
burst one from nothing to the network (`BurstTold`, where `SetToSeq` must list all that is to be told, and each once). What a
handler does to the picture is what its message means (`ReceiveTurn`): here `NoDouble` is needed, because `onpart` takes one
node off, and is kept, because the tale tells of no client that is there already. `Flat` says that only the uplink has servers
behind it, so that a split takes the clients of one server. When the connection is lost the story may end anywhere: it is only
required to match the network while there is a link. `Presence` is the other direction: the last of the service's messages
that speaks of a channel (`Ends`) decides where the network will see it, and that is where the service believes to be, but for kicks
of the service still on their way to it. Every turn changes this belief only as it says (`Truthful`). `NoAbandoned` rests on the
same invariant: a handler makes a channel only for clients that are then on it.

`Timers_proofs` proves `TimersInvariance == Spec => []TInv` for any channels, clients, masks, durations and
bounds. `OrderedCorrect`, `SaveArmedCorrect`, `IgnoreScheduledCorrect` and `SilencesAgreeCorrect` are its parts.
`TInv` is `ListOK` (events are of their type, in order, and one of them is the save), `Scheduled` (each ignore has its
event) and `Silenced`: `SilencesAgree`, and that every ignored mask is one made of a client or the site of one (`Known`). `IgnoreScheduled` is kept by `IgnoreEvent` because the event taken is due and
`CleanIgnores` drops all that has run out: what stays has a later event, so not the one taken. It needs to know that `AddEvent` loses nothing, which is a fact about
`Walk`, a CHOOSE that has a value only if the list's times are comparable (`ListOK`). `SilencesAgree` is two facts that need each other: a silence
taken off with one entry is not another's because masks are ignored once, and they are because `IsIgnored` would find a
client under its own mask and under its site's, unless they are `::/64` masks (`OwnIsKnown`). It needs `Known` for hidden clients, whose mask is
that of their site: were their site crowded, the mask would be listed twice in one call, but a mask that names their host is this
mask, so they would have been found (`NodeIsHidden`).
The core are the lemmas on the list: the walk of `AddEvent` stops (`Least`, `WalkStops`), what it inserts keeps every other event and the order
(`AddKeeps`), and taking the head loses only that (`TailKeeps`).

`BansInvariance == Spec => [](TInv /\ BInv)` adds the ban list; `BanScheduledCorrect`, `BanOnceCorrect` and `TimersTypeCorrect`
are its parts, `OnlyExpiredGoCorrect` and `EscalatesCorrect` are about its steps. `BInv` says that the bucket *and the file* are each
a list of bans with a level, no mask twice for a channel (`Bucket`), and that each ban in memory has its event or was read from the file.
It needs the file, because a restart turns the file into the bucket; it needs the level, because `CleanShitList` drops a ban
without one before its end, which `OnlyExpiredGo` would notice. `BanScheduled` is kept by `CleanEvent` for a reason
like that of the ignores: the event that goes is due, so a ban that had just this event is over, and of this event's channel, and goes
with it. `RemShitList` changes the end of a ban and schedules nothing: the clean that follows takes just that ban.
`Escalates` is about order and about two lookups: the ban raised, or put in front, is the first the made mask is within, before it none is, and what the clean leaves is in the same order.
The client's address is within it, as the address is within the mask and the mask within the ban (`MatchOn`), so what `IsShit` finds is this ban or one
before it that the mask is not within (`AddedHolds`).
The lemmas of `ShitList_proofs` say what a walk finds (`FirstFit`), what `Kept` keeps, in which order and from which places (`KeptShape`),
and what comes of a list that is cleaned, loaded or added to (`CleanKeeps`, `LoadBucket`, `ListedShape`). `Kept` is a recursive function;
what it computes is proved by a least place at which it would be wrong (`Least`), since the prover cannot instantiate the induction theorems.

`ModeQueue_proofs` is about the queue. `LinesAreRead`: whatever waits, the lines `flushmode` writes are read by a server as just these changes, in
order, for lines of any length. A change with an argument that waits behind a `-k` without a key would be read otherwise (its argument would be taken for the key), so
the theorem asks the queue to be `Sendable`, and the invariant shows that it is. A state of the writer and one of the reader are tied by what was said so
far and the sign that is in force (`WroteIn`, `Says`); at the end of a line the next one begins with its sign.

`GoodAlways == Spec => []Good` is the inductive invariant, for any clients, levels, flags, default modes and key, and messages of any length (`MaxLine` is
any number): the structure and the network are typed, what waits is asked for as a client and is about ops of clients, no two changes of a client differ, nothing
is half written, and a channel that does not exist has no queue and no network. `TypeOKCorrect` and `OnlyOpsWaitCorrect` are its parts.
In the middle of a handler more may wait (`ChanOK(c, L)` names the letters), and each operator is shown to keep the letters it is given or to empty
the queue (`Flushed`), so that every handler that asks for a ban, a mode or a change of the server ends with a flush.

`BansAgreeCorrect` and `ModesAgreeCorrect` are about steps, with one lemma per action (`...Stays`): a belief that was right stays right if the service is op at
the end. They need `Good`: a flush enters its bans in the list and the network enters them too, but a mode or ban that waited since an earlier handler
would be sent after others had changed it. That sending makes the network what the structure says is `LinesAreRead` and what `Apply` does with changes of
one thing that agree (`Names`, `AllSign`). The limit below 2, which the service takes away while it is still reading the message, is wrong on purpose for a
while: it is followed as `Alone` (nothing was said of it) or `Cut` (the removal waits, or was written to a network that obeys).
`ScheduledCorrect` has one lemma per action too: the queue is emptied, untouched, or the flush is in `EventList` (`Settled`).

`OpsAgreeCorrect` and `NoOpHoldsCorrect` tie the op of a client in three places: in the structure (`chanop`), on the network, and in the queue that
will change the network (`WillOp`: it will be op once the queue is sent). They need one more invariant, `OpsIn`: whoever is op on the network is on the channel,
so that a message tells of the op of a client who was none and of the deop of one who was, and says one thing of each client only (`MessageOps`). Each operator is shown
to keep the op of a client (`KeepsOp`), to drop it in structure and queue (`DropsOp`), or to give it in both (`GivesOp`), whatever else it asks for.
`Spoken` says what comes of a message by what it says of a client and whether the service fights it
(`Fought`: the flags NOOP or STRICTOP, or a ban, forbid the op). What an action does to each client is then one of the four cases of
`Accounted` (one lemma `...Steady` per action), and what is not accounted for is one of the ways to be wrong that `OpsAgree` names. That an op is
given only without NOOP is a case of `Accounted` as well, from which `NoOpHolds` follows.

The handlers are folds over messages, lists of nicks and the queue. The prover cannot instantiate a theorem about a fold with its operator, so each is shown to be
`Folded`, a fold whose operator is a function and may be quantified over, and the induction is over a set of places (`Induct`, `SeqInduct`).

*Model-checked only*: `DeopWorks`, `PasswordSurvives`, `RestartSaves`, which the code violates; `Understood` (it is about ENABLED); the liveness properties
(ENABLED and fairness are beyond the prover).

## 5. Plan

1. `UserDB`, `AccessBook`: done. Left for it: failing writes and short reads, the
   flags; its safety properties are proved.
2. `Channels`, `ChannelNet`: done for membership, and proved. Left: topics and time stamps.
3. `ModeQueue`: done for ops, bans and the modes k, l, i. Left: messages that cross, as `ChannelNet` has them, time stamps
   and the bounce after a burst, voices. What is modelled is proved.
4. `EventList`, `ShitList`, `Ignores`, `Timers`: done. Left: the counters of the floods, which decide when a limit is reached.
5. `Buffer`: the block chain of buffer.c implements a bounded queue; no block
   is lost or shared. Theorem: the chains and the free list are a partition of the blocks.
6. `DefChan`: the settings kept with the default channels.

### Not modelled

- Block-chained buffers (buffer.c, socketio.c): planned above; the models take a connection as a pipe that keeps order, or that loses
  everything when it breaks.
- Text, help, web and chat front ends, configuration: they change no state the properties are about.
- The off-line tools: separate programs run by hand on the files.
- The nick service, the fake Uworld, the backup service: compiled in on demand only.
- The counters of flood protection, cryptography of passwords, torn writes: see the abstractions above.
