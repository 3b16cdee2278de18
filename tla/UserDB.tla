------------------------------- MODULE UserDB -------------------------------
(***************************************************************************)
(* The access-record database of the channel service (userlist.c, dbio.c). *)
(* Every registered channel has a file of fixed-size slots.  Records are   *)
(* copied into memory on demand by asynchronous queries, changed there,    *)
(* marked dirty, written back by a periodic pass over the hash buckets and *)
(* dropped from memory when nobody is logged in through them.              *)
(*                                                                         *)
(* A RegUser (access record) and an avalchan (a login: "this client acts   *)
(* through that record") are heap cells; NULL is a cell that is not        *)
(* allocated.  The field "next" of a cell holds the cells that come after  *)
(* it in its linked list.                                                  *)
(***************************************************************************)
EXTENDS Integers, Sequences, FiniteSets

CONSTANTS
  Regs,         \* addresses RegUser structures are allocated at (bound)
  Vals,         \* addresses avalchan structures are allocated at (bound)
  Qids,         \* addresses of outstanding database queries (bound)
  Users,        \* client numerics of the network
  Chan,         \* registered channels
  Hosts,        \* nick!user@host strings of clients
  Names,        \* nicknames access records are filed under
  Masks,        \* nick!user@host masks of records, and targets of commands
  Pws,          \* passwords of records
  Tries,        \* passwords clients log in with (bound)
  GrantLevels,  \* access levels a command may give (bound)
  Fields,       \* fields MODINFO may change (bound)
  Durations,    \* {TRUE}: suspend, {FALSE}: unsuspend (bound)
  Purgeable,    \* channels an admin may purge (bound)
  MayStop,      \* whether the process may be killed or restarted (bound)
  MaxEntries,   \* entries of one channel, at most (bound)
  InitialFiles, \* what a channel's file may hold at start
  NBuckets,     \* size of the hash table UserList
  Bucket,       \* hash of a channel name
  Star,         \* the admin channel "*"
  Master,       \* the address of the master record
  MasterHost, MasterPw,
  Server,       \* the source "" of a command issued by the service itself
  AnyHost,      \* the mask *!*@*
  Del,          \* the string !DEL!
  NoPw,         \* the empty password of records older than mandatory ones
  NULL

AllChan == Chan \cup {Star}

MASTER_ACCESS == 1000
ADD_USER_LEVEL == 400
REMOVE_USER_LEVEL == 400
MOD_USERINFO_LEVEL == 400
LEVEL_SUSPEND == 100
XADMIN_LEVEL == 750
OWNER_ACCESS == 500     \* what RegChan gives

ASSUME ConstantsOK ==
  /\ IsFiniteSet(Vals)
  /\ Master \in Regs
  /\ NULL \notin Regs \cup Vals \cup Hosts \cup Users
  /\ Star \notin Chan /\ Server \notin Users
  /\ Del \notin Names \cup Masks
  /\ AnyHost \notin Hosts \cup {Del}
  /\ Names \cap (Masks \cup Hosts) = {}
  /\ GrantLevels \subseteq 1 .. MASTER_ACCESS - 1
  /\ NBuckets \in Nat \ {0}
  /\ Bucket \in [AllChan -> 0 .. NBuckets - 1]
  /\ MasterHost \in Hosts /\ MasterPw \notin {NoPw, NULL}
  /\ NoPw \notin Pws /\ Tries \subseteq Pws \cup {NoPw, MasterPw}
  /\ Durations \subseteq BOOLEAN /\ MayStop \in BOOLEAN

Slot == [realname : Names, match : Masks, passwd : Pws \cup {NoPw},
         access : 1 .. MASTER_ACCESS - 1, suspend : BOOLEAN]

File == Seq(Slot \cup {NULL})

ASSUME FilesOK == InitialFiles \subseteq File

RegUser == [realname : Names \cup {Del, Star}, match : Masks \cup {MasterHost, Del},
            channel : AllChan, passwd : Pws \cup {NoPw, MasterPw},
            access : 0 .. MASTER_ACCESS, suspend : BOOLEAN,
            offset : Nat,          \* slot number, 0 for the code's -1
            modified : BOOLEAN, inuse : Int,
            listed : BOOLEAN, next : SUBSET Regs]

avalchan == [user : Users, name : AllChan, reg : Regs, next : SUBSET Vals]

Kinds == {"validate", "adduser", "suspend", "remuser", "modinfo"}

Query == [kind : Kinds, chan : Chan, src : Users \cup {Server},
          info : Names \cup Masks \cup Hosts, passwd : Tries \cup {NULL},
          action : 0 .. MASTER_ACCESS, on : BOOLEAN, reg : Regs \cup {NULL},
          field : Fields \cup {NULL},
          value : GrantLevels \cup {0} \cup Masks \cup Pws \cup {NULL},
          pos : Nat \ {0}, found : BOOLEAN, open : BOOLEAN,
          kept : File \cup {NULL}]  \* the file, once it is unlinked

ASSUME NullOK == NULL \notin RegUser \cup avalchan \cup Query \cup Slot \cup File

VARIABLES
  regs,     \* the RegUser cells; "listed" ones are in the table UserList
  vals,     \* the avalchan cells of all clients
  online,   \* the host of the client that holds a numeric, or NULL
  disk,     \* the slots of a channel's file, NULL for a slot not in use;
            \* NULL for a channel that has no file
  query,    \* the list DBQuery
  saving,   \* DB_Save_Status: the bucket the pass has reached, or -1
  sync,     \* "slice", "quit": a pass over cursor runs; "idle": none does
  cursor    \* the records the running pass has not come to yet

vars == <<regs, vals, online, disk, query, saving, sync, cursor>>
syncVars == <<saving, sync, cursor>>

-----------------------------------------------------------------------------
(* Linked lists of heap cells *)

Fresh(f) == {x \in DOMAIN f : f[x] = NULL}

\* Of the cells M of one list, the one a scan from the head meets first.
First(f, M) == {x \in M : M \ {x} \subseteq f[x].next}

Unlinked(f, x) ==
  [y \in DOMAIN f |->
     IF y = x \/ f[y] = NULL THEN NULL ELSE [f[y] EXCEPT !.next = @ \ {x}]]

Listed(f) == {r \in Regs : f[r] # NULL /\ f[r].listed}

Insert(f, r) == [f EXCEPT ![r].listed = TRUE, ![r].next = Listed(f)]

-----------------------------------------------------------------------------
(* Masks: match(host, mask) and compare(mask, mask) *)

Match(h, m) == m \in {h, AnyHost}
Compare(m1, m2) == Match(m1, m2) \/ m1 = AnyHost

(* Logins *)

LinksOf(g, u) == {v \in Vals : g[v] # NULL /\ g[v].user = u}
LinkTo(g, u, c) == First(g, {v \in LinksOf(g, u) : g[v].name = c})
IsValid(u, c) == {vals[v].reg : v \in LinkTo(vals, u, c)}
Refs(g, r) == {v \in Vals : g[v] # NULL /\ g[v].reg = r}

LAccess(u, c) ==
  IF \E r \in IsValid(u, c) : ~regs[r].suspend /\ regs[r].passwd # NoPw
  THEN regs[CHOOSE r \in IsValid(u, c) : TRUE].access
  ELSE 0

\* A new login at the head of u's list: the record is held and made dirty.
Held(f, r) == [f EXCEPT ![r].inuse = @ + 1, ![r].modified = TRUE]
Pushed(g, v, u, c, r) ==
  [g EXCEPT ![v] = [user |-> u, name |-> c, reg |-> r, next |-> LinksOf(g, u)]]

successful_auth(f, g, u, c, r) ==
  \E v \in Fresh(g) :
    /\ regs' = Held(f, r)
    /\ vals' = Pushed(g, v, u, c, r)

\* A mistake: the login goes, the record stays held.
Released_KeepsCount(u, c) ==
  {<<regs, IF v = NULL THEN vals ELSE Unlinked(vals, v)>> :
     v \in IF LinkTo(vals, u, c) = {} THEN {NULL} ELSE LinkTo(vals, u, c)}

\* The cells after u's first login on c, if any, has been taken off.
Released(u, c) ==
  IF LinkTo(vals, u, c) = {}
  THEN {<<regs, vals>>}
  ELSE {<<[regs EXCEPT ![vals[v].reg].inuse = @ - 1], Unlinked(vals, v)>> :
          v \in LinkTo(vals, u, c)}

-----------------------------------------------------------------------------
(* Records and slots *)

FromSlot(c, off, s) ==
  [realname |-> s.realname, match |-> s.match, channel |-> c,
   passwd |-> s.passwd, access |-> s.access, suspend |-> s.suspend,
   offset |-> off, modified |-> FALSE, inuse |-> 0,
   listed |-> FALSE, next |-> {}]

NewReg(c, n, m, pw, acc) ==
  [FromSlot(c, 0, [realname |-> n, match |-> m, passwd |-> pw,
                   access |-> acc, suspend |-> FALSE])
     EXCEPT !.modified = TRUE]

make_dbuser(reg) ==
  IF reg.access = 0 THEN NULL
  ELSE [realname |-> reg.realname, match |-> reg.match, passwd |-> reg.passwd,
        access |-> reg.access, suspend |-> reg.suspend]

MasterReg ==
  [realname |-> Star, match |-> MasterHost, channel |-> Star,
   passwd |-> MasterPw, access |-> MASTER_ACCESS, suspend |-> FALSE,
   offset |-> 0, modified |-> FALSE, inuse |-> 0, listed |-> TRUE, next |-> {}]

\* Records in memory that stand for a slot.  InMemory_Used is a mistake: idle
\* records are overlooked.
InMemory_Used(c, off) ==
  {r \in Listed(regs) : /\ regs[r].channel = c /\ regs[r].offset = off
                        /\ regs[r].inuse > 0}
InMemory(c, off) ==
  {r \in Listed(regs) : regs[r].channel = c /\ regs[r].offset = off}

\* A record of the slot already in memory is used unless it was deleted or
\* stands for another nick by now.  Current_Any is a mistake: this is not tested.
Current_Any(reg, s) == TRUE
Current(reg, s) == reg.access # 0 /\ reg.realname = s.realname

\* load_dbuser: pairs of the heap after the call and the record returned.
\* A slot that no record in memory stands for is copied.
load_dbuser(c, off, s) ==
  LET hits == InMemory(c, off)
  IN  IF hits # {}
      THEN {<<regs, IF Current(regs[r], s) THEN r ELSE NULL>> : r \in First(regs, hits)}
      ELSE {<<Insert([regs EXCEPT ![r] = FromSlot(c, off, s)], r), r>> :
              r \in Fresh(regs)}

Removed(f, r) ==
  [f EXCEPT ![r].realname = Del, ![r].match = Del, ![r].access = 0,
            ![r].modified = (f[r].offset # 0)]

\* A change of a record in memory is written back when it is marked.
\* Touched_Unmarked is a mistake: the mark is forgotten.
Touched_Unmarked(f, r) == f
Touched(f, r) == [f EXCEPT ![r].modified = TRUE]

\* do_modinfo: the heap after client u changed record r.
do_modinfo(f, u, r, field, value) ==
  LET own == {vals[v].reg : v \in LinkTo(vals, u, f[r].channel)}
      above == \E o \in own : f[r].access < f[o].access
      dirty == Touched(f, r)
  IN  CASE field = "ACCESS" /\ above /\ (\E o \in own : value < f[o].access) ->
             [dirty EXCEPT ![r].access = value]
        [] field = "MATCH" /\ above -> [dirty EXCEPT ![r].match = value]
        [] field = "PASSWORD" /\ (above \/ r \in own) ->
             [dirty EXCEPT ![r].passwd = value]
        [] field = "AUTOOP" /\ (above \/ r \in own) -> dirty
        [] OTHER -> f

Values(field) ==
  CASE field = "ACCESS" -> GrantLevels \cup {0}
    [] field = "MATCH" -> Masks
    [] field = "PASSWORD" -> Pws
    [] OTHER -> {NULL}

-----------------------------------------------------------------------------
(* Files *)

\* The first free slot of a file, the one after the last when none is free.
FirstFree(file) ==
  {k \in 1 .. Len(file) + 1 :
     /\ k = Len(file) + 1 \/ file[k] = NULL
     /\ \A j \in 1 .. k - 1 : file[j] # NULL}

Written(file, k, s) ==
  [i \in 1 .. (IF k > Len(file) THEN k ELSE Len(file)) |->
     IF i = k THEN s ELSE IF i <= Len(file) THEN file[i] ELSE NULL]

Contents(c) == IF disk[c] = NULL THEN <<>> ELSE disk[c]

\* cold_save_one(f[r]): the file is created when it does not exist, a record
\* without a slot takes the first free one, a deleted record frees its slot.
\* The heap afterwards is Saved(f, r, off).
Saved(f, r, off) ==
  [f EXCEPT ![r].offset = IF f[r].access = 0 THEN 0 ELSE off,
            ![r].modified = FALSE]

SlotFor(reg) ==
  IF reg.offset = 0 THEN FirstFree(Contents(reg.channel)) ELSE {reg.offset}

ColdSave(reg, off) ==
  disk' = [disk EXCEPT ![reg.channel] =
             Written(Contents(reg.channel), off, make_dbuser(reg))]

-----------------------------------------------------------------------------
(* Queries *)

Ask(kind, c, src, info) ==
  [kind |-> kind, chan |-> c, src |-> src, info |-> info, passwd |-> NULL,
   action |-> 0, on |-> FALSE, reg |-> NULL, field |-> NULL, value |-> NULL,
   pos |-> 1, found |-> FALSE, open |-> TRUE, kept |-> NULL]

\* db_fetch on a file that exists; the other case is the callers'.
Enqueue(q) ==
  \E i \in Fresh(query) : query' = [query EXCEPT ![i] = q]

\* db_fetch for a caller whose callback does nothing on an empty result.
db_fetch(c, q) == IF c = Star \/ disk[c] = NULL THEN UNCHANGED query ELSE Enqueue(q)

Hit(q, s) ==
  IF q.kind = "validate" THEN Match(q.info, s.match) /\ q.passwd = s.passwd
  ELSE IF q.info \in Names THEN s.realname = q.info
  ELSE IF q.kind = "suspend" THEN Compare(q.info, s.match)
  ELSE Match(q.info, s.match)

\* DBGETALLUH and DBGETALLCMP go on after a hit, the other types stop.
StopsAtHit(q) == q.info \in Names \/ q.kind \in {"validate", "modinfo"}

validate_callback(q, s) ==
  IF online[q.src] = NULL THEN UNCHANGED <<regs, vals>>
  ELSE \E l \in load_dbuser(q.chan, q.pos, s) :
         IF l[2] # NULL /\ Match(online[q.src], l[1][l[2]].match)
         THEN successful_auth(l[1], vals, q.src, q.chan, l[2])
         ELSE regs' = l[1] /\ UNCHANGED vals

\* A mistake: the record that is not needed is not freed.
adduser_callback_Leaks(q, s) ==
  /\ UNCHANGED vals
  /\ IF \E r \in InMemory(q.chan, q.pos) : regs[r].access = 0
     THEN regs' = Insert(regs, q.reg)
     ELSE \E l \in load_dbuser(q.chan, q.pos, s) :
            regs' = IF l[2] # NULL THEN l[1] ELSE Insert(regs, q.reg)

adduser_callback(q, s) ==
  /\ UNCHANGED vals
  /\ IF \E r \in InMemory(q.chan, q.pos) : regs[r].access = 0
     THEN regs' = Insert(regs, q.reg)
     ELSE \E l \in load_dbuser(q.chan, q.pos, s) :
            regs' = IF l[2] # NULL THEN Unlinked(l[1], q.reg)
                                   ELSE Insert(regs, q.reg)

suspend_callback(q, s) ==
  /\ UNCHANGED vals
  /\ \E l \in load_dbuser(q.chan, q.pos, s), longer \in BOOLEAN :
       IF /\ l[2] # NULL
          /\ IF q.src = Server THEN longer \/ ~l[1][l[2]].suspend
             ELSE LAccess(q.src, q.chan) > l[1][l[2]].access
       THEN regs' = [Touched(l[1], l[2]) EXCEPT ![l[2]].suspend = q.on]
       ELSE regs' = l[1]

remuser_callback(q, s) ==
  /\ UNCHANGED vals
  /\ \E l \in load_dbuser(q.chan, q.pos, s) :
       regs' = IF l[2] # NULL /\ l[1][l[2]].access < q.action
               THEN Removed(l[1], l[2]) ELSE l[1]

modinfo_callback(q, s) ==
  /\ UNCHANGED vals
  /\ \E l \in load_dbuser(q.chan, q.pos, s) :
       regs' = IF l[2] # NULL /\ online[q.src] # NULL
               THEN do_modinfo(l[1], q.src, l[2], q.field, q.value) ELSE l[1]

Callback(q, s) ==
  CASE q.kind = "validate" -> validate_callback(q, s)
    [] q.kind = "adduser" -> adduser_callback(q, s)
    [] q.kind = "suspend" -> suspend_callback(q, s)
    [] q.kind = "remuser" -> remuser_callback(q, s)
    [] q.kind = "modinfo" -> modinfo_callback(q, s)

\* read_db: one slot is read and examined; at the end the file is closed.
\* ("found" is the code's count > 0, which adduser_callback alone acts on.)
read_db(i) ==
  /\ query[i] # NULL /\ query[i].open
  /\ LET q == query[i]
         file == IF q.kept = NULL THEN disk[q.chan] ELSE q.kept
     IN  IF q.pos > Len(file)
         THEN /\ query' = [query EXCEPT ![i].open = FALSE]
              /\ UNCHANGED <<regs, vals>>
         ELSE LET s == file[q.pos]
                  hit == s # NULL /\ Hit(q, s)
              IN  /\ query' = [query EXCEPT ![i].pos = @ + 1,
                                            ![i].found = @ \/ (hit /\ q.kind = "adduser"),
                                            ![i].open = ~(hit /\ StopsAtHit(q))]
                  /\ IF hit THEN Callback(q, s) ELSE UNCHANGED <<regs, vals>>
  /\ UNCHANGED <<online, disk, syncVars>>

\* Queries whose file was closed are taken off the list.  Finished_AtEnd is a
\* mistake: one that stopped at a hit is not.
Finished_AtEnd(q) == ~q.open /\ q.pos > Len(Contents(q.chan))
Finished(q) == ~q.open

\* end_db_read: the last call of the callback, without a record.
end_db_read(i) ==
  /\ query[i] # NULL /\ Finished(query[i])
  /\ query' = [query EXCEPT ![i] = NULL]
  /\ regs' = IF query[i].kind = "adduser" /\ ~query[i].found
             THEN Insert(regs, query[i].reg) ELSE regs
  /\ UNCHANGED <<vals, online, disk, syncVars>>

-----------------------------------------------------------------------------
(* Commands.  u is the client that sends one. *)

\* validate: an earlier login on the channel is dropped first; the record is
\* looked up in memory, then among the admins, then on disk.
validate(u, c, pw) ==
  /\ online[u] # NULL
  /\ \E z \in Released(u, c) :
       LET fits(chan) == {r \in Listed(z[1]) : /\ z[1][r].channel = chan
                                               /\ Match(online[u], z[1][r].match)
                                               /\ z[1][r].passwd = pw}
           hits == IF fits(c) # {} THEN fits(c) ELSE fits(Star)
       IN  IF hits # {}
           THEN /\ \E r \in First(z[1], hits) : successful_auth(z[1], z[2], u, c, r)
                /\ UNCHANGED query
           ELSE /\ regs' = z[1] /\ vals' = z[2]
                /\ db_fetch(c, [Ask("validate", c, u, online[u])
                                  EXCEPT !.passwd = pw])
  /\ UNCHANGED <<online, disk, syncVars>>

DeAuth(u, c) ==
  /\ LinkTo(vals, u, c) # {}
  /\ \E z \in Released(u, c) : regs' = z[1] /\ vals' = z[2]
  /\ UNCHANGED <<online, disk, query, syncVars>>

\* try_find, on JOIN: a record without password is taken without a login.
try_find(u, c) ==
  /\ online[u] # NULL
  /\ IsValid(u, c) = {}
  /\ \E r \in First(regs, {x \in Listed(regs) : /\ regs[x].channel = c
                                                /\ Match(online[u], regs[x].match)
                                                /\ regs[x].passwd = NoPw}) :
       successful_auth(regs, vals, u, c, r)
  /\ UNCHANGED <<online, disk, query, syncVars>>

\* Entries of a channel: slots in use, and records that have no slot yet.
Entries(c) ==
  Cardinality({r \in Regs : /\ regs[r] # NULL
                            /\ regs[r].channel = c /\ regs[r].offset = 0})
  + Cardinality({k \in DOMAIN Contents(c) : Contents(c)[k] # NULL})

Present(c, n) ==
  \E r \in Listed(regs) : regs[r].channel = c /\ regs[r].realname = n

\* The record is built first and handed to the query, which looks whether the
\* nick is on disk; its callback adds the record to the table or frees it.
AddUser(u, c, n, m, acc, pw) ==
  /\ LAccess(u, c) >= ADD_USER_LEVEL
  /\ LAccess(u, c) > acc
  /\ ~Present(c, n)
  /\ Entries(c) < MaxEntries
  /\ \E r \in Fresh(regs) :
       LET new == [regs EXCEPT ![r] = NewReg(c, n, m, pw, acc)]
       IN  IF disk[c] = NULL
           THEN regs' = Insert(new, r) /\ UNCHANGED query
           ELSE regs' = new /\ Enqueue([Ask("adduser", c, u, n) EXCEPT !.reg = r])
  /\ UNCHANGED <<vals, online, disk, syncVars>>

RemoveUser(u, c, t) ==
  LET acs == LAccess(u, c)
      hits == {r \in Listed(regs) :
                 /\ regs[r].channel = c
                 /\ IF t \in Names THEN regs[r].realname = t ELSE regs[r].match = t}
  IN  /\ acs >= REMOVE_USER_LEVEL
      /\ IF hits = {} THEN UNCHANGED regs
         ELSE \E r \in First(regs, hits) :
                regs' = IF regs[r].access < acs THEN Removed(regs, r) ELSE regs
      /\ IF hits = {} \/ t \notin Names
         THEN db_fetch(c, [Ask("remuser", c, u, t) EXCEPT !.action = acs])
         ELSE UNCHANGED query
      /\ UNCHANGED <<vals, online, disk, syncVars>>

\* The service suspends by itself on channel floods, with source "".
suspend(u, c, t, on) ==
  /\ u # Server => LAccess(u, c) >= LEVEL_SUSPEND
  /\ u = Server => t \in Masks /\ on
  /\ db_fetch(c, [Ask("suspend", c, u, t) EXCEPT !.on = on])
  /\ UNCHANGED <<regs, vals, online, disk, syncVars>>

ModUserInfo(u, c, field, t, value) ==
  LET hits == {r \in Listed(regs) :
                 /\ regs[r].channel = c
                 /\ IF t \in Names THEN regs[r].realname = t
                                   ELSE Match(t, regs[r].match)}
  IN  /\ LAccess(u, c) >= MOD_USERINFO_LEVEL
      /\ IF hits # {}
         THEN /\ \E r \in First(regs, hits) :
                   regs' = do_modinfo(regs, u, r, field, value)
              /\ UNCHANGED query
         ELSE /\ db_fetch(c, [Ask("modinfo", c, u, t)
                                EXCEPT !.field = field, !.value = value])
              /\ UNCHANGED regs
      /\ UNCHANGED <<vals, online, disk, syncVars>>

\* newpass: the password of the record in memory is replaced, nothing else.
ChPass(u, c, pw) ==
  /\ \E r \in IsValid(u, c) :
       /\ ~regs[r].suspend
       /\ regs[r].access > 0
       /\ regs' = [regs EXCEPT ![r].passwd = pw]
  /\ UNCHANGED <<vals, online, disk, query, syncVars>>

\* Purged_Freed is a mistake: the records are freed, whoever uses them.
Purged_Freed(reg) == NULL
Purged(reg) == [reg EXCEPT !.realname = Del, !.match = Del, !.access = 0,
                           !.modified = FALSE]

\* Every record of the channel in memory is marked deleted and clean, and the
\* file is unlinked; queries that have it open go on reading it.
purge(u, c) ==
  /\ c \in Purgeable
  /\ LAccess(u, Star) >= XADMIN_LEVEL
  /\ regs' = [r \in Regs |-> IF r \in Listed(regs) /\ regs[r].channel = c
                             THEN Purged(regs[r]) ELSE regs[r]]
  /\ disk' = [disk EXCEPT ![c] = NULL]
  /\ query' = [i \in Qids |->
                 IF query[i] # NULL /\ query[i].chan = c /\ query[i].kept = NULL
                 THEN [query[i] EXCEPT !.kept = disk[c]] ELSE query[i]]
  /\ UNCHANGED <<vals, online, syncVars>>

\* register: only for a channel without file and without live record; the
\* owner's record is written at once.
RegChan(u, c, n, m, pw) ==
  /\ LAccess(u, Star) >= XADMIN_LEVEL
  /\ disk[c] = NULL
  /\ \A r \in Listed(regs) : regs[r].channel = c => regs[r].access = 0
  /\ \E r \in Fresh(regs) :
       LET reg == NewReg(c, n, m, pw, OWNER_ACCESS)
       IN  \E off \in SlotFor(reg) :
             /\ ColdSave(reg, off)
             /\ regs' = Saved(Insert([regs EXCEPT ![r] = reg], r), r, off)
  /\ UNCHANGED <<vals, online, query, syncVars>>

-----------------------------------------------------------------------------
(* Clients, time, the write-back pass, the end of the process *)

\* A client signs on, or goes on under another nick: its logins stay.
onnick(u, h) ==
  /\ online[u] # h
  /\ online' = [online EXCEPT ![u] = h]
  /\ UNCHANGED <<regs, vals, disk, query, syncVars>>

\* The logins of u through r.
Left(g, u, r) == Cardinality(Refs(g, r) \cap LinksOf(g, u))

\* onquit: every login of the client is released.
onquit(u) ==
  /\ online[u] # NULL
  /\ online' = [online EXCEPT ![u] = NULL]
  /\ vals' = [v \in Vals |-> IF v \in LinksOf(vals, u) THEN NULL ELSE vals[v]]
  /\ regs' = [r \in Regs |->
                IF regs[r] = NULL THEN NULL
                ELSE [regs[r] EXCEPT
                        !.inuse = @ - Left(vals, u, r)]]
  /\ UNCHANGED <<disk, query, syncVars>>

Expired(file) ==
  [k \in DOMAIN file |-> IF file[k] = NULL THEN NULL
                         ELSE [file[k] EXCEPT !.suspend = FALSE]]

\* All suspensions run out.
SuspensionsExpire ==
  /\ regs' = [r \in Regs |-> IF regs[r] = NULL THEN NULL
                             ELSE [regs[r] EXCEPT !.suspend = FALSE]]
  /\ disk' = [c \in Chan |-> IF disk[c] = NULL THEN NULL ELSE Expired(disk[c])]
  /\ query' = [i \in Qids |->
                 IF query[i] = NULL \/ query[i].kept = NULL THEN query[i]
                 ELSE [query[i] EXCEPT !.kept = Expired(@)]]
  /\ UNCHANGED <<vals, online, syncVars>>

\* SaveUserList, and EVENT_SYNCDB every CACHE_TIMEOUT seconds.
SaveUserList ==
  /\ saving = -1
  /\ saving' = 0
  /\ UNCHANGED <<regs, vals, online, disk, query, sync, cursor>>

InBucket(b) == {r \in Listed(regs) : Bucket[regs[r].channel] = b}

\* The bucket after this one, -1 after the last.  NextBucket_NoEnd is a mistake:
\* the pass runs off the table.
NextBucket_NoEnd == saving + 1
NextBucket == IF saving + 1 = NBuckets THEN -1 ELSE saving + 1

\* do_cold_sync_slice: one bucket per turn of the main loop.  The pass itself
\* (SyncOne) is not interleaved with anything else.
do_cold_sync_slice ==
  /\ saving >= 0
  /\ IF InBucket(saving) = {}
     THEN /\ saving' = NextBucket
          /\ UNCHANGED <<sync, cursor>>
     ELSE /\ sync' = "slice" /\ cursor' = InBucket(saving)
          /\ UNCHANGED saving
  /\ UNCHANGED <<regs, vals, online, disk, query>>

\* do_cold_sync, from quit(): a pass over all buckets.
quit ==
  /\ sync' = "quit" /\ cursor' = Listed(regs)
  /\ UNCHANGED <<regs, vals, online, disk, query, saving>>

\* NeedsSave_Live and NeedsSave_Idle are mistakes: deletions are not written,
\* records in use are not written.
NeedsSave_Live(reg) ==
  reg.modified /\ reg.access < MASTER_ACCESS /\ reg.access > 0
NeedsSave_Idle(reg) ==
  /\ reg.modified /\ reg.access < MASTER_ACCESS /\ reg.inuse = 0
  /\ reg.access > 0 \/ disk[reg.channel] # NULL
NeedsSave(reg) == /\ reg.modified /\ reg.access < MASTER_ACCESS
                  /\ reg.access > 0 \/ disk[reg.channel] # NULL

\* Evictable_InUse is a mistake: the logins are not looked at.
Evictable_InUse(reg, expired) ==
  reg.access < MASTER_ACCESS /\ (reg.access = 0 \/ expired)
Evictable(reg, expired) == /\ reg.inuse = 0 /\ reg.access < MASTER_ACCESS
                           /\ reg.access = 0 \/ expired

\* The next record of a running pass is saved if dirty and then freed if it
\* is not in use and was deleted or not used for CACHE_TIMEOUT seconds.
SyncOne ==
  /\ sync # "idle"
  /\ \E r \in First(regs, cursor), expired \in BOOLEAN :
       LET reg == regs[r]
           Evict(f) == IF Evictable(reg, expired) THEN Unlinked(f, r) ELSE f
       IN  /\ IF NeedsSave(reg)
              THEN \E off \in SlotFor(reg) :
                     ColdSave(reg, off) /\ regs' = Evict(Saved(regs, r, off))
              ELSE regs' = Evict(regs) /\ UNCHANGED disk
           /\ cursor' = cursor \ {r}
  /\ IF cursor' = {} /\ sync = "slice"
     THEN /\ sync' = "idle"
          /\ saving' = NextBucket
     ELSE UNCHANGED <<sync, saving>>
  /\ UNCHANGED <<vals, online, query>>

\* A new process: memory holds the master record only (LoadUserList).
Boot ==
  /\ regs' = [r \in Regs |-> IF r = Master THEN MasterReg ELSE NULL]
  /\ vals' = [v \in Vals |-> NULL]
  /\ query' = [i \in Qids |-> NULL]
  /\ saving' = -1 /\ sync' = "idle" /\ cursor' = {}
  /\ UNCHANGED <<online, disk>>

\* quit() ends the process once everything is saved.
Exit == sync = "quit" /\ cursor = {} /\ Boot

\* restart() calls SaveUserList, which only marks the pass as due, and execs.
restart == MayStop /\ sync = "idle" /\ Boot

\* The process dies in the middle of a pass.
Crash == MayStop /\ sync # "idle" /\ Boot

-----------------------------------------------------------------------------
Init ==
  /\ regs = [r \in Regs |-> IF r = Master THEN MasterReg ELSE NULL]
  /\ vals = [v \in Vals |-> NULL]
  /\ online = [u \in Users |-> NULL]
  /\ disk \in [Chan -> InitialFiles]
  /\ query = [i \in Qids |-> NULL]
  /\ saving = -1 /\ sync = "idle" /\ cursor = {}

Logins ==
  \E u \in Users :
    \/ \E c \in AllChan, pw \in Tries : validate(u, c, pw)
    \/ \E c \in AllChan : DeAuth(u, c)
    \/ \E c \in Chan : try_find(u, c)
    \/ \E h \in Hosts : onnick(u, h)
    \/ onquit(u)

Commands ==
  \E u \in Users, c \in Chan :
    \/ \E n \in Names, m \in Masks, acc \in GrantLevels, pw \in Pws :
         AddUser(u, c, n, m, acc, pw)
    \/ \E t \in Names \cup Masks : RemoveUser(u, c, t)
    \/ \E field \in Fields, t \in Names \cup Masks :
         \E value \in Values(field) : ModUserInfo(u, c, field, t, value)
    \/ \E pw \in Pws : ChPass(u, c, pw)
    \/ purge(u, c)
    \/ \E n \in Names, m \in Masks, pw \in Pws : RegChan(u, c, n, m, pw)

Suspensions ==
  \/ \E u \in Users \cup {Server}, c \in Chan, t \in Names \cup Masks,
        on \in Durations : suspend(u, c, t, on)
  \/ SuspensionsExpire

QueryStep(i) == sync = "idle" /\ (read_db(i) \/ end_db_read(i))
SaveTimer == sync = "idle" /\ SaveUserList
SaveSlice == sync = "idle" /\ do_cold_sync_slice

Next ==
  \/ sync = "idle" /\ (Logins \/ Commands \/ Suspensions)
  \/ \E i \in Qids : QueryStep(i)
  \/ SaveTimer \/ SaveSlice \/ SyncOne
  \/ sync = "idle" /\ quit
  \/ Exit
  \/ restart \/ Crash

Spec == Init /\ [][Next]_vars

-----------------------------------------------------------------------------
(* What holds however requests, passes and queries are interleaved *)

\* Every cell, file, query and counter is of its type.
TypeOK ==
  /\ regs \in [Regs -> RegUser \cup {NULL}]
  /\ vals \in [Vals -> avalchan \cup {NULL}]
  /\ online \in [Users -> Hosts \cup {NULL}]
  /\ disk \in [Chan -> File \cup {NULL}]
  /\ query \in [Qids -> Query \cup {NULL}]
  /\ saving \in -1 .. NBuckets - 1
  /\ sync \in {"idle", "slice", "quit"}
  /\ cursor \subseteq Regs

\* The count that keeps a record from being freed (inuse, tested by the
\* write-back pass) is the number of logins made through it, whatever
\* became of the record meanwhile: removed, purged, edited.
RefCount ==
  \A r \in Regs : regs[r] # NULL => regs[r].inuse = Cardinality(Refs(vals, r))

\* A login never points to a freed record, or to one that is in no list: LAccess
\* and onquit follow the pointer without a check.
NoDangling ==
  \A v \in Vals : vals[v] # NULL =>
    regs[vals[v].reg] # NULL /\ regs[vals[v].reg].listed

\* The record AddUser hands to its query (hook2) belongs to that query alone
\* until the callback lists or frees it: never freed twice, never listed
\* twice, never leaked.
Holding(i) == query[i] # NULL /\ query[i].kind = "adduser" /\ ~query[i].found
HookOwned ==
  /\ \A i \in Qids : Holding(i) =>
       /\ query[i].reg # NULL
       /\ regs[query[i].reg] # NULL /\ ~regs[query[i].reg].listed
  /\ \A i, j \in Qids : Holding(i) /\ Holding(j) /\ query[i].reg = query[j].reg
                          => i = j
  /\ \A r \in Regs : regs[r] # NULL /\ ~regs[r].listed =>
       \E i \in Qids : Holding(i) /\ query[i].reg = r

-----------------------------------------------------------------------------
(* What the invariants above rest on *)

\* A record is the master's, which is never saved or freed; or a channel's,
\* which can be written to a slot unless it was deleted.
WellFormed(reg) ==
  IF reg.channel = Star THEN reg.access = MASTER_ACCESS
  ELSE /\ reg.access < MASTER_ACCESS /\ reg.passwd \in Pws \cup {NoPw}
       /\ \/ reg.realname \in Names /\ reg.match \in Masks
          \/ reg.realname = Del /\ reg.match = Del /\ reg.access = 0
RecordsOK == \A r \in Regs : regs[r] # NULL => WellFormed(regs[r])

\* validate queries are a client's; adduser queries look for a nick, so they
\* stop at the first hit; modinfo queries carry a value that fits the field.
QueriesOK ==
  \A i \in Qids : query[i] # NULL =>
    /\ query[i].kind = "validate" => query[i].src \in Users
    /\ query[i].kind = "adduser" =>
         query[i].info \in Names /\ (query[i].found => ~query[i].open)
    /\ query[i].kind = "modinfo" =>
         query[i].field \in Fields /\ query[i].value \in Values(query[i].field)
    /\ query[i].kept = NULL /\ query[i].open => disk[query[i].chan] # NULL

\* A pass only meets records that are in the table, and nothing takes one
\* out of the table under it.
CursorOK == cursor \subseteq Listed(regs) /\ (sync = "idle" => cursor = {})

\* The inductive invariant: every step from a state where it holds, reachable
\* or not, leads to one where it holds.
IInv == /\ TypeOK /\ RefCount /\ NoDangling /\ HookOwned
        /\ RecordsOK /\ QueriesOK /\ CursorOK

-----------------------------------------------------------------------------
(* What holds when one query runs at a time and no channel is purged *)

Live(c) == {r \in Listed(regs) : regs[r].channel = c /\ regs[r].access > 0}

\* Slots of the file that no record in memory stands for.
Unshadowed(c) ==
  {k \in DOMAIN Contents(c) :
     /\ Contents(c)[k] # NULL
     /\ \A r \in Listed(regs) : regs[r].channel = c => regs[r].offset # k}

EntryOf(x) == [realname |-> x.realname, match |-> x.match,
               access |-> x.access, suspend |-> x.suspend]

BookOf(c) == {EntryOf(regs[r]) : r \in Live(c)}
             \cup {EntryOf(Contents(c)[k]) : k \in Unshadowed(c)}

Book == INSTANCE AccessBook WITH
          book <- [c \in Chan |-> BookOf(c)],
          Levels <- GrantLevels \cup {OWNER_ACCESS}

\* Seen from outside, the cache is not there: every step changes the book as
\* one operation of AccessBook does, or not at all.
ImplementsBook == Book!Spec

\* Writing back, evicting, quitting, and logging in or out with what that loads
\* leave the book as it is: only a command changes it.
CacheInvisible ==
  [][(sync # "idle" /\ ~Crash) \/ vals' # vals =>
       \A c \in Chan : BookOf(c)' = BookOf(c)]_vars

\* A nick has one entry on a channel, in memory or on disk, not both and not
\* twice; AddUser checks the two places at different moments.
OneEntryPerNick(c) ==
  /\ \A r, x \in Live(c) : regs[r].realname = regs[x].realname => r = x
  /\ \A k, j \in Unshadowed(c) :
       Contents(c)[k].realname = Contents(c)[j].realname => k = j
  /\ \A r \in Live(c), k \in Unshadowed(c) :
       regs[r].realname # Contents(c)[k].realname
UniqueNick == \A c \in Chan : OneEntryPerNick(c)

\* No two records of a channel in memory stand for the same slot: the pass
\* would write one over the other.
SlotOwner ==
  \A r, x \in Listed(regs) :
    /\ regs[r].channel = regs[x].channel
    /\ regs[r].offset = regs[x].offset /\ regs[r].offset # 0
    => r = x

\* A record that is not marked dirty may be dropped from memory at any time:
\* what its slot holds is the same entry.  (The password is not part of it.)
CleanIsSaved ==
  \A c \in Chan : \A r \in Live(c) :
    ~regs[r].modified =>
      /\ regs[r].offset \in DOMAIN Contents(c)
      /\ Contents(c)[regs[r].offset] # NULL
      /\ EntryOf(Contents(c)[regs[r].offset]) = EntryOf(regs[r])

-----------------------------------------------------------------------------
(* What the code's own words say and the code does not do *)

\* "Password changed!": a live record leaves memory, while the process runs,
\* only when its slot holds the password it had.
PasswordSurvives ==
  [][\A c \in Chan : \A r \in Live(c) :
       regs'[r] = NULL /\ ~(restart \/ Crash) =>
         \E k \in DOMAIN Contents(c)' :
           /\ Contents(c)'[k] # NULL
           /\ Contents(c)'[k].realname = regs[r].realname
           /\ Contents(c)'[k].passwd = regs[r].passwd]_vars

\* "save necessary data...": a restart on request loses no entry.
RestartSaves == [][restart => \A c \in Chan : BookOf(c)' = BookOf(c)]_vars

-----------------------------------------------------------------------------
(* Progress.  The main loop comes round again and again, and every turn     *)
(* serves each query whose file is readable and one bucket of a running     *)
(* pass; EVENT_SYNCDB restarts the pass.  A query's turn is only ever taken *)
(* away for the length of a pass, hence strong fairness for queries.        *)

Fairness ==
  /\ \A i \in Qids : SF_vars(QueryStep(i))
  /\ SF_vars(SaveTimer)
  /\ SF_vars(SaveSlice)
  /\ WF_vars(SyncOne)
  /\ WF_vars(Exit)

FairSpec == Spec /\ Fairness

\* A request that went to the file is answered.
QueryEnds == \A i \in Qids : query[i] # NULL ~> query[i] = NULL

\* A change reaches the file, unless the entry is given up first.
ChangeIsSaved ==
  \A r \in Regs :
    (regs[r] # NULL /\ regs[r].listed /\ regs[r].modified /\ regs[r].access > 0
       /\ regs[r].access < MASTER_ACCESS)
    ~> (regs[r] = NULL \/ ~regs[r].modified \/ regs[r].access = 0)
=============================================================================
