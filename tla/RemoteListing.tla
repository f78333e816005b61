--------------------------- MODULE RemoteListing ---------------------------
(***************************************************************************)
(* Engines connected to one server list and change its directories:        *)
(* CFileZillaEnginePrivate::List and the operations of engine/ftp and      *)
(* engine/sftp, with the directory cache and the operation locks that the  *)
(* engines share.  A listing is retrieved under a lock; an engine that     *)
(* waited for the lock takes the listing another one has just stored.      *)
(*                                                                         *)
(* A command has been sent, is executed by the server some time later, and *)
(* is answered after that; an operation can end before its command does.   *)
(* Changing to the directory first is left out, and so is a part of the    *)
(* listing that is retrieved twice to test for hidden files.               *)
(***************************************************************************)
EXTENDS DirectoryCache, TLC

CONSTANTS
  Engines,
  Nobody,       \* not an engine
  Commands,     \* [kind, path, name, topath, toname] records the user may give
  Initially,    \* the directories of the server: [Paths -> [Names -> Kinds]]
  MaxCommands,  \* bound: commands given
  MaxExpired    \* bound: listings that grow older than ttl_

ASSUME NobodyAssumption == Nobody \notin Engines
ASSUME MaxAssumption == {MaxCommands, MaxExpired} \subseteq Nat
ASSUME CommandsAssumption ==
  Commands \subseteq [kind : {"list", "refresh", "delete", "rmdir", "mkdir", "upload", "chmod",
                             "raw", "rename"},
                     path : Paths, name : Names, topath : Paths, toname : Names]
ASSUME InitiallyAssumption == Initially \in [Paths -> [Names -> Kinds]]

VARIABLES
  server,       \* what the directories of the server hold
  cache,        \* CDirectoryCache
  op,           \* the operation of an engine
  wire,         \* the command of an engine that the server has not executed
  locks,        \* OpLockManager, by the name of the engine
  given, expired  \* commands given and listings expired so far

vars == <<server, cache, op, wire, locks, given, expired>>

\* A cached listing also records the engines whose time_before_locking_ is not
\* later than its m_firstListTime and, for the properties only: the engines
\* whose lock was requested before the server was asked, the engine that
\* asked, the engines that had a command under way when it was stored, and who
\* is to blame when it differs from the directory: the engines whose reply will
\* set it right, or Nobody.
Listing == [entries : Entries, unsure : BOOLEAN, old : BOOLEAN, for : SUBSET Engines,
            seen : SUBSET Engines, by : Engines, during : SUBSET Engines,
            blame : SUBSET (Engines \cup {Nobody})]

Idle == [step |-> "idle"]
Steps == {"ready", "waiting", "sent", "replied", "parsed"}
Listings == {"list", "refresh"}

\* Types; and an operation has a lock from its request to its end, which waits
\* exactly while the operation does.
TypeOK ==
  /\ server \in [Paths -> [Names -> Kinds]]
  /\ \A p \in DOMAIN cache.dirs : p \in Paths /\ cache.dirs[p] \in Listing
  /\ cache.lru \in Seq(Paths) /\ cache.total \in Nat
  /\ \A e \in Engines :
        \/ op[e] = Idle
        \/ /\ op[e].step \in Steps /\ op[e].cmd \in Commands /\ op[e].refresh \in BOOLEAN
           /\ op[e].rival \in Engines \cup {Nobody}
           /\ op[e].step = "parsed" => op[e].cmd.kind \in Listings
  /\ \A e \in Engines : wire[e] = Idle \/ wire[e].cmd \in Commands
  /\ \A e \in DOMAIN locks : op[e] # Idle /\ (locks[e].granted <=> op[e].step # "waiting")
  /\ given \in 0..MaxCommands /\ expired \in 0..MaxExpired

OpLocks == INSTANCE OpLocks WITH
  Sockets <- Engines, ServerOf <- [e \in Engines |-> Nobody], Ids <- Engines, ParentOf <- {},
  Requests <- [reason : {"list", "mkdir"}, path : Paths, inclusive : {FALSE}]

-----------------------------------------------------------------------------
(* The server, as far as its clients can tell.                             *)

Exists(p) == p = <<>> \/ server[Front(p)][Last(p)] = "dir"
Vacant(p) == \A n \in Names : server[p][n] = "none"
Kind(p, n) == IF Exists(p) THEN server[p][n] ELSE "none"

Succeeds(c) ==
  /\ Exists(c.path)
  /\ CASE c.kind \in Listings \cup {"raw"} -> TRUE
       [] c.kind = "delete" -> Kind(c.path, c.name) = "file"
       [] c.kind = "rmdir" -> Kind(c.path, c.name) = "dir" /\ Vacant(Child(c.path, c.name))
       [] c.kind = "mkdir" -> Kind(c.path, c.name) = "none"
       [] c.kind = "upload" -> Kind(c.path, c.name) # "dir"
       [] c.kind = "chmod" -> Kind(c.path, c.name) # "none"
       [] c.kind = "rename" ->
            /\ Exists(c.topath)
            /\ <<Kind(c.path, c.name), Kind(c.topath, c.toname)>>
                  \in {<<"file", "none">>, <<"file", "file">>, <<"dir", "none">>}

\* What a directory holds that is moved; nothing if it is none of Paths.
Contents(p) == IF p \in Paths THEN server[p] ELSE [n \in Names |-> "none"]

\* The directories after the command, and those it has changed.
Executed(c) ==
  CASE c.kind \in {"delete", "rmdir"} -> [server EXCEPT ![c.path][c.name] = "none"]
    [] c.kind = "mkdir" -> [server EXCEPT ![c.path][c.name] = "dir"]
    [] c.kind = "upload" -> [server EXCEPT ![c.path][c.name] = "file"]
    [] c.kind = "rename" ->
         LET kind == Kind(c.path, c.name)
             moved == [server EXCEPT ![c.path][c.name] = "none", ![c.topath][c.toname] = kind]
             from == Child(c.path, c.name)
             to == Child(c.topath, c.toname)
         IN [p \in Paths |-> IF kind = "dir" /\ p = to THEN Contents(from)
                             ELSE IF kind = "dir" /\ p = from THEN [n \in Names |-> "none"]
                             ELSE moved[p]]
    [] OTHER -> server
Changed(c) == {p \in Paths : Executed(c)[p] # server[p]}

-----------------------------------------------------------------------------
Request(e) ==
  LET c == op[e].cmd
  IN IF c.kind = "mkdir"
     THEN [reason |-> "mkdir", path |-> Child(c.path, c.name), inclusive |-> FALSE]
     ELSE [reason |-> "list", path |-> c.path, inclusive |-> FALSE]

\* The locks without that of e, whose OpLock is destroyed with its operation.
Unlocked(e) == [i \in DOMAIN locks \ {e} |-> locks[i]]

\* The listings of c with f applied to each.
Each(c, f(_)) == [c EXCEPT !.dirs = [p \in DOMAIN @ |-> f(@[p])]]

\* The operation of e ends, with the cache as in c.
End(e, c) ==
  /\ op' = [op EXCEPT ![e] = Idle]
  /\ cache' = c
  /\ locks' = Unlocked(e)

\* A command is given to an idle engine.  CFileZillaEnginePrivate::List answers
\* from the cache when it may, and refreshes what is unsure or outdated.
Start(e, c) ==
  /\ op[e] = Idle /\ given < MaxCommands
  /\ given' = given + 1
  /\ LET known == c.kind = "list" /\ Found(cache, c.path, TRUE)
         stale == known /\ (cache.dirs[c.path].old \/ cache.dirs[c.path].unsure)
     IN /\ cache' = IF c.kind = "list" THEN Lookup(cache, c.path) ELSE cache
        /\ op' = [op EXCEPT ![e] =
                    IF known /\ ~stale THEN Idle
                    ELSE [step |-> "ready", cmd |-> c, rival |-> Nobody,
                          refresh |-> c.kind = "refresh" \/ stale]]
  /\ UNCHANGED <<server, wire, locks, expired>>

\* Fault: any listing will do once the lock was waited for.
UsableAnyTime(e) ==
  LET p == op[e].cmd.path
  IN /\ Found(cache, p, FALSE) /\ ~cache.dirs[p].old
     /\ ~op[e].refresh \/ e \in DOMAIN locks

\* Whether a list operation is answered by the cached listing.
Usable(e) ==
  LET p == op[e].cmd.path
  IN /\ Found(cache, p, FALSE) /\ ~cache.dirs[p].old
     /\ ~op[e].refresh \/ (e \in DOMAIN locks /\ e \in cache.dirs[p].for)

\* Send of a list operation in list_waitlock, without the lock.  A listing
\* parsed before this moment is older than time_before_locking_.
SendList(e) ==
  /\ op[e].step = "ready" /\ op[e].cmd.kind \in Listings /\ wire[e] = Idle
  /\ e \notin DOMAIN locks
  /\ LET p == op[e].cmd.path
         granted == ~OpLocks!Contended(e, Request(e))
         others == {i \in DOMAIN locks : locks[i].granted /\ locks[i].req = Request(e)}
         older == Each(Lookup(cache, p), LAMBDA l : [l EXCEPT !.for = @ \ {e}, !.seen = @ \ {e}])
     IN \/ /\ Usable(e)
           /\ End(e, Lookup(cache, p))
           /\ UNCHANGED wire
        \/ /\ ~Usable(e)
           /\ OpLocks!Request(e, Request(e), e, granted)
           /\ cache' = older
           /\ op' = [i \in Engines |->
                       IF i = e
                       THEN [op[e] EXCEPT !.step = IF granted THEN "sent" ELSE "waiting",
                                          !.rival = IF others = {} THEN Nobody
                                                    ELSE CHOOSE o \in others : TRUE]
                       ELSE IF op[i].step = "parsed" /\ op[i].cmd.path = p
                       THEN [op[i] EXCEPT !.listing.for = @ \ {e}, !.listing.seen = @ \ {e}]
                       ELSE IF op[i].step = "replied" /\ op[i].cmd.kind \in Listings
                               /\ op[i].ok /\ op[i].cmd.path = p
                       THEN [op[i] EXCEPT !.listing.seen = @ \ {e}]
                       ELSE op[i]]
           /\ wire' = IF granted THEN [wire EXCEPT ![e] = [cmd |-> op[e].cmd, covered |-> TRUE]]
                      ELSE wire
  /\ UNCHANGED <<server, given, expired>>

\* A list operation whose lock is granted by a wakeup is sent again.
ResendList(e) ==
  /\ op[e].step = "waiting" /\ op[e].cmd.kind \in Listings
  /\ LET p == op[e].cmd.path
     IN \/ /\ Usable(e) /\ ~OpLocks!Contended(e, Request(e))
           /\ End(e, Lookup(cache, p))
           /\ UNCHANGED wire
        \/ /\ ~Usable(e)
           /\ OpLocks!Grant(e, {e})
           /\ cache' = Lookup(cache, p)
           /\ op' = [op EXCEPT ![e].step = "sent"]
           /\ wire' = [wire EXCEPT ![e] = [cmd |-> op[e].cmd, covered |-> TRUE]]
  /\ UNCHANGED <<server, given, expired>>

\* Send of an operation that creates a directory, which locks it first.
LockMkdir(e) ==
  /\ op[e].step = "ready" /\ op[e].cmd.kind = "mkdir" /\ e \notin DOMAIN locks
  /\ LET granted == ~OpLocks!Contended(e, Request(e))
     IN /\ OpLocks!Request(e, Request(e), e, granted)
        /\ op' = IF granted THEN op ELSE [op EXCEPT ![e].step = "waiting"]
  /\ UNCHANGED <<server, cache, wire, given, expired>>

ObtainMkdir(e) ==
  /\ op[e].step = "waiting" /\ op[e].cmd.kind = "mkdir"
  /\ OpLocks!Grant(e, {e})
  /\ op' = [op EXCEPT ![e].step = "ready"]
  /\ UNCHANGED <<server, cache, wire, given, expired>>

\* What the cache is told before a command is sent.
SendDelete(c) == InvalidateFile(cache, c.path, c.name)
SendRemoveDir(c) == InvalidateFile(cache, c.path, c.name)
SendRawCommand(c) == InvalidateServer(cache)
SendRename(c) == InvalidateFile(InvalidateFile(cache, c.path, c.name), c.topath, c.toname)
Announced(c) ==
  CASE c.kind = "delete" -> SendDelete(c)
    [] c.kind = "rmdir" -> SendRemoveDir(c)
    [] c.kind = "raw" -> SendRawCommand(c)
    [] c.kind = "rename" -> SendRename(c)
    [] OTHER -> cache

SendChange(e) ==
  /\ op[e].step = "ready" /\ op[e].cmd.kind \notin Listings /\ wire[e] = Idle
  /\ op[e].cmd.kind = "mkdir" => e \in DOMAIN locks
  /\ LET c == op[e].cmd
     IN /\ cache' = Each(Announced(c), LAMBDA l : [l EXCEPT !.during = @ \ {e}])
        /\ wire' = [wire EXCEPT ![e] =
                      [cmd |-> c, covered |-> /\ Cached(cache, c.path)
                                              /\ cache.dirs[c.path].entries[c.name].kind = "dir"]]
  /\ op' = [op EXCEPT ![e].step = "sent"]
  /\ UNCHANGED <<server, locks, given, expired>>

\* The server executes a command.  For the properties: a listing is excused for
\* differing from then on if it was stored after the command was announced, or
\* if the command is not announced.
Unannounced(e, p) ==
  \/ wire[e].cmd.kind \in {"mkdir", "upload"}
  \/ e \in cache.dirs[p].during
  \/ p \notin {wire[e].cmd.path, wire[e].cmd.topath} /\ ~wire[e].covered

ServerExecutes(e) ==
  /\ wire[e] # Idle
  /\ LET c == wire[e].cmd
         heard == op[e].step = "sent"
         changed == IF Succeeds(c) THEN Changed(c) ELSE {}
         waiting == {i \in Engines : i \in DOMAIN locks /\ op[i].cmd.kind \in Listings
                                     /\ op[i].cmd.path = c.path}
     IN /\ server' = IF Succeeds(c) THEN Executed(c) ELSE server
        /\ cache' = [cache EXCEPT !.dirs =
                       [p \in DOMAIN cache.dirs |->
                          IF p \in changed /\ Unannounced(e, p)
                          THEN [cache.dirs[p] EXCEPT
                                  !.blame = @ \cup {IF heard THEN e ELSE Nobody}]
                          ELSE cache.dirs[p]]]
        /\ op' = IF ~heard THEN op
                 ELSE [op EXCEPT ![e] =
                         IF c.kind \in Listings /\ Succeeds(c)
                         THEN [step |-> "replied", cmd |-> c, refresh |-> op[e].refresh,
                               rival |-> op[e].rival, ok |-> TRUE,
                               listing |-> [kinds |-> server[c.path], seen |-> waiting]]
                         ELSE [step |-> "replied", cmd |-> c, refresh |-> op[e].refresh,
                               rival |-> op[e].rival, ok |-> Succeeds(c)]]
  /\ wire' = [wire EXCEPT ![e] = Idle]
  /\ UNCHANGED <<locks, given, expired>>

-----------------------------------------------------------------------------
\* The end of the data: the listing is parsed, which sets m_firstListTime.
Parse(e) ==
  /\ op[e].step = "replied" /\ op[e].cmd.kind \in Listings /\ op[e].ok
  /\ LET p == op[e].cmd.path
         waiting == {i \in Engines : i \in DOMAIN locks /\ op[i].cmd.kind \in Listings
                                     /\ op[i].cmd.path = p}
     IN op' = [op EXCEPT ![e] =
                 [step |-> "parsed", cmd |-> op[e].cmd, refresh |-> op[e].refresh,
                  rival |-> op[e].rival,
                  listing |-> [entries |-> [n \in Names |->
                                              [kind |-> op[e].listing.kinds[n], unsure |-> FALSE]],
                               for |-> waiting, seen |-> op[e].listing.seen]]]
  /\ UNCHANGED <<server, cache, wire, locks, given, expired>>

\* A change of p, or of what p is an entry of.
Concerns(c, p) ==
  /\ c.kind \notin Listings \cup {"raw"}
  /\ p \in {c.path, Child(c.path, c.name), c.topath, Child(c.topath, c.toname)}

\* The listing is stored, possibly after the reply to MDTM.  For the properties:
\* changes that overtook it may still have to be answered.
StoreListing(e) ==
  /\ op[e].step = "parsed"
  /\ LET p == op[e].cmd.path
         l == op[e].listing
         right == \A n \in Names : l.entries[n].kind = server[p][n]
         late == {i \in Engines : op[i].step = "replied" /\ op[i].ok /\ Concerns(op[i].cmd, p)}
     IN End(e, Store(cache, p, [entries |-> l.entries, unsure |-> FALSE, old |-> FALSE,
                                for |-> l.for, seen |-> l.seen, by |-> e,
                                during |-> {i \in Engines : wire[i] # Idle},
                                blame |-> IF right THEN {} ELSE IF late = {} THEN {Nobody} ELSE late]))
  /\ UNCHANGED <<server, wire, given, expired>>

\* What the cache is told when the reply to a change arrives.
DeleteDone(c, ok) == IF ok THEN RemoveFile(cache, c.path, c.name) ELSE cache
RemoveDirDone(c, ok) == IF ok THEN RemoveDir(cache, c.path, c.name) ELSE cache
ChmodDone(c, ok) == IF ok THEN UpdateFile(cache, c.path, c.name, "none") ELSE cache
RenameDone(c, ok) ==
  IF ok THEN Rename(cache, c.path, c.name, c.topath, c.toname) ELSE cache
\* A failure because there is a file or directory of that name already is none,
\* unless the cache has a file.
MkdirDone(c, ok, exists) ==
  CASE ~ok /\ ~exists -> cache
    [] ~ok /\ exists /\ Cached(cache, c.path)
           /\ cache.dirs[c.path].entries[c.name].kind = "file" -> Lookup(cache, c.path)
    [] OTHER -> UpdateFile(cache, c.path, c.name, "dir")

\* Fault: the cache is told of an upload only if it has the file.
UploadDoneKnown(c, ok) ==
  IF ok /\ Cached(cache, c.path) /\ cache.dirs[c.path].entries[c.name].kind # "none"
  THEN UpdateFile(cache, c.path, c.name, "file") ELSE cache

\* The server has rejected the transfer command if it is not ok.
UploadDone(c, ok) == IF ok THEN UpdateFile(cache, c.path, c.name, "file") ELSE cache

Told(c, ok, exists) ==
  CASE c.kind = "delete" -> DeleteDone(c, ok)
    [] c.kind = "rmdir" -> RemoveDirDone(c, ok)
    [] c.kind = "chmod" -> ChmodDone(c, ok)
    [] c.kind = "rename" -> RenameDone(c, ok)
    [] c.kind = "mkdir" -> MkdirDone(c, ok, exists)
    [] c.kind = "upload" -> UploadDone(c, ok)
    [] OTHER -> cache

\* Whether the cache knows what is moved.
Followed(c) ==
  c.kind = "rename" /\ Cached(cache, c.path) => cache.dirs[c.path].entries[c.name].kind # "none"

\* The reply to a change, or to a listing that failed, is handled.  The server
\* may say of any mkdir that failed that the name exists.
HandleReply(e) ==
  /\ op[e].step = "replied"
  /\ op[e].cmd.kind \in Listings => ~op[e].ok
  /\ \E exists \in {FALSE, ~op[e].ok} :
        LET told == Told(op[e].cmd, op[e].ok, exists)
            forgiven(l) == [l EXCEPT !.blame = @ \ {e}]
            kept(l) == [l EXCEPT !.blame = IF e \in @ THEN (@ \ {e}) \cup {Nobody} ELSE @]
        IN End(e, IF Followed(op[e].cmd) THEN Each(told, forgiven) ELSE Each(told, kept))
  /\ UNCHANGED <<server, wire, given, expired>>

\* Fault: the lock outlives a cancelled operation.
AbandonLocked(e) ==
  /\ op[e] # Idle
  /\ op' = [op EXCEPT ![e] = Idle]
  /\ UNCHANGED <<server, cache, wire, locks, given, expired>>

\* The operation is cancelled, times out or loses its connection; an upload
\* that was under way is entered into the cache all the same.
Abandon(e) ==
  /\ op[e] # Idle
  /\ LET c == op[e].cmd
         told == IF c.kind = "upload" /\ op[e].step \in {"sent", "replied"}
                 THEN UploadDone(c, TRUE) ELSE cache
     IN End(e, Each(told, LAMBDA l :
               [l EXCEPT !.blame = IF e \in @ THEN (@ \ {e}) \cup {Nobody} ELSE @]))
  /\ UNCHANGED <<server, wire, given, expired>>

\* The command of an operation that has ended is lost with its connection.
CommandLost(e) ==
  /\ wire[e] # Idle /\ op[e].step \notin {"sent"}
  /\ wire' = [wire EXCEPT ![e] = Idle]
  /\ UNCHANGED <<server, cache, op, locks, given, expired>>

\* ttl_ passes for a listing.
Expires(p) ==
  /\ expired < MaxExpired /\ Cached(cache, p) /\ ~cache.dirs[p].old
  /\ cache' = [cache EXCEPT !.dirs[p].old = TRUE]
  /\ expired' = expired + 1
  /\ UNCHANGED <<server, op, wire, locks, given>>

-----------------------------------------------------------------------------
Init ==
  /\ server = Initially
  /\ cache = EmptyCache
  /\ op = [e \in Engines |-> Idle]
  /\ wire = [e \in Engines |-> Idle]
  /\ locks = [e \in {} |-> {}]
  /\ given = 0 /\ expired = 0

Next ==
  \/ \E e \in Engines :
        \/ \E c \in Commands : Start(e, c)
        \/ SendList(e) \/ ResendList(e) \/ LockMkdir(e) \/ ObtainMkdir(e) \/ SendChange(e)
        \/ ServerExecutes(e) \/ Parse(e) \/ StoreListing(e) \/ HandleReply(e)
        \/ Abandon(e) \/ CommandLost(e)
  \/ \E p \in Paths : Expires(p)

Spec == Init /\ [][Next]_vars

-----------------------------------------------------------------------------
\* The comment of directorycache.h: a listing leaves the cache or is marked as
\* unsure when an operation may have changed the directory.  A listing without
\* a mark is what the server has: at once if a change is announced before it is
\* sent, and once it has been answered if it is not, or if it overtook the
\* listing.  Except where the code has no way to know:
\*   - a change overtook the listing while that was retrieved, and was answered
\*     before the listing was stored;
\*   - the operation ended before its change was answered, and the change had
\*     not been announced (mkdir, upload), the listing was stored after the
\*     announcement, or it is that of a directory that was moved or removed
\*     while the listing of its parent did not show it;
\*   - something was renamed that the listing of its directory did not show.
CacheHonest ==
  \A p \in DOMAIN cache.dirs :
     cache.dirs[p].unsure \/ cache.dirs[p].blame # {}
     \/ \A n \in Names : cache.dirs[p].entries[n].kind = server[p][n]

\* The LRU list and the file count that bound the cache are exact, as the
\* destructor asserts and Prune takes for granted, and the number of listings
\* stays within its limit.  (That of the entries does not: a listing that grows
\* or is replaced by a longer one prunes nothing.)
CacheBalanced ==
  /\ Balanced(cache)
  /\ \A l \in Limits : l[1] < 0 => Len(cache.lru) <= l[2]

\* A refresh that is answered from the cache gets a listing that the server was
\* asked for after the refresh began, or one that another connection was
\* already retrieving then.
RefreshCurrent ==
  \A e \in Engines :
     LET l == cache.dirs[op[e].cmd.path]
     IN op[e].step = "waiting" /\ op[e].cmd.kind \in Listings /\ op[e].refresh /\ Usable(e)
        => e \in l.seen \/ l.by = op[e].rival
=============================================================================
