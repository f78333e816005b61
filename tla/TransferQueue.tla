--------------------------- MODULE TransferQueue ---------------------------
(***************************************************************************)
(* The transfer queue, interface/QueueView.cpp: items waiting for their    *)
(* server are given to engines, which are kept, reused or, when a site     *)
(* allows a single connection, borrowed from the browsing connection.      *)
(*                                                                         *)
(* All of it runs on the main thread.  A handler that reaches AdvanceQueue *)
(* or SendNextCommand takes several steps here (main.pc), one per round of *)
(* their loops; no other handler starts before it ends, but the engines'   *)
(* threads go on in between, so that what Execute answers in one round may *)
(* differ in the next.  An engine is reduced to what the queue sees of it: *)
(* module Engine has the rest.  The queue's order and the priorities are   *)
(* the user's to choose, so any waiting item may be the first one.         *)
(***************************************************************************)
EXTENDS Naturals, Sequences, FiniteSets, SequencesExt

CONSTANTS
  Items, Servers, Own,  \* the queue's items, the servers, the queue's engines
  Primary,              \* the engine of the browsing connection
  None,
  Loads,                \* what the items may be at first
  Limit,                \* connection_limit_ of a server, 0 if there is none
  AskedFor,             \* servers whose password is not stored
  NumTransfers,         \* OPTION_NUMTRANSFERS
  MaxDown, MaxUp,       \* OPTION_CONCURRENT*LIMIT, 0 if there is none
  MaxErrors,            \* OPTION_RECONNECTCOUNT
  MaxActions            \* bound: actions of the user and timers that fire

Kinds == {"download", "upload", "mkdir", "localdir"}

ASSUME QueueAssumption ==
  /\ None \notin Items \cup Servers \cup Own \cup {Primary} /\ Primary \notin Own
  /\ Loads \subseteq [Items -> [server : Servers, kind : Kinds, errors : 0..MaxErrors]]
  /\ Limit \in [Servers -> Nat] /\ AskedFor \subseteq Servers
  /\ IsFiniteSet(Own) /\ NumTransfers \in 1..Cardinality(Own)
  /\ MaxDown \in Nat /\ MaxUp \in Nat /\ MaxErrors \in Nat /\ MaxActions \in Nat

Engines == Own \cup {Primary}

VARIABLES
  q,        \* members of CQueueView
  data,     \* t_EngineData of each engine
  it,       \* the items
  br,       \* the browsing connection: CState and its CCommandQueue
  en,       \* the engines
  main,     \* what the main thread is in the middle of
  bypassed, \* history: the primary engine was used without the exclusive lock
  actions   \* number of actions and timers so far

vars == <<q, data, it, br, en, main, bypassed, actions>>

Commands == {"none", "connect", "disconnect", "transfer", "mkdir", "list", "browse"}
Replies  == {"ok", "error", "disconnected", "password", "write", "canceled"}

TypeOK ==
  /\ q.mode \in 0..2 /\ q.quit \in 0..2 /\ q.asking \in BOOLEAN
  /\ q.count \in 0..NumTransfers /\ q.down \in Nat /\ q.up \in Nat
  /\ q.server \in [Servers -> 0..NumTransfers] /\ q.known \subseteq Servers
  /\ q.list \in Seq(Engines) /\ IsInjective(q.list) /\ q.waiting \in Seq(Engines)
  /\ data \in [Engines ->
       [active : BOOLEAN, item : Items \cup {None}, site : Servers \cup {None}, timer : BOOLEAN,
        state : {"none", "disconnect", "connect", "transfer", "list", "mkdir", "askpassword",
                 "waitprimary"}]]
  /\ it \in [Items ->
       [server : Servers, kind : Kinds, where : {"queue", "failed", "successful", "gone"}, active : BOOLEAN, queued : BOOLEAN,
        remove : BOOLEAN, progress : BOOLEAN, errors : 0..MaxErrors + 1, done : BOOLEAN]]
  /\ br.site \in Servers \cup {None} /\ br.cmds \in Nat /\ br.grants \in Nat
  /\ br.request \in BOOLEAN /\ br.lock \in BOOLEAN /\ br.resent \in BOOLEAN
  /\ \A e \in Engines :
       /\ en[e].sock \in BOOLEAN /\ en[e].run \in BOOLEAN /\ en[e].cmd \in Commands
       /\ en[e].events \in Seq({"cmd", "cancel"})
       /\ en[e].notes \in Seq([r : Replies, cmd : Commands, item : Items \cup {None},
                              progress : BOOLEAN])
  /\ main.pc \in {"idle", "send", "advance"} /\ main.e \in Engines \cup {None} /\ main.inside \in BOOLEAN

NoData == [active |-> FALSE, item |-> None, site |-> None, timer |-> FALSE, state |-> "none"]

NewItem(i, queued, errors) ==
  [server |-> i.server, kind |-> i.kind, where |-> "queue", active |-> FALSE, queued |-> queued,
   remove |-> FALSE, progress |-> FALSE, errors |-> errors, done |-> FALSE]

\* The browsing connection is up, or there is none yet; the items have been
\* loaded from the storage.
Init ==
  /\ q = [mode |-> 0, quit |-> 0, asking |-> FALSE, count |-> 0, down |-> 0, up |-> 0,
          server |-> [s \in Servers |-> 0], known |-> Servers \ AskedFor,
          list |-> <<>>, waiting |-> <<>>]
  /\ data = [e \in Engines |-> NoData]
  /\ \E load \in Loads : it = [i \in Items |-> NewItem(load[i], TRUE, load[i].errors)]
  /\ \E s \in Servers \cup {None} :
       /\ br = [site |-> s, cmds |-> 0, request |-> FALSE, lock |-> FALSE, grants |-> 0,
                resent |-> FALSE]
       /\ en = [e \in Engines |-> [sock |-> e = Primary /\ s # None, cmd |-> "none", item |-> None,
                                   run |-> FALSE, events |-> <<>>, notes |-> <<>>]]
  /\ main = [pc |-> "idle", e |-> None, inside |-> FALSE]
  /\ bypassed = FALSE /\ actions = 0

-----------------------------------------------------------------------------
(* A handler works on w, the queue and what it shares with the browsing    *)
(* connection and the engines.                                             *)

Here == [q |-> q, data |-> data, it |-> it, br |-> br, en |-> en]

Becomes(w) == q' = w.q /\ data' = w.data /\ it' = w.it /\ br' = w.br /\ en' = w.en

Busy(w, e) == w.en[e].cmd # "none"

ServerOf(i) == it[i].server
Download(i) == it[i].kind \in {"download", "localdir"}
IsFile(i)   == it[i].kind \in {"download", "upload"}
Work(i)     == IF IsFile(i) THEN "transfer" ELSE "mkdir"

\* CFileZillaEnginePrivate::Execute when the preconditions hold.
Execute(w, e, c) ==
  [w EXCEPT !.en[e].cmd = c, !.en[e].item = w.data[e].item,
            !.en[e].events = Append(@, "cmd")]

\* CFileZillaEnginePrivate::Cancel
Cancel(w, e) == IF Busy(w, e) THEN [w EXCEPT !.en[e].events = Append(@, "cancel")] ELSE w

-----------------------------------------------------------------------------
(* The exclusive use of the browsing connection's engine,                  *)
(* interface/commandqueue.cpp.                                             *)

GrantExclusiveEngineRequest(w) ==
  IF w.br.lock \/ ~w.br.request THEN w
  ELSE [w EXCEPT !.br.lock = TRUE, !.br.grants = @ + 1]

RequestExclusiveEngine(w) ==
  IF w.br.request THEN w
  ELSE LET r == [w EXCEPT !.br.request = TRUE]
       IN IF w.br.cmds = 0 THEN GrantExclusiveEngineRequest(r) ELSE r

\* Fault: nobody tells the one who waits that the last command is done.
ProcessNextCommandUngranting(w) ==
  IF w.br.lock \/ Busy(w, Primary) \/ w.br.cmds = 0 THEN w
  ELSE [Execute(w, Primary, "browse") EXCEPT !.br.resent = @ \/ w.en[Primary].notes # <<>>]

\* The first command is executed, for a second time if its reply is still to
\* be read (history: resent).
ProcessNextCommand(w) ==
  IF w.br.lock \/ Busy(w, Primary) THEN w
  ELSE IF w.br.cmds > 0
    THEN [Execute(w, Primary, "browse") EXCEPT !.br.resent = @ \/ w.en[Primary].notes # <<>>]
  ELSE GrantExclusiveEngineRequest(w)

ReleaseEngine(w) ==
  IF ~w.br.request THEN w
  ELSE ProcessNextCommand([w EXCEPT !.br.request = FALSE, !.br.lock = FALSE])

-----------------------------------------------------------------------------
(* The end of an engine's work on an item.                                 *)

ItemAfter(i, reason) ==
  CASE reason = "reset"   -> [i EXCEPT !.active = FALSE, !.queued = TRUE]
    [] reason = "failure" -> [i EXCEPT !.active = FALSE, !.where = "failed", !.progress = FALSE]
    [] reason = "success" -> [i EXCEPT !.active = FALSE, !.where = "successful"]
    [] reason = "remove"  -> [i EXCEPT !.active = FALSE, !.where = "gone"]
    [] reason = "retry"   -> [i EXCEPT !.active = FALSE]

\* The counters and the item; a refresh of the listing has no item.
Uncount(w, e, reason) ==
  LET i == w.data[e].item IN
  IF i = None THEN [w EXCEPT !.q.count = @ - 1]
  ELSE [w EXCEPT !.q.count = @ - 1, !.q.server[ServerOf(i)] = @ - 1,
                 !.q.down = IF Download(i) THEN @ - 1 ELSE @,
                 !.q.up = IF Download(i) THEN @ ELSE @ - 1,
                 !.it[i] = ItemAfter(@, reason)]

\* ResetEngine up to its call of AdvanceQueue.
ResetEngine(w, e, reason) ==
  IF ~w.data[e].active THEN w
  ELSE LET u == Uncount(w, e, reason)
           r == IF w.data[e].state = "waitprimary" THEN ReleaseEngine(u) ELSE u
       IN [r EXCEPT !.data[e].active = FALSE, !.data[e].item = None, !.data[e].state = "none"]

\* The timers that AdvanceQueue keeps for engines that are idle and connected.
IdleTimers(w) ==
  [w EXCEPT !.data = [e \in Engines |->
     IF e \in Range(w.q.list) /\ e # Primary /\ ~w.data[e].active
       THEN [w.data[e] EXCEPT !.timer = w.en[e].sock] ELSE w.data[e]]]

\* Quit once nothing is active: DeleteEngines and SaveQueue.
DeleteEngines(w) ==
  [w EXCEPT !.q.list = <<>>, !.q.quit = 2, !.data = [e \in Engines |-> NoData]]

\* TryRefreshListings picks refresh, or no engine at all.
Refreshable(w) ==
  {e \in Range(w.q.list) \ {Primary} :
     /\ w.q.quit = 0 /\ w.br.site # None
     /\ ~w.data[e].active /\ w.en[e].sock /\ w.data[e].site = w.br.site /\ ~Busy(w, e)}

TryRefreshListings(w, refresh) ==
  IF refresh \notin Refreshable(w) THEN w
  ELSE [Execute(w, refresh, "list") EXCEPT
          !.q.count = @ + 1, !.data[refresh].active = TRUE, !.data[refresh].state = "list"]

Without(list, e) == RemoveAt(list, CHOOSE k \in DOMAIN list : list[k] = e)

\* Fault: the borrowed engine is forgotten but not given back.
CheckQueueStateKeeping(w, refresh) ==
  LET idle == Primary \in Range(w.q.list) /\ ~w.data[Primary].active
      u == IF idle THEN [w EXCEPT !.q.list = Without(@, Primary), !.data[Primary] = NoData] ELSE w
      v == IF u.q.count = 0 /\ u.q.mode # 0
             THEN TryRefreshListings([u EXCEPT !.q.mode = 0], refresh) ELSE u
  IN IF u.q.count = 0 /\ u.q.quit = 1 THEN DeleteEngines(v) ELSE v

CheckQueueState(w, refresh) ==
  LET idle == Primary \in Range(w.q.list) /\ ~w.data[Primary].active
      u == IF idle
             THEN ReleaseEngine([w EXCEPT !.q.list = Without(@, Primary), !.data[Primary] = NoData])
             ELSE w
      v == IF u.q.count = 0 /\ u.q.mode # 0
             THEN TryRefreshListings([u EXCEPT !.q.mode = 0], refresh) ELSE u
  IN IF u.q.count = 0 /\ u.q.quit = 1 THEN DeleteEngines(v) ELSE v

-----------------------------------------------------------------------------
(* SetActive(false).  Resetting the engine that waits for the primary one  *)
(* makes CheckQueueState remove it from m_engineData, and the loop over    *)
(* the engines then misses the one that follows it.                        *)

QueueImmediateFiles(w) ==
  [w EXCEPT !.it = [i \in Items |->
     IF w.it[i].where = "queue" /\ ~w.it[i].active
       THEN [w.it[i] EXCEPT !.queued = TRUE] ELSE w.it[i]]]

Waits(w) == w.data[Primary].active /\ w.data[Primary].state = "waitprimary"

Missed(w) ==
  {e \in Range(w.q.list) :
     /\ Waits(w)
     /\ \E k \in 1..Len(w.q.list) - 1 : w.q.list[k] = Primary /\ w.q.list[k + 1] = e}

Deactivate(w) ==
  LET u == QueueImmediateFiles([w EXCEPT !.q.mode = 0])
      hit == {e \in Range(w.q.list) : w.data[e].active} \ Missed(w)
      v == [u EXCEPT !.en = [e \in Engines |->
              IF e \in hit \ (IF Waits(w) THEN {Primary} ELSE {}) /\ Busy(w, e)
                THEN [u.en[e] EXCEPT !.events = Append(@, "cancel")] ELSE u.en[e]]]
  IN IF Waits(w) THEN CheckQueueState(IdleTimers(ResetEngine(v, Primary, "reset")), None) ELSE v

-----------------------------------------------------------------------------
(* What a handler does next.                                               *)

Idle == main.pc = "idle" /\ q.quit # 2

Return == main' = [main EXCEPT !.pc = IF main.inside THEN "advance" ELSE "idle", !.e = None]
Sending(e) == main' = [main EXCEPT !.pc = "send", !.e = e]
Advancing == main' = [pc |-> "advance", e |-> None, inside |-> TRUE]

\* ResetEngine with the AdvanceQueue at its end, if it does anything.
ResetAndAdvance(w, e, reason) ==
  /\ Becomes(ResetEngine(w, e, reason))
  /\ IF w.data[e].active THEN Advancing ELSE Return

\* IncreaseErrorCount, after which the item is tried again or has failed.
Tried(w, e) == [w EXCEPT !.it[w.data[e].item].errors = @ + 1]
GivesUp(w, e) == w.it[w.data[e].item].errors >= MaxErrors

IncreaseErrorCount(w, e) ==
  IF GivesUp(w, e) THEN ResetAndAdvance(Tried(w, e), e, "failure")
                   ELSE Becomes(Tried(w, e)) /\ Sending(e)

Known(w, e) == w.data[e].site \in w.q.known
ToConnect(w, e) == [w EXCEPT !.data[e].state = IF Known(w, e) THEN "connect" ELSE "askpassword"]

-----------------------------------------------------------------------------
(* TryStartNextTransfer and the engines it may use.                        *)

\* The first of some engines in m_engineData.
First(list, engines) ==
  LET places == {k \in DOMAIN list : list[k] \in engines}
  IN list[CHOOSE k \in places : \A j \in places : k <= j]

\* GetIdleEngine: one connected to s, any idle one, a new one or none.
IdleEngines(w, transient) ==
  {e \in Range(w.q.list) : ~w.data[e].active /\ (transient \/ e # Primary)}

GetIdleEngine(w, s, transient) ==
  LET idle == IdleEngines(w, transient)
      fits == {e \in idle : w.en[e].sock /\ w.data[e].site = s}
      counted == IF Primary \in Range(w.q.list) /\ ~w.data[Primary].active
                   THEN Len(w.q.list) - 1 ELSE Len(w.q.list)
  IN IF fits # {} THEN First(w.q.list, fits)
     ELSE IF idle # {} THEN First(w.q.list, idle)
     ELSE IF counted < NumTransfers THEN CHOOSE e \in Own : e \notin Range(w.q.list)
     ELSE None

Listing(w, e) ==
  IF e = None \/ e \in Range(w.q.list) THEN w ELSE [w EXCEPT !.q.list = Append(@, e)]

\* CanStartTransfer: whether, with which engine if that is settled already,
\* and the engines it has added to m_engineData.
CanStartTransfer(w, s) ==
  LET used == w.q.server[s] + (IF w.br.site = s THEN 1 ELSE 0)
      idle == GetIdleEngine(w, s, TRUE)
      v    == Listing(w, idle)
      free == [ok |-> TRUE, e |-> None, w |-> w]
  IN IF Limit[s] = 0 \/ used < Limit[s] THEN free
     ELSE IF idle # None /\ w.data[idle].site = s /\ w.en[idle].sock
       THEN [ok |-> TRUE, e |-> idle, w |-> v]
     ELSE IF w.br.site # s \/ used > 1 THEN [ok |-> FALSE, e |-> None, w |-> v]
     ELSE IF Primary \in Range(v.q.list)
       THEN [ok |-> ~v.data[Primary].active, e |-> Primary, w |-> v]
     ELSE [ok |-> TRUE, e |-> Primary,
           w |-> [Listing(v, Primary) EXCEPT !.data[Primary].state = "waitprimary"]]

Queued(w, s) == {i \in Items : w.it[i].where = "queue" /\ ServerOf(i) = s}

\* Another server whose items are looked at as well.
Examined(w, s) == IF Queued(w, s) = {} THEN w ELSE CanStartTransfer(w, s).w

\* GetIdleChild, by the direction that is wanted.
GetIdleChild(w, s) ==
  LET wanted == {i \in Queued(w, s) :
                   /\ ~w.it[i].active
                   /\ Download(i) => MaxDown = 0 \/ w.q.down < MaxDown
                   /\ ~Download(i) => MaxUp = 0 \/ w.q.up < MaxUp}
      immediate == {i \in wanted : ~w.it[i].queued}
  IN IF immediate # {} THEN immediate ELSE IF w.q.mode = 1 THEN {} ELSE wanted

MayStart == q.quit = 0 /\ q.mode # 0 /\ q.count < NumTransfers

Startable(i) ==
  MayStart /\ i \in GetIdleChild(Here, ServerOf(i)) /\ CanStartTransfer(Here, ServerOf(i)).ok

\* A directory of a download is made on the spot.
MakeLocalDir(i) ==
  /\ main.pc = "advance" /\ it[i].kind = "localdir" /\ Startable(i)
  /\ Becomes([CanStartTransfer(Here, ServerOf(i)).w EXCEPT !.it[i].where = "gone"])
  /\ UNCHANGED <<main, bypassed, actions>>

\* Fault: the counter of the direction is forgotten for directories.
StartedUncounted(w, e, i) ==
  [w EXCEPT !.q = [w.q EXCEPT !.count = @ + 1, !.server[ServerOf(i)] = @ + 1,
                              !.down = IF it[i].kind = "download" THEN @ + 1 ELSE @,
                              !.up = IF it[i].kind = "upload" THEN @ + 1 ELSE @],
            !.it[i].active = TRUE,
            !.data[e] = [w.data[e] EXCEPT !.active = TRUE, !.item = i, !.timer = FALSE,
                                          !.site = ServerOf(i)]]

Started(w, e, i) ==
  [w EXCEPT !.q = [w.q EXCEPT !.count = @ + 1, !.server[ServerOf(i)] = @ + 1,
                              !.down = IF Download(i) THEN @ + 1 ELSE @,
                              !.up = IF Download(i) THEN @ ELSE @ + 1],
            !.it[i].active = TRUE,
            !.data[e] = [w.data[e] EXCEPT !.active = TRUE, !.item = i, !.timer = FALSE,
                                          !.site = ServerOf(i)]]

TryStartNextTransfer(i) ==
  /\ main.pc = "advance" /\ it[i].kind # "localdir" /\ Startable(i)
  /\ \E other \in Servers :
       LET s == ServerOf(i)
           c == CanStartTransfer(IF other = s THEN Here ELSE Examined(Here, other), s)
           e == IF c.e # None THEN c.e ELSE GetIdleEngine(c.w, s, FALSE)
           w == Started(Listing(c.w, e), e, i)
       IN /\ e # None
          /\ Becomes(IF w.data[e].state = "waitprimary" THEN w
                     ELSE IF ~w.en[e].sock THEN ToConnect(w, e)
                     ELSE IF c.w.data[e].site # s THEN [w EXCEPT !.data[e].state = "disconnect"]
                     ELSE [w EXCEPT !.data[e].state = Work(i)])
          /\ Sending(e)
  /\ UNCHANGED <<bypassed, actions>>

AdvanceQueueEnds ==
  /\ main.pc = "advance" /\ \A i \in Items : ~Startable(i)
  /\ \E other \in Servers, refresh \in Own \cup {None} :
       LET w == IdleTimers(IF MayStart THEN Examined(Here, other) ELSE Here)
       IN /\ refresh \in Refreshable(w) \cup {None}
          /\ Becomes(CheckQueueState(w, refresh))
  /\ main' = [main EXCEPT !.pc = "idle", !.inside = FALSE]
  /\ UNCHANGED <<bypassed, actions>>

-----------------------------------------------------------------------------
(* One round of the loop of SendNextCommand.                               *)

Executes(e, c) ==
  /\ Becomes(Execute(Here, e, c)) /\ Return
  /\ bypassed' = (bypassed \/ (e = Primary /\ ~br.lock))

SendNextCommand ==
  LET e == main.e
      state == data[e].state
      refused == Busy(Here, e) \/ ~en[e].sock
  IN
  /\ main.pc = "send"
  /\ \/ /\ state = "waitprimary"
        /\ Becomes(RequestExclusiveEngine(Here)) /\ Return /\ UNCHANGED bypassed
     \/ state = "disconnect" /\ ~Busy(Here, e) /\ Executes(e, "disconnect")
     \/ /\ state = "disconnect" /\ Busy(Here, e)
        /\ Becomes(ToConnect(Here, e)) /\ UNCHANGED <<main, bypassed>>
     \/ /\ state = "askpassword"
        /\ Becomes([Here EXCEPT !.q.waiting = Append(@, e)]) /\ Return /\ UNCHANGED bypassed
     \/ state = "connect" /\ ~Busy(Here, e) /\ ~en[e].sock /\ Executes(e, "connect")
     \/ /\ state = "connect" /\ ~Busy(Here, e) /\ en[e].sock
        /\ Becomes([Here EXCEPT !.data[e].state = "disconnect"]) /\ UNCHANGED <<main, bypassed>>
     \/ state \in {"transfer", "mkdir"} /\ ~refused /\ Executes(e, state)
     \/ /\ (state = "connect" /\ Busy(Here, e)) \/ (state = "transfer" /\ refused)
        /\ IncreaseErrorCount(Here, e) /\ UNCHANGED bypassed
     \/ /\ state = "mkdir" /\ refused
        /\ ResetAndAdvance(Here, e, "failure") /\ UNCHANGED bypassed
  /\ UNCHANGED actions

-----------------------------------------------------------------------------
(* ProcessReply for the reply n to engine e, on w where n has been taken.  *)

Interrupted(w, e) ==
  IF w.data[e].item # None /\ w.it[w.data[e].item].remove THEN "remove" ELSE "reset"

Continue(w, e) ==
  LET v == IF w.data[e].state = "connect" THEN ToConnect(w, e) ELSE w
  IN IF v.q.mode = 0 THEN ResetAndAdvance(v, e, Interrupted(v, e))
                     ELSE Becomes(v) /\ Sending(e)

CountError(w, e) ==
  IF GivesUp(w, e) THEN ResetAndAdvance(Tried(w, e), e, "failure") ELSE Continue(Tried(w, e), e)

IsOtherEngineConnected(w, e) ==
  \E o \in Range(w.q.list) \ {e} : w.data[o].site = w.data[e].site /\ w.en[o].sock

\* An interrupted attempt to connect stops the whole queue.
ReplyCanceled(w, e) ==
  LET i == w.data[e].item
      u == IF i # None /\ ~w.it[i].remove THEN [w EXCEPT !.it[i].progress = FALSE] ELSE w
      v == IF w.data[e].state = "connect" THEN Deactivate(u) ELSE u
  IN ResetAndAdvance(v, e, Interrupted(w, e))

ReplyConnect(w, e, r) ==
  LET u == IF r = "password" THEN [w EXCEPT !.q.known = @ \ (AskedFor \cap {w.data[e].site})]
           ELSE w
  IN IF r = "ok" THEN Continue([w EXCEPT !.data[e].state = Work(w.data[e].item)], e)
     ELSE IF r = "disconnected" /\ IsOtherEngineConnected(w, e) THEN Continue(w, e)
     ELSE CountError(u, e)

\* Fault: a transfer that made progress is taken for one that is complete.
ReplyTransferProgress(w, e, r) ==
  LET i == w.data[e].item IN
  IF r = "ok" \/ (w.it[i].progress /\ r # "write") THEN ResetAndAdvance(w, e, "success")
  ELSE IF r = "write" THEN ResetAndAdvance(w, e, "failure")
  ELSE CountError(w, e)

ReplyTransfer(w, e, r) ==
  LET i == w.data[e].item IN
  IF r = "ok" THEN ResetAndAdvance(w, e, "success")
  ELSE IF w.it[i].progress /\ r # "write" THEN Continue([w EXCEPT !.it[i].progress = FALSE], e)
  ELSE IF r = "write" THEN ResetAndAdvance(w, e, "failure")
  ELSE IF r = "disconnected" /\ e = Primary /\ ~GivesUp(w, e)
    THEN ResetAndAdvance(Tried(w, e), e, "retry")
  ELSE CountError(w, e)

ReplyMkdir(w, e, r) ==
  IF r = "ok" THEN ResetAndAdvance(w, e, "success")
  ELSE IF r = "disconnected" THEN CountError(w, e)
  ELSE ResetAndAdvance(w, e, "failure")

ProcessReply(w0, e, n) ==
  LET i == w0.data[e].item
      state == w0.data[e].state
      \* the transfer status that came before the reply
      w == IF i # None /\ n.progress THEN [w0 EXCEPT !.it[i].progress = TRUE] ELSE w0
  IN
  CASE n.r = "canceled" -> ReplyCanceled(w, e)
    [] n.r # "canceled" /\ state = "disconnect" ->
         Continue([w EXCEPT !.data[e].state = "connect"], e)
    [] n.r # "canceled" /\ state = "connect"  -> ReplyConnect(w, e, n.r)
    [] n.r # "canceled" /\ state = "transfer" -> ReplyTransfer(w, e, n.r)
    [] n.r # "canceled" /\ state = "mkdir"    -> ReplyMkdir(w, e, n.r)
    [] n.r # "canceled" /\ state = "list"     -> ResetAndAdvance(w, e, "remove")
    [] OTHER -> Becomes(w) /\ UNCHANGED main

Taken(e) == [Here EXCEPT !.en[e].notes = Tail(@)]

\* CQueueView::OnEngineEvent
OnEngineEvent(e) ==
  /\ Idle /\ e # Primary /\ en[e].notes # <<>>
  /\ ProcessReply(Taken(e), e, Head(en[e].notes))
  /\ UNCHANGED <<bypassed, actions>>

\* CMainFrame::OnEngineEvent and CCommandQueue::Finish
OnPrimaryEvent ==
  LET w == Taken(Primary) IN
  /\ Idle /\ en[Primary].notes # <<>>
  /\ IF br.lock /\ data[Primary].active
       THEN ProcessReply(w, Primary, Head(en[Primary].notes))
       ELSE /\ Becomes(IF br.lock \/ br.cmds = 0 THEN w
                       ELSE ProcessNextCommand([w EXCEPT !.br.cmds = @ - 1]))
            /\ UNCHANGED main
  /\ UNCHANGED <<bypassed, actions>>

\* The callback of GrantExclusiveEngineRequest; only the last one is current.
\* One that finds no request calls front() on an empty vector.  The storage of
\* the vector still holds the pointer to the queue, the only one to make
\* requests, which rejects the number (GetEngineExclusive); a library that
\* checks its arguments ends the program instead.
OnExclusiveEngineRequestGranted ==
  LET w == [Here EXCEPT !.br.grants = @ - 1]
      current == br.lock /\ br.grants = 1
      i == data[Primary].item
  IN
  /\ Idle /\ br.grants > 0
  /\ \/ ~current /\ Becomes(w) /\ UNCHANGED main
     \/ current /\ ~data[Primary].active /\ Becomes(ReleaseEngine(w)) /\ UNCHANGED main
     \/ /\ current /\ data[Primary].active /\ data[Primary].state # "waitprimary"
        /\ Becomes(w) /\ UNCHANGED main
     \/ /\ current /\ data[Primary].active /\ data[Primary].state = "waitprimary"
        /\ IF br.site # ServerOf(i) THEN ResetAndAdvance(w, Primary, "retry")
           ELSE Becomes([w EXCEPT !.data[Primary].state = Work(i)]) /\ Sending(Primary)
  /\ UNCHANGED <<bypassed, actions>>

\* OnAskPassword up to the dialog, whose event loop runs other handlers.
OnAskPassword ==
  LET e == Head(q.waiting)
      w == [Here EXCEPT !.q.waiting = Tail(@)]
  IN
  /\ Idle /\ q.waiting # <<>> /\ ~q.asking
  /\ \/ data[e].state # "askpassword" /\ Becomes(w) /\ UNCHANGED main
     \/ /\ data[e].state = "askpassword" /\ q.mode = 0
        /\ ResetAndAdvance(Deactivate(w), e, "reset")
     \/ /\ data[e].state = "askpassword" /\ q.mode # 0
        /\ Becomes([Here EXCEPT !.q.asking = TRUE]) /\ UNCHANGED main
  /\ UNCHANGED <<bypassed, actions>>

\* The dialog is over.  The code uses pItem of the engine although a reply
\* handled meanwhile may have ended its work; the model stops there.
PasswordEntered ==
  LET e == Head(q.waiting)
      w == [Here EXCEPT !.q.waiting = Tail(@), !.q.asking = FALSE]
  IN
  /\ Idle /\ q.asking
  /\ \/ /\ data[e].item # None
        /\ Becomes([w EXCEPT !.q.known = @ \cup {data[e].site}, !.data[e].state = "connect"])
        /\ Sending(e)
     \/ ResetAndAdvance(Deactivate(w), e, "reset")
  /\ UNCHANGED <<bypassed, actions>>

\* OnTimer: an engine that has been idle for a minute is disconnected.
OnTimer(e) ==
  LET w == [Here EXCEPT !.data[e].timer = FALSE] IN
  /\ Idle /\ data[e].timer /\ actions < MaxActions /\ actions' = actions + 1
  /\ Becomes(IF en[e].sock /\ ~Busy(Here, e) THEN Execute(w, e, "disconnect") ELSE w)
  /\ UNCHANGED <<main, bypassed>>

-----------------------------------------------------------------------------
(* The user.                                                               *)

Acts == /\ actions < MaxActions /\ Idle /\ q.quit = 0 /\ ~q.asking
        /\ actions' = actions + 1 /\ UNCHANGED bypassed

Start ==
  /\ Acts /\ q.mode = 0 /\ \E i \in Items : it[i].where = "queue"
  /\ Becomes([Here EXCEPT !.q.mode = 2]) /\ Advancing

Stop == Acts /\ q.mode # 0 /\ Becomes(Deactivate(Here)) /\ UNCHANGED main

\* QueueFile and QueueFile_Finish for a new item.
QueueFile(i, start) ==
  LET w == [Here EXCEPT
              !.it[i] = NewItem(@, ~start, 0), !.q.mode = IF @ = 0 /\ start THEN 1 ELSE @]
  IN
  /\ Acts /\ it[i].where = "gone"
  /\ Becomes(w) /\ IF w.q.mode # 0 THEN Advancing ELSE UNCHANGED main

\* CQueueViewFailed::OnRequeueSelected; the mark for removal stays.
RequeueFile(i) ==
  /\ Acts /\ it[i].where \in {"failed", "successful"}
  /\ Becomes([Here EXCEPT !.it[i].where = "queue", !.it[i].errors = 0, !.it[i].done = FALSE])
  /\ IF q.mode # 0 THEN Advancing ELSE UNCHANGED main

\* OnRemoveSelected and StopItem
OnRemoveSelected(i) ==
  LET e == CHOOSE e \in Engines : data[e].active /\ data[e].item = i
      w == [Here EXCEPT !.it[i].remove = TRUE, !.it[i].queued = TRUE]
  IN
  /\ Acts /\ it[i].where = "queue"
  /\ \/ ~it[i].active /\ Becomes([Here EXCEPT !.it[i].where = "gone"]) /\ UNCHANGED main
     \/ /\ it[i].active /\ data[e].state = "waitprimary"
        /\ ResetAndAdvance(w, e, "remove")
     \/ it[i].active /\ data[e].state # "waitprimary" /\ Becomes(Cancel(w, e)) /\ UNCHANGED main

RemoveAll ==
  LET kept(i) == IF i.where # "queue" THEN i
                 ELSE IF i.active THEN [i EXCEPT !.remove = TRUE]
                 ELSE [i EXCEPT !.where = "gone"]
  IN
  /\ Acts
  /\ Becomes(CheckQueueState([Here EXCEPT !.it = [i \in Items |-> kept(it[i])]], None))
  /\ UNCHANGED main

Quit ==
  LET w == Deactivate([Here EXCEPT !.q.quit = 1]) IN
  /\ Acts
  /\ Becomes(IF w.q.count = 0 THEN DeleteEngines(w) ELSE w) /\ UNCHANGED main

\* A command of the browsing connection, which may be one to another site.
Browse(s) ==
  LET w == [Here EXCEPT !.br.site = s, !.br.cmds = @ + 1] IN
  /\ Acts
  /\ Becomes(IF br.cmds = 0 THEN ProcessNextCommand(w) ELSE w) /\ UNCHANGED main

-----------------------------------------------------------------------------
(* The engines' threads.                                                   *)

Ended(e, r, progress) ==
  [en[e] EXCEPT !.cmd = "none", !.item = None, !.run = FALSE,
     !.notes = Append(@, [r |-> r, cmd |-> en[e].cmd, item |-> en[e].item,
                          progress |-> progress])]

\* OnCommandEvent.  To disconnect is done at once: the control socket, if there
\* is one, answers for the engine.  A connect may have to wait out the delay
\* after a failed one (ContinueConnect), and has no control socket until then.
OnCommandEvent(e) ==
  LET taken(x) == [x EXCEPT !.events = Tail(@)]
      c == en[e].cmd
  IN
  /\ q.quit # 2 /\ en[e].events # <<>> /\ Head(en[e].events) = "cmd"
  /\ \/ c \in {"none", "connect"} /\ en' = [en EXCEPT ![e] = taken(@)]
     \/ /\ c = "disconnect"
        /\ en' = [en EXCEPT ![e] =
             [taken(Ended(e, IF @.sock THEN "disconnected" ELSE "ok", FALSE)) EXCEPT !.sock = FALSE]]
     \/ /\ c \notin {"none", "disconnect"}
        /\ en' = [en EXCEPT ![e] = [taken(@) EXCEPT !.run = TRUE, !.sock = TRUE]]
  /\ UNCHANGED <<q, data, it, br, main, bypassed, actions>>

\* OnTimer of the engine: the delay of a connect is over.
ConnectDelayEnds(e) ==
  /\ q.quit # 2 /\ en[e].cmd = "connect" /\ ~en[e].run /\ "cmd" \notin Range(en[e].events)
  /\ en' = [en EXCEPT ![e].run = TRUE, ![e].sock = TRUE]
  /\ UNCHANGED <<q, data, it, br, main, bypassed, actions>>

\* DoCancel; a control socket without an operation ignores it.
DoCancel(e) ==
  LET taken(x) == [x EXCEPT !.events = Tail(@)] IN
  /\ q.quit # 2 /\ en[e].events # <<>> /\ Head(en[e].events) = "cancel"
  /\ en' = [en EXCEPT ![e] =
       IF en[e].cmd # "none" /\ (en[e].run \/ ~en[e].sock)
         THEN taken(Ended(e, "canceled", FALSE)) ELSE taken(@)]
  /\ UNCHANGED <<q, data, it, br, main, bypassed, actions>>

\* A critical error counts as a failed write if the transfer had made no
\* progress, and as any error otherwise.
Outcomes(c) ==
  CASE c = "connect"  -> {"ok", "error", "disconnected"}
                           \cup (IF AskedFor = {} THEN {} ELSE {"password"})
    [] c = "transfer" -> {"ok", "error", "disconnected", "write"}
    [] c = "mkdir"    -> {"ok", "error", "disconnected"}
    [] c \in {"list", "browse"} -> {"ok"}
    [] OTHER          -> {}

\* The operation's end; that of the browsing connection leaves a socket iff
\* there is a site.
OperationEnds(e, r, progress) ==
  /\ q.quit # 2 /\ en[e].run /\ r \in Outcomes(en[e].cmd)
  /\ progress => en[e].cmd = "transfer" /\ r # "write"
  /\ en' = [en EXCEPT ![e] = [Ended(e, r, progress) EXCEPT
       !.sock = IF en[e].cmd = "browse" THEN br.site # None ELSE @]]
  /\ it' = IF r = "ok" /\ en[e].cmd \in {"transfer", "mkdir"}
             THEN [it EXCEPT ![en[e].item].done = TRUE] ELSE it
  /\ UNCHANGED <<q, data, br, main, bypassed, actions>>

-----------------------------------------------------------------------------
Next ==
  \/ \E i \in Items : MakeLocalDir(i) \/ TryStartNextTransfer(i)
  \/ AdvanceQueueEnds \/ SendNextCommand
  \/ \E e \in Engines : OnEngineEvent(e) \/ OnTimer(e)
  \/ OnPrimaryEvent \/ OnExclusiveEngineRequestGranted
  \/ OnAskPassword \/ PasswordEntered
  \/ Start \/ Stop \/ RemoveAll \/ Quit
  \/ \E i \in Items : RequeueFile(i) \/ OnRemoveSelected(i)
  \/ \E i \in Items, start \in BOOLEAN : QueueFile(i, start)
  \/ \E s \in Servers \cup {None} : Browse(s)
  \/ \E e \in Engines : OnCommandEvent(e) \/ ConnectDelayEnds(e) \/ DoCancel(e)
  \/ \E e \in Engines : \E r \in Outcomes(en[e].cmd), progress \in BOOLEAN : OperationEnds(e, r, progress)

Spec == Init /\ [][Next]_vars

-----------------------------------------------------------------------------
ActiveEngines == {e \in Range(q.list) : data[e].active}

PrimaryWorks == Busy(Here, Primary) \/ en[Primary].notes # <<>>

\* Every counter of CQueueView and CServerItem is exact at any time, however
\* transfers end: m_activeCount counts the active engines, the others those
\* that work on an item of the direction or the server; and an item is active
\* iff exactly one active engine works on it, and is then still in the queue.
AccountsExact ==
  LET active == ActiveEngines
      working(P(_)) == {e \in active : data[e].item # None /\ P(data[e].item)}
  IN
  /\ q.count = Cardinality(active)
  /\ q.down = Cardinality(working(Download))
  /\ q.up = Cardinality(working(LAMBDA i : ~Download(i)))
  /\ \A s \in Servers : q.server[s] = Cardinality(working(LAMBDA i : ServerOf(i) = s))
  /\ \A i \in Items :
       IF it[i].active
         THEN it[i].where = "queue" /\ Cardinality(working(LAMBDA j : j = i)) = 1
         ELSE working(LAMBDA j : j = i) = {}

\* Between two handlers, every active engine of the queue waits for something
\* that is going to happen: the reply to a command, the password dialog, or
\* the exclusive use of the primary engine, which is granted or follows the
\* commands of the browsing connection.  An engine that waits for nothing
\* would occupy a transfer forever and keep the program from ending.  Excepted
\* is the primary engine once it has been used without the lock (bypassed),
\* when its reply goes to the browsing connection, or once ReleaseEngine has
\* executed a command whose reply was pending (resent): the reply to the
\* second execution finds an empty list and grants nothing.
ActiveHasOwner ==
  main.pc = "idle" =>
    \A e \in ActiveEngines :
      CASE data[e].state = "askpassword" -> e \in Range(q.waiting)
        [] data[e].state = "waitprimary" ->
             br.request /\ \/ br.lock /\ br.grants > 0
                           \/ ~br.lock /\ br.cmds > 0 /\ PrimaryWorks
                           \/ br.resent
        [] OTHER -> Busy(Here, e) \/ en[e].notes # <<>> \/ (bypassed /\ e = Primary)

\* Between two handlers, the queue asks for or holds the engine of the
\* browsing connection only while it has an active transfer on it: the
\* commands of the browsing connection, which wait for the lock to be
\* released, are not held up by a queue that is done.  In turn, they are not
\* running while the queue uses the engine.  Excepted is an engine that was
\* used without the lock (bypassed); one that waits for a password is not used.
BrowsingReleased ==
  main.pc = "idle" =>
    /\ br.request => data[Primary].active
    /\ br.lock => br.request
    /\ br.cmds > 0 /\ ~br.lock => PrimaryWorks
    /\ data[Primary].active /\ data[Primary].state \notin {"waitprimary", "askpassword"} /\ ~bypassed
         => br.lock /\ en[Primary].cmd # "browse"

\* What the engine e has still to answer about the item i.
Unanswered(e, i) ==
  en[e].item = i \/ \E k \in DOMAIN en[e].notes : en[e].notes[k].item = i

\* A step that moves an item to the list of successful ones is one for the
\* engine that works on it, and the operation on the item has succeeded.
\* ProcessReply takes any reply for one to the engine's last command, and a
\* reply that comes late may be taken for a success: but only while the engine
\* still owes its answer about this item.  The primary engine, once used
\* without the lock (bypassed), may also be answered for the browsing
\* connection.
SuccessIsReal ==
  [][\A i \in Items : it[i].where # "successful" /\ it'[i].where = "successful" =>
       \E e \in Engines : /\ data[e].active /\ data[e].item = i
                          /\ it'[i].done \/ Unanswered(e, i)' \/ (bypassed /\ e = Primary)]_vars

\* Execute never finds an engine of the queue busy: the assertion of
\* SendNextCommand.
NeverBusy ==
  main.pc = "send" /\ data[main.e].state \in {"connect", "transfer", "mkdir"}
    => ~Busy(Here, main.e)

=============================================================================
