------------------------ MODULE TransferQueue_engines ------------------------
(***************************************************************************)
(* What the engines of the queue are doing, for any number of items,       *)
(* servers, engines and actions of the user.  First, that the queue counts *)
(* an item as successful only when the operation on it has succeeded, or   *)
(* while the engine still owes its answer about it: the invariant relates  *)
(* what an engine is doing for the queue to its last command.  That one is *)
(* running, for this work and this item, or its reply is the last to be    *)
(* read, and the item is done if the reply says so.  Second, that the      *)
(* engine the queue borrows from the browsing connection is given back:    *)
(* the invariant relates the request for it and its lock to the list of    *)
(* engines, to what it is doing for the queue and to the browsing          *)
(* connection's own commands.                                              *)
(***************************************************************************)
EXTENDS TransferQueue_proofs

-----------------------------------------------------------------------------
(* A success is real.  The invariant for it relates what an engine of the   *)
(* queue is doing to its command and to the replies that are to be read.    *)

\* The commands whose success completes an item.
Works == {"transfer", "mkdir"}

\* Engine data d: the engine works on an item.
OnItem(d) == d.state \in Works /\ d.item # None

\* The reply that says x is the one to d's work, and not an untrue success.
IsReplyTo(x, d, t) == x.cmd = d.state /\ x.item = d.item /\ (x.r = "ok" => t[d.item].done)

\* The last command of an engine n is for the work of d: it is running, or its
\* reply is the last to be read.
Pending(d, n, t) ==
  IF n.cmd # "none" THEN n.cmd = d.state /\ n.item = d.item
  ELSE n.notes # <<>> /\ IsReplyTo(n.notes[Len(n.notes)], d, t)

\* So it is for an engine that works on an item.  The one of the browsing
\* connection does so under the lock.
Owed(w, e) ==
  OnItem(w.data[e]) => Pending(w.data[e], w.en[e], w.it) /\ (e = Primary => w.br.lock)

\* Only idle engines are disconnected after a minute, and only the one of the
\* browsing connection is waited for.
Plain(e, d) == (d.timer => d.item = None) /\ (e # Primary => d.state # "waitprimary")

\* What may be expected of all engines but those in S.
Fair(w, S) ==
  \A e \in Engines : Plain(e, w.data[e]) /\ (e \in S \/ (bypassed /\ e = Primary) \/ Owed(w, e))

\* The engine to which a command is to be sent owes nothing yet.
HInv == Fair(Here, IF main.pc = "send" THEN {main.e} ELSE {})

\* What SuccessIsReal says of a step.
Earned ==
  \A i \in Items : it[i].where # "successful" /\ it'[i].where = "successful" =>
    \E e \in Engines : /\ data[e].active /\ data[e].item = i
                       /\ it'[i].done \/ Unanswered(e, i)' \/ (bypassed /\ e = Primary)

-----------------------------------------------------------------------------
(* What leaves that as it is.                                               *)

\* The engine works on an item as it has before.
Back(c, d) == OnItem(d) => d.state = c.state /\ d.item = c.item

\* Items are neither done nor undone.
Alike(t, s) == \A i \in Items : s[i].done = t[i].done

\* From u to w nothing that is owed is forgotten.
Mild(u, w) ==
  /\ Alike(u.it, w.it)
  /\ \A e \in Engines : (Plain(e, u.data[e]) => Plain(e, w.data[e])) /\ (Owed(u, e) => Owed(w, e))

\* Nor does an item become successful.
NoneNew(t, s) == \A i \in Items : s[i].where = "successful" => t[i].where = "successful"
Tame(u, w) == Mild(u, w) /\ NoneNew(u.it, w.it)

\* No change.
LEMMA TameSelf ==
  ASSUME NEW w
  PROVE  Tame(w, w)
BY DEF Tame, Mild, Alike, NoneNew

\* One such change after another.
LEMMA MildTwice ==
  ASSUME NEW u, NEW v, NEW w, Mild(u, v), Mild(v, w)
  PROVE  Mild(u, w)
BY DEF Mild, Alike

\* (Tame)
LEMMA TameTwice ==
  ASSUME NEW u, NEW v, NEW w, Tame(u, v), Tame(v, w)
  PROVE  Tame(u, w)
BY MildTwice DEF Tame, NoneNew

\* An item that an engine works on.
LEMMA ItemOf ==
  ASSUME NEW w \in State, NEW e \in Engines
  PROVE  /\ w.data[e] \in EngineData /\ w.data[e].item \in Items \cup {None} /\ w.data[e].active \in BOOLEAN
         /\ w.en[e] \in Engine /\ w.en[e].notes \in Seq(Note)
BY DEF State, EngineData, Engine

\* A mild change keeps what may be expected.
LEMMA MildFair ==
  ASSUME NEW S, NEW u, Fair(u, S), NEW w, Mild(u, w)
  PROVE  Fair(w, S)
BY DEF Mild, Fair

\* Of some engines nothing need be expected.
LEMMA FairBut ==
  ASSUME NEW S, NEW w, Fair(w, S), NEW T, S \subseteq T
  PROVE  Fair(w, T)
BY DEF Fair

\* Of one that works on no item nothing is.
LEMMA FairAll ==
  ASSUME NEW w, NEW e, Fair(w, {e}), ~OnItem(w.data[e])
  PROVE  Fair(w, {})
BY DEF Fair, Owed

\* The engine goes on with its command and its replies, for the same work.
LEMMA GoesOnPending ==
  ASSUME NEW c, NEW d, NEW n, NEW m, NEW t, NEW s, Pending(c, n, t), GoesOn(n, m),
         d.state = c.state, d.item = c.item, t[c.item].done => s[c.item].done
  PROVE  Pending(d, m, s)
BY DEF Pending, IsReplyTo, GoesOn

\* The engines go on with their commands, for the same work.
LEMMA GoesOnMild ==
  ASSUME NEW u \in State, NEW w, Alike(u.it, w.it),
         \A e \in Engines : /\ Back(u.data[e], w.data[e]) /\ GoesOn(u.en[e], w.en[e])
                            /\ Plain(e, u.data[e]) => Plain(e, w.data[e]),
         OnItem(w.data[Primary]) /\ u.br.lock => w.br.lock
  PROVE  Mild(u, w)
<1>1. ASSUME NEW e \in Engines, Owed(u, e), OnItem(w.data[e])
      PROVE  Pending(w.data[e], w.en[e], w.it) /\ (e = Primary => w.br.lock)
  <2>1. w.data[e].state = u.data[e].state /\ w.data[e].item = u.data[e].item
    BY <1>1 DEF Back
  <2>2. OnItem(u.data[e])
    BY <1>1, <2>1 DEF OnItem
  <2>3. Pending(u.data[e], u.en[e], u.it) /\ (e = Primary => u.br.lock)
    BY <1>1, <2>2 DEF Owed
  <2>4. u.data[e].item \in Items
    BY <2>2, ItemOf DEF OnItem
  <2>5. Pending(w.data[e], w.en[e], w.it)
    BY <2>1, <2>3, <2>4, GoesOnPending DEF Alike
  <2> QED
    BY <1>1, <2>3, <2>5
<1> QED
  BY <1>1 DEF Mild, Owed

\* Only the browsing connection and the engines' lists of events are different.
LEMMA BesideTame ==
  ASSUME NEW u \in State, NEW w, Beside(u, w), \A e \in Engines : GoesOn(u.en[e], w.en[e]),
         OnItem(w.data[Primary]) /\ u.br.lock => w.br.lock
  PROVE  Tame(u, w)
<1>1. w.it = u.it /\ w.data = u.data
  BY DEF Beside
<1>2. Alike(u.it, w.it) /\ NoneNew(u.it, w.it) /\ \A e \in Engines : Back(u.data[e], w.data[e])
  BY <1>1 DEF Alike, NoneNew, Back
<1>3. Mild(u, w)
  BY <1>1, <1>2, GoesOnMild
<1> QED
  BY <1>2, <1>3 DEF Tame

\* A command to an engine that works on no item.
LEMMA ExecuteTame ==
  ASSUME NEW w \in State, NEW e \in Engines, NEW c \in Commands, Owed(w, e) => ~OnItem(w.data[e])
  PROVE  Tame(w, Execute(w, e, c))
<1>1. PICK v : v = Execute(w, e, c)
  OBVIOUS
<1>2. Beside(w, v)
  BY <1>1, ExecuteBeside, Zenon
<1>3. \A f \in Engines \ {e} : v.en[f] = w.en[f]
  <2>1. w.en \in [Engines -> Engine]
    BY DEF State
  <2>2. PICK k : k = [w.en[e] EXCEPT !.cmd = c, !.item = w.data[e].item, !.events = Append(@, "cmd")]
    OBVIOUS
  <2>4. v = [w EXCEPT !.en = [w.en EXCEPT ![e] = k]]
    BY <1>1, <2>1, <2>2 DEF Execute, Engine, State
  <2>5. v.en = [w.en EXCEPT ![e] = k]
    BY <2>4 DEF State
  <2> QED
    BY <2>1, <2>5
<1>4. v.br = w.br
  BY <1>1 DEF Execute, State
<1>5. v.it = w.it /\ v.data = w.data
  BY <1>2 DEF Beside
<1>6. ASSUME NEW f \in Engines, Owed(w, f)
      PROVE  Owed(v, f)
  <2>1. CASE f = e
    BY <1>5, <1>6, <2>1 DEF Owed
  <2>2. CASE f # e
    <3>1. v.en[f] = w.en[f]
      BY <1>3, <2>2
    <3> QED
      BY <1>4, <1>5, <1>6, <3>1, Zenon DEF Owed
  <2> QED
    BY <2>1, <2>2
<1>7. Tame(w, v)
  BY <1>5, <1>6 DEF Tame, Mild, Alike, NoneNew
<1> QED
  BY <1>1, <1>7, Zenon

\* A cancellation.
LEMMA CancelTame ==
  ASSUME NEW w \in State, NEW e \in Engines
  PROVE  Tame(w, Cancel(w, e))
<1>1. PICK v : v = Cancel(w, e)
  OBVIOUS
<1>2. Beside(w, v)
  BY <1>1, CancelBeside, Zenon
<1>3. v.br = w.br /\ \A f \in Engines : GoesOn(w.en[f], v.en[f])
  <2>1. w.en \in [Engines -> Engine]
    BY DEF State
  <2>2. PICK k : k = [w.en[e] EXCEPT !.events = Append(@, "cancel")]
    OBVIOUS
  <2>3. k.cmd = w.en[e].cmd /\ k.item = w.en[e].item /\ k.notes = w.en[e].notes
    BY <2>1, <2>2 DEF Engine
  <2>4. v = [w EXCEPT !.en = [w.en EXCEPT ![e] = k]] \/ v = w
    BY <1>1, <2>1, <2>2 DEF Cancel, Engine, State
  <2>5. v.br = w.br /\ (v.en = [w.en EXCEPT ![e] = k] \/ v.en = w.en)
    BY <2>4 DEF State
  <2> QED
    BY <2>1, <2>3, <2>5 DEF GoesOn
<1>4. Tame(w, v)
  BY <1>2, <1>3, BesideTame
<1> QED
  BY <1>1, <1>4, Zenon

\* Only the browsing connection is different, and not in its lock.
LEMMA BrowsingTame ==
  ASSUME NEW u \in State, NEW b \in Browsing, OnItem(u.data[Primary]) /\ u.br.lock => b.lock
  PROVE  LET w == [u EXCEPT !.br = b] IN w \in State /\ Beside(u, w) /\ w.en = u.en /\ Tame(u, w)
<1>1. PICK w : w = [u EXCEPT !.br = b]
  OBVIOUS
<1>2. w \in State /\ Beside(u, w) /\ w.en = u.en /\ w.br = b /\ w.data = u.data
  BY <1>1 DEF State, Beside
<1>3. Tame(u, w)
  BY <1>2, BesideTame DEF GoesOn
<1> QED
  BY <1>1, <1>2, <1>3, Zenon

\* The browsing connection's engine is granted.
LEMMA GrantTame ==
  ASSUME NEW w \in State
  PROVE  Tame(w, GrantExclusiveEngineRequest(w))
<1>1. PICK v : v = GrantExclusiveEngineRequest(w)
  OBVIOUS
<1>2. Beside(w, v)
  BY <1>1, GrantBeside, Zenon
<1>3. v.en = w.en /\ (w.br.lock => v.br.lock)
  <2>1. v = w \/ (v = [w EXCEPT !.br.lock = TRUE, !.br.grants = @ + 1] /\ ~w.br.lock)
    BY <1>1, Zenon DEF GrantExclusiveEngineRequest
  <2>2. [w EXCEPT !.br.lock = TRUE, !.br.grants = @ + 1].en = w.en
    BY DEF State
  <2> QED
    BY <2>1, <2>2, Zenon
<1>4. Tame(w, v)
  BY <1>2, <1>3, BesideTame DEF GoesOn
<1> QED
  BY <1>1, <1>4, Zenon

\* It is asked for.
LEMMA RequestTame ==
  ASSUME NEW w \in State
  PROVE  Tame(w, RequestExclusiveEngine(w))
<1>1. PICK r : r = [w EXCEPT !.br.request = TRUE]
  OBVIOUS
<1>2. r \in State /\ Beside(w, r) /\ r.en = w.en /\ r.br.lock = w.br.lock
  BY <1>1 DEF State, Browsing, Beside
<1>3. Tame(w, r)
  BY <1>2, BesideTame DEF GoesOn
<1>4. Tame(w, GrantExclusiveEngineRequest(r))
  BY <1>2, <1>3, GrantTame, TameTwice
<1>5. RequestExclusiveEngine(w) \in {w, r, GrantExclusiveEngineRequest(r)}
  BY <1>1 DEF RequestExclusiveEngine
<1> QED
  BY <1>3, <1>4, <1>5, TameSelf

\* CCommandQueue::ProcessNextCommand executes its command without the lock.
LEMMA ProcessNextTame ==
  ASSUME NEW w \in State
  PROVE  Tame(w, ProcessNextCommand(w))
<1>1. PICK x : x = Execute(w, Primary, "browse")
  OBVIOUS
<1>2. PICK y : y = [x EXCEPT !.br.resent = @ \/ w.en[Primary].notes # <<>>]
  OBVIOUS
<1>3. Primary \in Engines /\ "browse" \in Commands
  BY DEF Engines, Commands
<1>4. ASSUME ~w.br.lock
      PROVE  Tame(w, y)
  <2>1. Owed(w, Primary) => ~OnItem(w.data[Primary])
    BY <1>4 DEF Owed
  <2>2. Tame(w, x) /\ x \in State
    BY <1>1, <1>3, <2>1, ExecuteTame, ExecuteBeside, Zenon DEF Beside
  <2>3. PICK b \in BOOLEAN : b = (x.br.resent \/ w.en[Primary].notes # <<>>)
    BY <2>2 DEF State, Browsing
  <2>4. PICK c : c = [x.br EXCEPT !.resent = b]
    OBVIOUS
  <2>5. c \in Browsing /\ c.lock = x.br.lock
    BY <2>2, <2>4 DEF State, Browsing
  <2>6. y = [x EXCEPT !.br = c]
    <3>1. y = [x EXCEPT !.br.resent = b]
      BY <1>2, <2>3, Zenon
    <3>2. [x EXCEPT !.br.resent = b] = [x EXCEPT !.br = c]
      BY <2>2, <2>4 DEF State
    <3> QED
      BY <3>1, <3>2, Zenon
  <2>7. Tame(x, y)
    BY <2>2, <2>5, <2>6, BrowsingTame, Zenon
  <2> QED
    BY <2>2, <2>7, TameTwice, Zenon
<1>5. CASE w.br.lock
  BY <1>5, TameSelf, Zenon DEF ProcessNextCommand
<1>6. CASE ~w.br.lock
  <2>1. ProcessNextCommand(w) \in {w, y, GrantExclusiveEngineRequest(w)}
    BY <1>1, <1>2, Zenon DEF ProcessNextCommand
  <2> QED
    BY <1>4, <1>6, <2>1, TameSelf, GrantTame
<1> QED
  BY <1>5, <1>6

\* The engine is given back when it does not work on an item.
LEMMA ReleaseTame ==
  ASSUME NEW w \in State, ~OnItem(w.data[Primary])
  PROVE  Tame(w, ReleaseEngine(w))
<1>1. PICK r : r = [w EXCEPT !.br.request = FALSE, !.br.lock = FALSE]
  OBVIOUS
<1>2. r \in State /\ Beside(w, r) /\ r.en = w.en /\ r.data = w.data
  BY <1>1 DEF State, Browsing, Beside
<1>3. Tame(w, r)
  BY <1>2, BesideTame DEF GoesOn
<1>4. Tame(w, ProcessNextCommand(r))
  BY <1>2, <1>3, ProcessNextTame, TameTwice
<1>5. ReleaseEngine(w) \in {w, ProcessNextCommand(r)}
  BY <1>1, Zenon DEF ReleaseEngine
<1> QED
  BY <1>4, <1>5, TameSelf

-----------------------------------------------------------------------------
(* The end of an engine's work.                                             *)

\* Uncount: an item becomes successful only if that is the reason.
LEMMA UncountTame ==
  ASSUME NEW w, Good(w), NEW e \in Engines, w.data[e].active, NEW reason \in Reasons,
         NEW u, u = Uncount(w, e, reason)
  PROVE  \A i \in Items :
           /\ u.it[i].done = w.it[i].done
           /\ u.it[i].where = "successful" =>
                w.it[i].where = "successful" \/ (reason = "success" /\ i = w.data[e].item)
<1>1. /\ w \in State /\ w.q \in QueueState /\ w.it \in [Items -> Item]
      /\ w.data[e].item \in Items \cup {None}
  BY DEF Good, State, EngineData
<1>2. CASE w.data[e].item = None
  <2>1. u = [w EXCEPT !.q.count = @ - 1]
    BY <1>2, Zenon DEF Uncount
  <2>2. u.it = w.it
    BY <1>1, <2>1 DEF State
  <2> QED
    BY <2>2
<1>3. CASE w.data[e].item # None
  <2>1. PICK i \in Items : i = w.data[e].item
    BY <1>1, <1>3
  <2>2. PICK x : x = ItemAfter(w.it[i], reason)
    OBVIOUS
  <2>3. x.done = w.it[i].done /\ (x.where = "successful" => w.it[i].where = "successful" \/ reason = "success")
    <3>1. PICK z \in Item : z = w.it[i]
      BY <1>1
    <3>2. x = ItemAfter(z, reason)
      BY <2>2, <3>1, Zenon
    <3>3. x.done = z.done /\ (x.where = "successful" => z.where = "successful" \/ reason = "success")
      BY <3>2 DEF ItemAfter, Item, Reasons
    <3> QED
      BY <3>1, <3>3, Zenon
  <2>4. PICK s, c, m, dn, up :
          /\ s = ServerOf(i)
          /\ c = w.q.count - 1
          /\ m = w.q.server[s] - 1
          /\ dn = IF Download(i) THEN w.q.down - 1 ELSE w.q.down
          /\ up = IF Download(i) THEN w.q.up ELSE w.q.up - 1
    OBVIOUS
  <2>6. u = [w EXCEPT !.q.count = c, !.q.server[s] = m, !.q.down = dn, !.q.up = up, !.it[i] = x]
    <3>1. Uncount(w, e, reason) = [w EXCEPT !.q.count = c, !.q.server[s] = m, !.q.down = dn, !.q.up = up, !.it[i] = x]
      BY <1>3, <2>1, <2>2, <2>4, Zenon DEF Uncount
    <3> QED
      BY <3>1, Zenon
  <2>7. PICK p : p = [w.q EXCEPT !.count = c, !.server = [w.q.server EXCEPT ![s] = m], !.down = dn, !.up = up]
    OBVIOUS
  <2>8. PICK t : t = [w.it EXCEPT ![i] = x]
    OBVIOUS
  <2>9. [w EXCEPT !.q.count = c, !.q.server[s] = m, !.q.down = dn, !.q.up = up, !.it[i] = x] = [w EXCEPT !.q = p, !.it = t]
    BY <1>1, <2>7, <2>8 DEF State, QueueState
  <2>10. u = [w EXCEPT !.q = p, !.it = t]
    BY <2>6, <2>9, Zenon
  <2>5. u.it = [w.it EXCEPT ![i] = x]
    BY <1>1, <2>8, <2>10 DEF State
  <2> QED
    BY <1>1, <2>1, <2>3, <2>5
<1> QED
  BY <1>2, <1>3

\* ResetEngine for an active engine: the engine is idle after what came before.
IsIdleAfter(v, r, e) ==
  v = [r EXCEPT !.data[e].active = FALSE, !.data[e].item = None, !.data[e].state = "none"]

\* That is so after ResetEngine.
LEMMA ResetShape ==
  ASSUME NEW w, NEW e, NEW reason, w.data[e].active, NEW u, u = Uncount(w, e, reason),
         NEW r, r = IF w.data[e].state = "waitprimary" THEN ReleaseEngine(u) ELSE u,
         NEW v, v = ResetEngine(w, e, reason)
  PROVE  IsIdleAfter(v, r, e)
<1>1. ResetEngine(w, e, reason) = [r EXCEPT !.data[e].active = FALSE, !.data[e].item = None, !.data[e].state = "none"]
  BY Zenon DEF ResetEngine
<1> QED
  BY <1>1, Zenon DEF IsIdleAfter

\* ResetEngine: what it leaves of the items and the engines.
LEMMA ResetLeaves ==
  ASSUME NEW w, Good(w), NEW e \in Engines, Plain(e, w.data[e]), w.data[e].active,
         NEW reason \in Reasons, NEW v, v = ResetEngine(w, e, reason)
  PROVE  /\ \A i \in Items : v.it[i].where = "successful" =>
                w.it[i].where = "successful" \/ (reason = "success" /\ i = w.data[e].item)
         /\ Mild(w, v) /\ ~OnItem(v.data[e])
         /\ OnItem(w.data[e]) => v.en = w.en
<1>1. PICK u : u = Uncount(w, e, reason)
  OBVIOUS
<1>2. \A i \in Items :
        /\ u.it[i].done = w.it[i].done
        /\ u.it[i].where = "successful" =>
             w.it[i].where = "successful" \/ (reason = "success" /\ i = w.data[e].item)
  BY <1>1, UncountTame
<1>3. u \in State /\ u.en = w.en /\ u.data = w.data /\ u.br = w.br
  <2>1. Uncounted(w, u, w.data[e].item)
    BY <1>1, UncountFacts
  <2> QED
    BY <2>1 DEF Uncounted
<1>4. PICK r : r = IF w.data[e].state = "waitprimary" THEN ReleaseEngine(u) ELSE u
  OBVIOUS
<1>5. Beside(u, r) /\ Tame(u, r)
  <2>1. CASE w.data[e].state = "waitprimary"
    <3>1. e = Primary
      BY <2>1 DEF Plain
    <3>2. ~OnItem(u.data[Primary])
      BY <1>3, <2>1, <3>1 DEF OnItem, Works
    <3> QED
      BY <1>3, <1>4, <2>1, <3>2, ReleaseBeside, ReleaseTame
  <2>2. CASE w.data[e].state # "waitprimary"
    BY <1>3, <1>4, <2>2, TameSelf DEF Beside
  <2> QED
    BY <2>1, <2>2
<1>6. IsIdleAfter(v, r, e)
  BY <1>1, <1>4, ResetShape
<1>7. r \in State /\ r.it = u.it /\ r.data = u.data
  BY <1>5 DEF Beside
<1>8. /\ v.it = r.it /\ v.en = r.en /\ v.br = r.br
      /\ \A f \in Engines \ {e} : v.data[f] = r.data[f]
      /\ v.data[e].item = None /\ v.data[e].state = "none" /\ v.data[e].timer = r.data[e].timer
  <2>1. v.it = r.it /\ v.en = r.en /\ v.br = r.br
    BY <1>6, <1>7 DEF State, IsIdleAfter
  <2>2. /\ \A f \in Engines \ {e} : v.data[f] = r.data[f]
        /\ v.data[e].item = None /\ v.data[e].state = "none" /\ v.data[e].timer = r.data[e].timer
    BY <1>6, <1>7 DEF State, IsIdleAfter, EngineData
  <2> QED
    BY <2>1, <2>2
<1>9. ~OnItem(v.data[e])
  BY <1>8 DEF OnItem
<1>10. Mild(r, v)
  <2>1. ASSUME NEW f \in Engines
        PROVE  /\ Back(r.data[f], v.data[f]) /\ GoesOn(r.en[f], v.en[f])
               /\ Plain(f, r.data[f]) => Plain(f, v.data[f])
    <3>1. CASE f = e
      BY <1>8, <1>9, <3>1 DEF Back, Plain, GoesOn
    <3>2. CASE f # e
      BY <1>8, <3>2 DEF Back, GoesOn
    <3> QED
      BY <3>1, <3>2
  <2> QED
    BY <1>7, <1>8, <2>1, GoesOnMild DEF Alike
<1>11. Mild(w, v)
  <2>1. Mild(w, u)
    BY <1>2, <1>3, GoesOnMild DEF Good, Alike, GoesOn, Back
  <2>2. Mild(u, r)
    BY <1>5 DEF Tame
  <2> QED
    BY <1>10, <2>1, <2>2, MildTwice
<1>12. OnItem(w.data[e]) => v.en = w.en
  BY <1>3, <1>4, <1>8 DEF OnItem, Works
<1> QED
  BY <1>2, <1>7, <1>8, <1>9, <1>11, <1>12

\* An engine is reset, and its item not counted as successful.
LEMMA ResetTame ==
  ASSUME NEW w, Good(w), NEW e \in Engines, Plain(e, w.data[e]), NEW reason \in Reasons \ {"success"}
  PROVE  Tame(w, ResetEngine(w, e, reason)) /\ ~OnItem(ResetEngine(w, e, reason).data[e])
<1>1. PICK v : v = ResetEngine(w, e, reason)
  OBVIOUS
<1>2. CASE w.data[e].active
  <2>1. Tame(w, v) /\ ~OnItem(v.data[e])
    BY <1>1, <1>2, ResetLeaves DEF Tame, NoneNew
  <2> QED
    BY <1>1, <2>1, Zenon
<1>3. CASE ~w.data[e].active
  <2>1. v = w
    BY <1>1, <1>3, Zenon DEF ResetEngine
  <2>2. ~OnItem(w.data[e])
    BY <1>3 DEF Good, Assigned, OnItem
  <2>3. Tame(w, v) /\ ~OnItem(v.data[e])
    BY <2>1, <2>2, TameSelf
  <2> QED
    BY <1>1, <2>3, Zenon
<1> QED
  BY <1>2, <1>3

-----------------------------------------------------------------------------
(* CheckQueueState and SetActive(false).                                    *)

\* The timers of idle engines.
LEMMA IdleTimersTame ==
  ASSUME NEW w, Good(w)
  PROVE  Tame(w, IdleTimers(w))
<1>1. PICK v : v = IdleTimers(w)
  OBVIOUS
<1>2. w \in State
  BY DEF Good
<1>3. v.it = w.it /\ v.en = w.en /\ v.br = w.br
  BY <1>1, <1>2 DEF IdleTimers, State
<1>4. ASSUME NEW e \in Engines
      PROVE  Back(w.data[e], v.data[e]) /\ (Plain(e, w.data[e]) => Plain(e, v.data[e]))
  <2>1. v.data[e] = w.data[e] \/ (~w.data[e].active /\ v.data[e] = [w.data[e] EXCEPT !.timer = w.en[e].sock])
    BY <1>1, <1>2 DEF IdleTimers, State
  <2>2. PICK z \in EngineData : z = w.data[e]
    BY <1>2, ItemOf
  <2>3. v.data[e] = z \/ (~z.active /\ v.data[e] = [z EXCEPT !.timer = w.en[e].sock])
    BY <2>1, <2>2, Zenon
  <2>4. ~z.active => z.item = None
    BY <2>2 DEF Good, Assigned
  <2>5. Back(z, v.data[e]) /\ (Plain(e, z) => Plain(e, v.data[e]))
    BY <2>3, <2>4 DEF EngineData, Back, Plain
  <2> QED
    BY <2>2, <2>5, Zenon
<1>5. Tame(w, v)
  BY <1>2, <1>3, <1>4, GoesOnMild DEF Tame, Alike, NoneNew, GoesOn
<1> QED
  BY <1>1, <1>5, Zenon

\* The refresh of a listing takes up an engine that was idle.
LEMMA TryRefreshTame ==
  ASSUME NEW w, Good(w), NEW refresh, NEW v, v = TryRefreshListings(w, refresh)
  PROVE  Tame(w, v)
<1>1. CASE refresh \notin Refreshable(w)
  <2>1. v = w
    BY <1>1 DEF TryRefreshListings
  <2> QED
    BY <2>1, TameSelf
<1>2. CASE refresh \in Refreshable(w)
  <2>1. w \in State /\ w.q \in QueueState
    BY DEF Good, State
  <2>2. PICK e \in Engines : e = refresh
    <3>1. refresh \in Range(w.q.list)
      BY <1>2 DEF Refreshable
    <3>2. w.q.list \in Seq(Engines)
      BY <2>1 DEF QueueState
    <3> QED
      BY <3>1, <3>2 DEF Range
  <2>3. ~w.data[e].active
    BY <1>2, <2>2 DEF Refreshable
  <2>4. PICK x : x = Execute(w, e, "list")
    OBVIOUS
  <2>5. "list" \in Commands /\ ~OnItem(w.data[e])
    BY <2>3 DEF Commands, Good, Assigned, OnItem
  <2>6. Beside(w, x) /\ x \in State /\ Tame(w, x)
    BY <2>1, <2>4, <2>5, ExecuteBeside, ExecuteTame, Zenon DEF Beside
  <2>7. v = [x EXCEPT !.q.count = @ + 1, !.data[e].active = TRUE, !.data[e].state = "list"]
    BY <1>2, <2>2, <2>4, Zenon DEF TryRefreshListings
  <2>8. PICK n : n = x.q.count + 1
    OBVIOUS
  <2>9. v = [x EXCEPT !.q.count = n, !.data[e].active = TRUE, !.data[e].state = "list"]
    BY <2>7, <2>8, Zenon
  <2>10. /\ v.en = x.en /\ v.it = x.it /\ v.br = x.br
         /\ \A f \in Engines \ {e} : v.data[f] = x.data[f]
         /\ v.data[e].state = "list" /\ v.data[e].timer = x.data[e].timer /\ v.data[e].item = x.data[e].item
    BY <2>6, <2>9 DEF State, EngineData
  <2>11. ASSUME NEW f \in Engines
         PROVE  Back(x.data[f], v.data[f]) /\ (Plain(f, x.data[f]) => Plain(f, v.data[f]))
    BY <2>10 DEF Back, Plain, OnItem, Works
  <2>12. Mild(x, v)
    BY <2>6, <2>10, <2>11, GoesOnMild DEF Alike, GoesOn
  <2>13. Tame(x, v)
    BY <2>10, <2>12 DEF Tame, NoneNew
  <2> QED
    BY <2>6, <2>13, TameTwice
<1> QED
  BY <1>1, <1>2

\* The program ends.
LEMMA DeleteEnginesTame ==
  ASSUME NEW w, Good(w)
  PROVE  Tame(w, DeleteEngines(w))
<1>1. PICK v : v = DeleteEngines(w)
  OBVIOUS
<1>2. w \in State
  BY DEF Good
<1>3. /\ v.en = w.en /\ v.it = w.it
      /\ \A e \in Engines : v.data[e] = NoData
  BY <1>1, <1>2 DEF DeleteEngines, State
<1>4. \A e \in Engines : ~OnItem(v.data[e]) /\ Plain(e, v.data[e])
  BY <1>3 DEF NoData, OnItem, Plain
<1>5. Tame(w, v)
  BY <1>3, <1>4 DEF Tame, Mild, Alike, NoneNew, Owed
<1> QED
  BY <1>1, <1>5, Zenon

\* The queue stops, or starts.
LEMMA ModeTame ==
  ASSUME NEW w, Good(w), NEW m \in 0..2
  PROVE  Tame(w, [w EXCEPT !.q.mode = m])
<1>1. PICK v : v = [w EXCEPT !.q.mode = m]
  OBVIOUS
<1>2. w \in State
  BY DEF Good
<1>3. v.en = w.en /\ v.it = w.it /\ v.data = w.data /\ v.br = w.br
  BY <1>1, <1>2 DEF State
<1>5. Tame(w, v)
  BY <1>3 DEF Tame, Mild, Alike, NoneNew, Owed
<1> QED
  BY <1>1, <1>5, Zenon

\* The borrowed engine, idle, is forgotten.
LEMMA ForgetPrimaryTame ==
  ASSUME NEW w, Good(w), ~w.data[Primary].active,
         NEW v, v = [w EXCEPT !.q.list = Without(@, Primary), !.data[Primary] = NoData]
  PROVE  Tame(w, v) /\ ~OnItem(v.data[Primary])
<1>1. w \in State
  BY DEF Good
<1>2. PICK l : l = Without(w.q.list, Primary)
  OBVIOUS
<1>3. v = [w EXCEPT !.q.list = l, !.data[Primary] = NoData]
  BY <1>2, Zenon
<1>4. /\ v.en = w.en /\ v.it = w.it /\ v.br = w.br
      /\ v.data[Primary] = NoData /\ \A f \in Engines \ {Primary} : v.data[f] = w.data[f]
  <2>1. PICK p : p = [w.q EXCEPT !.list = l]
    OBVIOUS
  <2>2. PICK d : d = [w.data EXCEPT ![Primary] = NoData]
    OBVIOUS
  <2>3. v = [w EXCEPT !.q = p, !.data = d]
    BY <1>1, <1>3, <2>1, <2>2 DEF State
  <2>4. v.en = w.en /\ v.it = w.it /\ v.br = w.br /\ v.data = d
    BY <1>1, <2>3 DEF State
  <2>5. d[Primary] = NoData /\ \A f \in Engines \ {Primary} : d[f] = w.data[f]
    BY <1>1, <2>2 DEF State, Engines
  <2> QED
    BY <2>1, <2>4, <2>5, Zenon
<1>5. ~OnItem(v.data[Primary]) /\ Plain(Primary, v.data[Primary])
  BY <1>4 DEF OnItem, Plain, NoData
<1>6. ASSUME NEW e \in Engines
      PROVE  /\ Back(w.data[e], v.data[e]) /\ GoesOn(w.en[e], v.en[e])
             /\ Plain(e, w.data[e]) => Plain(e, v.data[e])
  BY <1>4, <1>5 DEF Back, GoesOn
<1>7. Mild(w, v)
  BY <1>1, <1>4, <1>5, <1>6, GoesOnMild DEF Alike
<1> QED
  BY <1>4, <1>5, <1>7 DEF Tame, NoneNew

\* CheckQueueState
LEMMA CheckQueueStateTame ==
  ASSUME NEW w, Good(w), NEW refresh
  PROVE  Tame(w, CheckQueueState(w, refresh))
<1>1. PICK b : b = [w EXCEPT !.q.list = Without(@, Primary), !.data[Primary] = NoData]
  OBVIOUS
<1>2. PICK u : u = IF Primary \in Range(w.q.list) /\ ~w.data[Primary].active THEN ReleaseEngine(b) ELSE w
  OBVIOUS
<1>3. Good(u) /\ Tame(w, u)
  <2>1. CASE Primary \in Range(w.q.list) /\ ~w.data[Primary].active
    <3>1. Good(b) /\ Tame(w, b) /\ ~OnItem(b.data[Primary])
      BY <1>1, <2>1, ForgetPrimaryGood, ForgetPrimaryTame, Zenon
    <3>2. b \in State
      BY <3>1 DEF Good
    <3>3. Good(ReleaseEngine(b)) /\ Tame(b, ReleaseEngine(b))
      BY <3>1, <3>2, ReleaseBeside, BesideGood, ReleaseTame
    <3>4. Tame(w, ReleaseEngine(b))
      BY <3>1, <3>3, TameTwice
    <3> QED
      BY <1>2, <2>1, <3>3, <3>4, Zenon
  <2>2. CASE ~(Primary \in Range(w.q.list) /\ ~w.data[Primary].active)
    BY <1>2, <2>2, TameSelf, Zenon
  <2> QED
    BY <2>1, <2>2
<1>4. PICK x : x = [u EXCEPT !.q.mode = 0]
  OBVIOUS
<1>5. Good(x) /\ Tame(w, x)
  <2>1. 0 \in 0..2
    OBVIOUS
  <2>2. Good(x) /\ Tame(u, x)
    BY <1>3, <1>4, <2>1, ModeGood, ModeTame, Zenon
  <2> QED
    BY <1>3, <2>2, TameTwice
<1>6. PICK v : v = IF u.q.count = 0 /\ u.q.mode # 0 THEN TryRefreshListings(x, refresh) ELSE u
  OBVIOUS
<1>7. Good(v) /\ Tame(w, v)
  <2>1. CASE u.q.count = 0 /\ u.q.mode # 0
    <3>1. v = TryRefreshListings(x, refresh)
      BY <1>6, <2>1, Zenon
    <3>2. Good(v) /\ Tame(x, v)
      BY <1>5, <3>1, TryRefreshGood, TryRefreshTame
    <3> QED
      BY <1>5, <3>2, TameTwice
  <2>2. CASE ~(u.q.count = 0 /\ u.q.mode # 0)
    BY <1>3, <1>6, <2>2, Zenon
  <2> QED
    BY <2>1, <2>2
<1>8. CheckQueueState(w, refresh) = IF u.q.count = 0 /\ u.q.quit = 1 THEN DeleteEngines(v) ELSE v
  <2> DEFINE C == Primary \in Range(w.q.list) /\ ~w.data[Primary].active
             B == [w EXCEPT !.q.list = Without(@, Primary), !.data[Primary] = NoData]
             U == IF C THEN ReleaseEngine(B) ELSE w
             X(y) == [y EXCEPT !.q.mode = 0]
             V(y) == IF y.q.count = 0 /\ y.q.mode # 0 THEN TryRefreshListings(X(y), refresh) ELSE y
             R(y) == IF y.q.count = 0 /\ y.q.quit = 1 THEN DeleteEngines(V(y)) ELSE V(y)
  <2>1. CheckQueueState(w, refresh) = R(U)
    BY Zenon DEF CheckQueueState
  <2>2. u = U
    <3>1. b = B
      BY <1>1, Zenon
    <3> HIDE DEF B
    <3>2. u = IF C THEN ReleaseEngine(b) ELSE w
      BY <1>2, Zenon
    <3> HIDE DEF C
    <3>3. (IF C THEN ReleaseEngine(b) ELSE w) = IF C THEN ReleaseEngine(B) ELSE w
      <4>1. CASE C
        BY <3>1, <4>1, Zenon
      <4>2. CASE ~C
        BY <4>2, Zenon
      <4> QED
        BY <4>1, <4>2, Zenon
    <3> QED
      BY <3>2, <3>3, Zenon
  <2>3. x = X(u)
    BY <1>4, Zenon
  <2>4. v = V(u)
    BY <1>6, <2>3, Zenon
  <2> HIDE DEF U, V
  <2>5. R(U) = R(u)
    BY <2>2, Zenon
  <2>6. R(u) = IF u.q.count = 0 /\ u.q.quit = 1 THEN DeleteEngines(v) ELSE v
    BY <2>4, Zenon
  <2> QED
    BY <2>1, <2>5, <2>6, Zenon
<1>9. Tame(w, DeleteEngines(v))
  BY <1>7, DeleteEnginesTame, TameTwice
<1> QED
  BY <1>7, <1>8, <1>9, Zenon

\* Only items have changed, and not in whether they are done or successful.
LEMMA ItemsTame ==
  ASSUME NEW w \in State, NEW t, Alike(w.it, t), NoneNew(w.it, t)
  PROVE  Tame(w, [w EXCEPT !.it = t])
<1>1. PICK v : v = [w EXCEPT !.it = t]
  OBVIOUS
<1>2. v.br = w.br /\ v.data = w.data /\ v.en = w.en /\ v.it = t
  BY <1>1 DEF State
<1>3. Tame(w, v)
  BY <1>2, GoesOnMild DEF Tame, GoesOn, Back
<1> QED
  BY <1>1, <1>3, Zenon

\* The items of a queue that is stopped are no longer immediate.
LEMMA ImmediateTame ==
  ASSUME NEW w, Good(w)
  PROVE  Tame(w, QueueImmediateFiles(w))
<1>1. w \in State /\ w.it \in [Items -> Item]
  BY DEF Good, State
<1>2. PICK t : t = [i \in Items |-> IF w.it[i].where = "queue" /\ ~w.it[i].active
                                    THEN [w.it[i] EXCEPT !.queued = TRUE] ELSE w.it[i]]
  OBVIOUS
<1>3. ASSUME NEW i \in Items
      PROVE  t[i].done = w.it[i].done /\ t[i].where = w.it[i].where
  <2>1. PICK z \in Item : z = w.it[i]
    BY <1>1
  <2>2. t[i] = z \/ t[i] = [z EXCEPT !.queued = TRUE]
    BY <1>2, <2>1, Zenon
  <2>3. t[i].done = z.done /\ t[i].where = z.where
    BY <2>1, <2>2 DEF Item
  <2> QED
    BY <2>1, <2>3, Zenon
<1>4. Alike(w.it, t) /\ NoneNew(w.it, t)
  BY <1>3 DEF Alike, NoneNew
<1>5. QueueImmediateFiles(w) = [w EXCEPT !.it = t]
  BY <1>2, Zenon DEF QueueImmediateFiles
<1> QED
  BY <1>1, <1>4, <1>5, ItemsTame, Zenon

\* SetActive(false) resets only the engine that waits for the primary one.
LEMMA DeactivateTame ==
  ASSUME NEW w, Good(w), Plain(Primary, w.data[Primary])
  PROVE  Tame(w, Deactivate(w))
<1> DEFINE W == [w EXCEPT !.q.mode = 0]
           H == {e \in Range(w.q.list) : w.data[e].active} \ Missed(w)
           N(x) == [e \in Engines |-> IF e \in H \ (IF Waits(w) THEN {Primary} ELSE {}) /\ Busy(w, e)
                                      THEN [x.en[e] EXCEPT !.events = Append(@, "cancel")] ELSE x.en[e]]
           V(x) == [x EXCEPT !.en = N(x)]
           D(x) == IF Waits(w) THEN CheckQueueState(IdleTimers(ResetEngine(V(x), Primary, "reset")), None) ELSE V(x)
<1>1. PICK u : u = QueueImmediateFiles(W)
  OBVIOUS
<1>2. Good(u) /\ Tame(w, u) /\ u.data = w.data
  <2>1. 0 \in 0..2
    OBVIOUS
  <2>2. Good(W) /\ Tame(w, W) /\ W.data = w.data
    BY <2>1, ModeGood, ModeTame, Zenon
  <2>3. Good(u) /\ Tame(W, u) /\ u.data = W.data
    BY <1>1, <2>2, ImmediateGood, ImmediateTame, Zenon
  <2> HIDE DEF W
  <2> QED
    BY <2>2, <2>3, TameTwice
<1>3. u \in State /\ u.en \in [Engines -> Engine]
  BY <1>2 DEF Good, State
<1>4. ASSUME NEW e \in Engines
      PROVE  N(u)[e] \in Engine /\ GoesOn(u.en[e], N(u)[e])
  <2>1. PICK z \in Engine : z = u.en[e]
    BY <1>3
  <2>2. PICK ev : ev = Append(z.events, "cancel")
    OBVIOUS
  <2>3. ev \in Seq({"cmd", "cancel"})
    BY <2>1, <2>2 DEF Engine
  <2>4. PICK y : y = [z EXCEPT !.events = ev]
    OBVIOUS
  <2>5. y \in Engine /\ GoesOn(z, y) /\ GoesOn(z, z)
    BY <2>3, <2>4 DEF Engine, GoesOn
  <2>6. N(u)[e] \in {z, y}
    <3>1. N(u)[e] \in {u.en[e], [u.en[e] EXCEPT !.events = Append(@, "cancel")]}
      BY Zenon
    <3> QED
      BY <2>1, <2>2, <2>4, <3>1, Zenon
  <2> HIDE DEF N
  <2> QED
    BY <2>1, <2>5, <2>6
<1>5. Good(V(u)) /\ Tame(u, V(u)) /\ V(u).data = u.data
  <2>1. PICK n : n = N(u)
    OBVIOUS
  <2>2. n \in [Engines -> Engine] /\ \A e \in Engines : GoesOn(u.en[e], n[e])
    <3>1. N(u) = [e \in Engines |-> N(u)[e]]
      OBVIOUS
    <3> HIDE DEF N
    <3> QED
      BY <1>4, <2>1, <3>1
  <2>3. PICK v : v = [u EXCEPT !.en = n]
    OBVIOUS
  <2>4. Beside(u, v)
    BY <1>3, <2>2, <2>3, EnginesBeside, Zenon
  <2>5. v.en = n /\ v.data = u.data /\ v.br = u.br
    BY <1>3, <2>3 DEF State
  <2>6. Good(v) /\ Tame(u, v)
    BY <1>2, <1>3, <2>2, <2>4, <2>5, BesideGood, BesideTame
  <2> QED
    BY <2>1, <2>3, <2>5, <2>6, Zenon
<1>6. Tame(u, D(u))
  <2> HIDE DEF V
  <2>1. CASE Waits(w)
    <3>1. Primary \in Engines /\ "reset" \in Reasons \ {"success"} /\ "reset" \in Reasons
      BY DEF Engines, Reasons
    <3>2. Plain(Primary, V(u).data[Primary])
      BY <1>2, <1>5
    <3>3. PICK r : r = ResetEngine(V(u), Primary, "reset")
      OBVIOUS
    <3>4. Good(r) /\ Tame(V(u), r)
      BY <1>5, <3>1, <3>2, <3>3, ResetGood, ResetTame, Zenon
    <3>5. PICK y : y = IdleTimers(r)
      OBVIOUS
    <3>6. Good(y) /\ Tame(r, y)
      BY <3>4, <3>5, IdleTimersGood, IdleTimersTame, Zenon
    <3>7. Tame(y, CheckQueueState(y, None))
      BY <3>6, CheckQueueStateTame
    <3>8. Tame(u, CheckQueueState(y, None))
      BY <1>5, <3>4, <3>6, <3>7, TameTwice
    <3> QED
      BY <2>1, <3>3, <3>5, <3>8, Zenon
  <2>2. CASE ~Waits(w)
    BY <1>5, <2>2, Zenon
  <2> QED
    BY <2>1, <2>2
<1>7. Deactivate(w) = D(QueueImmediateFiles(W))
  BY Zenon DEF Deactivate
<1>8. D(QueueImmediateFiles(W)) = D(u)
  <2> HIDE DEF D
  <2> QED
    BY <1>1, Zenon
<1> HIDE DEF D
<1> QED
  BY <1>2, <1>6, <1>7, <1>8, TameTwice, Zenon

-----------------------------------------------------------------------------
(* The steps of the main thread.                                            *)

\* Another try is counted.
LEMMA TriedTame ==
  ASSUME NEW w, Good(w), NEW e \in Engines
  PROVE  Tame(w, Tried(w, e))
<1>1. w \in State /\ w.it \in [Items -> Item]
  BY DEF Good, State
<1>2. PICK i : i = w.data[e].item
  OBVIOUS
<1>3. PICK x : x = [w.it[i] EXCEPT !.errors = @ + 1]
  OBVIOUS
<1>4. PICK t : t = [w.it EXCEPT ![i] = x]
  OBVIOUS
<1>5. Tried(w, e) = [w EXCEPT !.it = t]
  <2>1. Tried(w, e) = [w EXCEPT !.it[i].errors = @ + 1]
    BY <1>2, Zenon DEF Tried
  <2>2. [w EXCEPT !.it[i].errors = @ + 1] = [w EXCEPT !.it = [w.it EXCEPT ![i].errors = @ + 1]]
    BY <1>1 DEF State
  <2> QED
    BY <1>3, <1>4, <2>1, <2>2, Zenon
<1>6. ASSUME NEW j \in Items
      PROVE  t[j].done = w.it[j].done /\ t[j].where = w.it[j].where
  <2>1. PICK z \in Item : z = w.it[j]
    BY <1>1
  <2>2. CASE i = j
    <3>1. t[j] = [z EXCEPT !.errors = z.errors + 1]
      BY <1>1, <1>3, <1>4, <2>1, <2>2
    <3>2. t[j].done = z.done /\ t[j].where = z.where
      BY <3>1 DEF Item
    <3> QED
      BY <2>1, <3>2, Zenon
  <2>3. CASE i # j
    BY <1>1, <1>4, <2>3
  <2> QED
    BY <2>2, <2>3
<1>7. Alike(w.it, t) /\ NoneNew(w.it, t)
  BY <1>6 DEF Alike, NoneNew
<1> QED
  BY <1>1, <1>5, <1>7, ItemsTame, Zenon

\* The progress of an item is noted or forgotten.
LEMMA ProgressTame ==
  ASSUME NEW w, Good(w), NEW i, NEW b \in BOOLEAN
  PROVE  Tame(w, [w EXCEPT !.it[i].progress = b])
<1>1. w \in State /\ w.it \in [Items -> Item]
  BY DEF Good, State
<1>2. PICK x : x = [w.it[i] EXCEPT !.progress = b]
  OBVIOUS
<1>3. PICK t : t = [w.it EXCEPT ![i] = x]
  OBVIOUS
<1>4. [w EXCEPT !.it[i].progress = b] = [w EXCEPT !.it = t]
  <2>1. [w EXCEPT !.it[i].progress = b] = [w EXCEPT !.it = [w.it EXCEPT ![i].progress = b]]
    BY <1>1 DEF State
  <2> QED
    BY <1>2, <1>3, <2>1, Zenon
<1>5. ASSUME NEW j \in Items
      PROVE  t[j].done = w.it[j].done /\ t[j].where = w.it[j].where
  <2>1. PICK z \in Item : z = w.it[j]
    BY <1>1
  <2>2. CASE i = j
    <3>1. t[j] = [z EXCEPT !.progress = b]
      BY <1>1, <1>2, <1>3, <2>1, <2>2
    <3>2. t[j].done = z.done /\ t[j].where = z.where
      BY <3>1 DEF Item
    <3> QED
      BY <2>1, <3>2, Zenon
  <2>3. CASE i # j
    BY <1>1, <1>3, <2>3
  <2> QED
    BY <2>2, <2>3
<1>6. Alike(w.it, t) /\ NoneNew(w.it, t)
  BY <1>5 DEF Alike, NoneNew
<1> QED
  BY <1>1, <1>4, <1>6, ItemsTame, Zenon

\* Passwords become known or turn out to be wrong.
LEMMA KnownTame ==
  ASSUME NEW w, Good(w), NEW S
  PROVE  Tame(w, [w EXCEPT !.q.known = S])
<1>1. PICK v : v = [w EXCEPT !.q.known = S]
  OBVIOUS
<1>2. w \in State
  BY DEF Good
<1>3. v.en = w.en /\ v.it = w.it /\ v.data = w.data /\ v.br = w.br
  BY <1>1, <1>2 DEF State
<1>5. Tame(w, v)
  BY <1>3 DEF Tame, Mild, Alike, NoneNew, Owed
<1> QED
  BY <1>1, <1>5, Zenon

\* What a handler works on, from the state before it.
Handled(w, S) == Fair(w, S) /\ NoneNew(it, w.it)

\* What every step does.
Fares == Earned /\ ((bypassed => bypassed') => HInv')

\* After a change that is tame.
LEMMA TameStep ==
  ASSUME NEW S, NEW u, Handled(u, S), NEW w, Tame(u, w)
  PROVE  Handled(w, S)
BY MildFair DEF Handled, Tame, NoneNew

\* A handler that is about to send a command has to expect less.
LEMMA HandledBut ==
  ASSUME NEW w, Handled(w, {}), NEW e
  PROVE  Handled(w, {e})
BY FairBut DEF Handled

\* Of an engine that works on no item nothing is expected.
LEMMA HandledAll ==
  ASSUME NEW w, NEW e, Handled(w, {e}), ~OnItem(w.data[e])
  PROVE  Handled(w, {})
BY FairAll DEF Handled

\* An engine that is sent a command does something else.
LEMMA StateHandled ==
  ASSUME NEW w, Good(w), NEW e \in Engines, Handled(w, {e}),
         NEW state \in States \ {"waitprimary"}, NEW v, InState(v, w, e, state)
  PROVE  Handled(v, {e})
<1>1. /\ v.it = w.it /\ v.en = w.en /\ v.br = w.br
      /\ \A f \in Engines : f # e => v.data[f] = w.data[f]
  <2>1. v = [w EXCEPT !.data[e].state = state]
    BY DEF InState
  <2>2. /\ [w EXCEPT !.data[e].state = state].it = w.it
        /\ [w EXCEPT !.data[e].state = state].en = w.en
        /\ [w EXCEPT !.data[e].state = state].br = w.br
        /\ \A f \in Engines : f # e => [w EXCEPT !.data[e].state = state].data[f] = w.data[f]
    BY StateGood
  <2> QED
    BY <2>1, <2>2, Zenon
<1>2. v.data[e].state = state /\ v.data[e].timer = w.data[e].timer /\ v.data[e].item = w.data[e].item
  BY DEF Good, State, EngineData, InState
<1>3. ASSUME NEW f \in Engines
      PROVE  Plain(f, v.data[f]) /\ (f = e \/ (bypassed /\ f = Primary) \/ Owed(v, f))
  <2>1. Plain(f, w.data[f]) /\ (f = e \/ (bypassed /\ f = Primary) \/ Owed(w, f))
    BY DEF Handled, Fair
  <2>2. CASE f = e
    BY <1>2, <2>1, <2>2 DEF Plain
  <2>3. CASE f # e
    BY <1>1, <2>1, <2>3, Zenon DEF Owed
  <2> QED
    BY <2>2, <2>3
<1> QED
  BY <1>1, <1>3 DEF Handled, Fair

\* ToConnect
LEMMA ToConnectHandled ==
  ASSUME NEW w, Good(w), NEW e \in Engines, Handled(w, {e})
  PROVE  Handled(ToConnect(w, e), {e})
<1>1. PICK state : state = IF Known(w, e) THEN "connect" ELSE "askpassword"
  OBVIOUS
<1>2. state \in States \ {"waitprimary"}
  BY <1>1 DEF States
<1>3. InState(ToConnect(w, e), w, e, state)
  BY <1>1, Zenon DEF ToConnect, InState
<1> QED
  BY <1>2, <1>3, StateHandled

\* A handler's result w, once it is the state, is as fair.
LEMMA EndsFair ==
  ASSUME NEW w \in State, NEW S, Fair(w, S), Becomes(w),
         S = IF main'.pc = "send" THEN {main'.e} ELSE {}
  PROVE  (bypassed => bypassed') => HInv'
<1>1. w.q = q' /\ w.data = data' /\ w.it = it' /\ w.br = br' /\ w.en = en'
  BY Zenon DEF Becomes
<1>2. Here' = w
  <2>1. w = [q |-> w.q, data |-> w.data, it |-> w.it, br |-> w.br, en |-> w.en]
    BY DEF State
  <2> QED
    BY <1>1, <2>1, Zenon DEF Here
<1>3. ASSUME bypassed => bypassed'
      PROVE  Fair(w, S)'
  BY <1>3 DEF Fair, Owed, Plain
<1>4. S = (IF main.pc = "send" THEN {main.e} ELSE {})'
  OBVIOUS
<1>5. ASSUME bypassed => bypassed'
      PROVE  Fair(Here, IF main.pc = "send" THEN {main.e} ELSE {})'
  BY <1>2, <1>3, <1>4, <1>5, Zenon
<1> QED
  BY <1>5 DEF HInv

\* No item has become successful.
LEMMA EndsEarned ==
  ASSUME NEW w, NoneNew(it, w.it), Becomes(w)
  PROVE  Earned
<1>1. w.it = it'
  BY Zenon DEF Becomes
<1> QED
  BY <1>1 DEF NoneNew, Earned

\* How a handler ends: it waits, goes on with AdvanceQueue or SendNextCommand.
LEMMA StaysFares ==
  ASSUME NEW w, Good(w), Handled(w, {}), Becomes(w), main.pc # "send", UNCHANGED main
  PROVE  Fares
<1>1. main'.pc # "send" /\ w \in State
  BY DEF Good
<1>2. {} = IF main'.pc = "send" THEN {main'.e} ELSE {}
  BY <1>1
<1> QED
  BY <1>1, <1>2, EndsFair, EndsEarned DEF Handled, Fares

\* (Return)
LEMMA ReturnFares ==
  ASSUME NEW w, Good(w), Handled(w, {}), Becomes(w), main \in Main, Return
  PROVE  Fares
<1>1. main'.pc # "send" /\ w \in State
  BY DEF Return, Main, Good
<1>2. {} = IF main'.pc = "send" THEN {main'.e} ELSE {}
  BY <1>1
<1> QED
  BY <1>1, <1>2, EndsFair, EndsEarned DEF Handled, Fares

\* (AdvanceQueue)
LEMMA AdvancingFares ==
  ASSUME NEW w, Good(w), Handled(w, {}), Becomes(w), Advancing
  PROVE  Fares
<1>1. main'.pc # "send" /\ w \in State
  BY DEF Advancing, Good
<1>2. {} = IF main'.pc = "send" THEN {main'.e} ELSE {}
  BY <1>1
<1> QED
  BY <1>1, <1>2, EndsFair, EndsEarned DEF Handled, Fares

\* (SendNextCommand)
LEMMA SendingFares ==
  ASSUME NEW w, Good(w), NEW e \in Engines, Handled(w, {e}), Becomes(w), main \in Main, Sending(e)
  PROVE  Fares
<1>1. main'.e = e /\ main'.pc = "send" /\ w \in State
  BY DEF Sending, Main, Good
<1>2. {e} = IF main'.pc = "send" THEN {main'.e} ELSE {}
  BY <1>1
<1> QED
  BY <1>1, <1>2, EndsFair, EndsEarned DEF Handled, Fares

\* The work of an engine ends, but not with success.
LEMMA ResetAndAdvanceFares ==
  ASSUME NEW w, Good(w), main \in Main, NEW e \in Engines, Handled(w, {e}),
         NEW reason \in Reasons \ {"success"}, ResetAndAdvance(w, e, reason)
  PROVE  Fares
<1>1. PICK v : v = ResetEngine(w, e, reason)
  OBVIOUS
<1>2. Good(v)
  BY <1>1, ResetGood
<1>3. Handled(v, {})
  <2>1. Plain(e, w.data[e])
    BY DEF Handled, Fair
  <2>2. Tame(w, v) /\ ~OnItem(v.data[e])
    BY <1>1, <2>1, ResetTame
  <2> QED
    BY <2>2, TameStep, HandledAll
<1>4. Becomes(v) /\ (Advancing \/ Return)
  BY <1>1, Zenon DEF ResetAndAdvance
<1> QED
  BY <1>2, <1>3, <1>4, AdvancingFares, ReturnFares

\* The engine e works on an item that is done, or owes an answer about it.
Paid(w, e) ==
  OnItem(w.data[e]) =>
    /\ data[e].active /\ data[e].item = w.data[e].item
    /\ \/ w.it[w.data[e].item].done \/ (bypassed /\ e = Primary)
       \/ w.en[e].item = w.data[e].item
       \/ \E k \in DOMAIN w.en[e].notes : w.en[e].notes[k].item = w.data[e].item

\* Its work ends with success.
LEMMA SucceedsFares ==
  ASSUME NEW w, Good(w), main \in Main, NEW e \in Engines, Handled(w, {e}),
         w.data[e].state \in Works, Paid(w, e), ResetAndAdvance(w, e, "success")
  PROVE  Fares
<1>1. PICK v : v = ResetEngine(w, e, "success")
  OBVIOUS
<1>2. "success" \in Reasons /\ w \in State /\ None \notin Items
  BY QueueAssumption DEF Reasons, Good
<1>3. Good(v) /\ v \in State
  BY <1>1, <1>2, ResetGood DEF Good
<1>4. Becomes(v) /\ main'.pc # "send"
  <2>1. Becomes(v) /\ (Advancing \/ Return)
    BY <1>1, Zenon DEF ResetAndAdvance
  <2>2. Advancing => main'.pc # "send"
    BY DEF Advancing
  <2>3. Return => main'.pc # "send"
    BY DEF Return, Main
  <2> QED
    BY <2>1, <2>2, <2>3
<1>5. v.it = it' /\ v.en = en'
  BY <1>4, Zenon DEF Becomes
<1>6. {} = IF main'.pc = "send" THEN {main'.e} ELSE {}
  BY <1>4
<1>7. CASE w.data[e].active
  <2>1. Plain(e, w.data[e])
    BY DEF Handled, Fair
  <2>2. /\ \A i \in Items : v.it[i].where = "successful" =>
                w.it[i].where = "successful" \/ i = w.data[e].item
        /\ Mild(w, v) /\ ~OnItem(v.data[e])
        /\ OnItem(w.data[e]) => v.en = w.en
    BY <1>1, <1>2, <1>7, <2>1, ResetLeaves
  <2>3. Fair(v, {})
    BY <2>2, MildFair, FairAll DEF Handled
  <2>4. ASSUME NEW i \in Items, it[i].where # "successful", it'[i].where = "successful"
        PROVE  \E f \in Engines : /\ data[f].active /\ data[f].item = i
                                  /\ it'[i].done \/ Unanswered(f, i)' \/ (bypassed /\ f = Primary)
    <3>1. w.it[i].where # "successful"
      BY <2>4 DEF Handled, NoneNew
    <3>2. i = w.data[e].item
      BY <1>5, <2>2, <2>4, <3>1
    <3>3. OnItem(w.data[e])
      BY <1>2, <3>2 DEF OnItem
    <3>4. /\ data[e].active /\ data[e].item = i
          /\ \/ w.it[i].done \/ (bypassed /\ e = Primary)
             \/ w.en[e].item = i
             \/ \E k \in DOMAIN w.en[e].notes : w.en[e].notes[k].item = i
      BY <3>2, <3>3 DEF Paid
    <3>5. w.it[i].done => it'[i].done
      BY <1>5, <2>2 DEF Mild, Alike
    <3>6. en' = w.en
      BY <1>5, <2>2, <3>3
    <3>7. (w.en[e].item = i \/ \E k \in DOMAIN w.en[e].notes : w.en[e].notes[k].item = i) => Unanswered(e, i)'
      BY <3>6 DEF Unanswered
    <3> QED
      BY <3>4, <3>5, <3>7
  <2>5. Earned
    BY <2>4 DEF Earned
  <2>6. (bypassed => bypassed') => HInv'
    BY <1>3, <1>4, <1>6, <2>3, EndsFair
  <2> QED
    BY <2>5, <2>6 DEF Fares
<1>8. CASE ~w.data[e].active
  <2>1. v = w
    BY <1>1, <1>8, Zenon DEF ResetEngine
  <2>2. ~OnItem(w.data[e])
    BY <1>8 DEF Good, Assigned, OnItem
  <2>3. Handled(v, {})
    BY <2>1, <2>2, HandledAll
  <2> QED
    BY <1>3, <1>4, <1>6, <2>3, EndsFair, EndsEarned DEF Handled, Fares
<1> QED
  BY <1>7, <1>8

\* The queue's stop or the next command of a settled engine.
LEMMA ContinueFares ==
  ASSUME NEW w, Good(w), main \in Main, NEW e \in Engines, Handled(w, {e}),
         Continue(w, e)
  PROVE  Fares
<1>1. PICK v : v = IF w.data[e].state = "connect" THEN ToConnect(w, e) ELSE w
  OBVIOUS
<1>2. Good(v) /\ Handled(v, {e})
  BY <1>1, ToConnectGood, ToConnectHandled, Zenon
<1>3. Interrupted(v, e) \in Reasons \ {"success"}
  BY DEF Interrupted, Reasons
<1>4. ResetAndAdvance(v, e, Interrupted(v, e)) \/ (Becomes(v) /\ Sending(e))
  BY <1>1, Zenon DEF Continue
<1> QED
  BY <1>2, <1>3, <1>4, ResetAndAdvanceFares, SendingFares

\* After a failure that counts.
LEMMA CountErrorFares ==
  ASSUME NEW w, Good(w), main \in Main, NEW e \in Engines, Handled(w, {e}),
         CountError(w, e)
  PROVE  Fares
<1>1. PICK v : v = Tried(w, e)
  OBVIOUS
<1>2. Good(v) /\ v.data = w.data /\ Tame(w, v)
  BY <1>1, TriedGood, TriedTame, Zenon
<1>3. Handled(v, {e})
  BY <1>2, TameStep
<1>4. "failure" \in Reasons \ {"success"}
  BY DEF Reasons
<1>5. ResetAndAdvance(v, e, "failure") \/ Continue(v, e)
  BY <1>1, Zenon DEF CountError
<1> QED
  BY <1>2, <1>3, <1>4, <1>5, ResetAndAdvanceFares, ContinueFares

-----------------------------------------------------------------------------
(* The replies.                                                             *)

\* A reply that the command was cancelled.
LEMMA ReplyCanceledFares ==
  ASSUME NEW w, Good(w), main \in Main, NEW e \in Engines, Handled(w, {e}), ReplyCanceled(w, e)
  PROVE  Fares
<1>1. PICK i : i = w.data[e].item
  OBVIOUS
<1>2. PICK u : u = IF i # None /\ ~w.it[i].remove THEN [w EXCEPT !.it[i].progress = FALSE] ELSE w
  OBVIOUS
<1>3. PICK v : v = IF w.data[e].state = "connect" THEN Deactivate(u) ELSE u
  OBVIOUS
<1>4. Good(u) /\ Tame(w, u)
  <2>1. Good([w EXCEPT !.it[i].progress = FALSE]) /\ Tame(w, [w EXCEPT !.it[i].progress = FALSE])
    BY ProgressGood, ProgressTame
  <2> QED
    BY <1>2, <2>1, TameSelf, Zenon
<1>5. Good(v) /\ Tame(u, v)
  <2>1. Good(Deactivate(u)) /\ Tame(u, Deactivate(u))
    <3>1. Handled(u, {e})
      BY <1>4, TameStep
    <3>2. Plain(Primary, u.data[Primary])
      BY <3>1 DEF Handled, Fair, Engines
    <3> QED
      BY <1>4, <3>2, DeactivateGood, DeactivateTame
  <2> QED
    BY <1>3, <1>4, <2>1, TameSelf, Zenon
<1>6. Interrupted(w, e) \in Reasons \ {"success"}
  BY DEF Interrupted, Reasons
<1>7. ResetAndAdvance(v, e, Interrupted(w, e))
  <2> DEFINE U(j) == IF j # None /\ ~w.it[j].remove THEN [w EXCEPT !.it[j].progress = FALSE] ELSE w
             V(x) == IF w.data[e].state = "connect" THEN Deactivate(x) ELSE x
  <2>1. ResetAndAdvance(V(U(w.data[e].item)), e, Interrupted(w, e))
    BY Zenon DEF ReplyCanceled
  <2>2. v = V(u)
    BY <1>3, Zenon
  <2>3. u = U(i)
    BY <1>2, Zenon
  <2> HIDE DEF U, V
  <2>4. v = V(U(w.data[e].item))
    BY <1>1, <2>2, <2>3, Zenon
  <2> QED
    BY <2>1, <2>4, Zenon
<1>8. Handled(v, {e})
  BY <1>4, <1>5, TameTwice, TameStep
<1> QED
  BY <1>5, <1>6, <1>7, <1>8, ResetAndAdvanceFares

\* The reply to an attempt to connect.
LEMMA ReplyConnectFares ==
  ASSUME NEW w, Good(w), main \in Main, NEW e \in Engines, Handled(w, {e}),
         NEW r, ReplyConnect(w, e, r)
  PROVE  Fares
<1>1. PICK k : k = w.q.known \ (AskedFor \cap {w.data[e].site})
  OBVIOUS
<1>2. k \in SUBSET (Servers \cup {None})
  <2>1. w.q.known \in SUBSET (Servers \cup {None})
    BY DEF Good, State, QueueState
  <2> QED
    BY <1>1, <2>1
<1>3. PICK x : x = [w EXCEPT !.q.known = k]
  OBVIOUS
<1>4. PICK u : u = IF r = "password" THEN x ELSE w
  OBVIOUS
<1>5. Good(u) /\ Tame(w, u) /\ u.data = w.data
  <2>1. Good(x) /\ Tame(w, x) /\ x.data = w.data
    BY <1>2, <1>3, KnownGood, KnownTame, Zenon
  <2> QED
    BY <1>4, <2>1, TameSelf, Zenon
<1>6. PICK y : y = [w EXCEPT !.data[e].state = Work(w.data[e].item)]
  OBVIOUS
<1>7. Good(y) /\ Handled(y, {e})
  <2>1. PICK s : s = Work(w.data[e].item)
    OBVIOUS
  <2>2. s \in States \ {"waitprimary"}
    BY <2>1 DEF Work, States
  <2>3. InState(y, w, e, s)
    BY <1>6, <2>1, Zenon DEF InState
  <2> QED
    BY <2>2, <2>3, StateSet, StateHandled
<1>8. Continue(y, e) \/ Continue(w, e) \/ CountError(u, e)
  <2> DEFINE U == IF r = "password" THEN [w EXCEPT !.q.known = @ \ (AskedFor \cap {w.data[e].site})] ELSE w
             Y == [w EXCEPT !.data[e].state = Work(w.data[e].item)]
  <2>1. U = u
    <3>1. x = [w EXCEPT !.q.known = @ \ (AskedFor \cap {w.data[e].site})]
      BY <1>1, <1>3, Zenon
    <3> QED
      BY <1>4, <3>1, Zenon
  <2>2. Y = y
    BY <1>6, Zenon
  <2>3. Continue(Y, e) \/ Continue(w, e) \/ CountError(U, e)
    BY Zenon DEF ReplyConnect
  <2> HIDE DEF U, Y
  <2> QED
    BY <2>1, <2>2, <2>3, Zenon
<1>9. Handled(u, {e})
  BY <1>5, TameStep
<1> QED
  BY <1>5, <1>7, <1>8, <1>9, ContinueFares, CountErrorFares

\* The reply to a transfer.
LEMMA ReplyTransferFares ==
  ASSUME NEW w, Good(w), main \in Main, NEW e \in Engines, Handled(w, {e}),
         NEW r, w.data[e].state \in Works, r = "ok" => Paid(w, e), ReplyTransfer(w, e, r)
  PROVE  Fares
<1>1. {"failure", "retry"} \subseteq Reasons \ {"success"}
  BY DEF Reasons
<1>2. PICK i : i = w.data[e].item
  OBVIOUS
<1>3. PICK u : u = [w EXCEPT !.it[i].progress = FALSE]
  OBVIOUS
<1>4. Good(u) /\ Tame(w, u) /\ u.data = w.data
  BY <1>3, ProgressGood, ProgressTame, Zenon
<1>5. \/ r = "ok" /\ ResetAndAdvance(w, e, "success")
      \/ Continue(u, e) \/ ResetAndAdvance(w, e, "failure")
      \/ ResetAndAdvance(Tried(w, e), e, "retry") \/ CountError(w, e)
  <2>1. \/ r = "ok" /\ ResetAndAdvance(w, e, "success")
        \/ Continue([w EXCEPT !.it[w.data[e].item].progress = FALSE], e)
        \/ ResetAndAdvance(w, e, "failure")
        \/ ResetAndAdvance(Tried(w, e), e, "retry") \/ CountError(w, e)
    BY Zenon DEF ReplyTransfer
  <2>2. u = [w EXCEPT !.it[w.data[e].item].progress = FALSE]
    BY <1>2, <1>3, Zenon
  <2> QED
    BY <2>1, <2>2, Zenon
<1>6. Good(Tried(w, e)) /\ Handled(Tried(w, e), {e})
  BY TriedGood, TriedTame, TameStep
<1>7. Handled(u, {e})
  BY <1>4, TameStep
<1> QED
  BY <1>1, <1>4, <1>5, <1>6, <1>7, SucceedsFares, ResetAndAdvanceFares, ContinueFares, CountErrorFares

\* The reply to the creation of a directory.
LEMMA ReplyMkdirFares ==
  ASSUME NEW w, Good(w), main \in Main, NEW e \in Engines, Handled(w, {e}),
         NEW r, w.data[e].state \in Works, r = "ok" => Paid(w, e), ReplyMkdir(w, e, r)
  PROVE  Fares
<1>1. "failure" \in Reasons \ {"success"}
  BY DEF Reasons
<1>2. \/ r = "ok" /\ ResetAndAdvance(w, e, "success")
      \/ CountError(w, e) \/ ResetAndAdvance(w, e, "failure")
  BY Zenon DEF ReplyMkdir
<1> QED
  BY <1>1, <1>2, SucceedsFares, ResetAndAdvanceFares, CountErrorFares

\* The rest of a list of replies.
LEMMA TailFacts ==
  ASSUME NEW T, NEW s \in Seq(T), s # <<>>
  PROVE  /\ Len(s) = 1 => Head(s) = s[Len(s)]
         /\ Len(s) # 1 => Len(s) - 1 \in DOMAIN Tail(s) /\ Tail(s)[Len(s) - 1] = s[Len(s)]
<1>1. Len(s) \in Nat \ {0} /\ DOMAIN s = 1..Len(s) /\ Head(s) = s[1]
  OBVIOUS
<1>2. Len(Tail(s)) = Len(s) - 1 /\ Tail(s) \in Seq(T)
  OBVIOUS
<1>3. \A k \in 1..(Len(s) - 1) : Tail(s)[k] = s[k + 1]
  OBVIOUS
<1>4. DOMAIN Tail(s) = 1..(Len(s) - 1)
  BY <1>2
<1>5. ASSUME Len(s) # 1
      PROVE  Len(s) - 1 \in DOMAIN Tail(s) /\ Tail(s)[Len(s) - 1] = s[Len(s)]
  <2>1. PICK m : m = Len(s)
    OBVIOUS
  <2>2. m \in Nat \ {0, 1}
    BY <1>1, <1>5, <2>1
  <2>3. m - 1 \in 1..(m - 1) /\ (m - 1) + 1 = m
    BY <2>2
  <2>4. Tail(s)[m - 1] = s[(m - 1) + 1]
    BY <1>3, <2>1, <2>3
  <2>5. Tail(s)[m - 1] = s[m]
    BY <2>3, <2>4
  <2> QED
    BY <1>4, <2>1, <2>3, <2>5
<1> QED
  BY <1>1, <1>5

\* w is u without the first reply of engine e.
IsTaken(w, u, e) == w = [u EXCEPT !.en[e].notes = Tail(@)]

\* Nothing else has changed.
LEMMA TakenParts ==
  ASSUME NEW u \in State, NEW e \in Engines, NEW w, IsTaken(w, u, e)
  PROVE  /\ w.data = u.data /\ w.it = u.it /\ w.br = u.br /\ w.q = u.q
         /\ \A f \in Engines \ {e} : w.en[f] = u.en[f]
         /\ w.en[e].cmd = u.en[e].cmd /\ w.en[e].item = u.en[e].item
         /\ w.en[e].notes = Tail(u.en[e].notes)
<1>1. u.en \in [Engines -> Engine]
  BY DEF State
<1>2. PICK l : l = Tail(u.en[e].notes)
  OBVIOUS
<1>3. PICK z : z = [u.en[e] EXCEPT !.notes = l]
  OBVIOUS
<1>4. z.notes = l /\ z.cmd = u.en[e].cmd /\ z.item = u.en[e].item
  BY <1>1, <1>3 DEF Engine
<1>5. w = [u EXCEPT !.en = [u.en EXCEPT ![e] = z]]
  <2>1. w = [u EXCEPT !.en[e].notes = l]
    <3>1. w = [u EXCEPT !.en[e].notes = Tail(@)]
      BY Zenon DEF IsTaken
    <3>2. [u EXCEPT !.en[e].notes = Tail(@)] = [u EXCEPT !.en[e].notes = Tail(u.en[e].notes)]
      BY <1>1 DEF State
    <3> QED
      BY <1>2, <3>1, <3>2, Zenon
  <2>2. [u EXCEPT !.en[e].notes = l] = [u EXCEPT !.en = [u.en EXCEPT ![e] = [u.en[e] EXCEPT !.notes = l]]]
    BY <1>1 DEF State
  <2> QED
    BY <1>3, <2>1, <2>2, Zenon
<1>6. /\ w.data = u.data /\ w.it = u.it /\ w.br = u.br /\ w.q = u.q /\ w.en[e] = z
      /\ \A f \in Engines \ {e} : w.en[f] = u.en[f]
  <2>1. w.data = u.data /\ w.it = u.it /\ w.br = u.br /\ w.q = u.q /\ w.en = [u.en EXCEPT ![e] = z]
    BY <1>1, <1>5 DEF State
  <2> QED
    BY <1>1, <2>1
<1> QED
  BY <1>2, <1>4, <1>6, Zenon

\* A reply to engine e is taken, which now owes nothing; it still does so if it
\* works on no item, or without the lock.
LEMMA TakenHandled ==
  ASSUME NEW u \in State, NEW e \in Engines, Handled(u, {}), NEW w, IsTaken(w, u, e)
  PROVE  /\ Handled(w, {e})
         /\ (OnItem(u.data[e]) => e = Primary /\ ~u.br.lock) => Handled(w, {})
<1>1. /\ w.data = u.data /\ w.it = u.it /\ w.br = u.br
      /\ \A f \in Engines \ {e} : w.en[f] = u.en[f]
  BY TakenParts
<1>2. ASSUME NEW f \in Engines
      PROVE  Plain(f, w.data[f]) /\ (f = e \/ (bypassed /\ f = Primary) \/ Owed(w, f))
  <2>1. Plain(f, u.data[f]) /\ ((bypassed /\ f = Primary) \/ Owed(u, f))
    BY DEF Handled, Fair
  <2>2. f # e => w.en[f] = u.en[f]
    BY <1>1
  <2> QED
    BY <1>1, <2>1, <2>2, Zenon DEF Owed
<1>3. Handled(w, {e})
  BY <1>1, <1>2 DEF Handled, Fair
<1>4. ASSUME OnItem(u.data[e]) => e = Primary /\ ~u.br.lock
      PROVE  Handled(w, {})
  <2>1. (bypassed /\ e = Primary) \/ Owed(u, e)
    BY DEF Handled, Fair
  <2>2. (bypassed /\ e = Primary) \/ ~OnItem(w.data[e])
    BY <1>1, <1>4, <2>1 DEF Owed
  <2> QED
    BY <1>3, <2>2 DEF Handled, Fair, Owed
<1> QED
  BY <1>3, <1>4

\* If it says that the operation has succeeded, then the engine's item is done,
\* or its last answer is still to be read.
LEMMA TakenPaid ==
  ASSUME Good(Here), Handled(Here, {}), NEW e \in Engines, Here.en[e].notes # <<>>,
         NEW n, n = Head(Here.en[e].notes), n.r = "ok", NEW w, IsTaken(w, Here, e), Here.data = data
  PROVE  Paid(w, e)
<1>1. PICK u : u = Here
  OBVIOUS
<1>2. /\ u \in State /\ u.en[e].notes # <<>> /\ n = Head(u.en[e].notes) /\ IsTaken(w, u, e)
      /\ u.data = data
  BY <1>1 DEF Good
<1>3. /\ w.data = u.data /\ w.it = u.it /\ w.en[e].item = u.en[e].item
      /\ w.en[e].notes = Tail(u.en[e].notes)
  BY <1>2, TakenParts
<1>4. (bypassed /\ e = Primary) \/ Owed(u, e)
  BY <1>1 DEF Handled, Fair
<1>5. ASSUME OnItem(u.data[e])
      PROVE  /\ data[e].active /\ data[e].item = u.data[e].item
             /\ \/ u.it[u.data[e].item].done \/ (bypassed /\ e = Primary)
                \/ u.en[e].item = u.data[e].item
                \/ \E k \in DOMAIN Tail(u.en[e].notes) : Tail(u.en[e].notes)[k].item = u.data[e].item
  <2>1. u.data[e].active
    BY <1>1, <1>5 DEF Good, Assigned, OnItem
  <2>2. CASE bypassed /\ e = Primary
    BY <1>2, <2>1, <2>2
  <2>3. CASE Owed(u, e)
    <3>1. Pending(u.data[e], u.en[e], u.it)
      BY <1>5, <2>3 DEF Owed
    <3>2. CASE u.en[e].cmd # "none"
      BY <1>2, <2>1, <3>1, <3>2 DEF Pending
    <3>3. CASE u.en[e].cmd = "none"
      <4>1. PICK s \in Seq(Note) : s = u.en[e].notes
        BY <1>2, ItemOf
      <4>2. /\ s # <<>> /\ n = Head(s) /\ s[Len(s)].item = u.data[e].item
            /\ s[Len(s)].r = "ok" => u.it[u.data[e].item].done
        BY <1>2, <3>1, <3>3, <4>1 DEF Pending, IsReplyTo
      <4>3. /\ Len(s) = 1 => Head(s) = s[Len(s)]
            /\ Len(s) # 1 => /\ Len(s) - 1 \in DOMAIN Tail(s)
                             /\ Tail(s)[Len(s) - 1] = s[Len(s)]
        BY <4>2, TailFacts
      <4>4. CASE Len(s) = 1
        BY <1>2, <2>1, <4>2, <4>3, <4>4
      <4>5. CASE Len(s) # 1
        <5>1. \E k \in DOMAIN Tail(s) : Tail(s)[k].item = u.data[e].item
          BY <4>2, <4>3, <4>5
        <5> QED
          BY <1>2, <2>1, <4>1, <5>1
      <4> QED
        BY <4>4, <4>5
    <3> QED
      BY <3>2, <3>3
  <2> QED
    BY <1>4, <2>2, <2>3
<1> QED
  BY <1>3, <1>5, Zenon DEF Paid

\* ProcessReply for a reply that has been taken.
LEMMA ProcessReplyFares ==
  ASSUME NEW w0, Good(w0), main \in Main, main.pc # "send", NEW e \in Engines, Handled(w0, {e}),
         NEW n, n.r = "ok" => Paid(w0, e), ProcessReply(w0, e, n)
  PROVE  Fares
<1>1. PICK i : i = w0.data[e].item
  OBVIOUS
<1>2. PICK w : w = IF i # None /\ n.progress THEN [w0 EXCEPT !.it[i].progress = TRUE] ELSE w0
  OBVIOUS
<1>3. Good(w) /\ Tame(w0, w) /\ w.data = w0.data /\ w.en = w0.en
  <2>1. PICK x : x = [w0 EXCEPT !.it[i].progress = TRUE]
    OBVIOUS
  <2>2. Good(x) /\ Tame(w0, x) /\ x.data = w0.data
    BY <2>1, ProgressGood, ProgressTame, Zenon
  <2>3. x.en = w0.en
    BY <2>1 DEF Good, State
  <2> QED
    BY <1>2, <2>1, <2>2, <2>3, TameSelf, Zenon
<1>4. PICK y : y = [w EXCEPT !.data[e].state = "connect"]
  OBVIOUS
<1>5. PICK state : state = w.data[e].state
  OBVIOUS
<1>6. \/ ReplyCanceled(w, e) \/ (state = "disconnect" /\ Continue(y, e))
      \/ (state = "connect" /\ ReplyConnect(w, e, n.r)) \/ (state = "transfer" /\ ReplyTransfer(w, e, n.r))
      \/ (state = "mkdir" /\ ReplyMkdir(w, e, n.r)) \/ (state = "list" /\ ResetAndAdvance(w, e, "remove"))
      \/ (state \notin Works /\ Becomes(w) /\ UNCHANGED main)
  <2> DEFINE W(j) == IF j # None /\ n.progress THEN [w0 EXCEPT !.it[j].progress = TRUE] ELSE w0
             Y(x) == [x EXCEPT !.data[e].state = "connect"]
             R(x) == \/ ReplyCanceled(x, e) \/ (w0.data[e].state = "disconnect" /\ Continue(Y(x), e))
                     \/ (w0.data[e].state = "connect" /\ ReplyConnect(x, e, n.r))
                     \/ (w0.data[e].state = "transfer" /\ ReplyTransfer(x, e, n.r))
                     \/ (w0.data[e].state = "mkdir" /\ ReplyMkdir(x, e, n.r))
                     \/ (w0.data[e].state = "list" /\ ResetAndAdvance(x, e, "remove"))
                     \/ (w0.data[e].state \notin Works /\ Becomes(x) /\ UNCHANGED main)
  <2>1. R(W(w0.data[e].item))
    BY DEF ProcessReply, Works
  <2>2. w = W(i)
    BY <1>2, Zenon
  <2>3. y = Y(w)
    BY <1>4, Zenon
  <2> HIDE DEF W
  <2>4. w = W(w0.data[e].item)
    BY <1>1, <2>2, Zenon
  <2>5. R(w)
    <3> HIDE DEF R
    <3> QED
      BY <2>1, <2>4, Zenon
  <2>6. state = w0.data[e].state
    BY <1>3, <1>5, Zenon
  <2> HIDE DEF Y
  <2> QED
    BY <2>3, <2>5, <2>6, Zenon
<1>7. Handled(w, {e})
  BY <1>3, TameStep
<1>9. n.r = "ok" => Paid(w, e)
  <2>1. w0.data[e].item \in Items \cup {None}
    BY ItemOf DEF Good
  <2>2. OnItem(w0.data[e]) => w.it[w0.data[e].item].done = w0.it[w0.data[e].item].done
    BY <1>3, <2>1 DEF Tame, Mild, Alike, OnItem
  <2> QED
    BY <1>3, <2>2 DEF Paid
<1>10. CASE ReplyCanceled(w, e)
  BY <1>3, <1>7, <1>10, ReplyCanceledFares
<1>11. CASE state = "disconnect" /\ Continue(y, e)
  <2>1. PICK s \in States \ {"waitprimary"} : s = "connect"
    BY DEF States
  <2>2. InState(y, w, e, s)
    BY <1>4, <2>1, Zenon DEF InState
  <2>3. Good(y) /\ Handled(y, {e})
    BY <1>3, <1>7, <2>2, StateSet, StateHandled
  <2> QED
    BY <1>11, <2>3, ContinueFares
<1>12. CASE state = "connect" /\ ReplyConnect(w, e, n.r)
  BY <1>3, <1>7, <1>12, ReplyConnectFares
<1>13. CASE state = "transfer" /\ ReplyTransfer(w, e, n.r)
  <2>1. w.data[e].state \in Works
    BY <1>5, <1>13 DEF Works
  <2> QED
    BY <1>3, <1>7, <1>9, <1>13, <2>1, ReplyTransferFares
<1>14. CASE state = "mkdir" /\ ReplyMkdir(w, e, n.r)
  <2>1. w.data[e].state \in Works
    BY <1>5, <1>14 DEF Works
  <2> QED
    BY <1>3, <1>7, <1>9, <1>14, <2>1, ReplyMkdirFares
<1>15. CASE state = "list" /\ ResetAndAdvance(w, e, "remove")
  BY <1>3, <1>7, <1>15, ResetAndAdvanceFares DEF Reasons
<1>16. CASE state \notin Works /\ Becomes(w) /\ UNCHANGED main
  <2>1. Handled(w, {})
    BY <1>5, <1>7, <1>16, HandledAll DEF OnItem
  <2> QED
    BY <1>3, <1>16, <2>1, StaysFares
<1> QED
  BY <1>6, <1>10, <1>11, <1>12, <1>13, <1>14, <1>15, <1>16

-----------------------------------------------------------------------------
(* The events of the main thread.                                           *)

\* What a step starts from.
Ready == IInv /\ HInv

\* What a handler starts from.
LEMMA HereHandled ==
  ASSUME Ready, main.pc # "send"
  PROVE  /\ Good(Here) /\ Here \in State /\ main \in Main /\ Primary \in Engines
         /\ Here.q = q /\ Here.data = data /\ Here.it = it /\ Here.br = br /\ Here.en = en
         /\ Handled(Here, {})
<1>1. Fair(Here, {})
  BY DEF Ready, HInv
<1> QED
  BY <1>1, HereGood DEF Ready, Handled, NoneNew, Engines

\* What it does of no account for what is owed.
LEMMA PlainOnes ==
  ASSUME NEW S, NEW w, Handled(w, S), NEW e \in Engines
  PROVE  Plain(e, w.data[e]) /\ Plain(Primary, w.data[Primary])
BY DEF Handled, Fair, Engines

\* A reply is taken and handled.
LEMMA ReplyTakenFares ==
  ASSUME Ready, main.pc # "send", NEW e \in Engines, en[e].notes # <<>>,
         ProcessReply(Taken(e), e, Head(en[e].notes))
  PROVE  Fares
<1>1. /\ Good(Here) /\ main \in Main /\ Handled(Here, {}) /\ Here.en = en
      /\ Here.data = data /\ Here \in State
  BY HereHandled
<1>2. PICK w : w = Taken(e)
  OBVIOUS
<1>3. PICK n : n = Head(en[e].notes)
  OBVIOUS
<1>4. IsTaken(w, Here, e)
  BY <1>2, Zenon DEF Taken, IsTaken
<1>5. Good(w)
  <2>1. Good([Here EXCEPT !.en[e].notes = Tail(@)])
    BY <1>1, NotesGood, Zenon
  <2> QED
    BY <1>2, <2>1, Zenon DEF Taken
<1>6. Here.en[e].notes # <<>> /\ n = Head(Here.en[e].notes)
  BY <1>1, <1>3, Zenon
<1>7. Handled(w, {e})
  BY <1>1, <1>4, TakenHandled
<1>8. ProcessReply(w, e, n)
  BY <1>2, <1>3, Zenon
<1>9. n.r = "ok" => Paid(w, e)
  BY <1>1, <1>4, <1>6, TakenPaid
<1> QED
  BY <1>1, <1>5, <1>7, <1>8, <1>9, ProcessReplyFares

\* An engine's event.
LEMMA OnEngineEventFares ==
  ASSUME Ready, NEW e \in Engines, OnEngineEvent(e)
  PROVE  Fares
<1>1. /\ en[e].notes # <<>> /\ ProcessReply(Taken(e), e, Head(en[e].notes))
      /\ main.pc # "send"
  BY DEF OnEngineEvent, Idle
<1> QED
  BY <1>1, ReplyTakenFares

\* An event of the browsing connection's engine.
LEMMA OnPrimaryEventFares ==
  ASSUME Ready, OnPrimaryEvent
  PROVE  Fares
<1>0. main.pc # "send" /\ en[Primary].notes # <<>>
  BY DEF OnPrimaryEvent, Idle
<1>1. /\ Good(Here) /\ main \in Main /\ Handled(Here, {}) /\ Here \in State /\ Primary \in Engines
      /\ Here.en = en /\ Here.br = br /\ Here.data = data
  BY <1>0, HereHandled
<1>3. PICK w : w = Taken(Primary)
  OBVIOUS
<1>4. Good(w) /\ (~(br.lock /\ data[Primary].active) => Handled(w, {}))
  <2>1. Good([Here EXCEPT !.en[Primary].notes = Tail(@)])
    BY <1>1, <1>0, NotesGood, Zenon
  <2>2. IsTaken(w, Here, Primary)
    BY <1>3, Zenon DEF Taken, IsTaken
  <2>3. ASSUME ~(br.lock /\ data[Primary].active), OnItem(Here.data[Primary])
        PROVE  ~Here.br.lock
    BY <1>1, <2>3 DEF Good, Assigned, OnItem
  <2>4. ~(br.lock /\ data[Primary].active) => Handled(w, {})
    BY <1>1, <2>2, <2>3, TakenHandled
  <2> QED
    BY <1>3, <2>1, <2>4, Zenon DEF Taken
<1>5. PICK c : c = [w EXCEPT !.br.cmds = @ - 1]
  OBVIOUS
<1>6. Good(c) /\ (Handled(w, {}) => Handled(c, {}))
  <2>1. w \in State /\ w.br \in Browsing
    BY <1>4 DEF Good, State
  <2>2. PICK z : z = w.br
    OBVIOUS
  <2>3. PICK n : n = z.cmds - 1
    OBVIOUS
  <2>4. z \in Browsing
    BY <2>1, <2>2, Zenon
  <2>5. n \in Int
    BY <2>3, <2>4 DEF Browsing
  <2>6. PICK b : b = [z EXCEPT !.cmds = n]
    OBVIOUS
  <2>7. b \in Browsing /\ b.lock = z.lock
    BY <2>4, <2>5, <2>6 DEF Browsing
  <2>8. c = [w EXCEPT !.br = b]
    <3>1. [w EXCEPT !.br.cmds = @ - 1] = [w EXCEPT !.br = [w.br EXCEPT !.cmds = w.br.cmds - 1]]
      BY <2>1 DEF State
    <3> QED
      BY <1>5, <2>2, <2>3, <2>6, <3>1, Zenon
  <2>9. Good([w EXCEPT !.br = b])
    BY <1>4, <2>7, BrowsingGood
  <2>10. Tame(w, c)
    BY <2>1, <2>2, <2>7, <2>8, BrowsingTame, Zenon
  <2>11. Handled(w, {}) => Handled(c, {})
    BY <2>10, TameStep
  <2> QED
    BY <2>8, <2>9, <2>11, Zenon
<1>7. Good(ProcessNextCommand(c)) /\ (Handled(w, {}) => Handled(ProcessNextCommand(c), {}))
  <2>1. c \in State
    BY <1>6 DEF Good
  <2>2. Good(ProcessNextCommand(c))
    BY <1>6, <2>1, ProcessNextBeside, BesideGood
  <2>3. Tame(c, ProcessNextCommand(c))
    BY <2>1, ProcessNextTame
  <2> QED
    BY <1>6, <2>1, <2>2, <2>3, TameStep
<1>8. \/ ProcessReply(w, Primary, Head(en[Primary].notes))
      \/ /\ ~(br.lock /\ data[Primary].active)
         /\ Becomes(w) \/ Becomes(ProcessNextCommand(c))
         /\ UNCHANGED main
  <2> DEFINE C(x) == [x EXCEPT !.br.cmds = @ - 1]
             R(x) == \/ ProcessReply(x, Primary, Head(en[Primary].notes))
                     \/ /\ ~(br.lock /\ data[Primary].active)
                        /\ Becomes(x) \/ Becomes(ProcessNextCommand(C(x)))
                        /\ UNCHANGED main
  <2>1. R(Taken(Primary))
    BY Zenon DEF OnPrimaryEvent
  <2>2. R(w)
    <3> HIDE DEF R
    <3> QED
      BY <1>3, <2>1, Zenon
  <2>3. c = C(w)
    BY <1>5, Zenon
  <2> HIDE DEF C
  <2> QED
    BY <2>2, <2>3, Zenon
<1>9. CASE ProcessReply(w, Primary, Head(en[Primary].notes))
  <2>1. ProcessReply(Taken(Primary), Primary, Head(en[Primary].notes))
    BY <1>3, <1>9, Zenon
  <2> QED
    BY <1>1, <1>0, <2>1, ReplyTakenFares
<1> QED
  BY <1>0, <1>4, <1>7, <1>8, <1>9, StaysFares

\* The exclusive use of the engine has been granted.
LEMMA OnExclusiveEngineRequestGrantedFares ==
  ASSUME Ready, OnExclusiveEngineRequestGranted
  PROVE  Fares
<1>0. main.pc # "send"
  BY DEF OnExclusiveEngineRequestGranted, Idle
<1>1. /\ Good(Here) /\ main \in Main /\ Handled(Here, {}) /\ Here \in State /\ Primary \in Engines
      /\ Here.data = data /\ Here.q = q
  BY <1>0, HereHandled
<1>2. PICK w : w = [Here EXCEPT !.br.grants = @ - 1]
  OBVIOUS
<1>3. Good(w) /\ Handled(w, {}) /\ w.data = data /\ w.q = q
  <2>1. PICK z : z = Here.br
    OBVIOUS
  <2>2. PICK n : n = z.grants - 1
    OBVIOUS
  <2>3. z \in Browsing
    BY <1>1, <2>1 DEF State
  <2>4. n \in Int
    BY <2>2, <2>3 DEF Browsing
  <2>5. PICK b : b = [z EXCEPT !.grants = n]
    OBVIOUS
  <2>6. b \in Browsing /\ b.lock = z.lock
    BY <2>3, <2>4, <2>5 DEF Browsing
  <2>7. w = [Here EXCEPT !.br = b]
    <3>1. [Here EXCEPT !.br.grants = @ - 1] = [Here EXCEPT !.br = [Here.br EXCEPT !.grants = Here.br.grants - 1]]
      BY <1>1 DEF State
    <3> QED
      BY <1>2, <2>1, <2>2, <2>5, <3>1, Zenon
  <2>8. Good([Here EXCEPT !.br = b])
    BY <1>1, <2>6, BrowsingGood
  <2>9. Tame(Here, w) /\ Beside(Here, w)
    BY <1>1, <2>1, <2>6, <2>7, BrowsingTame, Zenon
  <2>10. Handled(w, {})
    BY <1>1, <2>9, TameStep
  <2>11. w.data = data /\ w.q = q
    BY <1>1, <2>9 DEF Beside
  <2> QED
    BY <2>7, <2>8, <2>10, <2>11, Zenon
<1>4. PICK y : y = [w EXCEPT !.data[Primary].state = Work(data[Primary].item)]
  OBVIOUS
<1>5. Good(ReleaseEngine(w)) /\ (~data[Primary].active => Handled(ReleaseEngine(w), {}))
  <2>1. w \in State
    BY <1>3 DEF Good
  <2>2. Good(ReleaseEngine(w))
    BY <1>3, <2>1, ReleaseBeside, BesideGood
  <2>3. ~data[Primary].active => ~OnItem(w.data[Primary])
    BY <1>1, <1>3 DEF Good, Assigned, OnItem
  <2>4. ~data[Primary].active => Tame(w, ReleaseEngine(w))
    BY <2>1, <2>3, ReleaseTame
  <2> QED
    BY <1>3, <2>2, <2>4, TameStep
<1>6. \/ Becomes(w) /\ UNCHANGED main
      \/ ~data[Primary].active /\ Becomes(ReleaseEngine(w)) /\ UNCHANGED main
      \/ /\ data[Primary].active /\ data[Primary].state = "waitprimary"
         /\ ResetAndAdvance(w, Primary, "retry") \/ (Becomes(y) /\ Sending(Primary))
  <2> DEFINE Y(x) == [x EXCEPT !.data[Primary].state = Work(data[Primary].item)]
             R(x) == \/ Becomes(x) /\ UNCHANGED main
                     \/ ~data[Primary].active /\ Becomes(ReleaseEngine(x)) /\ UNCHANGED main
                     \/ /\ data[Primary].active /\ data[Primary].state = "waitprimary"
                        /\ ResetAndAdvance(x, Primary, "retry") \/ (Becomes(Y(x)) /\ Sending(Primary))
  <2>1. R([Here EXCEPT !.br.grants = @ - 1])
    BY DEF OnExclusiveEngineRequestGranted
  <2>2. R(w)
    <3> HIDE DEF R
    <3> QED
      BY <1>2, <2>1, Zenon
  <2>3. y = Y(w)
    BY <1>4, Zenon
  <2> HIDE DEF Y
  <2> QED
    BY <2>2, <2>3, Zenon
<1>7. main.pc # "send"
  BY DEF OnExclusiveEngineRequestGranted, Idle
<1>8. CASE data[Primary].active /\ data[Primary].state = "waitprimary"
           /\ (ResetAndAdvance(w, Primary, "retry") \/ (Becomes(y) /\ Sending(Primary)))
  <2>1. Handled(w, {Primary})
    BY <1>3, HandledBut
  <2>3. CASE ResetAndAdvance(w, Primary, "retry")
    <3>1. "retry" \in Reasons \ {"success"}
      BY DEF Reasons
    <3> QED
      BY <1>1, <1>3, <2>1, <2>3, <3>1, ResetAndAdvanceFares
  <2>4. CASE Becomes(y) /\ Sending(Primary)
    <3>1. PICK s \in States \ {"waitprimary"} : s = Work(data[Primary].item)
      BY DEF Work, States
    <3>2. InState(y, w, Primary, s)
      BY <1>4, <3>1, Zenon DEF InState
    <3>3. Handled(y, {Primary})
      BY <1>1, <1>3, <2>1, <3>2, StateHandled
    <3>4. Good([w EXCEPT !.data[Primary].state = s])
      BY <1>1, <1>3, StateGood
    <3>5. Good(y)
      BY <1>4, <3>1, <3>4, Zenon
    <3> QED
      BY <1>1, <2>4, <3>3, <3>5, SendingFares
  <2> QED
    BY <1>8, <2>3, <2>4
<1> QED
  BY <1>3, <1>5, <1>6, <1>7, <1>8, StaysFares

\* The list of those who wait for a password, or whether one is asked for, is
\* different.
LEMMA AskedTame ==
  ASSUME NEW u, NEW w, w.data = u.data, w.en = u.en, w.it = u.it, w.br = u.br
  PROVE  Tame(u, w)
BY DEF Tame, Mild, Alike, NoneNew, Owed

\* Nothing else of a bundle is different.
LEMMA WaitingSet ==
  ASSUME NEW w \in State, NEW l
  PROVE  LET v == [w EXCEPT !.q.waiting = l] IN
         /\ v.data = w.data /\ v.en = w.en /\ v.it = w.it /\ v.br = w.br /\ v.q.quit = w.q.quit
         /\ v.q.asking = w.q.asking /\ v.q.waiting = l
<1>0. PICK v : v = [w EXCEPT !.q.waiting = l]
  OBVIOUS
<1>1. PICK z : z = w.q
  OBVIOUS
<1>2. z \in QueueState
  BY <1>1 DEF State
<1>3. PICK p : p = [z EXCEPT !.waiting = l]
  OBVIOUS
<1>4. p.quit = z.quit /\ p.asking = z.asking /\ p.waiting = l
  BY <1>2, <1>3 DEF QueueState
<1>5. v = [w EXCEPT !.q = p]
  BY <1>0, <1>1, <1>3 DEF State
<1>6. v.data = w.data /\ v.en = w.en /\ v.it = w.it /\ v.br = w.br /\ v.q = p
  BY <1>5 DEF State
<1>7. /\ v.data = w.data /\ v.en = w.en /\ v.it = w.it /\ v.br = w.br /\ v.q.quit = w.q.quit
      /\ v.q.asking = w.q.asking /\ v.q.waiting = l
  BY <1>1, <1>4, <1>6, Zenon
<1> QED
  BY <1>0, <1>7, Zenon

\* The same if the dialog is opened or closed.
LEMMA AskingSet ==
  ASSUME NEW w \in State, NEW b \in BOOLEAN
  PROVE  LET v == [w EXCEPT !.q.asking = b] IN
         /\ v.data = w.data /\ v.en = w.en /\ v.it = w.it /\ v.br = w.br /\ v.q.quit = w.q.quit
         /\ v.q.asking = b /\ v.q.waiting = w.q.waiting
<1>0. PICK v : v = [w EXCEPT !.q.asking = b]
  OBVIOUS
<1>1. PICK z : z = w.q
  OBVIOUS
<1>2. z \in QueueState
  BY <1>1 DEF State
<1>3. PICK p : p = [z EXCEPT !.asking = b]
  OBVIOUS
<1>4. p.quit = z.quit /\ p.asking = b /\ p.waiting = z.waiting
  BY <1>2, <1>3 DEF QueueState
<1>5. v = [w EXCEPT !.q = p]
  BY <1>0, <1>1, <1>3 DEF State
<1>6. v.data = w.data /\ v.en = w.en /\ v.it = w.it /\ v.br = w.br /\ v.q = p
  BY <1>5 DEF State
<1>7. /\ v.data = w.data /\ v.en = w.en /\ v.it = w.it /\ v.br = w.br /\ v.q.quit = w.q.quit
      /\ v.q.asking = b /\ v.q.waiting = w.q.waiting
  BY <1>1, <1>4, <1>6, Zenon
<1> QED
  BY <1>0, <1>7, Zenon

\* An engine's password is to be asked for.
LEMMA OnAskPasswordFares ==
  ASSUME Ready, OnAskPassword
  PROVE  Fares
<1>0. main.pc # "send"
  BY DEF OnAskPassword, Idle
<1>1. Good(Here) /\ main \in Main /\ Handled(Here, {}) /\ Here \in State /\ Here.q = q /\ Here.data = data
  BY <1>0, HereHandled
<1>2. /\ q.waiting # <<>> /\ ~q.asking /\ q.waiting \in Seq(Engines)
      /\ main.pc # "send"
  <2>1. q.waiting \in Seq(Engines)
    BY <1>1 DEF State, QueueState
  <2> QED
    BY <2>1 DEF OnAskPassword, Idle
<1>3. PICK e \in Engines : e = Head(q.waiting)
  BY <1>2
<1>4. PICK l \in Seq(Engines) : l = Tail(q.waiting)
  <2>1. Tail(q.waiting) \in Seq(Engines)
    BY <1>2
  <2> QED
    BY <2>1
<1>5. PICK w : w = [Here EXCEPT !.q.waiting = l]
  OBVIOUS
<1>6. /\ w.data = Here.data /\ w.en = Here.en /\ w.it = Here.it /\ w.br = Here.br
  BY <1>1, <1>5, WaitingSet, Zenon
<1>7. Good(w) /\ Handled(w, {})
  <2>1. ~Here.q.asking
    BY <1>1, <1>2, Zenon
  <2>2. Good(w)
    BY <1>1, <1>5, <2>1, WaitingGood, Zenon
  <2>4. Handled(w, {})
    BY <1>1, <1>6, AskedTame, TameStep
  <2> QED
    BY <2>2, <2>4
<1>9. PICK a : a = [Here EXCEPT !.q.asking = TRUE]
  OBVIOUS
<1>10. Good(a) /\ Handled(a, {})
  <2>1. Here.q.waiting # <<>> /\ TRUE \in BOOLEAN
    BY <1>1, <1>2, Zenon
  <2>2. Good(a)
    BY <1>1, <1>9, <2>1, AskingGood, Zenon
  <2>3. a.data = Here.data /\ a.en = Here.en /\ a.it = Here.it /\ a.br = Here.br
    BY <1>1, <1>9, <2>1, AskingSet, Zenon
  <2>5. Handled(a, {})
    BY <1>1, <2>3, AskedTame, TameStep
  <2> QED
    BY <2>2, <2>5
<1>11. \/ Becomes(w) /\ UNCHANGED main
       \/ data[e].state = "askpassword" /\ ResetAndAdvance(Deactivate(w), e, "reset")
       \/ data[e].state = "askpassword" /\ Becomes(a) /\ UNCHANGED main
  <2> DEFINE W == [Here EXCEPT !.q.waiting = Tail(@)]
             A == [Here EXCEPT !.q.asking = TRUE]
             R(x, y, f) == \/ Becomes(x) /\ UNCHANGED main
                           \/ data[f].state = "askpassword" /\ ResetAndAdvance(Deactivate(x), f, "reset")
                           \/ data[f].state = "askpassword" /\ Becomes(y) /\ UNCHANGED main
  <2>1. R(W, A, Head(q.waiting))
    BY Zenon DEF OnAskPassword
  <2>2. W = w
    BY <1>1, <1>4, <1>5, Zenon
  <2>3. A = a
    BY <1>9, Zenon
  <2> HIDE DEF W, A, R
  <2>4. R(w, a, e)
    BY <1>3, <2>1, <2>2, <2>3, Zenon
  <2> QED
    BY <2>4, Zenon DEF R
<1>12. CASE data[e].state = "askpassword" /\ ResetAndAdvance(Deactivate(w), e, "reset")
  <2>1. Tame(w, Deactivate(w)) /\ Good(Deactivate(w))
    BY <1>7, PlainOnes, DeactivateTame, DeactivateGood
  <2>2. Handled(Deactivate(w), {e})
    BY <1>7, <2>1, TameStep, HandledBut
  <2>3. "reset" \in Reasons \ {"success"}
    BY DEF Reasons
  <2> QED
    BY <1>1, <1>12, <2>1, <2>2, <2>3, ResetAndAdvanceFares
<1> QED
  BY <1>2, <1>7, <1>10, <1>11, <1>12, StaysFares

\* The password has been entered, or the dialog has been closed.
LEMMA PasswordEnteredFares ==
  ASSUME Ready, PasswordEntered
  PROVE  Fares
<1>0. main.pc # "send"
  BY DEF PasswordEntered, Idle
<1>1. Good(Here) /\ main \in Main /\ Handled(Here, {}) /\ Here \in State /\ Here.q = q /\ Here.data = data
  BY <1>0, HereHandled
<1>2. q.asking /\ q.waiting # <<>> /\ q.waiting \in Seq(Engines) /\ main.pc # "send"
  <2>1. q.waiting \in Seq(Engines)
    BY <1>1 DEF State, QueueState
  <2>2. Asks(Here)
    BY <1>1 DEF Good
  <2>3. q.asking /\ main.pc # "send"
    BY DEF PasswordEntered, Idle
  <2> QED
    BY <1>1, <2>1, <2>2, <2>3, Zenon DEF Asks
<1>3. PICK e \in Engines : e = Head(q.waiting)
  BY <1>2
<1>4. PICK l \in Seq(Engines) : l = Tail(q.waiting)
  <2>1. Tail(q.waiting) \in Seq(Engines)
    BY <1>2
  <2> QED
    BY <2>1
<1>5. PICK a : a = [Here EXCEPT !.q.asking = FALSE]
  OBVIOUS
<1>6. /\ Good(a) /\ a \in State /\ ~a.q.asking
      /\ a.data = Here.data /\ a.en = Here.en /\ a.it = Here.it /\ a.br = Here.br
  <2>1. FALSE \in BOOLEAN
    OBVIOUS
  <2>2. Good(a)
    BY <1>1, <1>5, <2>1, AskingGood, Zenon
  <2>3. /\ a.data = Here.data /\ a.en = Here.en /\ a.it = Here.it /\ a.br = Here.br
        /\ a.q.asking = FALSE
    BY <1>1, <1>5, <2>1, AskingSet, Zenon
  <2> QED
    BY <2>2, <2>3 DEF Good
<1>7. PICK w : w = [a EXCEPT !.q.waiting = l]
  OBVIOUS
<1>8. /\ Good(w) /\ w.data = Here.data /\ w.en = Here.en /\ w.it = Here.it /\ w.br = Here.br
  <2>1. Good(w)
    BY <1>6, <1>7, WaitingGood, Zenon
  <2>2. /\ w.data = a.data /\ w.en = a.en /\ w.it = a.it /\ w.br = a.br
    BY <1>6, <1>7, WaitingSet, Zenon
  <2> QED
    BY <1>6, <2>1, <2>2, Zenon
<1>9. Handled(w, {})
  BY <1>1, <1>8, AskedTame, TameStep
<1>10. PICK k : k = w.q.known \cup {data[e].site}
  OBVIOUS
<1>11. k \in SUBSET (Servers \cup {None})
  <2>1. w.q.known \in SUBSET (Servers \cup {None})
    BY <1>8 DEF Good, State, QueueState
  <2>2. data[e].site \in Servers \cup {None}
    BY <1>1 DEF State, EngineData
  <2> QED
    BY <1>10, <2>1, <2>2
<1>12. PICK x : x = [w EXCEPT !.q.known = k]
  OBVIOUS
<1>13. Good(x) /\ Handled(x, {e})
  <2>1. Good(x) /\ x.data = w.data
    BY <1>8, <1>11, <1>12, KnownGood, Zenon
  <2>2. Tame(w, x)
    BY <1>8, <1>12, KnownTame, Zenon
  <2> QED
    BY <1>9, <2>1, <2>2, TameStep, HandledBut
<1>14. PICK y : y = [x EXCEPT !.data[e].state = "connect"]
  OBVIOUS
<1>15. Good(y) /\ Handled(y, {e})
  <2>1. PICK s \in States \ {"waitprimary"} : s = "connect"
    BY DEF States
  <2>2. InState(y, x, e, s)
    BY <1>14, <2>1, Zenon DEF InState
  <2>3. Handled(y, {e})
    BY <1>13, <2>2, StateHandled
  <2>4. Good([x EXCEPT !.data[e].state = s])
    BY <1>13, StateGood
  <2>5. Good(y)
    BY <1>14, <2>1, <2>4, Zenon
  <2> QED
    BY <2>3, <2>5
<1>16. (Becomes(y) /\ Sending(e)) \/ ResetAndAdvance(Deactivate(w), e, "reset")
  <2> DEFINE W == [Here EXCEPT !.q.waiting = Tail(@), !.q.asking = FALSE]
             Y(v, f) == [v EXCEPT !.q.known = @ \cup {data[f].site}, !.data[f].state = "connect"]
             R(v, f) == \/ Becomes(Y(v, f)) /\ Sending(f)
                        \/ ResetAndAdvance(Deactivate(v), f, "reset")
  <2>1. R(W, Head(q.waiting))
    BY Zenon DEF PasswordEntered
  <2>2. W = w
    <3>1. W = [Here EXCEPT !.q.waiting = l, !.q.asking = FALSE]
      BY <1>1, <1>4, Zenon
    <3>2. [Here EXCEPT !.q.waiting = l, !.q.asking = FALSE] = [[Here EXCEPT !.q.asking = FALSE] EXCEPT !.q.waiting = l]
      BY <1>1 DEF State, QueueState
    <3> QED
      BY <1>5, <1>7, <3>1, <3>2, Zenon
  <2>3. R(w, e)
    <3> HIDE DEF R, W
    <3> QED
      BY <1>3, <2>1, <2>2, Zenon
  <2>4. Y(w, e) = y
    <3>1. Y(w, e) = [w EXCEPT !.q.known = k, !.data[e].state = "connect"]
      BY <1>10, Zenon
    <3>2. w \in State
      BY <1>8 DEF Good
    <3>3. [w EXCEPT !.q.known = k, !.data[e].state = "connect"] = [[w EXCEPT !.q.known = k] EXCEPT !.data[e].state = "connect"]
      BY <3>2 DEF State
    <3> QED
      BY <1>12, <1>14, <3>1, <3>3, Zenon
  <2> HIDE DEF Y
  <2> QED
    BY <2>3, <2>4, Zenon
<1>17. CASE ResetAndAdvance(Deactivate(w), e, "reset")
  <2>1. Tame(w, Deactivate(w)) /\ Good(Deactivate(w))
    BY <1>8, <1>9, PlainOnes, DeactivateTame, DeactivateGood
  <2>2. Handled(Deactivate(w), {e})
    BY <1>9, <2>1, TameStep, HandledBut
  <2>3. "reset" \in Reasons \ {"success"}
    BY DEF Reasons
  <2> QED
    BY <1>1, <1>17, <2>1, <2>2, <2>3, ResetAndAdvanceFares
<1> QED
  BY <1>1, <1>15, <1>16, <1>17, SendingFares

\* An idle engine is disconnected.
LEMMA OnTimerFares ==
  ASSUME Ready, NEW e \in Engines, OnTimer(e)
  PROVE  Fares
<1>0. main.pc # "send"
  BY DEF OnTimer, Idle
<1>1. Good(Here) /\ main \in Main /\ Handled(Here, {}) /\ Here \in State /\ Here.data = data
  BY <1>0, HereHandled
<1>2. PICK w : w = [Here EXCEPT !.data[e].timer = FALSE]
  OBVIOUS
<1>3. Good(w) /\ w \in State /\ Handled(w, {}) /\ ~OnItem(w.data[e])
  <2>1. Here.data \in [Engines -> EngineData]
    BY <1>1 DEF State
  <2>2. PICK d : d = [Here.data EXCEPT ![e].timer = FALSE]
    OBVIOUS
  <2>3. /\ d \in [Engines -> EngineData]
        /\ \A f \in Engines : /\ d[f].active = Here.data[f].active /\ d[f].item = Here.data[f].item
                              /\ d[f].state = Here.data[f].state
                              /\ d[f].timer => Here.data[f].timer
    BY <2>1, <2>2 DEF EngineData
  <2>4. w = [Here EXCEPT !.data = d]
    BY <1>1, <1>2, <2>2 DEF State
  <2>5. Good([Here EXCEPT !.data = d])
    BY <1>1, <2>3, DataGood
  <2>6. Good(w)
    BY <2>4, <2>5, Zenon
  <2>7. w.it = Here.it /\ w.en = Here.en /\ w.br = Here.br /\ w.data = d
    BY <1>1, <2>4 DEF State
  <2>8. Tame(Here, w)
    BY <1>1, <2>3, <2>7, GoesOnMild DEF Tame, Alike, NoneNew, GoesOn, Back, Plain
  <2>9. Handled(w, {})
    BY <1>1, <2>8, TameStep
  <2>10. data[e].timer /\ Plain(e, Here.data[e])
    BY <1>1, PlainOnes DEF OnTimer
  <2>11. ~OnItem(w.data[e])
    BY <1>1, <2>3, <2>7, <2>10 DEF Plain, OnItem
  <2> QED
    BY <2>6, <2>9, <2>11 DEF Good
<1>4. Good(Execute(w, e, "disconnect")) /\ Handled(Execute(w, e, "disconnect"), {})
  <2>1. "disconnect" \in Commands
    BY DEF Commands
  <2>2. Good(Execute(w, e, "disconnect"))
    BY <1>3, <2>1, ExecuteBeside, BesideGood
  <2>3. Tame(w, Execute(w, e, "disconnect"))
    BY <1>3, <2>1, ExecuteTame
  <2> QED
    BY <1>3, <2>2, <2>3, TameStep
<1>5. (Becomes(Execute(w, e, "disconnect")) \/ Becomes(w)) /\ UNCHANGED main
  <2> DEFINE R(x) == (Becomes(Execute(x, e, "disconnect")) \/ Becomes(x)) /\ UNCHANGED main
  <2>1. R([Here EXCEPT !.data[e].timer = FALSE])
    BY Zenon DEF OnTimer
  <2> HIDE DEF R
  <2>2. R(w)
    BY <1>2, <2>1, Zenon
  <2> QED
    BY <2>2, Zenon DEF R
<1>6. main.pc # "send"
  BY DEF OnTimer, Idle
<1> QED
  BY <1>3, <1>4, <1>5, <1>6, StaysFares

-----------------------------------------------------------------------------
(* The user.                                                                *)

\* The queue is started.
LEMMA StartFares ==
  ASSUME Ready, Start
  PROVE  Fares
<1>0. main.pc # "send"
  BY DEF Start, Acts, Idle
<1>1. Good(Here) /\ Handled(Here, {})
  BY <1>0, HereHandled
<1>2. 2 \in 0..2
  OBVIOUS
<1>3. Good([Here EXCEPT !.q.mode = 2])
  BY <1>1, <1>2, ModeGood, Zenon
<1>4. Tame(Here, [Here EXCEPT !.q.mode = 2])
  BY <1>1, <1>2, ModeTame, Zenon
<1>5. PICK w : w = [Here EXCEPT !.q.mode = 2]
  OBVIOUS
<1>6. Good(w) /\ Tame(Here, w)
  BY <1>3, <1>4, <1>5, Zenon
<1>7. Handled(w, {})
  BY <1>1, <1>6, TameStep DEF Good
<1>8. Becomes(w) /\ Advancing
  BY <1>5, Zenon DEF Start
<1> QED
  BY <1>6, <1>7, <1>8, AdvancingFares

\* It is stopped.
LEMMA StopFares ==
  ASSUME Ready, Stop
  PROVE  Fares
<1>0. main.pc # "send"
  BY DEF Stop, Acts, Idle
<1>1. Good(Here) /\ Handled(Here, {}) /\ Here \in State /\ Primary \in Engines
  BY <1>0, HereHandled
<1>2. Good(Deactivate(Here)) /\ Handled(Deactivate(Here), {})
  BY <1>1, PlainOnes, DeactivateGood, DeactivateTame, TameStep
<1>3. Becomes(Deactivate(Here)) /\ UNCHANGED main
  BY Zenon DEF Stop
<1> QED
  BY <1>2, <1>3, <1>0, StaysFares

\* An item that nobody works on is replaced by another state of it.
LEMMA ItemHandled ==
  ASSUME NEW w, Good(w), Handled(w, {}), NEW i \in Items, ~w.it[i].active, NEW x, x.where # "successful"
  PROVE  Handled([w EXCEPT !.it[i] = x], {})
<1>1. w \in State /\ w.it \in [Items -> Item]
  BY DEF Good, State
<1>2. PICK t : t = [w.it EXCEPT ![i] = x]
  OBVIOUS
<1>3. t[i] = x /\ \A j \in Items \ {i} : t[j] = w.it[j]
  BY <1>1, <1>2
<1>4. PICK v : v = [w EXCEPT !.it = t]
  OBVIOUS
<1>5. v.data = w.data /\ v.en = w.en /\ v.it = t /\ v.br = w.br
  BY <1>1, <1>4 DEF State
<1>6. ASSUME NEW e \in Engines, Owed(w, e), OnItem(w.data[e])
      PROVE  Pending(w.data[e], w.en[e], t) /\ (e = Primary => w.br.lock)
  <2>1. Pending(w.data[e], w.en[e], w.it) /\ (e = Primary => w.br.lock)
    BY <1>6 DEF Owed
  <2>2. w.data[e].item # i /\ w.data[e].item \in Items \cup {None}
    BY ItemOf DEF Good, Assigned
  <2>3. t[w.data[e].item] = w.it[w.data[e].item]
    BY <1>3, <1>6, <2>2 DEF OnItem
  <2>4. Pending(w.data[e], w.en[e], t)
    BY <2>1, <2>3 DEF Pending, IsReplyTo
  <2> QED
    BY <2>1, <2>4
<1>7. \A e \in Engines : Owed(w, e) => Owed(v, e)
  BY <1>5, <1>6 DEF Owed
<1>8. Fair(v, {})
  BY <1>5, <1>7 DEF Handled, Fair
<1>9. NoneNew(it, v.it)
  BY <1>3, <1>5 DEF Handled, NoneNew
<1>10. Handled(v, {})
  BY <1>8, <1>9 DEF Handled
<1>11. [w EXCEPT !.it[i] = x] = [w EXCEPT !.it = t]
  BY <1>1, <1>2 DEF State
<1> QED
  BY <1>4, <1>10, <1>11, Zenon

\* An item is added.
LEMMA QueueFileFares ==
  ASSUME Ready, NEW i \in Items, NEW start \in BOOLEAN, QueueFile(i, start)
  PROVE  Fares
<1>0. main.pc # "send"
  BY DEF QueueFile, Acts, Idle
<1>1. Good(Here) /\ main \in Main /\ Handled(Here, {}) /\ Here \in State /\ Here.q = q /\ Here.it = it
  BY <1>0, HereHandled
<1>2. ~it[i].active /\ it[i] \in Item
  <2>1. it[i].where = "gone"
    BY DEF QueueFile
  <2> QED
    BY <2>1, NotQueued DEF Ready
<1>3. PICK x : x = NewItem(it[i], ~start, 0)
  OBVIOUS
<1>4. x \in Item /\ ~x.active /\ x.kind = it[i].kind /\ x.server = it[i].server /\ x.where # "successful"
  BY <1>2, <1>3 DEF NewItem, Item
<1>5. PICK u : u = [Here EXCEPT !.it[i] = x]
  OBVIOUS
<1>6. Good(u) /\ Handled(u, {})
  <2>1. ~Here.it[i].active /\ x.kind = Here.it[i].kind /\ x.server = Here.it[i].server
    BY <1>1, <1>2, <1>4, Zenon
  <2>2. x \in Item /\ ~x.active /\ x.where # "successful"
    BY <1>4
  <2>3. Good(u)
    BY <1>1, <1>5, <2>1, <2>2, ItemGood, Zenon
  <2>4. Handled(u, {})
    BY <1>1, <1>5, <2>1, <2>2, ItemHandled, Zenon
  <2> QED
    BY <2>3, <2>4
<1>7. PICK m : m = IF q.mode = 0 /\ start THEN 1 ELSE q.mode
  OBVIOUS
<1>8. m \in 0..2
  <2>1. q.mode \in 0..2
    BY <1>1 DEF State, QueueState
  <2> QED
    BY <1>7, <2>1
<1>9. PICK w : w = [u EXCEPT !.q.mode = m]
  OBVIOUS
<1>10. Good(w) /\ Handled(w, {})
  <2>1. Good(w)
    BY <1>6, <1>8, <1>9, ModeGood, Zenon
  <2>2. Tame(u, w)
    BY <1>6, <1>8, <1>9, ModeTame, Zenon
  <2> QED
    BY <1>6, <2>1, <2>2, TameStep DEF Good
<1>11. Becomes(w) /\ (Advancing \/ UNCHANGED main)
  <2> DEFINE W == [Here EXCEPT !.it[i] = NewItem(@, ~start, 0), !.q.mode = IF @ = 0 /\ start THEN 1 ELSE @]
             R(y) == Becomes(y) /\ (Advancing \/ UNCHANGED main)
  <2>1. R(W)
    BY Zenon DEF QueueFile
  <2>2. W = [Here EXCEPT !.it[i] = x, !.q.mode = m]
    BY <1>1, <1>3, <1>7, Zenon
  <2>3. [Here EXCEPT !.it[i] = x, !.q.mode = m] = [[Here EXCEPT !.it[i] = x] EXCEPT !.q.mode = m]
    BY <1>1 DEF State
  <2>4. W = w
    BY <1>5, <1>9, <2>2, <2>3, Zenon
  <2> HIDE DEF W, R
  <2>5. R(w)
    BY <2>1, <2>4, Zenon
  <2> QED
    BY <2>5, Zenon DEF R
<1>12. main.pc # "send"
  BY DEF QueueFile, Acts, Idle
<1> QED
  BY <1>10, <1>11, <1>12, AdvancingFares, StaysFares

\* An item that has failed or succeeded returns to the queue.
LEMMA RequeueFileFares ==
  ASSUME Ready, NEW i \in Items, RequeueFile(i)
  PROVE  Fares
<1>0. main.pc # "send"
  BY DEF RequeueFile, Acts, Idle
<1>1. Good(Here) /\ main \in Main /\ Handled(Here, {}) /\ Here \in State /\ Here.it = it
  BY <1>0, HereHandled
<1>2. ~it[i].active /\ it[i] \in Item
  <2>1. it[i].where # "queue"
    BY DEF RequeueFile
  <2> QED
    BY <2>1, NotQueued DEF Ready
<1>3. PICK x : x = [it[i] EXCEPT !.where = "queue", !.errors = 0, !.done = FALSE]
  OBVIOUS
<1>4. x \in Item /\ ~x.active /\ x.kind = it[i].kind /\ x.server = it[i].server /\ x.where # "successful"
  BY <1>2, <1>3 DEF Item
<1>5. PICK u : u = [Here EXCEPT !.it[i] = x]
  OBVIOUS
<1>6. Good(u) /\ Handled(u, {})
  <2>1. ~Here.it[i].active /\ x.kind = Here.it[i].kind /\ x.server = Here.it[i].server
    BY <1>1, <1>2, <1>4, Zenon
  <2>2. x \in Item /\ ~x.active /\ x.where # "successful"
    BY <1>4
  <2>3. Good(u)
    BY <1>1, <1>5, <2>1, <2>2, ItemGood, Zenon
  <2>4. Handled(u, {})
    BY <1>1, <1>5, <2>1, <2>2, ItemHandled, Zenon
  <2> QED
    BY <2>3, <2>4
<1>7. Becomes(u) /\ (Advancing \/ UNCHANGED main)
  <2> DEFINE W == [Here EXCEPT !.it[i].where = "queue", !.it[i].errors = 0, !.it[i].done = FALSE]
             R(y) == Becomes(y) /\ (Advancing \/ UNCHANGED main)
  <2>1. R(W)
    BY Zenon DEF RequeueFile
  <2>2. W = [Here EXCEPT !.it[i] = [Here.it[i] EXCEPT !.where = "queue", !.errors = 0, !.done = FALSE]]
    BY <1>1 DEF State
  <2>3. W = u
    BY <1>1, <1>3, <1>5, <2>2, Zenon
  <2> HIDE DEF W, R
  <2>4. R(u)
    BY <2>1, <2>3, Zenon
  <2> QED
    BY <2>4, Zenon DEF R
<1>8. main.pc # "send"
  BY DEF RequeueFile, Acts, Idle
<1> QED
  BY <1>6, <1>7, <1>8, AdvancingFares, StaysFares

\* An item is removed, once its transfer has ended if it is active.
LEMMA OnRemoveSelectedFares ==
  ASSUME Ready, NEW i \in Items, OnRemoveSelected(i)
  PROVE  Fares
<1>0. main.pc # "send"
  BY DEF OnRemoveSelected, Acts, Idle
<1>1. Good(Here) /\ main \in Main /\ Handled(Here, {}) /\ Here \in State /\ Here.it = it /\ Here.data = data
      /\ it \in [Items -> Item]
  BY <1>0, HereHandled DEF State
<1>2. PICK e : e = CHOOSE f \in Engines : data[f].active /\ data[f].item = i
  OBVIOUS
<1>3. it[i].active => e \in Engines /\ data[e].active
  <2>1. it[i].active => \E f \in Engines : data[f].active /\ data[f].item = i
    <3>1. i # None
      BY QueueAssumption
    <3> QED
      BY <1>1, <3>1 DEF Good, Assigned
  <2> QED
    BY <1>2, <2>1
<1>4. PICK t : t = [it EXCEPT ![i] = [it[i] EXCEPT !.remove = TRUE, !.queued = TRUE]]
  OBVIOUS
<1>5. PICK w : w = [Here EXCEPT !.it = t]
  OBVIOUS
<1>6. Good(w) /\ Tame(Here, w)
  <2>1. /\ t \in [Items -> Item]
        /\ \A j \in Items : /\ t[j].active = it[j].active /\ t[j].kind = it[j].kind
                            /\ t[j].server = it[j].server /\ t[j].where = it[j].where /\ t[j].done = it[j].done
    <3>1. it \in [Items -> Item]
      BY <1>1
    <3>2. PICK z \in Item : z = it[i]
      BY <3>1
    <3>3. PICK y : y = [z EXCEPT !.remove = TRUE, !.queued = TRUE]
      OBVIOUS
    <3>4. y \in Item /\ y.active = z.active /\ y.kind = z.kind /\ y.server = z.server /\ y.where = z.where /\ y.done = z.done
      BY <3>3 DEF Item
    <3>5. y.active = it[i].active /\ y.kind = it[i].kind /\ y.server = it[i].server /\ y.where = it[i].where
         /\ y.done = it[i].done
      BY <3>2, <3>4, Zenon
    <3>6. y \in Item
      BY <3>4
    <3>7. t = [it EXCEPT ![i] = y]
      BY <1>4, <3>2, <3>3, Zenon
    <3> QED
      BY <3>1, <3>5, <3>6, <3>7
  <2>2. Good([Here EXCEPT !.it = t])
    <3>1. PICK h : h = Here
      OBVIOUS
    <3>2. \A j \in Items : /\ t[j].active = h.it[j].active /\ t[j].kind = h.it[j].kind
                            /\ t[j].server = h.it[j].server /\ t[j].where = h.it[j].where
      BY <1>1, <2>1, <3>1, Zenon
    <3>3. t \in [Items -> Item] /\ Good(h)
      BY <1>1, <2>1, <3>1, Zenon
    <3>4. Good([h EXCEPT !.it = t])
      BY <3>2, <3>3, ItemsGood
    <3> QED
      BY <3>1, <3>4, Zenon
  <2>3. Alike(it, t) /\ NoneNew(it, t)
    BY <2>1 DEF Alike, NoneNew
  <2>4. Tame(Here, [Here EXCEPT !.it = t])
    <3>1. Alike(Here.it, t) /\ NoneNew(Here.it, t)
      BY <1>1, <2>3, Zenon
    <3> QED
      BY <1>1, <3>1, ItemsTame
  <2> QED
    BY <1>5, <2>2, <2>4, Zenon
<1>7. PICK x : x = [it[i] EXCEPT !.where = "gone"]
  OBVIOUS
<1>8. PICK u : u = [Here EXCEPT !.it[i] = x]
  OBVIOUS
<1>9. ~it[i].active => Good(u) /\ Handled(u, {})
  <2> HAVE ~it[i].active
  <2>1. x \in Item /\ ~x.active /\ x.kind = it[i].kind /\ x.server = it[i].server /\ x.where # "successful"
    BY <1>1, <1>7 DEF Item
  <2>2. ~Here.it[i].active /\ x.kind = Here.it[i].kind /\ x.server = Here.it[i].server
    BY <1>1, <2>1, Zenon
  <2>3. x \in Item /\ ~x.active /\ x.where # "successful"
    BY <2>1
  <2>4. Good(u)
    BY <1>1, <1>8, <2>2, <2>3, ItemGood, Zenon
  <2>5. Handled(u, {})
    BY <1>1, <1>8, <2>2, <2>3, ItemHandled, Zenon
  <2> QED
    BY <2>4, <2>5
<1>10. \/ ~it[i].active /\ Becomes(u) /\ UNCHANGED main
       \/ it[i].active /\ data[e].state = "waitprimary" /\ ResetAndAdvance(w, e, "remove")
       \/ it[i].active /\ Becomes(Cancel(w, e)) /\ UNCHANGED main
  <2> DEFINE W == [Here EXCEPT !.it[i].remove = TRUE, !.it[i].queued = TRUE]
             U == [Here EXCEPT !.it[i].where = "gone"]
             F == CHOOSE f \in Engines : data[f].active /\ data[f].item = i
             R(y, z, f) == \/ ~it[i].active /\ Becomes(y) /\ UNCHANGED main
                           \/ it[i].active /\ data[f].state = "waitprimary" /\ ResetAndAdvance(z, f, "remove")
                           \/ it[i].active /\ Becomes(Cancel(z, f)) /\ UNCHANGED main
  <2>1. R(U, W, F)
    BY Zenon DEF OnRemoveSelected
  <2>2. W = w
    <3>1. W = [Here EXCEPT !.it = [Here.it EXCEPT ![i] = [Here.it[i] EXCEPT !.remove = TRUE, !.queued = TRUE]]]
      BY <1>1 DEF State
    <3> QED
      BY <1>1, <1>4, <1>5, <3>1, Zenon
  <2>3. U = u
    <3>1. U = [Here EXCEPT !.it[i] = [Here.it[i] EXCEPT !.where = "gone"]]
      BY <1>1 DEF State
    <3> QED
      BY <1>1, <1>7, <1>8, <3>1, Zenon
  <2>4. F = e
    BY <1>2, Zenon
  <2> HIDE DEF W, U, F, R
  <2>5. R(u, w, e)
    BY <2>1, <2>2, <2>3, <2>4, Zenon
  <2> QED
    BY <2>5, Zenon DEF R
<1>11. main.pc # "send"
  BY DEF OnRemoveSelected, Acts, Idle
<1>12. CASE ~it[i].active /\ Becomes(u) /\ UNCHANGED main
  BY <1>9, <1>11, <1>12, StaysFares
<1>13. CASE it[i].active /\ data[e].state = "waitprimary" /\ ResetAndAdvance(w, e, "remove")
  <2>1. e \in Engines /\ "remove" \in Reasons \ {"success"}
    BY <1>3, <1>13 DEF Reasons
  <2>2. Handled(w, {e})
    BY <1>1, <1>6, TameStep, HandledBut
  <2> QED
    BY <1>1, <1>6, <1>13, <2>1, <2>2, ResetAndAdvanceFares
<1>14. CASE it[i].active /\ Becomes(Cancel(w, e)) /\ UNCHANGED main
  <2>1. e \in Engines /\ w \in State
    BY <1>3, <1>6, <1>14 DEF Good
  <2>2. Good(Cancel(w, e))
    BY <1>6, <2>1, CancelBeside, BesideGood
  <2>3. Handled(w, {})
    BY <1>1, <1>6, TameStep
  <2>4. Handled(Cancel(w, e), {})
    BY <2>1, <2>3, CancelTame, TameStep
  <2> QED
    BY <1>11, <1>14, <2>2, <2>4, StaysFares
<1> QED
  BY <1>10, <1>12, <1>13, <1>14

\* All items are removed, those that are active once their transfers have ended.
LEMMA RemoveAllFares ==
  ASSUME Ready, RemoveAll
  PROVE  Fares
<1>0. main.pc # "send"
  BY DEF RemoveAll, Acts, Idle
<1> DEFINE K(x) == IF x.where # "queue" THEN x
                   ELSE IF x.active THEN [x EXCEPT !.remove = TRUE]
                   ELSE [x EXCEPT !.where = "gone"]
<1>1. Good(Here) /\ main \in Main /\ Handled(Here, {}) /\ Here \in State /\ Here.it = it /\ it \in [Items -> Item]
  BY <1>0, HereHandled DEF State
<1>2. PICK t : t = [i \in Items |-> K(it[i])]
  OBVIOUS
<1>3. ASSUME NEW i \in Items
      PROVE  /\ t[i] \in Item /\ t[i].active = it[i].active /\ t[i].kind = it[i].kind
             /\ t[i].server = it[i].server /\ (t[i].active => t[i].where = it[i].where)
             /\ t[i].done = it[i].done /\ (t[i].where = "successful" => it[i].where = "successful")
  <2>1. PICK z \in Item : z = it[i]
    BY <1>1
  <2>2. /\ K(z) \in Item /\ K(z).active = z.active /\ K(z).kind = z.kind
        /\ K(z).server = z.server /\ (K(z).active => K(z).where = z.where)
        /\ K(z).done = z.done /\ (K(z).where = "successful" => z.where = "successful")
    BY DEF Item
  <2>3. t[i] = K(z)
    BY <1>2, <2>1
  <2> HIDE DEF K
  <2> QED
    BY <2>1, <2>2, <2>3, Zenon
<1>4. t \in [Items -> Item]
  <2>1. t = [i \in Items |-> t[i]]
    BY <1>2
  <2> QED
    BY <1>3, <2>1
<1>5. PICK w : w = [Here EXCEPT !.it = t]
  OBVIOUS
<1>6. Good(w) /\ Handled(w, {})
  <2>1. PICK h : h = Here
    OBVIOUS
  <2>2. \A j \in Items : /\ t[j].active = h.it[j].active /\ t[j].kind = h.it[j].kind
                         /\ t[j].server = h.it[j].server /\ (t[j].active => t[j].where = h.it[j].where)
    BY <1>1, <1>3, <2>1, Zenon
  <2>3. Good(h)
    BY <1>1, <2>1, Zenon
  <2>4. Good([h EXCEPT !.it = t])
    BY <1>4, <2>2, <2>3, ItemsGood
  <2>5. Alike(it, t) /\ NoneNew(it, t)
    BY <1>3 DEF Alike, NoneNew
  <2>6. Alike(h.it, t) /\ NoneNew(h.it, t) /\ h \in State
    BY <1>1, <2>1, <2>5, Zenon
  <2>7. Tame(h, [h EXCEPT !.it = t])
    BY <2>6, ItemsTame
  <2>8. Good(w) /\ Tame(Here, w)
    BY <1>5, <2>1, <2>4, <2>7, Zenon
  <2> QED
    BY <1>1, <2>8, TameStep
<1>7. Good(CheckQueueState(w, None)) /\ Handled(CheckQueueState(w, None), {})
  <2>1. Tame(w, CheckQueueState(w, None))
    BY <1>6, CheckQueueStateTame
  <2> QED
    BY <1>6, <2>1, CheckQueueStateGood, TameStep DEF Good
<1>8. Becomes(CheckQueueState(w, None)) /\ UNCHANGED main
  <2>1. Becomes(CheckQueueState([Here EXCEPT !.it = [i \in Items |-> K(it[i])]], None)) /\ UNCHANGED main
    BY Zenon DEF RemoveAll
  <2>2. [Here EXCEPT !.it = [i \in Items |-> K(it[i])]] = w
    BY <1>2, <1>5, Zenon
  <2> QED
    BY <2>1, <2>2, Zenon
<1>9. main.pc # "send"
  BY DEF RemoveAll, Acts, Idle
<1> QED
  BY <1>7, <1>8, <1>9, StaysFares

\* To quit ends no work.
LEMMA QuitTame ==
  ASSUME NEW w, Good(w)
  PROVE  Tame(w, [w EXCEPT !.q.quit = 1])
<1>1. PICK v : v = [w EXCEPT !.q.quit = 1]
  OBVIOUS
<1>2. w \in State
  BY DEF Good
<1>3. v.en = w.en /\ v.it = w.it /\ v.data = w.data /\ v.br = w.br
  BY <1>1, <1>2 DEF State
<1>4. Tame(w, v)
  BY <1>3, AskedTame
<1> QED
  BY <1>1, <1>4, Zenon

\* It quits at once if no engine is active.
LEMMA QuitFares ==
  ASSUME Ready, Quit
  PROVE  Fares
<1>0. main.pc # "send"
  BY DEF Quit, Acts, Idle
<1>1. Good(Here) /\ main \in Main /\ Handled(Here, {}) /\ Here.q = q /\ q.quit = 0
  BY <1>0, HereHandled DEF Quit, Acts
<1>2. PICK w : w = Deactivate([Here EXCEPT !.q.quit = 1])
  OBVIOUS
<1>3. Good(w) /\ Handled(w, {})
  <2>1. PICK u : u = [Here EXCEPT !.q.quit = 1]
    OBVIOUS
  <2>2. Here.q.quit = 0
    BY <1>1, Zenon
  <2>3. Good(u) /\ Tame(Here, u)
    BY <1>1, <2>1, <2>2, QuitGood, QuitTame, Zenon
  <2>6. Handled(u, {})
    BY <1>1, <2>3, TameStep
  <2>7. Primary \in Engines
    BY DEF Engines
  <2>4. w = Deactivate(u)
    BY <1>2, <2>1, Zenon
  <2>5. Good(w) /\ Tame(u, w)
    BY <2>3, <2>4, <2>6, <2>7, PlainOnes, DeactivateGood, DeactivateTame
  <2> QED
    BY <2>3, <2>5, <2>6, TameStep DEF Good
<1>4. w.q.count = 0 => Good(DeleteEngines(w)) /\ Handled(DeleteEngines(w), {})
  <2>1. Tame(w, DeleteEngines(w))
    BY <1>3, DeleteEnginesTame
  <2> QED
    BY <1>3, <2>1, NobodyActive, DeleteEnginesGood, TameStep DEF Good
<1>5. \/ w.q.count = 0 /\ Becomes(DeleteEngines(w)) /\ UNCHANGED main
      \/ Becomes(w) /\ UNCHANGED main
  <2> DEFINE R(x) == \/ x.q.count = 0 /\ Becomes(DeleteEngines(x)) /\ UNCHANGED main
                     \/ Becomes(x) /\ UNCHANGED main
  <2>1. R(Deactivate([Here EXCEPT !.q.quit = 1]))
    BY Zenon DEF Quit
  <2> HIDE DEF R
  <2>2. R(w)
    BY <1>2, <2>1, Zenon
  <2> QED
    BY <2>2, Zenon DEF R
<1>6. main.pc # "send"
  BY DEF Quit, Acts, Idle
<1> QED
  BY <1>3, <1>4, <1>5, <1>6, StaysFares

\* The browsing connection is given a command.
LEMMA BrowseFares ==
  ASSUME Ready, NEW s \in Servers \cup {None}, Browse(s)
  PROVE  Fares
<1>0. main.pc # "send"
  BY DEF Browse, Acts, Idle
<1>1. Good(Here) /\ main \in Main /\ Handled(Here, {}) /\ Here \in State
  BY <1>0, HereHandled
<1>2. PICK w : w = [Here EXCEPT !.br.site = s, !.br.cmds = @ + 1]
  OBVIOUS
<1>3. Good(w) /\ w \in State /\ Handled(w, {})
  <2>1. PICK z : z = Here.br
    OBVIOUS
  <2>2. PICK n : n = z.cmds + 1
    OBVIOUS
  <2>3. z \in Browsing
    BY <1>1, <2>1 DEF State
  <2>4. n \in Int
    BY <2>2, <2>3 DEF Browsing
  <2>5. PICK b : b = [z EXCEPT !.site = s, !.cmds = n]
    OBVIOUS
  <2>6. b \in Browsing /\ b.lock = z.lock
    BY <2>3, <2>4, <2>5 DEF Browsing
  <2>7. w = [Here EXCEPT !.br = b]
    <3>1. w = [Here EXCEPT !.br.site = s, !.br.cmds = n]
      BY <1>2, <2>1, <2>2, Zenon
    <3>2. [Here EXCEPT !.br.site = s, !.br.cmds = n] = [Here EXCEPT !.br = [Here.br EXCEPT !.site = s, !.cmds = n]]
      BY <1>1 DEF State
    <3> QED
      BY <2>1, <2>5, <3>1, <3>2, Zenon
  <2>8. Good([Here EXCEPT !.br = b])
    BY <1>1, <2>6, BrowsingGood
  <2>9. Good(w)
    BY <2>7, <2>8, Zenon
  <2>10. Tame(Here, w)
    BY <1>1, <2>1, <2>6, <2>7, BrowsingTame, Zenon
  <2>11. Handled(w, {})
    BY <1>1, <2>10, TameStep
  <2> QED
    BY <2>9, <2>11 DEF Good
<1>4. Good(ProcessNextCommand(w)) /\ Handled(ProcessNextCommand(w), {})
  <2>1. Tame(w, ProcessNextCommand(w))
    BY <1>3, ProcessNextTame
  <2> QED
    BY <1>3, <2>1, ProcessNextBeside, BesideGood, TameStep
<1>5. (Becomes(ProcessNextCommand(w)) \/ Becomes(w)) /\ UNCHANGED main
  <2> DEFINE R(x) == (Becomes(ProcessNextCommand(x)) \/ Becomes(x)) /\ UNCHANGED main
  <2>1. R([Here EXCEPT !.br.site = s, !.br.cmds = @ + 1])
    BY Zenon DEF Browse
  <2> HIDE DEF R
  <2>2. R(w)
    BY <1>2, <2>1, Zenon
  <2> QED
    BY <2>2, Zenon DEF R
<1>6. main.pc # "send"
  BY DEF Browse, Acts, Idle
<1> QED
  BY <1>3, <1>4, <1>5, <1>6, StaysFares

-----------------------------------------------------------------------------
(* The loop of AdvanceQueue.                                                *)

\* An engine joins the list.
LEMMA ListingTame ==
  ASSUME NEW w, Good(w), NEW e
  PROVE  Tame(w, Listing(w, e))
<1>1. w \in State
  BY DEF Good
<1>2. PICK y : y = [w EXCEPT !.q.list = Append(@, e)]
  OBVIOUS
<1>3. y.it = w.it /\ y.data = w.data /\ y.en = w.en /\ y.br = w.br
  BY <1>1, <1>2 DEF State
<1>4. Tame(w, y)
  BY <1>3, AskedTame
<1>5. Listing(w, e) = w \/ Listing(w, e) = y
  BY <1>2, Zenon DEF Listing
<1> QED
  BY <1>4, <1>5, TameSelf, Zenon

\* The engine of the browsing connection comes into a state of rest.
LEMMA RestTame ==
  ASSUME NEW w, Good(w), ~w.data[Primary].active, NEW state \in States,
         NEW v, InState(v, w, Primary, state)
  PROVE  Tame(w, v)
<1>1. w \in State /\ w.data \in [Engines -> EngineData] /\ Primary \in Engines
  BY DEF Good, State, Engines
<1>2. PICK d : d = [w.data EXCEPT ![Primary].state = state]
  OBVIOUS
<1>3. v = [w EXCEPT !.data = d]
  BY <1>1, <1>2 DEF State, InState
<1>4. v.it = w.it /\ v.en = w.en /\ v.br = w.br /\ v.data = d
  BY <1>1, <1>3 DEF State
<1>5. /\ d[Primary].timer = w.data[Primary].timer /\ d[Primary].item = w.data[Primary].item
      /\ \A f \in Engines \ {Primary} : d[f] = w.data[f]
  BY <1>1, <1>2 DEF EngineData
<1>6. w.data[Primary].item = None
  BY <1>1 DEF Good, Assigned
<1>7. ASSUME NEW f \in Engines
      PROVE  Back(w.data[f], d[f]) /\ GoesOn(w.en[f], v.en[f]) /\ (Plain(f, w.data[f]) => Plain(f, d[f]))
  BY <1>4, <1>5, <1>6 DEF Back, GoesOn, Plain, OnItem
<1>8. Mild(w, v)
  BY <1>1, <1>4, <1>7, GoesOnMild DEF Alike
<1> QED
  BY <1>4, <1>8 DEF Tame, NoneNew

\* The borrowed engine was not in use.
LEMMA LoanTame ==
  ASSUME NEW v, Good(v), Primary \notin Range(v.q.list)
  PROVE  Tame(v, Loan(v))
<1>1. Primary \in Engines \cup {None} /\ Primary \in Engines
  BY DEF Engines
<1>2. PICK x : x = Listing(v, Primary)
  OBVIOUS
<1>3. Grown(v, x) /\ Tame(v, x)
  BY <1>1, <1>2, ListingGrown, ListingTame, Zenon
<1>4. Good(x) /\ ~x.data[Primary].active
  <2>1. ~v.data[Primary].active
    BY <1>1 DEF Good, Listed
  <2> QED
    BY <1>1, <1>3, <2>1, Zenon DEF Grown
<1>5. PICK st \in States : st = "waitprimary"
  BY DEF States
<1>6. PICK y : y = [x EXCEPT !.data[Primary].state = st]
  OBVIOUS
<1>7. InState(y, x, Primary, st)
  BY <1>6, Zenon DEF InState
<1>8. Tame(x, y)
  BY <1>1, <1>4, <1>7, RestTame
<1>9. Loan(v) = y
  BY <1>2, <1>5, <1>6, Zenon DEF Loan
<1> QED
  BY <1>3, <1>8, <1>9, TameTwice, Zenon

\* Neither was any engine that CanStartTransfer adds to the list.
LEMMA CanStartTame ==
  ASSUME NEW w, Good(w), NEW s
  PROVE  Tame(w, CanStartTransfer(w, s).w)
<1>1. PICK idle : idle = GetIdleEngine(w, s, TRUE)
  OBVIOUS
<1>2. PICK v : v = Listing(w, idle)
  OBVIOUS
<1>3. idle \in Engines \cup {None}
  BY <1>1, IdleOrNone, Zenon
<1>4. Good(v) /\ Tame(w, v)
  BY <1>2, <1>3, ListingGrown, ListingTame, Zenon DEF Grown
<1>5. PICK x : x = Loan(v)
  OBVIOUS
<1>6. Primary \notin Range(v.q.list) => Tame(w, x)
  BY <1>4, <1>5, LoanTame, TameTwice, Zenon
<1>7. PICK c : c = CanStartTransfer(w, s)
  OBVIOUS
<1>8. c.w \in {w, v} \/ (Primary \notin Range(v.q.list) /\ c.w = x)
  <2>1. PICK a : a = ~v.data[Primary].active
    OBVIOUS
  <2>2. \/ c \in {[ok |-> TRUE, e |-> None, w |-> w], [ok |-> TRUE, e |-> idle, w |-> v],
                  [ok |-> FALSE, e |-> None, w |-> v], [ok |-> a, e |-> Primary, w |-> v]}
        \/ Primary \notin Range(v.q.list) /\ c = [ok |-> TRUE, e |-> Primary, w |-> x]
    <3>1. c = IF ~Full(w, s) THEN [ok |-> TRUE, e |-> None, w |-> w]
              ELSE IF Fits(w, s, idle) THEN [ok |-> TRUE, e |-> idle, w |-> v]
              ELSE IF NoLoan(w, s) THEN [ok |-> FALSE, e |-> None, w |-> v]
              ELSE IF Primary \in Range(v.q.list) THEN [ok |-> a, e |-> Primary, w |-> v]
              ELSE [ok |-> TRUE, e |-> Primary, w |-> x]
      BY <1>1, <1>2, <1>5, <1>7, <2>1, CanStartShape, Zenon
    <3> QED
      BY <3>1, Zenon
  <2> QED
    BY <2>2
<1>9. Tame(w, c.w)
  BY <1>4, <1>6, <1>8, TameSelf, Zenon
<1> QED
  BY <1>7, <1>9, Zenon

\* So for the look at another server.
LEMMA ExaminedTame ==
  ASSUME NEW w, Good(w), NEW s
  PROVE  Tame(w, Examined(w, s))
BY CanStartTame, TameSelf, Zenon DEF Examined

\* An engine that is not active takes up an item.
LEMMA StartedHandled ==
  ASSUME NEW w, Good(w), Handled(w, {}), NEW e \in Engines, NEW i \in Items
  PROVE  Handled(Started(w, e, i), {e})
<1>1. /\ w \in State /\ w.q \in QueueState /\ w.it \in [Items -> Item]
      /\ w.data \in [Engines -> EngineData] /\ w.q.server \in [Servers -> Int]
  BY DEF Good, State, QueueState
<1>2. PICK s \in Servers : s = ServerOf(i)
  BY <1>1 DEF ServerOf, Good, SameItems, Item
<1>3. PICK b \in BOOLEAN, nb \in BOOLEAN : b = TRUE /\ nb = FALSE
  OBVIOUS
<1>4. PICK c, dn, up, m :
        /\ c = w.q.count + 1
        /\ dn = IF Download(i) THEN w.q.down + 1 ELSE w.q.down
        /\ up = IF Download(i) THEN w.q.up ELSE w.q.up + 1
        /\ m = w.q.server[s] + 1
  OBVIOUS
<1>5. c \in Int /\ dn \in Int /\ up \in Int /\ m \in Int
  <2>1. w.q.count \in Int /\ w.q.down \in Int /\ w.q.up \in Int /\ w.q.server[s] \in Int
    BY <1>1 DEF QueueState
  <2> QED
    BY <1>4, <2>1
<1>6. PICK p : p = [w.q EXCEPT !.count = c, !.server = [w.q.server EXCEPT ![s] = m], !.down = dn, !.up = up]
  OBVIOUS
<1>7. PICK t : t = [w.it EXCEPT ![i].active = b]
  OBVIOUS
<1>8. PICK d : d = [w.data EXCEPT ![e] = [w.data[e] EXCEPT !.active = b, !.item = i, !.timer = nb, !.site = s]]
  OBVIOUS
<1>9. PICK v : v = [w EXCEPT !.q = p, !.it = t, !.data = d]
  OBVIOUS
<1>10. Started(w, e, i) = v
  <2> DEFINE R(x, y, z, k, g, l) == [w EXCEPT !.q = [w.q EXCEPT !.count = x, !.server[k] = y, !.down = z, !.up = g],
                                             !.it[i].active = b, !.data[e] = l]
             L(k) == [w.data[e] EXCEPT !.active = b, !.item = i, !.timer = nb, !.site = k]
  <2>1. Started(w, e, i) = R(c, m, dn, s, up, L(s))
    BY <1>2, <1>3, <1>4, Zenon DEF Started
  <2>2. R(c, m, dn, s, up, L(s)) = [w EXCEPT !.q = p, !.it = t, !.data = d]
    <3>1. p = [w.q EXCEPT !.count = c, !.server[s] = m, !.down = dn, !.up = up]
      BY <1>1, <1>6 DEF QueueState
    <3>2. PICK l : l = L(s)
      OBVIOUS
    <3>3. d = [w.data EXCEPT ![e] = l]
      BY <1>8, <3>2, Zenon
    <3> HIDE DEF L
    <3>4. R(c, m, dn, s, up, l) = [w EXCEPT !.q = p, !.it[i].active = b, !.data[e] = l]
      BY <3>1, Zenon
    <3>5. [w EXCEPT !.q = p, !.it[i].active = b, !.data[e] = l] = [w EXCEPT !.q = p, !.it = t, !.data = d]
      BY <1>1, <1>7, <3>3 DEF State
    <3> QED
      BY <3>2, <3>4, <3>5, Zenon
  <2> QED
    BY <1>9, <2>1, <2>2, Zenon
<1>11. \A j \in Items : t[j].done = w.it[j].done /\ t[j].where = w.it[j].where
  BY <1>1, <1>7 DEF Item
<1>12. d[e].timer = nb /\ d[e].state = w.data[e].state /\ \A f \in Engines \ {e} : d[f] = w.data[f]
  <2>1. PICK x : x = w.data[e]
    OBVIOUS
  <2>2. PICK y : y = [x EXCEPT !.active = b, !.item = i, !.timer = nb, !.site = s]
    OBVIOUS
  <2>3. y.timer = nb /\ y.state = x.state
    BY <1>1, <2>1, <2>2 DEF EngineData
  <2>4. d = [w.data EXCEPT ![e] = y]
    BY <1>8, <2>1, <2>2, Zenon
  <2> QED
    BY <1>1, <2>1, <2>3, <2>4
<1>13. v.it = t /\ v.data = d /\ v.en = w.en /\ v.br = w.br
  BY <1>1, <1>9 DEF State
<1>14. ASSUME NEW f \in Engines, f # e, Owed(w, f), OnItem(w.data[f])
       PROVE  Pending(w.data[f], w.en[f], t) /\ (f = Primary => w.br.lock)
  <2>1. Pending(w.data[f], w.en[f], w.it) /\ (f = Primary => w.br.lock)
    BY <1>14 DEF Owed
  <2>2. w.data[f].item \in Items
    BY <1>1, <1>14, ItemOf DEF OnItem
  <2>3. t[w.data[f].item].done = w.it[w.data[f].item].done
    BY <1>11, <2>2
  <2>4. Pending(w.data[f], w.en[f], t)
    BY <2>1, <2>3 DEF Pending, IsReplyTo
  <2> QED
    BY <2>1, <2>4
<1>15. ASSUME NEW f \in Engines
       PROVE  Plain(f, v.data[f]) /\ (f = e \/ (bypassed /\ f = Primary) \/ Owed(v, f))
  <2>1. Plain(f, w.data[f]) /\ ((bypassed /\ f = Primary) \/ Owed(w, f))
    BY DEF Handled, Fair
  <2>2. Plain(f, v.data[f])
    BY <1>3, <1>12, <1>13, <2>1 DEF Plain
  <2>3. f # e /\ Owed(w, f) => Owed(v, f)
    BY <1>12, <1>13, <1>14 DEF Owed
  <2> QED
    BY <2>1, <2>2, <2>3
<1>16. NoneNew(it, v.it)
  BY <1>11, <1>13 DEF Handled, NoneNew
<1>17. Handled(v, {e})
  BY <1>15, <1>16 DEF Handled, Fair
<1> QED
  BY <1>10, <1>17, Zenon

\* A local directory is made on the spot.
LEMMA MakeLocalDirFares ==
  ASSUME Ready, NEW i \in Items, MakeLocalDir(i)
  PROVE  Fares
<1>0. main.pc # "send"
  BY DEF MakeLocalDir
<1>1. Good(Here) /\ main \in Main /\ Handled(Here, {}) /\ Here \in State /\ Here.it = it
  BY <1>0, HereHandled
<1>2. it[i].where = "queue" /\ ~it[i].active
  <2>1. i \in GetIdleChild(Here, ServerOf(i))
    BY DEF MakeLocalDir, Startable
  <2>2. Here.it[i].where = "queue" /\ ~Here.it[i].active
    BY <2>1, ChildFacts
  <2> QED
    BY <1>1, <2>2, Zenon
<1>3. PICK v : v = CanStartTransfer(Here, ServerOf(i)).w
  OBVIOUS
<1>4. Grown(Here, v) /\ Tame(Here, v)
  <2>1. PICK h : h = Here
    OBVIOUS
  <2>2. Good(h)
    BY <1>1, <2>1, Zenon
  <2>3. PICK s : s = ServerOf(i)
    OBVIOUS
  <2>4. Grown(h, CanStartTransfer(h, s).w) /\ Tame(h, CanStartTransfer(h, s).w)
    BY <2>2, CanStartGrown, CanStartTame
  <2> QED
    BY <1>3, <2>1, <2>3, <2>4, Zenon
<1>5. Good(v) /\ v.it = it /\ Handled(v, {})
  BY <1>1, <1>4, TameStep, Zenon DEF Grown
<1>6. PICK g \in {"queue", "failed", "successful", "gone"} : g = "gone"
  OBVIOUS
<1>7. PICK y : y = v.it[i]
  OBVIOUS
<1>8. v.it \in [Items -> Item] /\ v \in State
  BY <1>5 DEF Good, State
<1>9. y \in Item
  BY <1>7, <1>8
<1>10. PICK x : x = [y EXCEPT !.where = g]
  OBVIOUS
<1>11. x \in Item /\ x.where # "successful" /\ x.active = y.active /\ x.kind = y.kind /\ x.server = y.server
  BY <1>6, <1>9, <1>10 DEF Item
<1>12. ~y.active
  BY <1>2, <1>5, <1>7, Zenon
<1>13. Good([v EXCEPT !.it[i] = x]) /\ Handled([v EXCEPT !.it[i] = x], {})
  <2>1. ~v.it[i].active /\ ~x.active /\ x.kind = v.it[i].kind /\ x.server = v.it[i].server
    BY <1>7, <1>11, <1>12, Zenon
  <2>2. x \in Item /\ x.where # "successful"
    BY <1>11
  <2> QED
    BY <1>5, <2>1, <2>2, ItemGood, ItemHandled
<1>14. Becomes([v EXCEPT !.it[i] = x])
  <2>1. Becomes([v EXCEPT !.it[i].where = g])
    BY <1>3, <1>6, Zenon DEF MakeLocalDir
  <2>2. [v EXCEPT !.it[i].where = g] = [v EXCEPT !.it[i] = x]
    BY <1>7, <1>8, <1>10 DEF State
  <2> QED
    BY <2>1, <2>2, Zenon
<1>15. UNCHANGED main
  BY DEF MakeLocalDir
<1>17. PICK z : z = [v EXCEPT !.it[i] = x]
  OBVIOUS
<1>18. Good(z) /\ Handled(z, {}) /\ Becomes(z)
  BY <1>13, <1>14, <1>17, Zenon
<1> QED
  BY <1>0, <1>15, <1>18, StaysFares

\* A transfer is started.
LEMMA TryStartNextTransferFares ==
  ASSUME Ready, NEW i \in Items, TryStartNextTransfer(i)
  PROVE  Fares
<1>0. main.pc # "send"
  BY Zenon DEF TryStartNextTransfer
<1> DEFINE U(h, s, o) == IF o = s THEN h ELSE Examined(h, o)
           E(s, x) == IF x.e # None THEN x.e ELSE GetIdleEngine(x.w, s, FALSE)
           W(x, y) == Started(Listing(x.w, y), y, i)
           F(s, v, x, y) ==
             IF v.data[y].state = "waitprimary" THEN v
             ELSE IF ~v.en[y].sock THEN ToConnect(v, y)
             ELSE IF x.w.data[y].site # s THEN [v EXCEPT !.data[y].state = "disconnect"]
             ELSE [v EXCEPT !.data[y].state = Work(i)]
           S(s, x, y) == y # None /\ Becomes(F(s, W(x, y), x, y)) /\ Sending(y)
           T(s, x) == S(s, x, E(s, x))
<1>1. PICK other \in Servers :
        T(ServerOf(i), CanStartTransfer(U(Here, ServerOf(i), other), ServerOf(i)))
  BY ZenonT(60) DEF TryStartNextTransfer
<1>2. PICK s : s = ServerOf(i)
  OBVIOUS
<1>3. PICK h : h = Here
  OBVIOUS
<1>4. PICK u : u = U(h, s, other)
  OBVIOUS
<1>5. PICK c : c = CanStartTransfer(u, s)
  OBVIOUS
<1>6. PICK e : e = E(s, c)
  OBVIOUS
<1>7. S(s, c, e)
  <2> HIDE DEF U, E, S
  <2>1. T(s, CanStartTransfer(U(h, s, other), s))
    <3> HIDE DEF T
    <3> QED
      BY <1>1, <1>2, <1>3, Zenon
  <2>2. T(s, c)
    <3> HIDE DEF T
    <3> QED
      BY <1>4, <1>5, <2>1, Zenon
  <2>3. S(s, c, E(s, c))
    BY <2>2, Zenon
  <2> QED
    BY <1>6, <2>3, Zenon
<1>8. Good(h) /\ main \in Main /\ h.it = it /\ Handled(h, {}) /\ h.q = q
  BY <1>0, <1>3, HereHandled, Zenon
<1>9. /\ i \in GetIdleChild(h, s) /\ CanStartTransfer(h, s).ok
  BY <1>2, <1>3, Zenon DEF TryStartNextTransfer, Startable
<1>10. it[i].where = "queue" /\ ~it[i].active
  <2>1. h.it[i].where = "queue" /\ ~h.it[i].active
    BY <1>9, ChildFacts
  <2> QED
    BY <1>8, <2>1, Zenon
<1>11. u = h \/ u = Examined(h, other)
  BY <1>4, Zenon
<1>12. Grown(h, u) /\ Tame(h, u)
  <2>1. Grown(h, h)
    BY <1>8, Zenon DEF Grown
  <2> QED
    BY <1>8, <1>11, <2>1, ExaminedGrown, ExaminedTame, TameSelf, Zenon
<1>13. Good(u)
  BY <1>12, Zenon DEF Grown
<1>14. Grown(u, c.w) /\ Tame(u, c.w)
  BY <1>5, <1>13, CanStartGrown, CanStartTame, Zenon
<1>15. Good(c.w) /\ e # None
  BY <1>7, <1>14, Zenon DEF Grown
<1>16. e \in Engines /\ ~c.w.data[e].active
  <2>1. CASE c.e # None
    <3>1. e = c.e
      BY <1>6, <2>1, Zenon
    <3>2. c.e \in Engines /\ ~u.data[c.e].active
      <4>1. Good(h) /\ CanStartTransfer(h, s).ok
        BY <1>8, <1>9
      <4> QED
        BY <1>5, <1>11, <2>1, <4>1, CanStartUse, Zenon
    <3> QED
      BY <1>14, <3>1, <3>2, Zenon DEF Grown
  <2>2. CASE c.e = None
    <3>1. e = GetIdleEngine(c.w, s, FALSE)
      BY <1>6, <2>2, Zenon
    <3>2. PICK x : x = c.w
      OBVIOUS
    <3>3. PICK f \in BOOLEAN : f = FALSE
      OBVIOUS
    <3>4. Good(x) /\ e = GetIdleEngine(x, s, f) /\ e # None
      BY <1>15, <3>1, <3>2, <3>3, Zenon
    <3>5. e \in Engines /\ ~x.data[e].active
      BY <3>4, GetIdleEngineFacts
    <3> QED
      BY <3>2, <3>5, Zenon
  <2> QED
    BY <2>1, <2>2
<1>17. PICK l : l = Listing(c.w, e)
  OBVIOUS
<1>18. Grown(c.w, l) /\ e \in Range(l.q.list) /\ Tame(c.w, l)
  <2>1. e \in Engines \cup {None}
    BY <1>16
  <2> QED
    BY <1>15, <1>17, <2>1, ListingGrown, ListingTame, Zenon
<1>19. Good(l) /\ ~l.data[e].active /\ l.it = it
  <2>1. Good(l) /\ l.it = c.w.it /\ ~l.data[e].active
    BY <1>16, <1>18, Zenon DEF Grown
  <2>2. c.w.it = u.it /\ u.it = h.it
    BY <1>12, <1>14, Zenon DEF Grown
  <2> QED
    BY <1>8, <2>1, <2>2, Zenon
<1>20. PICK w : w = Started(l, e, i)
  OBVIOUS
<1>21. Good(w)
  <2>1. ~l.it[i].active /\ l.it[i].where = "queue"
    BY <1>10, <1>19, Zenon
  <2> QED
    BY <1>16, <1>18, <1>19, <1>20, <2>1, StartedGood, Zenon
<1>26. Handled(w, {e})
  <2>1. Handled(u, {})
    BY <1>8, <1>12, TameStep
  <2>2. Handled(c.w, {})
    BY <1>14, <2>1, TameStep
  <2>3. Handled(l, {})
    BY <1>18, <2>2, TameStep
  <2> QED
    BY <1>16, <1>19, <1>20, <2>3, StartedHandled, Zenon
<1>22. Becomes(F(s, w, c, e)) /\ Sending(e)
  <2> HIDE DEF F
  <2>1. W(c, e) = w
    BY <1>17, <1>20, Zenon
  <2> HIDE DEF W
  <2> QED
    BY <1>7, <2>1, Zenon
<1>23. Good(F(s, w, c, e)) /\ Handled(F(s, w, c, e), {e})
  <2>1. PICK a \in States \ {"waitprimary"}, b \in States \ {"waitprimary"} : a = "disconnect" /\ b = Work(i)
    BY DEF States, Work
  <2>2. PICK x : x = [w EXCEPT !.data[e].state = "disconnect"]
    OBVIOUS
  <2>3. PICK y : y = [w EXCEPT !.data[e].state = Work(i)]
    OBVIOUS
  <2>4. InState(x, w, e, a) /\ InState(y, w, e, b)
    BY <2>1, <2>2, <2>3, Zenon DEF InState
  <2>5. Good(x) /\ Good(y)
    BY <1>16, <1>21, <2>4, StateSet
  <2>6. Handled(x, {e}) /\ Handled(y, {e})
    BY <1>16, <1>21, <1>26, <2>1, <2>4, StateHandled
  <2>7. Good(ToConnect(w, e)) /\ Handled(ToConnect(w, e), {e})
    BY <1>16, <1>21, <1>26, ToConnectGood, ToConnectHandled
  <2> QED
    BY <1>21, <1>26, <2>2, <2>3, <2>5, <2>6, <2>7, Zenon
<1>24. PICK z : z = F(s, w, c, e)
  OBVIOUS
<1>25. Good(z) /\ Handled(z, {e}) /\ Becomes(z) /\ Sending(e)
  BY <1>22, <1>23, <1>24, Zenon
<1> QED
  BY <1>8, <1>16, <1>25, SendingFares

\* AdvanceQueue is done.
LEMMA AdvanceQueueEndsFares ==
  ASSUME Ready, AdvanceQueueEnds
  PROVE  Fares
<1>0. main.pc # "send"
  BY Zenon DEF AdvanceQueueEnds
<1> DEFINE X(o) == IF MayStart THEN Examined(Here, o) ELSE Here
<1>1. PICK other \in Servers, refresh \in Own \cup {None} : Becomes(CheckQueueState(IdleTimers(X(other)), refresh))
  BY Zenon DEF AdvanceQueueEnds
<1>2. PICK h : h = Here
  OBVIOUS
<1>3. Good(h) /\ h \in State /\ main \in Main /\ Handled(h, {})
  BY <1>0, <1>2, HereHandled, Zenon
<1>4. PICK x : x = X(other)
  OBVIOUS
<1>5. Good(x) /\ Handled(x, {})
  <2>1. x = h \/ x = Examined(h, other)
    BY <1>2, <1>4, Zenon
  <2>2. Good(Examined(h, other)) /\ Tame(h, Examined(h, other))
    BY <1>3, ExaminedGrown, ExaminedTame, Zenon DEF Grown
  <2>3. h \in State
    BY <1>3 DEF Good
  <2> QED
    BY <1>3, <2>1, <2>2, <2>3, TameStep, Zenon
<1>6. PICK v : v = CheckQueueState(IdleTimers(x), refresh)
  OBVIOUS
<1>7. Good(v) /\ Handled(v, {})
  <2>1. Good(IdleTimers(x)) /\ Tame(x, IdleTimers(x))
    BY <1>5, IdleTimersGood, IdleTimersTame
  <2>2. Handled(IdleTimers(x), {})
    BY <1>5, <2>1, TameStep
  <2>3. Good(v) /\ Tame(IdleTimers(x), v)
    BY <1>6, <2>1, CheckQueueStateGood, CheckQueueStateTame, Zenon
  <2> QED
    BY <2>1, <2>2, <2>3, TameStep
<1>8. Becomes(v)
  <2> HIDE DEF X
  <2> QED
    BY <1>1, <1>4, <1>6, Zenon
<1>9. main'.pc # "send"
  BY <1>3 DEF AdvanceQueueEnds, Main
<1>10. {} = IF main'.pc = "send" THEN {main'.e} ELSE {}
  BY <1>9
<1> QED
  BY <1>7, <1>8, <1>10, EndsFair, EndsEarned DEF Fares, Handled, Good

-----------------------------------------------------------------------------
(* The loop of SendNextCommand.                                             *)

\* IncreaseErrorCount for an engine that owes nothing yet.
LEMMA IncreaseErrorCountFares ==
  ASSUME NEW w, Good(w), main \in Main, NEW e \in Engines, Handled(w, {e}), IncreaseErrorCount(w, e)
  PROVE  Fares
<1>1. Good(Tried(w, e)) /\ Tame(w, Tried(w, e)) /\ "failure" \in Reasons \ {"success"}
  BY TriedGood, TriedTame DEF Reasons
<1>2. Handled(Tried(w, e), {e})
  BY <1>1, TameStep
<1>3. CASE GivesUp(w, e)
  <2>1. ResetAndAdvance(Tried(w, e), e, "failure")
    BY <1>3, Zenon DEF IncreaseErrorCount
  <2> QED
    BY <1>1, <1>2, <2>1, ResetAndAdvanceFares
<1>4. CASE ~GivesUp(w, e)
  <2>1. Becomes(Tried(w, e)) /\ Sending(e)
    BY <1>4, Zenon DEF IncreaseErrorCount
  <2> QED
    BY <1>1, <1>2, <2>1, SendingFares
<1> QED
  BY <1>3, <1>4

\* The last engine that owed nothing yet owes something now, or is the primary
\* one, used without the lock from now on.
LEMMA EndsOwing ==
  ASSUME NEW w \in State, Becomes(w), main'.pc # "send",
         \A f \in Engines : Plain(f, w.data[f]) /\ ((bypassed' /\ f = Primary) \/ Owed(w, f))
  PROVE  HInv'
<1>1. w.q = q' /\ w.data = data' /\ w.it = it' /\ w.br = br' /\ w.en = en'
  BY Zenon DEF Becomes
<1>2. Here' = w
  <2>1. w = [q |-> w.q, data |-> w.data, it |-> w.it, br |-> w.br, en |-> w.en]
    BY DEF State
  <2> QED
    BY <1>1, <2>1, Zenon DEF Here
<1>3. Fair(w, {})'
  BY DEF Fair, Owed, Plain
<1>4. {} = (IF main.pc = "send" THEN {main.e} ELSE {})'
  OBVIOUS
<1>5. Fair(Here, IF main.pc = "send" THEN {main.e} ELSE {})'
  BY <1>2, <1>3, <1>4, Zenon
<1> QED
  BY <1>5 DEF HInv

\* The engine is given the command c.
LEMMA ExecuteParts ==
  ASSUME NEW w \in State, NEW e \in Engines, NEW c, NEW v, v = Execute(w, e, c)
  PROVE  /\ v.data = w.data /\ v.it = w.it /\ v.br = w.br
         /\ v.en[e].cmd = c /\ v.en[e].item = w.data[e].item
         /\ \A f \in Engines \ {e} : v.en[f] = w.en[f]
<1>1. w.en \in [Engines -> Engine]
  BY DEF State
<1>2. PICK m : m = [w.en[e] EXCEPT !.cmd = c, !.item = w.data[e].item, !.events = Append(@, "cmd")]
  OBVIOUS
<1>3. m.cmd = c /\ m.item = w.data[e].item
  BY <1>1, <1>2 DEF Engine
<1>4. v.data = w.data /\ v.it = w.it /\ v.br = w.br /\ v.en = [w.en EXCEPT ![e] = m]
  <2>1. v = [w EXCEPT !.en = [w.en EXCEPT ![e] = m]]
    BY <1>1, <1>2 DEF Execute, Engine, State
  <2> QED
    BY <1>1, <2>1 DEF State
<1>5. v.en[e] = m /\ \A f \in Engines \ {e} : v.en[f] = w.en[f]
  BY <1>1, <1>4
<1> QED
  BY <1>3, <1>4, <1>5, Zenon

\* A command is given to an engine, the one for the work if it is to work on
\* its item.
LEMMA ExecutesFares ==
  ASSUME Ready, main.pc = "send", main.e \in Engines, NEW c \in Commands, Executes(main.e, c),
         OnItem(data[main.e]) => c = data[main.e].state
  PROVE  Fares
<1>1. PICK e \in Engines : e = main.e
  OBVIOUS
<1>2. PICK h : h = Here
  OBVIOUS
<1>3. Good(h) /\ h \in State /\ main \in Main /\ h.data = data /\ h.it = it /\ h.br = br
  BY <1>2, HereGood, Zenon DEF Ready
<1>4. Fair(h, {e})
  <2>1. {e} = IF main.pc = "send" THEN {main.e} ELSE {}
    BY <1>1
  <2> QED
    BY <1>2, <2>1, Zenon DEF Ready, HInv
<1>5. PICK v : v = Execute(h, e, c)
  OBVIOUS
<1>6. /\ v.data = data /\ v.it = it /\ v.br = br
      /\ v.en[e].cmd = c /\ v.en[e].item = data[e].item
      /\ \A f \in Engines \ {e} : v.en[f] = h.en[f]
  BY <1>3, <1>5, ExecuteParts
<1>7. v \in State
  <2>1. Beside(h, v)
    BY <1>3, <1>5, ExecuteBeside, Zenon
  <2> QED
    BY <1>3, <2>1, BesideGood DEF Good
<1>8. Becomes(v) /\ Return /\ bypassed' = (bypassed \/ (e = Primary /\ ~br.lock))
  BY <1>1, <1>2, <1>5, Zenon DEF Executes
<1>9. ASSUME NEW f \in Engines
      PROVE  Plain(f, v.data[f]) /\ ((bypassed' /\ f = Primary) \/ Owed(v, f))
  <2>1. Plain(f, h.data[f]) /\ (f = e \/ (bypassed /\ f = Primary) \/ Owed(h, f))
    BY <1>4 DEF Fair
  <2>2. Plain(f, v.data[f])
    BY <1>3, <1>6, <2>1
  <2>3. CASE f = e
    <3>1. OnItem(data[e]) => Pending(data[e], v.en[e], it)
      BY <1>1, <1>6 DEF Pending, OnItem, Works
    <3>2. e = Primary => br.lock \/ bypassed'
      BY <1>8
    <3> QED
      BY <1>6, <2>2, <2>3, <3>1, <3>2 DEF Owed
  <2>4. CASE f # e
    <3>1. Owed(h, f) => Owed(v, f)
      <4>1. v.en[f] = h.en[f]
        BY <1>6, <2>4
      <4> QED
        BY <1>3, <1>6, <4>1, Zenon DEF Owed
    <3> QED
      BY <1>8, <2>1, <2>2, <2>4, <3>1
  <2> QED
    BY <2>3, <2>4
<1>10. main'.pc # "send"
  BY <1>3, <1>8 DEF Return, Main
<1>11. HInv'
  BY <1>7, <1>8, <1>9, <1>10, EndsOwing
<1>12. Earned
  <2>1. NoneNew(it, v.it)
    BY <1>6 DEF NoneNew
  <2> QED
    BY <1>8, <2>1, EndsEarned
<1> QED
  BY <1>11, <1>12 DEF Fares

\* It goes on with another command.
LEMMA AgainFares ==
  ASSUME NEW w, Good(w), main.pc = "send", Handled(w, {main.e}), Becomes(w), UNCHANGED main
  PROVE  Fares
<1>1. {main.e} = IF main'.pc = "send" THEN {main'.e} ELSE {}
  OBVIOUS
<1>2. w \in State
  BY DEF Good
<1> QED
  BY <1>1, <1>2, EndsFair, EndsEarned DEF Fares, Handled

\* One round of SendNextCommand.
LEMMA SendNextCommandFares ==
  ASSUME Ready, SendNextCommand
  PROVE  Fares
<1>1. /\ Good(Here) /\ main \in Main /\ Sends /\ Here \in State
      /\ Here.q = q /\ Here.data = data /\ Here.it = it
  BY HereGood DEF Ready
<1>2. PICK h : h = Here
  OBVIOUS
<1>3. Good(h) /\ h \in State /\ h.q = q /\ h.data = data /\ h.it = it
  BY <1>1, <1>2, Zenon
<1>4. main.e \in Engines /\ main.pc = "send"
  BY <1>1 DEF Sends, SendNextCommand
<1>5. PICK e \in Engines : e = main.e
  BY <1>4
<1>16. Handled(h, {e})
  <2>1. {e} = IF main.pc = "send" THEN {main.e} ELSE {}
    BY <1>4, <1>5
  <2>2. Fair(h, {e})
    BY <1>2, <2>1, Zenon DEF Ready, HInv
  <2> QED
    BY <1>3, <2>2 DEF Handled, NoneNew
<1>17. data[e].state \notin Works => Handled(h, {})
  BY <1>3, <1>16, HandledAll DEF OnItem
<1>6. \/ data[e].state = "waitprimary" /\ Becomes(RequestExclusiveEngine(h)) /\ Return
      \/ data[e].state = "disconnect" /\ Executes(e, "disconnect")
      \/ Becomes(ToConnect(h, e)) /\ UNCHANGED main
      \/ data[e].state = "askpassword" /\ Becomes([h EXCEPT !.q.waiting = Append(@, e)]) /\ Return
      \/ data[e].state = "connect" /\ Executes(e, "connect")
      \/ Becomes([h EXCEPT !.data[e].state = "disconnect"]) /\ UNCHANGED main
      \/ data[e].state \in {"transfer", "mkdir"} /\ Executes(e, data[e].state)
      \/ IncreaseErrorCount(h, e)
      \/ ResetAndAdvance(h, e, "failure")
  BY <1>2, <1>5, Zenon DEF SendNextCommand
<1>7. CASE data[e].state = "waitprimary" /\ Becomes(RequestExclusiveEngine(h)) /\ Return
  <2>1. PICK v : v = RequestExclusiveEngine(h)
    OBVIOUS
  <2>2. Beside(h, RequestExclusiveEngine(h))
    BY <1>3, RequestBeside
  <2>3. Beside(h, v)
    BY <2>1, <2>2, Zenon
  <2>4. Good(v)
    BY <1>3, <2>3, BesideGood
  <2>5. Becomes(v) /\ Return
    BY <1>7, <2>1, Zenon
  <2>6. Tame(h, v)
    BY <1>3, <2>1, RequestTame, Zenon
  <2>7. Handled(v, {})
    BY <1>7, <1>17, <2>6, TameStep DEF Works
  <2> QED
    BY <1>1, <2>4, <2>5, <2>7, ReturnFares
<1>8. "disconnect" \in Commands /\ "connect" \in Commands /\ "transfer" \in Commands /\ "mkdir" \in Commands
  BY DEF Commands
<1>9. CASE data[e].state = "disconnect" /\ Executes(e, "disconnect")
  <2>1. ~OnItem(data[e])
    BY <1>9 DEF OnItem, Works
  <2>2. PICK c \in Commands : c = "disconnect"
    BY <1>8
  <2>3. Executes(e, c)
    BY <1>9, <2>2, Zenon
  <2> QED
    BY <1>4, <1>5, <2>1, <2>3, ExecutesFares
<1>18. CASE data[e].state = "connect" /\ Executes(e, "connect")
  <2>1. ~OnItem(data[e])
    BY <1>18 DEF OnItem, Works
  <2>2. PICK c \in Commands : c = "connect"
    BY <1>8
  <2>3. Executes(e, c)
    BY <1>18, <2>2, Zenon
  <2> QED
    BY <1>4, <1>5, <2>1, <2>3, ExecutesFares
<1>10. CASE data[e].state \in {"transfer", "mkdir"} /\ Executes(e, data[e].state)
  <2>1. PICK c \in Commands : c = data[e].state
    BY <1>8, <1>10
  <2>2. Executes(e, c)
    BY <1>10, <2>1, Zenon
  <2> QED
    BY <1>4, <1>5, <2>1, <2>2, ExecutesFares
<1>11. CASE Becomes(ToConnect(h, e)) /\ UNCHANGED main
  <2>1. PICK v : v = ToConnect(h, e)
    OBVIOUS
  <2>2. Good(v) /\ Becomes(v) /\ UNCHANGED main
    BY <1>3, <1>11, <2>1, ToConnectGood, Zenon
  <2>3. Handled(v, {e})
    BY <1>3, <1>16, <2>1, ToConnectHandled, Zenon
  <2> QED
    BY <1>4, <1>5, <2>2, <2>3, AgainFares
<1>12. CASE data[e].state = "askpassword" /\ Becomes([h EXCEPT !.q.waiting = Append(@, e)]) /\ Return
  <2>1. q.waiting \in Seq(Engines)
    BY <1>3 DEF State, QueueState
  <2>2. PICK l \in Seq(Engines) : l = Append(q.waiting, e)
    <3>1. Append(q.waiting, e) \in Seq(Engines)
      BY <2>1
    <3> QED
      BY <3>1
  <2>3. l # <<>>
    BY <2>1, <2>2
  <2>4. Good([h EXCEPT !.q.waiting = l])
    BY <1>3, <2>3, WaitingGood
  <2>5. PICK v : v = [h EXCEPT !.q.waiting = l]
    OBVIOUS
  <2>6. Append(h.q.waiting, e) = l
    BY <1>3, <2>2, Zenon
  <2>7. Becomes(v) /\ Return
    BY <1>12, <2>5, <2>6, Zenon
  <2>8. Good(v)
    BY <2>4, <2>5, Zenon
  <2>9. v.data = h.data /\ v.en = h.en /\ v.it = h.it /\ v.br = h.br
    BY <1>3, <2>5, WaitingSet, Zenon
  <2>10. Handled(v, {})
    BY <1>12, <1>17, <2>9, AskedTame, TameStep DEF Works
  <2> QED
    BY <1>1, <2>7, <2>8, <2>10, ReturnFares
<1>13. CASE Becomes([h EXCEPT !.data[e].state = "disconnect"]) /\ UNCHANGED main
  <2>1. PICK st \in States \ {"waitprimary"} : st = "disconnect"
    BY DEF States
  <2>2. PICK v : v = [h EXCEPT !.data[e].state = st]
    OBVIOUS
  <2>3. InState(v, h, e, st)
    BY <2>2, Zenon DEF InState
  <2>4. Good(v)
    BY <1>3, <2>3, StateSet
  <2>5. Becomes(v) /\ UNCHANGED main
    BY <1>13, <2>1, <2>2, Zenon
  <2>6. Handled(v, {e})
    BY <1>3, <1>16, <2>3, StateHandled
  <2> QED
    BY <1>4, <1>5, <2>4, <2>5, <2>6, AgainFares
<1>14. CASE IncreaseErrorCount(h, e)
  BY <1>1, <1>3, <1>14, <1>16, IncreaseErrorCountFares
<1>15. CASE ResetAndAdvance(h, e, "failure")
  <2>1. "failure" \in Reasons \ {"success"}
    BY DEF Reasons
  <2> QED
    BY <1>1, <1>3, <1>15, <1>16, <2>1, ResetAndAdvanceFares
<1> QED
  BY <1>6, <1>7, <1>9, <1>10, <1>11, <1>12, <1>13, <1>14, <1>15, <1>18, Zenon

-----------------------------------------------------------------------------
(* The engines' threads.                                                    *)

\* The engine n becomes m when its command has ended with the reply x.
IsEnded(n, m, x) == m.cmd = "none" /\ m.notes = Append(n.notes, x) /\ x.cmd = n.cmd /\ x.item = n.item

\* Items are not undone, and do not move to another list.
Onward(t, s) == \A i \in Items : s[i].where = t[i].where /\ (t[i].done => s[i].done)

\* The last reply of a list with one more.
LEMMA AppendLast ==
  ASSUME NEW T, NEW s \in Seq(T), NEW x, NEW l, l = Append(s, x)
  PROVE  l # <<>> /\ l[Len(l)] = x
OBVIOUS

\* The reply that ends a command is about its work.
LEMMA EndedPending ==
  ASSUME NEW d, NEW n \in Engine, NEW t, OnItem(d), Pending(d, n, t), n.cmd # "none",
         NEW m, NEW x, IsEnded(n, m, x), NEW s, n.cmd \in Works /\ x.r = "ok" => s[d.item].done
  PROVE  Pending(d, m, s)
<1>1. n.notes \in Seq(Note)
  BY DEF Engine
<1>2. PICK l : l = m.notes
  OBVIOUS
<1>3. l # <<>> /\ l[Len(l)] = x
  BY <1>1, <1>2, AppendLast DEF IsEnded
<1>4. IsReplyTo(x, d, s)
  BY DEF Pending, IsEnded, IsReplyTo, OnItem
<1> QED
  BY <1>2, <1>3, <1>4 DEF Pending, IsEnded

\* A step of an engine's thread.
LEMMA ThreadFares ==
  ASSUME Ready, NEW e \in Engines, NEW y, en' = [en EXCEPT ![e] = y],
         UNCHANGED <<q, data, br, main, bypassed>>, Onward(it, it'), NEW x,
         \/ GoesOn(en[e], y)
         \/ /\ en[e].cmd # "none" /\ IsEnded(en[e], y, x)
            /\ en[e].cmd \in Works /\ x.r = "ok" /\ en[e].item # None => it'[en[e].item].done
  PROVE  Fares
<1>1. /\ Here \in State /\ Here.data = data /\ Here.it = it /\ Here.br = br /\ Here.en = en
      /\ data \in [Engines -> EngineData] /\ en \in [Engines -> Engine]
  BY HereGood DEF Ready, State
<1>2. PICK S : S = IF main.pc = "send" THEN {main.e} ELSE {}
  OBVIOUS
<1>3. \A f \in Engines : /\ Plain(f, data[f])
                         /\ f \in S \/ (bypassed /\ f = Primary) \/ Owed(Here, f)
  BY <1>1, <1>2, Zenon DEF Ready, HInv, Fair
<1>4. ASSUME NEW f \in Engines, OnItem(data[f]), Pending(data[f], en[f], it)
      PROVE  Pending(data[f], en'[f], it')
  <2>1. data[f].item \in Items
    BY <1>1, <1>4, ItemOf DEF OnItem
  <2>2. it[data[f].item].done => it'[data[f].item].done
    BY <2>1 DEF Onward
  <2>3. CASE f # e \/ GoesOn(en[e], y)
    <3>1. GoesOn(en[f], en'[f])
      BY <1>1, <2>3 DEF GoesOn
    <3>2. PICK s : s = it'
      OBVIOUS
    <3>3. PICK m : m = en'[f]
      OBVIOUS
    <3>4. Pending(data[f], m, s)
      BY <1>4, <2>2, <3>1, <3>2, <3>3, GoesOnPending
    <3> QED
      BY <3>2, <3>3, <3>4, Zenon
  <2>4. CASE /\ f = e /\ en[e].cmd # "none" /\ IsEnded(en[e], y, x)
             /\ en[e].cmd \in Works /\ x.r = "ok" /\ en[e].item # None => it'[en[e].item].done
    <3>1. en'[f] = y /\ en[f] \in Engine
      BY <1>1, <2>4
    <3>2. PICK s : s = it'
      OBVIOUS
    <3>3. en[f].item = data[f].item
      BY <1>4, <2>4 DEF Pending
    <3>4. en[f].cmd \in Works /\ x.r = "ok" => s[data[f].item].done
      BY <1>4, <2>4, <3>2, <3>3 DEF OnItem
    <3>5. en[f].cmd # "none" /\ IsEnded(en[f], y, x)
      BY <2>4
    <3>6. Pending(data[f], y, s)
      BY <1>4, <3>1, <3>4, <3>5, EndedPending
    <3> QED
      BY <3>1, <3>2, <3>6, Zenon
  <2> QED
    BY <2>3, <2>4
<1>5. /\ Here'.data = data /\ Here'.it = it' /\ Here'.br = br /\ Here'.en = en'
  BY DEF Here
<1>6. ASSUME NEW f \in Engines, Owed(Here, f)
      PROVE  Owed(Here, f)'
  <2>1. OnItem(data[f]) => Pending(data[f], en[f], it) /\ (f = Primary => br.lock)
    BY <1>1, <1>6 DEF Owed
  <2>2. OnItem(data[f]) => Pending(data[f], en'[f], it') /\ (f = Primary => br.lock)
    BY <1>4, <2>1
  <2>3. (OnItem(data[f]) => Pending(data[f], en[f], it) /\ (f = Primary => br.lock))'
    BY <2>2 DEF OnItem, Pending, IsReplyTo
  <2>4. (Here.data = data /\ Here.it = it /\ Here.br = br /\ Here.en = en)'
    BY <1>5
  <2> QED
    BY <2>3, <2>4 DEF Owed
<1>7. Fair(Here, S)'
  <2>1. \A f \in Engines : Plain(f, data[f])'
    BY <1>3 DEF Plain
  <2>2. \A f \in Engines : (f \in S \/ (bypassed /\ f = Primary) \/ Owed(Here, f))'
    BY <1>3, <1>6
  <2>3. (Here.data = data)'
    BY <1>5
  <2> QED
    BY <2>1, <2>2, <2>3 DEF Fair
<1>8. S = (IF main.pc = "send" THEN {main.e} ELSE {})'
  BY <1>2
<1>9. HInv'
  BY <1>7, <1>8 DEF HInv
<1>10. Earned
  BY DEF Onward, Earned
<1> QED
  BY <1>9, <1>10 DEF Fares

\* The shape of an engine whose command has ended.
LEMMA EndedShape ==
  ASSUME IInv, NEW e \in Engines, NEW r, NEW progress
  PROVE  \E x : IsEnded(en[e], Ended(e, r, progress), x) /\ x.r = r
<1>1. PICK z : z = en[e]
  OBVIOUS
<1>2. z \in Engine
  BY <1>1, HereGood, Zenon DEF State
<1>3. PICK x : x = [r |-> r, cmd |-> z.cmd, item |-> z.item, progress |-> progress]
  OBVIOUS
<1>4. PICK l : l = Append(z.notes, x)
  OBVIOUS
<1>5. PICK y : y = [z EXCEPT !.cmd = "none", !.item = None, !.run = FALSE, !.notes = l]
  OBVIOUS
<1>6. y.cmd = "none" /\ y.notes = l
  BY <1>2, <1>5 DEF Engine
<1>7. x.cmd = z.cmd /\ x.item = z.item /\ x.r = r
  BY <1>3
<1>8. IsEnded(z, y, x)
  BY <1>4, <1>6, <1>7, Zenon DEF IsEnded
<1>9. Ended(e, r, progress) = y
  BY <1>1, <1>3, <1>4, <1>5, Zenon DEF Ended
<1> QED
  BY <1>1, <1>7, <1>8, <1>9, Zenon

\* The thread begins to execute a command, or has disconnected.
LEMMA OnCommandEventFares ==
  ASSUME Ready, NEW e \in Engines, OnCommandEvent(e)
  PROVE  Fares
<1>1. PICK y \in Engine : /\ en' = [en EXCEPT ![e] = y]
                          /\ \/ GoesOn(en[e], y)
                             \/ en[e].cmd = "disconnect" /\ \E r \in Replies : EndsWith(e, y, r)
  BY OnCommandEventShape DEF Ready
<1>2. UNCHANGED <<q, data, br, main, bypassed>> /\ Onward(it, it')
  BY DEF OnCommandEvent, Onward
<1>3. CASE GoesOn(en[e], y)
  BY <1>1, <1>2, <1>3, ThreadFares
<1>4. CASE en[e].cmd = "disconnect" /\ \E r \in Replies : EndsWith(e, y, r)
  <2>1. PICK r \in Replies : EndsWith(e, y, r)
    BY <1>4
  <2>2. PICK x : IsEnded(en[e], Ended(e, r, FALSE), x)
    BY EndedShape DEF Ready
  <2>3. IsEnded(en[e], y, x)
    BY <2>1, <2>2, Zenon DEF EndsWith, IsEnded
  <2>4. en[e].cmd # "none" /\ en[e].cmd \notin Works
    BY <1>4 DEF Works
  <2> QED
    BY <1>1, <1>2, <2>3, <2>4, ThreadFares
<1> QED
  BY <1>1, <1>3, <1>4

\* The delay before another attempt to connect is over.
LEMMA ConnectDelayEndsFares ==
  ASSUME Ready, NEW e \in Engines, ConnectDelayEnds(e)
  PROVE  Fares
<1>1. PICK y \in Engine : en' = [en EXCEPT ![e] = y] /\ GoesOn(en[e], y)
  BY ConnectDelayEndsShape DEF Ready
<1>2. UNCHANGED <<q, data, br, main, bypassed>> /\ Onward(it, it')
  BY DEF ConnectDelayEnds, Onward
<1> QED
  BY <1>1, <1>2, ThreadFares

\* It carries out a cancellation.
LEMMA DoCancelFares ==
  ASSUME Ready, NEW e \in Engines, DoCancel(e)
  PROVE  Fares
<1> DEFINE T(z) == [z EXCEPT !.events = Tail(@)]
<1>1. IInv /\ en \in [Engines -> Engine] /\ en[e] \in Engine
  BY HereGood DEF Ready, State
<1>2. "canceled" \in Replies /\ FALSE \in BOOLEAN
  BY DEF Replies
<1>3. PICK z : z = Ended(e, "canceled", FALSE)
  OBVIOUS
<1>4. z \in Engine
  BY <1>1, <1>2, <1>3, EndedFacts, Zenon
<1>5. PICK x : IsEnded(en[e], z, x) /\ x.r = "canceled"
  BY <1>1, <1>3, EndedShape, Zenon
<1>6. /\ T(en[e]).cmd = en[e].cmd /\ T(en[e]).item = en[e].item /\ T(en[e]).notes = en[e].notes
      /\ T(z).cmd = z.cmd /\ T(z).item = z.item /\ T(z).notes = z.notes
  BY <1>1, <1>4, ThreadFields
<1>7. PICK y : y = IF en[e].cmd # "none" /\ (en[e].run \/ ~en[e].sock) THEN T(z) ELSE T(en[e])
  OBVIOUS
<1>8. en' = [en EXCEPT ![e] = y]
  <2>1. en' = [en EXCEPT ![e] = IF en[e].cmd # "none" /\ (en[e].run \/ ~en[e].sock)
                                THEN T(Ended(e, "canceled", FALSE)) ELSE T(en[e])]
    BY Zenon DEF DoCancel
  <2> QED
    BY <1>3, <1>7, <2>1, Zenon
<1>9. GoesOn(en[e], y) \/ (en[e].cmd # "none" /\ IsEnded(en[e], y, x) /\ x.r # "ok")
  <2> HIDE DEF T
  <2>1. CASE y = T(en[e])
    BY <1>6, <2>1 DEF GoesOn
  <2>2. CASE en[e].cmd # "none" /\ y = T(z)
    BY <1>5, <1>6, <2>2 DEF IsEnded
  <2> QED
    BY <1>7, <2>1, <2>2
<1>10. UNCHANGED <<q, data, br, main, bypassed>> /\ Onward(it, it')
  BY DEF DoCancel, Onward
<1> QED
  BY <1>8, <1>9, <1>10, ThreadFares

\* An operation ends: the item of one that succeeds is done.
LEMMA OperationEndsFares ==
  ASSUME Ready, NEW e \in Engines, NEW r \in Replies, NEW progress \in BOOLEAN, OperationEnds(e, r, progress)
  PROVE  Fares
<1>1. IInv /\ en \in [Engines -> Engine] /\ en[e] \in Engine /\ br \in Browsing /\ it \in [Items -> Item]
  BY HereGood DEF Ready, State
<1>2. PICK z : z = Ended(e, r, progress)
  OBVIOUS
<1>3. z \in Engine
  BY <1>1, <1>2, EndedFacts, Zenon
<1>4. PICK b \in BOOLEAN : b = IF en[e].cmd = "browse" THEN br.site # None ELSE z.sock
  BY <1>3 DEF Engine
<1>5. PICK y : y = [z EXCEPT !.sock = b]
  OBVIOUS
<1>6. y.cmd = z.cmd /\ y.notes = z.notes
  BY <1>3, <1>5 DEF Engine
<1>7. en' = [en EXCEPT ![e] = y]
  <2>1. en' = [en EXCEPT ![e] = [Ended(e, r, progress) EXCEPT
                 !.sock = IF en[e].cmd = "browse" THEN br.site # None ELSE @]]
    BY Zenon DEF OperationEnds
  <2> QED
    BY <1>2, <1>4, <1>5, <2>1, Zenon
<1>8. PICK x : IsEnded(en[e], z, x) /\ x.r = r
  BY <1>1, <1>2, EndedShape, Zenon
<1>9. IsEnded(en[e], y, x) /\ x.cmd = en[e].cmd /\ x.item = en[e].item
  BY <1>6, <1>8 DEF IsEnded
<1>10. PICK i \in Items \cup {None} : i = en[e].item
  BY <1>1 DEF Engine
<1>11. it' = IF r = "ok" /\ en[e].cmd \in Works THEN [it EXCEPT ![i].done = TRUE] ELSE it
  <2>1. it' = IF r = "ok" /\ en[e].cmd \in {"transfer", "mkdir"}
              THEN [it EXCEPT ![en[e].item].done = TRUE] ELSE it
    BY Zenon DEF OperationEnds
  <2> QED
    BY <1>10, <2>1, Zenon DEF Works
<1>12. Onward(it, it') /\ (r = "ok" /\ en[e].cmd \in Works /\ i # None => it'[i].done)
  <2>1. CASE ~(r = "ok" /\ en[e].cmd \in Works)
    BY <1>11, <2>1 DEF Onward
  <2>2. CASE r = "ok" /\ en[e].cmd \in Works
    <3>1. it' = [it EXCEPT ![i].done = TRUE]
      BY <1>11, <2>2
    <3>2. \A j \in Items : it'[j] = IF j = i THEN [it[i] EXCEPT !.done = TRUE] ELSE it[j]
      BY <1>1, <3>1
    <3>3. \A j \in Items : it'[j].where = it[j].where /\ (it[j].done => it'[j].done) /\ (j = i => it'[j].done)
      BY <1>1, <3>2 DEF Item
    <3> QED
      BY <1>10, <3>3 DEF Onward
  <2> QED
    BY <2>1, <2>2
<1>13. UNCHANGED <<q, data, br, main, bypassed>>
  BY DEF OperationEnds
<1>14. en[e].cmd # "none"
  BY DEF OperationEnds, Outcomes
<1>15. en[e].cmd \in Works /\ x.r = "ok" /\ en[e].item # None => it'[en[e].item].done
  BY <1>8, <1>10, <1>12
<1> QED
  BY <1>7, <1>9, <1>12, <1>13, <1>14, <1>15, ThreadFares

-----------------------------------------------------------------------------
(* The theorem.                                                             *)

\* No engine works on an item at first.
LEMMA InitFair ==
  ASSUME Init
  PROVE  HInv
<1>1. PICK h : h = Here
  OBVIOUS
<1>2. h.data = data
  BY <1>1 DEF Here
<1>3. \A e \in Engines : Plain(e, h.data[e]) /\ Owed(h, e)
  BY <1>2 DEF Init, NoData, Plain, Owed, OnItem, Works
<1>4. main.pc # "send"
  BY DEF Init
<1>5. Fair(h, IF main.pc = "send" THEN {main.e} ELSE {})
  BY <1>3 DEF Fair
<1> QED
  BY <1>1, <1>5, Zenon DEF HInv

\* That the lock has been bypassed is not forgotten.
LEMMA BypassedStays ==
  ASSUME Next, bypassed
  PROVE  bypassed'
<1>1. ASSUME NEW i \in Items, MakeLocalDir(i) \/ TryStartNextTransfer(i)
      PROVE  bypassed'
  BY <1>1, Zenon DEF MakeLocalDir, TryStartNextTransfer
<1>2. CASE AdvanceQueueEnds \/ SendNextCommand
  BY <1>2, Zenon DEF AdvanceQueueEnds, SendNextCommand, Executes
<1>4. ASSUME NEW e \in Engines, OnEngineEvent(e) \/ OnTimer(e)
      PROVE  bypassed'
  BY <1>4, Zenon DEF OnEngineEvent, OnTimer
<1>5. CASE OnPrimaryEvent
  BY <1>5, Zenon DEF OnPrimaryEvent
<1>6. CASE OnExclusiveEngineRequestGranted
  BY <1>6, Zenon DEF OnExclusiveEngineRequestGranted
<1>7. CASE OnAskPassword \/ PasswordEntered
  BY <1>7, Zenon DEF OnAskPassword, PasswordEntered
<1>8. Acts => UNCHANGED bypassed
  BY DEF Acts
<1>9. CASE Start \/ Stop \/ RemoveAll \/ Quit
  BY <1>8, <1>9, Zenon DEF Start, Stop, RemoveAll, Quit
<1>10. ASSUME NEW i \in Items, RequeueFile(i) \/ OnRemoveSelected(i)
       PROVE  bypassed'
  BY <1>8, <1>10, Zenon DEF RequeueFile, OnRemoveSelected
<1>11. ASSUME NEW i \in Items, NEW start \in BOOLEAN, QueueFile(i, start)
       PROVE  bypassed'
  BY <1>8, <1>11, Zenon DEF QueueFile
<1>12. ASSUME NEW s \in Servers \cup {None}, Browse(s)
       PROVE  bypassed'
  BY <1>8, <1>12, Zenon DEF Browse
<1>13. ASSUME NEW e \in Engines, OnCommandEvent(e) \/ ConnectDelayEnds(e) \/ DoCancel(e)
       PROVE  bypassed'
  BY <1>13, Zenon DEF OnCommandEvent, ConnectDelayEnds, DoCancel
<1>14. ASSUME NEW e \in Engines, NEW r \in Outcomes(en[e].cmd), NEW progress \in BOOLEAN, OperationEnds(e, r, progress)
       PROVE  bypassed'
  BY <1>14, Zenon DEF OperationEnds
<1> QED
  BY <1>1, <1>2, <1>4, <1>5, <1>6, <1>7, <1>9, <1>10, <1>11, <1>12, <1>13, <1>14 DEF Next

\* Every step owes no less, and earns each success.
LEMMA NextFares ==
  ASSUME IInv, HInv, Next
  PROVE  Earned /\ HInv'
<1>1. Ready
  BY DEF Ready
<1>13. Fares
  <2>2. CASE \E i \in Items : MakeLocalDir(i) \/ TryStartNextTransfer(i)
    BY <1>1, <2>2, MakeLocalDirFares, TryStartNextTransferFares
  <2>3. CASE AdvanceQueueEnds \/ SendNextCommand
    BY <1>1, <2>3, AdvanceQueueEndsFares, SendNextCommandFares
  <2>4. CASE \E e \in Engines : OnEngineEvent(e) \/ OnTimer(e)
    BY <1>1, <2>4, OnEngineEventFares, OnTimerFares
  <2>5. CASE OnPrimaryEvent \/ OnExclusiveEngineRequestGranted
    BY <1>1, <2>5, OnPrimaryEventFares, OnExclusiveEngineRequestGrantedFares
  <2>6. CASE OnAskPassword \/ PasswordEntered
    BY <1>1, <2>6, OnAskPasswordFares, PasswordEnteredFares
  <2>7. CASE Start \/ Stop \/ RemoveAll \/ Quit
    BY <1>1, <2>7, StartFares, StopFares, RemoveAllFares, QuitFares
  <2>8. CASE \E i \in Items : RequeueFile(i) \/ OnRemoveSelected(i)
    BY <1>1, <2>8, RequeueFileFares, OnRemoveSelectedFares
  <2>9. CASE \E i \in Items, start \in BOOLEAN : QueueFile(i, start)
    BY <1>1, <2>9, QueueFileFares
  <2>10. CASE \E s \in Servers \cup {None} : Browse(s)
    BY <1>1, <2>10, BrowseFares
  <2>11. CASE \E e \in Engines : OnCommandEvent(e) \/ ConnectDelayEnds(e) \/ DoCancel(e)
    BY <1>1, <2>11, OnCommandEventFares, ConnectDelayEndsFares, DoCancelFares
  <2>12. CASE \E e \in Engines : \E r \in Outcomes(en[e].cmd), progress \in BOOLEAN : OperationEnds(e, r, progress)
    BY <1>1, <2>12, OutcomesAreReplies, OperationEndsFares
  <2> QED
    BY <2>2, <2>3, <2>4, <2>5, <2>6, <2>7, <2>8, <2>9, <2>10, <2>11, <2>12 DEF Next
<1>14. bypassed => bypassed'
  BY BypassedStays
<1> QED
  BY <1>13, <1>14 DEF Fares

\* So does no step at all.
LEMMA StutterFares ==
  ASSUME HInv, UNCHANGED vars
  PROVE  Earned /\ HInv'
<1>1. Earned
  BY DEF vars, Earned
<1>2. HInv'
  BY DEF vars, HInv, Here, Fair, Plain, Owed, OnItem, Pending, IsReplyTo
<1> QED
  BY <1>1, <1>2

\* ProcessReply (QueueView.cpp) takes the reply for one to the engine's last
\* command.  Whatever it is answered late, an item becomes successful only
\* through the engine that works on it, when the operation on the item has
\* succeeded or while that engine still owes its answer about it.
THEOREM SuccessesAreReal == Spec => SuccessIsReal
<1>1. Init => HInv
  BY InitFair
<1>2. IInv /\ HInv /\ [Next]_vars => HInv' /\ Earned
  BY NextFares, StutterFares
<1>3. [][Earned]_vars => SuccessIsReal
  BY PTL DEF Earned, SuccessIsReal
<1> QED
  BY <1>1, <1>2, <1>3, Invariance, PTL DEF Spec

-----------------------------------------------------------------------------
(* The browsing connection gets its engine back.  The invariant for it       *)
(* relates the request for the engine to m_engineData and to the commands of *)
(* the browsing connection that are to be executed.                          *)

Others == Engines \ {Primary}

\* The engine is asked for only while it is listed, and held only if asked for.
\* No other engine waits for it.
Lendable(w) == /\ w.br.lock => w.br.request
               /\ \A e \in Others : w.data[e].state # "waitprimary"

\* The commands of the browsing connection are being executed.
Served(w) == w.br.cmds > 0 /\ ~w.br.lock => Busy(w, Primary) \/ w.en[Primary].notes # <<>>

Lent(w) == Lendable(w) /\ Served(w) /\ (w.br.request => Primary \in Range(w.q.list))

\* It is listed only while it is used.
InUse(w) == Primary \in Range(w.q.list) => w.data[Primary].active

\* What it does for the queue, it does under the lock.
Locked(w) == w.data[Primary].active /\ w.data[Primary].state \notin {"waitprimary", "askpassword"}
               => w.br.lock /\ w.en[Primary].cmd # "browse"

\* The main thread is about to use it, and then it is active.
Using == main.pc = "send" /\ main.e = Primary

Nested == /\ main.pc = "advance" => main.inside
          /\ main.pc = "idle" => ~main.inside

LInv ==
  /\ Lent(Here) /\ (main.inside \/ InUse(Here))
  /\ bypassed \/ Locked(Here) \/ Using
  /\ Using => data[Primary].active
  /\ Nested

-----------------------------------------------------------------------------
(* What leaves that as it is.                                               *)

\* From u to w nothing has changed that these predicates look at, but perhaps
\* that another engine no longer waits for that of the browsing connection.
Calm(u, w) ==
  /\ w.br.lock = u.br.lock /\ w.br.request = u.br.request /\ w.br.cmds = u.br.cmds
  /\ Primary \in Range(w.q.list) <=> Primary \in Range(u.q.list)
  /\ w.data[Primary].active = u.data[Primary].active /\ w.data[Primary].state = u.data[Primary].state
  /\ w.en[Primary].cmd = u.en[Primary].cmd /\ w.en[Primary].notes = u.en[Primary].notes
  /\ \A e \in Others : w.data[e].state = "waitprimary" => u.data[e].state = "waitprimary"

\* No change is one.
LEMMA CalmSelf ==
  ASSUME NEW w
  PROVE  Calm(w, w)
BY DEF Calm

\* One such change after another is one.
LEMMA CalmTwice ==
  ASSUME NEW u, NEW v, NEW w, Calm(u, v), Calm(v, w)
  PROVE  Calm(u, w)
BY DEF Calm

\* The predicates are kept.
LEMMA CalmLent ==
  ASSUME NEW u, NEW w, Calm(u, w)
  PROVE  /\ Lent(u) => Lent(w)
         /\ InUse(w) <=> InUse(u)
         /\ Locked(u) => Locked(w)
BY DEF Calm, Lent, Lendable, Served, InUse, Locked, Busy

\* Only the engines other than the borrowed one, or parts of it that do not
\* matter, are different.
LEMMA BesideCalm ==
  ASSUME NEW u, NEW w, Beside(u, w), w.br = u.br,
         w.en[Primary].cmd = u.en[Primary].cmd, w.en[Primary].notes = u.en[Primary].notes
  PROVE  Calm(u, w)
BY DEF Beside, Calm

\* An engine is given a command.
LEMMA ExecuteShape ==
  ASSUME NEW w \in State, NEW e \in Engines, NEW c \in Commands, NEW v, v = Execute(w, e, c)
  PROVE  /\ Beside(w, v) /\ v.br = w.br
         /\ v.en[e].cmd = c /\ v.en[e].notes = w.en[e].notes /\ v.en[e].sock = w.en[e].sock
         /\ \A f \in Engines \ {e} : v.en[f] = w.en[f]
<1>1. Beside(w, v)
  BY ExecuteBeside, Zenon
<1>2. w.en \in [Engines -> Engine]
  BY DEF State
<1>3. PICK k : k = [w.en[e] EXCEPT !.cmd = c, !.item = w.data[e].item, !.events = Append(@, "cmd")]
  OBVIOUS
<1>4. k.cmd = c /\ k.notes = w.en[e].notes /\ k.sock = w.en[e].sock
  BY <1>2, <1>3 DEF Engine
<1>5. v = [w EXCEPT !.en = [w.en EXCEPT ![e] = k]]
  BY <1>2, <1>3 DEF Execute, Engine, State
<1>6. v.en = [w.en EXCEPT ![e] = k] /\ v.br = w.br
  BY <1>5 DEF State
<1> QED
  BY <1>1, <1>2, <1>4, <1>6

\* Another engine is given one.
LEMMA ExecuteCalm ==
  ASSUME NEW w \in State, NEW e \in Others, NEW c \in Commands, NEW v, v = Execute(w, e, c)
  PROVE  Calm(w, v)
<1>1. e \in Engines /\ Primary \in Engines \ {e}
  BY DEF Others, Engines
<1>2. Beside(w, v) /\ v.br = w.br /\ v.en[Primary] = w.en[Primary]
  BY <1>1, ExecuteShape
<1> QED
  BY <1>2, BesideCalm

\* The queue gives one to the borrowed engine.
LEMMA ExecuteLent ==
  ASSUME NEW w \in State, NEW e \in Engines, NEW c \in Commands \ {"none", "browse"},
         NEW v, v = Execute(w, e, c)
  PROVE  /\ Lent(w) => Lent(v)
         /\ InUse(v) <=> InUse(w)
         /\ Locked(w) => Locked(v)
         /\ v.data = w.data /\ v.br = w.br
<1>1. CASE e = Primary
  <2>1. /\ v.q = w.q /\ v.data = w.data /\ v.br = w.br /\ v.en[Primary].cmd = c
    BY <1>1, ExecuteShape DEF Beside
  <2> QED
    BY <2>1 DEF Lent, Lendable, Served, Busy, InUse, Locked
<1>2. CASE e # Primary
  <2>1. e \in Others /\ c \in Commands
    BY <1>2 DEF Others
  <2>2. Calm(w, v)
    BY <2>1, ExecuteCalm
  <2>3. v.data = w.data /\ v.br = w.br
    BY <2>1, ExecuteShape DEF Beside
  <2> QED
    BY <2>2, <2>3, CalmLent
<1> QED
  BY <1>1, <1>2

\* A cancellation.
LEMMA CancelCalm ==
  ASSUME NEW w \in State, NEW e \in Engines
  PROVE  Calm(w, Cancel(w, e))
<1>1. PICK v : v = Cancel(w, e)
  OBVIOUS
<1>2. Beside(w, v)
  BY <1>1, CancelBeside, Zenon
<1>3. w.en \in [Engines -> Engine] /\ Primary \in Engines
  BY DEF State, Engines
<1>4. PICK k : k = [w.en[e] EXCEPT !.events = Append(@, "cancel")]
  OBVIOUS
<1>5. k.cmd = w.en[e].cmd /\ k.notes = w.en[e].notes
  BY <1>3, <1>4 DEF Engine
<1>6. v = [w EXCEPT !.en = [w.en EXCEPT ![e] = k]] \/ v = w
  BY <1>1, <1>3, <1>4 DEF Cancel, Engine, State
<1>7. (v.en = [w.en EXCEPT ![e] = k] \/ v.en = w.en) /\ v.br = w.br
  BY <1>6 DEF State
<1>8. v.en[Primary].cmd = w.en[Primary].cmd /\ v.en[Primary].notes = w.en[Primary].notes
  BY <1>3, <1>5, <1>7
<1>9. Calm(w, v)
  BY <1>2, <1>7, <1>8, BesideCalm
<1> QED
  BY <1>1, <1>9, Zenon

-----------------------------------------------------------------------------
(* The exclusive use of the engine.                                         *)

\* Only the browsing connection changes.
LEMMA BrowsingShape ==
  ASSUME NEW u \in State, NEW b \in Browsing, NEW w, w = [u EXCEPT !.br = b]
  PROVE  w \in State /\ Beside(u, w) /\ w.en = u.en /\ w.br = b
BY DEF State, Beside

\* The engine is granted.
LEMMA GrantLent ==
  ASSUME NEW w \in State, Lendable(w), NEW v, v = GrantExclusiveEngineRequest(w)
  PROVE  /\ v \in State /\ Lendable(v) /\ (Served(w) => Served(v)) /\ (Locked(w) => Locked(v))
         /\ v.q = w.q /\ v.data = w.data /\ v.en = w.en
         /\ v.br.request = w.br.request /\ v.br.cmds = w.br.cmds
<1>1. w.br \in Browsing
  BY DEF State
<1>2. PICK n \in Int : n = w.br.grants + 1
  BY <1>1 DEF Browsing
<1>3. PICK b : b = [w.br EXCEPT !.lock = TRUE, !.grants = n]
  OBVIOUS
<1>4. b \in Browsing /\ b.lock = TRUE /\ b.request = w.br.request /\ b.cmds = w.br.cmds
  BY <1>1, <1>2, <1>3 DEF Browsing
<1>5. PICK x : x = [w EXCEPT !.br = b]
  OBVIOUS
<1>6. x \in State /\ Beside(w, x) /\ x.en = w.en /\ x.br = b
  BY <1>4, <1>5, BrowsingShape
<1>7. v = w \/ (w.br.request /\ v = x)
  <2>1. v = w \/ (w.br.request /\ v = [w EXCEPT !.br.lock = TRUE, !.br.grants = @ + 1])
    BY Zenon DEF GrantExclusiveEngineRequest
  <2>2. [w EXCEPT !.br.lock = TRUE, !.br.grants = @ + 1] = [w EXCEPT !.br = [w.br EXCEPT !.lock = TRUE, !.grants = w.br.grants + 1]]
    BY <1>1 DEF State, Browsing
  <2>3. x = [w EXCEPT !.br = [w.br EXCEPT !.lock = TRUE, !.grants = w.br.grants + 1]]
    BY <1>2, <1>3, <1>5, Zenon
  <2> QED
    BY <2>1, <2>2, <2>3, Zenon
<1>8. CASE w.br.request /\ v = x
  BY <1>4, <1>6, <1>8 DEF Beside, Lendable, Served, Locked
<1>9. CASE v = w
  BY <1>9
<1> QED
  BY <1>7, <1>8, <1>9

\* The engine is asked for.
LEMMA RequestLent ==
  ASSUME NEW w \in State, Lent(w), Primary \in Range(w.q.list), NEW v, v = RequestExclusiveEngine(w)
  PROVE  /\ Lent(v) /\ (Locked(w) => Locked(v))
         /\ v.q = w.q /\ v.data = w.data
<1>1. w.br \in Browsing
  BY DEF State
<1>2. PICK b : b = [w.br EXCEPT !.request = TRUE]
  OBVIOUS
<1>3. b \in Browsing /\ b.request = TRUE /\ b.lock = w.br.lock /\ b.cmds = w.br.cmds
  BY <1>1, <1>2 DEF Browsing
<1>4. PICK r : r = [w EXCEPT !.br = b]
  OBVIOUS
<1>5. r \in State /\ Beside(w, r) /\ r.en = w.en /\ r.br = b
  BY <1>3, <1>4, BrowsingShape
<1>6. Lent(r) /\ (Locked(w) => Locked(r)) /\ r.q = w.q /\ r.data = w.data
  BY <1>3, <1>5 DEF Beside, Lent, Lendable, Served, Busy, Locked
<1>7. v \in {w, r, GrantExclusiveEngineRequest(r)}
  <2>1. r = [w EXCEPT !.br.request = TRUE]
    BY <1>2, <1>4, Zenon
  <2> QED
    BY <2>1, Zenon DEF RequestExclusiveEngine
<1>8. PICK g : g = GrantExclusiveEngineRequest(r)
  OBVIOUS
<1>9. /\ Lendable(g) /\ Served(g) /\ (Locked(r) => Locked(g)) /\ g.q = r.q /\ g.data = r.data
  BY <1>5, <1>6, <1>8, GrantLent DEF Lent
<1>10. Lent(g)
  BY <1>6, <1>9 DEF Lent
<1> QED
  BY <1>6, <1>7, <1>8, <1>9, <1>10

\* The next command of the browsing connection, or else the engine is granted.
LEMMA ProcessNextLent ==
  ASSUME NEW w \in State, Lendable(w), NEW v, v = ProcessNextCommand(w)
  PROVE  /\ v \in State /\ Lendable(v) /\ Served(v) /\ (Locked(w) => Locked(v))
         /\ v.q = w.q /\ v.data = w.data
         /\ v.br.request = w.br.request /\ v.br.cmds = w.br.cmds
<1>1. Primary \in Engines /\ "browse" \in Commands /\ w.br.cmds \in Int
  BY DEF Engines, Commands, State, Browsing
<1>2. PICK x : x = Execute(w, Primary, "browse")
  OBVIOUS
<1>3. x \in State /\ Beside(w, x) /\ x.br = w.br /\ x.en[Primary].cmd = "browse"
  BY <1>1, <1>2, ExecuteShape DEF Beside
<1>4. PICK s \in BOOLEAN : s = (x.br.resent \/ w.en[Primary].notes # <<>>)
  BY <1>3 DEF State, Browsing
<1>5. PICK b : b = [x.br EXCEPT !.resent = s]
  OBVIOUS
<1>6. b \in Browsing /\ b.lock = x.br.lock /\ b.request = x.br.request /\ b.cmds = x.br.cmds
  BY <1>3, <1>4, <1>5 DEF State, Browsing
<1>7. PICK y : y = [x EXCEPT !.br = b]
  OBVIOUS
<1>8. y \in State /\ Beside(x, y) /\ y.en = x.en /\ y.br = b
  BY <1>3, <1>6, <1>7, BrowsingShape
<1>9. /\ y.q = w.q /\ y.data = w.data /\ y.en[Primary].cmd = "browse"
      /\ y.br.lock = w.br.lock /\ y.br.request = w.br.request /\ y.br.cmds = w.br.cmds
  BY <1>3, <1>6, <1>8 DEF Beside
<1>10. \/ v = w /\ (w.br.lock \/ Busy(w, Primary))
       \/ v = y /\ ~w.br.lock
       \/ v = GrantExclusiveEngineRequest(w) /\ ~(w.br.cmds > 0)
  <2>1. y = [x EXCEPT !.br.resent = @ \/ w.en[Primary].notes # <<>>]
    BY <1>4, <1>5, <1>7, Zenon
  <2>2. y = [Execute(w, Primary, "browse") EXCEPT !.br.resent = @ \/ w.en[Primary].notes # <<>>]
    BY <1>2, <2>1, Zenon
  <2> QED
    BY <2>2, Zenon DEF ProcessNextCommand
<1>11. CASE v = w /\ (w.br.lock \/ Busy(w, Primary))
  BY <1>11 DEF Served
<1>12. CASE v = y /\ ~w.br.lock
  BY <1>8, <1>9, <1>12 DEF Lendable, Served, Busy, Locked
<1>13. CASE v = GrantExclusiveEngineRequest(w) /\ ~(w.br.cmds > 0)
  <2>1. Served(w)
    BY <1>13 DEF Served
  <2> QED
    BY <1>13, <2>1, GrantLent
<1> QED
  BY <1>10, <1>11, <1>12, <1>13

\* The engine is given back, listed or not.
LEMMA ReleaseLent ==
  ASSUME NEW w \in State, Lendable(w), Served(w), NEW v, v = ReleaseEngine(w)
  PROVE  /\ v \in State /\ Lent(v) /\ ~v.br.request
         /\ v.q = w.q /\ v.data = w.data
<1>1. w.br \in Browsing
  BY DEF State
<1>2. PICK b : b = [w.br EXCEPT !.request = FALSE, !.lock = FALSE]
  OBVIOUS
<1>3. b \in Browsing /\ b.request = FALSE /\ b.lock = FALSE
  BY <1>1, <1>2 DEF Browsing
<1>4. PICK r : r = [w EXCEPT !.br = b]
  OBVIOUS
<1>5. r \in State /\ Beside(w, r) /\ r.en = w.en /\ r.br = b
  BY <1>3, <1>4, BrowsingShape
<1>6. Lendable(r) /\ r.q = w.q /\ r.data = w.data
  BY <1>3, <1>5 DEF Beside, Lendable
<1>7. PICK p : p = ProcessNextCommand(r)
  OBVIOUS
<1>8. /\ p \in State /\ Lendable(p) /\ Served(p) /\ p.q = r.q /\ p.data = r.data
      /\ p.br.request = r.br.request
  BY <1>5, <1>6, <1>7, ProcessNextLent
<1>9. (v = w /\ ~w.br.request) \/ v = p
  <2>1. r = [w EXCEPT !.br.request = FALSE, !.br.lock = FALSE]
    <3>1. [w EXCEPT !.br.request = FALSE, !.br.lock = FALSE] = [w EXCEPT !.br = [w.br EXCEPT !.request = FALSE, !.lock = FALSE]]
      BY <1>1 DEF State, Browsing
    <3> QED
      BY <1>2, <1>4, <3>1, Zenon
  <2> QED
    BY <1>7, <2>1, Zenon DEF ReleaseEngine
<1>10. CASE v = w /\ ~w.br.request
  BY <1>10 DEF Lent
<1>11. CASE v = p
  BY <1>3, <1>5, <1>6, <1>8, <1>11 DEF Lent
<1> QED
  BY <1>9, <1>10, <1>11

-----------------------------------------------------------------------------
(* The end of an engine's work.                                             *)

\* ResetEngine: another engine has nothing to do with it, the borrowed one is
\* given back if it was waited for.
LEMMA ResetLent ==
  ASSUME NEW w, Good(w), Lent(w), NEW e \in Engines, NEW reason \in Reasons,
         NEW v, v = ResetEngine(w, e, reason)
  PROVE  /\ Lent(v)
         /\ e # Primary \/ ~w.data[e].active => Calm(w, v)
         /\ e = Primary => ~v.data[Primary].active
<1>1. w \in State /\ Primary \in Engines
  BY DEF Good, Engines
<1>2. CASE ~w.data[e].active
  <2>1. v = w
    BY <1>2, Zenon DEF ResetEngine
  <2> QED
    BY <1>2, <2>1, CalmSelf
<1>3. CASE w.data[e].active
  <2>1. PICK u : u = Uncount(w, e, reason)
    OBVIOUS
  <2>2. u \in State /\ u.data = w.data /\ u.br = w.br /\ u.en = w.en /\ u.q.list = w.q.list
    <3>1. Uncounted(w, u, w.data[e].item)
      BY <1>3, <2>1, UncountFacts
    <3> QED
      BY <3>1 DEF Uncounted
  <2>3. Lendable(u) /\ Served(u)
    BY <2>2 DEF Lent, Lendable, Served, Busy
  <2>4. PICK r : r = IF w.data[e].state = "waitprimary" THEN ReleaseEngine(u) ELSE u
    OBVIOUS
  <2>5. r \in State /\ r.q = u.q /\ r.data = u.data /\ Lent(r)
    <3>1. Lent(u)
      BY <2>2, <2>3 DEF Lent
    <3>2. PICK g : g = ReleaseEngine(u)
      OBVIOUS
    <3>3. g \in State /\ Lent(g) /\ g.q = u.q /\ g.data = u.data
      BY <2>2, <2>3, <3>2, ReleaseLent
    <3> QED
      BY <2>2, <2>4, <3>1, <3>2, <3>3
  <2>6. IsIdleAfter(v, r, e)
    BY <1>3, <2>1, <2>4, ResetShape
  <2>7. /\ v.q = r.q /\ v.br = r.br /\ v.en = r.en /\ v.data[e].state = "none" /\ ~v.data[e].active
        /\ \A f \in Engines \ {e} : v.data[f] = r.data[f]
    <3>1. v.q = r.q /\ v.br = r.br /\ v.en = r.en
      BY <2>5, <2>6 DEF State, IsIdleAfter
    <3>2. /\ v.data[e].state = "none" /\ ~v.data[e].active
          /\ \A f \in Engines \ {e} : v.data[f] = r.data[f]
      BY <2>5, <2>6 DEF State, IsIdleAfter, EngineData
    <3> QED
      BY <3>1, <3>2
  <2>8. Lent(v)
    <3>1. \A f \in Others : v.data[f].state # "waitprimary"
      BY <2>5, <2>7 DEF Others, Lent, Lendable
    <3> QED
      BY <2>5, <2>7, <3>1 DEF Lent, Lendable, Served, Busy
  <2>9. ASSUME e # Primary
        PROVE  Calm(w, v)
    <3>1. w.data[e].state # "waitprimary"
      BY <2>9 DEF Lent, Lendable, Others
    <3>2. r = u
      BY <2>4, <3>1
    <3>3. v.data[Primary] = w.data[Primary] /\ v.q.list = w.q.list /\ v.br = w.br /\ v.en = w.en
      BY <1>1, <2>2, <2>7, <2>9, <3>2
    <3>4. \A f \in Others : v.data[f].state = "waitprimary" => w.data[f].state = "waitprimary"
      BY <2>8 DEF Lent, Lendable
    <3> QED
      BY <3>3, <3>4 DEF Calm
  <2> QED
    BY <1>3, <2>7, <2>8, <2>9
<1> QED
  BY <1>2, <1>3

-----------------------------------------------------------------------------
(* CheckQueueState and SetActive(false).                                    *)

\* Only items or members of the queue but its list are different.
LEMMA QueueCalm ==
  ASSUME NEW u, NEW w, w.br = u.br, w.en = u.en, w.data = u.data, w.q.list = u.q.list
  PROVE  Calm(u, w)
BY DEF Calm

\* The timers of idle engines.
LEMMA IdleTimersCalm ==
  ASSUME NEW w, Good(w)
  PROVE  Calm(w, IdleTimers(w))
<1>1. PICK v : v = IdleTimers(w)
  OBVIOUS
<1>2. w \in State /\ Primary \in Engines /\ Others \subseteq Engines
  BY DEF Good, Engines, Others
<1>3. v.q = w.q /\ v.br = w.br /\ v.en = w.en
  BY <1>1, <1>2 DEF IdleTimers, State
<1>4. ASSUME NEW e \in Engines
      PROVE  v.data[e].active = w.data[e].active /\ v.data[e].state = w.data[e].state
  <2>1. v.data[e] \in {w.data[e], [w.data[e] EXCEPT !.timer = w.en[e].sock]}
    BY <1>1, <1>2 DEF IdleTimers, State
  <2>2. PICK z \in EngineData : z = w.data[e]
    BY <1>2, ItemOf
  <2>3. v.data[e] \in {z, [z EXCEPT !.timer = w.en[e].sock]}
    BY <2>1, <2>2, Zenon
  <2>4. v.data[e].active = z.active /\ v.data[e].state = z.state
    BY <2>3 DEF EngineData
  <2> QED
    BY <2>2, <2>4, Zenon
<1>5. Calm(w, v)
  BY <1>2, <1>3, <1>4 DEF Calm
<1> QED
  BY <1>1, <1>5, Zenon

\* The refresh of a listing is never given to the borrowed engine.
LEMMA TryRefreshCalm ==
  ASSUME NEW w, Good(w), NEW refresh, NEW v, v = TryRefreshListings(w, refresh)
  PROVE  Calm(w, v)
<1>1. CASE refresh \notin Refreshable(w)
  <2>1. v = w
    BY <1>1 DEF TryRefreshListings
  <2> QED
    BY <2>1, CalmSelf
<1>2. CASE refresh \in Refreshable(w)
  <2>1. w \in State /\ w.q \in QueueState
    BY DEF Good, State
  <2>2. PICK e \in Others : e = refresh
    <3>1. refresh \in Range(w.q.list) \ {Primary}
      BY <1>2, Zenon DEF Refreshable
    <3>2. w.q.list \in Seq(Engines)
      BY <2>1 DEF QueueState
    <3> QED
      BY <3>1, <3>2 DEF Range, Others
  <2>3. PICK x : x = Execute(w, e, "list")
    OBVIOUS
  <2>4. "list" \in Commands /\ e \in Engines /\ Primary \in Engines \ {e}
    BY DEF Commands, Others, Engines
  <2>5. x \in State /\ Calm(w, x)
    BY <2>1, <2>3, <2>4, ExecuteCalm, ExecuteShape DEF Beside
  <2>6. v = [x EXCEPT !.q.count = @ + 1, !.data[e].active = TRUE, !.data[e].state = "list"]
    BY <1>2, <2>2, <2>3, Zenon DEF TryRefreshListings
  <2>7. PICK n : n = x.q.count + 1
    OBVIOUS
  <2>8. v = [x EXCEPT !.q.count = n, !.data[e].active = TRUE, !.data[e].state = "list"]
    BY <2>6, <2>7, Zenon
  <2>9. /\ v.en = x.en /\ v.br = x.br /\ v.q = [x.q EXCEPT !.count = n]
        /\ v.data[e].state = "list" /\ \A f \in Engines \ {e} : v.data[f] = x.data[f]
    BY <2>4, <2>5, <2>8 DEF State, EngineData
  <2>10. v.q.list = x.q.list
    BY <2>5, <2>9 DEF State, QueueState
  <2>11. Calm(x, v)
    BY <2>4, <2>9, <2>10 DEF Calm, Others
  <2> QED
    BY <2>5, <2>11, CalmTwice
<1> QED
  BY <1>1, <1>2

\* The program ends, while the borrowed engine is not asked for.
LEMMA DeleteEnginesLent ==
  ASSUME NEW w, Good(w), Lent(w), ~w.br.request, NEW v, v = DeleteEngines(w)
  PROVE  Lent(v) /\ InUse(v) /\ Locked(v)
<1>1. w \in State /\ Primary \in Engines /\ Others \subseteq Engines
  BY DEF Good, Engines, Others
<1>2. /\ v.en = w.en /\ v.br = w.br /\ v.q = [w.q EXCEPT !.list = <<>>, !.quit = 2]
      /\ \A e \in Engines : v.data[e] = NoData
  BY <1>1 DEF DeleteEngines, State
<1>3. v.q.list = <<>>
  BY <1>1, <1>2 DEF State, QueueState
<1>4. Primary \notin Range(v.q.list)
  BY <1>3 DEF Range
<1> QED
  BY <1>1, <1>2, <1>4 DEF Lent, Lendable, Served, Busy, InUse, Locked, NoData

\* When nothing is active, it is not.
LEMMA UnusedLent ==
  ASSUME NEW w, Good(w), Lent(w), InUse(w), w.q.count = 0
  PROVE  ~w.br.request
<1>1. ~w.data[Primary].active
  BY NobodyActive DEF Engines
<1> QED
  BY <1>1 DEF InUse, Lent

\* The queue stops, or starts.
LEMMA ModeCalm ==
  ASSUME NEW w, Good(w), NEW m \in 0..2
  PROVE  Calm(w, [w EXCEPT !.q.mode = m])
<1>1. PICK v : v = [w EXCEPT !.q.mode = m]
  OBVIOUS
<1>2. w \in State
  BY DEF Good
<1>3. v.en = w.en /\ v.br = w.br /\ v.data = w.data /\ v.q = [w.q EXCEPT !.mode = m]
  BY <1>1, <1>2 DEF State
<1>4. v.q.list = w.q.list
  BY <1>2, <1>3 DEF State, QueueState
<1>5. Calm(w, v)
  BY <1>3, <1>4, QueueCalm
<1> QED
  BY <1>1, <1>5, Zenon

\* The borrowed engine, idle, is forgotten and given back.
LEMMA ForgetPrimaryLent ==
  ASSUME NEW w, Good(w), Lent(w), Primary \in Range(w.q.list), ~w.data[Primary].active,
         NEW b, b = [w EXCEPT !.q.list = Without(@, Primary), !.data[Primary] = NoData],
         NEW v, v = ReleaseEngine(b)
  PROVE  Lent(v) /\ InUse(v) /\ Locked(v)
<1>1. w \in State /\ w.q \in QueueState /\ w.data \in [Engines -> EngineData] /\ Primary \in Engines
  BY DEF Good, State, Engines
<1>2. PICK l : l = Without(w.q.list, Primary)
  OBVIOUS
<1>3. Range(l) = Range(w.q.list) \ {Primary}
  <2>1. w.q.list \in Seq(Engines)
    BY <1>1 DEF QueueState
  <2>2. Injective(w.q.list)
    BY Zenon DEF Good, Listed, Injective
  <2>3. Range(Without(w.q.list, Primary)) = Range(w.q.list) \ {Primary}
    BY <2>1, <2>2, WithoutFacts
  <2> QED
    BY <1>2, <2>3, Zenon
<1>4. b = [w EXCEPT !.q.list = l, !.data[Primary] = NoData]
  BY <1>2, Zenon
<1>5. /\ b.en = w.en /\ b.br = w.br /\ b.q = [w.q EXCEPT !.list = l]
      /\ b.data[Primary] = NoData /\ \A f \in Others : b.data[f] = w.data[f]
  <2>1. PICK p : p = [w.q EXCEPT !.list = l]
    OBVIOUS
  <2>2. PICK d : d = [w.data EXCEPT ![Primary] = NoData]
    OBVIOUS
  <2>3. b = [w EXCEPT !.q = p, !.data = d]
    BY <1>1, <1>4, <2>1, <2>2 DEF State
  <2>4. b.en = w.en /\ b.br = w.br /\ b.q = p /\ b.data = d
    BY <1>1, <2>3 DEF State
  <2> QED
    BY <1>1, <2>1, <2>2, <2>4 DEF Others
<1>6. b.q.list = l
  BY <1>1, <1>5 DEF QueueState
<1>7. b \in State
  <2>1. Good(b)
    BY ForgetPrimaryGood
  <2> QED
    BY <2>1 DEF Good
<1>8. Lendable(b) /\ Served(b)
  BY <1>5 DEF Lent, Lendable, Served, Busy
<1>9. Lent(v) /\ v.q = b.q /\ v.data = b.data
  BY <1>7, <1>8, ReleaseLent
<1>10. Primary \notin Range(v.q.list) /\ ~v.data[Primary].active
  <2>1. v.q.list = l /\ v.data[Primary] = NoData
    BY <1>5, <1>6, <1>9
  <2> QED
    BY <1>3, <2>1 DEF NoData
<1> QED
  BY <1>9, <1>10 DEF InUse, Locked

\* CheckQueueState, step by step: the borrowed engine is forgotten, given back,
\* the queue stops, and a listing is refreshed.
Forgotten(w) == [w EXCEPT !.q.list = Without(@, Primary), !.data[Primary] = NoData]
Returned(w) ==
  IF Primary \in Range(w.q.list) /\ ~w.data[Primary].active THEN ReleaseEngine(Forgotten(w)) ELSE w
Stopped(u) == [u EXCEPT !.q.mode = 0]
Refreshed(u, refresh) ==
  IF u.q.count = 0 /\ u.q.mode # 0 THEN TryRefreshListings(Stopped(u), refresh) ELSE u
Checked(u, refresh) ==
  IF u.q.count = 0 /\ u.q.quit = 1 THEN DeleteEngines(Refreshed(u, refresh)) ELSE Refreshed(u, refresh)

\* That is what it does.
LEMMA CheckQueueStateShape ==
  ASSUME NEW w, NEW refresh
  PROVE  CheckQueueState(w, refresh) = Checked(Returned(w), refresh)
BY Zenon DEF CheckQueueState, Checked, Refreshed, Stopped, Returned, Forgotten

\* CheckQueueState
LEMMA CheckQueueStateLent ==
  ASSUME NEW w, Good(w), Lent(w), NEW refresh, NEW z, z = CheckQueueState(w, refresh)
  PROVE  Lent(z) /\ InUse(z) /\ (Locked(w) => Locked(z))
<1>1. PICK u : u = Returned(w)
  OBVIOUS
<1>2. PICK v : v = Refreshed(u, refresh)
  OBVIOUS
<1>3. Good(u) /\ Lent(u) /\ InUse(u) /\ (Locked(w) => Locked(u))
  <2>1. CASE Primary \in Range(w.q.list) /\ ~w.data[Primary].active
    <3>1. PICK b : b = Forgotten(w)
      OBVIOUS
    <3>2. b = [w EXCEPT !.q.list = Without(@, Primary), !.data[Primary] = NoData]
      BY <3>1, Zenon DEF Forgotten
    <3>3. Good(b)
      BY <2>1, <3>2, ForgetPrimaryGood, Zenon
    <3>4. b \in State
      BY <3>3 DEF Good
    <3>5. Good(ReleaseEngine(b))
      BY <3>3, <3>4, ReleaseBeside, BesideGood
    <3>6. u = ReleaseEngine(b)
      BY <1>1, <2>1, <3>1, Zenon DEF Returned
    <3>7. Good(u)
      BY <3>5, <3>6, Zenon
    <3>8. Lent(u) /\ InUse(u) /\ Locked(u)
      BY <2>1, <3>2, <3>6, ForgetPrimaryLent
    <3> QED
      BY <3>7, <3>8
  <2>2. CASE ~(Primary \in Range(w.q.list) /\ ~w.data[Primary].active)
    <3>1. u = w
      BY <1>1, <2>2, Zenon DEF Returned
    <3> QED
      BY <2>2, <3>1 DEF InUse
  <2> QED
    BY <2>1, <2>2
<1>4. PICK x : x = Stopped(u)
  OBVIOUS
<1>5. Good(x) /\ Calm(u, x)
  <2>1. x = [u EXCEPT !.q.mode = 0] /\ 0 \in 0..2
    BY <1>4 DEF Stopped
  <2> QED
    BY <1>3, <2>1, ModeGood, ModeCalm, Zenon
<1>7. Good(v) /\ Calm(u, v)
  <2>1. v = TryRefreshListings(x, refresh) \/ v = u
    BY <1>2, <1>4, Zenon DEF Refreshed
  <2>2. CASE v = TryRefreshListings(x, refresh)
    <3>1. Good(v) /\ Calm(x, v)
      BY <1>5, <2>2, TryRefreshGood, TryRefreshCalm
    <3> QED
      BY <1>5, <3>1, CalmTwice
  <2>3. CASE v = u
    BY <1>3, <2>3, CalmSelf, Zenon
  <2> QED
    BY <2>1, <2>2, <2>3
<1>8. Lent(v) /\ InUse(v) /\ (Locked(w) => Locked(v))
  BY <1>3, <1>7, CalmLent
<1>9. z = IF u.q.count = 0 /\ u.q.quit = 1 THEN DeleteEngines(v) ELSE v
  BY <1>1, <1>2, CheckQueueStateShape, Zenon DEF Checked
<1>10. CASE u.q.count = 0 /\ z = DeleteEngines(v)
  <2>1. ~u.br.request
    BY <1>3, <1>10, UnusedLent
  <2>2. ~v.br.request
    BY <1>7, <2>1 DEF Calm
  <2> QED
    BY <1>7, <1>8, <1>10, <2>2, DeleteEnginesLent
<1>11. CASE z = v
  BY <1>8, <1>11
<1> QED
  BY <1>9, <1>10, <1>11, Zenon

\* SetActive(false), step by step: the queue stops, the commands of its engines
\* are cancelled.
Halted(w) == QueueImmediateFiles([w EXCEPT !.q.mode = 0])
ToCancel(w) ==
  ({e \in Range(w.q.list) : w.data[e].active} \ Missed(w)) \ (IF Waits(w) THEN {Primary} ELSE {})
Cancelled(u, w) ==
  [u EXCEPT !.en = [e \in Engines |->
     IF e \in ToCancel(w) /\ Busy(w, e) THEN [u.en[e] EXCEPT !.events = Append(@, "cancel")] ELSE u.en[e]]]
Unlent(v) == CheckQueueState(IdleTimers(ResetEngine(v, Primary, "reset")), None)

\* That is what it does.
LEMMA DeactivateShape ==
  ASSUME NEW w
  PROVE  Deactivate(w) = IF Waits(w) THEN Unlent(Cancelled(Halted(w), w)) ELSE Cancelled(Halted(w), w)
BY Zenon DEF Deactivate, Unlent, Cancelled, Halted, ToCancel

\* Cancelling commands.
LEMMA CancelledCalm ==
  ASSUME NEW u, Good(u), NEW w, NEW v, v = Cancelled(u, w)
  PROVE  Good(v) /\ Calm(u, v) /\ v.data = u.data
<1>1. u \in State /\ u.en \in [Engines -> Engine] /\ Primary \in Engines
  BY DEF Good, State, Engines
<1>2. PICK n : n = [e \in Engines |-> IF e \in ToCancel(w) /\ Busy(w, e)
                                      THEN [u.en[e] EXCEPT !.events = Append(@, "cancel")] ELSE u.en[e]]
  OBVIOUS
<1>3. ASSUME NEW e \in Engines
      PROVE  n[e] \in Engine /\ n[e].cmd = u.en[e].cmd /\ n[e].notes = u.en[e].notes
  <2>1. PICK z \in Engine : z = u.en[e]
    BY <1>1
  <2>2. PICK ev : ev = Append(z.events, "cancel")
    OBVIOUS
  <2>3. ev \in Seq({"cmd", "cancel"})
    BY <2>1, <2>2 DEF Engine
  <2>4. PICK y : y = [z EXCEPT !.events = ev]
    OBVIOUS
  <2>5. y \in Engine /\ y.cmd = z.cmd /\ y.notes = z.notes
    BY <2>3, <2>4 DEF Engine
  <2>6. n[e] \in {z, y}
    <3>1. n[e] \in {u.en[e], [u.en[e] EXCEPT !.events = Append(@, "cancel")]}
      BY <1>2, Zenon
    <3> QED
      BY <2>1, <2>2, <2>4, <3>1, Zenon
  <2> QED
    BY <2>1, <2>5, <2>6
<1>4. n \in [Engines -> Engine]
  <2>1. n = [e \in Engines |-> n[e]]
    BY <1>2, Zenon
  <2> QED
    BY <1>3, <2>1
<1>5. v = [u EXCEPT !.en = n]
  BY <1>2, Zenon DEF Cancelled
<1>6. Beside(u, v)
  BY <1>1, <1>4, <1>5, EnginesBeside, Zenon
<1>7. v.en = n /\ v.br = u.br
  BY <1>1, <1>5 DEF State
<1>8. Good(v)
  BY <1>6, BesideGood
<1>9. Calm(u, v)
  BY <1>1, <1>3, <1>6, <1>7, BesideCalm
<1> QED
  BY <1>6, <1>8, <1>9 DEF Beside

\* The queue is halted.
LEMMA HaltedCalm ==
  ASSUME NEW w, Good(w), NEW u, u = Halted(w)
  PROVE  Good(u) /\ Calm(w, u) /\ u.data = w.data
<1>1. PICK m : m = [w EXCEPT !.q.mode = 0]
  OBVIOUS
<1>2. Good(m) /\ Calm(w, m) /\ m.data = w.data
  <2>1. 0 \in 0..2
    OBVIOUS
  <2> QED
    BY <1>1, <2>1, ModeGood, ModeCalm, Zenon
<1>3. u = QueueImmediateFiles(m)
  BY <1>1, Zenon DEF Halted
<1>4. Good(u) /\ u.q = m.q /\ u.data = m.data /\ u.en = m.en
  BY <1>2, <1>3, ImmediateGood, Zenon
<1>5. u.br = m.br
  <2>1. m \in State
    BY <1>2 DEF Good
  <2>2. PICK t : u = [m EXCEPT !.it = t]
    BY <1>3, Zenon DEF QueueImmediateFiles
  <2> QED
    BY <2>1, <2>2 DEF State
<1>6. Calm(m, u)
  BY <1>4, <1>5, QueueCalm
<1> QED
  BY <1>2, <1>4, <1>6, CalmTwice

\* The engine that waits for the borrowed one stops to.
LEMMA UnlentLent ==
  ASSUME NEW v, Good(v), Lent(v), NEW z, z = Unlent(v)
  PROVE  Lent(z) /\ InUse(z) /\ Locked(z)
<1>1. Primary \in Engines /\ "reset" \in Reasons
  BY DEF Engines, Reasons
<1>2. PICK r : r = ResetEngine(v, Primary, "reset")
  OBVIOUS
<1>3. Good(r) /\ Lent(r) /\ ~r.data[Primary].active
  BY <1>1, <1>2, ResetGood, ResetLent
<1>4. PICK y : y = IdleTimers(r)
  OBVIOUS
<1>5. Good(y) /\ Calm(r, y)
  BY <1>3, <1>4, IdleTimersGood, IdleTimersCalm, Zenon
<1>6. Lent(y) /\ Locked(y)
  <2>1. Locked(r)
    BY <1>3 DEF Locked
  <2> QED
    BY <1>3, <1>5, <2>1, CalmLent
<1>7. z = CheckQueueState(y, None)
  BY <1>2, <1>4, Zenon DEF Unlent
<1> QED
  BY <1>5, <1>6, <1>7, CheckQueueStateLent

\* SetActive(false)
LEMMA DeactivateLent ==
  ASSUME NEW w, Good(w), Lent(w), NEW z, z = Deactivate(w)
  PROVE  Lent(z) /\ (InUse(w) => InUse(z)) /\ (Locked(w) => Locked(z))
<1>1. PICK u : u = Halted(w)
  OBVIOUS
<1>2. Good(u) /\ Calm(w, u)
  BY <1>1, HaltedCalm
<1>3. PICK v : v = Cancelled(u, w)
  OBVIOUS
<1>4. Good(v) /\ Calm(w, v)
  BY <1>2, <1>3, CancelledCalm, CalmTwice
<1>5. Lent(v) /\ (InUse(w) => InUse(v)) /\ (Locked(w) => Locked(v))
  BY <1>4, CalmLent
<1>6. z = Unlent(v) \/ z = v
  BY <1>1, <1>3, DeactivateShape, Zenon
<1>7. CASE z = Unlent(v)
  BY <1>4, <1>5, <1>7, UnlentLent
<1> QED
  BY <1>5, <1>6, <1>7

-----------------------------------------------------------------------------
(* What else the handlers do.                                               *)

\* Only items have changed.
LEMMA ItemsCalm ==
  ASSUME NEW w \in State, NEW t, NEW v, v = [w EXCEPT !.it = t]
  PROVE  Calm(w, v) /\ v.data = w.data
<1>1. v.q = w.q /\ v.data = w.data /\ v.en = w.en /\ v.br = w.br
  BY DEF State
<1> QED
  BY <1>1, QueueCalm

\* Another try is counted.
LEMMA TriedCalm ==
  ASSUME NEW w, Good(w), NEW e \in Engines
  PROVE  Good(Tried(w, e)) /\ Calm(w, Tried(w, e)) /\ Tried(w, e).data = w.data
<1>1. PICK v : v = Tried(w, e)
  OBVIOUS
<1>2. Good(v) /\ v.q = w.q /\ v.data = w.data /\ v.en = w.en /\ v.br = w.br
  BY <1>1, TriedGood, Zenon
<1>3. Calm(w, v)
  BY <1>2, QueueCalm
<1> QED
  BY <1>1, <1>2, <1>3, Zenon

\* The progress of an item is noted or forgotten.
LEMMA ProgressCalm ==
  ASSUME NEW w, Good(w), NEW i, NEW b \in BOOLEAN, NEW v, v = [w EXCEPT !.it[i].progress = b]
  PROVE  Good(v) /\ Calm(w, v) /\ v.data = w.data
<1>1. w \in State
  BY DEF Good
<1>2. PICK t : t = [w.it EXCEPT ![i].progress = b]
  OBVIOUS
<1>3. v = [w EXCEPT !.it = t]
  BY <1>1, <1>2 DEF State
<1>4. Calm(w, v) /\ v.data = w.data
  BY <1>1, <1>3, ItemsCalm
<1>5. Good(v)
  BY ProgressGood, Zenon
<1> QED
  BY <1>4, <1>5

\* Members of the queue but its list are set.
LEMMA MembersCalm ==
  ASSUME NEW w \in State, NEW p, p.list = w.q.list, NEW v, v = [w EXCEPT !.q = p]
  PROVE  Calm(w, v) /\ v.data = w.data /\ v.q = p
<1>1. v.q = p /\ v.data = w.data /\ v.en = w.en /\ v.br = w.br
  BY DEF State
<1> QED
  BY <1>1, QueueCalm

\* Passwords become known or turn out to be wrong.
LEMMA KnownCalm ==
  ASSUME NEW w, Good(w), NEW S \in SUBSET (Servers \cup {None}), NEW v, v = [w EXCEPT !.q.known = S]
  PROVE  Good(v) /\ Calm(w, v) /\ v.data = w.data
<1>1. w \in State
  BY DEF Good
<1>2. PICK p : p = [w.q EXCEPT !.known = S]
  OBVIOUS
<1>3. p.list = w.q.list
  BY <1>1, <1>2 DEF State, QueueState
<1>4. v = [w EXCEPT !.q = p]
  BY <1>1, <1>2 DEF State
<1>5. Calm(w, v) /\ v.data = w.data
  BY <1>1, <1>3, <1>4, MembersCalm
<1>6. Good(v)
  BY KnownGood, Zenon
<1> QED
  BY <1>5, <1>6

\* An engine does something else than to wait for the borrowed one.
LEMMA StateLent ==
  ASSUME NEW w, Good(w), Lent(w), NEW e \in Engines, NEW state \in States \ {"waitprimary"},
         NEW v, InState(v, w, e, state)
  PROVE  /\ Good(v) /\ Lent(v) /\ (InUse(v) <=> InUse(w)) /\ (e # Primary /\ Locked(w) => Locked(v))
         /\ v.data[Primary].active = w.data[Primary].active
         /\ v.data[e].active = w.data[e].active /\ v.br = w.br /\ v.en = w.en
<1>1. w \in State /\ Primary \in Engines
  BY DEF Good, Engines
<1>2. /\ Good(v) /\ v.q = w.q /\ v.en = w.en /\ v.br = w.br
      /\ \A f \in Engines : v.data[f].active = w.data[f].active
  BY StateSet
<1>3. v.data[e].state = state /\ \A f \in Engines \ {e} : v.data[f] = w.data[f]
  BY <1>1 DEF State, EngineData, InState
<1>4. \A f \in Others : v.data[f].state # "waitprimary"
  BY <1>3 DEF Lent, Lendable, Others
<1>5. Lent(v)
  BY <1>2, <1>4 DEF Lent, Lendable, Served, Busy
<1>6. InUse(v) <=> InUse(w)
  BY <1>1, <1>2 DEF InUse
<1>7. e # Primary /\ Locked(w) => Locked(v)
  BY <1>1, <1>2, <1>3 DEF Locked
<1> QED
  BY <1>1, <1>2, <1>5, <1>6, <1>7

\* ToConnect
LEMMA ToConnectLent ==
  ASSUME NEW w, Good(w), Lent(w), NEW e \in Engines, NEW v, v = ToConnect(w, e)
  PROVE  /\ Good(v) /\ Lent(v) /\ (InUse(v) <=> InUse(w)) /\ (e # Primary /\ Locked(w) => Locked(v))
         /\ v.data[Primary].active = w.data[Primary].active
<1>1. PICK state : state = IF Known(w, e) THEN "connect" ELSE "askpassword"
  OBVIOUS
<1>2. state \in States \ {"waitprimary"}
  BY <1>1 DEF States
<1>3. InState(v, w, e, state)
  BY <1>1, Zenon DEF ToConnect, InState
<1> QED
  BY <1>2, <1>3, StateLent

-----------------------------------------------------------------------------
(* How a handler ends.                                                      *)

\* What a handler that deals with the engine e keeps.
Fit(w, e) == /\ Good(w) /\ Lent(w) /\ (main.inside \/ InUse(w))
             /\ bypassed \/ Locked(w) \/ e = Primary
             /\ main \in Main

\* After a calm change it is kept.
LEMMA FitCalm ==
  ASSUME NEW u, NEW e, Fit(u, e), NEW w, Good(w), Calm(u, w)
  PROVE  Fit(w, e)
BY CalmLent DEF Fit

\* A handler's result w, once it is the state, is right.
LEMMA EndsLent ==
  ASSUME NEW w \in State, Lent(w), Becomes(w), main'.inside \/ InUse(w),
         bypassed' \/ Locked(w) \/ (main'.pc = "send" /\ main'.e = Primary),
         main'.pc = "send" /\ main'.e = Primary => w.data[Primary].active,
         Nested'
  PROVE  LInv'
<1>1. w.q = q' /\ w.data = data' /\ w.it = it' /\ w.br = br' /\ w.en = en'
  BY Zenon DEF Becomes
<1>2. Here' = w
  <2>1. w = [q |-> w.q, data |-> w.data, it |-> w.it, br |-> w.br, en |-> w.en]
    BY DEF State
  <2> QED
    BY <1>1, <2>1, Zenon DEF Here
<1>3. Lent(w)' /\ (InUse(w) => InUse(w)') /\ (Locked(w) => Locked(w)')
  BY DEF Lent, Lendable, Served, Busy, InUse, Locked, Others, Engines
<1>4. Lent(Here)' /\ (main'.inside \/ InUse(Here)') /\ (bypassed' \/ Locked(Here)' \/ Using')
  <2>1. Lent(Here)' /\ (InUse(w) => InUse(Here)') /\ (Locked(w) => Locked(Here)')
    BY <1>2, <1>3, Zenon
  <2> QED
    BY <2>1 DEF Using
<1>5. Using' => data'[Primary].active
  BY <1>1 DEF Using
<1> QED
  BY <1>4, <1>5 DEF LInv

\* It waits, or the main thread stays where it is.
LEMMA StaysLent ==
  ASSUME NEW w, Good(w), Lent(w), main.inside \/ InUse(w), bypassed \/ Locked(w) \/ Using,
         Using => w.data[Primary].active, Nested, Becomes(w), UNCHANGED <<main, bypassed>>
  PROVE  LInv'
<1>1. Nested'
  BY DEF Nested
<1> QED
  BY <1>1, EndsLent DEF Using, Good

\* (Return)
LEMMA ReturnLent ==
  ASSUME NEW w, Good(w), Lent(w), main.inside \/ InUse(w), main \in Main, Becomes(w), Return,
         bypassed' \/ Locked(w)
  PROVE  LInv'
<1>1. main'.inside = main.inside /\ main'.pc = IF main.inside THEN "advance" ELSE "idle"
  BY DEF Return, Main
<1>2. Nested'
  BY <1>1 DEF Nested
<1> QED
  BY <1>1, <1>2, EndsLent DEF Good

\* (AdvanceQueue)
LEMMA AdvancingLent ==
  ASSUME NEW w, Good(w), Lent(w), bypassed \/ Locked(w), Becomes(w), Advancing, UNCHANGED bypassed
  PROVE  LInv'
<1>1. main'.inside /\ main'.pc = "advance"
  BY DEF Advancing
<1>2. Nested'
  BY <1>1 DEF Nested
<1> QED
  BY <1>1, <1>2, EndsLent DEF Good

\* (SendNextCommand)
LEMMA SendingLent ==
  ASSUME NEW w, NEW e, Fit(w, e), Becomes(w), Sending(e), UNCHANGED bypassed,
         e = Primary => w.data[Primary].active
  PROVE  LInv'
<1>1. main'.inside = main.inside /\ main'.pc = "send" /\ main'.e = e
  BY DEF Sending, Main, Fit
<1>2. Nested'
  BY <1>1 DEF Nested
<1> QED
  BY <1>1, <1>2, EndsLent DEF Good, Fit

\* The work of an engine ends.
LEMMA ResetAndAdvanceLent ==
  ASSUME NEW w, NEW e \in Engines, Fit(w, e), NEW reason \in Reasons, ResetAndAdvance(w, e, reason),
         UNCHANGED bypassed
  PROVE  LInv'
<1>1. PICK v : v = ResetEngine(w, e, reason)
  OBVIOUS
<1>2. Good(v) /\ Lent(v) /\ (e # Primary \/ ~w.data[e].active => Calm(w, v))
  BY <1>1, ResetGood, ResetLent DEF Fit
<1>3. bypassed \/ Locked(v)
  <2>1. CASE e = Primary
    <3>1. ~v.data[Primary].active
      BY <1>1, <2>1, ResetLent DEF Fit
    <3> QED
      BY <3>1 DEF Locked
  <2>2. CASE e # Primary
    BY <1>2, <2>2, CalmLent DEF Fit
  <2> QED
    BY <2>1, <2>2
<1>4. Becomes(v) /\ IF w.data[e].active THEN Advancing ELSE Return
  BY <1>1, Zenon DEF ResetAndAdvance
<1>5. CASE w.data[e].active
  BY <1>2, <1>3, <1>4, <1>5, AdvancingLent
<1>6. CASE ~w.data[e].active
  <2>1. main.inside \/ InUse(v)
    BY <1>2, <1>6, CalmLent DEF Fit
  <2> QED
    BY <1>2, <1>3, <1>4, <1>6, <2>1, ReturnLent DEF Fit
<1> QED
  BY <1>5, <1>6

\* The queue's stop or the next command of an engine.
LEMMA ContinueLent ==
  ASSUME NEW w, NEW e \in Engines, Fit(w, e), e = Primary => w.data[Primary].active,
         Continue(w, e), UNCHANGED bypassed
  PROVE  LInv'
<1>1. PICK v : v = IF w.data[e].state = "connect" THEN ToConnect(w, e) ELSE w
  OBVIOUS
<1>2. Fit(v, e) /\ (e = Primary => v.data[Primary].active)
  <2>1. PICK c : c = ToConnect(w, e)
    OBVIOUS
  <2>2. /\ Good(c) /\ Lent(c) /\ (InUse(c) <=> InUse(w)) /\ (e # Primary /\ Locked(w) => Locked(c))
        /\ c.data[Primary].active = w.data[Primary].active
    BY <2>1, ToConnectLent DEF Fit
  <2>3. Fit(c, e)
    BY <2>2 DEF Fit
  <2> QED
    BY <1>1, <2>1, <2>2, <2>3
<1>3. Interrupted(v, e) \in Reasons
  BY DEF Interrupted, Reasons
<1>4. ResetAndAdvance(v, e, Interrupted(v, e)) \/ (Becomes(v) /\ Sending(e))
  BY <1>1, Zenon DEF Continue
<1> QED
  BY <1>2, <1>3, <1>4, ResetAndAdvanceLent, SendingLent

\* After a failure that counts.
LEMMA CountErrorLent ==
  ASSUME NEW w, NEW e \in Engines, Fit(w, e), e = Primary => w.data[Primary].active,
         CountError(w, e), UNCHANGED bypassed
  PROVE  LInv'
<1>1. PICK v : v = Tried(w, e)
  OBVIOUS
<1>2. Good(v) /\ Calm(w, v) /\ v.data = w.data
  BY <1>1, TriedCalm, Zenon DEF Fit
<1>3. Fit(v, e) /\ (e = Primary => v.data[Primary].active)
  BY <1>2, FitCalm
<1>4. "failure" \in Reasons
  BY DEF Reasons
<1>5. ResetAndAdvance(v, e, "failure") \/ Continue(v, e)
  BY <1>1, Zenon DEF CountError
<1> QED
  BY <1>3, <1>4, <1>5, ResetAndAdvanceLent, ContinueLent

\* (IncreaseErrorCount)
LEMMA IncreaseErrorCountLent ==
  ASSUME NEW w, NEW e \in Engines, Fit(w, e), e = Primary => w.data[Primary].active,
         IncreaseErrorCount(w, e), UNCHANGED bypassed
  PROVE  LInv'
<1>1. PICK v : v = Tried(w, e)
  OBVIOUS
<1>2. Good(v) /\ Calm(w, v) /\ v.data = w.data
  BY <1>1, TriedCalm, Zenon DEF Fit
<1>3. Fit(v, e) /\ (e = Primary => v.data[Primary].active)
  BY <1>2, FitCalm
<1>4. "failure" \in Reasons
  BY DEF Reasons
<1>5. ResetAndAdvance(v, e, "failure") \/ (Becomes(v) /\ Sending(e))
  BY <1>1, Zenon DEF IncreaseErrorCount
<1> QED
  BY <1>3, <1>4, <1>5, ResetAndAdvanceLent, SendingLent

-----------------------------------------------------------------------------
(* The replies.                                                             *)

\* A reply that the command was cancelled.
LEMMA ReplyCanceledLent ==
  ASSUME NEW w, NEW e \in Engines, Fit(w, e), ReplyCanceled(w, e), UNCHANGED bypassed
  PROVE  LInv'
<1>1. PICK i : i = w.data[e].item
  OBVIOUS
<1>2. PICK u : u = IF i # None /\ ~w.it[i].remove THEN [w EXCEPT !.it[i].progress = FALSE] ELSE w
  OBVIOUS
<1>3. PICK v : v = IF w.data[e].state = "connect" THEN Deactivate(u) ELSE u
  OBVIOUS
<1>4. Fit(u, e)
  <2>1. PICK x : x = [w EXCEPT !.it[i].progress = FALSE]
    OBVIOUS
  <2>2. Good(x) /\ Calm(w, x)
    BY <2>1, ProgressCalm DEF Fit
  <2>3. Fit(x, e)
    BY <2>2, FitCalm
  <2> QED
    BY <1>2, <2>1, <2>3, Zenon
<1>5. Fit(v, e)
  <2>1. PICK d : d = Deactivate(u)
    OBVIOUS
  <2>2. Good(d)
    BY <1>4, <2>1, DeactivateGood, Zenon DEF Fit
  <2>3. Lent(d) /\ (InUse(u) => InUse(d)) /\ (Locked(u) => Locked(d))
    BY <1>4, <2>1, DeactivateLent DEF Fit
  <2>4. Fit(d, e)
    BY <1>4, <2>2, <2>3 DEF Fit
  <2> QED
    BY <1>3, <1>4, <2>1, <2>4, Zenon
<1>6. Interrupted(w, e) \in Reasons
  BY DEF Interrupted, Reasons
<1>7. ResetAndAdvance(v, e, Interrupted(w, e))
  <2> DEFINE U(j) == IF j # None /\ ~w.it[j].remove THEN [w EXCEPT !.it[j].progress = FALSE] ELSE w
             V(x) == IF w.data[e].state = "connect" THEN Deactivate(x) ELSE x
  <2>1. ResetAndAdvance(V(U(w.data[e].item)), e, Interrupted(w, e))
    BY Zenon DEF ReplyCanceled
  <2>2. v = V(u)
    BY <1>3, Zenon
  <2>3. u = U(i)
    BY <1>2, Zenon
  <2> HIDE DEF U, V
  <2>4. v = V(U(w.data[e].item))
    BY <1>1, <2>2, <2>3, Zenon
  <2> QED
    BY <2>1, <2>4, Zenon
<1> QED
  BY <1>5, <1>6, <1>7, ResetAndAdvanceLent

\* The reply to an attempt to connect.
LEMMA ReplyConnectLent ==
  ASSUME NEW w, NEW e \in Engines, Fit(w, e), e = Primary => w.data[Primary].active,
         NEW r, ReplyConnect(w, e, r), UNCHANGED bypassed
  PROVE  LInv'
<1>1. PICK k : k = w.q.known \ (AskedFor \cap {w.data[e].site})
  OBVIOUS
<1>2. k \in SUBSET (Servers \cup {None})
  <2>1. w.q.known \in SUBSET (Servers \cup {None})
    BY DEF Fit, Good, State, QueueState
  <2> QED
    BY <1>1, <2>1
<1>3. PICK x : x = [w EXCEPT !.q.known = k]
  OBVIOUS
<1>4. PICK u : u = IF r = "password" THEN x ELSE w
  OBVIOUS
<1>5. Fit(u, e) /\ u.data = w.data
  <2>1. Good(x) /\ Calm(w, x) /\ x.data = w.data
    BY <1>2, <1>3, KnownCalm DEF Fit
  <2>2. Fit(x, e)
    BY <2>1, FitCalm
  <2> QED
    BY <1>4, <2>1, <2>2, Zenon
<1>6. PICK y : y = [w EXCEPT !.data[e].state = Work(w.data[e].item)]
  OBVIOUS
<1>7. Fit(y, e) /\ (e = Primary => y.data[Primary].active)
  <2>1. PICK s : s = Work(w.data[e].item)
    OBVIOUS
  <2>2. s \in States \ {"waitprimary"}
    BY <2>1 DEF Work, States
  <2>3. InState(y, w, e, s)
    BY <1>6, <2>1, Zenon DEF InState
  <2>4. /\ Good(y) /\ Lent(y) /\ (InUse(y) <=> InUse(w)) /\ (e # Primary /\ Locked(w) => Locked(y))
        /\ y.data[Primary].active = w.data[Primary].active
    BY <2>2, <2>3, StateLent DEF Fit
  <2> QED
    BY <2>4 DEF Fit
<1>8. Continue(y, e) \/ Continue(w, e) \/ CountError(u, e)
  <2> DEFINE U == IF r = "password" THEN [w EXCEPT !.q.known = @ \ (AskedFor \cap {w.data[e].site})] ELSE w
             Y == [w EXCEPT !.data[e].state = Work(w.data[e].item)]
  <2>1. U = u
    <3>1. x = [w EXCEPT !.q.known = @ \ (AskedFor \cap {w.data[e].site})]
      BY <1>1, <1>3, Zenon
    <3> QED
      BY <1>4, <3>1, Zenon
  <2>2. Y = y
    BY <1>6, Zenon
  <2>3. Continue(Y, e) \/ Continue(w, e) \/ CountError(U, e)
    BY Zenon DEF ReplyConnect
  <2> HIDE DEF U, Y
  <2> QED
    BY <2>1, <2>2, <2>3, Zenon
<1> QED
  BY <1>5, <1>7, <1>8, ContinueLent, CountErrorLent

\* The reply to a transfer.
LEMMA ReplyTransferLent ==
  ASSUME NEW w, NEW e \in Engines, Fit(w, e), e = Primary => w.data[Primary].active,
         NEW r, ReplyTransfer(w, e, r), UNCHANGED bypassed
  PROVE  LInv'
<1>1. {"success", "failure", "retry"} \subseteq Reasons
  BY DEF Reasons
<1>2. PICK i : i = w.data[e].item
  OBVIOUS
<1>3. PICK u : u = [w EXCEPT !.it[i].progress = FALSE]
  OBVIOUS
<1>4. Good(u) /\ Calm(w, u) /\ u.data = w.data
  BY <1>3, ProgressCalm DEF Fit
<1>5. \/ ResetAndAdvance(w, e, "success")
      \/ Continue(u, e) \/ ResetAndAdvance(w, e, "failure")
      \/ ResetAndAdvance(Tried(w, e), e, "retry") \/ CountError(w, e)
  <2>1. \/ ResetAndAdvance(w, e, "success")
        \/ Continue([w EXCEPT !.it[w.data[e].item].progress = FALSE], e)
        \/ ResetAndAdvance(w, e, "failure")
        \/ ResetAndAdvance(Tried(w, e), e, "retry") \/ CountError(w, e)
    BY Zenon DEF ReplyTransfer
  <2>2. u = [w EXCEPT !.it[w.data[e].item].progress = FALSE]
    BY <1>2, <1>3, Zenon
  <2> QED
    BY <2>1, <2>2, Zenon
<1>6. Fit(Tried(w, e), e)
  <2>1. Good(Tried(w, e)) /\ Calm(w, Tried(w, e))
    BY TriedCalm DEF Fit
  <2> QED
    BY <2>1, FitCalm
<1>7. Fit(u, e) /\ (e = Primary => u.data[Primary].active)
  BY <1>4, FitCalm
<1> QED
  BY <1>1, <1>5, <1>6, <1>7, ResetAndAdvanceLent, ContinueLent, CountErrorLent

\* The reply to the creation of a directory.
LEMMA ReplyMkdirLent ==
  ASSUME NEW w, NEW e \in Engines, Fit(w, e), e = Primary => w.data[Primary].active,
         NEW r, ReplyMkdir(w, e, r), UNCHANGED bypassed
  PROVE  LInv'
<1>1. {"success", "failure"} \subseteq Reasons
  BY DEF Reasons
<1>2. ResetAndAdvance(w, e, "success") \/ CountError(w, e) \/ ResetAndAdvance(w, e, "failure")
  BY Zenon DEF ReplyMkdir
<1> QED
  BY <1>1, <1>2, ResetAndAdvanceLent, CountErrorLent

\* A reply n is handled, on w0 where it has been taken.
LEMMA ProcessReplyLent ==
  ASSUME NEW w0, NEW e \in Engines, Fit(w0, e), bypassed \/ Locked(w0),
         e = Primary => w0.data[Primary].active,
         main.pc # "send", Nested, NEW n, ProcessReply(w0, e, n), UNCHANGED bypassed
  PROVE  LInv'
<1>1. PICK i : i = w0.data[e].item
  OBVIOUS
<1>2. PICK w : w = IF i # None /\ n.progress THEN [w0 EXCEPT !.it[i].progress = TRUE] ELSE w0
  OBVIOUS
<1>3. Good(w) /\ Calm(w0, w) /\ w.data = w0.data
  <2>1. PICK x : x = [w0 EXCEPT !.it[i].progress = TRUE]
    OBVIOUS
  <2>2. Good(x) /\ Calm(w0, x) /\ x.data = w0.data
    BY <2>1, ProgressCalm DEF Fit
  <2> QED
    BY <1>2, <2>1, <2>2, CalmSelf, Zenon DEF Fit
<1>4. PICK y : y = [w EXCEPT !.data[e].state = "connect"]
  OBVIOUS
<1>5. \/ ReplyCanceled(w, e) \/ Continue(y, e) \/ ReplyConnect(w, e, n.r) \/ ReplyTransfer(w, e, n.r)
      \/ ReplyMkdir(w, e, n.r) \/ ResetAndAdvance(w, e, "remove") \/ (Becomes(w) /\ UNCHANGED main)
  <2> DEFINE W(j) == IF j # None /\ n.progress THEN [w0 EXCEPT !.it[j].progress = TRUE] ELSE w0
             Y(x) == [x EXCEPT !.data[e].state = "connect"]
             R(x) == \/ ReplyCanceled(x, e) \/ Continue(Y(x), e)
                     \/ ReplyConnect(x, e, n.r) \/ ReplyTransfer(x, e, n.r)
                     \/ ReplyMkdir(x, e, n.r) \/ ResetAndAdvance(x, e, "remove")
                     \/ (Becomes(x) /\ UNCHANGED main)
  <2>1. R(W(w0.data[e].item))
    BY DEF ProcessReply
  <2>2. w = W(i)
    BY <1>2, Zenon
  <2>3. y = Y(w)
    BY <1>4, Zenon
  <2> HIDE DEF W
  <2>4. w = W(w0.data[e].item)
    BY <1>1, <2>2, Zenon
  <2>5. R(w)
    <3> HIDE DEF R
    <3> QED
      BY <2>1, <2>4, Zenon
  <2> HIDE DEF Y
  <2> QED
    BY <2>3, <2>5, Zenon
<1>6. Fit(w, e) /\ (e = Primary => w.data[Primary].active)
  BY <1>3, FitCalm
<1>7. Fit(y, e) /\ (e = Primary => y.data[Primary].active)
  <2>1. PICK s \in States \ {"waitprimary"} : s = "connect"
    BY DEF States
  <2>2. InState(y, w, e, s)
    BY <1>4, <2>1, Zenon DEF InState
  <2>3. /\ Good(y) /\ Lent(y) /\ (InUse(y) <=> InUse(w)) /\ (e # Primary /\ Locked(w) => Locked(y))
        /\ y.data[Primary].active = w.data[Primary].active
    BY <1>6, <2>2, StateLent DEF Fit
  <2> QED
    BY <1>6, <2>3 DEF Fit
<1>8. ASSUME Becomes(w), UNCHANGED main
      PROVE  LInv'
  <2>1. bypassed \/ Locked(w)
    BY <1>3, CalmLent
  <2>2. ~Using
    BY DEF Using
  <2> QED
    BY <1>6, <1>8, <2>1, <2>2, StaysLent DEF Fit
<1>9. "remove" \in Reasons
  BY DEF Reasons
<1> QED
  BY <1>5, <1>6, <1>7, <1>8, <1>9, ReplyCanceledLent, ReplyConnectLent, ReplyTransferLent, ReplyMkdirLent,
     ContinueLent, ResetAndAdvanceLent

-----------------------------------------------------------------------------
(* The events of the main thread.                                           *)

\* What a handler starts from, unless the main thread is about to send.
Calmly == IInv /\ LInv /\ main.pc # "send"

\* Then every engine is fit for it.
LEMMA HereFit ==
  ASSUME Calmly
  PROVE  /\ \A e : Fit(Here, e)
         /\ Lent(Here) /\ (bypassed \/ Locked(Here)) /\ ~Using /\ Nested
         /\ main.inside \/ InUse(Here)
BY HereGood DEF Calmly, LInv, Fit, Using

\* A handler that does nothing to the borrowed engine and ends.
LEMMA CalmStays ==
  ASSUME Calmly, NEW w, Good(w), Calm(Here, w), Becomes(w), UNCHANGED <<main, bypassed>>
  PROVE  LInv'
<1>1. Lent(w) /\ (main.inside \/ InUse(w)) /\ (bypassed \/ Locked(w)) /\ ~Using /\ Nested
  BY HereFit, CalmLent
<1> QED
  BY <1>1, StaysLent

\* A handler that does nothing to it and goes on with AdvanceQueue.
LEMMA CalmAdvances ==
  ASSUME Calmly, NEW w, Good(w), Calm(Here, w), Becomes(w), Advancing, UNCHANGED bypassed
  PROVE  LInv'
<1>1. Lent(w) /\ (bypassed \/ Locked(w))
  BY HereFit, CalmLent
<1> QED
  BY <1>1, AdvancingLent

\* A reply is taken.
LEMMA TakenShape ==
  ASSUME IInv, NEW e \in Engines, en[e].notes # <<>>, NEW w, w = Taken(e)
  PROVE  /\ Good(w) /\ w.q = q /\ w.data = data /\ w.br = br
         /\ w.en[e].cmd = en[e].cmd /\ \A f \in Engines \ {e} : w.en[f] = en[f]
<1>1. /\ Good(Here) /\ Here \in State /\ Here.q = q /\ Here.data = data /\ Here.br = br /\ Here.en = en
      /\ en \in [Engines -> Engine]
  <2>1. /\ Good(Here) /\ Here \in State /\ Here.q = q /\ Here.data = data /\ Here.br = br /\ Here.en = en
    BY HereGood
  <2>2. Here.en \in [Engines -> Engine]
    BY <2>1 DEF State
  <2> QED
    BY <2>1, <2>2
<1>2. Good(w)
  <2>1. Good([Here EXCEPT !.en[e].notes = Tail(@)])
    BY <1>1, NotesGood, Zenon
  <2> QED
    BY <2>1, Zenon DEF Taken
<1>3. PICK z : z = [en[e] EXCEPT !.notes = Tail(@)]
  OBVIOUS
<1>4. z.cmd = en[e].cmd
  BY <1>1, <1>3 DEF Engine
<1>5. PICK n : n = [en EXCEPT ![e] = z]
  OBVIOUS
<1>6. n[e].cmd = en[e].cmd /\ \A f \in Engines \ {e} : n[f] = en[f]
  BY <1>1, <1>4, <1>5
<1>7. w = [Here EXCEPT !.en = n]
  <2>1. w = [Here EXCEPT !.en[e].notes = Tail(@)]
    BY Zenon DEF Taken
  <2>2. [Here EXCEPT !.en[e].notes = Tail(@)] = [Here EXCEPT !.en = [Here.en EXCEPT ![e] = [Here.en[e] EXCEPT !.notes = Tail(@)]]]
    BY <1>1 DEF State
  <2> QED
    BY <1>1, <1>3, <1>5, <2>1, <2>2, Zenon
<1>8. w.en = n /\ w.q = q /\ w.data = data /\ w.br = br
  BY <1>1, <1>7 DEF State
<1> QED
  BY <1>2, <1>6, <1>8

\* An engine's event.
LEMMA OnEngineEventLent ==
  ASSUME IInv, LInv, NEW e \in Engines, OnEngineEvent(e)
  PROVE  LInv'
<1>1. /\ e # Primary /\ en[e].notes # <<>> /\ ProcessReply(Taken(e), e, Head(en[e].notes))
      /\ main.pc # "send" /\ UNCHANGED bypassed
  BY DEF OnEngineEvent, Idle
<1>2. Calmly /\ Here.q = q /\ Here.data = data /\ Here.br = br /\ Here.en = en
  BY <1>1, HereGood DEF Calmly
<1>3. PICK w : w = Taken(e)
  OBVIOUS
<1>4. /\ Good(w) /\ w.q = q /\ w.data = data /\ w.br = br
      /\ \A f \in Engines \ {e} : w.en[f] = en[f]
  BY <1>1, <1>3, TakenShape
<1>5. w.en[Primary] = en[Primary]
  BY <1>1, <1>4 DEF Engines
<1>6. Calm(Here, w)
  BY <1>2, <1>4, <1>5 DEF Calm
<1>7. Fit(w, e) /\ (bypassed \/ Locked(w))
  BY <1>2, <1>4, <1>6, HereFit, FitCalm, CalmLent
<1>8. Nested
  BY DEF LInv
<1>9. ProcessReply(w, e, Head(en[e].notes))
  BY <1>1, <1>3, Zenon
<1> QED
  BY <1>1, <1>7, <1>8, <1>9, ProcessReplyLent

\* The browsing connection changes, but not in what the queue relies on.
LEMMA BrowsingCalm ==
  ASSUME NEW u, Good(u), NEW b \in Browsing, NEW w, w = [u EXCEPT !.br = b],
         b.lock = u.br.lock, b.request = u.br.request, b.cmds = u.br.cmds
  PROVE  Good(w) /\ Calm(u, w) /\ w.data = u.data /\ w.q = u.q /\ w.en = u.en /\ w.br = b
<1>1. w \in State /\ Beside(u, w) /\ w.en = u.en /\ w.br = b
  BY BrowsingShape DEF Good
<1>2. Good(w)
  BY <1>1, BesideGood
<1>3. w.q = u.q /\ w.data = u.data
  BY <1>1 DEF Beside
<1>4. Calm(u, w)
  BY <1>1, <1>3 DEF Calm
<1> QED
  BY <1>1, <1>2, <1>3, <1>4

\* An event of the browsing connection's engine.
LEMMA OnPrimaryEventLent ==
  ASSUME IInv, LInv, OnPrimaryEvent
  PROVE  LInv'
<1>1. /\ en[Primary].notes # <<>> /\ main.pc # "send" /\ UNCHANGED bypassed /\ Primary \in Engines
  BY DEF OnPrimaryEvent, Idle, Engines
<1>2. Calmly /\ Here.q = q /\ Here.data = data /\ Here.br = br /\ Here.en = en /\ br \in Browsing
  <2>1. Here \in State /\ Here.br = br
    BY HereGood
  <2>2. br \in Browsing
    BY <2>1 DEF State
  <2> QED
    BY <1>1, <2>2, HereGood DEF Calmly
<1>3. PICK w : w = Taken(Primary)
  OBVIOUS
<1>4. Good(w) /\ w.q = q /\ w.data = data /\ w.br = br /\ w.en[Primary].cmd = en[Primary].cmd
  BY <1>1, <1>3, TakenShape
<1>5. /\ Lendable(w) /\ (w.br.request => Primary \in Range(w.q.list)) /\ (InUse(w) <=> InUse(Here))
      /\ Locked(Here) => Locked(w)
  <2>1. Lent(Here)
    BY DEF LInv
  <2> QED
    BY <1>2, <1>4, <2>1 DEF Lent, Lendable, InUse, Locked
<1>6. PICK b : b = [br EXCEPT !.cmds = br.cmds - 1]
  OBVIOUS
<1>7. b \in Browsing /\ b.lock = br.lock /\ b.request = br.request
  BY <1>2, <1>6 DEF Browsing
<1>8. PICK c : c = [w EXCEPT !.br = b]
  OBVIOUS
<1>9. /\ c \in State /\ Good(c) /\ c.q = w.q /\ c.data = w.data /\ c.en = w.en /\ c.br = b
  <2>1. w \in State
    BY <1>4 DEF Good
  <2>2. c \in State /\ Beside(w, c) /\ c.en = w.en /\ c.br = b
    BY <1>7, <1>8, <2>1, BrowsingShape
  <2> QED
    BY <1>4, <2>2, BesideGood DEF Beside
<1>10. PICK p : p = ProcessNextCommand(c)
  OBVIOUS
<1>11. Good(p) /\ Lent(p) /\ (InUse(p) <=> InUse(w)) /\ (Locked(w) => Locked(p))
  <2>1. Lendable(c) /\ (Locked(w) => Locked(c))
    BY <1>4, <1>5, <1>7, <1>9 DEF Lendable, Locked
  <2>2. Good(p)
    <3>1. Good(ProcessNextCommand(c))
      BY <1>9, ProcessNextBeside, BesideGood
    <3> QED
      BY <1>10, <3>1, Zenon
  <2>3. /\ Lendable(p) /\ Served(p) /\ (Locked(c) => Locked(p)) /\ p.q = c.q /\ p.data = c.data
        /\ p.br.request = c.br.request
    BY <1>9, <1>10, <2>1, ProcessNextLent
  <2> QED
    BY <1>4, <1>5, <1>7, <1>9, <2>1, <2>2, <2>3 DEF Lent, InUse
<1>12. \/ br.lock /\ data[Primary].active /\ ProcessReply(w, Primary, Head(en[Primary].notes))
       \/ (br.lock \/ br.cmds = 0) /\ Becomes(w) /\ UNCHANGED main
       \/ Becomes(p) /\ UNCHANGED main
  <2> DEFINE C(x) == [x EXCEPT !.br.cmds = @ - 1]
             R(x) == \/ br.lock /\ data[Primary].active /\ ProcessReply(x, Primary, Head(en[Primary].notes))
                     \/ (br.lock \/ br.cmds = 0) /\ Becomes(x) /\ UNCHANGED main
                     \/ (Becomes(ProcessNextCommand(C(x))) /\ UNCHANGED main)
  <2>1. R(Taken(Primary))
    BY Zenon DEF OnPrimaryEvent
  <2>2. R(w)
    <3> HIDE DEF R
    <3> QED
      BY <1>3, <2>1, Zenon
  <2>3. c = C(w)
    <3>1. w \in State
      BY <1>4 DEF Good
    <3>2. C(w) = [w EXCEPT !.br = [w.br EXCEPT !.cmds = w.br.cmds - 1]]
      BY <3>1 DEF State
    <3> HIDE DEF C
    <3> QED
      BY <1>4, <1>6, <1>8, <3>2, Zenon
  <2>4. p = ProcessNextCommand(C(w))
    <3> HIDE DEF C
    <3> QED
      BY <1>10, <2>3, Zenon
  <2> HIDE DEF C
  <2> QED
    BY <2>2, <2>4, Zenon
<1>13. /\ main.inside \/ InUse(w)
       /\ bypassed \/ Locked(w)
       /\ ~Using /\ Nested /\ main \in Main
  BY <1>2, <1>5, HereFit, HereGood DEF Calmly
<1>14. ASSUME br.lock \/ br.cmds = 0
       PROVE  Lent(w)
  BY <1>4, <1>5, <1>14 DEF Lent, Served
<1>15. CASE br.lock /\ data[Primary].active /\ ProcessReply(w, Primary, Head(en[Primary].notes))
  <2>1. Fit(w, Primary)
    BY <1>4, <1>13, <1>14, <1>15 DEF Fit
  <2> QED
    BY <1>1, <1>4, <1>13, <1>15, <2>1, ProcessReplyLent
<1>16. CASE (br.lock \/ br.cmds = 0) /\ Becomes(w) /\ UNCHANGED main
  BY <1>1, <1>4, <1>13, <1>14, <1>16, StaysLent
<1>17. CASE Becomes(p) /\ UNCHANGED main
  BY <1>1, <1>11, <1>13, <1>17, StaysLent
<1> QED
  BY <1>12, <1>15, <1>16, <1>17

\* The engine that was asked for is granted.
LEMMA OnExclusiveEngineRequestGrantedLent ==
  ASSUME IInv, LInv, OnExclusiveEngineRequestGranted
  PROVE  LInv'
<1>1. /\ Good(Here) /\ Here \in State /\ Here.data = data /\ Here.q = q /\ Primary \in Engines
      /\ Calmly /\ UNCHANGED bypassed
  <2>1. main.pc # "send" /\ UNCHANGED bypassed
    BY DEF OnExclusiveEngineRequestGranted, Idle
  <2> QED
    BY <2>1, HereGood DEF Engines, Calmly
<1>2. PICK w : w = [Here EXCEPT !.br.grants = @ - 1]
  OBVIOUS
<1>3. Good(w) /\ Calm(Here, w) /\ w.data = data /\ w.q = q
  <2>1. PICK z \in Browsing : z = Here.br
    BY <1>1 DEF State
  <2>2. PICK b : b = [z EXCEPT !.grants = z.grants - 1]
    OBVIOUS
  <2>3. b \in Browsing /\ b.lock = z.lock /\ b.request = z.request /\ b.cmds = z.cmds
    BY <2>2 DEF Browsing
  <2>4. w = [Here EXCEPT !.br = b]
    <3>1. [Here EXCEPT !.br.grants = @ - 1] = [Here EXCEPT !.br = [Here.br EXCEPT !.grants = Here.br.grants - 1]]
      BY <1>1 DEF State
    <3> QED
      BY <1>2, <2>1, <2>2, <3>1, Zenon
  <2>5. Good(w) /\ Calm(Here, w) /\ w.data = Here.data /\ w.q = Here.q
    BY <1>1, <2>1, <2>3, <2>4, BrowsingCalm
  <2> QED
    BY <1>1, <2>5, Zenon
<1>4. PICK y : y = [w EXCEPT !.data[Primary].state = Work(data[Primary].item)]
  OBVIOUS
<1>5. PICK v : v = ReleaseEngine(w)
  OBVIOUS
<1>6. \/ Becomes(w) /\ UNCHANGED main
      \/ ~data[Primary].active /\ Becomes(v) /\ UNCHANGED main
      \/ data[Primary].active /\ (ResetAndAdvance(w, Primary, "retry") \/ (Becomes(y) /\ Sending(Primary)))
  <2> DEFINE Y(x) == [x EXCEPT !.data[Primary].state = Work(data[Primary].item)]
             R(x) == \/ Becomes(x) /\ UNCHANGED main
                     \/ ~data[Primary].active /\ Becomes(ReleaseEngine(x)) /\ UNCHANGED main
                     \/ /\ data[Primary].active
                        /\ ResetAndAdvance(x, Primary, "retry") \/ (Becomes(Y(x)) /\ Sending(Primary))
  <2>1. R([Here EXCEPT !.br.grants = @ - 1])
    BY DEF OnExclusiveEngineRequestGranted
  <2>2. R(w)
    <3> HIDE DEF R
    <3> QED
      BY <1>2, <2>1, Zenon
  <2>3. y = Y(w)
    BY <1>4, Zenon
  <2> HIDE DEF Y
  <2> QED
    BY <1>5, <2>2, <2>3, Zenon
<1>7. Fit(w, Primary) /\ Lent(w) /\ (main.inside \/ InUse(w)) /\ ~Using /\ Nested
  BY <1>1, <1>3, HereFit, FitCalm, CalmLent
<1>8. CASE Becomes(w) /\ UNCHANGED main
  BY <1>1, <1>3, <1>8, CalmStays
<1>9. CASE ~data[Primary].active /\ Becomes(v) /\ UNCHANGED main
  <2>1. w \in State /\ Lendable(w) /\ Served(w)
    BY <1>3, <1>7 DEF Good, Lent
  <2>2. Lent(v) /\ v.q = w.q /\ v.data = w.data
    BY <1>5, <2>1, ReleaseLent
  <2>3. Good(v)
    BY <1>3, <1>5, <2>1, ReleaseBeside, BesideGood
  <2>4. (main.inside \/ InUse(v)) /\ Locked(v)
    BY <1>3, <1>7, <1>9, <2>2 DEF InUse, Locked
  <2> QED
    BY <1>1, <1>7, <1>9, <2>2, <2>3, <2>4, StaysLent
<1>10. CASE data[Primary].active /\ ResetAndAdvance(w, Primary, "retry")
  <2>1. "retry" \in Reasons
    BY DEF Reasons
  <2> QED
    BY <1>1, <1>7, <1>10, <2>1, ResetAndAdvanceLent
<1>11. CASE data[Primary].active /\ Becomes(y) /\ Sending(Primary)
  <2>1. PICK s \in States \ {"waitprimary"} : s = Work(data[Primary].item)
    BY DEF Work, States
  <2>2. InState(y, w, Primary, s)
    BY <1>4, <2>1, Zenon DEF InState
  <2>3. /\ Good(y) /\ Lent(y) /\ (InUse(y) <=> InUse(w))
        /\ y.data[Primary].active = w.data[Primary].active
    BY <1>1, <1>3, <1>7, <2>2, StateLent
  <2>4. Fit(y, Primary) /\ y.data[Primary].active
    BY <1>3, <1>7, <1>11, <2>3 DEF Fit
  <2> QED
    BY <1>1, <1>11, <2>4, SendingLent
<1> QED
  BY <1>6, <1>8, <1>9, <1>10, <1>11

\* An engine's password is to be asked for.
LEMMA OnAskPasswordLent ==
  ASSUME IInv, LInv, OnAskPassword
  PROVE  LInv'
<1>1. /\ Good(Here) /\ Here \in State /\ Here.q = q /\ Here.data = data /\ Calmly /\ UNCHANGED bypassed
  <2>1. main.pc # "send" /\ UNCHANGED bypassed
    BY DEF OnAskPassword, Idle
  <2> QED
    BY <2>1, HereGood DEF Calmly
<1>2. q.waiting # <<>> /\ ~q.asking /\ q.waiting \in Seq(Engines)
  <2>1. q.waiting \in Seq(Engines)
    BY <1>1 DEF State, QueueState
  <2> QED
    BY <2>1 DEF OnAskPassword
<1>3. PICK e \in Engines : e = Head(q.waiting)
  BY <1>2
<1>4. PICK l \in Seq(Engines) : l = Tail(q.waiting)
  <2>1. Tail(q.waiting) \in Seq(Engines)
    BY <1>2
  <2> QED
    BY <2>1
<1>5. PICK w : w = [Here EXCEPT !.q.waiting = l]
  OBVIOUS
<1>6. Good(w) /\ Calm(Here, w)
  <2>1. ~Here.q.asking
    BY <1>1, <1>2, Zenon
  <2>2. Good(w)
    BY <1>1, <1>5, <2>1, WaitingGood, Zenon
  <2>3. PICK p : p = [Here.q EXCEPT !.waiting = l]
    OBVIOUS
  <2>4. p.list = Here.q.list
    BY <1>1, <2>3 DEF State, QueueState
  <2>5. w = [Here EXCEPT !.q = p]
    BY <1>1, <1>5, <2>3 DEF State
  <2> QED
    BY <1>1, <2>2, <2>4, <2>5, MembersCalm
<1>7. PICK a : a = [Here EXCEPT !.q.asking = TRUE]
  OBVIOUS
<1>8. Good(a) /\ Calm(Here, a)
  <2>1. Here.q.waiting # <<>> /\ TRUE \in BOOLEAN
    BY <1>1, <1>2, Zenon
  <2>2. Good(a)
    BY <1>1, <1>7, <2>1, AskingGood, Zenon
  <2>3. PICK p : p = [Here.q EXCEPT !.asking = TRUE]
    OBVIOUS
  <2>4. p.list = Here.q.list
    BY <1>1, <2>3 DEF State, QueueState
  <2>5. a = [Here EXCEPT !.q = p]
    BY <1>1, <1>7, <2>3 DEF State
  <2> QED
    BY <1>1, <2>2, <2>4, <2>5, MembersCalm
<1>9. PICK d : d = Deactivate(w)
  OBVIOUS
<1>10. Fit(d, e)
  <2>1. Fit(w, e) /\ (bypassed \/ Locked(w))
    BY <1>1, <1>6, HereFit, FitCalm, CalmLent
  <2>2. Good(d)
    BY <1>6, <1>9, DeactivateGood
  <2>3. Lent(d) /\ (InUse(w) => InUse(d)) /\ (Locked(w) => Locked(d))
    BY <1>6, <1>9, <2>1, DeactivateLent DEF Fit
  <2> QED
    BY <2>1, <2>2, <2>3 DEF Fit
<1>11. \/ Becomes(w) /\ UNCHANGED main
       \/ ResetAndAdvance(d, e, "reset")
       \/ Becomes(a) /\ UNCHANGED main
  <2> DEFINE W == [Here EXCEPT !.q.waiting = Tail(@)]
             A == [Here EXCEPT !.q.asking = TRUE]
             R(x, y, f) == \/ Becomes(x) /\ UNCHANGED main
                           \/ ResetAndAdvance(Deactivate(x), f, "reset")
                           \/ Becomes(y) /\ UNCHANGED main
  <2>1. R(W, A, Head(q.waiting))
    BY Zenon DEF OnAskPassword
  <2>2. W = w
    BY <1>1, <1>4, <1>5, Zenon
  <2>3. A = a
    BY <1>7, Zenon
  <2> HIDE DEF W, A, R
  <2>4. R(w, a, e)
    BY <1>3, <2>1, <2>2, <2>3, Zenon
  <2> QED
    BY <1>9, <2>4, Zenon DEF R
<1>12. "reset" \in Reasons
  BY DEF Reasons
<1> QED
  BY <1>1, <1>6, <1>8, <1>10, <1>11, <1>12, CalmStays, ResetAndAdvanceLent

\* The password has been entered, or the dialog has been closed.
LEMMA PasswordEnteredLent ==
  ASSUME IInv, LInv, PasswordEntered
  PROVE  LInv'
<1>1. /\ Good(Here) /\ Here \in State /\ Here.q = q /\ Here.data = data /\ Calmly /\ UNCHANGED bypassed
  <2>1. main.pc # "send" /\ UNCHANGED bypassed
    BY DEF PasswordEntered, Idle
  <2> QED
    BY <2>1, HereGood DEF Calmly
<1>2. q.asking /\ q.waiting # <<>> /\ q.waiting \in Seq(Engines)
  <2>1. q.waiting \in Seq(Engines)
    BY <1>1 DEF State, QueueState
  <2>2. Asks(Here)
    BY <1>1 DEF Good
  <2>3. q.asking
    BY DEF PasswordEntered
  <2> QED
    BY <1>1, <2>1, <2>2, <2>3, Zenon DEF Asks
<1>3. PICK e \in Engines : e = Head(q.waiting)
  BY <1>2
<1>4. PICK l \in Seq(Engines) : l = Tail(q.waiting)
  <2>1. Tail(q.waiting) \in Seq(Engines)
    BY <1>2
  <2> QED
    BY <2>1
<1>5. PICK a : a = [Here EXCEPT !.q.asking = FALSE]
  OBVIOUS
<1>6. Good(a) /\ a \in State /\ ~a.q.asking /\ Calm(Here, a) /\ a.data = Here.data
  <2>1. FALSE \in BOOLEAN
    OBVIOUS
  <2>2. Good(a)
    BY <1>1, <1>5, <2>1, AskingGood, Zenon
  <2>3. PICK p : p = [Here.q EXCEPT !.asking = FALSE]
    OBVIOUS
  <2>4. p.list = Here.q.list /\ ~p.asking
    BY <1>1, <2>3 DEF State, QueueState
  <2>5. a = [Here EXCEPT !.q = p]
    BY <1>1, <1>5, <2>3 DEF State
  <2>6. Calm(Here, a) /\ a.data = Here.data /\ a.q = p
    BY <1>1, <2>4, <2>5, MembersCalm
  <2> QED
    BY <2>2, <2>4, <2>6 DEF Good
<1>7. PICK w : w = [a EXCEPT !.q.waiting = l]
  OBVIOUS
<1>8. Good(w) /\ Calm(Here, w) /\ w.data = data
  <2>1. Good(w)
    BY <1>6, <1>7, WaitingGood, Zenon
  <2>2. PICK p : p = [a.q EXCEPT !.waiting = l]
    OBVIOUS
  <2>3. p.list = a.q.list
    BY <1>6, <2>2 DEF State, QueueState
  <2>4. w = [a EXCEPT !.q = p]
    BY <1>6, <1>7, <2>2 DEF State
  <2>5. Calm(a, w) /\ w.data = a.data
    BY <1>6, <2>3, <2>4, MembersCalm
  <2> QED
    BY <1>1, <1>6, <2>1, <2>5, CalmTwice
<1>9. PICK k : k = w.q.known \cup {data[e].site}
  OBVIOUS
<1>10. k \in SUBSET (Servers \cup {None})
  <2>1. w.q.known \in SUBSET (Servers \cup {None})
    BY <1>8 DEF Good, State, QueueState
  <2>2. data[e].site \in Servers \cup {None}
    BY <1>1 DEF State, EngineData
  <2> QED
    BY <1>9, <2>1, <2>2
<1>11. PICK x : x = [w EXCEPT !.q.known = k]
  OBVIOUS
<1>12. Good(x) /\ Calm(Here, x) /\ x.data = data
  <2>1. Good(x) /\ Calm(w, x) /\ x.data = w.data
    BY <1>8, <1>10, <1>11, KnownCalm
  <2> QED
    BY <1>8, <2>1, CalmTwice
<1>13. PICK y : y = [x EXCEPT !.data[e].state = "connect"]
  OBVIOUS
<1>14. Fit(y, e) /\ (data[e].item # None => y.data[e].active)
  <2>1. PICK s \in States \ {"waitprimary"} : s = "connect"
    BY DEF States
  <2>2. InState(y, x, e, s)
    BY <1>13, <2>1, Zenon DEF InState
  <2>3. Fit(x, e)
    BY <1>1, <1>12, HereFit, FitCalm
  <2>4. /\ Good(y) /\ Lent(y) /\ (InUse(y) <=> InUse(x)) /\ (e # Primary /\ Locked(x) => Locked(y))
        /\ y.data[e].active = x.data[e].active
    BY <2>2, <2>3, StateLent DEF Fit
  <2>5. Fit(y, e)
    BY <2>3, <2>4 DEF Fit
  <2>6. data[e].item # None => data[e].active
    BY <1>1 DEF Good, Assigned
  <2> QED
    BY <1>12, <2>4, <2>5, <2>6
<1>15. PICK d : d = Deactivate(w)
  OBVIOUS
<1>16. Fit(d, e)
  <2>1. Fit(w, e) /\ (bypassed \/ Locked(w))
    BY <1>1, <1>8, HereFit, FitCalm, CalmLent
  <2>2. Good(d)
    BY <1>8, <1>15, DeactivateGood
  <2>3. Lent(d) /\ (InUse(w) => InUse(d)) /\ (Locked(w) => Locked(d))
    BY <1>8, <1>15, <2>1, DeactivateLent DEF Fit
  <2> QED
    BY <2>1, <2>2, <2>3 DEF Fit
<1>17. (data[e].item # None /\ Becomes(y) /\ Sending(e)) \/ ResetAndAdvance(d, e, "reset")
  <2> DEFINE W == [Here EXCEPT !.q.waiting = Tail(@), !.q.asking = FALSE]
             Y(v, f) == [v EXCEPT !.q.known = @ \cup {data[f].site}, !.data[f].state = "connect"]
             R(v, f) == \/ data[f].item # None /\ Becomes(Y(v, f)) /\ Sending(f)
                        \/ ResetAndAdvance(Deactivate(v), f, "reset")
  <2>1. R(W, Head(q.waiting))
    BY Zenon DEF PasswordEntered
  <2>2. W = w
    <3>1. W = [Here EXCEPT !.q.waiting = l, !.q.asking = FALSE]
      BY <1>1, <1>4, Zenon
    <3>2. [Here EXCEPT !.q.waiting = l, !.q.asking = FALSE] = [[Here EXCEPT !.q.asking = FALSE] EXCEPT !.q.waiting = l]
      BY <1>1 DEF State, QueueState
    <3> QED
      BY <1>5, <1>7, <3>1, <3>2, Zenon
  <2>3. R(w, e)
    <3> HIDE DEF R, W
    <3> QED
      BY <1>3, <2>1, <2>2, Zenon
  <2>4. Y(w, e) = y
    <3>1. Y(w, e) = [w EXCEPT !.q.known = k, !.data[e].state = "connect"]
      BY <1>9, Zenon
    <3>2. w \in State
      BY <1>8 DEF Good
    <3>3. [w EXCEPT !.q.known = k, !.data[e].state = "connect"] = [[w EXCEPT !.q.known = k] EXCEPT !.data[e].state = "connect"]
      BY <3>2 DEF State
    <3> QED
      BY <1>11, <1>13, <3>1, <3>3, Zenon
  <2> HIDE DEF Y
  <2> QED
    BY <1>15, <2>3, <2>4, Zenon
<1>18. "reset" \in Reasons
  BY DEF Reasons
<1> QED
  BY <1>1, <1>14, <1>16, <1>17, <1>18, SendingLent, ResetAndAdvanceLent

\* An idle engine is disconnected.
LEMMA OnTimerLent ==
  ASSUME IInv, LInv, NEW e \in Engines, OnTimer(e)
  PROVE  LInv'
<1>1. Good(Here) /\ Here \in State /\ Here.data \in [Engines -> EngineData] /\ Calmly /\ UNCHANGED bypassed
  <2>1. main.pc # "send" /\ UNCHANGED bypassed
    BY DEF OnTimer, Idle
  <2> QED
    BY <2>1, HereGood DEF Calmly, State
<1>2. PICK w : w = [Here EXCEPT !.data[e].timer = FALSE]
  OBVIOUS
<1>3. Good(w) /\ w \in State /\ Calm(Here, w)
  <2>1. PICK d : d = [Here.data EXCEPT ![e].timer = FALSE]
    OBVIOUS
  <2>2. /\ d \in [Engines -> EngineData]
        /\ \A f \in Engines : /\ d[f].active = Here.data[f].active /\ d[f].item = Here.data[f].item
                              /\ d[f].state = Here.data[f].state
    BY <1>1, <2>1, ZenonT(60) DEF EngineData
  <2>3. w = [Here EXCEPT !.data = d]
    BY <1>1, <1>2, <2>1 DEF State
  <2>4. Good([Here EXCEPT !.data = d])
    BY <1>1, <2>2, DataGood
  <2>5. Good(w)
    BY <2>3, <2>4, Zenon
  <2>6. w.q = Here.q /\ w.br = Here.br /\ w.en = Here.en /\ w.data = d
    BY <1>1, <2>3 DEF State
  <2>7. Calm(Here, w)
    BY <2>2, <2>6 DEF Calm, Others, Engines
  <2> QED
    BY <2>5, <2>7 DEF Good
<1>4. PICK x : x = Execute(w, e, "disconnect")
  OBVIOUS
<1>5. "disconnect" \in Commands \ {"none", "browse"}
  BY DEF Commands
<1>6. Good(x)
  BY <1>3, <1>4, <1>5, ExecuteBeside, BesideGood
<1>7. (Becomes(x) \/ Becomes(w)) /\ UNCHANGED main
  <2> DEFINE R(y) == (Becomes(Execute(y, e, "disconnect")) \/ Becomes(y)) /\ UNCHANGED main
  <2>1. R([Here EXCEPT !.data[e].timer = FALSE])
    BY Zenon DEF OnTimer
  <2> HIDE DEF R
  <2>2. R(w)
    BY <1>2, <2>1, Zenon
  <2> QED
    BY <1>4, <2>2, Zenon DEF R
<1>8. Lent(w) /\ (main.inside \/ InUse(w)) /\ (bypassed \/ Locked(w)) /\ ~Using /\ Nested
  BY <1>1, <1>3, HereFit, CalmLent
<1>9. Lent(x) /\ (main.inside \/ InUse(x)) /\ (bypassed \/ Locked(x))
  BY <1>3, <1>4, <1>5, <1>8, ExecuteLent
<1>10. CASE Becomes(x) /\ UNCHANGED main
  BY <1>1, <1>6, <1>8, <1>9, <1>10, StaysLent
<1>11. CASE Becomes(w) /\ UNCHANGED main
  BY <1>1, <1>3, <1>11, CalmStays
<1> QED
  BY <1>7, <1>10, <1>11

-----------------------------------------------------------------------------
(* The user.                                                                *)

\* The queue is started.
LEMMA StartLent ==
  ASSUME IInv, LInv, Start
  PROVE  LInv'
<1>1. Good(Here) /\ Calmly /\ UNCHANGED bypassed
  <2>1. main.pc # "send" /\ UNCHANGED bypassed
    BY DEF Start, Acts, Idle
  <2> QED
    BY <2>1, HereGood DEF Calmly
<1>2. 2 \in 0..2
  OBVIOUS
<1>3. PICK w : w = [Here EXCEPT !.q.mode = 2]
  OBVIOUS
<1>4. Good(w) /\ Calm(Here, w)
  BY <1>1, <1>2, <1>3, ModeGood, ModeCalm, Zenon
<1>5. Becomes(w) /\ Advancing
  BY <1>3, Zenon DEF Start
<1> QED
  BY <1>1, <1>4, <1>5, CalmAdvances

\* It is stopped.
LEMMA StopLent ==
  ASSUME IInv, LInv, Stop
  PROVE  LInv'
<1>1. Good(Here) /\ Calmly /\ UNCHANGED <<main, bypassed>>
  <2>1. main.pc # "send" /\ UNCHANGED <<main, bypassed>>
    BY DEF Stop, Acts, Idle
  <2> QED
    BY <2>1, HereGood DEF Calmly
<1>2. PICK d : d = Deactivate(Here)
  OBVIOUS
<1>3. Becomes(d)
  BY <1>2, Zenon DEF Stop
<1>4. Good(d)
  BY <1>1, <1>2, DeactivateGood
<1>5. Lent(Here) /\ (main.inside \/ InUse(Here)) /\ (bypassed \/ Locked(Here)) /\ ~Using /\ Nested
  BY <1>1, HereFit
<1>6. Lent(d) /\ (main.inside \/ InUse(d)) /\ (bypassed \/ Locked(d))
  BY <1>1, <1>2, <1>5, DeactivateLent
<1> QED
  BY <1>1, <1>3, <1>4, <1>5, <1>6, StaysLent

\* Only an item is different.
LEMMA ItemCalm ==
  ASSUME NEW w \in State, NEW i, NEW x, NEW v, v = [w EXCEPT !.it[i] = x]
  PROVE  Calm(w, v)
<1>1. PICK t : t = [w.it EXCEPT ![i] = x]
  OBVIOUS
<1>2. v = [w EXCEPT !.it = t]
  BY <1>1 DEF State
<1> QED
  BY <1>2, ItemsCalm

\* An item is added.
LEMMA QueueFileLent ==
  ASSUME IInv, LInv, NEW i \in Items, NEW start \in BOOLEAN, QueueFile(i, start)
  PROVE  LInv'
<1>1. Good(Here) /\ Here \in State /\ Here.q = q /\ Here.it = it /\ Calmly /\ UNCHANGED bypassed
  <2>1. main.pc # "send" /\ UNCHANGED bypassed
    BY DEF QueueFile, Acts, Idle
  <2> QED
    BY <2>1, HereGood DEF Calmly
<1>2. ~it[i].active /\ it[i] \in Item
  <2>1. it[i].where = "gone"
    BY DEF QueueFile
  <2> QED
    BY <2>1, NotQueued
<1>3. PICK x : x = NewItem(it[i], ~start, 0)
  OBVIOUS
<1>4. x \in Item /\ ~x.active /\ x.kind = it[i].kind /\ x.server = it[i].server
  BY <1>2, <1>3 DEF NewItem, Item
<1>5. PICK u : u = [Here EXCEPT !.it[i] = x]
  OBVIOUS
<1>6. Good(u) /\ Calm(Here, u)
  <2>1. ~Here.it[i].active /\ x.kind = Here.it[i].kind /\ x.server = Here.it[i].server
    BY <1>1, <1>2, <1>4, Zenon
  <2>2. Good(u)
    BY <1>1, <1>4, <1>5, <2>1, ItemGood, Zenon
  <2> QED
    BY <1>1, <1>5, <2>2, ItemCalm
<1>7. PICK m : m = IF q.mode = 0 /\ start THEN 1 ELSE q.mode
  OBVIOUS
<1>8. m \in 0..2
  <2>1. q.mode \in 0..2
    BY <1>1 DEF State, QueueState
  <2> QED
    BY <1>7, <2>1
<1>9. PICK w : w = [u EXCEPT !.q.mode = m]
  OBVIOUS
<1>10. Good(w) /\ Calm(Here, w)
  <2>1. Good(w) /\ Calm(u, w)
    BY <1>6, <1>8, <1>9, ModeGood, ModeCalm, Zenon
  <2> QED
    BY <1>6, <2>1, CalmTwice
<1>11. Becomes(w) /\ (Advancing \/ UNCHANGED main)
  <2> DEFINE W == [Here EXCEPT !.it[i] = NewItem(@, ~start, 0), !.q.mode = IF @ = 0 /\ start THEN 1 ELSE @]
             R(y) == Becomes(y) /\ (Advancing \/ UNCHANGED main)
  <2>1. R(W)
    BY Zenon DEF QueueFile
  <2>2. W = [Here EXCEPT !.it[i] = x, !.q.mode = m]
    BY <1>1, <1>3, <1>7, Zenon
  <2>3. [Here EXCEPT !.it[i] = x, !.q.mode = m] = [[Here EXCEPT !.it[i] = x] EXCEPT !.q.mode = m]
    BY <1>1 DEF State
  <2>4. W = w
    BY <1>5, <1>9, <2>2, <2>3, Zenon
  <2> HIDE DEF W, R
  <2>5. R(w)
    BY <2>1, <2>4, Zenon
  <2> QED
    BY <2>5, Zenon DEF R
<1> QED
  BY <1>1, <1>10, <1>11, CalmAdvances, CalmStays

\* An item that has failed or succeeded returns to the queue.
LEMMA RequeueFileLent ==
  ASSUME IInv, LInv, NEW i \in Items, RequeueFile(i)
  PROVE  LInv'
<1>1. Good(Here) /\ Here \in State /\ Here.it = it /\ Calmly /\ UNCHANGED bypassed
  <2>1. main.pc # "send" /\ UNCHANGED bypassed
    BY DEF RequeueFile, Acts, Idle
  <2> QED
    BY <2>1, HereGood DEF Calmly
<1>2. ~it[i].active /\ it[i] \in Item
  <2>1. it[i].where # "queue"
    BY DEF RequeueFile
  <2> QED
    BY <2>1, NotQueued
<1>3. PICK x : x = [it[i] EXCEPT !.where = "queue", !.errors = 0, !.done = FALSE]
  OBVIOUS
<1>4. x \in Item /\ ~x.active /\ x.kind = it[i].kind /\ x.server = it[i].server
  BY <1>2, <1>3 DEF Item
<1>5. PICK u : u = [Here EXCEPT !.it[i] = x]
  OBVIOUS
<1>6. Good(u) /\ Calm(Here, u)
  <2>1. ~Here.it[i].active /\ x.kind = Here.it[i].kind /\ x.server = Here.it[i].server
    BY <1>1, <1>2, <1>4, Zenon
  <2>2. Good(u)
    BY <1>1, <1>4, <1>5, <2>1, ItemGood, Zenon
  <2> QED
    BY <1>1, <1>5, <2>2, ItemCalm
<1>7. Becomes(u) /\ (Advancing \/ UNCHANGED main)
  <2> DEFINE W == [Here EXCEPT !.it[i].where = "queue", !.it[i].errors = 0, !.it[i].done = FALSE]
             R(y) == Becomes(y) /\ (Advancing \/ UNCHANGED main)
  <2>1. R(W)
    BY Zenon DEF RequeueFile
  <2>2. W = [Here EXCEPT !.it[i] = [Here.it[i] EXCEPT !.where = "queue", !.errors = 0, !.done = FALSE]]
    BY <1>1 DEF State
  <2>3. W = u
    BY <1>1, <1>3, <1>5, <2>2, Zenon
  <2> HIDE DEF W, R
  <2>4. R(u)
    BY <2>1, <2>3, Zenon
  <2> QED
    BY <2>4, Zenon DEF R
<1> QED
  BY <1>1, <1>6, <1>7, CalmAdvances, CalmStays

\* An item is removed, once its transfer has ended if it is active.
LEMMA OnRemoveSelectedLent ==
  ASSUME IInv, LInv, NEW i \in Items, OnRemoveSelected(i)
  PROVE  LInv'
<1>1. /\ Good(Here) /\ Here \in State /\ Here.it = it /\ Here.data = data
      /\ it \in [Items -> Item] /\ Calmly /\ UNCHANGED bypassed
  <2>1. main.pc # "send" /\ UNCHANGED bypassed
    BY DEF OnRemoveSelected, Acts, Idle
  <2> QED
    BY <2>1, HereGood DEF Calmly, State
<1>2. PICK e : e = CHOOSE f \in Engines : data[f].active /\ data[f].item = i
  OBVIOUS
<1>3. it[i].active => e \in Engines
  <2>1. it[i].active => \E f \in Engines : data[f].active /\ data[f].item = i
    <3>1. i # None
      BY QueueAssumption
    <3> QED
      BY <1>1, <3>1 DEF Good, Assigned
  <2> QED
    BY <1>2, <2>1
<1>4. PICK t : t = [it EXCEPT ![i] = [it[i] EXCEPT !.remove = TRUE, !.queued = TRUE]]
  OBVIOUS
<1>5. PICK w : w = [Here EXCEPT !.it = t]
  OBVIOUS
<1>6. Good(w) /\ Calm(Here, w)
  <2>1. /\ t \in [Items -> Item]
        /\ \A j \in Items : /\ t[j].active = it[j].active /\ t[j].kind = it[j].kind
                            /\ t[j].server = it[j].server /\ t[j].where = it[j].where
    <3>1. it \in [Items -> Item]
      BY <1>1
    <3>2. PICK z \in Item : z = it[i]
      BY <3>1
    <3>3. PICK y : y = [z EXCEPT !.remove = TRUE, !.queued = TRUE]
      OBVIOUS
    <3>4. y \in Item /\ y.active = z.active /\ y.kind = z.kind /\ y.server = z.server /\ y.where = z.where
      BY <3>3 DEF Item
    <3>5. y.active = it[i].active /\ y.kind = it[i].kind /\ y.server = it[i].server /\ y.where = it[i].where
      BY <3>2, <3>4, Zenon
    <3>6. y \in Item
      BY <3>4
    <3>7. t = [it EXCEPT ![i] = y]
      BY <1>4, <3>2, <3>3, Zenon
    <3> QED
      BY <3>1, <3>5, <3>6, <3>7
  <2>2. PICK h : h = Here
    OBVIOUS
  <2>3. \A j \in Items : /\ t[j].active = h.it[j].active /\ t[j].kind = h.it[j].kind
                         /\ t[j].server = h.it[j].server /\ t[j].where = h.it[j].where
    BY <1>1, <2>1, <2>2, Zenon
  <2>4. t \in [Items -> Item] /\ Good(h)
    BY <1>1, <2>1, <2>2, Zenon
  <2>5. Good([h EXCEPT !.it = t])
    BY <2>3, <2>4, ItemsGood
  <2>6. Good(w)
    BY <1>5, <2>2, <2>5, Zenon
  <2> QED
    BY <1>1, <1>5, <2>6, ItemsCalm
<1>7. PICK x : x = [it[i] EXCEPT !.where = "gone"]
  OBVIOUS
<1>8. PICK u : u = [Here EXCEPT !.it[i] = x]
  OBVIOUS
<1>9. ~it[i].active => Good(u) /\ Calm(Here, u)
  <2> HAVE ~it[i].active
  <2>1. x \in Item /\ ~x.active /\ x.kind = it[i].kind /\ x.server = it[i].server
    BY <1>1, <1>7 DEF Item
  <2>2. ~Here.it[i].active /\ x.kind = Here.it[i].kind /\ x.server = Here.it[i].server
    BY <1>1, <2>1, Zenon
  <2>3. Good(u)
    BY <1>1, <1>8, <2>1, <2>2, ItemGood, Zenon
  <2> QED
    BY <1>1, <1>8, <2>3, ItemCalm
<1>10. \/ ~it[i].active /\ Becomes(u) /\ UNCHANGED main
       \/ it[i].active /\ ResetAndAdvance(w, e, "remove")
       \/ it[i].active /\ Becomes(Cancel(w, e)) /\ UNCHANGED main
  <2> DEFINE W == [Here EXCEPT !.it[i].remove = TRUE, !.it[i].queued = TRUE]
             U == [Here EXCEPT !.it[i].where = "gone"]
             F == CHOOSE f \in Engines : data[f].active /\ data[f].item = i
             R(y, z, f) == \/ ~it[i].active /\ Becomes(y) /\ UNCHANGED main
                           \/ it[i].active /\ ResetAndAdvance(z, f, "remove")
                           \/ it[i].active /\ Becomes(Cancel(z, f)) /\ UNCHANGED main
  <2>1. R(U, W, F)
    BY Zenon DEF OnRemoveSelected
  <2>2. W = w
    <3>1. W = [Here EXCEPT !.it = [Here.it EXCEPT ![i] = [Here.it[i] EXCEPT !.remove = TRUE, !.queued = TRUE]]]
      BY <1>1 DEF State
    <3> QED
      BY <1>1, <1>4, <1>5, <3>1, Zenon
  <2>3. U = u
    <3>1. U = [Here EXCEPT !.it[i] = [Here.it[i] EXCEPT !.where = "gone"]]
      BY <1>1 DEF State
    <3> QED
      BY <1>1, <1>7, <1>8, <3>1, Zenon
  <2>4. F = e
    BY <1>2, Zenon
  <2> HIDE DEF W, U, F, R
  <2>5. R(u, w, e)
    BY <2>1, <2>2, <2>3, <2>4, Zenon
  <2> QED
    BY <2>5, Zenon DEF R
<1>11. CASE ~it[i].active /\ Becomes(u) /\ UNCHANGED main
  BY <1>1, <1>9, <1>11, CalmStays
<1>12. CASE it[i].active /\ ResetAndAdvance(w, e, "remove")
  <2>1. e \in Engines /\ "remove" \in Reasons
    BY <1>3, <1>12 DEF Reasons
  <2>2. Fit(w, e)
    BY <1>1, <1>6, HereFit, FitCalm
  <2> QED
    BY <1>1, <1>12, <2>1, <2>2, ResetAndAdvanceLent
<1>13. CASE it[i].active /\ Becomes(Cancel(w, e)) /\ UNCHANGED main
  <2>1. e \in Engines /\ w \in State
    BY <1>3, <1>6, <1>13 DEF Good
  <2>2. PICK c : c = Cancel(w, e)
    OBVIOUS
  <2>3. Good(Cancel(w, e)) /\ Calm(w, Cancel(w, e))
    BY <1>6, <2>1, CancelBeside, BesideGood, CancelCalm
  <2>4. Good(c) /\ Calm(Here, c)
    BY <1>6, <2>2, <2>3, CalmTwice, Zenon
  <2>5. Becomes(c)
    BY <1>13, <2>2, Zenon
  <2> QED
    BY <1>1, <1>13, <2>4, <2>5, CalmStays
<1> QED
  BY <1>10, <1>11, <1>12, <1>13

\* All items are removed, those that are active once their transfers have ended.
LEMMA RemoveAllLent ==
  ASSUME IInv, LInv, RemoveAll
  PROVE  LInv'
<1> DEFINE K(x) == IF x.where # "queue" THEN x
                   ELSE IF x.active THEN [x EXCEPT !.remove = TRUE]
                   ELSE [x EXCEPT !.where = "gone"]
<1>1. /\ Good(Here) /\ Here \in State /\ Here.it = it /\ it \in [Items -> Item]
      /\ Calmly /\ UNCHANGED <<main, bypassed>>
  <2>1. main.pc # "send" /\ UNCHANGED <<main, bypassed>>
    BY DEF RemoveAll, Acts, Idle
  <2> QED
    BY <2>1, HereGood DEF Calmly, State
<1>2. PICK t : t = [i \in Items |-> K(it[i])]
  OBVIOUS
<1>3. ASSUME NEW i \in Items
      PROVE  /\ t[i] \in Item /\ t[i].active = it[i].active /\ t[i].kind = it[i].kind
             /\ t[i].server = it[i].server /\ (t[i].active => t[i].where = it[i].where)
  <2>1. PICK z \in Item : z = it[i]
    BY <1>1
  <2>2. /\ K(z) \in Item /\ K(z).active = z.active /\ K(z).kind = z.kind
        /\ K(z).server = z.server /\ (K(z).active => K(z).where = z.where)
    BY DEF Item
  <2>3. t[i] = K(z)
    BY <1>2, <2>1
  <2> HIDE DEF K
  <2> QED
    BY <2>1, <2>2, <2>3, Zenon
<1>4. t \in [Items -> Item]
  <2>1. t = [i \in Items |-> t[i]]
    BY <1>2
  <2> QED
    BY <1>3, <2>1
<1>5. PICK w : w = [Here EXCEPT !.it = t]
  OBVIOUS
<1>6. Good(w) /\ Calm(Here, w)
  <2>1. PICK h : h = Here
    OBVIOUS
  <2>2. \A j \in Items : /\ t[j].active = h.it[j].active /\ t[j].kind = h.it[j].kind
                         /\ t[j].server = h.it[j].server /\ (t[j].active => t[j].where = h.it[j].where)
    BY <1>1, <1>3, <2>1, Zenon
  <2>3. Good(h)
    BY <1>1, <2>1, Zenon
  <2>4. Good([h EXCEPT !.it = t])
    BY <1>4, <2>2, <2>3, ItemsGood
  <2>5. Good(w)
    BY <1>5, <2>1, <2>4, Zenon
  <2> QED
    BY <1>1, <1>5, <2>5, ItemsCalm
<1>7. PICK v : v = CheckQueueState(w, None)
  OBVIOUS
<1>8. Lent(w) /\ (bypassed \/ Locked(w)) /\ ~Using /\ Nested
  BY <1>1, <1>6, HereFit, CalmLent
<1>9. Good(v)
  BY <1>6, <1>7, CheckQueueStateGood
<1>10. Lent(v) /\ InUse(v) /\ (bypassed \/ Locked(v))
  BY <1>6, <1>7, <1>8, CheckQueueStateLent
<1>11. Becomes(v)
  <2>1. Becomes(CheckQueueState([Here EXCEPT !.it = [i \in Items |-> K(it[i])]], None))
    BY Zenon DEF RemoveAll
  <2>2. [Here EXCEPT !.it = [i \in Items |-> K(it[i])]] = w
    BY <1>2, <1>5, Zenon
  <2> QED
    BY <1>7, <2>1, <2>2, Zenon
<1> QED
  BY <1>1, <1>8, <1>9, <1>10, <1>11, StaysLent

\* The program quits, at once if no engine is active.
LEMMA QuitLent ==
  ASSUME IInv, LInv, Quit
  PROVE  LInv'
<1>1. Good(Here) /\ Here.q.quit = 0 /\ Calmly /\ ~main.inside /\ UNCHANGED <<main, bypassed>>
  <2>1. main.pc = "idle" /\ q.quit = 0 /\ UNCHANGED <<main, bypassed>>
    BY DEF Quit, Acts, Idle
  <2> QED
    BY <2>1, HereGood DEF Calmly, LInv, Nested
<1>2. PICK u : u = [Here EXCEPT !.q.quit = 1]
  OBVIOUS
<1>3. Good(u) /\ Calm(Here, u)
  <2>1. Good(u)
    BY <1>1, <1>2, QuitGood, Zenon
  <2>2. PICK h \in State : h = Here
    BY <1>1 DEF Good
  <2>3. PICK p : p = [h.q EXCEPT !.quit = 1]
    OBVIOUS
  <2>4. p.list = h.q.list
    BY <2>3 DEF State, QueueState
  <2>5. u = [h EXCEPT !.q = p]
    <3>1. [h EXCEPT !.q.quit = 1] = [h EXCEPT !.q = p]
      BY <2>3 DEF State
    <3> QED
      BY <1>2, <2>2, <3>1, Zenon
  <2>6. Calm(h, u)
    BY <2>4, <2>5, MembersCalm
  <2> QED
    BY <2>1, <2>2, <2>6, Zenon
<1>4. PICK w : w = Deactivate(u)
  OBVIOUS
<1>5. Lent(u) /\ InUse(u) /\ (bypassed \/ Locked(u)) /\ ~Using /\ Nested
  BY <1>1, <1>3, HereFit, CalmLent
<1>6. Good(w) /\ Lent(w) /\ InUse(w) /\ (bypassed \/ Locked(w))
  <2>1. Good(w)
    BY <1>3, <1>4, DeactivateGood
  <2>2. Lent(w) /\ InUse(w) /\ (bypassed \/ Locked(w))
    BY <1>3, <1>4, <1>5, DeactivateLent
  <2> QED
    BY <2>1, <2>2
<1>7. PICK d : d = DeleteEngines(w)
  OBVIOUS
<1>8. \/ w.q.count = 0 /\ Becomes(d)
      \/ Becomes(w)
  <2> DEFINE R(x) == \/ x.q.count = 0 /\ Becomes(DeleteEngines(x))
                     \/ Becomes(x)
  <2>1. R(Deactivate([Here EXCEPT !.q.quit = 1]))
    BY Zenon DEF Quit
  <2> HIDE DEF R
  <2>2. R(w)
    BY <1>2, <1>4, <2>1, Zenon
  <2> QED
    BY <1>7, <2>2, Zenon DEF R
<1>9. CASE w.q.count = 0 /\ Becomes(d)
  <2>1. ~w.br.request
    BY <1>6, <1>9, UnusedLent
  <2>2. Lent(d) /\ InUse(d) /\ Locked(d)
    BY <1>6, <1>7, <2>1, DeleteEnginesLent
  <2>3. \A e \in Engines : ~w.data[e].active
    BY <1>6, <1>9, NobodyActive
  <2>4. Good(DeleteEngines(w))
    BY <1>6, <2>3, DeleteEnginesGood
  <2>5. Good(d)
    BY <1>7, <2>4, Zenon
  <2> QED
    BY <1>1, <1>5, <1>9, <2>2, <2>5, StaysLent
<1>10. CASE Becomes(w)
  BY <1>1, <1>5, <1>6, <1>10, StaysLent
<1> QED
  BY <1>8, <1>9, <1>10

\* The browsing connection is given a command.
LEMMA BrowseLent ==
  ASSUME IInv, LInv, NEW s \in Servers \cup {None}, Browse(s)
  PROVE  LInv'
<1>1. /\ Good(Here) /\ Here \in State /\ Here.br = br /\ Here.data = data /\ Here.q = q /\ Here.en = en
      /\ br \in Browsing /\ Calmly /\ UNCHANGED <<main, bypassed>>
  <2>1. main.pc # "send" /\ UNCHANGED <<main, bypassed>>
    BY DEF Browse, Acts, Idle
  <2>2. Here.br \in Browsing /\ Here.br = br
    BY HereGood DEF State
  <2> QED
    BY <2>1, <2>2, HereGood DEF Calmly
<1>2. PICK b : b = [br EXCEPT !.site = s, !.cmds = br.cmds + 1]
  OBVIOUS
<1>3. b \in Browsing /\ b.lock = br.lock /\ b.request = br.request /\ b.cmds = br.cmds + 1
  <2>1. PICK n \in Int : n = br.cmds + 1
    BY <1>1 DEF Browsing
  <2>2. b = [br EXCEPT !.site = s, !.cmds = n]
    BY <1>2, <2>1, Zenon
  <2>3. b \in Browsing /\ b.lock = br.lock /\ b.request = br.request /\ b.cmds = n
    BY <1>1, <2>2 DEF Browsing
  <2> QED
    BY <2>1, <2>3
<1>4. PICK w : w = [Here EXCEPT !.br = b]
  OBVIOUS
<1>5. /\ Good(w) /\ w \in State /\ w.q = q /\ w.data = data /\ w.en = en /\ w.br = b
  <2>1. w \in State /\ Beside(Here, w) /\ w.en = Here.en /\ w.br = b
    BY <1>1, <1>3, <1>4, BrowsingShape
  <2>2. Good(w)
    BY <1>1, <2>1, BesideGood
  <2> QED
    BY <1>1, <2>1, <2>2 DEF Beside
<1>6. Lent(Here) /\ (main.inside \/ InUse(Here)) /\ (bypassed \/ Locked(Here)) /\ ~Using /\ Nested
  BY <1>1, HereFit
<1>7. /\ Lendable(w) /\ (w.br.request => Primary \in Range(w.q.list))
      /\ (main.inside \/ InUse(w)) /\ (bypassed \/ Locked(w))
  BY <1>1, <1>3, <1>5, <1>6 DEF Lent, Lendable, InUse, Locked
<1>8. PICK p : p = ProcessNextCommand(w)
  OBVIOUS
<1>9. Good(p) /\ Lent(p) /\ (main.inside \/ InUse(p)) /\ (bypassed \/ Locked(p))
  <2>1. Good(p)
    <3>1. Good(ProcessNextCommand(w))
      BY <1>5, ProcessNextBeside, BesideGood
    <3> QED
      BY <1>8, <3>1, Zenon
  <2>2. /\ Lendable(p) /\ Served(p) /\ (Locked(w) => Locked(p)) /\ p.q = w.q /\ p.data = w.data
        /\ p.br.request = w.br.request
    BY <1>5, <1>7, <1>8, ProcessNextLent
  <2> QED
    BY <1>7, <2>1, <2>2 DEF Lent, InUse
<1>10. Becomes(p) \/ (br.cmds # 0 /\ Becomes(w))
  <2> DEFINE R(x) == Becomes(ProcessNextCommand(x)) \/ (br.cmds # 0 /\ Becomes(x))
  <2>1. R([Here EXCEPT !.br.site = s, !.br.cmds = @ + 1])
    BY Zenon DEF Browse
  <2>2. [Here EXCEPT !.br.site = s, !.br.cmds = @ + 1] = w
    <3>1. [Here EXCEPT !.br.site = s, !.br.cmds = @ + 1] = [Here EXCEPT !.br.site = s, !.br.cmds = br.cmds + 1]
      BY <1>1, Zenon
    <3>2. [Here EXCEPT !.br.site = s, !.br.cmds = br.cmds + 1] = [Here EXCEPT !.br = [Here.br EXCEPT !.site = s, !.cmds = br.cmds + 1]]
      BY <1>1 DEF State
    <3> QED
      BY <1>1, <1>2, <1>4, <3>1, <3>2, Zenon
  <2> HIDE DEF R
  <2>3. R(w)
    BY <2>1, <2>2, Zenon
  <2> QED
    BY <1>8, <2>3, Zenon DEF R
<1>11. CASE Becomes(p)
  BY <1>1, <1>6, <1>9, <1>11, StaysLent
<1>12. CASE br.cmds # 0 /\ Becomes(w)
  <2>1. Served(w)
    <3>1. br.cmds \in Int /\ Served(Here)
      BY <1>1, <1>6 DEF Browsing, Lent
    <3> QED
      BY <1>1, <1>3, <1>5, <1>12, <3>1 DEF Served, Busy
  <2>2. Lent(w)
    BY <1>7, <2>1 DEF Lent
  <2> QED
    BY <1>1, <1>5, <1>6, <1>7, <1>12, <2>2, StaysLent
<1> QED
  BY <1>10, <1>11, <1>12

-----------------------------------------------------------------------------
(* The loop of AdvanceQueue.                                                *)

\* From u to w engines have joined the list, and perhaps the borrowed one has
\* come to be waited for.
Borrows(u, w) ==
  /\ Grown(u, w)
  /\ w.data[Primary].state \in {u.data[Primary].state, "waitprimary"}
  /\ \A f \in Others : w.data[f].state = u.data[f].state

\* One such change after another is one.
LEMMA BorrowsTwice ==
  ASSUME NEW u, NEW v, NEW w, Borrows(u, v), Borrows(v, w)
  PROVE  Borrows(u, w)
BY GrownTwice DEF Borrows

\* So is none.
LEMMA BorrowsSelf ==
  ASSUME NEW w, Good(w)
  PROVE  Borrows(w, w)
BY DEF Borrows, Grown

\* That is no harm.
LEMMA BorrowsLent ==
  ASSUME NEW u, NEW w, Borrows(u, w)
  PROVE  /\ Good(w) /\ (Lent(u) => Lent(w)) /\ (Locked(u) => Locked(w))
         /\ w.data[Primary].active = u.data[Primary].active
<1>1. Primary \in Engines
  BY DEF Engines
<1>2. /\ Good(w) /\ w.en = u.en /\ w.br = u.br /\ Range(u.q.list) \subseteq Range(w.q.list)
      /\ w.data[Primary].active = u.data[Primary].active
  BY <1>1 DEF Borrows, Grown
<1>3. Lent(u) => Lent(w)
  BY <1>2 DEF Borrows, Lent, Lendable, Served, Busy
<1>4. Locked(u) => Locked(w)
  BY <1>2 DEF Borrows, Locked
<1> QED
  BY <1>2, <1>3, <1>4

\* An engine joins the list.
LEMMA ListingBorrows ==
  ASSUME NEW w, Good(w), NEW e \in Engines \cup {None}
  PROVE  Borrows(w, Listing(w, e))
<1>1. PICK v : v = Listing(w, e)
  OBVIOUS
<1>2. Grown(w, v) /\ v.data = w.data
  BY <1>1, ListingGrown, Zenon
<1>3. Borrows(w, v)
  BY <1>2 DEF Borrows
<1> QED
  BY <1>1, <1>3, Zenon

\* The browsing connection is to be asked for its engine.
LEMMA LoanBorrows ==
  ASSUME NEW v, Good(v)
  PROVE  Borrows(v, Loan(v))
<1>1. Primary \in Engines \cup {None} /\ Primary \in Engines /\ "waitprimary" \in States
  BY DEF Engines, States
<1>2. PICK x : x = Listing(v, Primary)
  OBVIOUS
<1>3. Borrows(v, x) /\ Good(x)
  BY <1>1, <1>2, ListingBorrows, ListingGrown, Zenon DEF Grown
<1>4. PICK y : y = Loan(v)
  OBVIOUS
<1>5. InState(y, x, Primary, "waitprimary")
  BY <1>2, <1>4, Zenon DEF InState, Loan
<1>6. y.data[Primary].state = "waitprimary" /\ \A f \in Others : y.data[f] = x.data[f]
  <2>1. x \in State
    BY <1>3 DEF Good
  <2> QED
    BY <1>1, <1>5, <2>1 DEF State, EngineData, InState, Others
<1>7. Grown(v, y)
  BY <1>4, LoanGrown, Zenon
<1>8. Borrows(v, y)
  BY <1>3, <1>6, <1>7 DEF Borrows
<1> QED
  BY <1>4, <1>8, Zenon

\* CanStartTransfer does no more than that.
LEMMA CanStartBorrows ==
  ASSUME NEW w, Good(w), NEW s
  PROVE  Borrows(w, CanStartTransfer(w, s).w)
<1>1. PICK idle : idle = GetIdleEngine(w, s, TRUE)
  OBVIOUS
<1>2. PICK v : v = Listing(w, idle)
  OBVIOUS
<1>3. idle \in Engines \cup {None}
  BY <1>1, IdleOrNone, Zenon
<1>4. Borrows(w, v) /\ Good(v)
  BY <1>2, <1>3, ListingBorrows, ZenonT(60) DEF Borrows, Grown
<1>5. PICK x : x = Loan(v)
  OBVIOUS
<1>6. Borrows(w, x)
  <2>1. Borrows(v, x)
    BY <1>4, <1>5, LoanBorrows, Zenon
  <2> QED
    BY <1>4, <2>1, BorrowsTwice
<1>7. PICK c : c = CanStartTransfer(w, s)
  OBVIOUS
<1>8. c.w \in {w, v, x}
  <2>1. PICK a : a = ~v.data[Primary].active
    OBVIOUS
  <2>2. c \in {[ok |-> TRUE, e |-> None, w |-> w], [ok |-> TRUE, e |-> idle, w |-> v],
               [ok |-> FALSE, e |-> None, w |-> v], [ok |-> a, e |-> Primary, w |-> v],
               [ok |-> TRUE, e |-> Primary, w |-> x]}
    <3>1. c = IF ~Full(w, s) THEN [ok |-> TRUE, e |-> None, w |-> w]
              ELSE IF Fits(w, s, idle) THEN [ok |-> TRUE, e |-> idle, w |-> v]
              ELSE IF NoLoan(w, s) THEN [ok |-> FALSE, e |-> None, w |-> v]
              ELSE IF Primary \in Range(v.q.list) THEN [ok |-> a, e |-> Primary, w |-> v]
              ELSE [ok |-> TRUE, e |-> Primary, w |-> x]
      BY <1>1, <1>2, <1>5, <1>7, <2>1, CanStartShape, Zenon
    <3> QED
      BY <3>1, Zenon
  <2> QED
    BY <2>2
<1>9. Borrows(w, c.w)
  BY <1>4, <1>6, <1>8, BorrowsSelf, Zenon
<1> QED
  BY <1>7, <1>9, Zenon

\* So for the look at another server.
LEMMA ExaminedBorrows ==
  ASSUME NEW w, Good(w), NEW s
  PROVE  Borrows(w, Examined(w, s))
BY CanStartBorrows, BorrowsSelf, Zenon DEF Examined

\* An engine takes up an item.
LEMMA StartedShape ==
  ASSUME NEW w, Good(w), NEW e \in Engines, NEW i \in Items, NEW v, v = Started(w, e, i)
  PROVE  /\ v.q.list = w.q.list /\ v.br = w.br /\ v.en = w.en
         /\ v.data[e].active /\ v.data[e].state = w.data[e].state
         /\ \A f \in Engines \ {e} : v.data[f] = w.data[f]
<1>1. /\ w \in State /\ w.q \in QueueState /\ w.data \in [Engines -> EngineData]
  BY DEF Good, State
<1>2. PICK b : b = TRUE
  OBVIOUS
<1>3. PICK nb : nb = FALSE
  OBVIOUS
<1>4. PICK s : s = ServerOf(i)
  OBVIOUS
<1>5. PICK c, dn, up, m : v = [w EXCEPT !.q = [w.q EXCEPT !.count = c, !.server[s] = m, !.down = dn, !.up = up],
                                        !.it[i].active = b,
                                        !.data[e] = [w.data[e] EXCEPT !.active = b, !.item = i, !.timer = nb, !.site = s]]
  BY <1>2, <1>3, <1>4, Zenon DEF Started
<1>6. PICK p : p = [w.q EXCEPT !.count = c, !.server[s] = m, !.down = dn, !.up = up]
  OBVIOUS
<1>7. PICK x \in EngineData : x = w.data[e]
  BY <1>1
<1>8. PICK y : y = [x EXCEPT !.active = b, !.item = i, !.timer = nb, !.site = s]
  OBVIOUS
<1>9. PICK t : t = [w.it EXCEPT ![i].active = b]
  OBVIOUS
<1>10. PICK d : d = [w.data EXCEPT ![e] = y]
  OBVIOUS
<1>11. v = [w EXCEPT !.q = p, !.it = t, !.data = d]
  <2>1. v = [w EXCEPT !.q = p, !.it[i].active = b, !.data[e] = y]
    BY <1>5, <1>6, <1>7, <1>8, Zenon
  <2>2. [w EXCEPT !.q = p, !.it[i].active = b, !.data[e] = y] = [w EXCEPT !.q = p, !.it = t, !.data = d]
    BY <1>1, <1>9, <1>10 DEF State
  <2> QED
    BY <2>1, <2>2, Zenon
<1>12. v.q = p /\ v.data = d /\ v.br = w.br /\ v.en = w.en
  BY <1>1, <1>11 DEF State
<1>13. p.list = w.q.list
  BY <1>1, <1>6 DEF QueueState
<1>14. y.active = b /\ y.state = x.state
  BY <1>8 DEF EngineData
<1>15. d[e] = y /\ \A f \in Engines \ {e} : d[f] = w.data[f]
  BY <1>1, <1>10
<1> QED
  BY <1>2, <1>7, <1>12, <1>13, <1>14, <1>15

\* That is no harm, but only under the lock if it is the borrowed one.
LEMMA StartedLent ==
  ASSUME NEW w, Good(w), Lent(w), NEW e \in Engines, NEW i \in Items, NEW v, v = Started(w, e, i)
  PROVE  Lent(v) /\ (e # Primary /\ Locked(w) => Locked(v)) /\ v.data[e].active
<1>1. /\ v.q.list = w.q.list /\ v.br = w.br /\ v.en = w.en
      /\ v.data[e].active /\ v.data[e].state = w.data[e].state
      /\ \A f \in Engines \ {e} : v.data[f] = w.data[f]
  BY StartedShape
<1>2. \A f \in Others : v.data[f].state # "waitprimary"
  BY <1>1 DEF Lent, Lendable, Others
<1>3. Lent(v)
  BY <1>1, <1>2 DEF Lent, Lendable, Served, Busy
<1>4. e # Primary /\ Locked(w) => Locked(v)
  BY <1>1 DEF Locked, Engines
<1> QED
  BY <1>1, <1>3, <1>4

\* A local directory is made on the spot.
LEMMA MakeLocalDirLent ==
  ASSUME IInv, LInv, NEW i \in Items, MakeLocalDir(i)
  PROVE  LInv'
<1>1. Good(Here) /\ Here.it = it /\ Calmly /\ UNCHANGED <<main, bypassed>>
  BY HereGood DEF Calmly, MakeLocalDir
<1>2. it[i].where = "queue" /\ ~it[i].active
  <2>1. i \in GetIdleChild(Here, ServerOf(i))
    BY DEF MakeLocalDir, Startable
  <2>2. Here.it[i].where = "queue" /\ ~Here.it[i].active
    BY <2>1, ChildFacts
  <2> QED
    BY <1>1, <2>2, Zenon
<1>3. PICK s : s = ServerOf(i)
  OBVIOUS
<1>4. PICK v : v = CanStartTransfer(Here, s).w
  OBVIOUS
<1>5. Borrows(Here, v)
  <2>1. Borrows(Here, CanStartTransfer(Here, s).w)
    BY <1>1, CanStartBorrows
  <2> QED
    BY <1>4, <2>1, Zenon
<1>6. /\ Good(v) /\ v \in State /\ v.it = it /\ (Lent(Here) => Lent(v)) /\ (Locked(Here) => Locked(v))
      /\ v.it \in [Items -> Item]
  <2>1. Good(v) /\ (Lent(Here) => Lent(v)) /\ (Locked(Here) => Locked(v))
    BY <1>5, BorrowsLent
  <2>2. v.it = it
    BY <1>1, <1>5 DEF Borrows, Grown
  <2> QED
    BY <2>1, <2>2 DEF Good, State
<1>7. PICK g \in {"queue", "failed", "successful", "gone"} : g = "gone"
  OBVIOUS
<1>8. PICK y \in Item : y = v.it[i]
  BY <1>6
<1>9. PICK x : x = [y EXCEPT !.where = g]
  OBVIOUS
<1>10. x \in Item /\ x.active = y.active /\ x.kind = y.kind /\ x.server = y.server
  BY <1>9 DEF Item
<1>11. ~v.it[i].active /\ ~x.active /\ x.kind = v.it[i].kind /\ x.server = v.it[i].server
  BY <1>2, <1>6, <1>8, <1>10, Zenon
<1>12. PICK z : z = [v EXCEPT !.it[i] = x]
  OBVIOUS
<1>13. Good(z) /\ Calm(v, z)
  <2>1. Good([v EXCEPT !.it[i] = x])
    BY <1>6, <1>10, <1>11, ItemGood
  <2> QED
    BY <1>6, <1>12, <2>1, ItemCalm, Zenon
<1>14. Becomes(z)
  <2>1. Becomes([v EXCEPT !.it[i].where = g])
    BY <1>3, <1>4, <1>7, Zenon DEF MakeLocalDir
  <2>2. [v EXCEPT !.it[i].where = g] = [v EXCEPT !.it[i] = x]
    BY <1>6, <1>8, <1>9 DEF State
  <2> QED
    BY <1>12, <2>1, <2>2, Zenon
<1>15. Lent(z) /\ main.inside /\ (bypassed \/ Locked(z)) /\ ~Using /\ Nested
  <2>1. main.inside
    BY DEF MakeLocalDir, LInv, Nested
  <2> QED
    BY <1>1, <1>6, <1>13, <2>1, HereFit, CalmLent
<1> QED
  BY <1>1, <1>13, <1>14, <1>15, StaysLent

\* The queue prepares an active engine for its next command.
LEMMA StateFit ==
  ASSUME NEW w, NEW e \in Engines, Fit(w, e), w.data[e].active,
         NEW a \in States \ {"waitprimary"}, NEW v, InState(v, w, e, a)
  PROVE  Fit(v, e) /\ (e = Primary => v.data[Primary].active)
<1>1. Good(w) /\ Lent(w)
  BY DEF Fit
<1>2. /\ Good(v) /\ Lent(v) /\ (InUse(v) <=> InUse(w)) /\ (e # Primary /\ Locked(w) => Locked(v))
      /\ v.data[e].active
  BY <1>1, StateLent
<1> QED
  BY <1>2 DEF Fit

\* A transfer is started.
LEMMA TryStartNextTransferLent ==
  ASSUME IInv, LInv, NEW i \in Items, TryStartNextTransfer(i)
  PROVE  LInv'
<1> DEFINE U(h, s, o) == IF o = s THEN h ELSE Examined(h, o)
           E(s, x) == IF x.e # None THEN x.e ELSE GetIdleEngine(x.w, s, FALSE)
           W(x, y) == Started(Listing(x.w, y), y, i)
           F(s, v, x, y) ==
             IF v.data[y].state = "waitprimary" THEN v
             ELSE IF ~v.en[y].sock THEN ToConnect(v, y)
             ELSE IF x.w.data[y].site # s THEN [v EXCEPT !.data[y].state = "disconnect"]
             ELSE [v EXCEPT !.data[y].state = Work(i)]
           S(s, x, y) == y # None /\ Becomes(F(s, W(x, y), x, y)) /\ Sending(y)
           T(s, x) == S(s, x, E(s, x))
<1>1. PICK other \in Servers :
        T(ServerOf(i), CanStartTransfer(U(Here, ServerOf(i), other), ServerOf(i)))
  BY ZenonT(60) DEF TryStartNextTransfer
<1>2. PICK s : s = ServerOf(i)
  OBVIOUS
<1>3. PICK h : h = Here
  OBVIOUS
<1>4. PICK u : u = U(h, s, other)
  OBVIOUS
<1>5. PICK c : c = CanStartTransfer(u, s)
  OBVIOUS
<1>6. PICK e : e = E(s, c)
  OBVIOUS
<1>7. S(s, c, e)
  <2> HIDE DEF U, E, S
  <2>1. T(s, CanStartTransfer(U(h, s, other), s))
    <3> HIDE DEF T
    <3> QED
      BY <1>1, <1>2, <1>3, Zenon
  <2>2. T(s, c)
    <3> HIDE DEF T
    <3> QED
      BY <1>4, <1>5, <2>1, Zenon
  <2>3. S(s, c, E(s, c))
    BY <2>2, Zenon
  <2> QED
    BY <1>6, <2>3, Zenon
<1>8. /\ Calmly /\ main.inside /\ UNCHANGED bypassed
      /\ Good(h) /\ main \in Main /\ h.it = it /\ Lent(h) /\ (bypassed \/ Locked(h))
  <2>1. main.pc = "advance" /\ UNCHANGED bypassed
    BY DEF TryStartNextTransfer
  <2>2. Calmly /\ main.inside
    BY <2>1 DEF Calmly, LInv, Nested
  <2>3. /\ Good(Here) /\ main \in Main /\ Here.it = it /\ Lent(Here) /\ (bypassed \/ Locked(Here))
    BY <2>2, HereGood, HereFit
  <2> HIDE DEF U, E, S, T
  <2>4. Good(h) /\ h.it = it /\ Lent(h) /\ (bypassed \/ Locked(h))
    BY <1>3, <2>3, Zenon
  <2> QED
    BY <2>1, <2>2, <2>3, <2>4, Zenon
<1>9. i \in GetIdleChild(h, s) /\ CanStartTransfer(h, s).ok
  BY <1>2, <1>3, Zenon DEF TryStartNextTransfer, Startable
<1>10. h.it[i].where = "queue" /\ ~h.it[i].active
  BY <1>8, <1>9, ChildFacts
<1>11. u = h \/ u = Examined(h, other)
  BY <1>4, Zenon
<1>12. Borrows(h, u)
  BY <1>8, <1>11, ExaminedBorrows, BorrowsSelf, Zenon
<1>13. Good(u)
  BY <1>12 DEF Borrows, Grown
<1>14. Borrows(u, c.w)
  BY <1>5, <1>13, CanStartBorrows, Zenon
<1>15. Good(c.w) /\ e # None
  BY <1>7, <1>14, Zenon DEF Borrows, Grown
<1>16. e \in Engines /\ ~c.w.data[e].active
  <2>1. CASE c.e # None
    <3>1. e = c.e
      BY <1>6, <2>1, Zenon
    <3>2. c.e \in Engines /\ ~u.data[c.e].active
      <4>1. Good(h) /\ CanStartTransfer(h, s).ok
        BY <1>8, <1>9
      <4> QED
        BY <1>5, <1>11, <2>1, <4>1, CanStartUse, Zenon
    <3> QED
      BY <1>14, <3>1, <3>2, Zenon DEF Borrows, Grown
  <2>2. CASE c.e = None
    <3>1. e = GetIdleEngine(c.w, s, FALSE)
      BY <1>6, <2>2, Zenon
    <3>2. PICK x : x = c.w
      OBVIOUS
    <3>3. PICK f \in BOOLEAN : f = FALSE
      OBVIOUS
    <3>4. Good(x) /\ e = GetIdleEngine(x, s, f) /\ e # None
      BY <1>15, <3>1, <3>2, <3>3, Zenon
    <3>5. e \in Engines /\ ~x.data[e].active
      BY <3>4, GetIdleEngineFacts
    <3> QED
      BY <3>2, <3>5, Zenon
  <2> QED
    BY <2>1, <2>2
<1>17. PICK l : l = Listing(c.w, e)
  OBVIOUS
<1>18. Borrows(h, l) /\ Good(l) /\ e \in Range(l.q.list) /\ ~l.data[e].active /\ l.it = h.it
  <2>1. e \in Engines \cup {None}
    BY <1>16
  <2>2. Borrows(c.w, l) /\ e \in Range(l.q.list) /\ l.data = c.w.data
    BY <1>15, <1>17, <2>1, ListingBorrows, ListingGrown, Zenon
  <2>3. Borrows(h, l)
    BY <1>12, <1>14, <2>2, BorrowsTwice
  <2> QED
    BY <1>16, <2>2, <2>3, Zenon DEF Borrows, Grown
<1>19. PICK w : w = Started(l, e, i)
  OBVIOUS
<1>20. Good(w)
  <2>1. ~l.it[i].active /\ l.it[i].where = "queue"
    BY <1>10, <1>18, Zenon
  <2> QED
    BY <1>16, <1>18, <1>19, <2>1, StartedGood, Zenon
<1>21. Fit(w, e) /\ w.data[e].active
  <2>1. Lent(l) /\ (bypassed \/ Locked(l))
    BY <1>8, <1>18, BorrowsLent
  <2>2. Lent(w) /\ (e # Primary /\ Locked(l) => Locked(w)) /\ w.data[e].active
    BY <1>16, <1>18, <1>19, <2>1, StartedLent
  <2> QED
    BY <1>8, <1>20, <2>1, <2>2 DEF Fit
<1>22. Becomes(F(s, w, c, e)) /\ Sending(e)
  <2> HIDE DEF F
  <2>1. W(c, e) = w
    BY <1>17, <1>19, Zenon
  <2> HIDE DEF W
  <2> QED
    BY <1>7, <2>1, Zenon
<1>23. PICK x : x = [w EXCEPT !.data[e].state = "disconnect"]
  OBVIOUS
<1>24. PICK y : y = [w EXCEPT !.data[e].state = Work(i)]
  OBVIOUS
<1>25. PICK t : t = ToConnect(w, e)
  OBVIOUS
<1>26. PICK z : z = F(s, w, c, e)
  OBVIOUS
<1>27. z \in {w, t, x, y} /\ Becomes(z) /\ Sending(e)
  <2>1. z \in {w, t, x, y}
    BY <1>23, <1>24, <1>25, <1>26, Zenon
  <2> HIDE DEF F
  <2> QED
    BY <1>22, <1>26, <2>1, Zenon
<1>28. ASSUME NEW v, NEW a \in States \ {"waitprimary"}, InState(v, w, e, a)
       PROVE  Fit(v, e) /\ (e = Primary => v.data[Primary].active)
  BY <1>16, <1>21, <1>28, StateFit, Zenon
<1>29. Fit(x, e) /\ (e = Primary => x.data[Primary].active)
  <2>1. PICK a \in States \ {"waitprimary"} : a = "disconnect"
    BY DEF States
  <2>2. InState(x, w, e, a)
    BY <1>23, <2>1, Zenon DEF InState
  <2> QED
    BY <1>28, <2>2
<1>30. Fit(y, e) /\ (e = Primary => y.data[Primary].active)
  <2>1. PICK a \in States \ {"waitprimary"} : a = Work(i)
    BY DEF States, Work
  <2>2. InState(y, w, e, a)
    BY <1>24, <2>1, Zenon DEF InState
  <2> QED
    BY <1>28, <2>2
<1>31. Fit(t, e) /\ (e = Primary => t.data[Primary].active)
  <2>1. /\ Good(t) /\ Lent(t) /\ (e # Primary /\ Locked(w) => Locked(t))
        /\ t.data[Primary].active = w.data[Primary].active
    BY <1>16, <1>21, <1>25, ToConnectLent DEF Fit
  <2> QED
    BY <1>8, <1>21, <2>1 DEF Fit
<1>32. Fit(z, e) /\ (e = Primary => z.data[Primary].active)
  BY <1>21, <1>27, <1>29, <1>30, <1>31, Zenon
<1> QED
  BY <1>8, <1>27, <1>32, SendingLent

\* AdvanceQueue is done.
LEMMA AdvanceQueueEndsLent ==
  ASSUME IInv, LInv, AdvanceQueueEnds
  PROVE  LInv'
<1> DEFINE X(o) == IF MayStart THEN Examined(Here, o) ELSE Here
<1>1. PICK other \in Servers, refresh \in Own \cup {None} : Becomes(CheckQueueState(IdleTimers(X(other)), refresh))
  BY Zenon DEF AdvanceQueueEnds
<1>2. PICK h : h = Here
  OBVIOUS
<1>3. Good(h) /\ main \in Main /\ Lent(h) /\ (bypassed \/ Locked(h))
  <2>1. Calmly
    BY DEF AdvanceQueueEnds, Calmly
  <2> QED
    BY <1>2, <2>1, HereGood, HereFit, Zenon
<1>4. PICK x : x = X(other)
  OBVIOUS
<1>5. Borrows(h, x)
  <2>1. x = h \/ x = Examined(h, other)
    BY <1>2, <1>4, Zenon
  <2> QED
    BY <1>3, <2>1, ExaminedBorrows, BorrowsSelf, Zenon
<1>6. Good(x) /\ Lent(x) /\ (bypassed \/ Locked(x))
  BY <1>3, <1>5, BorrowsLent
<1>7. PICK y : y = IdleTimers(x)
  OBVIOUS
<1>8. Good(y) /\ Calm(x, y)
  BY <1>6, <1>7, IdleTimersGood, IdleTimersCalm, Zenon
<1>9. Lent(y) /\ (bypassed \/ Locked(y))
  BY <1>6, <1>8, CalmLent
<1>10. PICK v : v = CheckQueueState(y, refresh)
  OBVIOUS
<1>11. Lent(v) /\ InUse(v) /\ (bypassed \/ Locked(v))
  BY <1>8, <1>9, <1>10, CheckQueueStateLent
<1>12. Good(v) /\ v \in State
  <2>1. Good(v)
    BY <1>8, <1>10, CheckQueueStateGood, Zenon
  <2> QED
    BY <2>1 DEF Good
<1>13. Becomes(v)
  <2> HIDE DEF X
  <2> QED
    BY <1>1, <1>4, <1>7, <1>10, Zenon
<1>14. main'.pc = "idle" /\ ~main'.inside /\ bypassed' = bypassed
  BY <1>3 DEF AdvanceQueueEnds, Main
<1>15. Nested'
  BY <1>14 DEF Nested
<1> QED
  BY <1>11, <1>12, <1>13, <1>14, <1>15, EndsLent

-----------------------------------------------------------------------------
(* The loop of SendNextCommand.                                             *)

\* A command is given to an engine.
LEMMA ExecutesLent ==
  ASSUME NEW h, h = Here, NEW e \in Engines, Fit(h, e), NEW c \in Commands \ {"none", "browse"},
         Executes(e, c)
  PROVE  LInv'
<1>1. h \in State /\ Good(h) /\ Lent(h) /\ (main.inside \/ InUse(h)) /\ main \in Main
  BY DEF Fit, Good
<1>2. PICK v : v = Execute(h, e, c)
  OBVIOUS
<1>3. Good(v)
  <2>1. Beside(h, Execute(h, e, c))
    BY <1>1, ExecuteBeside
  <2> QED
    BY <1>1, <1>2, <2>1, BesideGood, Zenon
<1>4. Lent(v) /\ (InUse(v) <=> InUse(h)) /\ (Locked(h) => Locked(v)) /\ v.br = h.br
  BY <1>1, <1>2, ExecuteLent
<1>5. Becomes(v) /\ Return /\ bypassed' = (bypassed \/ (e = Primary /\ ~br.lock))
  BY <1>2, Zenon DEF Executes
<1>6. bypassed' \/ Locked(v)
  <2>1. CASE e = Primary
    <3>1. v.en[Primary].cmd = c
      BY <1>1, <1>2, <2>1, ExecuteShape
    <3>2. h.br = br
      BY DEF Here
    <3> QED
      BY <1>4, <1>5, <2>1, <3>1, <3>2 DEF Locked
  <2>2. CASE e # Primary
    BY <1>4, <1>5, <2>2 DEF Fit
  <2> QED
    BY <2>1, <2>2
<1> QED
  BY <1>1, <1>3, <1>4, <1>5, <1>6, ReturnLent

\* One round of SendNextCommand.
LEMMA SendNextCommandLent ==
  ASSUME IInv, LInv, SendNextCommand
  PROVE  LInv'
<1>1. PICK h : h = Here
  OBVIOUS
<1>2. /\ Good(h) /\ h \in State /\ h.q = q /\ h.data = data /\ main \in Main /\ main.pc = "send"
      /\ Lent(h) /\ (main.inside \/ InUse(h)) /\ (bypassed \/ Locked(h) \/ Using)
      /\ (Using => data[Primary].active) /\ Nested
  <2>1. main.pc = "send"
    BY DEF SendNextCommand
  <2> QED
    BY <1>1, <2>1, HereGood, Zenon DEF LInv
<1>3. PICK e \in Engines : e = main.e
  BY <1>2 DEF IInv, Sends
<1>4. Using <=> e = Primary
  BY <1>2, <1>3 DEF Using
<1>5. Fit(h, e) /\ (e = Primary => h.data[Primary].active)
  BY <1>2, <1>4 DEF Fit
<1>6. PICK r : r = RequestExclusiveEngine(h)
  OBVIOUS
<1>7. PICK t : t = ToConnect(h, e)
  OBVIOUS
<1>8. PICK d : d = [h EXCEPT !.data[e].state = "disconnect"]
  OBVIOUS
<1>9. PICK l \in Seq(Engines) : l = Append(q.waiting, e)
  <2>1. q.waiting \in Seq(Engines)
    BY <1>2 DEF State, QueueState
  <2>2. Append(q.waiting, e) \in Seq(Engines)
    BY <2>1
  <2> QED
    BY <2>2
<1>10. PICK a : a = [h EXCEPT !.q.waiting = l]
  OBVIOUS
<1>11. \/ data[e].state = "waitprimary" /\ Becomes(r) /\ Return /\ UNCHANGED bypassed
       \/ \E c \in {"disconnect", "connect", "transfer", "mkdir"} : Executes(e, c)
       \/ Becomes(t) /\ UNCHANGED <<main, bypassed>>
       \/ data[e].state = "askpassword" /\ Becomes(a) /\ Return /\ UNCHANGED bypassed
       \/ Becomes(d) /\ UNCHANGED <<main, bypassed>>
       \/ IncreaseErrorCount(h, e) /\ UNCHANGED bypassed
       \/ ResetAndAdvance(h, e, "failure") /\ UNCHANGED bypassed
  <2>1. \/ data[e].state = "waitprimary" /\ Becomes(RequestExclusiveEngine(h)) /\ Return /\ UNCHANGED bypassed
        \/ Executes(e, "disconnect") \/ Executes(e, "connect")
        \/ data[e].state \in {"transfer", "mkdir"} /\ Executes(e, data[e].state)
        \/ Becomes(ToConnect(h, e)) /\ UNCHANGED <<main, bypassed>>
        \/ /\ data[e].state = "askpassword" /\ Becomes([h EXCEPT !.q.waiting = Append(@, e)]) /\ Return
           /\ UNCHANGED bypassed
        \/ Becomes([h EXCEPT !.data[e].state = "disconnect"]) /\ UNCHANGED <<main, bypassed>>
        \/ IncreaseErrorCount(h, e) /\ UNCHANGED bypassed
        \/ ResetAndAdvance(h, e, "failure") /\ UNCHANGED bypassed
    BY <1>1, <1>3, Zenon DEF SendNextCommand
  <2>2. a = [h EXCEPT !.q.waiting = Append(@, e)]
    BY <1>2, <1>9, <1>10, Zenon
  <2> QED
    BY <1>6, <1>7, <1>8, <2>1, <2>2, Zenon
<1>12. CASE data[e].state = "waitprimary" /\ Becomes(r) /\ Return /\ UNCHANGED bypassed
  <2>1. e = Primary
    BY <1>2, <1>12 DEF Lent, Lendable, Others
  <2>2. Primary \in Range(h.q.list)
    BY <1>5, <2>1 DEF Fit, Good, Listed
  <2>3. Good(r)
    <3>1. Beside(h, RequestExclusiveEngine(h))
      BY <1>2, RequestBeside
    <3> QED
      BY <1>2, <1>6, <3>1, BesideGood, Zenon
  <2>4. Lent(r) /\ r.q = h.q /\ r.data = h.data
    BY <1>2, <1>6, <2>2, RequestLent
  <2>5. (main.inside \/ InUse(r)) /\ Locked(r)
    BY <1>2, <1>12, <2>1, <2>4 DEF InUse, Locked
  <2> QED
    BY <1>2, <1>12, <2>3, <2>4, <2>5, ReturnLent
<1>13. CASE \E c \in {"disconnect", "connect", "transfer", "mkdir"} : Executes(e, c)
  <2>1. PICK c \in Commands \ {"none", "browse"} : Executes(e, c)
    BY <1>13 DEF Commands
  <2> QED
    BY <1>1, <1>5, <2>1, ExecutesLent
<1>14. ASSUME NEW v, Good(v), Lent(v), InUse(v) <=> InUse(h), e # Primary /\ Locked(h) => Locked(v),
              v.data[Primary].active = h.data[Primary].active, Becomes(v), UNCHANGED <<main, bypassed>>
       PROVE  LInv'
  <2>1. (main.inside \/ InUse(v)) /\ (bypassed \/ Locked(v) \/ Using) /\ (Using => v.data[Primary].active)
    BY <1>2, <1>4, <1>14
  <2> QED
    BY <1>2, <1>14, <2>1, StaysLent
<1>15. CASE Becomes(t) /\ UNCHANGED <<main, bypassed>>
  <2>1. /\ Good(t) /\ Lent(t) /\ (InUse(t) <=> InUse(h)) /\ (e # Primary /\ Locked(h) => Locked(t))
        /\ t.data[Primary].active = h.data[Primary].active
    BY <1>2, <1>7, ToConnectLent
  <2> QED
    BY <1>14, <1>15, <2>1
<1>16. CASE Becomes(d) /\ UNCHANGED <<main, bypassed>>
  <2>1. PICK s \in States \ {"waitprimary"} : s = "disconnect"
    BY DEF States
  <2>2. InState(d, h, e, s)
    BY <1>8, <2>1, Zenon DEF InState
  <2>3. /\ Good(d) /\ Lent(d) /\ (InUse(d) <=> InUse(h)) /\ (e # Primary /\ Locked(h) => Locked(d))
        /\ d.data[Primary].active = h.data[Primary].active
    BY <1>2, <2>2, StateLent
  <2> QED
    BY <1>14, <1>16, <2>3
<1>17. CASE data[e].state = "askpassword" /\ Becomes(a) /\ Return /\ UNCHANGED bypassed
  <2>1. Good(a)
    <3>1. l # <<>>
      <4>1. q.waiting \in Seq(Engines)
        BY <1>2 DEF State, QueueState
      <4> QED
        BY <1>9, <4>1
    <3>2. Good([h EXCEPT !.q.waiting = l])
      BY <1>2, <3>1, WaitingGood
    <3> QED
      BY <1>10, <3>2, Zenon
  <2>2. Calm(h, a) /\ a.data = h.data
    <3>1. PICK p : p = [h.q EXCEPT !.waiting = l]
      OBVIOUS
    <3>2. p.list = h.q.list
      BY <1>2, <3>1 DEF State, QueueState
    <3>3. a = [h EXCEPT !.q = p]
      BY <1>2, <1>10, <3>1 DEF State
    <3> QED
      BY <1>2, <3>2, <3>3, MembersCalm
  <2>3. Lent(a) /\ (main.inside \/ InUse(a)) /\ (Locked(h) => Locked(a))
    BY <1>2, <2>2, CalmLent
  <2>4. bypassed \/ Locked(a)
    <3>1. CASE e = Primary
      BY <1>2, <1>17, <2>2, <3>1 DEF Locked
    <3>2. CASE e # Primary
      BY <1>2, <1>4, <2>3, <3>2
    <3> QED
      BY <3>1, <3>2
  <2> QED
    BY <1>2, <1>17, <2>1, <2>3, <2>4, ReturnLent
<1>18. "failure" \in Reasons
  BY DEF Reasons
<1>19. CASE IncreaseErrorCount(h, e) /\ UNCHANGED bypassed
  BY <1>5, <1>19, IncreaseErrorCountLent
<1>20. CASE ResetAndAdvance(h, e, "failure") /\ UNCHANGED bypassed
  BY <1>5, <1>18, <1>20, ResetAndAdvanceLent
<1> QED
  BY <1>11, <1>12, <1>13, <1>15, <1>16, <1>17, <1>19, <1>20, Zenon

-----------------------------------------------------------------------------
(* The threads of the engines, and the theorem.                            *)

\* The thread goes on with the command of the engine n or has answered it.
Steady(n, m) == (m.cmd = n.cmd /\ m.notes = n.notes) \/ (m.cmd = "none" /\ m.notes # <<>>)

\* That keeps the predicates.
LEMMA SteadyLent ==
  ASSUME NEW u, NEW w, w.q = u.q, w.data = u.data, w.br = u.br,
         Steady(u.en[Primary], w.en[Primary])
  PROVE  /\ Lent(u) => Lent(w)
         /\ InUse(w) <=> InUse(u)
         /\ Locked(u) => Locked(w)
BY DEF Steady, Lent, Lendable, Served, InUse, Locked, Busy

\* One engine's thread takes a step.
LEMMA ThreadLent ==
  ASSUME LInv, NEW e \in Engines, NEW y, Steady(en[e], y),
         \A f \in Engines : en'[f] = IF f = e THEN y ELSE en[f],
         UNCHANGED <<q, data, br, main, bypassed>>
  PROVE  LInv'
<1>1. PICK u : u = Here
  OBVIOUS
<1>2. PICK w : w = Here'
  OBVIOUS
<1>3. /\ w.q = u.q /\ w.data = u.data /\ w.br = u.br /\ u.en = en /\ w.en = en'
  BY <1>1, <1>2 DEF Here
<1>4. Steady(u.en[Primary], w.en[Primary])
  <2>1. Primary \in Engines
    BY DEF Engines
  <2> QED
    BY <1>3, <2>1 DEF Steady
<1>5. (Lent(u) => Lent(w)) /\ (InUse(w) <=> InUse(u)) /\ (Locked(u) => Locked(w))
  BY <1>3, <1>4, SteadyLent
<1>6. /\ Lent(u) /\ (main.inside \/ InUse(u))
      /\ (bypassed \/ Locked(u) \/ Using)
      /\ (Using => data[Primary].active) /\ Nested
  BY <1>1, Zenon DEF LInv
<1>7. (Using' <=> Using) /\ (Nested' <=> Nested) /\ data' = data /\ main' = main /\ bypassed' = bypassed
  BY DEF Using, Nested
<1>8. /\ Lent(w) /\ (main'.inside \/ InUse(w))
      /\ (bypassed' \/ Locked(w) \/ Using')
      /\ (Using' => data'[Primary].active) /\ Nested'
  BY <1>5, <1>6, <1>7
<1> QED
  BY <1>2, <1>8, Zenon DEF LInv

\* The reply of a command is there.
LEMMA EndedSteady ==
  ASSUME IInv, NEW e \in Engines, NEW x, NEW y, IsEnded(en[e], y, x)
  PROVE  Steady(en[e], y)
<1>1. en[e].notes \in Seq(Note)
  BY HereGood DEF State, Engine
<1>2. Append(en[e].notes, x) # <<>>
  <2>1. PICK l \in Seq(Note) : l = en[e].notes
    BY <1>1
  <2>2. Append(l, x) # <<>>
    BY <2>1
  <2> QED
    BY <2>1, <2>2, Zenon
<1> QED
  BY <1>2 DEF IsEnded, Steady

\* The thread begins to execute a command, or has disconnected.
LEMMA OnCommandEventLent ==
  ASSUME IInv, LInv, NEW e \in Engines, OnCommandEvent(e)
  PROVE  LInv'
<1>1. en \in [Engines -> Engine]
  BY HereGood DEF State
<1>2. PICK y \in Engine : /\ en' = [en EXCEPT ![e] = y]
                          /\ \/ GoesOn(en[e], y)
                             \/ en[e].cmd = "disconnect" /\ \E r \in Replies : EndsWith(e, y, r)
  BY OnCommandEventShape
<1>3. Steady(en[e], y)
  <2>1. CASE GoesOn(en[e], y)
    BY <2>1 DEF GoesOn, Steady
  <2>2. CASE \E r \in Replies : EndsWith(e, y, r)
    <3>1. PICK r \in Replies : EndsWith(e, y, r)
      BY <2>2
    <3>2. PICK x : IsEnded(en[e], Ended(e, r, FALSE), x)
      BY EndedShape
    <3>3. IsEnded(en[e], y, x)
      BY <3>1, <3>2, Zenon DEF EndsWith, IsEnded
    <3> QED
      BY <3>3, EndedSteady
  <2> QED
    BY <1>2, <2>1, <2>2
<1>4. \A f \in Engines : en'[f] = IF f = e THEN y ELSE en[f]
  BY <1>1, <1>2
<1>5. UNCHANGED <<q, data, br, main, bypassed>>
  BY DEF OnCommandEvent
<1> QED
  BY <1>3, <1>4, <1>5, ThreadLent

\* The delay before another attempt to connect is over.
LEMMA ConnectDelayEndsLent ==
  ASSUME IInv, LInv, NEW e \in Engines, ConnectDelayEnds(e)
  PROVE  LInv'
<1>1. en \in [Engines -> Engine]
  BY HereGood DEF State
<1>2. PICK y \in Engine : en' = [en EXCEPT ![e] = y] /\ GoesOn(en[e], y)
  BY ConnectDelayEndsShape
<1>3. Steady(en[e], y)
  BY <1>2 DEF GoesOn, Steady
<1>4. \A f \in Engines : en'[f] = IF f = e THEN y ELSE en[f]
  BY <1>1, <1>2
<1>5. UNCHANGED <<q, data, br, main, bypassed>>
  BY DEF ConnectDelayEnds
<1> QED
  BY <1>3, <1>4, <1>5, ThreadLent

\* It carries out a cancellation.
LEMMA DoCancelLent ==
  ASSUME IInv, LInv, NEW e \in Engines, DoCancel(e)
  PROVE  LInv'
<1> DEFINE T(z) == [z EXCEPT !.events = Tail(@)]
<1>1. en \in [Engines -> Engine] /\ en[e] \in Engine
  BY HereGood DEF State
<1>2. "canceled" \in Replies /\ FALSE \in BOOLEAN
  BY DEF Replies
<1>3. PICK z : z = Ended(e, "canceled", FALSE)
  OBVIOUS
<1>4. z \in Engine
  BY <1>2, <1>3, EndedFacts, Zenon
<1>5. PICK x : IsEnded(en[e], z, x)
  BY <1>2, <1>3, EndedShape, Zenon
<1>6. /\ T(en[e]).cmd = en[e].cmd /\ T(en[e]).notes = en[e].notes
      /\ T(z).cmd = z.cmd /\ T(z).notes = z.notes
  BY <1>1, <1>4, ThreadFields
<1>7. PICK y : y = IF en[e].cmd # "none" /\ (en[e].run \/ ~en[e].sock) THEN T(z) ELSE T(en[e])
  OBVIOUS
<1>8. en' = [en EXCEPT ![e] = y]
  <2>1. en' = [en EXCEPT ![e] = IF en[e].cmd # "none" /\ (en[e].run \/ ~en[e].sock)
                                THEN T(Ended(e, "canceled", FALSE)) ELSE T(en[e])]
    BY Zenon DEF DoCancel
  <2> QED
    BY <1>3, <1>7, <2>1, Zenon
<1>9. (y.cmd = en[e].cmd /\ y.notes = en[e].notes) \/ IsEnded(en[e], y, x)
  <2> HIDE DEF T
  <2>1. CASE y = T(en[e])
    BY <1>6, <2>1
  <2>2. CASE y = T(z)
    BY <1>5, <1>6, <2>2 DEF IsEnded
  <2> QED
    BY <1>7, <2>1, <2>2
<1>10. Steady(en[e], y)
  BY <1>9, EndedSteady DEF Steady
<1>11. \A f \in Engines : en'[f] = IF f = e THEN y ELSE en[f]
  BY <1>1, <1>8
<1>12. UNCHANGED <<q, data, br, main, bypassed>>
  BY DEF DoCancel
<1> QED
  BY <1>10, <1>11, <1>12, ThreadLent

\* An operation ends.
LEMMA OperationEndsLent ==
  ASSUME IInv, LInv, NEW e \in Engines, NEW r \in Replies, NEW progress \in BOOLEAN,
         OperationEnds(e, r, progress)
  PROVE  LInv'
<1>1. en \in [Engines -> Engine] /\ en[e] \in Engine
  BY HereGood DEF State
<1>2. PICK z : z = Ended(e, r, progress)
  OBVIOUS
<1>3. z \in Engine
  BY <1>2, EndedFacts, Zenon
<1>4. PICK b \in BOOLEAN : b = IF en[e].cmd = "browse" THEN br.site # None ELSE z.sock
  BY <1>3 DEF Engine
<1>5. PICK y : y = [z EXCEPT !.sock = b]
  OBVIOUS
<1>6. y.cmd = z.cmd /\ y.notes = z.notes
  BY <1>3, <1>5 DEF Engine
<1>7. en' = [en EXCEPT ![e] = y]
  <2>1. en' = [en EXCEPT ![e] = [Ended(e, r, progress) EXCEPT
                 !.sock = IF en[e].cmd = "browse" THEN br.site # None ELSE @]]
    BY Zenon DEF OperationEnds
  <2> QED
    BY <1>2, <1>4, <1>5, <2>1, Zenon
<1>8. PICK x : IsEnded(en[e], z, x)
  BY <1>2, EndedShape, Zenon
<1>9. IsEnded(en[e], y, x)
  BY <1>6, <1>8 DEF IsEnded
<1>10. Steady(en[e], y)
  BY <1>9, EndedSteady
<1>11. \A f \in Engines : en'[f] = IF f = e THEN y ELSE en[f]
  BY <1>1, <1>7
<1>12. UNCHANGED <<q, data, br, main, bypassed>>
  BY DEF OperationEnds
<1> QED
  BY <1>10, <1>11, <1>12, ThreadLent

\* At first nobody asks for the engine.
LEMMA InitLent ==
  ASSUME Init
  PROVE  LInv
<1>1. PICK h : h = Here
  OBVIOUS
<1>2. h.q = q /\ h.data = data /\ h.br = br
  BY <1>1 DEF Here
<1>3. /\ q.list = <<>> /\ data = [e \in Engines |-> NoData]
      /\ br.request = FALSE /\ br.lock = FALSE /\ br.cmds = 0
      /\ main.pc = "idle" /\ main.inside = FALSE
  BY DEF Init
<1>4. Primary \in Engines /\ Primary \notin Range(q.list)
  BY <1>3 DEF Engines, Range
<1>5. \A e \in Engines : ~data[e].active /\ data[e].state # "waitprimary"
  BY <1>3 DEF NoData
<1>6. Lent(h) /\ InUse(h) /\ Locked(h)
  BY <1>2, <1>3, <1>4, <1>5 DEF Lent, Lendable, Served, InUse, Locked, Others
<1>7. ~Using /\ Nested
  BY <1>3 DEF Using, Nested
<1> QED
  BY <1>1, <1>6, <1>7, Zenon DEF LInv

\* Every step keeps the invariant.
LEMMA NextLent ==
  ASSUME IInv, LInv, Next
  PROVE  LInv'
<1>1. CASE \E i \in Items : MakeLocalDir(i) \/ TryStartNextTransfer(i)
  BY <1>1, MakeLocalDirLent, TryStartNextTransferLent
<1>2. CASE AdvanceQueueEnds \/ SendNextCommand
  BY <1>2, AdvanceQueueEndsLent, SendNextCommandLent
<1>3. CASE \E e \in Engines : OnEngineEvent(e) \/ OnTimer(e)
  BY <1>3, OnEngineEventLent, OnTimerLent
<1>4. CASE OnPrimaryEvent \/ OnExclusiveEngineRequestGranted
  BY <1>4, OnPrimaryEventLent, OnExclusiveEngineRequestGrantedLent
<1>5. CASE OnAskPassword \/ PasswordEntered
  BY <1>5, OnAskPasswordLent, PasswordEnteredLent
<1>6. CASE Start \/ Stop \/ RemoveAll \/ Quit
  BY <1>6, StartLent, StopLent, RemoveAllLent, QuitLent
<1>7. CASE \E i \in Items : RequeueFile(i) \/ OnRemoveSelected(i)
  BY <1>7, RequeueFileLent, OnRemoveSelectedLent
<1>8. CASE \E i \in Items, start \in BOOLEAN : QueueFile(i, start)
  BY <1>8, QueueFileLent
<1>9. CASE \E s \in Servers \cup {None} : Browse(s)
  BY <1>9, BrowseLent
<1>10. CASE \E e \in Engines : OnCommandEvent(e) \/ ConnectDelayEnds(e) \/ DoCancel(e)
  BY <1>10, OnCommandEventLent, ConnectDelayEndsLent, DoCancelLent
<1>11. CASE \E e \in Engines : \E r \in Outcomes(en[e].cmd), progress \in BOOLEAN : OperationEnds(e, r, progress)
  BY <1>11, OutcomesAreReplies, OperationEndsLent
<1> QED
  BY <1>1, <1>2, <1>3, <1>4, <1>5, <1>6, <1>7, <1>8, <1>9, <1>10, <1>11 DEF Next

\* So does no step at all.
LEMMA StutterLent ==
  ASSUME LInv, UNCHANGED vars
  PROVE  LInv'
<1>1. UNCHANGED <<q, data, it, br, en, main, bypassed>>
  BY DEF vars
<1>2. PICK h : h = Here
  OBVIOUS
<1>3. h = Here'
  BY <1>1, <1>2 DEF Here
<1>4. (Using' <=> Using) /\ (Nested' <=> Nested)
  BY <1>1 DEF Using, Nested
<1> QED
  BY <1>1, <1>2, <1>3, <1>4, Zenon DEF LInv

\* What the invariant says when nothing is being handled.
LEMMA LentReleased ==
  ASSUME LInv
  PROVE  BrowsingReleased
<1>1. SUFFICES ASSUME main.pc = "idle"
               PROVE  /\ br.request => data[Primary].active
                      /\ br.lock => br.request
                      /\ br.cmds > 0 /\ ~br.lock => PrimaryWorks
                      /\ data[Primary].active /\ data[Primary].state \notin {"waitprimary", "askpassword"} /\ ~bypassed
                           => br.lock /\ en[Primary].cmd # "browse"
  BY Zenon DEF BrowsingReleased
<1>2. PICK h : h = Here
  OBVIOUS
<1>3. h.q = q /\ h.data = data /\ h.br = br /\ h.en = en
  BY <1>2 DEF Here
<1>4. ~main.inside /\ ~Using
  BY <1>1 DEF LInv, Nested, Using
<1>5. Lent(h) /\ InUse(h) /\ (bypassed \/ Locked(h))
  BY <1>2, <1>4, Zenon DEF LInv
<1>6. Busy(Here, Primary) <=> Busy(h, Primary)
  BY <1>2, Zenon
<1>7. br.cmds > 0 /\ ~br.lock => PrimaryWorks
  BY <1>3, <1>5, <1>6 DEF Lent, Served, PrimaryWorks
<1> QED
  BY <1>3, <1>5, <1>7 DEF Lent, Lendable, InUse, Locked

\* The engine of the browsing connection is given back: it is asked for and
\* locked only while the queue uses it, its own commands are executed once it
\* is released, and what the queue does with it, it does under the lock, unless
\* it has been bypassed (QueueView.cpp ResetEngine, commandqueue.cpp).
THEOREM LoanReturned == Spec => []BrowsingReleased
<1>1. Init => LInv
  BY InitLent
<1>2. IInv /\ LInv /\ [Next]_vars => LInv'
  BY NextLent, StutterLent
<1>3. LInv => BrowsingReleased
  BY LentReleased
<1> QED
  BY <1>1, <1>2, <1>3, Invariance, PTL DEF Spec
=============================================================================
