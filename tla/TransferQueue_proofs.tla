------------------------- MODULE TransferQueue_proofs -------------------------
(***************************************************************************)
(* Proofs about the accounts of the transfer queue, for any number of      *)
(* items, servers, engines and actions of the user, and all limits.        *)
(***************************************************************************)
EXTENDS TransferQueue, SequenceTheorems, FiniteSetTheorems, TLAPS

-----------------------------------------------------------------------------
(* Types, which need not be exact for the accounts.                        *)

States == {"none", "disconnect", "connect", "transfer", "list", "mkdir", "askpassword",
           "waitprimary"}
QueueState == [mode : 0..2, quit : 0..2, asking : BOOLEAN, count : Int, down : Int, up : Int,
               server : [Servers -> Int], known : SUBSET (Servers \cup {None}),
               list : Seq(Engines), waiting : Seq(Engines)]
EngineData == [active : BOOLEAN, item : Items \cup {None}, site : Servers \cup {None},
               timer : BOOLEAN, state : States]
Item == [server : Servers, kind : Kinds, where : {"queue", "failed", "successful", "gone"},
         active : BOOLEAN, queued : BOOLEAN, remove : BOOLEAN, progress : BOOLEAN, errors : Nat,
         done : BOOLEAN]
Browsing == [site : Servers \cup {None}, cmds : Int, request : BOOLEAN, lock : BOOLEAN,
             grants : Int, resent : BOOLEAN]
Note == [r : Replies, cmd : Commands, item : Items \cup {None}, progress : BOOLEAN]
Engine == [sock : BOOLEAN, cmd : Commands, item : Items \cup {None}, run : BOOLEAN,
           events : Seq({"cmd", "cancel"}), notes : Seq(Note)]
State == [q : QueueState, data : [Engines -> EngineData], it : [Items -> Item],
          br : Browsing, en : [Engines -> Engine]]

-----------------------------------------------------------------------------
(* The inductive invariant, in terms of a bundle w.                        *)

\* An engine is active only in m_engineData, works on an item only if it is
\* active, on no item that another one works on, and on those that are active.
Listed(w) ==
  /\ \A j, k \in DOMAIN w.q.list : w.q.list[j] = w.q.list[k] => j = k
  /\ \A e \in Engines : w.data[e].active => e \in Range(w.q.list)
Assigned(w) ==
  /\ \A e \in Engines : w.data[e].item # None => w.data[e].active
  /\ \A e, f \in Engines : w.data[e].item = w.data[f].item /\ w.data[e].item # None => e = f
  /\ \A i \in Items : w.it[i].active <=> \E e \in Engines : w.data[e].item = i
  /\ \A i \in Items : w.it[i].active => w.it[i].where = "queue"

\* The engines that are active, and those that work on items of some kind.
Active(w) == {e \in Engines : w.data[e].active}
Working(w, items) == {e \in Engines : w.data[e].item \in items}

Downloads == {i \in Items : Download(i)}
Uploads == Items \ Downloads
Of(s) == {i \in Items : ServerOf(i) = s}

Counted(w) ==
  /\ w.q.count = Cardinality(Active(w))
  /\ w.q.down = Cardinality(Working(w, Downloads))
  /\ w.q.up = Cardinality(Working(w, Uploads))
  /\ \A s \in Servers : w.q.server[s] = Cardinality(Working(w, Of(s)))

\* A handler does not turn an item into another one.
SameItems(w) == \A i \in Items : w.it[i].kind = it[i].kind /\ w.it[i].server = it[i].server

\* The password dialog is for an engine that waits for it.
Asks(w) == w.q.asking => w.q.waiting # <<>>

Good(w) ==
  w \in State /\ SameItems(w) /\ Listed(w) /\ Assigned(w) /\ Counted(w) /\ Asks(w)

\* What the main thread is in the middle of.
Main == [pc : {"idle", "send", "advance"}, e : Engines \cup {None}, inside : BOOLEAN]
Sends == main.pc = "send" => main.e \in Engines

IInv ==
  /\ Good(Here)
  /\ main \in Main /\ Sends

-----------------------------------------------------------------------------
(* What leaves the accounts as they are.                                    *)

\* From u to w only what the accounts do not look at has changed, perhaps with
\* the exception of the list of engines.
KeptBut(u, w) ==
  /\ w.q.count = u.q.count /\ w.q.down = u.q.down /\ w.q.up = u.q.up /\ w.q.server = u.q.server
  /\ \A e \in Engines : w.data[e].active = u.data[e].active /\ w.data[e].item = u.data[e].item
  /\ \A i \in Items : /\ w.it[i].active = u.it[i].active
                      /\ w.it[i].kind = u.it[i].kind /\ w.it[i].server = u.it[i].server
                      /\ w.it[i].active => w.it[i].where = "queue"
  /\ Asks(w)
Kept(u, w) == w.q.list = u.q.list /\ KeptBut(u, w)

\* Such a change keeps the invariant, if every active engine is still listed.
LEMMA RelistedGood ==
  ASSUME NEW u, Good(u), NEW w \in State, KeptBut(u, w), Listed(w)
  PROVE  Good(w)
<1>1. Active(w) = Active(u) /\ \A items : Working(w, items) = Working(u, items)
  BY DEF KeptBut, Active, Working
<1>2. SameItems(w)
  BY DEF Good, KeptBut, SameItems
<1>4. Assigned(w)
  BY DEF Good, KeptBut, Assigned
<1>5. Counted(w)
  BY <1>1 DEF Good, KeptBut, Counted
<1> QED
  BY <1>2, <1>4, <1>5 DEF Good, KeptBut

\* In particular if the list is the same.
LEMMA KeptGood ==
  ASSUME NEW u, Good(u), NEW w \in State, Kept(u, w)
  PROVE  Good(w)
<1>1. Listed(w)
  BY DEF Good, Kept, KeptBut, Listed
<1> QED
  BY <1>1, RelistedGood DEF Kept

\* From u to w only the browsing connection and the engines have changed.
Beside(u, w) ==
  /\ w \in State
  /\ w.q = u.q /\ w.data = u.data /\ w.it = u.it

\* That keeps it as well.
LEMMA BesideGood ==
  ASSUME NEW u, Good(u), NEW w, Beside(u, w)
  PROVE  Good(w)
<1>1. u \in State /\ w \in State
  BY DEF Good, Beside
<1>2. Kept(u, w)
  BY <1>1 DEF Good, Beside, Kept, KeptBut, Assigned, Asks
<1> QED
  BY <1>1, <1>2, KeptGood

\* An engine is given a command.
LEMMA ExecuteBeside ==
  ASSUME NEW w \in State, NEW e \in Engines, NEW c \in Commands
  PROVE  Beside(w, Execute(w, e, c))
<1>1. w.en \in [Engines -> Engine] /\ w.data[e].item \in Items \cup {None}
  BY DEF State, EngineData
<1>2. Append(w.en[e].events, "cmd") \in Seq({"cmd", "cancel"})
  BY <1>1 DEF Engine
<1>3. PICK ev : ev = Append(w.en[e].events, "cmd")
  OBVIOUS
<1>4. PICK k : k = [w.en[e] EXCEPT !.cmd = c, !.item = w.data[e].item, !.events = ev]
  OBVIOUS
<1>5. k \in Engine
  BY <1>1, <1>2, <1>3, <1>4 DEF Engine
<1>6. Execute(w, e, c) = [w EXCEPT !.en = [w.en EXCEPT ![e] = k]]
  BY <1>1, <1>3, <1>4 DEF Execute, Engine, State
<1> QED
  BY <1>1, <1>5, <1>6 DEF Beside, State

\* One change beside the queue after another.
LEMMA BesideTwice ==
  ASSUME NEW u, NEW v, NEW w, Beside(u, v), Beside(v, w)
  PROVE  Beside(u, w)
BY DEF Beside

\* A command is cancelled.
LEMMA CancelBeside ==
  ASSUME NEW w \in State, NEW e \in Engines
  PROVE  Beside(w, Cancel(w, e))
<1>1. w.en \in [Engines -> Engine]
  BY DEF State
<1>2. Append(w.en[e].events, "cancel") \in Seq({"cmd", "cancel"})
  BY <1>1 DEF Engine
<1>3. PICK ev : ev = Append(w.en[e].events, "cancel")
  OBVIOUS
<1>4. PICK k : k = [w.en[e] EXCEPT !.events = ev]
  OBVIOUS
<1>5. k \in Engine
  BY <1>1, <1>2, <1>3, <1>4 DEF Engine
<1>6. Cancel(w, e) = [w EXCEPT !.en = [w.en EXCEPT ![e] = k]] \/ Cancel(w, e) = w
  BY <1>1, <1>3, <1>4 DEF Cancel, Engine, State
<1> QED
  BY <1>1, <1>5, <1>6 DEF Beside, State

\* The exclusive use of the browsing connection's engine is granted.
LEMMA GrantBeside ==
  ASSUME NEW w \in State
  PROVE  Beside(w, GrantExclusiveEngineRequest(w))
<1>1. PICK b : b = [w.br EXCEPT !.lock = TRUE, !.grants = @ + 1]
  OBVIOUS
<1>2. b \in Browsing
  <2>1. w.br \in Browsing
    BY DEF State
  <2>2. w.br.grants + 1 \in Int
    BY <2>1 DEF Browsing
  <2> QED
    BY <1>1, <2>1, <2>2 DEF Browsing
<1>3. GrantExclusiveEngineRequest(w) = [w EXCEPT !.br = b] \/ GrantExclusiveEngineRequest(w) = w
  BY <1>1 DEF GrantExclusiveEngineRequest, State, Browsing
<1> QED
  BY <1>2, <1>3 DEF Beside, State

\* It is asked for.
LEMMA RequestBeside ==
  ASSUME NEW w \in State
  PROVE  Beside(w, RequestExclusiveEngine(w))
<1> DEFINE r == [w EXCEPT !.br.request = TRUE]
<1>1. r \in State /\ Beside(w, r)
  BY DEF State, Browsing, Beside
<1>2. Beside(w, w)
  BY DEF Beside
<1> HIDE DEF r
<1>3. Beside(w, GrantExclusiveEngineRequest(r))
  BY <1>1, GrantBeside, BesideTwice
<1>4. RequestExclusiveEngine(w) \in {w, r, GrantExclusiveEngineRequest(r)}
  BY DEF RequestExclusiveEngine, r
<1> QED
  BY <1>1, <1>2, <1>3, <1>4

\* CCommandQueue::ProcessNextCommand executes a command or grants the engine.
LEMMA ProcessNextBeside ==
  ASSUME NEW w \in State
  PROVE  Beside(w, ProcessNextCommand(w))
<1> DEFINE x == Execute(w, Primary, "browse")
           y == [x EXCEPT !.br.resent = @ \/ w.en[Primary].notes # <<>>]
<1>1. Primary \in Engines /\ "browse" \in Commands
  BY DEF Engines, Commands
<1>2. Beside(w, x)
  BY <1>1, ExecuteBeside
<1>3. Beside(w, y)
  <2> HIDE DEF x
  <2>1. x \in State
    BY <1>2 DEF Beside
  <2>2. PICK b \in BOOLEAN : b = (x.br.resent \/ w.en[Primary].notes # <<>>)
    BY <2>1 DEF State, Browsing
  <2>3. y = [x EXCEPT !.br.resent = b]
    BY <2>2, Zenon
  <2>4. [x EXCEPT !.br.resent = b] \in State
    BY <2>1 DEF State, Browsing
  <2>5. Beside(x, [x EXCEPT !.br.resent = b])
    BY <2>1, <2>4 DEF Beside, State
  <2> QED
    BY <1>2, <2>3, <2>5, BesideTwice
<1>4. Beside(w, w)
  BY DEF Beside
<1>5. Beside(w, GrantExclusiveEngineRequest(w))
  BY GrantBeside
<1>6. ProcessNextCommand(w) \in {w, y, GrantExclusiveEngineRequest(w)}
  BY Zenon DEF ProcessNextCommand
<1> QED
  BY <1>3, <1>4, <1>5, <1>6

\* The engine is given back.
LEMMA ReleaseBeside ==
  ASSUME NEW w \in State
  PROVE  Beside(w, ReleaseEngine(w))
<1> DEFINE r == [w EXCEPT !.br.request = FALSE, !.br.lock = FALSE]
<1>1. r \in State /\ Beside(w, r)
  BY DEF State, Browsing, Beside
<1>2. Beside(w, w)
  BY DEF Beside
<1> HIDE DEF r
<1>3. Beside(w, ProcessNextCommand(r))
  BY <1>1, ProcessNextBeside, BesideTwice
<1>4. ReleaseEngine(w) \in {w, ProcessNextCommand(r)}
  BY DEF ReleaseEngine, r
<1> QED
  BY <1>2, <1>3, <1>4

-----------------------------------------------------------------------------
(* The end of an engine's work, and the beginning.                          *)

\* The sets that are counted are finite; adding or removing an engine.
LEMMA EngineCounts ==
  ASSUME NEW S \in SUBSET Engines, NEW e \in Engines
  PROVE  /\ IsFiniteSet(S) /\ Cardinality(S) \in Nat
         /\ e \in S => Cardinality(S \ {e}) = Cardinality(S) - 1
         /\ e \notin S => Cardinality(S \ {e}) = Cardinality(S)
         /\ e \notin S => Cardinality(S \cup {e}) = Cardinality(S) + 1
         /\ e \in S => Cardinality(S \cup {e}) = Cardinality(S)
<1>1. IsFiniteSet(Engines)
  BY QueueAssumption, FS_AddElement DEF Engines
<1>2. IsFiniteSet(S) /\ Cardinality(S) \in Nat
  BY <1>1, FS_Subset, FS_CardinalityType
<1>3. Cardinality(S \ {e}) = IF e \in S THEN Cardinality(S) - 1 ELSE Cardinality(S)
  BY <1>2, FS_RemoveElement
<1>4. Cardinality(S \cup {e}) = IF e \in S THEN Cardinality(S) ELSE Cardinality(S) + 1
  BY <1>2, FS_AddElement
<1> QED
  BY <1>2, <1>3, <1>4

\* Engine e has ended its work: the counters and the item are given back.
GivenBack(w, v, e) ==
  LET i == w.data[e].item
      one(items) == IF i \in items THEN 1 ELSE 0
  IN /\ v.q.list = w.q.list
     /\ v.q.count = w.q.count - 1
     /\ v.q.down = w.q.down - one(Downloads)
     /\ v.q.up = w.q.up - one(Uploads)
     /\ \A s \in Servers : v.q.server[s] = w.q.server[s] - one(Of(s))
     /\ ~v.data[e].active /\ v.data[e].item = None
     /\ \A f \in Engines \ {e} :
          v.data[f].active = w.data[f].active /\ v.data[f].item = w.data[f].item
     /\ \A j \in Items : /\ v.it[j].active = (w.it[j].active /\ j # i)
                         /\ v.it[j].kind = w.it[j].kind /\ v.it[j].server = w.it[j].server
                         /\ v.it[j].active => v.it[j].where = "queue"
     /\ Asks(v)

\* Then the accounts are right.
LEMMA GivenBackGood ==
  ASSUME NEW w, Good(w), NEW v \in State, NEW e \in Engines, w.data[e].active, GivenBack(w, v, e)
  PROVE  Good(v)
<1>1. w \in State /\ w.data \in [Engines -> EngineData] /\ v.data \in [Engines -> EngineData]
  BY DEF Good, State
<1>2. None \notin Items
  BY QueueAssumption
<1>3. Active(v) = Active(w) \ {e} /\ e \in Active(w)
  BY DEF GivenBack, Active
<1>4. ASSUME NEW items \in SUBSET Items
      PROVE  /\ Working(v, items) = Working(w, items) \ {e}
             /\ e \in Working(w, items) <=> w.data[e].item \in items
  BY <1>2 DEF GivenBack, Working
<1>5. \A items \in SUBSET Items :
        Cardinality(Working(v, items)) = Cardinality(Working(w, items)) - IF w.data[e].item \in items THEN 1 ELSE 0
  <2> TAKE items \in SUBSET Items
  <2>1. Working(w, items) \in SUBSET Engines
    BY DEF Working
  <2>2. /\ e \in Working(w, items) => Cardinality(Working(w, items) \ {e}) = Cardinality(Working(w, items)) - 1
        /\ e \notin Working(w, items) => Cardinality(Working(w, items) \ {e}) = Cardinality(Working(w, items))
        /\ Cardinality(Working(w, items)) \in Nat
    BY <2>1, EngineCounts
  <2>3. Working(v, items) = Working(w, items) \ {e} /\ (e \in Working(w, items) <=> w.data[e].item \in items)
    BY <1>4
  <2> QED
    BY <2>2, <2>3
<1>6. Cardinality(Active(v)) = Cardinality(Active(w)) - 1
  <2>1. Active(w) \in SUBSET Engines
    BY DEF Active
  <2> QED
    BY <1>3, <2>1, EngineCounts
<1>7. Downloads \in SUBSET Items /\ Uploads \in SUBSET Items /\ \A s \in Servers : Of(s) \in SUBSET Items
  BY DEF Downloads, Uploads, Of
<1>8. Counted(v)
  <2>1. Counted(w)
    BY DEF Good
  <2>2. v.q.count = Cardinality(Active(v))
    BY <1>6, <2>1 DEF Counted, GivenBack
  <2>3. v.q.down = Cardinality(Working(v, Downloads)) /\ v.q.up = Cardinality(Working(v, Uploads))
    BY <1>5, <1>7, <2>1 DEF Counted, GivenBack
  <2>4. \A s \in Servers : v.q.server[s] = Cardinality(Working(v, Of(s)))
    BY <1>5, <1>7, <2>1 DEF Counted, GivenBack
  <2> QED
    BY <2>2, <2>3, <2>4 DEF Counted
<1>9. SameItems(v)
  BY DEF Good, GivenBack, SameItems
<1>10. Listed(v)
  BY DEF Good, GivenBack, Listed
<1>11. Assigned(v)
  <2>1. Assigned(w)
    BY DEF Good
  <2>2. \A f \in Engines : v.data[f].item # None => f # e /\ v.data[f].item = w.data[f].item /\ v.data[f].active = w.data[f].active
    BY DEF GivenBack
  <2>3. ASSUME NEW j \in Items PROVE v.it[j].active <=> \E f \in Engines : v.data[f].item = j
    <3>1. v.it[j].active = (w.it[j].active /\ j # w.data[e].item)
      BY DEF GivenBack
    <3>2. \A f \in Engines \ {e} : v.data[f].item = w.data[f].item
      BY DEF GivenBack
    <3>3. v.data[e].item # j
      BY <1>2 DEF GivenBack
    <3>4. w.it[j].active <=> \E f \in Engines : w.data[f].item = j
      BY <2>1 DEF Assigned
    <3>5. \A f, g \in Engines : w.data[f].item = w.data[g].item /\ w.data[f].item # None => f = g
      BY <2>1 DEF Assigned
    <3>6. w.it[j].active \in BOOLEAN /\ v.it[j].active \in BOOLEAN
      BY <1>1 DEF State, Item
    <3> QED
      BY <1>2, <3>1, <3>2, <3>3, <3>4, <3>5, <3>6
  <2> QED
    BY <2>1, <2>2, <2>3 DEF Assigned, GivenBack
<1> QED
  BY <1>8, <1>9, <1>10, <1>11 DEF Good, GivenBack

\* Engine e has begun to work on i, or on no item (to refresh a listing).
TakenUp(w, v, e, i) ==
  LET one(items) == IF i \in items THEN 1 ELSE 0
  IN /\ v.q.list = w.q.list
     /\ v.q.count = w.q.count + 1
     /\ v.q.down = w.q.down + one(Downloads)
     /\ v.q.up = w.q.up + one(Uploads)
     /\ \A s \in Servers : v.q.server[s] = w.q.server[s] + one(Of(s))
     /\ v.data[e].active /\ v.data[e].item = i
     /\ \A f \in Engines \ {e} :
          v.data[f].active = w.data[f].active /\ v.data[f].item = w.data[f].item
     /\ \A j \in Items : /\ v.it[j].active = (w.it[j].active \/ j = i)
                         /\ v.it[j].kind = w.it[j].kind /\ v.it[j].server = w.it[j].server
                         /\ v.it[j].active => v.it[j].where = "queue"
     /\ Asks(v)

\* Then the accounts are right, if neither was active before.
LEMMA TakenUpGood ==
  ASSUME NEW w, Good(w), NEW v \in State, NEW e \in Engines, ~w.data[e].active, e \in Range(w.q.list),
         NEW i \in Items \cup {None}, i # None => ~w.it[i].active, TakenUp(w, v, e, i)
  PROVE  Good(v)
<1>1. w \in State /\ w.data \in [Engines -> EngineData] /\ v.data \in [Engines -> EngineData]
  BY DEF Good, State
<1>2. None \notin Items
  BY QueueAssumption
<1>3. Assigned(w) /\ Listed(w) /\ Counted(w) /\ SameItems(w)
  BY DEF Good
<1>4. w.data[e].item = None
  <2>1. w.data[e].active \in BOOLEAN
    BY <1>1 DEF EngineData
  <2> QED
    BY <1>3, <2>1 DEF Assigned
<1>5. Active(v) = Active(w) \cup {e} /\ e \notin Active(w)
  BY DEF TakenUp, Active
<1>6. ASSUME NEW items \in SUBSET Items
      PROVE  /\ i \in items => Working(v, items) = Working(w, items) \cup {e}
             /\ i \notin items => Working(v, items) = Working(w, items)
             /\ e \notin Working(w, items)
  BY <1>2, <1>4 DEF TakenUp, Working
<1>7. \A items \in SUBSET Items :
        Cardinality(Working(v, items)) = Cardinality(Working(w, items)) + IF i \in items THEN 1 ELSE 0
  <2> TAKE items \in SUBSET Items
  <2>1. Working(w, items) \in SUBSET Engines
    BY DEF Working
  <2>2. /\ e \notin Working(w, items) => Cardinality(Working(w, items) \cup {e}) = Cardinality(Working(w, items)) + 1
        /\ Cardinality(Working(w, items)) \in Nat
    BY <2>1, EngineCounts
  <2>3. CASE i \in items
    <3>1. Working(v, items) = Working(w, items) \cup {e} /\ e \notin Working(w, items)
      BY <1>6, <2>3
    <3> QED
      BY <2>2, <2>3, <3>1
  <2>4. CASE i \notin items
    <3>1. Working(v, items) = Working(w, items)
      BY <1>6, <2>4
    <3> QED
      BY <2>2, <2>4, <3>1
  <2> QED
    BY <2>3, <2>4
<1>8. Cardinality(Active(v)) = Cardinality(Active(w)) + 1
  <2>1. Active(w) \in SUBSET Engines
    BY DEF Active
  <2> QED
    BY <1>5, <2>1, EngineCounts
<1>9. Downloads \in SUBSET Items /\ Uploads \in SUBSET Items /\ \A s \in Servers : Of(s) \in SUBSET Items
  BY DEF Downloads, Uploads, Of
<1>10. Counted(v)
  <2>1. v.q.count = Cardinality(Active(v))
    BY <1>8, <1>3 DEF Counted, TakenUp
  <2>2. v.q.down = Cardinality(Working(v, Downloads)) /\ v.q.up = Cardinality(Working(v, Uploads))
    BY <1>7, <1>9, <1>3 DEF Counted, TakenUp
  <2>3. \A s \in Servers : v.q.server[s] = Cardinality(Working(v, Of(s)))
    BY <1>7, <1>9, <1>3 DEF Counted, TakenUp
  <2> QED
    BY <2>1, <2>2, <2>3 DEF Counted
<1>11. SameItems(v)
  BY <1>3 DEF TakenUp, SameItems
<1>12. Listed(v)
  BY <1>3 DEF TakenUp, Listed
<1>13. Assigned(v)
  <2>1. \A f \in Engines : v.data[f].item # None => v.data[f].active
    BY <1>3 DEF TakenUp, Assigned
  <2>2. \A f \in Engines : i # None => w.data[f].item # i
    BY <1>3 DEF Assigned
  <2>3. ASSUME NEW f \in Engines, NEW g \in Engines, v.data[f].item = v.data[g].item, v.data[f].item # None
        PROVE  f = g
    <3>1. \A h \in Engines \ {e} : v.data[h].item = w.data[h].item
      BY DEF TakenUp
    <3>2. v.data[e].item = i
      BY DEF TakenUp
    <3>3. w.data[f].item = w.data[g].item /\ w.data[f].item # None => f = g
      BY <1>3 DEF Assigned
    <3> QED
      BY <2>2, <2>3, <3>1, <3>2, <3>3
  <2>4. ASSUME NEW j \in Items PROVE v.it[j].active <=> \E f \in Engines : v.data[f].item = j
    <3>1. v.it[j].active = (w.it[j].active \/ j = i)
      BY DEF TakenUp
    <3>2. \A f \in Engines \ {e} : v.data[f].item = w.data[f].item
      BY DEF TakenUp
    <3>3. v.data[e].item = i
      BY DEF TakenUp
    <3>4. w.it[j].active <=> \E f \in Engines : w.data[f].item = j
      BY <1>3 DEF Assigned
    <3>5. w.it[j].active \in BOOLEAN /\ v.it[j].active \in BOOLEAN
      BY <1>1 DEF State, Item
    <3>6. CASE j = i
      BY <3>1, <3>3, <3>5, <3>6
    <3>7. CASE j # i
      BY <1>2, <1>4, <3>1, <3>2, <3>3, <3>4, <3>5, <3>7
    <3> QED
      BY <3>6, <3>7
  <2> QED
    BY <2>1, <2>3, <2>4 DEF Assigned, TakenUp
<1> QED
  BY <1>10, <1>11, <1>12, <1>13 DEF Good, TakenUp

Reasons == {"reset", "failure", "success", "remove", "retry"}

\* What becomes of the item.
LEMMA ItemAfterFacts ==
  ASSUME NEW i \in Item, NEW reason \in Reasons
  PROVE  /\ ItemAfter(i, reason) \in Item /\ ~ItemAfter(i, reason).active
         /\ ItemAfter(i, reason).kind = i.kind /\ ItemAfter(i, reason).server = i.server
BY DEF ItemAfter, Item, Reasons

\* The counters and item i are given back, before the engine is.
Uncounted(w, u, i) ==
  LET one(items) == IF i \in items THEN 1 ELSE 0
  IN /\ u \in State /\ u.data = w.data /\ u.br = w.br /\ u.en = w.en
     /\ u.q.list = w.q.list /\ u.q.waiting = w.q.waiting /\ u.q.asking = w.q.asking
     /\ u.q.count = w.q.count - 1
     /\ u.q.down = w.q.down - one(Downloads)
     /\ u.q.up = w.q.up - one(Uploads)
     /\ \A s \in Servers : u.q.server[s] = w.q.server[s] - one(Of(s))
     /\ \A j \in Items : /\ u.it[j].active = (w.it[j].active /\ j # i)
                         /\ u.it[j].kind = w.it[j].kind /\ u.it[j].server = w.it[j].server
                         /\ j # i => u.it[j] = w.it[j]

\* That is what Uncount does.
LEMMA UncountFacts ==
  ASSUME NEW w, Good(w), NEW e \in Engines, w.data[e].active, NEW reason \in Reasons
  PROVE  Uncounted(w, Uncount(w, e, reason), w.data[e].item)
<1>1. w \in State /\ w.q \in QueueState /\ w.it \in [Items -> Item] /\ w.data \in [Engines -> EngineData]
  BY DEF Good, State
<1>2. None \notin Items /\ w.data[e].item \in Items \cup {None}
  BY <1>1, QueueAssumption DEF EngineData
<1>3. CASE w.data[e].item = None
  <2>1. PICK n \in Int : n = w.q.count - 1
    BY <1>1 DEF QueueState
  <2>2. PICK p : p = [w.q EXCEPT !.count = n]
    OBVIOUS
  <2>3. Uncount(w, e, reason) = [w EXCEPT !.q = p]
    BY <1>1, <1>3, <2>1, <2>2 DEF Uncount, QueueState, State
  <2>4. p \in QueueState /\ p.count = n /\ p.down = w.q.down /\ p.up = w.q.up /\ p.server = w.q.server
    BY <1>1, <2>2 DEF QueueState
  <2>5. p.list = w.q.list /\ p.waiting = w.q.waiting /\ p.asking = w.q.asking
    BY <1>1, <2>2 DEF QueueState
  <2>6. PICK u : u = Uncount(w, e, reason)
    OBVIOUS
  <2>7. u \in State /\ u.q = p /\ u.data = w.data /\ u.br = w.br /\ u.en = w.en /\ u.it = w.it
    <3>1. u = [w EXCEPT !.q = p]
      BY <2>3, <2>6, Zenon
    <3>2. p \in QueueState
      BY <2>4
    <3> QED
      BY <1>1, <3>1, <3>2 DEF State
  <2>8. PICK i : i = w.data[e].item
    OBVIOUS
  <2>9. i \notin Downloads /\ i \notin Uploads /\ \A s \in Servers : i \notin Of(s)
    BY <1>2, <1>3, <2>8 DEF Downloads, Uploads, Of
  <2>10. /\ w.q.down \in Int /\ w.q.up \in Int /\ \A s \in Servers : w.q.server[s] \in Int
         /\ \A j \in Items : w.it[j].active \in BOOLEAN
    BY <1>1 DEF QueueState, Item
  <2>11. /\ p.count = w.q.count - 1
         /\ p.down = w.q.down - IF i \in Downloads THEN 1 ELSE 0
         /\ p.up = w.q.up - IF i \in Uploads THEN 1 ELSE 0
         /\ \A s \in Servers : p.server[s] = w.q.server[s] - IF i \in Of(s) THEN 1 ELSE 0
    BY <2>1, <2>4, <2>9, <2>10
  <2>12. \A j \in Items : w.it[j].active = (w.it[j].active /\ j # i)
    BY <1>2, <1>3, <2>8, <2>10
  <2>13. \A j \in Items : /\ u.it[j].active = (w.it[j].active /\ j # i)
                          /\ u.it[j].kind = w.it[j].kind /\ u.it[j].server = w.it[j].server
                          /\ j # i => u.it[j] = w.it[j]
    BY <2>7, <2>12, Zenon
  <2>14. /\ u.q.count = w.q.count - 1
         /\ u.q.down = w.q.down - IF i \in Downloads THEN 1 ELSE 0
         /\ u.q.up = w.q.up - IF i \in Uploads THEN 1 ELSE 0
         /\ \A s \in Servers : u.q.server[s] = w.q.server[s] - IF i \in Of(s) THEN 1 ELSE 0
         /\ u.q.list = w.q.list /\ u.q.waiting = w.q.waiting /\ u.q.asking = w.q.asking
    BY <2>5, <2>7, <2>11, Zenon
  <2> QED
    <3>1. Uncounted(w, u, i)
      BY <2>7, <2>13, <2>14, Zenon DEF Uncounted
    <3> QED
      BY <2>6, <2>8, <3>1, Zenon
<1>4. CASE w.data[e].item \in Items
  <2>1. PICK i \in Items : i = w.data[e].item
    BY <1>4
  <2>2. PICK s \in Servers : s = ServerOf(i)
    BY <1>1, <2>1 DEF ServerOf, Good, SameItems, Item
  <2>3. PICK c, dn, up, m, x :
          /\ c = w.q.count - 1
          /\ dn = IF Download(i) THEN w.q.down - 1 ELSE w.q.down
          /\ up = IF Download(i) THEN w.q.up ELSE w.q.up - 1
          /\ m = w.q.server[s] - 1
          /\ x = ItemAfter(w.it[i], reason)
    OBVIOUS
  <2>4. c \in Int /\ dn \in Int /\ up \in Int /\ m \in Int
    <3>1. w.q.count \in Int /\ w.q.down \in Int /\ w.q.up \in Int /\ w.q.server[s] \in Int
      BY <1>1 DEF QueueState
    <3> QED
      BY <2>3, <3>1
  <2>5. x \in Item /\ ~x.active /\ x.kind = w.it[i].kind /\ x.server = w.it[i].server
    BY <1>1, <2>3, ItemAfterFacts
  <2>6. PICK p : p = [w.q EXCEPT !.count = c, !.server = [w.q.server EXCEPT ![s] = m], !.down = dn, !.up = up]
    OBVIOUS
  <2>7. PICK t : t = [w.it EXCEPT ![i] = x]
    OBVIOUS
  <2>8. i # None
    BY <1>2
  <2>9. Uncount(w, e, reason) = [w EXCEPT !.q.count = c, !.q.server[s] = m, !.q.down = dn, !.q.up = up, !.it[i] = x]
    BY <2>1, <2>2, <2>3, <2>8, Zenon DEF Uncount
  <2>10. [w EXCEPT !.q.count = c, !.q.server[s] = m, !.q.down = dn, !.q.up = up, !.it[i] = x] = [w EXCEPT !.q = p, !.it = t]
    BY <1>1, <2>6, <2>7 DEF State, QueueState
  <2>11. Uncount(w, e, reason) = [w EXCEPT !.q = p, !.it = t]
    BY <2>9, <2>10, Zenon
  <2>12. PICK u : u = Uncount(w, e, reason)
    OBVIOUS
  <2>13. /\ p \in QueueState /\ p.count = c /\ p.down = dn /\ p.up = up /\ p.server = [w.q.server EXCEPT ![s] = m]
    BY <1>1, <2>4, <2>6 DEF QueueState
  <2>20. p.list = w.q.list /\ p.waiting = w.q.waiting /\ p.asking = w.q.asking
    BY <1>1, <2>4, <2>6 DEF QueueState
  <2>14. t \in [Items -> Item]
    BY <1>1, <2>5, <2>7
  <2>15. u \in State /\ u.q = p /\ u.it = t /\ u.data = w.data /\ u.br = w.br /\ u.en = w.en
    <3>1. u = [w EXCEPT !.q = p, !.it = t]
      BY <2>11, <2>12, Zenon
    <3>2. p \in QueueState
      BY <2>13
    <3> QED
      BY <1>1, <2>14, <3>1, <3>2 DEF State
  <2>16. /\ i \in Downloads <=> Download(i)
         /\ i \in Uploads <=> ~Download(i)
         /\ \A r \in Servers : i \in Of(r) <=> r = s
    BY <2>2 DEF Downloads, Uploads, Of
  <2>17. /\ p.count = w.q.count - 1
         /\ p.down = w.q.down - IF i \in Downloads THEN 1 ELSE 0
         /\ p.up = w.q.up - IF i \in Uploads THEN 1 ELSE 0
    <3>1. w.q.down \in Int /\ w.q.up \in Int
      BY <1>1 DEF QueueState
    <3>2. p.count = w.q.count - 1
      BY <2>3, <2>13, Zenon
    <3>3. CASE Download(i)
      <4>1. i \in Downloads /\ i \notin Uploads
        BY <2>16, <3>3
      <4>2. p.down = w.q.down - 1 /\ p.up = w.q.up
        BY <2>3, <2>13, <3>3, Zenon
      <4> QED
        BY <3>1, <3>2, <4>1, <4>2
    <3>4. CASE ~Download(i)
      <4>1. i \notin Downloads /\ i \in Uploads
        BY <2>16, <3>4
      <4>2. p.down = w.q.down /\ p.up = w.q.up - 1
        BY <2>3, <2>13, <3>4, Zenon
      <4> QED
        BY <3>1, <3>2, <4>1, <4>2
    <3> QED
      BY <3>3, <3>4
  <2>18. \A r \in Servers : p.server[r] = w.q.server[r] - IF i \in Of(r) THEN 1 ELSE 0
    <3>1. w.q.server \in [Servers -> Int]
      BY <1>1 DEF QueueState
    <3>2. p.server = [w.q.server EXCEPT ![s] = w.q.server[s] - 1]
      BY <2>3, <2>13, Zenon
    <3> QED
      BY <2>16, <3>1, <3>2
  <2>19. \A j \in Items : /\ t[j].active = (w.it[j].active /\ j # i)
                          /\ t[j].kind = w.it[j].kind /\ t[j].server = w.it[j].server
                          /\ j # i => t[j] = w.it[j]
    BY <1>1, <2>5, <2>7 DEF Item
  <2> QED
    <3>1. Uncounted(w, u, i)
      BY <2>15, <2>17, <2>18, <2>19, <2>20, Zenon DEF Uncounted
    <3> QED
      BY <2>1, <2>12, <3>1, Zenon
<1> QED
  BY <1>2, <1>3, <1>4

\* ResetEngine keeps the accounts.  Only the counters of the queue change.
LEMMA ResetGood ==
  ASSUME NEW w, Good(w), NEW e \in Engines, NEW reason \in Reasons,
         NEW v, v = ResetEngine(w, e, reason)
  PROVE  /\ Good(v)
         /\ v.q.list = w.q.list /\ v.q.waiting = w.q.waiting /\ v.q.asking = w.q.asking
         /\ ~v.data[e].active /\ v.data[e].item = None
         /\ \A f \in Engines \ {e} : v.data[f] = w.data[f]
<1>1. w \in State /\ w.data \in [Engines -> EngineData] /\ w.data[e].active \in BOOLEAN
  BY DEF Good, State, EngineData
<1>2. CASE ~w.data[e].active
  <2>1. w.data[e].item = None
    BY <1>1, <1>2 DEF Good, Assigned
  <2>2. v = w
    BY <1>2 DEF ResetEngine
  <2> QED
    BY <1>2, <2>1, <2>2
<1>3. CASE w.data[e].active
  <2>1. PICK u : u = Uncount(w, e, reason)
    OBVIOUS
  <2>2. Uncounted(w, u, w.data[e].item)
    BY <1>3, <2>1, UncountFacts, Zenon
  <2>3. PICK r : r = IF w.data[e].state = "waitprimary" THEN ReleaseEngine(u) ELSE u
    OBVIOUS
  <2>4. Beside(u, r)
    <3>1. u \in State
      BY <2>2 DEF Uncounted
    <3>2. Beside(u, u) /\ Beside(u, ReleaseEngine(u))
      BY <3>1, ReleaseBeside DEF Beside
    <3> QED
      BY <2>3, <3>2, Zenon
  <2>5. v = [r EXCEPT !.data[e].active = FALSE, !.data[e].item = None, !.data[e].state = "none"]
    BY <1>3, <2>1, <2>3, Zenon DEF ResetEngine
  <2>6. r \in State /\ r.data = w.data /\ r.q = u.q /\ r.it = u.it
    BY <2>2, <2>4 DEF Uncounted, Beside
  <2>7. /\ v \in State /\ v.q = u.q /\ v.it = u.it
        /\ ~v.data[e].active /\ v.data[e].item = None
        /\ \A f \in Engines \ {e} : v.data[f] = w.data[f]
    <3>1. r \in State /\ r.data = w.data
      BY <2>6
    <3>2. /\ v \in State /\ v.q = r.q /\ v.it = r.it
          /\ ~v.data[e].active /\ v.data[e].item = None
          /\ \A f \in Engines \ {e} : v.data[f] = w.data[f]
      <4>1. PICK x : x = [w.data[e] EXCEPT !.active = FALSE, !.item = None, !.state = "none"]
        OBVIOUS
      <4>2. x \in EngineData /\ ~x.active /\ x.item = None
        BY <1>1, <4>1 DEF EngineData, States
      <4>3. [r EXCEPT !.data[e].active = FALSE, !.data[e].item = None, !.data[e].state = "none"]
              = [r EXCEPT !.data = [r.data EXCEPT ![e] = [r.data[e] EXCEPT !.active = FALSE, !.item = None, !.state = "none"]]]
        BY <3>1 DEF State, EngineData
      <4>4. v = [r EXCEPT !.data = [w.data EXCEPT ![e] = x]]
        BY <2>5, <3>1, <4>1, <4>3, Zenon
      <4>5. [w.data EXCEPT ![e] = x] \in [Engines -> EngineData]
        BY <1>1, <4>2
      <4>6. PICK y : y = [r EXCEPT !.data = [w.data EXCEPT ![e] = x]]
        OBVIOUS
      <4>7. /\ y \in State /\ y.q = r.q /\ y.it = r.it /\ y.data = [w.data EXCEPT ![e] = x]
        BY <3>1, <4>5, <4>6 DEF State
      <4>8. y.data[e] = x /\ \A f \in Engines \ {e} : y.data[f] = w.data[f]
        BY <1>1, <4>7
      <4>9. v = y
        BY <4>4, <4>6, Zenon
      <4> QED
        BY <4>2, <4>7, <4>8, <4>9, Zenon
    <3> QED
      BY <2>6, <3>2, Zenon
  <2>8. w.q \in QueueState /\ w.it \in [Items -> Item]
    BY <1>1 DEF State
  <2>9. u.q.list = w.q.list /\ u.q.waiting = w.q.waiting /\ u.q.asking = w.q.asking
    BY <2>2 DEF Uncounted
  <2>10. \A j \in Items : v.it[j].active => v.it[j].where = "queue"
    <3> TAKE j \in Items
    <3>1. u.it[j].active = (w.it[j].active /\ j # w.data[e].item) /\ (j # w.data[e].item => u.it[j] = w.it[j])
      BY <2>2 DEF Uncounted
    <3>2. w.it[j].active => w.it[j].where = "queue"
      BY DEF Good, Assigned
    <3> QED
      BY <2>7, <3>1, <3>2, Zenon
  <2>11. Asks(v)
    BY <2>7, <2>9, Zenon DEF Asks, Good
  <2>12. GivenBack(w, v, e)
    <3>1. \A j \in Items : /\ v.it[j].active = (w.it[j].active /\ j # w.data[e].item)
                           /\ v.it[j].kind = w.it[j].kind /\ v.it[j].server = w.it[j].server
      BY <2>2, <2>7, Zenon DEF Uncounted
    <3>2. /\ v.q.count = w.q.count - 1
          /\ v.q.down = w.q.down - (IF w.data[e].item \in Downloads THEN 1 ELSE 0)
          /\ v.q.up = w.q.up - (IF w.data[e].item \in Uploads THEN 1 ELSE 0)
          /\ \A s \in Servers : v.q.server[s] = w.q.server[s] - IF w.data[e].item \in Of(s) THEN 1 ELSE 0
      BY <2>2, <2>7, Zenon DEF Uncounted
    <3> QED
      BY <2>7, <2>9, <2>10, <2>11, <3>1, <3>2, Zenon DEF GivenBack
  <2>13. Good(v)
    BY <1>3, <2>7, <2>12, GivenBackGood
  <2> QED
    BY <2>7, <2>9, <2>13, Zenon
<1> QED
  BY <1>1, <1>2, <1>3

-----------------------------------------------------------------------------
(* The list of engines.                                                     *)

Injective(list) == \A j, k \in DOMAIN list : list[j] = list[k] => j = k

\* An engine leaves the list.
LEMMA WithoutFacts ==
  ASSUME NEW list \in Seq(Engines), Injective(list), NEW e \in Range(list)
  PROVE  /\ Without(list, e) \in Seq(Engines)
         /\ Injective(Without(list, e))
         /\ Range(Without(list, e)) = Range(list) \ {e}
<1>1. \E k \in DOMAIN list : list[k] = e
  BY DEF Range
<1>2. PICK i \in DOMAIN list : i = CHOOSE k \in DOMAIN list : list[k] = e
  BY <1>1
<1>3. list[i] = e /\ i \in 1..Len(list) /\ Len(list) \in Nat /\ DOMAIN list = 1..Len(list)
  BY <1>1, <1>2
<1>4. PICK a : a = SubSeq(list, 1, i - 1)
  OBVIOUS
<1>5. PICK b : b = SubSeq(list, i + 1, Len(list))
  OBVIOUS
<1>6. a \in Seq(Engines) /\ Len(a) = i - 1 /\ \A k \in 1..i - 1 : a[k] = list[k]
  <2>1. \A k \in 1..i - 1 : list[k] \in Engines
    BY <1>3
  <2> QED
    BY <1>3, <1>4, <2>1, SubSeqProperties
<1>7. b \in Seq(Engines) /\ Len(b) = Len(list) - i /\ \A k \in 1..Len(list) - i : b[k] = list[i + k]
  <2>1. i + 1 \in 1..Len(list) + 1 /\ Len(list) \in (i + 1) - 1..Len(list)
    BY <1>3
  <2>2. \A k \in i + 1..Len(list) : list[k] \in Engines
    BY <1>3
  <2>3. /\ b \in Seq(Engines) /\ Len(b) = Len(list) - (i + 1) + 1
        /\ \A k \in 1..Len(list) - (i + 1) + 1 : b[k] = list[(i + 1) + k - 1]
    BY <1>5, <2>1, <2>2, SubSeqProperties
  <2>4. \A k \in 1..Len(list) - i : k \in 1..Len(list) - (i + 1) + 1 /\ (i + 1) + k - 1 = i + k
    BY <1>3
  <2> QED
    BY <1>3, <2>3, <2>4
<1>8. PICK r : r = a \o b
  OBVIOUS
<1>9. r \in Seq(Engines) /\ Len(r) = Len(list) - 1
      /\ \A k \in 1..Len(list) - 1 : r[k] = IF k < i THEN list[k] ELSE list[k + 1]
  <2>1. /\ r \in Seq(Engines) /\ Len(r) = Len(a) + Len(b)
        /\ \A k \in 1..Len(a) + Len(b) : r[k] = IF k <= Len(a) THEN a[k] ELSE b[k - Len(a)]
    BY <1>6, <1>7, <1>8, ConcatProperties
  <2>2. Len(a) + Len(b) = Len(list) - 1
    BY <1>3, <1>6, <1>7
  <2>3. ASSUME NEW k \in 1..Len(list) - 1 PROVE r[k] = IF k < i THEN list[k] ELSE list[k + 1]
    <3>1. r[k] = IF k <= Len(a) THEN a[k] ELSE b[k - Len(a)]
      BY <2>1, <2>2
    <3>2. CASE k < i
      <4>1. k \in 1..i - 1 /\ k <= Len(a)
        BY <1>3, <1>6, <3>2
      <4> QED
        BY <1>6, <3>1, <3>2, <4>1
    <3>3. CASE ~(k < i)
      <4>1. k - (i - 1) \in 1..Len(list) - i /\ ~(k <= Len(a)) /\ i + (k - (i - 1)) = k + 1 /\ k - Len(a) = k - (i - 1)
        BY <1>3, <1>6, <3>3
      <4> QED
        BY <1>7, <3>1, <3>3, <4>1
    <3> QED
      BY <3>2, <3>3
  <2> QED
    BY <2>1, <2>2, <2>3
<1>10. Without(list, e) = r
  BY <1>2, <1>4, <1>5, <1>8, Zenon DEF Without, RemoveAt
<1>11. DOMAIN r = 1..Len(list) - 1
  BY <1>9
<1>12. Injective(r)
  <2>1. \A p, n \in 1..Len(list) : list[p] = list[n] => p = n
    BY <1>3 DEF Injective
  <2>2. ASSUME NEW k \in 1..Len(list) - 1, NEW m \in 1..Len(list) - 1, r[k] = r[m] PROVE k = m
    <3>1. PICK p \in 1..Len(list) : p = IF k < i THEN k ELSE k + 1
      BY <1>3
    <3>2. PICK n \in 1..Len(list) : n = IF m < i THEN m ELSE m + 1
      BY <1>3
    <3>3. r[k] = list[p] /\ r[m] = list[n]
      BY <1>9, <3>1, <3>2
    <3>4. p = n
      BY <2>1, <2>2, <3>3
    <3> QED
      BY <1>3, <3>1, <3>2, <3>4
  <2> QED
    BY <1>11, <2>2 DEF Injective
<1>13. ASSUME NEW x \in Range(r) PROVE x \in Range(list) \ {e}
  <2>1. PICK k \in 1..Len(list) - 1 : x = r[k]
    BY <1>11 DEF Range
  <2>2. PICK n \in 1..Len(list) : n # i /\ x = list[n]
    <3>1. CASE k < i
      BY <1>3, <1>9, <2>1, <3>1
    <3>2. CASE ~(k < i)
      BY <1>3, <1>9, <2>1, <3>2
    <3> QED
      BY <3>1, <3>2
  <2> QED
    BY <1>3, <2>2 DEF Range, Injective
<1>14. ASSUME NEW x \in Range(list) \ {e} PROVE x \in Range(r)
  <2>1. PICK n \in 1..Len(list) : x = list[n]
    BY <1>3 DEF Range
  <2>2. n # i
    BY <1>3, <2>1
  <2>3. PICK k \in 1..Len(list) - 1 : r[k] = x
    <3>1. CASE n < i
      BY <1>3, <1>9, <2>1, <3>1
    <3>2. CASE n > i
      <4>1. n - 1 \in 1..Len(list) - 1 /\ ~(n - 1 < i) /\ (n - 1) + 1 = n
        BY <1>3, <3>2
      <4> QED
        BY <1>9, <2>1, <4>1
    <3> QED
      BY <1>3, <2>2, <3>1, <3>2
  <2> QED
    BY <1>11, <2>3 DEF Range
<1>15. Range(r) = Range(list) \ {e}
  BY <1>13, <1>14
<1> QED
  BY <1>9, <1>10, <1>12, <1>15, Zenon

\* An engine joins the list, if it is not there.
LEMMA JoinFacts ==
  ASSUME NEW list \in Seq(Engines), Injective(list), NEW e \in Engines, e \notin Range(list)
  PROVE  /\ Append(list, e) \in Seq(Engines)
         /\ Injective(Append(list, e))
         /\ Range(Append(list, e)) = Range(list) \cup {e}
<1>1. PICK r : r = Append(list, e)
  OBVIOUS
<1>2. /\ r \in Seq(Engines) /\ Len(r) = Len(list) + 1 /\ r[Len(list) + 1] = e
      /\ \A k \in 1..Len(list) : r[k] = list[k]
      /\ DOMAIN r = 1..Len(list) + 1 /\ DOMAIN list = 1..Len(list) /\ Len(list) \in Nat
  BY <1>1, AppendProperties
<1>3. \A k \in 1..Len(list) + 1 : k = Len(list) + 1 \/ k \in 1..Len(list)
  BY <1>2
<1>4. \A k \in 1..Len(list) : list[k] # e
  BY <1>2 DEF Range
<1>5. Injective(r)
  BY <1>2, <1>3, <1>4 DEF Injective
<1>6. Range(r) = Range(list) \cup {e}
  BY <1>2, <1>3 DEF Range
<1> QED
  BY <1>1, <1>2, <1>5, <1>6, Zenon

-----------------------------------------------------------------------------
(* Small changes of the bundle.                                             *)

\* The state of an engine is set.
LEMMA StateGood ==
  ASSUME NEW w, Good(w), NEW e \in Engines, NEW state \in States
  PROVE  /\ Good([w EXCEPT !.data[e].state = state])
         /\ [w EXCEPT !.data[e].state = state].q = w.q
         /\ [w EXCEPT !.data[e].state = state].it = w.it
         /\ [w EXCEPT !.data[e].state = state].en = w.en
         /\ [w EXCEPT !.data[e].state = state].br = w.br
         /\ \A f \in Engines : /\ [w EXCEPT !.data[e].state = state].data[f].active = w.data[f].active
                               /\ [w EXCEPT !.data[e].state = state].data[f].item = w.data[f].item
                               /\ [w EXCEPT !.data[e].state = state].data[f].site = w.data[f].site
                               /\ f # e => [w EXCEPT !.data[e].state = state].data[f] = w.data[f]
<1>1. PICK v : v = [w EXCEPT !.data[e].state = state]
  OBVIOUS
<1>2. w \in State
  BY DEF Good
<1>6. PICK x : x = w.data[e]
  OBVIOUS
<1>7. PICK y : y = [x EXCEPT !.state = state]
  OBVIOUS
<1>8. x \in EngineData
  BY <1>2, <1>6 DEF State
<1>9. y \in EngineData /\ y.active = x.active /\ y.item = x.item /\ y.site = x.site
  BY <1>7, <1>8 DEF EngineData
<1>10. PICK d : d = [w.data EXCEPT ![e] = y]
  OBVIOUS
<1>11. /\ d \in [Engines -> EngineData] /\ d[e] = y
       /\ \A f \in Engines : f # e => d[f] = w.data[f]
  <2>1. y \in EngineData /\ w.data \in [Engines -> EngineData]
    BY <1>2, <1>9 DEF State
  <2> QED
    BY <1>10, <2>1
<1>12. v = [w EXCEPT !.data = d]
  BY <1>1, <1>6, <1>7, <1>10, Zenon
<1>13. v \in State /\ v.q = w.q /\ v.it = w.it /\ v.en = w.en /\ v.br = w.br /\ v.data = d
  <2>1. d \in [Engines -> EngineData]
    BY <1>11
  <2> QED
    BY <1>2, <1>12, <2>1 DEF State
<1>3. /\ v \in State /\ v.q = w.q /\ v.it = w.it /\ v.en = w.en /\ v.br = w.br
      /\ \A f \in Engines : /\ v.data[f].active = w.data[f].active /\ v.data[f].item = w.data[f].item
                            /\ v.data[f].site = w.data[f].site
                            /\ f # e => v.data[f] = w.data[f]
  <2>1. d[e].active = w.data[e].active /\ d[e].item = w.data[e].item /\ d[e].site = w.data[e].site
    BY <1>6, <1>9, <1>11, Zenon
  <2>2. \A f \in Engines : /\ d[f].active = w.data[f].active /\ d[f].item = w.data[f].item
                            /\ d[f].site = w.data[f].site
    BY <1>11, <2>1, Zenon
  <2> QED
    BY <1>11, <1>13, <2>2, Zenon
<1>4. Kept(w, v)
  BY <1>3 DEF Good, Kept, KeptBut, Assigned, Asks
<1>5. Good(v)
  BY <1>3, <1>4, KeptGood
<1> QED
  BY <1>1, <1>3, <1>5, Zenon

\* The queue's own variables are set, but for the accounts.
LEMMA QueueGood ==
  ASSUME NEW w, Good(w), NEW p \in QueueState,
         p.list = w.q.list, p.count = w.q.count, p.down = w.q.down, p.up = w.q.up, p.server = w.q.server,
         p.asking => p.waiting # <<>>
  PROVE  Good([w EXCEPT !.q = p])
<1>1. PICK v : v = [w EXCEPT !.q = p]
  OBVIOUS
<1>2. w \in State
  BY DEF Good
<1>3. v \in State /\ v.q = p /\ v.it = w.it /\ v.data = w.data
  BY <1>1, <1>2 DEF State
<1>4. Kept(w, v)
  BY <1>3 DEF Good, Kept, KeptBut, Assigned, Asks
<1> QED
  BY <1>1, <1>3, <1>4, KeptGood, Zenon

\* Items change, but not in what the accounts look at.
LEMMA ItemsGood ==
  ASSUME NEW w, Good(w), NEW t \in [Items -> Item],
         \A i \in Items : /\ t[i].active = w.it[i].active /\ t[i].kind = w.it[i].kind
                          /\ t[i].server = w.it[i].server
                          /\ t[i].active => t[i].where = w.it[i].where
  PROVE  Good([w EXCEPT !.it = t])
<1>1. PICK v : v = [w EXCEPT !.it = t]
  OBVIOUS
<1>2. w \in State
  BY DEF Good
<1>3. v \in State /\ v.q = w.q /\ v.it = t /\ v.data = w.data
  BY <1>1, <1>2 DEF State
<1>4. Kept(w, v)
  BY <1>3 DEF Good, Kept, KeptBut, Assigned, Asks
<1> QED
  BY <1>1, <1>3, <1>4, KeptGood, Zenon

\* Engines are idle: their data change.
LEMMA DataGood ==
  ASSUME NEW w, Good(w), NEW d \in [Engines -> EngineData],
         \A e \in Engines : d[e].active = w.data[e].active /\ d[e].item = w.data[e].item
  PROVE  Good([w EXCEPT !.data = d])
<1>1. PICK v : v = [w EXCEPT !.data = d]
  OBVIOUS
<1>2. w \in State
  BY DEF Good
<1>3. v \in State /\ v.q = w.q /\ v.it = w.it /\ v.data = d
  BY <1>1, <1>2 DEF State
<1>4. Kept(w, v)
  BY <1>3 DEF Good, Kept, KeptBut, Assigned, Asks
<1> QED
  BY <1>1, <1>3, <1>4, KeptGood, Zenon

\* The timers of idle engines.
LEMMA IdleTimersGood ==
  ASSUME NEW w, Good(w)
  PROVE  /\ Good(IdleTimers(w)) /\ IdleTimers(w).q = w.q /\ IdleTimers(w).br = w.br
         /\ \A e \in Engines : IdleTimers(w).data[e].active = w.data[e].active
<1>1. PICK d : d = [e \in Engines |->
                      IF e \in Range(w.q.list) /\ e # Primary /\ ~w.data[e].active
                      THEN [w.data[e] EXCEPT !.timer = w.en[e].sock] ELSE w.data[e]]
  OBVIOUS
<1>2. IdleTimers(w) = [w EXCEPT !.data = d]
  BY <1>1, Zenon DEF IdleTimers
<1>3. w \in State /\ w.data \in [Engines -> EngineData] /\ w.en \in [Engines -> Engine]
  BY DEF Good, State
<1>4. ASSUME NEW e \in Engines
      PROVE  d[e] \in EngineData /\ d[e].active = w.data[e].active /\ d[e].item = w.data[e].item
  <2>1. w.data[e] \in EngineData /\ w.en[e].sock \in BOOLEAN
    BY <1>3 DEF Engine
  <2>2. d[e] = w.data[e] \/ d[e] = [w.data[e] EXCEPT !.timer = w.en[e].sock]
    BY <1>1, Zenon
  <2> QED
    BY <2>1, <2>2 DEF EngineData
<1>5. d \in [Engines -> EngineData]
  <2>1. d = [e \in Engines |-> d[e]]
    BY <1>1
  <2> QED
    BY <1>4, <2>1
<1>6. Good([w EXCEPT !.data = d])
  BY <1>4, <1>5, DataGood
<1>7. PICK v : v = [w EXCEPT !.data = d]
  OBVIOUS
<1>8. v.q = w.q /\ v.br = w.br /\ v.data = d
  BY <1>3, <1>7 DEF State
<1> QED
  BY <1>2, <1>4, <1>6, <1>7, <1>8, Zenon

-----------------------------------------------------------------------------
(* CheckQueueState and what it calls.                                       *)

\* A refresh of a listing takes up an idle engine, unless the program quits.
LEMMA TryRefreshGood ==
  ASSUME NEW w, Good(w), NEW refresh, NEW v, v = TryRefreshListings(w, refresh)
  PROVE  Good(v) /\ (w.q.quit # 0 => v = w) /\ v.q.quit = w.q.quit
<1>1. CASE refresh \notin Refreshable(w)
  <2>1. v = w
    BY <1>1 DEF TryRefreshListings
  <2> QED
    BY <2>1
<1>2. CASE refresh \in Refreshable(w)
  <2>1. w \in State /\ w.q \in QueueState
    BY DEF Good, State
  <2>2. PICK e \in Engines : e = refresh
    <3>1. refresh \in Range(w.q.list)
      BY <1>2 DEF Refreshable
    <3>2. w.q.list \in Seq(Engines)
      BY <2>1 DEF QueueState
    <3> QED
      BY <3>1, <3>2 DEF Range
  <2>3. w.q.quit = 0 /\ ~w.data[e].active /\ e \in Range(w.q.list)
    BY <1>2, <2>2 DEF Refreshable
  <2>4. PICK x : x = Execute(w, e, "list")
    OBVIOUS
  <2>5. Beside(w, x) /\ x \in State
    BY <2>1, <2>4, ExecuteBeside DEF Commands, Beside
  <2>6. v = [x EXCEPT !.q.count = @ + 1, !.data[e].active = TRUE, !.data[e].state = "list"]
    BY <1>2, <2>2, <2>4, Zenon DEF TryRefreshListings
  <2>7. PICK p : p = [x.q EXCEPT !.count = x.q.count + 1]
    OBVIOUS
  <2>8. PICK d : d = [x.data EXCEPT ![e] = [x.data[e] EXCEPT !.active = TRUE, !.state = "list"]]
    OBVIOUS
  <2>9. v = [x EXCEPT !.q = p, !.data = d]
    <3>1. [x EXCEPT !.q.count = @ + 1, !.data[e].active = TRUE, !.data[e].state = "list"] = [x EXCEPT !.q = p, !.data = d]
      BY <2>5, <2>7, <2>8, ZenonT(60) DEF State, QueueState, EngineData
    <3> QED
      BY <2>6, <3>1, Zenon
  <2>10. p \in QueueState /\ p.count = x.q.count + 1 /\ p.list = x.q.list /\ p.quit = x.q.quit
         /\ p.down = x.q.down /\ p.up = x.q.up /\ p.server = x.q.server
         /\ p.asking = x.q.asking /\ p.waiting = x.q.waiting
    <3>1. x.q \in QueueState
      BY <2>5 DEF State
    <3>2. PICK z : z = x.q
      OBVIOUS
    <3>3. PICK n : n = z.count + 1
      OBVIOUS
    <3>4. z \in QueueState
      BY <3>1, <3>2, Zenon
    <3>5. n \in Int
      BY <3>3, <3>4 DEF QueueState
    <3>6. p = [z EXCEPT !.count = n]
      BY <2>7, <3>2, <3>3, Zenon
    <3>7. p \in QueueState /\ p.count = n /\ p.list = z.list /\ p.quit = z.quit
          /\ p.down = z.down /\ p.up = z.up /\ p.server = z.server
          /\ p.asking = z.asking /\ p.waiting = z.waiting
      BY <3>4, <3>5, <3>6 DEF QueueState
    <3> QED
      BY <3>2, <3>3, <3>7, Zenon
  <2>11. /\ d \in [Engines -> EngineData] /\ d[e].active /\ d[e].item = x.data[e].item
         /\ \A f \in Engines \ {e} : d[f] = x.data[f]
    <3>1. x.data \in [Engines -> EngineData]
      BY <2>5 DEF State
    <3> QED
      BY <2>8, <3>1 DEF EngineData, States
  <2>12. PICK y : y = [x EXCEPT !.q = p, !.data = d]
    OBVIOUS
  <2>13. y \in State /\ y.q = p /\ y.data = d /\ y.it = x.it
    BY <2>5, <2>10, <2>11, <2>12 DEF State
  <2>14. x.q = w.q /\ x.data = w.data /\ x.it = w.it
    BY <2>5 DEF Beside
  <2>15. w.data[e].item = None
    <3>1. w.data[e].active \in BOOLEAN
      BY <2>1 DEF State, EngineData
    <3> QED
      BY <2>3, <3>1 DEF Good, Assigned
  <2>16. TakenUp(w, y, e, None)
    <3>1. None \notin Items
      BY QueueAssumption
    <3>2. None \notin Downloads /\ None \notin Uploads /\ \A s \in Servers : None \notin Of(s)
      BY <3>1 DEF Downloads, Uploads, Of
    <3>3. /\ y.q.count = w.q.count + 1 /\ y.q.list = w.q.list /\ y.q.down = w.q.down
          /\ y.q.up = w.q.up /\ y.q.server = w.q.server /\ y.data[e].active /\ y.data[e].item = None
          /\ y.it = w.it /\ \A f \in Engines \ {e} : y.data[f] = w.data[f]
      BY <2>10, <2>11, <2>13, <2>14, <2>15, Zenon
    <3>4. Asks(y)
      BY <2>10, <2>13, <2>14, Zenon DEF Asks, Good
    <3>5. w.q.down \in Int /\ w.q.up \in Int /\ w.q.server \in [Servers -> Int]
      BY <2>1 DEF QueueState
    <3>6. \A j \in Items : /\ w.it[j].active \in BOOLEAN /\ j # None
                           /\ w.it[j].active => w.it[j].where = "queue"
      BY <2>1, <3>1 DEF State, Item, Good, Assigned
    <3> QED
      BY <3>2, <3>3, <3>4, <3>5, <3>6 DEF TakenUp
  <2>17. Good(y)
    BY <2>3, <2>13, <2>16, TakenUpGood
  <2>18. v = y /\ y.q.quit = w.q.quit
    BY <2>9, <2>10, <2>12, <2>13, <2>14, Zenon
  <2> QED
    BY <2>3, <2>17, <2>18, Zenon
<1> QED
  BY <1>1, <1>2

\* No engine is active if the count is zero.
LEMMA NobodyActive ==
  ASSUME NEW w, Good(w), w.q.count = 0
  PROVE  \A e \in Engines : ~w.data[e].active
<1>1. Cardinality(Active(w)) = 0 /\ Active(w) \in SUBSET Engines
  BY DEF Good, Counted, Active
<1>2. ASSUME NEW e \in Engines, w.data[e].active PROVE FALSE
  <2>1. e \in Active(w)
    BY <1>2 DEF Active
  <2>2. Cardinality(Active(w) \ {e}) = Cardinality(Active(w)) - 1 /\ Active(w) \ {e} \in SUBSET Engines
    BY <1>1, <2>1, EngineCounts
  <2>3. Cardinality(Active(w) \ {e}) \in Nat
    BY <2>2, EngineCounts
  <2> QED
    BY <1>1, <2>2, <2>3
<1> QED
  BY <1>2

\* The engines are deleted when none is active.
LEMMA DeleteEnginesGood ==
  ASSUME NEW w, Good(w), \A e \in Engines : ~w.data[e].active
  PROVE  Good(DeleteEngines(w))
<1>1. w \in State /\ w.q \in QueueState
  BY DEF Good, State
<1>2. PICK p : p = [w.q EXCEPT !.list = <<>>, !.quit = 2]
  OBVIOUS
<1>3. PICK d : d = [e \in Engines |-> NoData]
  OBVIOUS
<1>4. DeleteEngines(w) = [w EXCEPT !.q = p, !.data = d]
  BY <1>1, <1>2, <1>3 DEF DeleteEngines, State, QueueState
<1>5. p \in QueueState /\ p.list = <<>> /\ p.count = w.q.count /\ p.down = w.q.down /\ p.up = w.q.up
      /\ p.server = w.q.server /\ p.asking = w.q.asking /\ p.waiting = w.q.waiting
  <2>1. PICK l : l = <<>> /\ l \in Seq(Engines)
    <3>1. <<>> \in Seq(Engines)
      OBVIOUS
    <3> QED
      BY <3>1
  <2>2. p = [w.q EXCEPT !.list = l, !.quit = 2]
    BY <1>2, <2>1, Zenon
  <2>3. p \in QueueState /\ p.list = l /\ p.count = w.q.count /\ p.down = w.q.down /\ p.up = w.q.up
        /\ p.server = w.q.server /\ p.asking = w.q.asking /\ p.waiting = w.q.waiting
    <3>1. l \in Seq(Engines) /\ w.q \in QueueState
      BY <1>1, <2>1
    <3>2. PICK z : z = w.q
      OBVIOUS
    <3>3. z \in QueueState
      BY <3>1, <3>2, Zenon
    <3>4. PICK y : y = [z EXCEPT !.list = l]
      OBVIOUS
    <3>5. y \in QueueState /\ y.list = l /\ y.count = z.count /\ y.down = z.down /\ y.up = z.up
          /\ y.server = z.server /\ y.asking = z.asking /\ y.waiting = z.waiting
      BY <3>1, <3>3, <3>4 DEF QueueState
    <3>6. p = [y EXCEPT !.quit = 2]
      <4>1. [z EXCEPT !.list = l, !.quit = 2] = [[z EXCEPT !.list = l] EXCEPT !.quit = 2]
        BY <3>3 DEF QueueState
      <4> QED
        BY <2>2, <3>2, <3>4, <4>1, Zenon
    <3>7. y \in QueueState
      BY <3>5
    <3>8. p \in QueueState /\ p.list = y.list /\ p.count = y.count /\ p.down = y.down /\ p.up = y.up
          /\ p.server = y.server /\ p.asking = y.asking /\ p.waiting = y.waiting
      <4>1. PICK k \in 0..2 : k = 2
        OBVIOUS
      <4>2. PICK x : x = [y EXCEPT !.quit = k]
        OBVIOUS
      <4>3. x \in QueueState
        BY <3>7, <4>2 DEF QueueState
      <4>4. x.list = y.list /\ x.count = y.count /\ x.down = y.down /\ x.up = y.up
            /\ x.server = y.server /\ x.asking = y.asking /\ x.waiting = y.waiting
        BY <3>7, <4>2 DEF QueueState
      <4>5. p = x
        BY <3>6, <4>1, <4>2, Zenon
      <4> QED
        BY <4>3, <4>4, <4>5, Zenon
    <3> QED
      BY <3>2, <3>5, <3>8, Zenon
  <2> QED
    BY <2>1, <2>3, Zenon
<1>6. d \in [Engines -> EngineData] /\ \A e \in Engines : ~d[e].active /\ d[e].item = None
  BY <1>3 DEF NoData, EngineData, States
<1>7. PICK v : v = [w EXCEPT !.q = p, !.data = d]
  OBVIOUS
<1>8. v \in State /\ v.q = p /\ v.data = d /\ v.it = w.it
  BY <1>1, <1>5, <1>6, <1>7 DEF State
<1>10. \A e \in Engines : w.data[e].item = None /\ w.data[e].active = FALSE
  <2>1. \A e \in Engines : w.data[e].active \in BOOLEAN
    BY <1>1 DEF State, EngineData
  <2> QED
    BY <2>1 DEF Good, Assigned
<1>11. \A e \in Engines : v.data[e].active = w.data[e].active /\ v.data[e].item = w.data[e].item
  <2>1. \A e \in Engines : v.data[e].active = FALSE
    BY <1>3, <1>8 DEF NoData
  <2> QED
    BY <1>6, <1>8, <1>10, <2>1
<1>12. KeptBut(w, v)
  <2>1. Asks(v)
    BY <1>5, <1>8, Zenon DEF Asks, Good
  <2>2. \A j \in Items : w.it[j].active => w.it[j].where = "queue"
    BY DEF Good, Assigned
  <2> QED
    BY <1>5, <1>8, <1>11, <2>1, <2>2, Zenon DEF KeptBut
<1>13. Listed(v)
  BY <1>5, <1>6, <1>8 DEF Listed
<1>14. Good(v)
  BY <1>8, <1>12, <1>13, RelistedGood
<1> QED
  BY <1>4, <1>7, <1>14, Zenon

\* The borrowed engine, idle, leaves the list, is forgotten and given back.
LEMMA ForgetPrimaryGood ==
  ASSUME NEW w, Good(w), Primary \in Range(w.q.list), ~w.data[Primary].active,
         NEW v, v = [w EXCEPT !.q.list = Without(@, Primary), !.data[Primary] = NoData]
  PROVE  Good(v) /\ v.q.quit = w.q.quit /\ v.q.count = w.q.count /\ v.q.mode = w.q.mode
<1>1. w \in State /\ w.q \in QueueState /\ w.data \in [Engines -> EngineData] /\ Primary \in Engines
  BY DEF Good, State, Engines
<1>2. PICK l : l = Without(w.q.list, Primary)
  OBVIOUS
<1>3. l \in Seq(Engines) /\ Injective(l) /\ Range(l) = Range(w.q.list) \ {Primary}
  <2>1. w.q.list \in Seq(Engines)
    BY <1>1 DEF QueueState
  <2>2. Injective(w.q.list)
    BY Zenon DEF Good, Listed, Injective
  <2>3. /\ Without(w.q.list, Primary) \in Seq(Engines)
        /\ Injective(Without(w.q.list, Primary))
        /\ Range(Without(w.q.list, Primary)) = Range(w.q.list) \ {Primary}
    BY <2>1, <2>2, WithoutFacts
  <2> QED
    BY <1>2, <2>3, Zenon
<1>4. NoData \in EngineData /\ NoData.item = None /\ NoData.active = FALSE
  BY DEF NoData, EngineData, States
<1>5. PICK p : p = [w.q EXCEPT !.list = l]
  OBVIOUS
<1>6. PICK d : d = [w.data EXCEPT ![Primary] = NoData]
  OBVIOUS
<1>7. v = [w EXCEPT !.q = p, !.data = d]
  <2>1. v = [w EXCEPT !.q.list = l, !.data[Primary] = NoData]
    BY <1>2, Zenon
  <2>2. [w EXCEPT !.q.list = l, !.data[Primary] = NoData] = [w EXCEPT !.q = p, !.data = d]
    BY <1>1, <1>5, <1>6 DEF State, QueueState
  <2> QED
    BY <2>1, <2>2, Zenon
<1>8. p \in QueueState /\ p.list = l /\ p.count = w.q.count /\ p.down = w.q.down /\ p.up = w.q.up
      /\ p.server = w.q.server /\ p.asking = w.q.asking /\ p.waiting = w.q.waiting
      /\ p.quit = w.q.quit /\ p.mode = w.q.mode
  <2>1. l \in Seq(Engines)
    BY <1>3
  <2> QED
    BY <1>1, <1>5, <2>1 DEF QueueState
<1>9. d \in [Engines -> EngineData] /\ d[Primary] = NoData /\ \A f \in Engines \ {Primary} : d[f] = w.data[f]
  BY <1>1, <1>4, <1>6
<1>10. PICK y : y = [w EXCEPT !.q = p, !.data = d]
  OBVIOUS
<1>11. y \in State /\ y.q = p /\ y.data = d /\ y.it = w.it
  BY <1>1, <1>8, <1>9, <1>10 DEF State
<1>12. w.data[Primary].active = FALSE /\ w.data[Primary].item = None
  <2>1. w.data[Primary].active \in BOOLEAN
    BY <1>1 DEF EngineData
  <2> QED
    BY <1>1, <2>1 DEF Good, Assigned
<1>13. \A e \in Engines : y.data[e].active = w.data[e].active /\ y.data[e].item = w.data[e].item
  BY <1>4, <1>9, <1>11, <1>12
<1>14. KeptBut(w, y)
  <2>1. Asks(y)
    BY <1>8, <1>11, Zenon DEF Asks, Good
  <2>2. \A j \in Items : w.it[j].active => w.it[j].where = "queue"
    BY DEF Good, Assigned
  <2> QED
    BY <1>8, <1>11, <1>13, <2>1, <2>2, Zenon DEF KeptBut
<1>15. Listed(y)
  <2>1. \A e \in Engines : w.data[e].active => e \in Range(w.q.list)
    BY DEF Good, Listed
  <2>2. \A e \in Engines : y.data[e].active => e \in Range(l)
    BY <1>3, <1>12, <1>13, <2>1
  <2>3. Injective(l) /\ y.q.list = l
    BY <1>3, <1>8, <1>11, Zenon
  <2> QED
    BY <2>2, <2>3, Zenon DEF Listed, Injective
<1>16. Good(y)
  BY <1>11, <1>14, <1>15, RelistedGood
<1> QED
  BY <1>7, <1>8, <1>10, <1>11, <1>16, Zenon

\* The mode of the queue is set, or the program is to quit.
LEMMA ModeGood ==
  ASSUME NEW w, Good(w), NEW m \in 0..2
  PROVE  /\ Good([w EXCEPT !.q.mode = m])
         /\ [w EXCEPT !.q.mode = m].data = w.data
         /\ [w EXCEPT !.q.mode = m].en = w.en
         /\ [w EXCEPT !.q.mode = m].br = w.br
         /\ [w EXCEPT !.q.mode = m].it = w.it
         /\ [w EXCEPT !.q.mode = m].q.quit = w.q.quit
         /\ [w EXCEPT !.q.mode = m].q.list = w.q.list
         /\ [w EXCEPT !.q.mode = m].q.waiting = w.q.waiting
         /\ [w EXCEPT !.q.mode = m].q.count = w.q.count
<1>1. w \in State /\ w.q \in QueueState
  BY DEF Good, State
<1>2. PICK z : z = w.q
  OBVIOUS
<1>3. z \in QueueState
  BY <1>1, <1>2, Zenon
<1>4. PICK p : p = [z EXCEPT !.mode = m]
  OBVIOUS
<1>5. p \in QueueState /\ p.list = z.list /\ p.count = z.count /\ p.down = z.down /\ p.up = z.up
      /\ p.server = z.server /\ p.asking = z.asking /\ p.waiting = z.waiting /\ p.quit = z.quit
  BY <1>3, <1>4 DEF QueueState
<1>6. z.asking => z.waiting # <<>>
  BY <1>2, Zenon DEF Good, Asks
<1>7. p.list = w.q.list /\ p.count = w.q.count /\ p.down = w.q.down /\ p.up = w.q.up
      /\ p.server = w.q.server /\ p.quit = w.q.quit /\ p.waiting = w.q.waiting
  BY <1>2, <1>5, Zenon
<1>8. p.asking => p.waiting # <<>>
  BY <1>5, <1>6, Zenon
<1>9. p \in QueueState
  BY <1>5
<1>10. Good([w EXCEPT !.q = p])
  BY <1>7, <1>8, <1>9, QueueGood, Zenon
<1>11. [w EXCEPT !.q.mode = m] = [w EXCEPT !.q = p]
  <2>1. [w EXCEPT !.q.mode = m] = [w EXCEPT !.q = [w.q EXCEPT !.mode = m]]
    BY <1>1 DEF State
  <2> QED
    BY <1>2, <1>4, <2>1, Zenon
<1>12. PICK v : v = [w EXCEPT !.q = p]
  OBVIOUS
<1>13. v.q = p /\ v.data = w.data /\ v.en = w.en /\ v.br = w.br /\ v.it = w.it
  BY <1>1, <1>12 DEF State
<1> QED
  BY <1>7, <1>10, <1>11, <1>12, <1>13, Zenon

\* CheckQueueState keeps the accounts.
LEMMA CheckQueueStateGood ==
  ASSUME NEW w, Good(w), NEW refresh
  PROVE  Good(CheckQueueState(w, refresh))
<1>1. PICK b : b = [w EXCEPT !.q.list = Without(@, Primary), !.data[Primary] = NoData]
  OBVIOUS
<1>2. PICK u : u = IF Primary \in Range(w.q.list) /\ ~w.data[Primary].active THEN ReleaseEngine(b) ELSE w
  OBVIOUS
<1>3. Good(u)
  <2>1. CASE Primary \in Range(w.q.list) /\ ~w.data[Primary].active
    <3>1. Good(b)
      BY <1>1, <2>1, ForgetPrimaryGood, Zenon
    <3>2. b \in State
      BY <3>1 DEF Good
    <3>3. Good(ReleaseEngine(b))
      BY <3>1, <3>2, ReleaseBeside, BesideGood
    <3> QED
      BY <1>2, <2>1, <3>3, Zenon
  <2>2. CASE ~(Primary \in Range(w.q.list) /\ ~w.data[Primary].active)
    BY <1>2, <2>2, Zenon
  <2> QED
    BY <2>1, <2>2
<1>4. PICK x : x = [u EXCEPT !.q.mode = 0]
  OBVIOUS
<1>5. Good(x) /\ x.q.quit = u.q.quit /\ x.data = u.data
  <2>1. 0 \in 0..2
    OBVIOUS
  <2> QED
    BY <1>3, <1>4, <2>1, ModeGood, Zenon
<1>6. PICK v : v = IF u.q.count = 0 /\ u.q.mode # 0 THEN TryRefreshListings(x, refresh) ELSE u
  OBVIOUS
<1>7. Good(v) /\ (u.q.quit # 0 => v.data = u.data)
  <2>1. CASE u.q.count = 0 /\ u.q.mode # 0
    <3>1. v = TryRefreshListings(x, refresh)
      BY <1>6, <2>1, Zenon
    <3>2. Good(v) /\ (x.q.quit # 0 => v = x)
      BY <1>5, <3>1, TryRefreshGood
    <3> QED
      BY <1>5, <3>2, Zenon
  <2>2. CASE ~(u.q.count = 0 /\ u.q.mode # 0)
    BY <1>3, <1>6, <2>2, Zenon
  <2> QED
    BY <2>1, <2>2
<1>8. CheckQueueState(w, refresh) = IF u.q.count = 0 /\ u.q.quit = 1 THEN DeleteEngines(v) ELSE v
  <2> DEFINE C == Primary \in Range(w.q.list) /\ ~w.data[Primary].active
             B == [w EXCEPT !.q.list = Without(@, Primary), !.data[Primary] = NoData]
             U == IF C THEN ReleaseEngine(B) ELSE w
             X(y) == [y EXCEPT !.q.mode = 0]
             V(y) == IF y.q.count = 0 /\ y.q.mode # 0 THEN TryRefreshListings(X(y), refresh) ELSE y
             R(y) == IF y.q.count = 0 /\ y.q.quit = 1 THEN DeleteEngines(V(y)) ELSE V(y)
  <2>1. CheckQueueState(w, refresh) = R(U)
    BY Zenon DEF CheckQueueState
  <2>2. u = U
    <3>1. b = B
      BY <1>1, Zenon
    <3> HIDE DEF B
    <3>2. u = IF C THEN ReleaseEngine(b) ELSE w
      BY <1>2, Zenon
    <3> HIDE DEF C
    <3>3. (IF C THEN ReleaseEngine(b) ELSE w) = IF C THEN ReleaseEngine(B) ELSE w
      <4>1. CASE C
        BY <3>1, <4>1, Zenon
      <4>2. CASE ~C
        BY <4>2, Zenon
      <4> QED
        BY <4>1, <4>2, Zenon
    <3> QED
      BY <3>2, <3>3, Zenon
  <2>3. x = X(u)
    BY <1>4, Zenon
  <2>4. v = V(u)
    BY <1>6, <2>3, Zenon
  <2> HIDE DEF U, V
  <2>5. R(U) = R(u)
    BY <2>2, Zenon
  <2>6. R(u) = IF u.q.count = 0 /\ u.q.quit = 1 THEN DeleteEngines(v) ELSE v
    BY <2>4, Zenon
  <2> QED
    BY <2>1, <2>5, <2>6, Zenon
<1>9. CASE u.q.count = 0 /\ u.q.quit = 1
  <2>1. \A e \in Engines : ~u.data[e].active
    BY <1>3, <1>9, NobodyActive
  <2>2. v.data = u.data
    BY <1>7, <1>9
  <2>3. \A e \in Engines : ~v.data[e].active
    BY <2>1, <2>2, Zenon
  <2>4. Good(DeleteEngines(v))
    BY <1>7, <2>3, DeleteEnginesGood
  <2> QED
    BY <1>8, <1>9, <2>4, Zenon
<1>10. CASE ~(u.q.count = 0 /\ u.q.quit = 1)
  BY <1>7, <1>8, <1>10, Zenon
<1> QED
  BY <1>9, <1>10

-----------------------------------------------------------------------------
(* SetActive(false) and the steps of the main thread.                       *)

\* Only the engines have changed.
LEMMA EnginesBeside ==
  ASSUME NEW w \in State, NEW n \in [Engines -> Engine]
  PROVE  Beside(w, [w EXCEPT !.en = n])
BY DEF Beside, State

\* The items of a queue that is stopped are no longer immediate.
LEMMA ImmediateGood ==
  ASSUME NEW w, Good(w)
  PROVE  /\ Good(QueueImmediateFiles(w)) /\ QueueImmediateFiles(w).q = w.q
         /\ QueueImmediateFiles(w).data = w.data /\ QueueImmediateFiles(w).en = w.en
<1>1. w \in State /\ w.it \in [Items -> Item]
  BY DEF Good, State
<1>2. PICK t : t = [i \in Items |-> IF w.it[i].where = "queue" /\ ~w.it[i].active
                                    THEN [w.it[i] EXCEPT !.queued = TRUE] ELSE w.it[i]]
  OBVIOUS
<1>3. ASSUME NEW i \in Items
      PROVE  /\ t[i] \in Item /\ t[i].active = w.it[i].active /\ t[i].kind = w.it[i].kind
             /\ t[i].server = w.it[i].server /\ t[i].where = w.it[i].where
  <2>1. w.it[i] \in Item
    BY <1>1
  <2>2. t[i] = w.it[i] \/ t[i] = [w.it[i] EXCEPT !.queued = TRUE]
    BY <1>2, Zenon
  <2> QED
    BY <2>1, <2>2 DEF Item
<1>4. t \in [Items -> Item]
  <2>1. t = [i \in Items |-> t[i]]
    BY <1>2
  <2> QED
    BY <1>3, <2>1
<1>5. Good([w EXCEPT !.it = t])
  BY <1>3, <1>4, ItemsGood
<1>6. QueueImmediateFiles(w) = [w EXCEPT !.it = t]
  BY <1>2, Zenon DEF QueueImmediateFiles
<1>7. PICK v : v = [w EXCEPT !.it = t]
  OBVIOUS
<1>8. v.q = w.q /\ v.data = w.data /\ v.en = w.en
  BY <1>1, <1>7 DEF State
<1> QED
  BY <1>5, <1>6, <1>7, <1>8, Zenon

\* SetActive(false) keeps the accounts.
LEMMA DeactivateGood ==
  ASSUME NEW w, Good(w)
  PROVE  Good(Deactivate(w))
<1> DEFINE W == [w EXCEPT !.q.mode = 0]
           H == {e \in Range(w.q.list) : w.data[e].active} \ Missed(w)
           N(x) == [e \in Engines |-> IF e \in H \ (IF Waits(w) THEN {Primary} ELSE {}) /\ Busy(w, e)
                                      THEN [x.en[e] EXCEPT !.events = Append(@, "cancel")] ELSE x.en[e]]
           V(x) == [x EXCEPT !.en = N(x)]
           D(x) == IF Waits(w) THEN CheckQueueState(IdleTimers(ResetEngine(V(x), Primary, "reset")), None) ELSE V(x)
<1>1. PICK u : u = QueueImmediateFiles(W)
  OBVIOUS
<1>2. Good(u)
  <2>1. 0 \in 0..2
    OBVIOUS
  <2>2. Good(W)
    BY <2>1, ModeGood, Zenon
  <2> QED
    BY <1>1, <2>2, ImmediateGood, Zenon
<1>3. u \in State /\ u.en \in [Engines -> Engine]
  BY <1>2 DEF Good, State
<1>4. N(u) \in [Engines -> Engine]
  <2>1. ASSUME NEW e \in Engines
        PROVE  [u.en[e] EXCEPT !.events = Append(@, "cancel")] \in Engine
    <3>1. u.en[e] \in Engine /\ Append(u.en[e].events, "cancel") \in Seq({"cmd", "cancel"})
      BY <1>3 DEF Engine
    <3>2. PICK ev : ev = Append(u.en[e].events, "cancel")
      OBVIOUS
    <3>3. PICK z : z = u.en[e]
      OBVIOUS
    <3>4. z \in Engine /\ ev \in Seq({"cmd", "cancel"})
      BY <3>1, <3>2, <3>3, Zenon
    <3>5. [z EXCEPT !.events = ev] \in Engine
      BY <3>4 DEF Engine
    <3> QED
      BY <3>2, <3>3, <3>5, Zenon
  <2>2. \A e \in Engines : u.en[e] \in Engine
    BY <1>3
  <2>3. \A e \in Engines : N(u)[e] \in {u.en[e], [u.en[e] EXCEPT !.events = Append(@, "cancel")]}
    BY Zenon
  <2> HIDE DEF H
  <2> QED
    BY <2>1, <2>2, Zenon
<1>5. Good(V(u))
  <2>1. PICK n : n = N(u)
    OBVIOUS
  <2>2. n \in [Engines -> Engine]
    BY <1>4, <2>1, Zenon
  <2>3. Beside(u, [u EXCEPT !.en = n])
    BY <1>3, <2>2, EnginesBeside
  <2>4. Good([u EXCEPT !.en = n])
    BY <1>2, <2>3, BesideGood
  <2> QED
    BY <2>1, <2>4, Zenon
<1>6. Good(D(u))
  <2> HIDE DEF V
  <2>1. CASE Waits(w)
    <3>1. Primary \in Engines /\ "reset" \in Reasons
      BY DEF Engines, Reasons
    <3>2. Good(ResetEngine(V(u), Primary, "reset"))
      BY <1>5, <3>1, ResetGood
    <3>3. Good(IdleTimers(ResetEngine(V(u), Primary, "reset")))
      BY <3>2, IdleTimersGood
    <3>4. Good(CheckQueueState(IdleTimers(ResetEngine(V(u), Primary, "reset")), None))
      BY <3>3, CheckQueueStateGood
    <3> QED
      BY <2>1, <3>4, Zenon
  <2>2. CASE ~Waits(w)
    BY <1>5, <2>2, Zenon
  <2> QED
    BY <2>1, <2>2
<1>7. Deactivate(w) = D(QueueImmediateFiles(W))
  BY Zenon DEF Deactivate
<1>8. D(QueueImmediateFiles(W)) = D(u)
  <2> HIDE DEF D
  <2> QED
    BY <1>1, Zenon
<1> QED
  BY <1>6, <1>7, <1>8, Zenon

\* Another try is counted.
LEMMA TriedGood ==
  ASSUME NEW w, Good(w), NEW e \in Engines
  PROVE  /\ Good(Tried(w, e)) /\ Tried(w, e).q = w.q /\ Tried(w, e).data = w.data
         /\ Tried(w, e).en = w.en /\ Tried(w, e).br = w.br
<1>1. w \in State /\ w.it \in [Items -> Item]
  BY DEF Good, State
<1>2. PICK i : i = w.data[e].item
  OBVIOUS
<1>3. PICK t : t = [w.it EXCEPT ![i].errors = @ + 1]
  OBVIOUS
<1>4. Tried(w, e) = [w EXCEPT !.it = t]
  <2>1. Tried(w, e) = [w EXCEPT !.it[i].errors = @ + 1]
    BY <1>2, Zenon DEF Tried
  <2>2. [w EXCEPT !.it[i].errors = @ + 1] = [w EXCEPT !.it = [w.it EXCEPT ![i].errors = @ + 1]]
    BY <1>1 DEF State
  <2> QED
    BY <1>3, <2>1, <2>2, Zenon
<1>5. /\ t \in [Items -> Item]
      /\ \A j \in Items : /\ t[j].active = w.it[j].active /\ t[j].kind = w.it[j].kind
                          /\ t[j].server = w.it[j].server /\ t[j].where = w.it[j].where
  <2>1. CASE i \in Items
    <3>1. w.it[i] \in Item /\ w.it[i].errors + 1 \in Nat
      BY <1>1, <2>1 DEF Item
    <3>2. PICK n : n = w.it[i].errors + 1
      OBVIOUS
    <3>3. PICK z : z = w.it[i]
      OBVIOUS
    <3>4. PICK x : x = [z EXCEPT !.errors = n]
      OBVIOUS
    <3>5. z \in Item /\ n \in Nat
      BY <3>1, <3>2, <3>3, Zenon
    <3>6. x \in Item /\ x.active = z.active /\ x.kind = z.kind /\ x.server = z.server /\ x.where = z.where
      BY <3>4, <3>5 DEF Item
    <3>7. t = [w.it EXCEPT ![i] = x]
      BY <1>3, <3>2, <3>3, <3>4, Zenon
    <3>8. x.active = w.it[i].active /\ x.kind = w.it[i].kind /\ x.server = w.it[i].server /\ x.where = w.it[i].where
      BY <3>3, <3>6, Zenon
    <3>9. x \in Item
      BY <3>6
    <3> QED
      BY <1>1, <3>7, <3>8, <3>9
  <2>2. CASE i \notin Items
    <3>1. t = w.it
      BY <1>1, <1>3, <2>2
    <3> QED
      BY <1>1, <3>1, Zenon
  <2> QED
    BY <2>1, <2>2
<1>6. Good([w EXCEPT !.it = t])
  BY <1>5, ItemsGood
<1>7. PICK v : v = [w EXCEPT !.it = t]
  OBVIOUS
<1>8. v.q = w.q /\ v.data = w.data /\ v.en = w.en /\ v.br = w.br
  BY <1>1, <1>7 DEF State
<1> QED
  BY <1>4, <1>6, <1>7, <1>8, Zenon

\* A handler's result w, once it is the state, is as good.
LEMMA BecomesGood ==
  ASSUME NEW w, Good(w), Becomes(w)
  PROVE  Good(Here)'
<1>1. w \in State
  BY DEF Good
<1>2. w.q = q' /\ w.data = data' /\ w.it = it' /\ w.br = br' /\ w.en = en'
  BY Zenon DEF Becomes
<1>3. Here' = w
  <2>1. w = [q |-> w.q, data |-> w.data, it |-> w.it, br |-> w.br, en |-> w.en]
    BY <1>1 DEF State
  <2> QED
    BY <1>2, <2>1, Zenon DEF Here
<1>4. \A i \in Items : it'[i].kind = it[i].kind /\ it'[i].server = it[i].server
  BY <1>2, Zenon DEF Good, SameItems
<1>5. Downloads' = Downloads /\ Uploads' = Uploads /\ \A s \in Servers : Of(s)' = Of(s)
  BY <1>4 DEF Downloads, Uploads, Of, Download, ServerOf
<1>6. Counted(w)'
  <2>1. Counted(w)
    BY DEF Good
  <2> QED
    BY <1>5, <2>1 DEF Counted, Active, Working
<1>7. SameItems(w)'
  BY <1>2 DEF SameItems
<1>8. Good(w)'
  BY <1>6, <1>7 DEF Good, State, QueueState, EngineData, Item, Browsing, Engine, Note, Listed, Assigned, Asks
<1> QED
  BY <1>3, <1>8, Zenon

\* How a handler ends: it waits, goes on with AdvanceQueue or SendNextCommand.
LEMMA StaysSafe ==
  ASSUME NEW w, Good(w), Becomes(w), main \in Main, Sends, UNCHANGED main
  PROVE  IInv'
<1>1. Good(Here)'
  BY BecomesGood
<1> QED
  BY <1>1 DEF IInv, Main, Sends

\* (Return)
LEMMA ReturnSafe ==
  ASSUME NEW w, Good(w), Becomes(w), main \in Main, Return
  PROVE  IInv'
<1>1. Good(Here)'
  BY BecomesGood
<1>2. main' \in Main /\ Sends'
  BY DEF Return, Main, Sends
<1> QED
  BY <1>1, <1>2 DEF IInv, Main

\* (SendNextCommand)
LEMMA SendingSafe ==
  ASSUME NEW w, Good(w), Becomes(w), main \in Main, NEW e \in Engines, Sending(e)
  PROVE  IInv'
<1>1. Good(Here)'
  BY BecomesGood
<1>2. main' \in Main /\ Sends'
  BY DEF Sending, Main, Sends
<1> QED
  BY <1>1, <1>2 DEF IInv, Main

\* (AdvanceQueue)
LEMMA AdvancingSafe ==
  ASSUME NEW w, Good(w), Becomes(w), Advancing
  PROVE  IInv'
<1>1. Good(Here)'
  BY BecomesGood
<1>2. main' \in Main /\ Sends'
  BY DEF Advancing, Main, Sends
<1> QED
  BY <1>1, <1>2 DEF IInv, Main

\* The work of an engine ends.
LEMMA ResetSafe ==
  ASSUME NEW w, Good(w), main \in Main, NEW e \in Engines, NEW reason \in Reasons,
         ResetAndAdvance(w, e, reason)
  PROVE  IInv'
<1>1. PICK v : v = ResetEngine(w, e, reason)
  OBVIOUS
<1>2. Good(v)
  BY <1>1, ResetGood
<1>3. Becomes(v) /\ (Advancing \/ Return)
  BY <1>1, Zenon DEF ResetAndAdvance
<1> QED
  BY <1>2, <1>3, AdvancingSafe, ReturnSafe

\* The connection is tried again, or the item has failed.
LEMMA IncreaseErrorCountSafe ==
  ASSUME NEW w, Good(w), main \in Main, NEW e \in Engines, IncreaseErrorCount(w, e)
  PROVE  IInv'
<1>1. Good(Tried(w, e)) /\ "failure" \in Reasons
  BY TriedGood DEF Reasons
<1>2. CASE GivesUp(w, e)
  <2>1. ResetAndAdvance(Tried(w, e), e, "failure")
    BY <1>2, Zenon DEF IncreaseErrorCount
  <2> QED
    BY <1>1, <2>1, ResetSafe
<1>3. CASE ~GivesUp(w, e)
  <2>1. Becomes(Tried(w, e)) /\ Sending(e)
    BY <1>3, Zenon DEF IncreaseErrorCount
  <2> QED
    BY <1>1, <2>1, SendingSafe
<1> QED
  BY <1>2, <1>3

\* An engine is to connect, or its password is asked for.
LEMMA ToConnectGood ==
  ASSUME NEW w, Good(w), NEW e \in Engines
  PROVE  Good(ToConnect(w, e)) /\ ToConnect(w, e).q = w.q
<1>1. PICK state : state = IF Known(w, e) THEN "connect" ELSE "askpassword"
  OBVIOUS
<1>2. state \in States
  BY <1>1 DEF States
<1>3. ToConnect(w, e) = [w EXCEPT !.data[e].state = state]
  BY <1>1, Zenon DEF ToConnect
<1>4. Good([w EXCEPT !.data[e].state = state]) /\ [w EXCEPT !.data[e].state = state].q = w.q
  BY <1>2, StateGood
<1> QED
  BY <1>3, <1>4, Zenon

\* The engine goes on with its item, unless the queue has been stopped.
LEMMA ContinueSafe ==
  ASSUME NEW w, Good(w), main \in Main, NEW e \in Engines, Continue(w, e)
  PROVE  IInv'
<1>1. PICK v : v = IF w.data[e].state = "connect" THEN ToConnect(w, e) ELSE w
  OBVIOUS
<1>2. Good(v)
  BY <1>1, ToConnectGood, Zenon
<1>3. Interrupted(v, e) \in Reasons
  BY DEF Interrupted, Reasons
<1>4. ResetAndAdvance(v, e, Interrupted(v, e)) \/ (Becomes(v) /\ Sending(e))
  BY <1>1, Zenon DEF Continue
<1> QED
  BY <1>2, <1>3, <1>4, ResetSafe, SendingSafe

\* After a failure that counts.
LEMMA CountErrorSafe ==
  ASSUME NEW w, Good(w), main \in Main, NEW e \in Engines, CountError(w, e)
  PROVE  IInv'
<1>1. Good(Tried(w, e)) /\ "failure" \in Reasons
  BY TriedGood DEF Reasons
<1>2. ResetAndAdvance(Tried(w, e), e, "failure") \/ Continue(Tried(w, e), e)
  BY Zenon DEF CountError
<1> QED
  BY <1>1, <1>2, ResetSafe, ContinueSafe

-----------------------------------------------------------------------------
(* The replies.                                                             *)

\* The progress of an item is noted or forgotten.
LEMMA ProgressGood ==
  ASSUME NEW w, Good(w), NEW i, NEW b \in BOOLEAN
  PROVE  /\ Good([w EXCEPT !.it[i].progress = b]) /\ [w EXCEPT !.it[i].progress = b].q = w.q
         /\ [w EXCEPT !.it[i].progress = b].data = w.data
<1>1. w \in State /\ w.it \in [Items -> Item]
  BY DEF Good, State
<1>2. PICK t : t = [w.it EXCEPT ![i].progress = b]
  OBVIOUS
<1>3. [w EXCEPT !.it[i].progress = b] = [w EXCEPT !.it = t]
  BY <1>1, <1>2 DEF State
<1>4. /\ t \in [Items -> Item]
      /\ \A j \in Items : /\ t[j].active = w.it[j].active /\ t[j].kind = w.it[j].kind
                          /\ t[j].server = w.it[j].server /\ t[j].where = w.it[j].where
  <2>1. PICK y : y = [w.it[i] EXCEPT !.progress = b]
    OBVIOUS
  <2>2. t = [w.it EXCEPT ![i] = y]
    BY <1>2, <2>1, Zenon
  <2>3. i \in Items => /\ y \in Item /\ y.active = w.it[i].active /\ y.kind = w.it[i].kind
                       /\ y.server = w.it[i].server /\ y.where = w.it[i].where
    <3>1. i \in Items => w.it[i] \in Item
      BY <1>1
    <3>2. PICK z : z = w.it[i]
      OBVIOUS
    <3>3. y = [z EXCEPT !.progress = b]
      BY <2>1, <3>2, Zenon
    <3>4. z \in Item => /\ y \in Item /\ y.active = z.active /\ y.kind = z.kind
                        /\ y.server = z.server /\ y.where = z.where
      BY <3>3 DEF Item
    <3> QED
      BY <3>1, <3>2, <3>4, Zenon
  <2> QED
    BY <1>1, <2>2, <2>3
<1>5. Good([w EXCEPT !.it = t])
  BY <1>4, ItemsGood
<1>6. PICK v : v = [w EXCEPT !.it = t]
  OBVIOUS
<1>7. v.q = w.q /\ v.data = w.data
  BY <1>1, <1>6 DEF State
<1> QED
  BY <1>3, <1>5, <1>6, <1>7, Zenon

\* Passwords become known or turn out to be wrong.
LEMMA KnownGood ==
  ASSUME NEW w, Good(w), NEW S \in SUBSET (Servers \cup {None})
  PROVE  /\ Good([w EXCEPT !.q.known = S]) /\ [w EXCEPT !.q.known = S].data = w.data
<1>1. w \in State /\ w.q \in QueueState
  BY DEF Good, State
<1>2. PICK z : z = w.q
  OBVIOUS
<1>3. z \in QueueState
  BY <1>1, <1>2, Zenon
<1>4. PICK p : p = [z EXCEPT !.known = S]
  OBVIOUS
<1>5. p \in QueueState /\ p.list = z.list /\ p.count = z.count /\ p.down = z.down /\ p.up = z.up
      /\ p.server = z.server /\ p.asking = z.asking /\ p.waiting = z.waiting
  BY <1>3, <1>4 DEF QueueState
<1>6. z.asking => z.waiting # <<>>
  BY <1>2, Zenon DEF Good, Asks
<1>7. p.list = w.q.list /\ p.count = w.q.count /\ p.down = w.q.down /\ p.up = w.q.up
      /\ p.server = w.q.server
  BY <1>2, <1>5, Zenon
<1>8. p.asking => p.waiting # <<>>
  BY <1>5, <1>6, Zenon
<1>9. p \in QueueState
  BY <1>5
<1>10. Good([w EXCEPT !.q = p])
  BY <1>7, <1>8, <1>9, QueueGood, Zenon
<1>11. [w EXCEPT !.q.known = S] = [w EXCEPT !.q = p]
  <2>1. [w EXCEPT !.q.known = S] = [w EXCEPT !.q = [w.q EXCEPT !.known = S]]
    BY <1>1 DEF State
  <2> QED
    BY <1>2, <1>4, <2>1, Zenon
<1>12. [w EXCEPT !.q = p].data = w.data
  BY <1>1 DEF State
<1> QED
  BY <1>10, <1>11, <1>12, Zenon

\* A reply that the command was cancelled.
LEMMA ReplyCanceledSafe ==
  ASSUME NEW w, Good(w), main \in Main, NEW e \in Engines, ReplyCanceled(w, e)
  PROVE  IInv'
<1>1. PICK i : i = w.data[e].item
  OBVIOUS
<1>2. PICK u : u = IF i # None /\ ~w.it[i].remove THEN [w EXCEPT !.it[i].progress = FALSE] ELSE w
  OBVIOUS
<1>3. PICK v : v = IF w.data[e].state = "connect" THEN Deactivate(u) ELSE u
  OBVIOUS
<1>4. Good(u)
  <2>1. Good([w EXCEPT !.it[i].progress = FALSE])
    BY ProgressGood
  <2> QED
    BY <1>2, <2>1, Zenon
<1>5. Good(v)
  <2>1. Good(Deactivate(u))
    BY <1>4, DeactivateGood
  <2> QED
    BY <1>3, <1>4, <2>1, Zenon
<1>6. Interrupted(w, e) \in Reasons
  BY DEF Interrupted, Reasons
<1>7. ResetAndAdvance(v, e, Interrupted(w, e))
  <2> DEFINE U(j) == IF j # None /\ ~w.it[j].remove THEN [w EXCEPT !.it[j].progress = FALSE] ELSE w
             V(x) == IF w.data[e].state = "connect" THEN Deactivate(x) ELSE x
  <2>1. ResetAndAdvance(V(U(w.data[e].item)), e, Interrupted(w, e))
    BY Zenon DEF ReplyCanceled
  <2>2. v = V(u)
    BY <1>3, Zenon
  <2>3. u = U(i)
    BY <1>2, Zenon
  <2> HIDE DEF U, V
  <2>4. v = V(U(w.data[e].item))
    BY <1>1, <2>2, <2>3, Zenon
  <2> QED
    BY <2>1, <2>4, Zenon
<1> QED
  BY <1>5, <1>6, <1>7, ResetSafe

\* The reply to an attempt to connect.
LEMMA ReplyConnectSafe ==
  ASSUME NEW w, Good(w), main \in Main, NEW e \in Engines, NEW r, ReplyConnect(w, e, r)
  PROVE  IInv'
<1>1. PICK k : k = w.q.known \ (AskedFor \cap {w.data[e].site})
  OBVIOUS
<1>2. k \in SUBSET (Servers \cup {None})
  <2>1. w.q.known \in SUBSET (Servers \cup {None})
    BY DEF Good, State, QueueState
  <2> QED
    BY <1>1, <2>1
<1>3. PICK x : x = [w EXCEPT !.q.known = k]
  OBVIOUS
<1>4. PICK u : u = IF r = "password" THEN x ELSE w
  OBVIOUS
<1>5. Good(u)
  <2>1. Good(x)
    BY <1>2, <1>3, KnownGood, Zenon
  <2> QED
    BY <1>4, <2>1, Zenon
<1>6. PICK y : y = [w EXCEPT !.data[e].state = Work(w.data[e].item)]
  OBVIOUS
<1>7. Good(y)
  <2>1. PICK s : s = Work(w.data[e].item)
    OBVIOUS
  <2>2. s \in States
    BY <2>1 DEF Work, States
  <2>3. Good([w EXCEPT !.data[e].state = s])
    BY <2>2, StateGood
  <2> QED
    BY <1>6, <2>1, <2>3, Zenon
<1>8. Continue(y, e) \/ Continue(w, e) \/ CountError(u, e)
  <2> DEFINE U == IF r = "password" THEN [w EXCEPT !.q.known = @ \ (AskedFor \cap {w.data[e].site})] ELSE w
             Y == [w EXCEPT !.data[e].state = Work(w.data[e].item)]
  <2>1. U = u
    <3>1. x = [w EXCEPT !.q.known = @ \ (AskedFor \cap {w.data[e].site})]
      BY <1>1, <1>3, Zenon
    <3> QED
      BY <1>4, <3>1, Zenon
  <2>2. Y = y
    BY <1>6, Zenon
  <2>3. Continue(Y, e) \/ Continue(w, e) \/ CountError(U, e)
    BY Zenon DEF ReplyConnect
  <2> HIDE DEF U, Y
  <2> QED
    BY <2>1, <2>2, <2>3, Zenon
<1> QED
  BY <1>5, <1>7, <1>8, ContinueSafe, CountErrorSafe

\* The reply to a transfer.
LEMMA ReplyTransferSafe ==
  ASSUME NEW w, Good(w), main \in Main, NEW e \in Engines, NEW r, ReplyTransfer(w, e, r)
  PROVE  IInv'
<1>1. {"success", "failure", "retry"} \subseteq Reasons
  BY DEF Reasons
<1>2. PICK i : i = w.data[e].item
  OBVIOUS
<1>3. PICK u : u = [w EXCEPT !.it[i].progress = FALSE]
  OBVIOUS
<1>4. Good(u)
  BY <1>3, ProgressGood, Zenon
<1>5. \/ ResetAndAdvance(w, e, "success") \/ Continue(u, e) \/ ResetAndAdvance(w, e, "failure")
      \/ ResetAndAdvance(Tried(w, e), e, "retry") \/ CountError(w, e)
  <2>1. \/ ResetAndAdvance(w, e, "success") \/ Continue([w EXCEPT !.it[w.data[e].item].progress = FALSE], e)
        \/ ResetAndAdvance(w, e, "failure")
        \/ ResetAndAdvance(Tried(w, e), e, "retry") \/ CountError(w, e)
    BY Zenon DEF ReplyTransfer
  <2>2. u = [w EXCEPT !.it[w.data[e].item].progress = FALSE]
    BY <1>2, <1>3, Zenon
  <2> QED
    BY <2>1, <2>2, Zenon
<1>6. Good(Tried(w, e))
  BY TriedGood
<1> QED
  BY <1>1, <1>4, <1>5, <1>6, ResetSafe, ContinueSafe, CountErrorSafe

\* The reply to the creation of a directory.
LEMMA ReplyMkdirSafe ==
  ASSUME NEW w, Good(w), main \in Main, NEW e \in Engines, NEW r, ReplyMkdir(w, e, r)
  PROVE  IInv'
<1>1. {"success", "failure"} \subseteq Reasons
  BY DEF Reasons
<1>2. ResetAndAdvance(w, e, "success") \/ CountError(w, e) \/ ResetAndAdvance(w, e, "failure")
  BY Zenon DEF ReplyMkdir
<1> QED
  BY <1>1, <1>2, ResetSafe, CountErrorSafe

\* A reply to engine e.
LEMMA ProcessReplySafe ==
  ASSUME NEW w0, Good(w0), main \in Main, Sends, NEW e \in Engines, NEW n, ProcessReply(w0, e, n)
  PROVE  IInv'
<1>1. PICK i : i = w0.data[e].item
  OBVIOUS
<1>2. PICK w : w = IF i # None /\ n.progress THEN [w0 EXCEPT !.it[i].progress = TRUE] ELSE w0
  OBVIOUS
<1>3. Good(w)
  <2>1. Good([w0 EXCEPT !.it[i].progress = TRUE])
    BY ProgressGood
  <2> QED
    BY <1>2, <2>1, Zenon
<1>4. PICK y : y = [w EXCEPT !.data[e].state = "connect"]
  OBVIOUS
<1>5. Good(y)
  <2>1. "connect" \in States
    BY DEF States
  <2>2. Good([w EXCEPT !.data[e].state = "connect"])
    BY <1>3, <2>1, StateGood
  <2> QED
    BY <1>4, <2>2, Zenon
<1>6. \/ ReplyCanceled(w, e) \/ Continue(y, e) \/ ReplyConnect(w, e, n.r) \/ ReplyTransfer(w, e, n.r)
      \/ ReplyMkdir(w, e, n.r) \/ ResetAndAdvance(w, e, "remove") \/ (Becomes(w) /\ UNCHANGED main)
  <2> DEFINE W(j) == IF j # None /\ n.progress THEN [w0 EXCEPT !.it[j].progress = TRUE] ELSE w0
             Y(x) == [x EXCEPT !.data[e].state = "connect"]
             R(x) == \/ ReplyCanceled(x, e) \/ Continue(Y(x), e) \/ ReplyConnect(x, e, n.r)
                     \/ ReplyTransfer(x, e, n.r) \/ ReplyMkdir(x, e, n.r)
                     \/ ResetAndAdvance(x, e, "remove") \/ (Becomes(x) /\ UNCHANGED main)
  <2>1. R(W(w0.data[e].item))
    BY DEF ProcessReply
  <2>2. w = W(i)
    BY <1>2, Zenon
  <2>3. y = Y(w)
    BY <1>4, Zenon
  <2> HIDE DEF W
  <2>4. w = W(w0.data[e].item)
    BY <1>1, <2>2, Zenon
  <2>5. R(w)
    <3> HIDE DEF R
    <3> QED
      BY <2>1, <2>4, Zenon
  <2> HIDE DEF Y
  <2> QED
    BY <2>3, <2>5, Zenon
<1>7. "remove" \in Reasons
  BY DEF Reasons
<1> QED
  BY <1>3, <1>5, <1>6, <1>7, ReplyCanceledSafe, ContinueSafe, ReplyConnectSafe, ReplyTransferSafe,
     ReplyMkdirSafe, ResetSafe, StaysSafe

-----------------------------------------------------------------------------
(* The handlers of events and callbacks.                                    *)

\* The browsing connection has changed.
LEMMA BrowsingGood ==
  ASSUME NEW w, Good(w), NEW b \in Browsing
  PROVE  Good([w EXCEPT !.br = b])
<1>1. w \in State
  BY DEF Good
<1>2. Beside(w, [w EXCEPT !.br = b])
  BY <1>1 DEF Beside, State
<1> QED
  BY <1>2, BesideGood

\* A notification is taken from the list.
LEMMA NotesGood ==
  ASSUME NEW w, Good(w), NEW e \in Engines, w.en[e].notes # <<>>
  PROVE  /\ Good([w EXCEPT !.en[e].notes = Tail(@)])
         /\ [w EXCEPT !.en[e].notes = Tail(@)].data = w.data
<1>1. w \in State /\ w.en \in [Engines -> Engine]
  BY DEF Good, State
<1>2. PICK l : l = Tail(w.en[e].notes)
  OBVIOUS
<1>3. l \in Seq(Note)
  <2>1. w.en[e].notes \in Seq(Note)
    BY <1>1 DEF Engine
  <2> QED
    BY <1>2, <2>1
<1>4. PICK z : z = w.en[e]
  OBVIOUS
<1>5. z \in Engine
  BY <1>1, <1>4
<1>6. [z EXCEPT !.notes = l] \in Engine
  BY <1>3, <1>5 DEF Engine
<1>7. PICK n : n = [w.en EXCEPT ![e] = [z EXCEPT !.notes = l]]
  OBVIOUS
<1>8. n \in [Engines -> Engine]
  BY <1>1, <1>6, <1>7
<1>9. Beside(w, [w EXCEPT !.en = n])
  BY <1>1, <1>8, EnginesBeside
<1>10. [w EXCEPT !.en[e].notes = Tail(@)] = [w EXCEPT !.en = n]
  <2>1. [w EXCEPT !.en[e].notes = Tail(@)] = [w EXCEPT !.en[e].notes = l]
    BY <1>2, Zenon
  <2>2. [w EXCEPT !.en[e].notes = l] = [w EXCEPT !.en = [w.en EXCEPT ![e] = [w.en[e] EXCEPT !.notes = l]]]
    BY <1>1 DEF State
  <2> QED
    BY <1>4, <1>7, <2>1, <2>2, Zenon
<1>11. Good([w EXCEPT !.en = n]) /\ [w EXCEPT !.en = n].data = w.data
  <2>1. [w EXCEPT !.en = n].data = w.data
    BY <1>9 DEF Beside
  <2> QED
    BY <1>9, <2>1, BesideGood
<1> QED
  BY <1>10, <1>11, Zenon

\* What a handler starts from.
LEMMA HereGood ==
  ASSUME IInv
  PROVE  /\ Good(Here) /\ Here \in State /\ main \in Main /\ Sends
         /\ Here.q = q /\ Here.data = data /\ Here.it = it /\ Here.br = br /\ Here.en = en
BY DEF IInv, Good, Here

\* An engine's event.
LEMMA OnEngineEventSafe ==
  ASSUME IInv, NEW e \in Engines, OnEngineEvent(e)
  PROVE  IInv'
<1>1. Good(Here) /\ main \in Main /\ Sends /\ Here.en = en
  BY HereGood
<1>2. en[e].notes # <<>> /\ ProcessReply(Taken(e), e, Head(en[e].notes))
  BY DEF OnEngineEvent
<1>3. Good(Taken(e))
  <2>1. Good([Here EXCEPT !.en[e].notes = Tail(@)])
    BY <1>1, <1>2, NotesGood, Zenon
  <2> QED
    BY <2>1, Zenon DEF Taken
<1> QED
  BY <1>1, <1>2, <1>3, ProcessReplySafe

\* An event of the browsing connection's engine.
LEMMA OnPrimaryEventSafe ==
  ASSUME IInv, OnPrimaryEvent
  PROVE  IInv'
<1>1. Good(Here) /\ main \in Main /\ Sends /\ Here.en = en /\ Primary \in Engines
  BY HereGood DEF Engines
<1>2. PICK w : w = Taken(Primary)
  OBVIOUS
<1>3. Good(w)
  <2>1. en[Primary].notes # <<>>
    BY DEF OnPrimaryEvent
  <2>2. Good([Here EXCEPT !.en[Primary].notes = Tail(@)])
    BY <1>1, <2>1, NotesGood, Zenon
  <2> QED
    BY <1>2, <2>2, Zenon DEF Taken
<1>4. PICK c : c = [w EXCEPT !.br.cmds = @ - 1]
  OBVIOUS
<1>5. Good(c)
  <2>1. w \in State /\ w.br \in Browsing
    BY <1>3 DEF Good, State
  <2>2. PICK z : z = w.br
    OBVIOUS
  <2>3. PICK n : n = z.cmds - 1
    OBVIOUS
  <2>4. z \in Browsing
    BY <2>1, <2>2, Zenon
  <2>5. n \in Int
    BY <2>3, <2>4 DEF Browsing
  <2>6. PICK b : b = [z EXCEPT !.cmds = n]
    OBVIOUS
  <2>7. b \in Browsing
    BY <2>4, <2>5, <2>6 DEF Browsing
  <2>8. c = [w EXCEPT !.br = b]
    <3>1. [w EXCEPT !.br.cmds = @ - 1] = [w EXCEPT !.br = [w.br EXCEPT !.cmds = w.br.cmds - 1]]
      BY <2>1 DEF State
    <3> QED
      BY <1>4, <2>2, <2>3, <2>6, <3>1, Zenon
  <2>9. Good([w EXCEPT !.br = b])
    BY <1>3, <2>7, BrowsingGood
  <2> QED
    BY <2>8, <2>9, Zenon
<1>6. Good(ProcessNextCommand(c))
  <2>1. c \in State
    BY <1>5 DEF Good
  <2> QED
    BY <1>5, <2>1, ProcessNextBeside, BesideGood
<1>7. \/ ProcessReply(w, Primary, Head(en[Primary].notes))
      \/ (Becomes(w) /\ UNCHANGED main)
      \/ (Becomes(ProcessNextCommand(c)) /\ UNCHANGED main)
  <2> DEFINE C(x) == [x EXCEPT !.br.cmds = @ - 1]
             R(x) == \/ ProcessReply(x, Primary, Head(en[Primary].notes))
                     \/ (Becomes(x) /\ UNCHANGED main)
                     \/ (Becomes(ProcessNextCommand(C(x))) /\ UNCHANGED main)
  <2>1. R(Taken(Primary))
    BY Zenon DEF OnPrimaryEvent
  <2>2. R(w)
    <3> HIDE DEF R
    <3> QED
      BY <1>2, <2>1, Zenon
  <2>3. c = C(w)
    BY <1>4, Zenon
  <2> HIDE DEF C
  <2> QED
    BY <2>2, <2>3, Zenon
<1> QED
  BY <1>1, <1>3, <1>6, <1>7, ProcessReplySafe, StaysSafe

\* The exclusive use of the engine has been granted.
LEMMA OnExclusiveEngineRequestGrantedSafe ==
  ASSUME IInv, OnExclusiveEngineRequestGranted
  PROVE  IInv'
<1>1. Good(Here) /\ main \in Main /\ Sends /\ Here \in State /\ Primary \in Engines
  BY HereGood DEF Engines
<1>2. PICK w : w = [Here EXCEPT !.br.grants = @ - 1]
  OBVIOUS
<1>3. Good(w)
  <2>1. PICK z : z = Here.br
    OBVIOUS
  <2>2. PICK n : n = z.grants - 1
    OBVIOUS
  <2>3. z \in Browsing
    BY <1>1, <2>1 DEF State
  <2>4. n \in Int
    BY <2>2, <2>3 DEF Browsing
  <2>5. PICK b : b = [z EXCEPT !.grants = n]
    OBVIOUS
  <2>6. b \in Browsing
    BY <2>3, <2>4, <2>5 DEF Browsing
  <2>7. w = [Here EXCEPT !.br = b]
    <3>1. [Here EXCEPT !.br.grants = @ - 1] = [Here EXCEPT !.br = [Here.br EXCEPT !.grants = Here.br.grants - 1]]
      BY <1>1 DEF State
    <3> QED
      BY <1>2, <2>1, <2>2, <2>5, <3>1, Zenon
  <2>8. Good([Here EXCEPT !.br = b])
    BY <1>1, <2>6, BrowsingGood
  <2> QED
    BY <2>7, <2>8, Zenon
<1>4. PICK y : y = [w EXCEPT !.data[Primary].state = Work(data[Primary].item)]
  OBVIOUS
<1>5. Good(y)
  <2>1. PICK s : s = Work(data[Primary].item)
    OBVIOUS
  <2>2. s \in States
    BY <2>1 DEF Work, States
  <2>3. Good([w EXCEPT !.data[Primary].state = s])
    BY <1>1, <1>3, <2>2, StateGood
  <2> QED
    BY <1>4, <2>1, <2>3, Zenon
<1>6. Good(ReleaseEngine(w))
  <2>1. w \in State
    BY <1>3 DEF Good
  <2> QED
    BY <1>3, <2>1, ReleaseBeside, BesideGood
<1>7. \/ Becomes(w) /\ UNCHANGED main
      \/ Becomes(ReleaseEngine(w)) /\ UNCHANGED main
      \/ ResetAndAdvance(w, Primary, "retry")
      \/ Becomes(y) /\ Sending(Primary)
  <2> DEFINE Y(x) == [x EXCEPT !.data[Primary].state = Work(data[Primary].item)]
             R(x) == \/ Becomes(x) /\ UNCHANGED main
                     \/ Becomes(ReleaseEngine(x)) /\ UNCHANGED main
                     \/ ResetAndAdvance(x, Primary, "retry")
                     \/ Becomes(Y(x)) /\ Sending(Primary)
  <2>1. R([Here EXCEPT !.br.grants = @ - 1])
    BY DEF OnExclusiveEngineRequestGranted
  <2>2. R(w)
    <3> HIDE DEF R
    <3> QED
      BY <1>2, <2>1, Zenon
  <2>3. y = Y(w)
    BY <1>4, Zenon
  <2> HIDE DEF Y
  <2> QED
    BY <2>2, <2>3, Zenon
<1>8. "retry" \in Reasons
  BY DEF Reasons
<1> QED
  BY <1>1, <1>3, <1>5, <1>6, <1>7, <1>8, StaysSafe, ResetSafe, SendingSafe

\* The list of engines that wait for a password changes.
LEMMA WaitingGood ==
  ASSUME NEW w, Good(w), NEW l \in Seq(Engines), w.q.asking => l # <<>>
  PROVE  /\ Good([w EXCEPT !.q.waiting = l]) /\ [w EXCEPT !.q.waiting = l].data = w.data
         /\ [w EXCEPT !.q.waiting = l].q.known = w.q.known
<1>1. w \in State /\ w.q \in QueueState
  BY DEF Good, State
<1>2. PICK z : z = w.q
  OBVIOUS
<1>3. z \in QueueState
  BY <1>1, <1>2, Zenon
<1>4. PICK p : p = [z EXCEPT !.waiting = l]
  OBVIOUS
<1>5. p \in QueueState /\ p.list = z.list /\ p.count = z.count /\ p.down = z.down /\ p.up = z.up
      /\ p.server = z.server /\ p.asking = z.asking /\ p.waiting = l /\ p.known = z.known
  BY <1>3, <1>4 DEF QueueState
<1>6. z.asking => l # <<>>
  BY <1>2, Zenon
<1>7. p.list = w.q.list /\ p.count = w.q.count /\ p.down = w.q.down /\ p.up = w.q.up
      /\ p.server = w.q.server /\ p.known = w.q.known
  BY <1>2, <1>5, Zenon
<1>8. p.asking => p.waiting # <<>>
  BY <1>5, <1>6, Zenon
<1>9. p \in QueueState
  BY <1>5
<1>10. Good([w EXCEPT !.q = p])
  BY <1>7, <1>8, <1>9, QueueGood, Zenon
<1>11. [w EXCEPT !.q.waiting = l] = [w EXCEPT !.q = p]
  <2>1. [w EXCEPT !.q.waiting = l] = [w EXCEPT !.q = [w.q EXCEPT !.waiting = l]]
    BY <1>1 DEF State
  <2> QED
    BY <1>2, <1>4, <2>1, Zenon
<1>12. [w EXCEPT !.q = p].data = w.data /\ [w EXCEPT !.q = p].q = p
  BY <1>1 DEF State
<1> QED
  BY <1>7, <1>10, <1>11, <1>12, Zenon

\* The dialog is opened or over.
LEMMA AskingGood ==
  ASSUME NEW w, Good(w), NEW b \in BOOLEAN, b => w.q.waiting # <<>>
  PROVE  /\ Good([w EXCEPT !.q.asking = b]) /\ [w EXCEPT !.q.asking = b].data = w.data
         /\ [w EXCEPT !.q.asking = b].q.asking = b
<1>1. w \in State /\ w.q \in QueueState
  BY DEF Good, State
<1>2. PICK z : z = w.q
  OBVIOUS
<1>3. z \in QueueState
  BY <1>1, <1>2, Zenon
<1>4. PICK p : p = [z EXCEPT !.asking = b]
  OBVIOUS
<1>5. p \in QueueState /\ p.list = z.list /\ p.count = z.count /\ p.down = z.down /\ p.up = z.up
      /\ p.server = z.server /\ p.asking = b /\ p.waiting = z.waiting
  BY <1>3, <1>4 DEF QueueState
<1>6. b => z.waiting # <<>>
  BY <1>2, Zenon
<1>7. p.list = w.q.list /\ p.count = w.q.count /\ p.down = w.q.down /\ p.up = w.q.up
      /\ p.server = w.q.server
  BY <1>2, <1>5, Zenon
<1>8. p.asking => p.waiting # <<>>
  BY <1>5, <1>6, Zenon
<1>9. p \in QueueState
  BY <1>5
<1>10. Good([w EXCEPT !.q = p])
  BY <1>7, <1>8, <1>9, QueueGood, Zenon
<1>11. [w EXCEPT !.q.asking = b] = [w EXCEPT !.q = p]
  <2>1. [w EXCEPT !.q.asking = b] = [w EXCEPT !.q = [w.q EXCEPT !.asking = b]]
    BY <1>1 DEF State
  <2> QED
    BY <1>2, <1>4, <2>1, Zenon
<1>12. [w EXCEPT !.q = p].data = w.data /\ [w EXCEPT !.q = p].q = p
  BY <1>1 DEF State
<1> QED
  BY <1>5, <1>10, <1>11, <1>12, Zenon

\* An engine's password is to be asked for.
LEMMA OnAskPasswordSafe ==
  ASSUME IInv, OnAskPassword
  PROVE  IInv'
<1>1. Good(Here) /\ main \in Main /\ Sends /\ Here \in State /\ Here.q = q
  BY HereGood
<1>2. q.waiting # <<>> /\ ~q.asking /\ q.waiting \in Seq(Engines)
  <2>1. q.waiting \in Seq(Engines)
    BY <1>1 DEF State, QueueState
  <2> QED
    BY <2>1 DEF OnAskPassword
<1>3. PICK e \in Engines : e = Head(q.waiting)
  BY <1>2
<1>4. PICK l \in Seq(Engines) : l = Tail(q.waiting)
  <2>1. Tail(q.waiting) \in Seq(Engines)
    BY <1>2
  <2> QED
    BY <2>1
<1>5. PICK w : w = [Here EXCEPT !.q.waiting = l]
  OBVIOUS
<1>6. Good(w)
  <2>1. ~Here.q.asking
    BY <1>1, <1>2, Zenon
  <2> QED
    BY <1>1, <1>5, <2>1, WaitingGood, Zenon
<1>7. PICK a : a = [Here EXCEPT !.q.asking = TRUE]
  OBVIOUS
<1>8. Good(a)
  <2>1. Here.q.waiting # <<>> /\ TRUE \in BOOLEAN
    BY <1>1, <1>2, Zenon
  <2> QED
    BY <1>1, <1>7, <2>1, AskingGood, Zenon
<1>9. \/ Becomes(w) /\ UNCHANGED main
      \/ ResetAndAdvance(Deactivate(w), e, "reset")
      \/ Becomes(a) /\ UNCHANGED main
  <2> DEFINE W == [Here EXCEPT !.q.waiting = Tail(@)]
             A == [Here EXCEPT !.q.asking = TRUE]
             R(x, y, f) == \/ Becomes(x) /\ UNCHANGED main
                           \/ ResetAndAdvance(Deactivate(x), f, "reset")
                           \/ Becomes(y) /\ UNCHANGED main
  <2>1. R(W, A, Head(q.waiting))
    BY Zenon DEF OnAskPassword
  <2>2. W = w
    BY <1>1, <1>4, <1>5, Zenon
  <2>3. A = a
    BY <1>7, Zenon
  <2> HIDE DEF W, A, R
  <2>4. R(w, a, e)
    BY <1>3, <2>1, <2>2, <2>3, Zenon
  <2> QED
    BY <2>4, Zenon DEF R
<1>10. Good(Deactivate(w)) /\ "reset" \in Reasons
  BY <1>6, DeactivateGood DEF Reasons
<1> QED
  BY <1>1, <1>6, <1>8, <1>9, <1>10, StaysSafe, ResetSafe

\* The password has been entered, or the dialog has been closed.
LEMMA PasswordEnteredSafe ==
  ASSUME IInv, PasswordEntered
  PROVE  IInv'
<1>1. Good(Here) /\ main \in Main /\ Sends /\ Here \in State /\ Here.q = q /\ Here.data = data
  BY HereGood
<1>2. q.asking /\ q.waiting # <<>> /\ q.waiting \in Seq(Engines)
  <2>1. q.waiting \in Seq(Engines)
    BY <1>1 DEF State, QueueState
  <2>2. Asks(Here)
    BY <1>1 DEF Good
  <2>3. q.asking
    BY DEF PasswordEntered
  <2> QED
    BY <1>1, <2>1, <2>2, <2>3, Zenon DEF Asks
<1>3. PICK e \in Engines : e = Head(q.waiting)
  BY <1>2
<1>4. PICK l \in Seq(Engines) : l = Tail(q.waiting)
  <2>1. Tail(q.waiting) \in Seq(Engines)
    BY <1>2
  <2> QED
    BY <2>1
<1>5. PICK a : a = [Here EXCEPT !.q.asking = FALSE]
  OBVIOUS
<1>6. Good(a) /\ a.data = data /\ ~a.q.asking /\ a \in State
  <2>1. FALSE \in BOOLEAN
    OBVIOUS
  <2>2. Good(a) /\ a.data = Here.data /\ a.q.asking = FALSE
    BY <1>1, <1>5, <2>1, AskingGood, Zenon
  <2> QED
    BY <1>1, <2>2 DEF Good
<1>7. PICK w : w = [a EXCEPT !.q.waiting = l]
  OBVIOUS
<1>8. Good(w) /\ w.data = data /\ w.q.known = a.q.known
  BY <1>6, <1>7, WaitingGood, Zenon
<1>9. PICK k : k = w.q.known \cup {data[e].site}
  OBVIOUS
<1>10. k \in SUBSET (Servers \cup {None})
  <2>1. w.q.known \in SUBSET (Servers \cup {None})
    BY <1>8 DEF Good, State, QueueState
  <2>2. data[e].site \in Servers \cup {None}
    BY <1>1 DEF State, EngineData
  <2> QED
    BY <1>9, <2>1, <2>2
<1>11. PICK x : x = [w EXCEPT !.q.known = k]
  OBVIOUS
<1>12. Good(x)
  BY <1>8, <1>10, <1>11, KnownGood, Zenon
<1>13. PICK y : y = [x EXCEPT !.data[e].state = "connect"]
  OBVIOUS
<1>14. Good(y)
  <2>1. "connect" \in States
    BY DEF States
  <2>2. Good([x EXCEPT !.data[e].state = "connect"])
    BY <1>12, <2>1, StateGood
  <2> QED
    BY <1>13, <2>2, Zenon
<1>15. (Becomes(y) /\ Sending(e)) \/ ResetAndAdvance(Deactivate(w), e, "reset")
  <2> DEFINE W == [Here EXCEPT !.q.waiting = Tail(@), !.q.asking = FALSE]
             Y(v, f) == [v EXCEPT !.q.known = @ \cup {data[f].site}, !.data[f].state = "connect"]
             R(v, f) == \/ Becomes(Y(v, f)) /\ Sending(f)
                        \/ ResetAndAdvance(Deactivate(v), f, "reset")
  <2>1. R(W, Head(q.waiting))
    BY Zenon DEF PasswordEntered
  <2>2. W = w
    <3>1. W = [Here EXCEPT !.q.waiting = l, !.q.asking = FALSE]
      BY <1>1, <1>4, Zenon
    <3>2. [Here EXCEPT !.q.waiting = l, !.q.asking = FALSE] = [[Here EXCEPT !.q.asking = FALSE] EXCEPT !.q.waiting = l]
      BY <1>1 DEF State, QueueState
    <3> QED
      BY <1>5, <1>7, <3>1, <3>2, Zenon
  <2>3. R(w, e)
    <3> HIDE DEF R, W
    <3> QED
      BY <1>3, <2>1, <2>2, Zenon
  <2>4. Y(w, e) = y
    <3>1. Y(w, e) = [w EXCEPT !.q.known = k, !.data[e].state = "connect"]
      BY <1>9, Zenon
    <3>2. w \in State
      BY <1>8 DEF Good
    <3>3. [w EXCEPT !.q.known = k, !.data[e].state = "connect"] = [[w EXCEPT !.q.known = k] EXCEPT !.data[e].state = "connect"]
      BY <3>2 DEF State
    <3> QED
      BY <1>11, <1>13, <3>1, <3>3, Zenon
  <2> HIDE DEF Y
  <2> QED
    BY <2>3, <2>4, Zenon
<1>16. Good(Deactivate(w)) /\ "reset" \in Reasons
  BY <1>8, DeactivateGood DEF Reasons
<1> QED
  BY <1>1, <1>14, <1>15, <1>16, SendingSafe, ResetSafe

\* An idle engine is disconnected.
LEMMA OnTimerSafe ==
  ASSUME IInv, NEW e \in Engines, OnTimer(e)
  PROVE  IInv'
<1>1. Good(Here) /\ main \in Main /\ Sends /\ Here \in State
  BY HereGood
<1>2. PICK w : w = [Here EXCEPT !.data[e].timer = FALSE]
  OBVIOUS
<1>3. Good(w) /\ w \in State
  <2>1. Here.data \in [Engines -> EngineData]
    BY <1>1 DEF State
  <2>2. PICK d : d = [Here.data EXCEPT ![e].timer = FALSE]
    OBVIOUS
  <2>3. d \in [Engines -> EngineData] /\ \A f \in Engines : d[f].active = Here.data[f].active /\ d[f].item = Here.data[f].item
    BY <2>1, <2>2 DEF EngineData
  <2>4. w = [Here EXCEPT !.data = d]
    BY <1>1, <1>2, <2>2 DEF State
  <2>5. Good([Here EXCEPT !.data = d])
    BY <1>1, <2>3, DataGood
  <2>6. Good(w)
    BY <2>4, <2>5, Zenon
  <2> QED
    BY <2>6 DEF Good
<1>4. Good(Execute(w, e, "disconnect"))
  <2>1. "disconnect" \in Commands
    BY DEF Commands
  <2> QED
    BY <1>3, <2>1, ExecuteBeside, BesideGood
<1>5. (Becomes(Execute(w, e, "disconnect")) \/ Becomes(w)) /\ UNCHANGED main
  <2> DEFINE R(x) == (Becomes(Execute(x, e, "disconnect")) \/ Becomes(x)) /\ UNCHANGED main
  <2>1. R([Here EXCEPT !.data[e].timer = FALSE])
    BY Zenon DEF OnTimer
  <2> HIDE DEF R
  <2>2. R(w)
    BY <1>2, <2>1, Zenon
  <2> QED
    BY <2>2, Zenon DEF R
<1> QED
  BY <1>1, <1>3, <1>4, <1>5, StaysSafe

-----------------------------------------------------------------------------
(* The user.                                                                *)

\* The queue is started.
LEMMA StartSafe ==
  ASSUME IInv, Start
  PROVE  IInv'
<1>1. Good(Here)
  BY HereGood
<1>2. 2 \in 0..2
  OBVIOUS
<1>3. Good([Here EXCEPT !.q.mode = 2])
  BY <1>1, <1>2, ModeGood, Zenon
<1>4. Becomes([Here EXCEPT !.q.mode = 2]) /\ Advancing
  BY Zenon DEF Start
<1> QED
  BY <1>3, <1>4, AdvancingSafe

\* It is stopped.
LEMMA StopSafe ==
  ASSUME IInv, Stop
  PROVE  IInv'
<1>1. Good(Here) /\ main \in Main /\ Sends
  BY HereGood
<1>2. Good(Deactivate(Here))
  BY <1>1, DeactivateGood
<1>3. Becomes(Deactivate(Here)) /\ UNCHANGED main
  BY Zenon DEF Stop
<1> QED
  BY <1>1, <1>2, <1>3, StaysSafe

\* An item that nobody works on is replaced by another state of it.
LEMMA ItemGood ==
  ASSUME NEW w, Good(w), NEW i \in Items, ~w.it[i].active, NEW x \in Item, ~x.active,
         x.kind = w.it[i].kind, x.server = w.it[i].server
  PROVE  Good([w EXCEPT !.it[i] = x])
<1>1. w \in State /\ w.it \in [Items -> Item]
  BY DEF Good, State
<1>2. PICK t : t = [w.it EXCEPT ![i] = x]
  OBVIOUS
<1>3. t \in [Items -> Item] /\ t[i] = x /\ \A j \in Items \ {i} : t[j] = w.it[j]
  BY <1>1, <1>2
<1>4. \A j \in Items : /\ t[j].active = w.it[j].active /\ t[j].kind = w.it[j].kind
                       /\ t[j].server = w.it[j].server
                       /\ t[j].active => t[j].where = w.it[j].where
  <2>1. x.active \in BOOLEAN /\ w.it[i].active \in BOOLEAN
    BY <1>1 DEF Item
  <2> QED
    BY <1>3, <2>1
<1>5. Good([w EXCEPT !.it = t])
  BY <1>3, <1>4, ItemsGood
<1>6. [w EXCEPT !.it[i] = x] = [w EXCEPT !.it = t]
  BY <1>1, <1>2 DEF State
<1> QED
  BY <1>5, <1>6, Zenon

\* An item that is not in the queue is not worked on.
LEMMA NotQueued ==
  ASSUME IInv, NEW i \in Items, it[i].where # "queue"
  PROVE  ~it[i].active /\ it[i] \in Item
BY HereGood DEF Good, Assigned, State

\* An item is added.
LEMMA QueueFileSafe ==
  ASSUME IInv, NEW i \in Items, NEW start \in BOOLEAN, QueueFile(i, start)
  PROVE  IInv'
<1>1. Good(Here) /\ main \in Main /\ Sends /\ Here \in State /\ Here.q = q /\ Here.it = it
  BY HereGood
<1>2. ~it[i].active /\ it[i] \in Item
  <2>1. it[i].where = "gone"
    BY DEF QueueFile
  <2> QED
    BY <2>1, NotQueued
<1>3. PICK x : x = NewItem(it[i], ~start, 0)
  OBVIOUS
<1>4. x \in Item /\ ~x.active /\ x.kind = it[i].kind /\ x.server = it[i].server
  BY <1>2, <1>3 DEF NewItem, Item
<1>5. PICK u : u = [Here EXCEPT !.it[i] = x]
  OBVIOUS
<1>6. Good(u)
  <2>1. ~Here.it[i].active /\ x.kind = Here.it[i].kind /\ x.server = Here.it[i].server
    BY <1>1, <1>2, <1>4, Zenon
  <2>2. x \in Item /\ ~x.active
    BY <1>4
  <2> QED
    BY <1>1, <1>5, <2>1, <2>2, ItemGood, Zenon
<1>7. PICK m : m = IF q.mode = 0 /\ start THEN 1 ELSE q.mode
  OBVIOUS
<1>8. m \in 0..2
  <2>1. q.mode \in 0..2
    BY <1>1 DEF State, QueueState
  <2> QED
    BY <1>7, <2>1
<1>9. PICK w : w = [u EXCEPT !.q.mode = m]
  OBVIOUS
<1>10. Good(w)
  BY <1>6, <1>8, <1>9, ModeGood, Zenon
<1>11. Becomes(w) /\ (Advancing \/ UNCHANGED main)
  <2> DEFINE W == [Here EXCEPT !.it[i] = NewItem(@, ~start, 0), !.q.mode = IF @ = 0 /\ start THEN 1 ELSE @]
             R(y) == Becomes(y) /\ (Advancing \/ UNCHANGED main)
  <2>1. R(W)
    BY Zenon DEF QueueFile
  <2>2. W = [Here EXCEPT !.it[i] = x, !.q.mode = m]
    BY <1>1, <1>3, <1>7, Zenon
  <2>3. [Here EXCEPT !.it[i] = x, !.q.mode = m] = [[Here EXCEPT !.it[i] = x] EXCEPT !.q.mode = m]
    BY <1>1 DEF State
  <2>4. W = w
    BY <1>5, <1>9, <2>2, <2>3, Zenon
  <2> HIDE DEF W, R
  <2>5. R(w)
    BY <2>1, <2>4, Zenon
  <2> QED
    BY <2>5, Zenon DEF R
<1> QED
  BY <1>1, <1>10, <1>11, AdvancingSafe, StaysSafe

\* An item that has failed or succeeded returns to the queue.
LEMMA RequeueFileSafe ==
  ASSUME IInv, NEW i \in Items, RequeueFile(i)
  PROVE  IInv'
<1>1. Good(Here) /\ main \in Main /\ Sends /\ Here \in State /\ Here.it = it
  BY HereGood
<1>2. ~it[i].active /\ it[i] \in Item
  <2>1. it[i].where # "queue"
    BY DEF RequeueFile
  <2> QED
    BY <2>1, NotQueued
<1>3. PICK x : x = [it[i] EXCEPT !.where = "queue", !.errors = 0, !.done = FALSE]
  OBVIOUS
<1>4. x \in Item /\ ~x.active /\ x.kind = it[i].kind /\ x.server = it[i].server
  BY <1>2, <1>3 DEF Item
<1>5. PICK u : u = [Here EXCEPT !.it[i] = x]
  OBVIOUS
<1>6. Good(u)
  <2>1. ~Here.it[i].active /\ x.kind = Here.it[i].kind /\ x.server = Here.it[i].server
    BY <1>1, <1>2, <1>4, Zenon
  <2>2. x \in Item /\ ~x.active
    BY <1>4
  <2> QED
    BY <1>1, <1>5, <2>1, <2>2, ItemGood, Zenon
<1>7. Becomes(u) /\ (Advancing \/ UNCHANGED main)
  <2> DEFINE W == [Here EXCEPT !.it[i].where = "queue", !.it[i].errors = 0, !.it[i].done = FALSE]
             R(y) == Becomes(y) /\ (Advancing \/ UNCHANGED main)
  <2>1. R(W)
    BY Zenon DEF RequeueFile
  <2>2. W = [Here EXCEPT !.it[i] = [Here.it[i] EXCEPT !.where = "queue", !.errors = 0, !.done = FALSE]]
    BY <1>1 DEF State
  <2>3. W = u
    BY <1>1, <1>3, <1>5, <2>2, Zenon
  <2> HIDE DEF W, R
  <2>4. R(u)
    BY <2>1, <2>3, Zenon
  <2> QED
    BY <2>4, Zenon DEF R
<1> QED
  BY <1>1, <1>6, <1>7, AdvancingSafe, StaysSafe

\* An item is removed, once its transfer has ended if it is active.
LEMMA OnRemoveSelectedSafe ==
  ASSUME IInv, NEW i \in Items, OnRemoveSelected(i)
  PROVE  IInv'
<1>1. Good(Here) /\ main \in Main /\ Sends /\ Here \in State /\ Here.it = it /\ Here.data = data
      /\ it \in [Items -> Item]
  BY HereGood DEF State
<1>2. PICK e : e = CHOOSE f \in Engines : data[f].active /\ data[f].item = i
  OBVIOUS
<1>3. it[i].active => e \in Engines
  <2>1. it[i].active => \E f \in Engines : data[f].active /\ data[f].item = i
    <3>1. i # None
      BY QueueAssumption
    <3> QED
      BY <1>1, <3>1 DEF Good, Assigned
  <2> QED
    BY <1>2, <2>1
<1>4. PICK t : t = [it EXCEPT ![i] = [it[i] EXCEPT !.remove = TRUE, !.queued = TRUE]]
  OBVIOUS
<1>5. PICK w : w = [Here EXCEPT !.it = t]
  OBVIOUS
<1>6. Good(w)
  <2>1. /\ t \in [Items -> Item]
        /\ \A j \in Items : /\ t[j].active = it[j].active /\ t[j].kind = it[j].kind
                            /\ t[j].server = it[j].server /\ t[j].where = it[j].where
    <3>1. it \in [Items -> Item]
      BY <1>1
    <3>2. PICK z \in Item : z = it[i]
      BY <3>1
    <3>3. PICK y : y = [z EXCEPT !.remove = TRUE, !.queued = TRUE]
      OBVIOUS
    <3>4. y \in Item /\ y.active = z.active /\ y.kind = z.kind /\ y.server = z.server /\ y.where = z.where
      BY <3>3 DEF Item
    <3>5. y.active = it[i].active /\ y.kind = it[i].kind /\ y.server = it[i].server /\ y.where = it[i].where
      BY <3>2, <3>4, Zenon
    <3>6. y \in Item
      BY <3>4
    <3>7. t = [it EXCEPT ![i] = y]
      BY <1>4, <3>2, <3>3, Zenon
    <3> QED
      BY <3>1, <3>5, <3>6, <3>7
  <2>2. Good([Here EXCEPT !.it = t])
    <3>1. PICK h : h = Here
      OBVIOUS
    <3>2. \A j \in Items : /\ t[j].active = h.it[j].active /\ t[j].kind = h.it[j].kind
                            /\ t[j].server = h.it[j].server /\ t[j].where = h.it[j].where
      BY <1>1, <2>1, <3>1, Zenon
    <3>3. t \in [Items -> Item] /\ Good(h)
      BY <1>1, <2>1, <3>1, Zenon
    <3>4. Good([h EXCEPT !.it = t])
      BY <3>2, <3>3, ItemsGood
    <3> QED
      BY <3>1, <3>4, Zenon
  <2> QED
    BY <1>5, <2>2, Zenon
<1>7. PICK x : x = [it[i] EXCEPT !.where = "gone"]
  OBVIOUS
<1>8. PICK u : u = [Here EXCEPT !.it[i] = x]
  OBVIOUS
<1>9. ~it[i].active => Good(u)
  <2> HAVE ~it[i].active
  <2>1. x \in Item /\ ~x.active /\ x.kind = it[i].kind /\ x.server = it[i].server
    BY <1>1, <1>7 DEF Item
  <2>2. ~Here.it[i].active /\ x.kind = Here.it[i].kind /\ x.server = Here.it[i].server
    BY <1>1, <2>1, Zenon
  <2>3. x \in Item /\ ~x.active
    BY <2>1
  <2> QED
    BY <1>1, <1>8, <2>2, <2>3, ItemGood, Zenon
<1>10. \/ ~it[i].active /\ Becomes(u) /\ UNCHANGED main
       \/ it[i].active /\ ResetAndAdvance(w, e, "remove")
       \/ it[i].active /\ Becomes(Cancel(w, e)) /\ UNCHANGED main
  <2> DEFINE W == [Here EXCEPT !.it[i].remove = TRUE, !.it[i].queued = TRUE]
             U == [Here EXCEPT !.it[i].where = "gone"]
             F == CHOOSE f \in Engines : data[f].active /\ data[f].item = i
             R(y, z, f) == \/ ~it[i].active /\ Becomes(y) /\ UNCHANGED main
                           \/ it[i].active /\ ResetAndAdvance(z, f, "remove")
                           \/ it[i].active /\ Becomes(Cancel(z, f)) /\ UNCHANGED main
  <2>1. R(U, W, F)
    BY Zenon DEF OnRemoveSelected
  <2>2. W = w
    <3>1. W = [Here EXCEPT !.it = [Here.it EXCEPT ![i] = [Here.it[i] EXCEPT !.remove = TRUE, !.queued = TRUE]]]
      BY <1>1 DEF State
    <3> QED
      BY <1>1, <1>4, <1>5, <3>1, Zenon
  <2>3. U = u
    <3>1. U = [Here EXCEPT !.it[i] = [Here.it[i] EXCEPT !.where = "gone"]]
      BY <1>1 DEF State
    <3> QED
      BY <1>1, <1>7, <1>8, <3>1, Zenon
  <2>4. F = e
    BY <1>2, Zenon
  <2> HIDE DEF W, U, F, R
  <2>5. R(u, w, e)
    BY <2>1, <2>2, <2>3, <2>4, Zenon
  <2> QED
    BY <2>5, Zenon DEF R
<1>11. CASE ~it[i].active /\ Becomes(u) /\ UNCHANGED main
  <2>1. Good(u)
    BY <1>9, <1>11
  <2> QED
    BY <1>1, <1>11, <2>1, StaysSafe
<1>12. CASE it[i].active /\ ResetAndAdvance(w, e, "remove")
  <2>1. e \in Engines /\ "remove" \in Reasons
    BY <1>3, <1>12 DEF Reasons
  <2> QED
    BY <1>1, <1>6, <1>12, <2>1, ResetSafe
<1>13. CASE it[i].active /\ Becomes(Cancel(w, e)) /\ UNCHANGED main
  <2>1. e \in Engines /\ w \in State
    BY <1>3, <1>6, <1>13 DEF Good
  <2>2. Good(Cancel(w, e))
    BY <1>6, <2>1, CancelBeside, BesideGood
  <2> QED
    BY <1>1, <1>13, <2>2, StaysSafe
<1> QED
  BY <1>10, <1>11, <1>12, <1>13

\* All items are removed, those that are active once their transfers have ended.
LEMMA RemoveAllSafe ==
  ASSUME IInv, RemoveAll
  PROVE  IInv'
<1> DEFINE K(x) == IF x.where # "queue" THEN x
                   ELSE IF x.active THEN [x EXCEPT !.remove = TRUE]
                   ELSE [x EXCEPT !.where = "gone"]
<1>1. Good(Here) /\ main \in Main /\ Sends /\ Here \in State /\ Here.it = it /\ it \in [Items -> Item]
  BY HereGood DEF State
<1>2. PICK t : t = [i \in Items |-> K(it[i])]
  OBVIOUS
<1>3. ASSUME NEW i \in Items
      PROVE  /\ t[i] \in Item /\ t[i].active = it[i].active /\ t[i].kind = it[i].kind
             /\ t[i].server = it[i].server /\ (t[i].active => t[i].where = it[i].where)
  <2>1. PICK z \in Item : z = it[i]
    BY <1>1
  <2>2. /\ K(z) \in Item /\ K(z).active = z.active /\ K(z).kind = z.kind
        /\ K(z).server = z.server /\ (K(z).active => K(z).where = z.where)
    BY DEF Item
  <2>3. t[i] = K(z)
    BY <1>2, <2>1
  <2> HIDE DEF K
  <2> QED
    BY <2>1, <2>2, <2>3, Zenon
<1>4. t \in [Items -> Item]
  <2>1. t = [i \in Items |-> t[i]]
    BY <1>2
  <2> QED
    BY <1>3, <2>1
<1>5. PICK w : w = [Here EXCEPT !.it = t]
  OBVIOUS
<1>6. Good(w)
  <2>1. PICK h : h = Here
    OBVIOUS
  <2>2. \A j \in Items : /\ t[j].active = h.it[j].active /\ t[j].kind = h.it[j].kind
                         /\ t[j].server = h.it[j].server /\ (t[j].active => t[j].where = h.it[j].where)
    BY <1>1, <1>3, <2>1, Zenon
  <2>3. Good(h)
    BY <1>1, <2>1, Zenon
  <2>4. Good([h EXCEPT !.it = t])
    BY <1>4, <2>2, <2>3, ItemsGood
  <2> QED
    BY <1>5, <2>1, <2>4, Zenon
<1>7. Good(CheckQueueState(w, None))
  BY <1>6, CheckQueueStateGood
<1>8. Becomes(CheckQueueState(w, None)) /\ UNCHANGED main
  <2>1. Becomes(CheckQueueState([Here EXCEPT !.it = [i \in Items |-> K(it[i])]], None)) /\ UNCHANGED main
    BY Zenon DEF RemoveAll
  <2>2. [Here EXCEPT !.it = [i \in Items |-> K(it[i])]] = w
    BY <1>2, <1>5, Zenon
  <2> QED
    BY <2>1, <2>2, Zenon
<1> QED
  BY <1>1, <1>7, <1>8, StaysSafe

\* The program is to quit.
LEMMA QuitGood ==
  ASSUME NEW w, Good(w)
  PROVE  Good([w EXCEPT !.q.quit = 1])
<1>1. w \in State /\ w.q \in QueueState
  BY DEF Good, State
<1>2. PICK z : z = w.q
  OBVIOUS
<1>3. z \in QueueState
  BY <1>1, <1>2, Zenon
<1>4. PICK p : p = [z EXCEPT !.quit = 1]
  OBVIOUS
<1>12. PICK k \in 0..2 : k = 1
  OBVIOUS
<1>13. p = [z EXCEPT !.quit = k]
  BY <1>4, <1>12, Zenon
<1>5. p \in QueueState /\ p.list = z.list /\ p.count = z.count /\ p.down = z.down /\ p.up = z.up
      /\ p.server = z.server /\ p.asking = z.asking /\ p.waiting = z.waiting
  BY <1>3, <1>13 DEF QueueState
<1>6. z.asking => z.waiting # <<>>
  BY <1>2, Zenon DEF Good, Asks
<1>7. p.list = w.q.list /\ p.count = w.q.count /\ p.down = w.q.down /\ p.up = w.q.up
      /\ p.server = w.q.server
  BY <1>2, <1>5, Zenon
<1>8. p.asking => p.waiting # <<>>
  BY <1>5, <1>6, Zenon
<1>9. p \in QueueState
  BY <1>5
<1>10. Good([w EXCEPT !.q = p])
  BY <1>7, <1>8, <1>9, QueueGood, Zenon
<1>11. [w EXCEPT !.q.quit = 1] = [w EXCEPT !.q = p]
  <2>1. [w EXCEPT !.q.quit = 1] = [w EXCEPT !.q = [w.q EXCEPT !.quit = 1]]
    BY <1>1 DEF State
  <2> QED
    BY <1>2, <1>4, <2>1, Zenon
<1> QED
  BY <1>10, <1>11, Zenon

\* It quits at once if no engine is active.
LEMMA QuitSafe ==
  ASSUME IInv, Quit
  PROVE  IInv'
<1>1. Good(Here) /\ main \in Main /\ Sends
  BY HereGood
<1>2. PICK w : w = Deactivate([Here EXCEPT !.q.quit = 1])
  OBVIOUS
<1>3. Good(w)
  BY <1>1, <1>2, QuitGood, DeactivateGood, Zenon
<1>4. w.q.count = 0 => Good(DeleteEngines(w))
  BY <1>3, NobodyActive, DeleteEnginesGood
<1>5. \/ w.q.count = 0 /\ Becomes(DeleteEngines(w)) /\ UNCHANGED main
      \/ Becomes(w) /\ UNCHANGED main
  <2> DEFINE R(x) == \/ x.q.count = 0 /\ Becomes(DeleteEngines(x)) /\ UNCHANGED main
                     \/ Becomes(x) /\ UNCHANGED main
  <2>1. R(Deactivate([Here EXCEPT !.q.quit = 1]))
    BY Zenon DEF Quit
  <2> HIDE DEF R
  <2>2. R(w)
    BY <1>2, <2>1, Zenon
  <2> QED
    BY <2>2, Zenon DEF R
<1> QED
  BY <1>1, <1>3, <1>4, <1>5, StaysSafe

\* The browsing connection is given a command.
LEMMA BrowseSafe ==
  ASSUME IInv, NEW s \in Servers \cup {None}, Browse(s)
  PROVE  IInv'
<1>1. Good(Here) /\ main \in Main /\ Sends /\ Here \in State
  BY HereGood
<1>2. PICK w : w = [Here EXCEPT !.br.site = s, !.br.cmds = @ + 1]
  OBVIOUS
<1>3. Good(w) /\ w \in State
  <2>1. PICK z : z = Here.br
    OBVIOUS
  <2>2. PICK n : n = z.cmds + 1
    OBVIOUS
  <2>3. z \in Browsing
    BY <1>1, <2>1 DEF State
  <2>4. n \in Int
    BY <2>2, <2>3 DEF Browsing
  <2>5. PICK b : b = [z EXCEPT !.site = s, !.cmds = n]
    OBVIOUS
  <2>6. b \in Browsing
    BY <2>3, <2>4, <2>5 DEF Browsing
  <2>7. w = [Here EXCEPT !.br = b]
    <3>1. w = [Here EXCEPT !.br.site = s, !.br.cmds = n]
      BY <1>2, <2>1, <2>2, Zenon
    <3>2. [Here EXCEPT !.br.site = s, !.br.cmds = n] = [Here EXCEPT !.br = [Here.br EXCEPT !.site = s, !.cmds = n]]
      BY <1>1 DEF State
    <3> QED
      BY <2>1, <2>5, <3>1, <3>2, Zenon
  <2>8. Good([Here EXCEPT !.br = b])
    BY <1>1, <2>6, BrowsingGood
  <2>9. Good(w)
    BY <2>7, <2>8, Zenon
  <2> QED
    BY <2>9 DEF Good
<1>4. Good(ProcessNextCommand(w))
  BY <1>3, ProcessNextBeside, BesideGood
<1>5. (Becomes(ProcessNextCommand(w)) \/ Becomes(w)) /\ UNCHANGED main
  <2> DEFINE R(x) == (Becomes(ProcessNextCommand(x)) \/ Becomes(x)) /\ UNCHANGED main
  <2>1. R([Here EXCEPT !.br.site = s, !.br.cmds = @ + 1])
    BY Zenon DEF Browse
  <2> HIDE DEF R
  <2>2. R(w)
    BY <1>2, <2>1, Zenon
  <2> QED
    BY <2>2, Zenon DEF R
<1> QED
  BY <1>1, <1>3, <1>4, <1>5, StaysSafe

-----------------------------------------------------------------------------
(* The engines' threads.                                                    *)

\* A step of a thread changes the engines, and may mark an item as done.
LEMMA ThreadSafe ==
  ASSUME IInv, en' \in [Engines -> Engine], NEW i, it' = it \/ it' = [it EXCEPT ![i].done = TRUE],
         UNCHANGED <<q, data, br, main>>
  PROVE  IInv'
<1>1. Good(Here) /\ main \in Main /\ Sends /\ Here \in State /\ it \in [Items -> Item]
      /\ Here.q = q /\ Here.data = data /\ Here.it = it /\ Here.br = br /\ Here.en = en
  BY HereGood DEF State
<1>2. PICK n : n = en'
  OBVIOUS
<1>3. PICK t : t = it'
  OBVIOUS
<1>4. PICK h : h = Here
  OBVIOUS
<1>5. /\ t \in [Items -> Item]
      /\ \A j \in Items : /\ t[j].active = it[j].active /\ t[j].kind = it[j].kind
                          /\ t[j].server = it[j].server /\ t[j].where = it[j].where
  <2>1. PICK o : o = it
    OBVIOUS
  <2>2. o \in [Items -> Item]
    BY <1>1, <2>1, Zenon
  <2>3. t = o \/ t = [o EXCEPT ![i].done = TRUE]
    BY <1>3, <2>1, Zenon
  <2>4. /\ t \in [Items -> Item]
        /\ \A j \in Items : /\ t[j].active = o[j].active /\ t[j].kind = o[j].kind
                            /\ t[j].server = o[j].server /\ t[j].where = o[j].where
    <3>1. CASE t = o \/ i \notin Items
      <4>1. t = o
        BY <2>2, <2>3, <3>1
      <4> QED
        BY <2>2, <4>1, Zenon
    <3>2. CASE t = [o EXCEPT ![i].done = TRUE] /\ i \in Items
      <4>1. PICK z \in Item : z = o[i]
        BY <2>2, <3>2
      <4>2. PICK y : y = [z EXCEPT !.done = TRUE]
        OBVIOUS
      <4>3. y \in Item /\ y.active = z.active /\ y.kind = z.kind /\ y.server = z.server /\ y.where = z.where
        BY <4>2 DEF Item
      <4>4. y.active = o[i].active /\ y.kind = o[i].kind /\ y.server = o[i].server /\ y.where = o[i].where
        BY <4>1, <4>3, Zenon
      <4>5. y \in Item
        BY <4>3
      <4>6. t = [o EXCEPT ![i] = y]
        BY <3>2, <4>1, <4>2, Zenon
      <4> QED
        BY <2>2, <3>2, <4>4, <4>5, <4>6
    <3> QED
      BY <2>3, <3>1, <3>2
  <2> QED
    BY <2>1, <2>4, Zenon
<1>6. Good([h EXCEPT !.it = t])
  <2>1. \A j \in Items : /\ t[j].active = h.it[j].active /\ t[j].kind = h.it[j].kind
                         /\ t[j].server = h.it[j].server /\ t[j].where = h.it[j].where
    BY <1>1, <1>4, <1>5, Zenon
  <2>2. Good(h)
    BY <1>1, <1>4, Zenon
  <2> QED
    BY <1>5, <2>1, <2>2, ItemsGood
<1>7. PICK u : u = [h EXCEPT !.it = t]
  OBVIOUS
<1>8. Good(u) /\ u \in State
  BY <1>6, <1>7 DEF Good
<1>9. PICK w : w = [u EXCEPT !.en = n]
  OBVIOUS
<1>10. Good(w)
  <2>1. n \in [Engines -> Engine]
    BY <1>2, Zenon
  <2> QED
    BY <1>8, <1>9, <2>1, EnginesBeside, BesideGood
<1>11. w.q = h.q /\ w.data = h.data /\ w.br = h.br /\ w.it = t /\ w.en = n
  <2>1. h \in State
    BY <1>1, <1>4, Zenon
  <2>2. u.q = h.q /\ u.data = h.data /\ u.br = h.br /\ u.it = t
    BY <1>7, <2>1 DEF State
  <2>3. w.q = u.q /\ w.data = u.data /\ w.br = u.br /\ w.it = u.it /\ w.en = n
    BY <1>8, <1>9 DEF State
  <2> QED
    BY <2>2, <2>3, Zenon
<1>12. Becomes(w)
  <2>1. w.q = q /\ w.data = data /\ w.br = br /\ w.it = it' /\ w.en = en'
    BY <1>1, <1>2, <1>3, <1>4, <1>11, Zenon
  <2> QED
    BY <2>1 DEF Becomes
<1>13. UNCHANGED main
  OBVIOUS
<1> QED
  BY <1>1, <1>10, <1>12, <1>13, StaysSafe

\* An event is taken.
LEMMA TakenFacts ==
  ASSUME NEW x \in Engine, x.events # <<>>
  PROVE  [x EXCEPT !.events = Tail(@)] \in Engine
<1>1. PICK l : l = Tail(x.events)
  OBVIOUS
<1>2. l \in Seq({"cmd", "cancel"})
  <2>1. x.events \in Seq({"cmd", "cancel"})
    BY DEF Engine
  <2> QED
    BY <1>1, <2>1
<1>3. [x EXCEPT !.events = l] \in Engine
  BY <1>2 DEF Engine
<1> QED
  BY <1>1, <1>3, Zenon

\* A command has ended.
LEMMA EndedFacts ==
  ASSUME IInv, NEW e \in Engines, NEW r \in Replies, NEW progress \in BOOLEAN
  PROVE  Ended(e, r, progress) \in Engine /\ Ended(e, r, progress).events = en[e].events
<1>1. en[e] \in Engine
  BY HereGood DEF State
<1>2. PICK x : x = en[e]
  OBVIOUS
<1>3. x \in Engine
  BY <1>1, <1>2, Zenon
<1>4. PICK n : n = [r |-> r, cmd |-> x.cmd, item |-> x.item, progress |-> progress]
  OBVIOUS
<1>5. n \in Note
  BY <1>3, <1>4 DEF Engine, Note
<1>6. PICK l : l = Append(x.notes, n)
  OBVIOUS
<1>7. l \in Seq(Note)
  <2>1. x.notes \in Seq(Note)
    BY <1>3 DEF Engine
  <2> QED
    BY <1>5, <1>6, <2>1
<1>8. "none" \in Commands /\ None \in Items \cup {None}
  BY DEF Commands
<1>9. PICK c \in Commands : c = "none"
  BY <1>8
<1>10. PICK y : y = [x EXCEPT !.cmd = c, !.item = None, !.run = FALSE, !.notes = l]
  OBVIOUS
<1>11. y \in Engine /\ y.events = x.events
  BY <1>3, <1>7, <1>10 DEF Engine
<1>12. Ended(e, r, progress) = y
  BY <1>2, <1>4, <1>6, <1>9, <1>10, Zenon DEF Ended
<1> QED
  BY <1>2, <1>11, <1>12, Zenon

\* What the thread changes besides.
LEMMA ThreadFields ==
  ASSUME NEW n \in Engine
  PROVE  /\ [n EXCEPT !.events = Tail(@)].cmd = n.cmd
         /\ [n EXCEPT !.events = Tail(@)].item = n.item
         /\ [n EXCEPT !.events = Tail(@)].notes = n.notes
BY DEF Engine

\* An engine goes on with its command.
GoesOn(n, m) == m.cmd = n.cmd /\ m.item = n.item /\ m.notes = n.notes

\* The command n of an engine e ends with the reply r, which becomes m.
EndsWith(e, m, r) == m.cmd = "none" /\ m.item = None /\ m.notes = Ended(e, r, FALSE).notes

\* The thread begins to execute a command, or has disconnected.
LEMMA OnCommandEventShape ==
  ASSUME IInv, NEW e \in Engines, OnCommandEvent(e)
  PROVE  \E y \in Engine : /\ en' = [en EXCEPT ![e] = y]
                           /\ \/ GoesOn(en[e], y)
                              \/ en[e].cmd = "disconnect" /\ \E r \in Replies : EndsWith(e, y, r)
<1> DEFINE T(x) == [x EXCEPT !.events = Tail(@)]
<1>1. en \in [Engines -> Engine] /\ en[e] \in Engine
  BY HereGood DEF State
<1>2. en[e].events # <<>>
  BY DEF OnCommandEvent
<1>3. T(en[e]) \in Engine /\ GoesOn(en[e], T(en[e]))
  BY <1>1, <1>2, TakenFacts, ThreadFields DEF GoesOn
<1>4. PICK t : t = T(en[e])
  OBVIOUS
<1>5. t \in Engine /\ GoesOn(en[e], t)
  BY <1>3, <1>4, Zenon
<1>6. PICK r : r = IF en[e].sock THEN "disconnected" ELSE "ok"
  OBVIOUS
<1>7. r \in Replies /\ FALSE \in BOOLEAN
  BY <1>6 DEF Replies
<1>8. PICK z : z = Ended(e, r, FALSE)
  OBVIOUS
<1>9. z \in Engine /\ z.events # <<>>
  BY <1>2, <1>7, <1>8, EndedFacts, Zenon
<1>10. z.cmd = "none" /\ z.item = None
  <2>1. z = [en[e] EXCEPT !.cmd = "none", !.item = None, !.run = FALSE, !.notes = z.notes]
    <3>1. PICK l : l = Append(en[e].notes, [r |-> r, cmd |-> en[e].cmd, item |-> en[e].item, progress |-> FALSE])
      OBVIOUS
    <3>2. z = [en[e] EXCEPT !.cmd = "none", !.item = None, !.run = FALSE, !.notes = l]
      BY <1>8, <3>1, Zenon DEF Ended
    <3>3. z.notes = l
      BY <1>1, <3>2 DEF Engine
    <3> QED
      BY <3>2, <3>3, Zenon
  <2> QED
    BY <1>1, <2>1 DEF Engine
<1>11. PICK u : u = T(z)
  OBVIOUS
<1>12. u \in Engine /\ u.cmd = "none" /\ u.item = None /\ u.notes = z.notes
  <2>1. T(z) \in Engine /\ T(z).cmd = z.cmd /\ T(z).item = z.item /\ T(z).notes = z.notes
    BY <1>9, TakenFacts, ThreadFields
  <2> QED
    BY <1>10, <1>11, <2>1, Zenon
<1>13. \/ en' = [en EXCEPT ![e] = t]
       \/ en' = [en EXCEPT ![e] = [t EXCEPT !.run = TRUE, !.sock = TRUE]]
       \/ en[e].cmd = "disconnect" /\ en' = [en EXCEPT ![e] = [u EXCEPT !.sock = FALSE]]
  <2>1. \/ en' = [en EXCEPT ![e] = T(@)]
        \/ en' = [en EXCEPT ![e] = [T(@) EXCEPT !.run = TRUE, !.sock = TRUE]]
        \/ en[e].cmd = "disconnect"
             /\ en' = [en EXCEPT ![e] = [T(Ended(e, IF @.sock THEN "disconnected" ELSE "ok", FALSE)) EXCEPT !.sock = FALSE]]
    BY Zenon DEF OnCommandEvent
  <2>2. \/ en' = [en EXCEPT ![e] = T(en[e])]
        \/ en' = [en EXCEPT ![e] = [T(en[e]) EXCEPT !.run = TRUE, !.sock = TRUE]]
        \/ en[e].cmd = "disconnect"
             /\ en' = [en EXCEPT ![e] = [T(Ended(e, IF en[e].sock THEN "disconnected" ELSE "ok", FALSE)) EXCEPT !.sock = FALSE]]
    BY <2>1, Zenon
  <2> QED
    BY <1>4, <1>6, <1>8, <1>11, <2>2, Zenon
<1>14. CASE en' = [en EXCEPT ![e] = t]
  BY <1>5, <1>14
<1>15. CASE en' = [en EXCEPT ![e] = [t EXCEPT !.run = TRUE, !.sock = TRUE]]
  <2>1. PICK y : y = [t EXCEPT !.run = TRUE, !.sock = TRUE]
    OBVIOUS
  <2>2. y \in Engine /\ y.cmd = t.cmd /\ y.item = t.item /\ y.notes = t.notes
    BY <1>5, <2>1 DEF Engine
  <2>3. GoesOn(en[e], y)
    BY <1>5, <2>2 DEF GoesOn
  <2> QED
    BY <1>15, <2>1, <2>2, <2>3, Zenon
<1>16. CASE en[e].cmd = "disconnect" /\ en' = [en EXCEPT ![e] = [u EXCEPT !.sock = FALSE]]
  <2>1. PICK y : y = [u EXCEPT !.sock = FALSE]
    OBVIOUS
  <2>2. y \in Engine /\ y.cmd = u.cmd /\ y.item = u.item /\ y.notes = u.notes
    BY <1>12, <2>1 DEF Engine
  <2>3. EndsWith(e, y, r)
    BY <1>8, <1>12, <2>2, Zenon DEF EndsWith
  <2> QED
    BY <1>7, <1>16, <2>1, <2>2, <2>3, Zenon
<1> QED
  BY <1>13, <1>14, <1>15, <1>16

\* (OnCommandEvent)
LEMMA OnCommandEventSafe ==
  ASSUME IInv, NEW e \in Engines, OnCommandEvent(e)
  PROVE  IInv'
<1>1. en \in [Engines -> Engine]
  BY HereGood DEF State
<1>2. PICK y \in Engine : en' = [en EXCEPT ![e] = y]
  BY OnCommandEventShape
<1>3. en' \in [Engines -> Engine]
  BY <1>1, <1>2
<1>4. UNCHANGED <<q, data, br, main>> /\ it' = it
  BY DEF OnCommandEvent
<1> QED
  BY <1>3, <1>4, ThreadSafe

\* A connect that was delayed begins.
LEMMA ConnectDelayEndsShape ==
  ASSUME IInv, NEW e \in Engines, ConnectDelayEnds(e)
  PROVE  \E y \in Engine : en' = [en EXCEPT ![e] = y] /\ GoesOn(en[e], y)
<1>1. en \in [Engines -> Engine] /\ en[e] \in Engine
  BY HereGood DEF State
<1>2. PICK z \in Engine : z = en[e]
  BY <1>1
<1>3. PICK y : y = [z EXCEPT !.run = TRUE, !.sock = TRUE]
  OBVIOUS
<1>4. y \in Engine /\ GoesOn(z, y)
  BY <1>3 DEF Engine, GoesOn
<1>5. en' = [en EXCEPT ![e] = y]
  <2>1. en' = [en EXCEPT ![e].run = TRUE, ![e].sock = TRUE]
    BY DEF ConnectDelayEnds
  <2>2. [en EXCEPT ![e].run = TRUE, ![e].sock = TRUE] = [en EXCEPT ![e] = y]
    BY <1>1, <1>2, <1>3
  <2> QED
    BY <2>1, <2>2, Zenon
<1> QED
  BY <1>2, <1>4, <1>5, Zenon

\* (ConnectDelayEnds)
LEMMA ConnectDelayEndsSafe ==
  ASSUME IInv, NEW e \in Engines, ConnectDelayEnds(e)
  PROVE  IInv'
<1>1. en \in [Engines -> Engine]
  BY HereGood DEF State
<1>2. PICK y \in Engine : en' = [en EXCEPT ![e] = y]
  BY ConnectDelayEndsShape
<1>3. en' \in [Engines -> Engine]
  BY <1>1, <1>2
<1>4. UNCHANGED <<q, data, br, main>> /\ it' = it
  BY DEF ConnectDelayEnds
<1> QED
  BY <1>3, <1>4, ThreadSafe

\* It carries out a cancellation.
LEMMA DoCancelSafe ==
  ASSUME IInv, NEW e \in Engines, DoCancel(e)
  PROVE  IInv'
<1> DEFINE T(x) == [x EXCEPT !.events = Tail(@)]
<1>1. en \in [Engines -> Engine] /\ en[e] \in Engine
  BY HereGood DEF State
<1>2. en[e].events # <<>>
  BY DEF DoCancel
<1>3. T(en[e]) \in Engine
  BY <1>1, <1>2, TakenFacts
<1>4. T(Ended(e, "canceled", FALSE)) \in Engine
  <2>1. "canceled" \in Replies /\ FALSE \in BOOLEAN
    BY DEF Replies
  <2>2. Ended(e, "canceled", FALSE) \in Engine /\ Ended(e, "canceled", FALSE).events = en[e].events
    BY <2>1, EndedFacts
  <2> QED
    BY <1>2, <2>2, TakenFacts
<1>5. PICK y : y = IF en[e].cmd # "none" /\ (en[e].run \/ ~en[e].sock)
                   THEN T(Ended(e, "canceled", FALSE)) ELSE T(en[e])
  OBVIOUS
<1>6. y \in Engine
  BY <1>3, <1>4, <1>5, Zenon
<1>7. en' = [en EXCEPT ![e] = y]
  <2>1. en' = [en EXCEPT ![e] = IF en[e].cmd # "none" /\ (en[e].run \/ ~en[e].sock)
                                THEN T(Ended(e, "canceled", FALSE)) ELSE T(en[e])]
    BY Zenon DEF DoCancel
  <2> QED
    BY <1>5, <2>1, Zenon
<1>8. en' \in [Engines -> Engine]
  BY <1>1, <1>6, <1>7
<1>9. UNCHANGED <<q, data, br, main>> /\ it' = it
  BY DEF DoCancel
<1> QED
  BY <1>8, <1>9, ThreadSafe

\* What a command may end with.
LEMMA OutcomesAreReplies == \A c : Outcomes(c) \subseteq Replies
BY DEF Outcomes, Replies

\* An operation ends.
LEMMA OperationEndsSafe ==
  ASSUME IInv, NEW e \in Engines, NEW r \in Replies, NEW progress \in BOOLEAN, OperationEnds(e, r, progress)
  PROVE  IInv'
<1>1. en \in [Engines -> Engine] /\ en[e] \in Engine /\ br \in Browsing
  BY HereGood DEF State
<1>2. PICK z : z = Ended(e, r, progress)
  OBVIOUS
<1>3. z \in Engine
  BY <1>2, EndedFacts, Zenon
<1>4. PICK b \in BOOLEAN : b = IF en[e].cmd = "browse" THEN br.site # None ELSE z.sock
  BY <1>3 DEF Engine
<1>5. PICK y : y = [z EXCEPT !.sock = b]
  OBVIOUS
<1>6. y \in Engine
  BY <1>3, <1>5 DEF Engine
<1>7. en' = [en EXCEPT ![e] = y]
  <2>1. en' = [en EXCEPT ![e] = [Ended(e, r, progress) EXCEPT
                 !.sock = IF en[e].cmd = "browse" THEN br.site # None ELSE @]]
    BY Zenon DEF OperationEnds
  <2> QED
    BY <1>2, <1>4, <1>5, <2>1, Zenon
<1>8. en' \in [Engines -> Engine]
  BY <1>1, <1>6, <1>7
<1>9. UNCHANGED <<q, data, br, main>> /\ (it' = it \/ it' = [it EXCEPT ![en[e].item].done = TRUE])
  BY DEF OperationEnds
<1>10. PICK i : i = en[e].item
  OBVIOUS
<1>11. it' = it \/ it' = [it EXCEPT ![i].done = TRUE]
  BY <1>9, <1>10, Zenon
<1>12. UNCHANGED <<q, data, br, main>>
  BY <1>9
<1> QED
  BY <1>8, <1>11, <1>12, ThreadSafe

-----------------------------------------------------------------------------
(* The engine for the next item.                                            *)

\* A set of places in a list has a first one.
LEMMA FirstPlace ==
  ASSUME NEW places, places \subseteq Nat, places # {}
  PROVE  \E k \in places : \A j \in places : k <= j
<1>1. PICK R : R = OpToRel(<, Nat)
  OBVIOUS
<1>2. IsWellFoundedOn(R, Nat)
  BY <1>1, NatLessThanWellFounded, Zenon
<1>3. \A x, y \in Nat : <<x, y>> \in R <=> x < y
  BY <1>1 DEF OpToRel
<1>4. PICK k \in places : \A j \in places : ~(<<j, k>> \in R)
  BY <1>2, WFMin
<1>5. \A j \in places : k <= j
  <2> TAKE j \in places
  <2>1. j \in Nat /\ k \in Nat
    OBVIOUS
  <2>2. ~(j < k)
    BY <1>3, <1>4, <2>1, Zenon
  <2> QED
    BY <2>1, <2>2
<1> QED
  BY <1>5

\* The first of some engines is one of them.
LEMMA FirstFacts ==
  ASSUME NEW list \in Seq(Engines), NEW engines, engines \subseteq Range(list), engines # {}
  PROVE  First(list, engines) \in engines
<1>1. PICK places : places = {k \in DOMAIN list : list[k] \in engines}
  OBVIOUS
<1>2. DOMAIN list = 1..Len(list) /\ Len(list) \in Nat
  OBVIOUS
<1>3. places \subseteq Nat
  BY <1>1, <1>2
<1>4. places # {}
  BY <1>1 DEF Range
<1>5. PICK n : n = CHOOSE k \in places : \A j \in places : k <= j
  OBVIOUS
<1>6. n \in places
  BY <1>3, <1>4, <1>5, FirstPlace
<1>7. First(list, engines) = list[n]
  BY <1>1, <1>5, Zenon DEF First
<1>8. list[n] \in engines
  BY <1>1, <1>6
<1> QED
  BY <1>7, <1>8, Zenon

\* There is room for a new engine while the others are fewer than the transfers.
LEMMA RoomForOne ==
  ASSUME NEW list \in Seq(Engines), NEW S \in SUBSET Range(list), Own \subseteq S,
         NEW n \in Nat, Cardinality(S) <= n, n < NumTransfers
  PROVE  FALSE
<1>1. IsFiniteSet(Own) /\ NumTransfers \in 1..Cardinality(Own)
  BY QueueAssumption
<1>2. S \in SUBSET Engines
  BY DEF Range
<1>3. IsFiniteSet(S) /\ Cardinality(S) \in Nat
  <2>1. Primary \in Engines
    BY DEF Engines
  <2> QED
    BY <1>2, <2>1, EngineCounts
<1>4. Cardinality(Own) <= Cardinality(S)
  BY <1>3, FS_Subset
<1>5. Cardinality(Own) \in Nat
  BY <1>1, FS_CardinalityType
<1> QED
  BY <1>1, <1>3, <1>4, <1>5

\* A list has no more members than places.
LEMMA ListCounts ==
  ASSUME NEW list \in Seq(Engines)
  PROVE  /\ IsFiniteSet(Range(list)) /\ Cardinality(Range(list)) \in Nat
         /\ Cardinality(Range(list)) <= Len(list)
<1>1. PICK n \in Nat : n = Len(list)
  OBVIOUS
<1>2. list \in Surjection(1..n, Range(list))
  BY <1>1 DEF Surjection, Range
<1>3. ExistsSurjection(1..n, Range(list))
  BY <1>2 DEF ExistsSurjection
<1>4. Cardinality(Range(list)) <= n
  BY <1>3, FS_SurjCardinalityBound
<1>5. Range(list) \in SUBSET Engines /\ Primary \in Engines
  BY DEF Range, Engines
<1> QED
  BY <1>1, <1>4, <1>5, EngineCounts

\* GetIdleEngine finds an engine that is not active.
LEMMA GetIdleEngineFacts ==
  ASSUME NEW w, Good(w), NEW s, NEW transient \in BOOLEAN, NEW e,
         e = GetIdleEngine(w, s, transient), e # None
  PROVE  e \in Engines /\ ~w.data[e].active
<1>1. w \in State /\ w.q.list \in Seq(Engines)
  BY DEF Good, State, QueueState
<1>2. PICK idle : idle = IdleEngines(w, transient)
  OBVIOUS
<1>3. idle \subseteq Range(w.q.list) /\ \A f \in idle : f \in Engines /\ ~w.data[f].active
  BY <1>1, <1>2 DEF IdleEngines, Range
<1>4. PICK fits : fits = {f \in idle : w.en[f].sock /\ w.data[f].site = s}
  OBVIOUS
<1>5. fits \subseteq idle
  BY <1>4
<1>6. PICK counted : counted = IF Primary \in Range(w.q.list) /\ ~w.data[Primary].active
                               THEN Len(w.q.list) - 1 ELSE Len(w.q.list)
  OBVIOUS
<1>7. e = IF fits # {} THEN First(w.q.list, fits)
          ELSE IF idle # {} THEN First(w.q.list, idle)
          ELSE IF counted < NumTransfers THEN CHOOSE f \in Own : f \notin Range(w.q.list)
          ELSE None
  <2> DEFINE F(i) == {f \in i : w.en[f].sock /\ w.data[f].site = s}
             C == IF Primary \in Range(w.q.list) /\ ~w.data[Primary].active
                    THEN Len(w.q.list) - 1 ELSE Len(w.q.list)
             G(i, f, c) == IF f # {} THEN First(w.q.list, f)
                           ELSE IF i # {} THEN First(w.q.list, i)
                           ELSE IF c < NumTransfers THEN CHOOSE g \in Own : g \notin Range(w.q.list)
                           ELSE None
  <2>1. e = G(IdleEngines(w, transient), F(IdleEngines(w, transient)), C)
    BY Zenon DEF GetIdleEngine
  <2>4. counted = C
    BY <1>6, Zenon
  <2>2. fits = F(IdleEngines(w, transient))
    BY <1>2, <1>4, Zenon
  <2> HIDE DEF F, G, C
  <2>3. e = G(idle, fits, counted)
    BY <1>2, <2>1, <2>2, <2>4, Zenon
  <2> QED
    BY <2>3, Zenon DEF G
<1>8. CASE fits # {}
  <2>1. e = First(w.q.list, fits)
    BY <1>7, <1>8, Zenon
  <2>2. First(w.q.list, fits) \in fits
    BY <1>1, <1>3, <1>5, <1>8, FirstFacts
  <2> QED
    BY <1>3, <1>5, <2>1, <2>2
<1>9. CASE fits = {} /\ idle # {}
  <2>1. e = First(w.q.list, idle)
    BY <1>7, <1>9, Zenon
  <2>2. First(w.q.list, idle) \in idle
    BY <1>1, <1>3, <1>9, FirstFacts
  <2> QED
    BY <1>3, <2>1, <2>2
<1>10. CASE fits = {} /\ idle = {}
  <2>1. counted < NumTransfers /\ e = CHOOSE f \in Own : f \notin Range(w.q.list)
    BY <1>7, <1>10, Zenon
  <2>2. \E f \in Own : f \notin Range(w.q.list)
    <3>1. SUFFICES ASSUME Own \subseteq Range(w.q.list) PROVE FALSE
      OBVIOUS
    <3>2. PICK l \in Seq(Engines) : l = w.q.list
      BY <1>1
    <3>3. Own \subseteq Range(l)
      BY <3>1, <3>2
    <3>4. /\ IsFiniteSet(Range(l)) /\ Cardinality(Range(l)) \in Nat
          /\ Cardinality(Range(l)) <= Len(l) /\ Len(l) \in Nat
      BY ListCounts
    <3>5. CASE Primary \in Range(l) /\ ~w.data[Primary].active
      <4>1. counted = Len(l) - 1
        BY <1>6, <3>2, <3>5, Zenon
      <4>2. Own \subseteq Range(l) \ {Primary}
        BY <3>3, QueueAssumption
      <4>3. Cardinality(Range(l) \ {Primary}) = Cardinality(Range(l)) - 1
        BY <3>4, <3>5, FS_RemoveElement
      <4>4. Len(l) - 1 \in Nat /\ Cardinality(Range(l) \ {Primary}) <= Len(l) - 1
        <5>1. Len(l) # 0
          BY <3>5 DEF Range
        <5> QED
          BY <3>4, <4>3, <5>1
      <4> QED
        BY <2>1, <4>1, <4>2, <4>4, RoomForOne
    <3>6. CASE ~(Primary \in Range(l) /\ ~w.data[Primary].active)
      <4>1. counted = Len(l)
        BY <1>6, <3>2, <3>6, Zenon
      <4> QED
        BY <2>1, <3>3, <3>4, <4>1, RoomForOne
    <3> QED
      BY <3>5, <3>6
  <2>3. e \in Own /\ e \notin Range(w.q.list)
    BY <2>1, <2>2
  <2> QED
    BY <2>3 DEF Engines, Good, Listed
<1> QED
  BY <1>8, <1>9, <1>10

\* From w to u engines may have joined the list, and the state of an engine
\* that is not active may have changed.
Grown(w, u) ==
  /\ Good(u) /\ u.it = w.it /\ u.en = w.en /\ u.br = w.br /\ u.q.server = w.q.server
  /\ u.q.mode = w.q.mode
  /\ Range(w.q.list) \subseteq Range(u.q.list)
  /\ \A f \in Engines : /\ u.data[f].active = w.data[f].active
                        /\ u.data[f].item = w.data[f].item /\ u.data[f].site = w.data[f].site

\* One such change after another.
LEMMA GrownTwice ==
  ASSUME NEW u, NEW v, NEW w, Grown(u, v), Grown(v, w)
  PROVE  Grown(u, w)
BY Zenon DEF Grown

\* An engine joins the list.
LEMMA ListingGrown ==
  ASSUME NEW w, Good(w), NEW e \in Engines \cup {None}
  PROVE  /\ Grown(w, Listing(w, e)) /\ Listing(w, e).data = w.data
         /\ e # None => e \in Range(Listing(w, e).q.list)
<1>1. w \in State /\ w.q \in QueueState /\ w.q.list \in Seq(Engines) /\ Injective(w.q.list)
  <2>1. Injective(w.q.list)
    BY Zenon DEF Good, Listed, Injective
  <2> QED
    BY <2>1 DEF Good, State, QueueState
<1>2. CASE e = None \/ e \in Range(w.q.list)
  <2>1. Listing(w, e) = w
    BY <1>2, Zenon DEF Listing
  <2>2. Grown(w, w)
    BY DEF Grown
  <2> QED
    BY <1>2, <2>1, <2>2, Zenon
<1>3. CASE e # None /\ e \notin Range(w.q.list)
  <2>1. PICK l : l = Append(w.q.list, e)
    OBVIOUS
  <2>2. l \in Seq(Engines) /\ Injective(l) /\ Range(l) = Range(w.q.list) \cup {e}
    <3>1. PICK k \in Seq(Engines) : k = w.q.list
      BY <1>1
    <3>2. Injective(k) /\ e \notin Range(k) /\ e \in Engines
      BY <1>1, <1>3, <3>1
    <3>3. Append(k, e) \in Seq(Engines) /\ Injective(Append(k, e)) /\ Range(Append(k, e)) = Range(k) \cup {e}
      BY <3>2, JoinFacts
    <3> QED
      BY <2>1, <3>1, <3>3, Zenon
  <2>3. PICK z \in QueueState : z = w.q
    BY <1>1
  <2>4. PICK p : p = [z EXCEPT !.list = l]
    OBVIOUS
  <2>5. p \in QueueState /\ p.list = l /\ p.count = z.count /\ p.down = z.down /\ p.up = z.up
        /\ p.server = z.server /\ p.asking = z.asking /\ p.waiting = z.waiting /\ p.mode = z.mode
    <3>1. l \in Seq(Engines)
      BY <2>2
    <3> QED
      BY <2>4, <3>1 DEF QueueState
  <2>6. PICK y : y = [w EXCEPT !.q = p]
    OBVIOUS
  <2>7. Listing(w, e) = y
    <3>1. Listing(w, e) = [w EXCEPT !.q.list = l]
      BY <1>3, <2>1, Zenon DEF Listing
    <3>2. [w EXCEPT !.q.list = l] = [w EXCEPT !.q = [w.q EXCEPT !.list = l]]
      BY <1>1 DEF State
    <3> QED
      BY <2>3, <2>4, <2>6, <3>1, <3>2, Zenon
  <2>8. y \in State /\ y.q = p /\ y.data = w.data /\ y.it = w.it /\ y.en = w.en /\ y.br = w.br
    <3>1. p \in QueueState
      BY <2>5
    <3> QED
      BY <1>1, <2>6, <3>1 DEF State
  <2>9. Asks(y)
    BY <2>3, <2>5, <2>8, Zenon DEF Asks, Good
  <2>10. KeptBut(w, y)
    <3>1. y.q.count = w.q.count /\ y.q.down = w.q.down /\ y.q.up = w.q.up /\ y.q.server = w.q.server
      BY <2>3, <2>5, <2>8, Zenon
    <3>2. \A i \in Items : w.it[i].active => w.it[i].where = "queue"
      BY DEF Good, Assigned
    <3> QED
      BY <2>8, <2>9, <3>1, <3>2, Zenon DEF KeptBut
  <2>11. Listed(y)
    <3>1. \A f \in Engines : w.data[f].active => f \in Range(w.q.list)
      BY DEF Good, Listed
    <3>2. \A f \in Engines : w.data[f].active => f \in Range(l)
      BY <2>2, <3>1
    <3>3. Injective(l) /\ y.q.list = l
      BY <2>2, <2>5, <2>8, Zenon
    <3> QED
      BY <2>8, <3>2, <3>3, Zenon DEF Listed, Injective
  <2>12. Good(y)
    BY <2>8, <2>10, <2>11, RelistedGood
  <2>13. y.q.server = w.q.server /\ y.q.mode = w.q.mode /\ y.q.list = l
    BY <2>3, <2>5, <2>8, Zenon
  <2>14. Range(w.q.list) \subseteq Range(l) /\ e \in Range(l)
    BY <2>2
  <2>15. Grown(w, y)
    BY <2>8, <2>12, <2>13, <2>14, Zenon DEF Grown
  <2> QED
    BY <2>7, <2>8, <2>13, <2>14, <2>15, Zenon
<1> QED
  BY <1>2, <1>3

\* The server has reached its limit of connections.
Full(w, s) ==
  LET used == w.q.server[s] + (IF w.br.site = s THEN 1 ELSE 0)
  IN ~(Limit[s] = 0 \/ used < Limit[s])

\* An engine that is connected to the server can be used.
Fits(w, s, e) == e # None /\ w.data[e].site = s /\ w.en[e].sock

\* The browsing connection cannot be asked for its engine.
NoLoan(w, s) ==
  LET used == w.q.server[s] + (IF w.br.site = s THEN 1 ELSE 0)
  IN w.br.site # s \/ used > 1

\* The browsing connection's engine is to be borrowed.
Loan(v) == [Listing(v, Primary) EXCEPT !.data[Primary].state = "waitprimary"]

\* The outcomes of CanStartTransfer.
LEMMA CanStartShape ==
  ASSUME NEW w, NEW s, NEW idle, idle = GetIdleEngine(w, s, TRUE), NEW v, v = Listing(w, idle)
  PROVE  CanStartTransfer(w, s) =
           IF ~Full(w, s) THEN [ok |-> TRUE, e |-> None, w |-> w]
           ELSE IF Fits(w, s, idle) THEN [ok |-> TRUE, e |-> idle, w |-> v]
           ELSE IF NoLoan(w, s) THEN [ok |-> FALSE, e |-> None, w |-> v]
           ELSE IF Primary \in Range(v.q.list) THEN [ok |-> ~v.data[Primary].active, e |-> Primary, w |-> v]
           ELSE [ok |-> TRUE, e |-> Primary, w |-> Loan(v)]
<1> DEFINE U == w.q.server[s] + (IF w.br.site = s THEN 1 ELSE 0)
           R(i, x) == IF Limit[s] = 0 \/ U < Limit[s] THEN [ok |-> TRUE, e |-> None, w |-> w]
                      ELSE IF i # None /\ w.data[i].site = s /\ w.en[i].sock
                        THEN [ok |-> TRUE, e |-> i, w |-> x]
                      ELSE IF w.br.site # s \/ U > 1 THEN [ok |-> FALSE, e |-> None, w |-> x]
                      ELSE IF Primary \in Range(x.q.list)
                        THEN [ok |-> ~x.data[Primary].active, e |-> Primary, w |-> x]
                      ELSE [ok |-> TRUE, e |-> Primary, w |-> Loan(x)]
<1>1. CanStartTransfer(w, s) = R(GetIdleEngine(w, s, TRUE), Listing(w, GetIdleEngine(w, s, TRUE)))
  BY Zenon DEF CanStartTransfer, Loan
<1> HIDE DEF R
<1>2. CanStartTransfer(w, s) = R(idle, v)
  BY <1>1, Zenon
<1>3. Full(w, s) <=> ~(Limit[s] = 0 \/ U < Limit[s])
  BY Zenon DEF Full
<1>4. NoLoan(w, s) <=> w.br.site # s \/ U > 1
  BY Zenon DEF NoLoan
<1>5. Fits(w, s, idle) <=> idle # None /\ w.data[idle].site = s /\ w.en[idle].sock
  BY Zenon DEF Fits
<1> HIDE DEF U
<1> QED
  BY <1>2, <1>3, <1>4, <1>5, Zenon DEF R

\* In v, the engine e is in a state, and all else is as in w.
InState(v, w, e, state) == v = [w EXCEPT !.data[e].state = state]

\* The accounts do not look at it.
LEMMA StateSet ==
  ASSUME NEW w, Good(w), NEW e \in Engines, NEW state \in States, NEW v, InState(v, w, e, state)
  PROVE  /\ Good(v) /\ v.q = w.q /\ v.it = w.it /\ v.en = w.en /\ v.br = w.br
         /\ \A f \in Engines : /\ v.data[f].active = w.data[f].active
                               /\ v.data[f].item = w.data[f].item
                               /\ v.data[f].site = w.data[f].site
<1>1. w \in State
  BY DEF Good
<1>2. Good(v)
  <2>1. Good([w EXCEPT !.data[e].state = state])
    BY StateGood
  <2> QED
    BY <2>1, Zenon DEF InState
<1>3. /\ v.q = w.q /\ v.it = w.it /\ v.en = w.en /\ v.br = w.br
      /\ \A f \in Engines : /\ v.data[f].active = w.data[f].active
                            /\ v.data[f].item = w.data[f].item
                            /\ v.data[f].site = w.data[f].site
  BY <1>1 DEF State, EngineData, InState
<1> QED
  BY <1>2, <1>3

\* The borrowed engine waits for the browsing connection.
LEMMA LoanGrown ==
  ASSUME NEW v, Good(v)
  PROVE  Grown(v, Loan(v))
<1>1. Primary \in Engines \cup {None} /\ Primary \in Engines /\ "waitprimary" \in States
  BY DEF Engines, States
<1>2. PICK x : x = Listing(v, Primary)
  OBVIOUS
<1>3. Grown(v, x)
  BY <1>1, <1>2, ListingGrown, Zenon
<1>4. Good(x)
  BY <1>3 DEF Grown
<1>5. PICK y : y = [x EXCEPT !.data[Primary].state = "waitprimary"]
  OBVIOUS
<1>6. /\ Good(y) /\ y.q = x.q /\ y.it = x.it /\ y.en = x.en /\ y.br = x.br
      /\ \A f \in Engines : /\ y.data[f].active = x.data[f].active
                            /\ y.data[f].item = x.data[f].item
                            /\ y.data[f].site = x.data[f].site
  <2>1. PICK st \in States : st = "waitprimary"
    BY <1>1
  <2>2. PICK z : z = [x EXCEPT !.data[Primary].state = st]
    OBVIOUS
  <2>3. y = z
    BY <1>5, <2>1, <2>2, Zenon
  <2>4. Primary \in Engines
    BY <1>1
  <2>6. InState(z, x, Primary, st)
    BY <2>2, Zenon DEF InState
  <2>5. /\ Good(z) /\ z.q = x.q /\ z.it = x.it /\ z.en = x.en /\ z.br = x.br
        /\ \A f \in Engines : /\ z.data[f].active = x.data[f].active
                              /\ z.data[f].item = x.data[f].item
                              /\ z.data[f].site = x.data[f].site
    BY <1>4, <2>4, <2>6, StateSet
  <2> QED
    BY <2>3, <2>5, Zenon
<1>7. Grown(x, y)
  BY <1>6, Zenon DEF Grown
<1>8. Loan(v) = y
  BY <1>2, <1>5, Zenon DEF Loan
<1> QED
  BY <1>3, <1>7, <1>8, GrownTwice, Zenon

\* GetIdleEngine finds an engine or none.
LEMMA IdleOrNone ==
  ASSUME NEW w, Good(w), NEW s, NEW transient \in BOOLEAN
  PROVE  GetIdleEngine(w, s, transient) \in Engines \cup {None}
<1>1. PICK e : e = GetIdleEngine(w, s, transient)
  OBVIOUS
<1>2. e # None => e \in Engines
  BY <1>1, GetIdleEngineFacts
<1>3. e \in Engines \cup {None}
  BY <1>2
<1> QED
  BY <1>1, <1>3, Zenon

\* CanStartTransfer adds engines to the list, and that is all.
LEMMA CanStartGrown ==
  ASSUME NEW w, Good(w), NEW s
  PROVE  Grown(w, CanStartTransfer(w, s).w)
<1>1. PICK idle : idle = GetIdleEngine(w, s, TRUE)
  OBVIOUS
<1>2. PICK v : v = Listing(w, idle)
  OBVIOUS
<1>3. idle \in Engines \cup {None}
  BY <1>1, IdleOrNone, Zenon
<1>4. Grown(w, v)
  BY <1>2, <1>3, ListingGrown, Zenon
<1>5. Good(v)
  BY <1>4 DEF Grown
<1>6. Grown(w, Loan(v)) /\ Grown(w, w)
  <2>1. Grown(w, w)
    BY DEF Grown
  <2> QED
    BY <1>4, <1>5, <2>1, LoanGrown, GrownTwice, Zenon
<1>7. CanStartTransfer(w, s).w \in {w, v, Loan(v)}
  <2>1. PICK c : c = CanStartTransfer(w, s)
    OBVIOUS
  <2>2. PICK a : a = ~v.data[Primary].active
    OBVIOUS
  <2>3. PICK x : x = Loan(v)
    OBVIOUS
  <2>4. c \in {[ok |-> TRUE, e |-> None, w |-> w], [ok |-> TRUE, e |-> idle, w |-> v],
               [ok |-> FALSE, e |-> None, w |-> v], [ok |-> a, e |-> Primary, w |-> v],
               [ok |-> TRUE, e |-> Primary, w |-> x]}
    <3>1. c = IF ~Full(w, s) THEN [ok |-> TRUE, e |-> None, w |-> w]
              ELSE IF Fits(w, s, idle) THEN [ok |-> TRUE, e |-> idle, w |-> v]
              ELSE IF NoLoan(w, s) THEN [ok |-> FALSE, e |-> None, w |-> v]
              ELSE IF Primary \in Range(v.q.list) THEN [ok |-> a, e |-> Primary, w |-> v]
              ELSE [ok |-> TRUE, e |-> Primary, w |-> x]
      BY <1>1, <1>2, <2>1, <2>2, <2>3, CanStartShape, Zenon
    <3> QED
      BY <3>1, Zenon
  <2>5. c.w \in {w, v, x}
    BY <2>4
  <2> QED
    BY <2>1, <2>3, <2>5, Zenon
<1> QED
  BY <1>4, <1>6, <1>7, Zenon

\* So does the look at another server.
LEMMA ExaminedGrown ==
  ASSUME NEW w, Good(w), NEW s
  PROVE  Grown(w, Examined(w, s))
<1>1. Grown(w, w)
  BY DEF Grown
<1> QED
  BY <1>1, CanStartGrown, Zenon DEF Examined

\* An engine that fits is found again, among more engines perhaps.
LEMMA FoundAgain ==
  ASSUME NEW w, Good(w), NEW u, Grown(w, u), NEW s, NEW e \in Range(u.q.list), ~w.data[e].active,
         w.data[e].site = s, w.en[e].sock, NEW f, f = GetIdleEngine(u, s, TRUE)
  PROVE  Fits(u, s, f)
<1>1. Good(u) /\ u.en = w.en /\ u.q.list \in Seq(Engines)
  <2>1. Good(u) /\ u.en = w.en
    BY DEF Grown
  <2> QED
    BY <2>1 DEF Good, State, QueueState
<1>2. e \in Engines
  BY <1>1 DEF Range
<1>3. u.data[e].active = w.data[e].active /\ u.data[e].site = w.data[e].site
  BY <1>2, Zenon DEF Grown
<1>4. PICK fits : fits = {g \in IdleEngines(u, TRUE) : u.en[g].sock /\ u.data[g].site = s}
  OBVIOUS
<1>5. e \in fits
  <2>1. e \in IdleEngines(u, TRUE)
    BY <1>3 DEF IdleEngines
  <2>2. u.en[e].sock /\ u.data[e].site = s
    BY <1>1, <1>3, Zenon
  <2> QED
    BY <1>4, <2>1, <2>2
<1>6. fits \subseteq Range(u.q.list)
  BY <1>4 DEF IdleEngines
<1>7. f = First(u.q.list, fits)
  <2>1. {g \in IdleEngines(u, TRUE) : u.en[g].sock /\ u.data[g].site = s} # {}
    BY <1>4, <1>5
  <2>2. f = First(u.q.list, {g \in IdleEngines(u, TRUE) : u.en[g].sock /\ u.data[g].site = s})
    BY <2>1, Zenon DEF GetIdleEngine
  <2> QED
    BY <1>4, <2>2, Zenon
<1>8. f \in fits
  <2>1. fits # {}
    BY <1>5
  <2>2. First(u.q.list, fits) \in fits
    BY <1>1, <1>6, <2>1, FirstFacts
  <2> QED
    BY <1>7, <2>2, Zenon
<1>9. f # None
  <2>1. f \in Engines
    <3>1. PICK l \in Seq(Engines) : l = u.q.list
      BY <1>1
    <3>2. Range(l) \subseteq Engines
      BY DEF Range
    <3>3. f \in Range(l)
      BY <1>6, <1>8, <3>1, Zenon
    <3> QED
      BY <3>2, <3>3
  <2> QED
    BY <2>1, QueueAssumption DEF Engines
<1>10. u.en[f].sock /\ u.data[f].site = s
  BY <1>4, <1>8
<1> QED
  BY <1>9, <1>10 DEF Fits

\* CanStartTransfer has found and listed an idle engine, and c is its outcome.
Outcome(w, s, idle, v, c) ==
  idle = GetIdleEngine(w, s, TRUE) /\ v = Listing(w, idle) /\ c = CanStartTransfer(w, s)

\* The outcomes one by one.
LEMMA CanStartCases ==
  ASSUME NEW w, NEW s, NEW idle, NEW v, NEW c, Outcome(w, s, idle, v, c)
  PROVE  /\ ~Full(w, s) => c.e = None /\ c.w = w
         /\ Full(w, s) /\ Fits(w, s, idle) => c.e = idle /\ c.w = v
         /\ Full(w, s) /\ ~Fits(w, s, idle) /\ NoLoan(w, s) => ~c.ok /\ c.e = None /\ c.w = v
         /\ Full(w, s) /\ ~Fits(w, s, idle) /\ ~NoLoan(w, s) =>
              /\ c.e = Primary /\ (c.w = v \/ c.w = Loan(v))
              /\ Primary \in Range(v.q.list) => c.ok = ~v.data[Primary].active
<1>1. PICK a : a = ~v.data[Primary].active
  OBVIOUS
<1>2. PICK x : x = Loan(v)
  OBVIOUS
<1>3. c = IF ~Full(w, s) THEN [ok |-> TRUE, e |-> None, w |-> w]
          ELSE IF Fits(w, s, idle) THEN [ok |-> TRUE, e |-> idle, w |-> v]
          ELSE IF NoLoan(w, s) THEN [ok |-> FALSE, e |-> None, w |-> v]
          ELSE IF Primary \in Range(v.q.list) THEN [ok |-> a, e |-> Primary, w |-> v]
          ELSE [ok |-> TRUE, e |-> Primary, w |-> x]
  BY <1>1, <1>2, CanStartShape, Zenon DEF Outcome
<1>4. CASE ~Full(w, s)
  <2>1. c = [ok |-> TRUE, e |-> None, w |-> w]
    BY <1>3, <1>4, Zenon
  <2>2. c.e = None /\ c.w = w
    BY <2>1
  <2> QED
    BY <1>4, <2>2, Zenon
<1>5. CASE Full(w, s) /\ Fits(w, s, idle)
  <2>1. c = [ok |-> TRUE, e |-> idle, w |-> v]
    BY <1>3, <1>5, Zenon
  <2>2. c.e = idle /\ c.w = v
    BY <2>1
  <2> QED
    BY <1>5, <2>2, Zenon
<1>6. CASE Full(w, s) /\ ~Fits(w, s, idle) /\ NoLoan(w, s)
  <2>1. c = [ok |-> FALSE, e |-> None, w |-> v]
    BY <1>3, <1>6, Zenon
  <2>2. ~c.ok /\ c.e = None /\ c.w = v
    BY <2>1
  <2> QED
    BY <1>6, <2>2, Zenon
<1>7. CASE Full(w, s) /\ ~Fits(w, s, idle) /\ ~NoLoan(w, s)
  <2>1. CASE Primary \in Range(v.q.list)
    <3>1. c = [ok |-> a, e |-> Primary, w |-> v]
      BY <1>3, <1>7, <2>1, Zenon
    <3>2. c.ok = a /\ c.e = Primary /\ c.w = v
      BY <3>1
    <3> QED
      BY <1>1, <1>7, <3>2, Zenon
  <2>2. CASE Primary \notin Range(v.q.list)
    <3>1. c = [ok |-> TRUE, e |-> Primary, w |-> x]
      BY <1>3, <1>7, <2>2, Zenon
    <3>2. c.e = Primary /\ c.w = x
      BY <3>1
    <3> QED
      BY <1>2, <1>7, <2>2, <3>2, Zenon
  <2> QED
    BY <2>1, <2>2, Zenon
<1> QED
  BY <1>4, <1>5, <1>6, <1>7, Zenon

\* In particular, the engines it has added.
LEMMA OutcomeBundle ==
  ASSUME NEW w, NEW s, NEW idle, NEW v, NEW c, Outcome(w, s, idle, v, c)
  PROVE  c.w = w \/ c.w = v \/ c.w = Loan(v)
<1>1. ~Full(w, s) => c.w = w
  BY CanStartCases
<1>2. Full(w, s) /\ Fits(w, s, idle) => c.w = v
  BY CanStartCases
<1>3. Full(w, s) /\ ~Fits(w, s, idle) /\ NoLoan(w, s) => c.w = v
  BY CanStartCases
<1>4. Full(w, s) /\ ~Fits(w, s, idle) /\ ~NoLoan(w, s) => c.w = v \/ c.w = Loan(v)
  BY CanStartCases
<1> QED
  BY <1>1, <1>2, <1>3, <1>4, Zenon

\* While the borrowed engine works, a server that has reached its limit can be
\* used only with an engine that is connected to it.
LEMMA BusyPrimary ==
  ASSUME NEW w, Good(w), NEW s, Full(w, s), w.data[Primary].active, CanStartTransfer(w, s).ok,
         NEW idle, idle = GetIdleEngine(w, s, TRUE)
  PROVE  Fits(w, s, idle)
<1>1. PICK v : v = Listing(w, idle)
  OBVIOUS
<1>2. PICK c : c = CanStartTransfer(w, s)
  OBVIOUS
<1>3. c.ok
  BY <1>2, Zenon
<1>4. SUFFICES ASSUME ~Fits(w, s, idle) PROVE FALSE
  OBVIOUS
<1>5. ~NoLoan(w, s) /\ (Primary \in Range(v.q.list) => c.ok = ~v.data[Primary].active)
  <2>1. Outcome(w, s, idle, v, c)
    BY <1>1, <1>2, Zenon DEF Outcome
  <2> QED
    BY <1>3, <1>4, <2>1, CanStartCases, Zenon
<1>6. idle \in Engines \cup {None} /\ Primary \in Engines
  <2>1. idle \in Engines \cup {None}
    BY IdleOrNone, Zenon
  <2> QED
    BY <2>1 DEF Engines
<1>7. Grown(w, v)
  BY <1>1, <1>6, ListingGrown, Zenon
<1>8. Primary \in Range(w.q.list)
  BY <1>6, Zenon DEF Good, Listed
<1>9. Primary \in Range(v.q.list) /\ v.data[Primary].active = w.data[Primary].active
  <2>1. Range(w.q.list) \subseteq Range(v.q.list) /\ v.data[Primary].active = w.data[Primary].active
    BY <1>6, <1>7, Zenon DEF Grown
  <2> QED
    BY <1>8, <2>1
<1> QED
  BY <1>3, <1>5, <1>9, Zenon

\* GetIdleEngine finds e for the server s.
IsIdle(e, w, s) == e = GetIdleEngine(w, s, TRUE)

\* An engine that is not in the list yet is the new one, for any server.
LEMMA NewForAll ==
  ASSUME NEW w, Good(w), NEW s, NEW r, NEW e, e # None, e \notin Range(w.q.list), IsIdle(e, w, s)
  PROVE  IsIdle(e, w, r)
<1>1. w.q.list \in Seq(Engines)
  BY DEF Good, State, QueueState
<1>2. PICK idle : idle = IdleEngines(w, TRUE)
  OBVIOUS
<1>3. idle \subseteq Range(w.q.list)
  BY <1>2 DEF IdleEngines
<1> DEFINE F(i, x) == {f \in i : w.en[f].sock /\ w.data[f].site = x}
           C == IF Primary \in Range(w.q.list) /\ ~w.data[Primary].active
                  THEN Len(w.q.list) - 1 ELSE Len(w.q.list)
           New == IF C < NumTransfers THEN CHOOSE g \in Own : g \notin Range(w.q.list) ELSE None
           G(i, x) == IF F(i, x) # {} THEN First(w.q.list, F(i, x))
                      ELSE IF i # {} THEN First(w.q.list, i) ELSE New
<1>4. e = G(IdleEngines(w, TRUE), s) /\ GetIdleEngine(w, r, TRUE) = G(IdleEngines(w, TRUE), r)
  BY Zenon DEF GetIdleEngine, IsIdle
<1>5. \A x : F(idle, x) \subseteq idle
  OBVIOUS
<1> HIDE DEF F, C, New
<1>6. e = G(idle, s) /\ GetIdleEngine(w, r, TRUE) = G(idle, r)
  BY <1>2, <1>4, Zenon
<1>7. F(idle, s) = {}
  <2>1. SUFFICES ASSUME F(idle, s) # {} PROVE FALSE
    OBVIOUS
  <2>2. e = First(w.q.list, F(idle, s))
    BY <1>6, <2>1, Zenon
  <2>3. First(w.q.list, F(idle, s)) \in F(idle, s)
    <3>1. PICK S : S = F(idle, s)
      OBVIOUS
    <3>2. S \subseteq Range(w.q.list) /\ S # {}
      BY <1>3, <1>5, <2>1, <3>1
    <3>3. First(w.q.list, S) \in S
      BY <1>1, <3>2, FirstFacts
    <3> QED
      BY <3>1, <3>3, Zenon
  <2> QED
    BY <1>3, <1>5, <2>2, <2>3
<1>8. idle = {}
  <2>1. SUFFICES ASSUME idle # {} PROVE FALSE
    OBVIOUS
  <2>2. e = First(w.q.list, idle)
    BY <1>6, <1>7, <2>1, Zenon
  <2>3. First(w.q.list, idle) \in idle
    BY <1>1, <1>3, <2>1, FirstFacts
  <2> QED
    BY <1>3, <2>2, <2>3
<1>9. F(idle, r) = {}
  BY <1>5, <1>8
<1> QED
  BY <1>6, <1>7, <1>8, <1>9, Zenon DEF IsIdle

\* A look at another server does not make an engine fit that did not before
\* the look, if it is the one that would be used then.
LEMMA StillFits ==
  ASSUME NEW w, Good(w), NEW s, NEW other, NEW idle, idle = GetIdleEngine(w, s, TRUE), Fits(w, s, idle),
         NEW u, u = w \/ u = CanStartTransfer(w, other).w,
         NEW f, f = GetIdleEngine(u, s, TRUE)
  PROVE  Fits(u, s, f)
<1>1. CASE u = w
  BY <1>1, Zenon
<1>2. CASE u # w
  <2>1. idle # None /\ w.data[idle].site = s /\ w.en[idle].sock
    BY DEF Fits
  <2>2. idle \in Engines /\ ~w.data[idle].active
    BY <2>1, GetIdleEngineFacts
  <2>3. Grown(w, u)
    BY <1>2, CanStartGrown, Zenon
  <2>4. idle \in Range(u.q.list)
    <3>1. CASE idle \in Range(w.q.list)
      <4>1. Range(w.q.list) \subseteq Range(u.q.list)
        BY <2>3, Zenon DEF Grown
      <4> QED
        BY <3>1, <4>1
    <3>2. CASE idle \notin Range(w.q.list)
      <4>1. idle = GetIdleEngine(w, other, TRUE)
        <5>1. IsIdle(idle, w, s)
          BY Zenon DEF IsIdle
        <5>2. IsIdle(idle, w, other)
          BY <2>1, <3>2, <5>1, NewForAll
        <5> QED
          BY <5>2, Zenon DEF IsIdle
      <4>2. PICK v : v = Listing(w, idle)
        OBVIOUS
      <4>3. PICK c : c = CanStartTransfer(w, other)
        OBVIOUS
      <4>4. c.w \in {w, v, Loan(v)}
        <5>1. c.w = w \/ c.w = v \/ c.w = Loan(v)
          <6>1. Outcome(w, other, idle, v, c)
            BY <4>1, <4>2, <4>3, Zenon DEF Outcome
          <6> QED
            BY <6>1, OutcomeBundle, Zenon
        <5> QED
          BY <5>1
      <4>5. u = v \/ u = Loan(v)
        BY <1>2, <4>3, <4>4, Zenon
      <4>6. Grown(w, v) /\ idle \in Range(v.q.list)
        <5>1. idle \in Engines \cup {None}
          BY <2>2
        <5> QED
          BY <2>1, <4>2, <5>1, ListingGrown, Zenon
      <4>7. Good(v)
        BY <4>6, Zenon DEF Grown
      <4>8. Grown(v, u)
        <5>1. Grown(v, v)
          BY <4>7, Zenon DEF Grown
        <5> QED
          BY <4>5, <4>7, <5>1, LoanGrown, Zenon
      <4>9. Range(v.q.list) \subseteq Range(u.q.list)
        BY <4>8, Zenon DEF Grown
      <4> QED
        BY <4>6, <4>9
    <3> QED
      BY <3>1, <3>2
  <2> QED
    BY <2>1, <2>2, <2>3, <2>4, FoundAgain, Zenon
<1> QED
  BY <1>1, <1>2

\* The engine that CanStartTransfer settles on is not active, although the
\* limit may have been looked at before the look at another server.
LEMMA CanStartUse ==
  ASSUME NEW w, Good(w), NEW s, CanStartTransfer(w, s).ok,
         NEW other, NEW u, u = w \/ u = Examined(w, other),
         NEW c, c = CanStartTransfer(u, s), c.e # None
  PROVE  c.e \in Engines /\ ~u.data[c.e].active
<1>1. Grown(w, u) /\ (u = w \/ u = CanStartTransfer(w, other).w)
  <2>1. Grown(w, w)
    BY Zenon DEF Grown
  <2> QED
    BY <2>1, ExaminedGrown, Zenon DEF Examined
<1>2. Good(u) /\ u.q.server = w.q.server /\ u.br = w.br
  BY <1>1, Zenon DEF Grown
<1>3. PICK f : f = GetIdleEngine(u, s, TRUE)
  OBVIOUS
<1>4. PICK x : x = Listing(u, f)
  OBVIOUS
<1>9. Outcome(u, s, f, x, c)
  BY <1>3, <1>4, Zenon DEF Outcome
<1>5. Full(u, s)
  BY <1>9, CanStartCases
<1>6. Full(w, s)
  BY <1>2, <1>5, Zenon DEF Full
<1>7. CASE Fits(u, s, f)
  <2>1. c.e = f /\ f # None
    <3>1. c.e = f
      BY <1>5, <1>7, <1>9, CanStartCases
    <3> QED
      BY <1>7, <3>1, Zenon DEF Fits
  <2>2. f \in Engines /\ ~u.data[f].active
    BY <1>2, <1>3, <2>1, GetIdleEngineFacts
  <2> QED
    BY <2>1, <2>2, Zenon
<1>8. CASE ~Fits(u, s, f)
  <2>1. c.e = Primary
    BY <1>5, <1>8, <1>9, CanStartCases
  <2>2. Primary \in Engines
    BY DEF Engines
  <2>3. SUFFICES ASSUME u.data[Primary].active PROVE FALSE
    BY <2>1, <2>2, Zenon
  <2>4. w.data[Primary].active
    BY <1>1, <2>2, <2>3, Zenon DEF Grown
  <2>5. PICK idle : idle = GetIdleEngine(w, s, TRUE)
    OBVIOUS
  <2>6. Fits(w, s, idle)
    BY <1>6, <2>4, <2>5, BusyPrimary, Zenon
  <2>7. Fits(u, s, f)
    BY <1>1, <1>3, <2>5, <2>6, StillFits, Zenon
  <2> QED
    BY <1>8, <2>7
<1> QED
  BY <1>7, <1>8

-----------------------------------------------------------------------------
(* The start of a transfer, and AdvanceQueue.                               *)

\* An engine takes up an item: the accounts follow.
LEMMA StartedGood ==
  ASSUME NEW w, Good(w), NEW e \in Engines, ~w.data[e].active, e \in Range(w.q.list),
         NEW i \in Items, ~w.it[i].active, w.it[i].where = "queue"
  PROVE  Good(Started(w, e, i))
<1>1. /\ w \in State /\ w.q \in QueueState /\ w.it \in [Items -> Item]
      /\ w.data \in [Engines -> EngineData] /\ w.q.server \in [Servers -> Int]
  BY DEF Good, State, QueueState
<1>2. PICK s \in Servers : s = ServerOf(i)
  BY <1>1 DEF ServerOf, Good, SameItems, Item
<1>3. PICK b \in BOOLEAN, nb \in BOOLEAN : b = TRUE /\ nb = FALSE
  OBVIOUS
<1>4. PICK c, dn, up, m :
        /\ c = w.q.count + 1
        /\ dn = IF Download(i) THEN w.q.down + 1 ELSE w.q.down
        /\ up = IF Download(i) THEN w.q.up ELSE w.q.up + 1
        /\ m = w.q.server[s] + 1
  OBVIOUS
<1>5. c \in Int /\ dn \in Int /\ up \in Int /\ m \in Int
  <2>1. w.q.count \in Int /\ w.q.down \in Int /\ w.q.up \in Int /\ w.q.server[s] \in Int
    BY <1>1 DEF QueueState
  <2> QED
    BY <1>4, <2>1
<1>6. PICK p : p = [w.q EXCEPT !.count = c, !.server = [w.q.server EXCEPT ![s] = m], !.down = dn, !.up = up]
  OBVIOUS
<1>7. PICK t : t = [w.it EXCEPT ![i].active = b]
  OBVIOUS
<1>8. PICK d : d = [w.data EXCEPT ![e] = [w.data[e] EXCEPT !.active = b, !.item = i, !.timer = nb, !.site = s]]
  OBVIOUS
<1>9. PICK v : v = [w EXCEPT !.q = p, !.it = t, !.data = d]
  OBVIOUS
<1>10. Started(w, e, i) = v
  <2> DEFINE R(x, y, z, k, g, l) == [w EXCEPT !.q = [w.q EXCEPT !.count = x, !.server[k] = y, !.down = z, !.up = g],
                                             !.it[i].active = b, !.data[e] = l]
             L(k) == [w.data[e] EXCEPT !.active = b, !.item = i, !.timer = nb, !.site = k]
  <2>1. Started(w, e, i) = R(c, m, dn, s, up, L(s))
    BY <1>2, <1>3, <1>4, Zenon DEF Started
  <2>2. R(c, m, dn, s, up, L(s)) = [w EXCEPT !.q = p, !.it = t, !.data = d]
    <3>1. p = [w.q EXCEPT !.count = c, !.server[s] = m, !.down = dn, !.up = up]
      BY <1>1, <1>6 DEF QueueState
    <3>2. PICK l : l = L(s)
      OBVIOUS
    <3>3. d = [w.data EXCEPT ![e] = l]
      BY <1>8, <3>2, Zenon
    <3> HIDE DEF L
    <3>4. R(c, m, dn, s, up, l) = [w EXCEPT !.q = p, !.it[i].active = b, !.data[e] = l]
      BY <3>1, Zenon
    <3>5. [w EXCEPT !.q = p, !.it[i].active = b, !.data[e] = l] = [w EXCEPT !.q = p, !.it = t, !.data = d]
      BY <1>1, <1>7, <3>3 DEF State
    <3> QED
      BY <3>2, <3>4, <3>5, Zenon
  <2> QED
    BY <1>9, <2>1, <2>2, Zenon
<1>11. /\ p \in QueueState /\ p.count = c /\ p.down = dn /\ p.up = up
       /\ p.server = [w.q.server EXCEPT ![s] = m]
       /\ p.list = w.q.list /\ p.waiting = w.q.waiting /\ p.asking = w.q.asking
  BY <1>1, <1>5, <1>6 DEF QueueState
<1>12. /\ t \in [Items -> Item] /\ t[i].active = b
       /\ \A j \in Items : /\ t[j].kind = w.it[j].kind /\ t[j].server = w.it[j].server
                           /\ t[j].where = w.it[j].where
                           /\ j # i => t[j] = w.it[j]
  BY <1>1, <1>7 DEF Item
<1>13. /\ d \in [Engines -> EngineData] /\ d[e].active = b /\ d[e].item = i
       /\ \A f \in Engines \ {e} : d[f] = w.data[f]
  <2>1. PICK x : x = w.data[e]
    OBVIOUS
  <2>2. PICK y : y = [x EXCEPT !.active = b, !.item = i, !.timer = nb, !.site = s]
    OBVIOUS
  <2>3. x \in EngineData
    BY <1>1, <2>1
  <2>4. y \in EngineData /\ y.active = b /\ y.item = i
    <3>1. i \in Items \cup {None} /\ s \in Servers \cup {None}
      OBVIOUS
    <3> QED
      BY <2>2, <2>3, <3>1 DEF EngineData
  <2>5. d = [w.data EXCEPT ![e] = y]
    BY <1>8, <2>1, <2>2, Zenon
  <2>6. d \in [Engines -> EngineData] /\ d[e] = y /\ \A f \in Engines \ {e} : d[f] = w.data[f]
    <3>1. y \in EngineData
      BY <2>4
    <3> QED
      BY <1>1, <2>5, <3>1
  <2> QED
    BY <2>4, <2>6, Zenon
<1>14. v \in State /\ v.q = p /\ v.it = t /\ v.data = d
  <2>1. p \in QueueState /\ t \in [Items -> Item] /\ d \in [Engines -> EngineData]
    BY <1>11, <1>12, <1>13
  <2> QED
    BY <1>1, <1>9, <2>1 DEF State
<1>15. /\ i \in Downloads <=> Download(i)
       /\ i \in Uploads <=> ~Download(i)
       /\ \A r \in Servers : i \in Of(r) <=> r = s
  BY <1>2 DEF Downloads, Uploads, Of
<1>16. /\ p.count = w.q.count + 1
       /\ p.down = w.q.down + IF i \in Downloads THEN 1 ELSE 0
       /\ p.up = w.q.up + IF i \in Uploads THEN 1 ELSE 0
  <2>1. w.q.down \in Int /\ w.q.up \in Int
    BY <1>1 DEF QueueState
  <2>2. p.count = w.q.count + 1
    BY <1>4, <1>11, Zenon
  <2>3. CASE Download(i)
    <3>1. i \in Downloads /\ i \notin Uploads
      BY <1>15, <2>3
    <3>2. p.down = w.q.down + 1 /\ p.up = w.q.up
      BY <1>4, <1>11, <2>3, Zenon
    <3> QED
      BY <2>1, <2>2, <3>1, <3>2
  <2>4. CASE ~Download(i)
    <3>1. i \notin Downloads /\ i \in Uploads
      BY <1>15, <2>4
    <3>2. p.down = w.q.down /\ p.up = w.q.up + 1
      BY <1>4, <1>11, <2>4, Zenon
    <3> QED
      BY <2>1, <2>2, <3>1, <3>2
  <2> QED
    BY <2>3, <2>4
<1>17. \A r \in Servers : p.server[r] = w.q.server[r] + IF i \in Of(r) THEN 1 ELSE 0
  <2>1. p.server = [w.q.server EXCEPT ![s] = w.q.server[s] + 1]
    BY <1>4, <1>11, Zenon
  <2> QED
    BY <1>1, <1>15, <2>1
<1>18. Assigned(w) /\ Asks(w)
  BY DEF Good
<1>19. \A j \in Items : /\ t[j].active = (w.it[j].active \/ j = i)
                        /\ t[j].kind = w.it[j].kind /\ t[j].server = w.it[j].server
                        /\ t[j].active => t[j].where = "queue"
  <2>1. \A j \in Items : w.it[j].active \in BOOLEAN /\ (w.it[j].active => w.it[j].where = "queue")
    BY <1>1, <1>18 DEF Assigned, Item
  <2>2. ASSUME NEW j \in Items, j # i
        PROVE  t[j].active = (w.it[j].active \/ j = i) /\ (t[j].active => t[j].where = "queue")
    BY <1>12, <2>1, <2>2
  <2>3. t[i].active /\ t[i].where = "queue"
    BY <1>3, <1>12
  <2>4. t[i].active = (w.it[i].active \/ i = i)
    BY <1>3, <1>12
  <2> QED
    BY <1>12, <2>2, <2>3, <2>4
<1>20. TakenUp(w, v, e, i)
  <2>1. /\ v.q.list = w.q.list
        /\ v.q.count = w.q.count + 1
        /\ v.q.down = w.q.down + IF i \in Downloads THEN 1 ELSE 0
        /\ v.q.up = w.q.up + IF i \in Uploads THEN 1 ELSE 0
        /\ \A r \in Servers : v.q.server[r] = w.q.server[r] + IF i \in Of(r) THEN 1 ELSE 0
    BY <1>11, <1>14, <1>16, <1>17, Zenon
  <2>2. v.data[e].active /\ v.data[e].item = i
    BY <1>3, <1>13, <1>14, Zenon
  <2>3. \A f \in Engines \ {e} : v.data[f].active = w.data[f].active /\ v.data[f].item = w.data[f].item
    BY <1>13, <1>14, Zenon
  <2>4. Asks(v)
    BY <1>11, <1>14, <1>18, Zenon DEF Asks
  <2>5. \A j \in Items : /\ v.it[j].active = (w.it[j].active \/ j = i)
                         /\ v.it[j].kind = w.it[j].kind /\ v.it[j].server = w.it[j].server
                         /\ v.it[j].active => v.it[j].where = "queue"
    BY <1>14, <1>19, Zenon
  <2> QED
    BY <2>1, <2>2, <2>3, <2>4, <2>5, Zenon DEF TakenUp
<1>21. Good(v)
  <2>1. i \in Items \cup {None}
    OBVIOUS
  <2>2. v \in State
    BY <1>14
  <2> QED
    BY <1>20, <2>1, <2>2, TakenUpGood
<1> QED
  BY <1>10, <1>21, Zenon

\* GetIdleChild finds an item of the queue that nobody works on.
LEMMA ChildFacts ==
  ASSUME NEW w, NEW s, NEW i \in GetIdleChild(w, s)
  PROVE  i \in Items /\ w.it[i].where = "queue" /\ ~w.it[i].active
<1> DEFINE W == {j \in Queued(w, s) :
                   /\ ~w.it[j].active
                   /\ Download(j) => MaxDown = 0 \/ w.q.down < MaxDown
                   /\ ~Download(j) => MaxUp = 0 \/ w.q.up < MaxUp}
           G(x, y) == IF y # {} THEN y ELSE IF w.q.mode = 1 THEN {} ELSE x
<1>1. i \in G(W, {j \in W : ~w.it[j].queued})
  BY Zenon DEF GetIdleChild
<1>2. \A j \in W : j \in Queued(w, s) /\ ~w.it[j].active
  OBVIOUS
<1> HIDE DEF W
<1>3. i \in W
  BY <1>1
<1> QED
  BY <1>2, <1>3 DEF Queued

\* A local directory is made on the spot.
LEMMA MakeLocalDirSafe ==
  ASSUME IInv, NEW i \in Items, MakeLocalDir(i)
  PROVE  IInv'
<1>1. Good(Here) /\ main \in Main /\ Sends /\ Here \in State /\ Here.it = it
  BY HereGood
<1>2. it[i].where = "queue" /\ ~it[i].active
  <2>1. i \in GetIdleChild(Here, ServerOf(i))
    BY DEF MakeLocalDir, Startable
  <2>2. Here.it[i].where = "queue" /\ ~Here.it[i].active
    BY <2>1, ChildFacts
  <2> QED
    BY <1>1, <2>2, Zenon
<1>3. PICK v : v = CanStartTransfer(Here, ServerOf(i)).w
  OBVIOUS
<1>4. Grown(Here, v)
  <2>1. PICK h : h = Here
    OBVIOUS
  <2>2. Good(h)
    BY <1>1, <2>1, Zenon
  <2>3. PICK s : s = ServerOf(i)
    OBVIOUS
  <2>4. Grown(h, CanStartTransfer(h, s).w)
    BY <2>2, CanStartGrown
  <2> QED
    BY <1>3, <2>1, <2>3, <2>4, Zenon
<1>5. Good(v) /\ v.it = it
  BY <1>1, <1>4, Zenon DEF Grown
<1>6. PICK g \in {"queue", "failed", "successful", "gone"} : g = "gone"
  OBVIOUS
<1>7. PICK y : y = v.it[i]
  OBVIOUS
<1>8. v.it \in [Items -> Item] /\ v \in State
  BY <1>5 DEF Good, State
<1>9. y \in Item
  BY <1>7, <1>8
<1>10. PICK x : x = [y EXCEPT !.where = g]
  OBVIOUS
<1>11. x \in Item /\ x.active = y.active /\ x.kind = y.kind /\ x.server = y.server
  BY <1>9, <1>10 DEF Item
<1>12. ~y.active
  BY <1>2, <1>5, <1>7, Zenon
<1>13. Good([v EXCEPT !.it[i] = x])
  <2>1. ~v.it[i].active /\ ~x.active /\ x.kind = v.it[i].kind /\ x.server = v.it[i].server
    BY <1>7, <1>11, <1>12, Zenon
  <2>2. x \in Item
    BY <1>11
  <2> QED
    BY <1>5, <2>1, <2>2, ItemGood
<1>14. Becomes([v EXCEPT !.it[i] = x])
  <2>1. Becomes([v EXCEPT !.it[i].where = g])
    BY <1>3, <1>6, Zenon DEF MakeLocalDir
  <2>2. [v EXCEPT !.it[i].where = g] = [v EXCEPT !.it[i] = x]
    BY <1>7, <1>8, <1>10 DEF State
  <2> QED
    BY <2>1, <2>2, Zenon
<1>15. UNCHANGED main
  BY DEF MakeLocalDir
<1> QED
  BY <1>1, <1>13, <1>14, <1>15, StaysSafe

\* A transfer is started.
LEMMA TryStartNextTransferSafe ==
  ASSUME IInv, NEW i \in Items, TryStartNextTransfer(i)
  PROVE  IInv'
<1> DEFINE U(h, s, o) == IF o = s THEN h ELSE Examined(h, o)
           E(s, x) == IF x.e # None THEN x.e ELSE GetIdleEngine(x.w, s, FALSE)
           W(x, y) == Started(Listing(x.w, y), y, i)
           F(s, v, x, y) ==
             IF v.data[y].state = "waitprimary" THEN v
             ELSE IF ~v.en[y].sock THEN ToConnect(v, y)
             ELSE IF x.w.data[y].site # s THEN [v EXCEPT !.data[y].state = "disconnect"]
             ELSE [v EXCEPT !.data[y].state = Work(i)]
           S(s, x, y) == y # None /\ Becomes(F(s, W(x, y), x, y)) /\ Sending(y)
           T(s, x) == S(s, x, E(s, x))
<1>1. PICK other \in Servers :
        T(ServerOf(i), CanStartTransfer(U(Here, ServerOf(i), other), ServerOf(i)))
  BY ZenonT(60) DEF TryStartNextTransfer
<1>2. PICK s : s = ServerOf(i)
  OBVIOUS
<1>3. PICK h : h = Here
  OBVIOUS
<1>4. PICK u : u = U(h, s, other)
  OBVIOUS
<1>5. PICK c : c = CanStartTransfer(u, s)
  OBVIOUS
<1>6. PICK e : e = E(s, c)
  OBVIOUS
<1>7. S(s, c, e)
  <2> HIDE DEF U, E, S
  <2>1. T(s, CanStartTransfer(U(h, s, other), s))
    <3> HIDE DEF T
    <3> QED
      BY <1>1, <1>2, <1>3, Zenon
  <2>2. T(s, c)
    <3> HIDE DEF T
    <3> QED
      BY <1>4, <1>5, <2>1, Zenon
  <2>3. S(s, c, E(s, c))
    BY <2>2, Zenon
  <2> QED
    BY <1>6, <2>3, Zenon
<1>8. Good(h) /\ main \in Main /\ h.it = it
  BY <1>3, HereGood, Zenon
<1>9. /\ i \in GetIdleChild(h, s) /\ CanStartTransfer(h, s).ok
  BY <1>2, <1>3, Zenon DEF TryStartNextTransfer, Startable
<1>10. it[i].where = "queue" /\ ~it[i].active
  <2>1. h.it[i].where = "queue" /\ ~h.it[i].active
    BY <1>9, ChildFacts
  <2> QED
    BY <1>8, <2>1, Zenon
<1>11. u = h \/ u = Examined(h, other)
  BY <1>4, Zenon
<1>12. Grown(h, u)
  <2>1. Grown(h, h)
    BY <1>8, Zenon DEF Grown
  <2> QED
    BY <1>8, <1>11, <2>1, ExaminedGrown, Zenon
<1>13. Good(u)
  BY <1>12, Zenon DEF Grown
<1>14. Grown(u, c.w)
  BY <1>5, <1>13, CanStartGrown, Zenon
<1>15. Good(c.w) /\ e # None
  BY <1>7, <1>14, Zenon DEF Grown
<1>16. e \in Engines /\ ~c.w.data[e].active
  <2>1. CASE c.e # None
    <3>1. e = c.e
      BY <1>6, <2>1, Zenon
    <3>2. c.e \in Engines /\ ~u.data[c.e].active
      <4>1. Good(h) /\ CanStartTransfer(h, s).ok
        BY <1>8, <1>9
      <4> QED
        BY <1>5, <1>11, <2>1, <4>1, CanStartUse, Zenon
    <3> QED
      BY <1>14, <3>1, <3>2, Zenon DEF Grown
  <2>2. CASE c.e = None
    <3>1. e = GetIdleEngine(c.w, s, FALSE)
      BY <1>6, <2>2, Zenon
    <3>2. PICK x : x = c.w
      OBVIOUS
    <3>3. PICK f \in BOOLEAN : f = FALSE
      OBVIOUS
    <3>4. Good(x) /\ e = GetIdleEngine(x, s, f) /\ e # None
      BY <1>15, <3>1, <3>2, <3>3, Zenon
    <3>5. e \in Engines /\ ~x.data[e].active
      BY <3>4, GetIdleEngineFacts
    <3> QED
      BY <3>2, <3>5, Zenon
  <2> QED
    BY <2>1, <2>2
<1>17. PICK l : l = Listing(c.w, e)
  OBVIOUS
<1>18. Grown(c.w, l) /\ e \in Range(l.q.list)
  <2>1. e \in Engines \cup {None}
    BY <1>16
  <2> QED
    BY <1>15, <1>17, <2>1, ListingGrown, Zenon
<1>19. Good(l) /\ ~l.data[e].active /\ l.it = it
  <2>1. Good(l) /\ l.it = c.w.it /\ ~l.data[e].active
    BY <1>16, <1>18, Zenon DEF Grown
  <2>2. c.w.it = u.it /\ u.it = h.it
    BY <1>12, <1>14, Zenon DEF Grown
  <2> QED
    BY <1>8, <2>1, <2>2, Zenon
<1>20. PICK w : w = Started(l, e, i)
  OBVIOUS
<1>21. Good(w)
  <2>1. ~l.it[i].active /\ l.it[i].where = "queue"
    BY <1>10, <1>19, Zenon
  <2> QED
    BY <1>16, <1>18, <1>19, <1>20, <2>1, StartedGood, Zenon
<1>22. Becomes(F(s, w, c, e)) /\ Sending(e)
  <2> HIDE DEF F
  <2>1. W(c, e) = w
    BY <1>17, <1>20, Zenon
  <2> HIDE DEF W
  <2> QED
    BY <1>7, <2>1, Zenon
<1>23. Good(F(s, w, c, e))
  <2>1. "disconnect" \in States /\ Work(i) \in States
    BY DEF States, Work
  <2>2. Good([w EXCEPT !.data[e].state = "disconnect"]) /\ Good([w EXCEPT !.data[e].state = Work(i)])
    <3>1. PICK a \in States, b \in States : a = "disconnect" /\ b = Work(i)
      BY <2>1
    <3>2. Good([w EXCEPT !.data[e].state = a]) /\ Good([w EXCEPT !.data[e].state = b])
      BY <1>16, <1>21, StateGood
    <3> QED
      BY <3>1, <3>2, Zenon
  <2>3. Good(ToConnect(w, e))
    BY <1>16, <1>21, ToConnectGood
  <2> QED
    BY <1>21, <2>2, <2>3, Zenon
<1>24. PICK z : z = F(s, w, c, e)
  OBVIOUS
<1>25. Good(z) /\ Becomes(z) /\ Sending(e)
  BY <1>22, <1>23, <1>24, Zenon
<1> QED
  BY <1>8, <1>16, <1>25, SendingSafe

\* AdvanceQueue is done.
LEMMA AdvanceQueueEndsSafe ==
  ASSUME IInv, AdvanceQueueEnds
  PROVE  IInv'
<1> DEFINE X(o) == IF MayStart THEN Examined(Here, o) ELSE Here
<1>1. PICK other \in Servers, refresh \in Own \cup {None} : Becomes(CheckQueueState(IdleTimers(X(other)), refresh))
  BY Zenon DEF AdvanceQueueEnds
<1>2. PICK h : h = Here
  OBVIOUS
<1>3. Good(h) /\ main \in Main
  BY <1>2, HereGood, Zenon
<1>4. PICK x : x = X(other)
  OBVIOUS
<1>5. Good(x)
  <2>1. x = h \/ x = Examined(h, other)
    BY <1>2, <1>4, Zenon
  <2>2. Good(Examined(h, other))
    BY <1>3, ExaminedGrown, Zenon DEF Grown
  <2> QED
    BY <1>3, <2>1, <2>2, Zenon
<1>6. PICK v : v = CheckQueueState(IdleTimers(x), refresh)
  OBVIOUS
<1>7. Good(v)
  BY <1>5, <1>6, IdleTimersGood, CheckQueueStateGood, Zenon
<1>8. Becomes(v)
  <2> HIDE DEF X
  <2> QED
    BY <1>1, <1>4, <1>6, Zenon
<1>9. Good(Here)'
  BY <1>7, <1>8, BecomesGood
<1>10. main' = [main EXCEPT !.pc = "idle", !.inside = FALSE]
  BY DEF AdvanceQueueEnds
<1>11. main' \in Main /\ Sends'
  BY <1>3, <1>10 DEF Main, Sends
<1> QED
  BY <1>9, <1>11 DEF IInv, Main

\* A command is given to an engine.
LEMMA ExecutesSafe ==
  ASSUME IInv, NEW e \in Engines, NEW c \in Commands, Executes(e, c)
  PROVE  IInv'
<1>1. Good(Here) /\ main \in Main /\ Here \in State
  BY HereGood
<1>2. PICK h : h = Here
  OBVIOUS
<1>3. Good(h) /\ h \in State
  BY <1>1, <1>2, Zenon
<1>4. PICK v : v = Execute(h, e, c)
  OBVIOUS
<1>5. Good(v)
  <2>1. Beside(h, Execute(h, e, c))
    BY <1>3, ExecuteBeside
  <2>2. Beside(h, v)
    BY <1>4, <2>1, Zenon
  <2> QED
    BY <1>3, <2>2, BesideGood
<1>6. Becomes(v) /\ Return
  BY <1>2, <1>4, Zenon DEF Executes
<1> QED
  BY <1>1, <1>5, <1>6, ReturnSafe

\* One round of SendNextCommand.
LEMMA SendNextCommandSafe ==
  ASSUME IInv, SendNextCommand
  PROVE  IInv'
<1>1. Good(Here) /\ main \in Main /\ Sends /\ Here \in State /\ Here.q = q
  BY HereGood
<1>2. PICK h : h = Here
  OBVIOUS
<1>3. Good(h) /\ h \in State /\ h.q = q
  BY <1>1, <1>2, Zenon
<1>4. main.e \in Engines
  BY <1>1 DEF Sends, SendNextCommand
<1>5. PICK e \in Engines : e = main.e
  BY <1>4
<1>6. \/ Becomes(RequestExclusiveEngine(h)) /\ Return
      \/ Executes(e, "disconnect")
      \/ Becomes(ToConnect(h, e)) /\ UNCHANGED main
      \/ Becomes([h EXCEPT !.q.waiting = Append(@, e)]) /\ Return
      \/ Executes(e, "connect")
      \/ Becomes([h EXCEPT !.data[e].state = "disconnect"]) /\ UNCHANGED main
      \/ data[e].state \in {"transfer", "mkdir"} /\ Executes(e, data[e].state)
      \/ IncreaseErrorCount(h, e)
      \/ ResetAndAdvance(h, e, "failure")
  BY <1>2, <1>5, Zenon DEF SendNextCommand
<1>7. CASE Becomes(RequestExclusiveEngine(h)) /\ Return
  <2>1. PICK v : v = RequestExclusiveEngine(h)
    OBVIOUS
  <2>2. Beside(h, RequestExclusiveEngine(h))
    BY <1>3, RequestBeside
  <2>3. Beside(h, v)
    BY <2>1, <2>2, Zenon
  <2>4. Good(v)
    BY <1>3, <2>3, BesideGood
  <2>5. Becomes(v) /\ Return
    BY <1>7, <2>1, Zenon
  <2> QED
    BY <1>1, <2>4, <2>5, ReturnSafe
<1>8. "disconnect" \in Commands /\ "connect" \in Commands /\ "transfer" \in Commands /\ "mkdir" \in Commands
  BY DEF Commands
<1>9. CASE Executes(e, "disconnect") \/ Executes(e, "connect")
  BY <1>8, <1>9, ExecutesSafe
<1>10. CASE data[e].state \in {"transfer", "mkdir"} /\ Executes(e, data[e].state)
  <2>1. PICK c \in Commands : c = data[e].state
    BY <1>8, <1>10
  <2>2. Executes(e, c)
    BY <1>10, <2>1, Zenon
  <2> QED
    BY <2>2, ExecutesSafe
<1>11. CASE Becomes(ToConnect(h, e)) /\ UNCHANGED main
  <2>1. PICK v : v = ToConnect(h, e)
    OBVIOUS
  <2>2. Good(v) /\ Becomes(v) /\ UNCHANGED main
    BY <1>3, <1>11, <2>1, ToConnectGood, Zenon
  <2> QED
    BY <1>1, <2>2, StaysSafe
<1>12. CASE Becomes([h EXCEPT !.q.waiting = Append(@, e)]) /\ Return
  <2>1. q.waiting \in Seq(Engines)
    BY <1>3 DEF State, QueueState
  <2>2. PICK l \in Seq(Engines) : l = Append(q.waiting, e)
    <3>1. Append(q.waiting, e) \in Seq(Engines)
      BY <2>1
    <3> QED
      BY <3>1
  <2>3. l # <<>>
    BY <2>1, <2>2
  <2>4. Good([h EXCEPT !.q.waiting = l])
    BY <1>3, <2>3, WaitingGood
  <2>5. PICK v : v = [h EXCEPT !.q.waiting = l]
    OBVIOUS
  <2>6. Append(h.q.waiting, e) = l
    BY <1>3, <2>2, Zenon
  <2>7. Becomes(v) /\ Return
    BY <1>12, <2>5, <2>6, Zenon
  <2>8. Good(v)
    BY <2>4, <2>5, Zenon
  <2> QED
    BY <1>1, <2>7, <2>8, ReturnSafe
<1>13. CASE Becomes([h EXCEPT !.data[e].state = "disconnect"]) /\ UNCHANGED main
  <2>1. PICK st \in States : st = "disconnect"
    BY DEF States
  <2>2. PICK v : v = [h EXCEPT !.data[e].state = st]
    OBVIOUS
  <2>3. InState(v, h, e, st)
    BY <2>2, Zenon DEF InState
  <2>4. Good(v)
    BY <1>3, <2>3, StateSet
  <2>5. Becomes(v) /\ UNCHANGED main
    BY <1>13, <2>1, <2>2, Zenon
  <2> QED
    BY <1>1, <2>4, <2>5, StaysSafe
<1>14. CASE IncreaseErrorCount(h, e)
  BY <1>1, <1>3, <1>14, IncreaseErrorCountSafe
<1>15. CASE ResetAndAdvance(h, e, "failure")
  <2>1. "failure" \in Reasons
    BY DEF Reasons
  <2> QED
    BY <1>1, <1>3, <1>15, <2>1, ResetSafe
<1> QED
  BY <1>6, <1>7, <1>9, <1>10, <1>11, <1>12, <1>13, <1>14, <1>15, Zenon

-----------------------------------------------------------------------------
(* The theorems.                                                            *)

\* The accounts are right at first.
LEMMA InitSafe ==
  ASSUME Init
  PROVE  IInv
<1>1. /\ q \in QueueState /\ q.count = 0 /\ q.down = 0 /\ q.up = 0 /\ q.list = <<>> /\ ~q.asking
      /\ \A s \in Servers : q.server[s] = 0
  BY QueueAssumption DEF Init, QueueState
<1>2. /\ data \in [Engines -> EngineData]
      /\ \A e \in Engines : ~data[e].active /\ data[e].item = None
  BY DEF Init, NoData, EngineData, States
<1>3. it \in [Items -> Item] /\ \A i \in Items : ~it[i].active
  <2>1. PICK load \in Loads : it = [i \in Items |-> NewItem(load[i], TRUE, load[i].errors)]
    BY DEF Init
  <2>2. ASSUME NEW i \in Items
        PROVE  NewItem(load[i], TRUE, load[i].errors) \in Item /\ ~NewItem(load[i], TRUE, load[i].errors).active
    <3>1. load \in [Items -> [server : Servers, kind : Kinds, errors : 0..MaxErrors]] /\ MaxErrors \in Nat
      BY QueueAssumption
    <3>2. load[i].server \in Servers /\ load[i].kind \in Kinds /\ load[i].errors \in Nat
      BY <3>1
    <3> QED
      BY <3>2 DEF NewItem, Item
  <2> QED
    BY <2>1, <2>2
<1>4. br \in Browsing
  BY DEF Init, Browsing
<1>5. en \in [Engines -> Engine]
  <2>1. PICK x : x = [sock |-> TRUE, cmd |-> "none", item |-> None, run |-> FALSE, events |-> <<>>, notes |-> <<>>]
    OBVIOUS
  <2>2. PICK y : y = [sock |-> FALSE, cmd |-> "none", item |-> None, run |-> FALSE, events |-> <<>>, notes |-> <<>>]
    OBVIOUS
  <2>3. x \in Engine
    BY <2>1 DEF Engine, Commands
  <2>4. y \in Engine
    BY <2>2 DEF Engine, Commands
  <2>5. PICK s \in Servers \cup {None} :
          en = [e \in Engines |-> [sock |-> e = Primary /\ s # None, cmd |-> "none", item |-> None,
                                   run |-> FALSE, events |-> <<>>, notes |-> <<>>]]
    BY Zenon DEF Init
  <2>6. en = [e \in Engines |-> en[e]] /\ \A e \in Engines : en[e] \in {x, y}
    BY <2>1, <2>2, <2>5
  <2>7. \A e \in Engines : en[e] \in Engine
    BY <2>3, <2>4, <2>6
  <2> QED
    BY <2>6, <2>7
<1>6. PICK h : h = Here
  OBVIOUS
<1>7. h \in State /\ h.q = q /\ h.data = data /\ h.it = it /\ h.br = br /\ h.en = en
  BY <1>1, <1>2, <1>3, <1>4, <1>5, <1>6 DEF Here, State
<1>8. SameItems(h) /\ Asks(h)
  BY <1>1, <1>7, Zenon DEF SameItems, Asks
<1>9. Listed(h)
  <2>1. DOMAIN q.list = {}
    BY <1>1
  <2> QED
    BY <1>2, <1>7, <2>1 DEF Listed
<1>10. Assigned(h)
  <2>1. None \notin Items
    BY QueueAssumption
  <2> QED
    BY <1>2, <1>3, <1>7, <2>1 DEF Assigned
<1>11. Counted(h)
  <2>1. Active(h) = {}
    BY <1>2, <1>7 DEF Active
  <2>2. \A items \in SUBSET Items : Working(h, items) = {}
    BY <1>2, <1>7, QueueAssumption DEF Working
  <2>3. Downloads \in SUBSET Items /\ Uploads \in SUBSET Items /\ \A s \in Servers : Of(s) \in SUBSET Items
    BY DEF Downloads, Uploads, Of
  <2>4. Cardinality({}) = 0
    BY FS_EmptySet
  <2>5. Working(h, Downloads) = {} /\ Working(h, Uploads) = {} /\ \A s \in Servers : Working(h, Of(s)) = {}
    BY <2>2, <2>3
  <2>6. h.q.count = 0 /\ h.q.down = 0 /\ h.q.up = 0 /\ \A s \in Servers : h.q.server[s] = 0
    BY <1>1, <1>7, Zenon
  <2> QED
    BY <2>1, <2>4, <2>5, <2>6, Zenon DEF Counted
<1>12. Good(h)
  BY <1>7, <1>8, <1>9, <1>10, <1>11 DEF Good
<1>13. Good(Here)
  BY <1>6, <1>12, Zenon
<1>14. main \in Main /\ Sends
  BY DEF Init, Main, Sends
<1> QED
  BY <1>13, <1>14 DEF IInv

\* Every step keeps them right.
LEMMA NextSafe ==
  ASSUME IInv, Next
  PROVE  IInv'
<1>1. CASE \E i \in Items : MakeLocalDir(i) \/ TryStartNextTransfer(i)
  BY <1>1, MakeLocalDirSafe, TryStartNextTransferSafe
<1>2. CASE AdvanceQueueEnds \/ SendNextCommand
  BY <1>2, AdvanceQueueEndsSafe, SendNextCommandSafe
<1>3. CASE \E e \in Engines : OnEngineEvent(e) \/ OnTimer(e)
  BY <1>3, OnEngineEventSafe, OnTimerSafe
<1>4. CASE OnPrimaryEvent \/ OnExclusiveEngineRequestGranted
  BY <1>4, OnPrimaryEventSafe, OnExclusiveEngineRequestGrantedSafe
<1>5. CASE OnAskPassword \/ PasswordEntered
  BY <1>5, OnAskPasswordSafe, PasswordEnteredSafe
<1>6. CASE Start \/ Stop \/ RemoveAll \/ Quit
  BY <1>6, StartSafe, StopSafe, RemoveAllSafe, QuitSafe
<1>7. CASE \E i \in Items : RequeueFile(i) \/ OnRemoveSelected(i)
  BY <1>7, RequeueFileSafe, OnRemoveSelectedSafe
<1>8. CASE \E i \in Items, start \in BOOLEAN : QueueFile(i, start)
  BY <1>8, QueueFileSafe
<1>9. CASE \E s \in Servers \cup {None} : Browse(s)
  BY <1>9, BrowseSafe
<1>10. CASE \E e \in Engines : OnCommandEvent(e) \/ ConnectDelayEnds(e) \/ DoCancel(e)
  BY <1>10, OnCommandEventSafe, ConnectDelayEndsSafe, DoCancelSafe
<1>11. CASE \E e \in Engines : \E r \in Outcomes(en[e].cmd), progress \in BOOLEAN : OperationEnds(e, r, progress)
  BY <1>11, OutcomesAreReplies, OperationEndsSafe
<1> QED
  BY <1>1, <1>2, <1>3, <1>4, <1>5, <1>6, <1>7, <1>8, <1>9, <1>10, <1>11 DEF Next

\* The accounts of the queue are kept by every handler, whichever way a
\* transfer begins and ends.
THEOREM Invariance == Spec => []IInv
<1>1. Init => IInv
  BY InitSafe
<1>2. IInv /\ [Next]_vars => IInv'
  <2>1. SUFFICES ASSUME IInv, [Next]_vars PROVE IInv'
    OBVIOUS
  <2>2. CASE Next
    BY <2>1, <2>2, NextSafe
  <2>3. CASE UNCHANGED vars
    <3>1. PICK h : h = Here
      OBVIOUS
    <3>2. Good(Here) /\ main \in Main /\ Sends
      BY <2>1, HereGood
    <3>3. Becomes(h) /\ UNCHANGED main
      <4>1. h.q = q /\ h.data = data /\ h.it = it /\ h.br = br /\ h.en = en
        BY <3>1 DEF Here
      <4> QED
        BY <2>3, <4>1 DEF Becomes, vars
    <3>4. Good(h)
      BY <3>1, <3>2, Zenon
    <3> QED
      BY <3>2, <3>3, <3>4, StaysSafe
  <2> QED
    BY <2>1, <2>2, <2>3
<1> QED
  BY <1>1, <1>2, PTL DEF Spec

\* The counters that the code keeps, and the marks on the items, agree.
LEMMA AccountsFollow ==
  ASSUME IInv
  PROVE  AccountsExact
<1>1. PICK h : h = Here
  OBVIOUS
<1>2. Good(h) /\ h.q = q /\ h.data = data /\ h.it = it
  BY <1>1, HereGood, Zenon
<1>3. /\ Listed(h) /\ Assigned(h) /\ Counted(h)
      /\ q.list \in Seq(Engines) /\ data \in [Engines -> EngineData] /\ it \in [Items -> Item]
  BY <1>2 DEF Good, State, QueueState
<1>4. None \notin Items
  BY QueueAssumption
<1>5. ActiveEngines = Active(h)
  <2>1. Range(q.list) \subseteq Engines
    BY <1>3 DEF Range
  <2>2. \A e \in Engines : data[e].active => e \in Range(q.list)
    BY <1>2, <1>3, Zenon DEF Listed
  <2>3. Active(h) = {e \in Engines : data[e].active}
    BY <1>2, Zenon DEF Active
  <2> QED
    BY <2>1, <2>2, <2>3 DEF ActiveEngines
<1> DEFINE W(items) == {e \in ActiveEngines : data[e].item # None /\ data[e].item \in items}
<1>6. ASSUME NEW items \in SUBSET Items
      PROVE  W(items) = Working(h, items)
  <2>1. Working(h, items) = {e \in Engines : data[e].item \in items}
    BY <1>2, Zenon DEF Working
  <2>2. Active(h) = {e \in Engines : data[e].active}
    BY <1>2, Zenon DEF Active
  <2>3. \A e \in Engines : data[e].item # None => data[e].active
    BY <1>2, <1>3, Zenon DEF Assigned
  <2> QED
    BY <1>4, <1>5, <2>1, <2>2, <2>3
<1>7. Downloads \in SUBSET Items /\ Uploads \in SUBSET Items /\ \A s \in Servers : Of(s) \in SUBSET Items
  BY DEF Downloads, Uploads, Of
<1>8. \A e \in ActiveEngines : data[e].item \in Items \cup {None}
  BY <1>3, <1>5 DEF Active, EngineData
<1>9. q.count = Cardinality(ActiveEngines)
  BY <1>2, <1>3, <1>5, Zenon DEF Counted
<1>10. q.down = Cardinality({e \in ActiveEngines : data[e].item # None /\ Download(data[e].item)})
  <2>1. {e \in ActiveEngines : data[e].item # None /\ Download(data[e].item)} = W(Downloads)
    BY <1>8 DEF Downloads
  <2> HIDE DEF W
  <2> QED
    BY <1>2, <1>3, <1>6, <1>7, <2>1, Zenon DEF Counted
<1>11. q.up = Cardinality({e \in ActiveEngines : data[e].item # None /\ ~Download(data[e].item)})
  <2>1. {e \in ActiveEngines : data[e].item # None /\ ~Download(data[e].item)} = W(Uploads)
    BY <1>8 DEF Downloads, Uploads
  <2> HIDE DEF W
  <2> QED
    BY <1>2, <1>3, <1>6, <1>7, <2>1, Zenon DEF Counted
<1>12. ASSUME NEW s \in Servers
       PROVE  q.server[s] = Cardinality({e \in ActiveEngines : data[e].item # None /\ ServerOf(data[e].item) = s})
  <2>1. {e \in ActiveEngines : data[e].item # None /\ ServerOf(data[e].item) = s} = W(Of(s))
    BY <1>8 DEF Of
  <2>2. Of(s) \in SUBSET Items
    BY <1>7
  <2> HIDE DEF W
  <2> QED
    BY <1>2, <1>3, <1>6, <2>1, <2>2, Zenon DEF Counted
<1>13. ASSUME NEW i \in Items
       PROVE  LET works == {e \in ActiveEngines : data[e].item # None /\ data[e].item = i}
              IN IF it[i].active THEN it[i].where = "queue" /\ Cardinality(works) = 1 ELSE works = {}
  <2> DEFINE works == {e \in ActiveEngines : data[e].item # None /\ data[e].item = i}
  <2>1. /\ it[i].active <=> \E e \in Engines : data[e].item = i
        /\ it[i].active => it[i].where = "queue"
        /\ \A e \in Engines : data[e].item # None => data[e].active
        /\ \A e, f \in Engines : data[e].item = data[f].item /\ data[e].item # None => e = f
    BY <1>2, <1>3, Zenon DEF Assigned
  <2>2. Active(h) = {e \in Engines : data[e].active}
    BY <1>2, Zenon DEF Active
  <2>3. works = {e \in Engines : data[e].item = i}
    BY <1>4, <1>5, <2>1, <2>2
  <2> HIDE DEF works
  <2>4. CASE it[i].active
    <3>1. PICK e \in Engines : data[e].item = i
      BY <2>1, <2>4
    <3>2. works = {e}
      BY <1>4, <2>1, <2>3, <3>1
    <3>3. Cardinality(works) = 1
      BY <3>2, FS_Singleton
    <3> QED
      BY <2>1, <2>4, <3>3 DEF works
  <2>5. CASE ~it[i].active
    <3>1. works = {}
      BY <2>1, <2>3, <2>5
    <3> QED
      BY <2>5, <3>1 DEF works
  <2> QED
    BY <2>4, <2>5
<1> QED
  BY <1>9, <1>10, <1>11, <1>12, <1>13, Zenon DEF AccountsExact

\* Every counter of the queue is exact, and an item is active iff exactly one
\* active engine works on it, at any time.
THEOREM AccountsCorrect == Spec => []AccountsExact
BY Invariance, AccountsFollow, PTL
=============================================================================
