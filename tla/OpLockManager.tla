--------------------------- MODULE OpLockManager ---------------------------
(***************************************************************************)
(* The lock table of engine/oplock_manager.cpp.  All engines of a process  *)
(* share one OpLockManager.  An operation of a control socket locks the    *)
(* path it is about to list or create and suspends while the lock waits;   *)
(* releasing a granted lock posts an event to every socket that has a      *)
(* waiting lock, and the handler of that event tries again.                *)
(*                                                                         *)
(* A lock is known to its operation by the index of the socket's slot and  *)
(* the index of the lock in it, and both vectors shrink only at their end. *)
(* Every action is one critical section of mtx_.                           *)
(***************************************************************************)
EXTENDS Integers, Sequences, FiniteSetsExt

CONSTANTS
  Sockets,      \* the control sockets
  NoSocket,     \* the null pointer of a vacated slot
  ServerOf,     \* [Sockets -> servers]: socket->GetCurrentServer()
  Requests,     \* [reason, path, inclusive] records passed to Lock
  ParentOf,     \* pairs <<p, q>> of paths such that p.IsParentOf(q, false)
  MaxLocks,     \* bound: operations of one socket that hold a lock at a time
  MaxEvents,    \* bound: wakeup events queued for one socket
  MaxSlots      \* bound: length of the slot vector, which the code lets grow

ASSUME NullAssumption == NoSocket \notin Sockets
ASSUME BoundAssumption == {MaxLocks, MaxEvents, MaxSlots} \subseteq Nat \ {0}

VARIABLES
  slots,        \* socket_locks_: sequence of [socket, locks]
  handles,      \* the live OpLock objects of a socket: set of <<slot, lock>>
  events        \* CObtainLockEvents queued for a socket

vars == <<slots, handles, events>>

LockInfo == [req : Requests, waiting : BOOLEAN, released : BOOLEAN]
Slot == [socket : Sockets \cup {NoSocket}, locks : Seq(LockInfo)]

Index == Nat \ {0}

TypeOK ==
  /\ slots \in Seq(Slot)
  /\ handles \in [Sockets -> SUBSET (Index \X Index)]
  /\ events \in [Sockets -> Nat]

-----------------------------------------------------------------------------
\* Definitions marked "Fault:" are the definition that follows them with a
\* plausible mistake in it; no specification uses them.

\* Fault: inclusive locks do not cover the paths below them.
ConflictSamePath(a, b) == a.reason = b.reason /\ a.path = b.path

Conflict(a, b) ==
  /\ a.reason = b.reason
  /\ \/ a.path = b.path
     \/ a.inclusive /\ <<a.path, b.path>> \in ParentOf
     \/ b.inclusive /\ <<b.path, a.path>> \in ParentOf

Held(lock) == ~lock.waiting /\ ~lock.released

\* A lock of slot i that stands in the way of request r.
HeldAgainst(i, r) ==
  \E k \in DOMAIN slots[i].locks :
     Held(slots[i].locks[k]) /\ Conflict(slots[i].locks[k].req, r)

\* The test of OpLockManager::Lock: slots of other sockets, same server.
Contended(s, r) ==
  \E i \in DOMAIN slots :
     /\ slots[i].socket \in Sockets \ {s}
     /\ ServerOf[slots[i].socket] = ServerOf[s]
     /\ HeldAgainst(i, r)

\* Fault: the retry looks at the slots that were created earlier only.
BlockedByEarlierSlot(i, r) ==
  \E j \in DOMAIN slots : j < i /\ HeldAgainst(j, r)

\* The test of OpLockManager::ObtainWaiting: every other slot, whatever its
\* server.
BlockedInSlot(i, r) ==
  \E j \in DOMAIN slots \ {i} : HeldAgainst(j, r)

HasWaiting(slot) == \E k \in DOMAIN slot.locks : slot.locks[k].waiting

\* OpLockManager::Waiting(socket)
Waiting(s) == \E i \in DOMAIN slots : slots[i].socket = s /\ HasWaiting(slots[i])

\* The while loops of Unlock drop released locks, and vacated slots, from the
\* end of their vector only.
LastIndex(ix) == Max(ix \cup {0})
DropReleased(q) ==
  SubSeq(q, 1, LastIndex({k \in DOMAIN q : ~q[k].released}))
DropVacated(q) ==
  SubSeq(q, 1, LastIndex({i \in DOMAIN q : q[i].socket # NoSocket}))
DropLast(q) == SubSeq(q, 1, Len(q) - 1)

\* get_or_create: a vacated slot is not used again.
SlotsWith(s) ==
  IF \E i \in DOMAIN slots : slots[i].socket = s
  THEN slots ELSE Append(slots, [socket |-> s, locks |-> <<>>])

-----------------------------------------------------------------------------
Init ==
  /\ slots = <<>>
  /\ handles = [s \in Sockets |-> {}]
  /\ events = [s \in Sockets |-> 0]

\* Fault: the index is computed before the lock is added.
LockIndexedEarly(s, r) ==
  /\ ~Waiting(s)
  /\ \A i \in DOMAIN slots : slots[i].socket = s => Len(slots[i].locks) < MaxLocks
  /\ LET all == SlotsWith(s)
         i == CHOOSE j \in DOMAIN all : all[j].socket = s
         info == [req |-> r, waiting |-> Contended(s, r), released |-> FALSE]
     IN /\ Len(all) <= MaxSlots
        /\ slots' = [all EXCEPT ![i].locks = Append(@, info)]
        /\ handles' = [handles EXCEPT ![s] = @ \cup {<<i, Len(all[i].locks)>>}]
  /\ UNCHANGED events

\* OpLockManager::Lock, called by an operation that is being sent; a socket
\* whose operation waits for a lock sends nothing.
Lock(s, r) ==
  /\ ~Waiting(s)
  /\ \A i \in DOMAIN slots : slots[i].socket = s => Len(slots[i].locks) < MaxLocks
  /\ LET all == SlotsWith(s)
         i == CHOOSE j \in DOMAIN all : all[j].socket = s
         info == [req |-> r, waiting |-> Contended(s, r), released |-> FALSE]
     IN /\ Len(all) <= MaxSlots
        /\ slots' = [all EXCEPT ![i].locks = Append(@, info)]
        /\ handles' = [handles EXCEPT ![s] = @ \cup {<<i, Len(all[i].locks) + 1>>}]
  /\ UNCHANGED events

AsReleased(lock) == [req |-> lock.req, waiting |-> FALSE, released |-> TRUE]
AsGranted(lock) == [req |-> lock.req, waiting |-> FALSE, released |-> lock.released]

\* Fault: an emptied slot is erased wherever it stands.
SlotsWithoutAnyHole(i, k) ==
  LET rest == DropReleased(DropLast(slots[i].locks))
  IN IF k < Len(slots[i].locks)
     THEN [slots EXCEPT ![i].locks[k] = AsReleased(@)]
     ELSE IF rest # <<>> THEN [slots EXCEPT ![i].locks = rest]
     ELSE [j \in 1..(Len(slots) - 1) |-> slots[IF j < i THEN j ELSE j + 1]]

\* The table after the lock of handle <<i, k>> is given up: the last lock of a
\* slot is dropped, and an emptied slot with it, any other lock is marked.
SlotsWithout(i, k) ==
  LET rest == DropReleased(DropLast(slots[i].locks))
  IN IF k < Len(slots[i].locks)
     THEN [slots EXCEPT ![i].locks[k] = AsReleased(@)]
     ELSE IF rest # <<>> THEN [slots EXCEPT ![i].locks = rest]
     ELSE IF i < Len(slots)
          THEN [slots EXCEPT ![i] = [socket |-> NoSocket, locks |-> <<>>]]
          ELSE DropVacated(DropLast(slots))

\* Fault: Wakeup looks for waiting locks in the releasing socket only.
UnlockWithoutWakeup(s, h) ==
  /\ h \in handles[s]
  /\ \A t \in Sockets : events[t] < MaxEvents
  /\ slots' = SlotsWithout(h[1], h[2])
  /\ handles' = [handles EXCEPT ![s] = @ \ {h}]
  /\ events' = IF slots[h[1]].locks[h[2]].waiting \/ ~Waiting(s)' THEN events
               ELSE [events EXCEPT ![s] = @ + 1]

\* OpLockManager::Unlock followed by Wakeup, from ~OpLock: the operation ended
\* or was reset, whether or not it still waits.
Unlock(s, h) ==
  /\ h \in handles[s]
  /\ \A t \in Sockets : events[t] < MaxEvents
  /\ slots' = SlotsWithout(h[1], h[2])
  /\ handles' = [handles EXCEPT ![s] = @ \ {h}]
  /\ events' = IF slots[h[1]].locks[h[2]].waiting THEN events
               ELSE [t \in Sockets |-> IF Waiting(t)' THEN events[t] + 1 ELSE events[t]]

\* Fault: a socket lets the others retry first.
OnObtainLockDeferred(s) ==
  /\ events[s] > 0
  /\ \A t \in Sockets \ {s} : events[t] = 0
  /\ events' = [events EXCEPT ![s] = @ - 1]
  /\ slots' = [i \in DOMAIN slots |->
                 IF slots[i].socket # s THEN slots[i]
                 ELSE [slots[i] EXCEPT !.locks =
                         [k \in DOMAIN @ |->
                            IF @[k].waiting /\ ~BlockedInSlot(i, @[k].req)
                            THEN AsGranted(@[k]) ELSE @[k]]]]
  /\ UNCHANGED handles

\* CControlSocket::OnObtainLock: ObtainWaiting(socket) retries every waiting
\* lock of the socket.
OnObtainLock(s) ==
  /\ events[s] > 0
  /\ events' = [events EXCEPT ![s] = @ - 1]
  /\ slots' = [i \in DOMAIN slots |->
                 IF slots[i].socket # s THEN slots[i]
                 ELSE [slots[i] EXCEPT !.locks =
                         [k \in DOMAIN @ |->
                            IF @[k].waiting /\ ~BlockedInSlot(i, @[k].req)
                            THEN AsGranted(@[k]) ELSE @[k]]]]
  /\ UNCHANGED handles

Next ==
  \E s \in Sockets :
     \/ \E r \in Requests : Lock(s, r)
     \/ \E h \in handles[s] : Unlock(s, h)
     \/ OnObtainLock(s)

\* The event loop of a socket delivers its events; nothing obliges an
\* operation to end.
Spec == Init /\ [][Next]_vars /\ \A s \in Sockets : WF_vars(OnObtainLock(s))

-----------------------------------------------------------------------------
\* The places of the locks that are granted or wait.
Places ==
  UNION {{<<i, k>> : k \in {n \in DOMAIN slots[i].locks : ~slots[i].locks[n].released}} :
         i \in DOMAIN slots}

\* Two sockets connected to one server never both hold locks that exclude each
\* other: the purpose of Lock and ObtainWaiting.
MutualExclusion ==
  \A i, j \in DOMAIN slots :
     /\ i # j
     /\ slots[i].socket \in Sockets
     /\ slots[j].socket \in Sockets
     /\ ServerOf[slots[i].socket] = ServerOf[slots[j].socket]
     => \A k \in DOMAIN slots[i].locks :
           Held(slots[i].locks[k]) => ~HeldAgainst(j, slots[i].locks[k].req)

\* The handles of a socket are exactly the places of its unreleased locks: no
\* lock loses its owner, none is reached through two handles, and the index
\* asserts of Unlock and Waiting hold although both vectors shrink.
HandlesExact ==
  \A s \in Sockets : handles[s] = {h \in Places : slots[h[1]].socket = s}

\* No lost wakeup: a lock that waits although nothing stands in its way has an
\* event queued for its socket.  Lock and Unlock rely on it, since nothing
\* else sends the suspended operation again and OnTimer does not time it out.
NoLostWakeup ==
  \A i \in DOMAIN slots : \A k \in DOMAIN slots[i].locks :
     /\ slots[i].locks[k].waiting
     /\ ~BlockedInSlot(i, slots[i].locks[k].req)
     => events[slots[i].socket] > 0

\* A waiting operation that nothing blocks proceeds, or is blocked again by a
\* lock that was requested later: the wait queue is not fair.
UnblockedProceeds ==
  \A s \in Sockets :
     (\E i \in DOMAIN slots : /\ slots[i].socket = s
                              /\ \E k \in DOMAIN slots[i].locks :
                                    /\ slots[i].locks[k].waiting
                                    /\ ~BlockedInSlot(i, slots[i].locks[k].req))
     ~> \/ ~Waiting(s)
        \/ \E i \in DOMAIN slots : /\ slots[i].socket = s
                                   /\ \E k \in DOMAIN slots[i].locks :
                                         /\ slots[i].locks[k].waiting
                                         /\ BlockedInSlot(i, slots[i].locks[k].req)

\* The comment of ftp/cwd.cpp:77 takes a waiting lock to mean that another
\* engine is creating the directory: while a lock waits and no event is queued
\* for its socket, a socket of the same server holds a conflicting lock.
WaitsForSameServer ==
  \A i \in DOMAIN slots : \A k \in DOMAIN slots[i].locks :
     slots[i].locks[k].waiting /\ events[slots[i].socket] = 0
     => Contended(slots[i].socket, slots[i].locks[k].req)

\* The table implements the service of module OpLocks: a lock keeps its
\* identity, its owner and its request while it lives, and once granted it
\* stays granted until its owner gives it up.
Service == INSTANCE OpLocks WITH
  Ids <- (1..MaxSlots) \X (1..MaxLocks),
  locks <- [h \in Places |->
              [socket |-> slots[h[1]].socket,
               req |-> slots[h[1]].locks[h[2]].req,
               granted |-> ~slots[h[1]].locks[h[2]].waiting]]
ImplementsService == Service!Spec
=============================================================================
