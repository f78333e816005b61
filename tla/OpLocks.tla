------------------------------ MODULE OpLocks ------------------------------
(***************************************************************************)
(* What the operation lock manager promises to the control sockets         *)
(* (engine/oplock_manager.h): a lock is requested, is granted at once or   *)
(* later, and is released; conflicting locks of one server are never       *)
(* granted to two sockets at a time.  Identifiers, waiting queues, events  *)
(* and the layout of the lock table are left to the implementation.        *)
(***************************************************************************)
CONSTANTS
  Sockets,      \* the control sockets, one per engine
  ServerOf,     \* [Sockets -> servers]: the server a socket is connected to
  Requests,     \* what may be locked: [reason, path, inclusive] records
  Ids,          \* the names of locks
  ParentOf      \* pairs <<p, q>> of paths such that p.IsParentOf(q)

VARIABLE locks  \* identifier -> [socket, req, granted]

\* Requests that exclude each other: the same kind of operation on the same
\* path, or on a path below one that is locked inclusively.
Conflict(a, b) ==
  /\ a.reason = b.reason
  /\ \/ a.path = b.path
     \/ a.inclusive /\ <<a.path, b.path>> \in ParentOf
     \/ b.inclusive /\ <<b.path, a.path>> \in ParentOf

\* Whether a granted lock of another socket of the same server stands in the
\* way of request r of socket s.
Contended(s, r) ==
  \E id \in DOMAIN locks :
     /\ locks[id].granted
     /\ locks[id].socket # s
     /\ ServerOf[locks[id].socket] = ServerOf[s]
     /\ Conflict(locks[id].req, r)

Init == locks = [id \in {} |-> {}]

Request(s, r, id, granted) ==
  /\ id \notin DOMAIN locks
  /\ granted => ~Contended(s, r)
  /\ locks' = [i \in DOMAIN locks \cup {id} |->
                 IF i = id THEN [socket |-> s, req |-> r, granted |-> granted]
                           ELSE locks[i]]

\* One wakeup may grant several locks of the socket that is woken.
Grant(s, ids) ==
  /\ ids \subseteq DOMAIN locks
  /\ \A id \in ids : /\ locks[id].socket = s
                     /\ ~locks[id].granted
                     /\ ~Contended(s, locks[id].req)
  /\ locks' = [i \in DOMAIN locks |->
                 IF i \in ids THEN [locks[i] EXCEPT !.granted = TRUE]
                              ELSE locks[i]]

Release(id) ==
  /\ id \in DOMAIN locks
  /\ locks' = [i \in DOMAIN locks \ {id} |-> locks[i]]

Next ==
  \/ \E s \in Sockets, r \in Requests, id \in Ids, granted \in BOOLEAN :
        Request(s, r, id, granted)
  \/ \E s \in Sockets, ids \in SUBSET DOMAIN locks : Grant(s, ids)
  \/ \E id \in DOMAIN locks : Release(id)

Spec == Init /\ [][Next]_locks
=============================================================================
