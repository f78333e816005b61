-------------------------- MODULE MCOpLockManager --------------------------
EXTENDS OpLockManager, TLC

CONSTANTS s1, s2, s3, list, mkdir, top, sub, A, B

\* Three sockets, two of them on server A.
MCServerOf == (s1 :> A) @@ (s2 :> A) @@ (s3 :> B)
MCParentOf == {<<top, sub>>}
MCRequests ==
  {[reason |-> mkdir, path |-> top, inclusive |-> TRUE],
   [reason |-> mkdir, path |-> sub, inclusive |-> FALSE],
   [reason |-> list, path |-> top, inclusive |-> FALSE]}
MCFewRequests == {r \in MCRequests : r.reason = mkdir}
\* The callers never ask for an inclusive lock.
MCExclusiveRequests == {r \in MCRequests : ~r.inclusive}

\* The sockets of server A are interchangeable.
MCSymmetry == Permutations({s1, s2})
=============================================================================
