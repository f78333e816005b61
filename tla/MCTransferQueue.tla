-------------------------- MODULE MCTransferQueue --------------------------
(* A site limited to one connection and one without limit.                *)
EXTENDS TransferQueue

Two(sa, ka, sb, kb, errors) ==
  [i \in Items |-> IF i = "a" THEN [server |-> sa, kind |-> ka, errors |-> errors]
                             ELSE [server |-> sb, kind |-> kb, errors |-> errors]]

\* Two items that compete for the limited site and two for different sites, all
\* of which have failed before, and one that only needs a local directory.
MCLoads == {Two("limited", "upload", "limited", "mkdir", 1),
            Two("limited", "mkdir", "free", "download", 1),
            Two("limited", "localdir", "limited", "download", 0)}

MCLimit == [s \in Servers |-> IF s = "limited" THEN 1 ELSE 0]

=============================================================================
