-------------------------- MODULE MCRemoteListing --------------------------
EXTENDS RemoteListing

CONSTANTS a, b, e1, e2

MCPaths == {<<>>, <<a>>, <<b>>}
\* A file a and a directory b, which holds a file a.
MCInitially ==
  (<<>> :> (a :> "file" @@ b :> "dir")) @@ (<<a>> :> (a :> "none" @@ b :> "none"))
  @@ (<<b>> :> (a :> "file" @@ b :> "none"))

MCCommand(kind, path, name, topath, toname) ==
  [kind |-> kind, path |-> path, name |-> name, topath |-> topath, toname |-> toname]
MCCommands ==
  {MCCommand(k, p, a, p, a) : k \in {"list", "refresh"}, p \in {<<>>, <<b>>}}
  \cup {MCCommand(k, <<>>, a, <<>>, a) : k \in {"delete", "upload", "mkdir", "chmod", "raw"}}
  \cup {MCCommand("delete", <<b>>, a, <<b>>, a),
        MCCommand("upload", <<b>>, b, <<b>>, b),
        MCCommand("mkdir", <<b>>, b, <<b>>, b),
        MCCommand("rmdir", <<>>, b, <<>>, b),
        MCCommand("rename", <<>>, b, <<>>, a),
        MCCommand("rename", <<b>>, a, <<>>, a)}

\* Two directories are kept; one when they hold more than two entries.
MCLimits == {<<-1, 2>>, <<2, 1>>}
MCSymmetry == Permutations({e1, e2})
=============================================================================
