-------------------------- MODULE DirectoryCache --------------------------
(***************************************************************************)
(* The directory cache of engine/directorycache.cpp, which all engines of  *)
(* a process share, as a value and one operator per operation.  Every      *)
(* operation is one critical section of mutex_.                            *)
(*                                                                         *)
(* The listings of one server are modelled, of names that differ in more   *)
(* than case.  A path is the sequence of the names that lead to it.        *)
(***************************************************************************)
EXTENDS Integers, SequencesExt, FiniteSetsExt

CONSTANTS
  Names,        \* names of files and directories
  Paths,        \* the directories that may be listed
  Limits        \* the limits of Prune: pairs <<files, directories>>

ASSUME LimitsAssumption == Limits \subseteq Int \X Nat

Kinds == {"none", "file", "dir"}
NoEntry == [kind |-> "none", unsure |-> FALSE]
Entries == [Names -> [kind : Kinds, unsure : BOOLEAN]]

\* A cache: the cached listings, m_leastRecentlyUsedList and m_totalFileCount.
\* A listing has its entries, whether any of its unsure flags is set, whether
\* it is older than ttl_, and what the user of the cache adds.
EmptyCache == [dirs |-> [p \in {} |-> {}], lru |-> <<>>, total |-> 0]

Cached(c, p) == p \in DOMAIN c.dirs
Size(l) == Cardinality({n \in Names : l.entries[n].kind # "none"})

\* The entries of the listings of some paths.
Total(c, paths) == MapThenSumSet(LAMBDA p : Size(c.dirs[p]), paths)

Child(p, n) == Append(p, n)
IsBelow(q, p) == Len(p) < Len(q) /\ SubSeq(q, 1, Len(p)) = p

-----------------------------------------------------------------------------
Touch(c, p) == [c EXCEPT !.lru = Append(Remove(@, p), p)]

Put(c, p, l) == [c EXCEPT !.dirs = [q \in DOMAIN @ \cup {p} |-> IF q = p THEN l ELSE @[q]]]

\* The listings of the paths gone leave the cache.
Left(lru, gone) == SelectSeq(lru, LAMBDA p : p \notin gone)
Erase(c, gone) ==
  [dirs |-> [p \in DOMAIN c.dirs \ gone |-> c.dirs[p]],
   lru |-> Left(c.lru, gone),
   total |-> c.total - Total(c, DOMAIN c.dirs \cap gone)]

\* Lookup moves the listing to the end of the LRU list, also when it then is
\* not used because of its unsure flags.
Lookup(c, p) == IF Cached(c, p) THEN Touch(c, p) ELSE c
Found(c, p, allowUnsure) == Cached(c, p) /\ (allowUnsure \/ ~c.dirs[p].unsure)

TooLarge(c) == \E l \in Limits : c.total > l[1] /\ Len(c.lru) > l[2]
\* The least recently used listings leave until the cache is within its limits.
Prune(c) ==
  LET without(k) == Erase(c, {c.lru[i] : i \in 1..k})
  IN without(Min({k \in 0..Len(c.lru) : ~TooLarge(without(k))}))

\* Fault: the entries of a listing that is replaced still count.
StoreTwice(c, p, l) ==
  LET stored == [Touch(Put(c, p, l), p) EXCEPT !.total = @ + Size(l)]
  IN IF Cached(c, p) THEN stored ELSE Prune(stored)

Store(c, p, l) ==
  IF Cached(c, p)
  THEN [Touch(Put(c, p, l), p) EXCEPT !.total = @ + Size(l) - Size(c.dirs[p])]
  ELSE Prune([Touch(Put(c, p, l), p) EXCEPT !.total = @ + Size(l)])

Mark(l) == [l EXCEPT !.unsure = TRUE]
MarkEntry(l, n) ==
  [Mark(l) EXCEPT !.entries[n] = IF @.kind = "none" THEN @ ELSE [@ EXCEPT !.unsure = TRUE]]

\* The entry, its listing and, for a directory, all listings below p.
InvalidateFile(c, p, n) ==
  IF ~Cached(c, p) THEN c
  ELSE LET marked == Touch(Put(c, p, MarkEntry(c.dirs[p], n)), p)
       IN IF c.dirs[p].entries[n].kind # "dir" THEN marked
          ELSE [marked EXCEPT !.dirs =
                  [q \in DOMAIN @ |-> IF q = p \/ IsBelow(q, p) THEN Mark(@[q]) ELSE @[q]]]

\* kind "none" stands for Filetype unknown and mayCreate false
UpdateFile(c, p, n, kind) ==
  IF ~Cached(c, p) THEN c
  ELSE IF c.dirs[p].entries[n].kind # "none" \/ kind = "none"
  THEN Touch(Put(c, p, MarkEntry(c.dirs[p], n)), p)
  ELSE LET added == [Mark(c.dirs[p]) EXCEPT !.entries[n] = [kind |-> kind, unsure |-> TRUE]]
       IN [Touch(Put(c, p, added), p) EXCEPT !.total = @ + 1]

RemoveFile(c, p, n) ==
  IF ~Cached(c, p) THEN c
  ELSE LET removed == [Mark(c.dirs[p]) EXCEPT !.entries[n] = NoEntry]
       IN [Touch(Put(c, p, removed), p) EXCEPT !.total = @ - Size(c.dirs[p]) + Size(removed)]

RemoveDir(c, p, n) ==
  RemoveFile(Erase(c, {q \in DOMAIN c.dirs : q = Child(p, n) \/ IsBelow(q, Child(p, n))}), p, n)

InvalidateServer(c) == EmptyCache

\* Within one directory the entry is renamed in place, unless it is a
\* directory; what is not known is forgotten altogether.
RenameWithin(c, p, n, m) ==
  LET freed == RemoveFile(c, p, m)
      entry == freed.dirs[p].entries[n]
  IN CASE entry.kind = "dir" -> UpdateFile(RemoveDir(RemoveDir(freed, p, n), p, m), p, m, "dir")
       [] entry.kind = "file" ->
            Put(freed, p, [Mark(freed.dirs[p]) EXCEPT
                             !.entries[n] = NoEntry,
                             !.entries[m] = [kind |-> "file", unsure |-> TRUE]])
       [] OTHER -> freed

Rename(c, p, n, q, m) ==
  IF ~Cached(c, p) THEN InvalidateServer(c)
  ELSE LET seen == Touch(c, p)
           kind == c.dirs[p].entries[n].kind
       IN IF p = q THEN RenameWithin(seen, p, n, m)
          ELSE CASE kind = "dir" -> UpdateFile(RemoveDir(seen, p, n), q, m, "dir")
                 [] kind = "file" -> UpdateFile(RemoveFile(seen, p, n), q, m, "file")
                 [] OTHER -> seen

\* The accounting that Prune and the destructor rely on: every listing is in
\* the LRU list once, and m_totalFileCount is the number of all entries.
Balanced(c) ==
  /\ ToSet(c.lru) = DOMAIN c.dirs
  /\ Len(c.lru) = Cardinality(DOMAIN c.dirs)
  /\ c.total = Total(c, DOMAIN c.dirs)
=============================================================================
