----------------------- MODULE RemoteListing_proofs -----------------------
(***************************************************************************)
(* Proofs about the listings that engines share, for any number of         *)
(* engines, directories, names, commands and limits of the cache: a        *)
(* refresh that waited for another connection is answered from the cache   *)
(* with a listing that is new enough.                                      *)
(*                                                                         *)
(* The operations of the cache change entries and marks, touch and erase,  *)
(* but store no listing of their own: what says when a listing was asked   *)
(* for survives each of them (Derived).  So only the six actions that      *)
(* wait, are answered, parse, store or age need a look at the listings.    *)
(***************************************************************************)
EXTENDS RemoteListing, TLAPS

-----------------------------------------------------------------------------
(* The operations of the directory cache.                                  *)

\* A cache of listings of the paths, whatever its LRU list and its count.
IsCache(c) ==
  /\ c = [dirs |-> c.dirs, lru |-> c.lru, total |-> c.total]
  /\ DOMAIN c.dirs \subseteq Paths
  /\ \A p \in DOMAIN c.dirs : c.dirs[p] \in Listing

\* Listings that were retrieved at the same times by the same engine.
Same(k, l) == k.for = l.for /\ k.seen = l.seen /\ k.by = l.by

\* Cache d has no listing that is newer or older than the one in c.
Derived(d, c) ==
  /\ IsCache(d)
  /\ \A p \in DOMAIN d.dirs : p \in DOMAIN c.dirs /\ Same(d.dirs[p], c.dirs[p])

\* Operations follow one another.
LEMMA DerivedTwice ==
  ASSUME NEW b, NEW c, NEW d, Derived(c, b), Derived(d, c)
  PROVE  Derived(d, b)
  BY DEF Derived, Same

\* A cache that stays as it is.
LEMMA Itself ==
  ASSUME NEW c, IsCache(c)
  PROVE  Derived(c, c)
  BY DEF Derived, Same

\* A listing moves to the end of the LRU list.
LEMMA TouchDerived ==
  ASSUME NEW c, IsCache(c), NEW p
  PROVE  Derived(Touch(c, p), c) /\ Touch(c, p).dirs = c.dirs
<1>1. Touch(c, p) = [dirs |-> c.dirs, lru |-> Append(Remove(c.lru, p), p), total |-> c.total]
  BY SMTT(30) DEF Touch, IsCache
<1> QED
  BY <1>1 DEF Derived, IsCache, Same

\* A listing is put in the place of one that was retrieved as it was.
LEMMA PutDerived ==
  ASSUME NEW c, IsCache(c), NEW p \in DOMAIN c.dirs, NEW l \in Listing, Same(l, c.dirs[p])
  PROVE  Derived(Put(c, p, l), c)
<1>1. Put(c, p, l) = [dirs |-> [q \in DOMAIN c.dirs \cup {p} |-> IF q = p THEN l ELSE c.dirs[q]],
                      lru |-> c.lru, total |-> c.total]
  BY DEF Put, IsCache
<1> QED
  BY <1>1 DEF Derived, IsCache, Same

\* Listings leave the cache.
LEMMA EraseDerived ==
  ASSUME NEW c, IsCache(c), NEW gone
  PROVE  Derived(Erase(c, gone), c)
  BY DEF Derived, IsCache, Same, Erase

\* A listing is marked as unsure.
LEMMA MarkSame ==
  ASSUME NEW l \in Listing
  PROVE  Mark(l) \in Listing /\ Same(Mark(l), l) /\ Mark(l).entries = l.entries
  BY DEF Listing, Mark, Same

\* The entries of a listing change.
LEMMA EntriesSame ==
  ASSUME NEW l \in Listing, NEW entries \in Entries
  PROVE  [l EXCEPT !.entries = entries] \in Listing /\ Same([l EXCEPT !.entries = entries], l)
  BY DEF Listing, Same

\* One entry of a listing changes.
LEMMA EntrySame ==
  ASSUME NEW l \in Listing, NEW n \in Names, NEW x \in [kind : Kinds, unsure : BOOLEAN]
  PROVE  [l EXCEPT !.entries[n] = x] \in Listing /\ Same([l EXCEPT !.entries[n] = x], l)
<1>1. [l.entries EXCEPT ![n] = x] \in Entries
  BY DEF Entries, Listing
<1>2. [l EXCEPT !.entries[n] = x] = [l EXCEPT !.entries = [l.entries EXCEPT ![n] = x]]
  BY DEF Listing
<1> QED
  BY <1>1, <1>2, EntriesSame

\* An entry is marked as unsure.
LEMMA MarkEntrySame ==
  ASSUME NEW l \in Listing, NEW n \in Names
  PROVE  MarkEntry(l, n) \in Listing /\ Same(MarkEntry(l, n), l)
<1> DEFINE m == Mark(l)
           x == IF m.entries[n].kind = "none" THEN m.entries[n]
                ELSE [m.entries[n] EXCEPT !.unsure = TRUE]
<1>1. m \in Listing /\ Same(m, l)
  BY MarkSame
<1>2. m.entries[n] \in [kind : Kinds, unsure : BOOLEAN]
  BY <1>1 DEF Listing, Entries
<1>3. x \in [kind : Kinds, unsure : BOOLEAN]
  BY <1>2
<1>4. MarkEntry(l, n) = [m EXCEPT !.entries[n] = x]
  BY DEF MarkEntry
<1> HIDE DEF m, x
<1> QED
  BY <1>1, <1>3, <1>4, EntrySame DEF Same

\* A listing that is put in the place of one like it, with the LRU list and the
\* count as they may be.
LEMMA ReplacedDerived ==
  ASSUME NEW c, IsCache(c), NEW p \in DOMAIN c.dirs, NEW l \in Listing, Same(l, c.dirs[p]),
         NEW total
  PROVE  /\ Derived(Touch(Put(c, p, l), p), c)
         /\ Derived([Touch(Put(c, p, l), p) EXCEPT !.total = total], c)
         /\ p \in DOMAIN Put(c, p, l).dirs
         /\ p \in DOMAIN Touch(Put(c, p, l), p).dirs
         /\ p \in DOMAIN [Touch(Put(c, p, l), p) EXCEPT !.total = total].dirs
<1> DEFINE put == Put(c, p, l)
           touched == Touch(put, p)
<1>1. Derived(put, c)
  BY PutDerived
<1>2. Derived(touched, put) /\ touched.dirs = put.dirs
  BY <1>1, TouchDerived DEF Derived
<1>3. Derived(touched, c)
  BY <1>1, <1>2, DerivedTwice
<1>4. p \in DOMAIN put.dirs
  BY DEF Put, IsCache
<1> HIDE DEF put, touched
<1>5. /\ [touched EXCEPT !.total = total].dirs = touched.dirs
      /\ IsCache([touched EXCEPT !.total = total])
  BY <1>3 DEF Derived, IsCache
<1>6. Derived([touched EXCEPT !.total = total], c)
  BY <1>3, <1>5 DEF Derived
<1> QED
  BY <1>2, <1>3, <1>4, <1>5, <1>6 DEF put, touched

\* CDirectoryCache::Lookup stores nothing.
LEMMA LookupDerived ==
  ASSUME NEW c, IsCache(c), NEW p
  PROVE  Derived(Lookup(c, p), c) /\ Lookup(c, p).dirs = c.dirs
  BY TouchDerived, Itself DEF Lookup

\* CDirectoryCache::InvalidateFile stores nothing.
LEMMA InvalidateFileDerived ==
  ASSUME NEW c, IsCache(c), NEW p, NEW n \in Names
  PROVE  Derived(InvalidateFile(c, p, n), c)
<1>1. CASE ~Cached(c, p)
  BY <1>1, Itself DEF InvalidateFile
<1>2. CASE Cached(c, p)
  <2> DEFINE marked == Touch(Put(c, p, MarkEntry(c.dirs[p], n)), p)
             dirs == [q \in DOMAIN marked.dirs |->
                        IF q = p \/ IsBelow(q, p) THEN Mark(marked.dirs[q]) ELSE marked.dirs[q]]
  <2>1. p \in DOMAIN c.dirs /\ c.dirs[p] \in Listing
    BY <1>2 DEF Cached, IsCache
  <2>2. Derived(marked, c)
    BY <2>1, MarkEntrySame, ReplacedDerived
  <2>3. InvalidateFile(c, p, n) = IF c.dirs[p].entries[n].kind # "dir" THEN marked
                                  ELSE [marked EXCEPT !.dirs = dirs]
    BY <1>2 DEF InvalidateFile
  <2> HIDE DEF marked
  <2>4. [marked EXCEPT !.dirs = dirs] = [dirs |-> dirs, lru |-> marked.lru, total |-> marked.total]
    BY <2>2 DEF Derived, IsCache
  <2>5. \A q \in DOMAIN marked.dirs : dirs[q] \in Listing /\ Same(dirs[q], marked.dirs[q])
    BY <2>2, MarkSame DEF Derived, IsCache, Same
  <2>6. DOMAIN dirs = DOMAIN marked.dirs
    OBVIOUS
  <2> HIDE DEF dirs
  <2>7. Derived([marked EXCEPT !.dirs = dirs], marked)
    BY <2>2, <2>4, <2>5, <2>6 DEF Derived, IsCache
  <2> QED
    BY <2>2, <2>3, <2>7, DerivedTwice
<1> QED
  BY <1>1, <1>2

\* CDirectoryCache::UpdateFile stores nothing.
LEMMA UpdateFileDerived ==
  ASSUME NEW c, IsCache(c), NEW p, NEW n \in Names, NEW kind \in Kinds
  PROVE  Derived(UpdateFile(c, p, n, kind), c)
<1>1. CASE ~Cached(c, p)
  BY <1>1, Itself DEF UpdateFile
<1>2. CASE Cached(c, p)
  <2> DEFINE l == c.dirs[p]
             added == [Mark(l) EXCEPT !.entries[n] = [kind |-> kind, unsure |-> TRUE]]
             total == Touch(Put(c, p, added), p).total + 1
  <2>1. p \in DOMAIN c.dirs /\ l \in Listing
    BY <1>2 DEF Cached, IsCache
  <2>2. Derived(Touch(Put(c, p, MarkEntry(l, n)), p), c)
    BY <2>1, MarkEntrySame, ReplacedDerived
  <2>3. Mark(l) \in Listing /\ Same(Mark(l), l)
    BY <2>1, MarkSame
  <2>4. added \in Listing /\ Same(added, l)
    BY <2>3, EntrySame DEF Same
  <2>5. Derived([Touch(Put(c, p, added), p) EXCEPT !.total = total], c)
    BY <2>1, <2>4, ReplacedDerived
  <2>6. UpdateFile(c, p, n, kind) =
          IF l.entries[n].kind # "none" \/ kind = "none"
          THEN Touch(Put(c, p, MarkEntry(l, n)), p)
          ELSE [Touch(Put(c, p, added), p) EXCEPT !.total = total]
    BY <1>2 DEF UpdateFile
  <2> QED
    BY <2>2, <2>5, <2>6, Zenon
<1> QED
  BY <1>1, <1>2

\* CDirectoryCache::RemoveFile stores nothing.
LEMMA RemoveFileDerived ==
  ASSUME NEW c, IsCache(c), NEW p, NEW n \in Names
  PROVE  /\ Derived(RemoveFile(c, p, n), c)
         /\ Cached(c, p) => Cached(RemoveFile(c, p, n), p)
<1>1. CASE ~Cached(c, p)
  BY <1>1, Itself DEF RemoveFile
<1>2. CASE Cached(c, p)
  <2> DEFINE l == c.dirs[p]
             removed == [Mark(l) EXCEPT !.entries[n] = NoEntry]
             total == Touch(Put(c, p, removed), p).total - Size(l) + Size(removed)
             after == [Touch(Put(c, p, removed), p) EXCEPT !.total = total]
  <2>1. p \in DOMAIN c.dirs /\ l \in Listing
    BY <1>2 DEF Cached, IsCache
  <2>2. Mark(l) \in Listing /\ Same(Mark(l), l)
    BY <2>1, MarkSame
  <2>3. NoEntry \in [kind : Kinds, unsure : BOOLEAN]
    BY DEF NoEntry, Kinds
  <2>4. removed \in Listing /\ Same(removed, l)
    BY <2>2, <2>3, EntrySame DEF Same
  <2>5. Derived(after, c) /\ p \in DOMAIN after.dirs
    BY <2>1, <2>4, ReplacedDerived
  <2>6. RemoveFile(c, p, n) = after
    BY <1>2 DEF RemoveFile
  <2> QED
    BY <2>5, <2>6, Zenon DEF Cached
<1> QED
  BY <1>1, <1>2

\* CDirectoryCache::RemoveDir stores nothing.
LEMMA RemoveDirDerived ==
  ASSUME NEW c, IsCache(c), NEW p, NEW n \in Names
  PROVE  Derived(RemoveDir(c, p, n), c)
<1> DEFINE erased == Erase(c, {q \in DOMAIN c.dirs : q = Child(p, n) \/ IsBelow(q, Child(p, n))})
<1>1. Derived(erased, c)
  BY EraseDerived
<1>2. Derived(RemoveFile(erased, p, n), erased)
  BY <1>1, RemoveFileDerived DEF Derived
<1>3. RemoveDir(c, p, n) = RemoveFile(erased, p, n)
  BY DEF RemoveDir
<1> QED
  BY <1>1, <1>2, <1>3, DerivedTwice, Zenon

\* CDirectoryCache::Rename stores nothing within one directory.
LEMMA RenameWithinDerived ==
  ASSUME NEW c, IsCache(c), NEW p, Cached(c, p), NEW n \in Names, NEW m \in Names
  PROVE  Derived(RenameWithin(c, p, n, m), c)
<1> DEFINE freed == RemoveFile(c, p, m)
           entry == freed.dirs[p].entries[n]
           once == RemoveDir(freed, p, n)
           twice == RemoveDir(once, p, m)
           file == [kind |-> "file", unsure |-> TRUE]
           first == [Mark(freed.dirs[p]) EXCEPT !.entries[n] = NoEntry]
           moved == [first EXCEPT !.entries[m] = file]
<1>1. Derived(freed, c) /\ Cached(freed, p)
  BY RemoveFileDerived
<1>2. Derived(once, freed)
  BY <1>1, RemoveDirDerived DEF Derived
<1>3. Derived(twice, once)
  BY <1>2, RemoveDirDerived DEF Derived
<1>4. Derived(UpdateFile(twice, p, m, "dir"), twice)
  BY <1>3, UpdateFileDerived DEF Derived, Kinds
<1>5. Derived(UpdateFile(twice, p, m, "dir"), c)
  BY <1>1, <1>2, <1>3, <1>4, DerivedTwice
<1>6. freed.dirs[p] \in Listing /\ p \in DOMAIN freed.dirs
  BY <1>1 DEF Derived, IsCache, Cached
<1>7. Mark(freed.dirs[p]) \in Listing /\ Same(Mark(freed.dirs[p]), freed.dirs[p])
  BY <1>6, MarkSame
<1>8. NoEntry \in [kind : Kinds, unsure : BOOLEAN] /\ file \in [kind : Kinds, unsure : BOOLEAN]
  BY DEF NoEntry, Kinds
<1>9. first \in Listing /\ Same(first, freed.dirs[p])
  BY <1>7, <1>8, EntrySame DEF Same
<1>10. moved \in Listing /\ Same(moved, freed.dirs[p])
  BY <1>8, <1>9, EntrySame, ZenonT(60) DEF Same
<1>11. Derived(Put(freed, p, moved), freed)
  BY <1>1, <1>6, <1>10, PutDerived DEF Derived
<1>12. Derived(Put(freed, p, moved), c)
  BY <1>1, <1>11, DerivedTwice
<1>13. \/ RenameWithin(c, p, n, m) = UpdateFile(twice, p, m, "dir")
       \/ RenameWithin(c, p, n, m) = Put(freed, p, moved)
       \/ RenameWithin(c, p, n, m) = freed
  BY Zenon DEF RenameWithin
<1> QED
  BY <1>1, <1>5, <1>12, <1>13, Zenon

\* The listings of the server are forgotten.
LEMMA EmptyDerived ==
  ASSUME NEW c
  PROVE  Derived(EmptyCache, c)
  BY DEF Derived, IsCache, EmptyCache

\* CDirectoryCache::Rename stores nothing.
LEMMA RenameDerived ==
  ASSUME NEW c, IsCache(c), NEW p, NEW q, NEW n \in Names, NEW m \in Names
  PROVE  Derived(Rename(c, p, n, q, m), c)
<1>1. CASE ~Cached(c, p)
  BY <1>1, EmptyDerived DEF Rename, InvalidateServer
<1>2. CASE Cached(c, p)
  <2> DEFINE seen == Touch(c, p)
  <2>1. Derived(seen, c) /\ Cached(seen, p)
    BY <1>2, TouchDerived DEF Cached
  <2>2. Derived(RenameWithin(seen, p, n, m), seen)
    BY <2>1, RenameWithinDerived DEF Derived
  <2>3. Derived(RemoveDir(seen, p, n), seen) /\ Derived(RemoveFile(seen, p, n), seen)
    BY <2>1, RemoveDirDerived, RemoveFileDerived DEF Derived
  <2>4. /\ Derived(UpdateFile(RemoveDir(seen, p, n), q, m, "dir"), RemoveDir(seen, p, n))
        /\ Derived(UpdateFile(RemoveFile(seen, p, n), q, m, "file"), RemoveFile(seen, p, n))
    BY <2>3, UpdateFileDerived DEF Derived, Kinds
  <2>5. /\ Derived(RenameWithin(seen, p, n, m), c)
        /\ Derived(UpdateFile(RemoveDir(seen, p, n), q, m, "dir"), c)
        /\ Derived(UpdateFile(RemoveFile(seen, p, n), q, m, "file"), c)
    BY <2>1, <2>2, <2>3, <2>4, DerivedTwice
  <2>6. \/ Rename(c, p, n, q, m) = RenameWithin(seen, p, n, m)
        \/ Rename(c, p, n, q, m) = UpdateFile(RemoveDir(seen, p, n), q, m, "dir")
        \/ Rename(c, p, n, q, m) = UpdateFile(RemoveFile(seen, p, n), q, m, "file")
        \/ Rename(c, p, n, q, m) = seen
    BY <1>2, Zenon DEF Rename
  <2> QED
    BY <2>1, <2>5, <2>6, Zenon
<1> QED
  BY <1>1, <1>2

\* CDirectoryCache::Store replaces the listing of its path only, and what Prune
\* erases is gone.
LEMMA StoreFacts ==
  ASSUME NEW c, IsCache(c), NEW p \in Paths, NEW l \in Listing
  PROVE  /\ IsCache(Store(c, p, l))
         /\ \A x \in DOMAIN Store(c, p, l).dirs :
              \/ x = p /\ Same(Store(c, p, l).dirs[x], l)
              \/ x # p /\ x \in DOMAIN c.dirs /\ Same(Store(c, p, l).dirs[x], c.dirs[x])
<1> DEFINE put == Put(c, p, l)
           touched == Touch(put, p)
           grown == [touched EXCEPT !.total = touched.total + Size(l)]
           replaced == [touched EXCEPT !.total = touched.total + Size(l) - Size(c.dirs[p])]
<1>1. put = [dirs |-> [q \in DOMAIN c.dirs \cup {p} |-> IF q = p THEN l ELSE c.dirs[q]],
             lru |-> c.lru, total |-> c.total]
  BY DEF Put, IsCache
<1>2. IsCache(put)
  BY <1>1 DEF IsCache
<1>3. \A x \in DOMAIN put.dirs : \/ x = p /\ Same(put.dirs[x], l)
                                 \/ x # p /\ x \in DOMAIN c.dirs /\ Same(put.dirs[x], c.dirs[x])
  BY <1>1 DEF Same
<1>4. IsCache(touched) /\ touched.dirs = put.dirs
  BY <1>2, TouchDerived DEF Derived
<1> HIDE DEF put, touched
<1>5. /\ IsCache(grown) /\ grown.dirs = put.dirs
      /\ IsCache(replaced) /\ replaced.dirs = put.dirs
  BY <1>4 DEF IsCache
<1> HIDE DEF grown, replaced
<1>6. \A k : Derived(Erase(grown, k), grown)
  BY <1>5, EraseDerived
<1>7. PICK gone : Prune(grown) = Erase(grown, gone)
  BY Zenon DEF Prune
<1>8. Store(c, p, l) = IF Cached(c, p) THEN replaced ELSE Prune(grown)
  BY Zenon DEF Store, grown, replaced, touched, put
<1>9. CASE Cached(c, p)
  BY <1>3, <1>5, <1>8, <1>9
<1>10. CASE ~Cached(c, p)
  <2>1. Derived(Store(c, p, l), grown)
    BY <1>6, <1>7, <1>8, <1>10
  <2> QED
    BY <1>3, <1>5, <2>1 DEF Derived, Same
<1> QED
  BY <1>9, <1>10

\* What commands are.
LEMMA CommandFacts ==
  ASSUME NEW c \in Commands
  PROVE  /\ c.path \in Paths /\ c.topath \in Paths /\ c.name \in Names /\ c.toname \in Names
         /\ c.kind \in {"list", "refresh", "delete", "rmdir", "mkdir", "upload", "chmod",
                        "raw", "rename"}
  BY CommandsAssumption

\* What the cache is told before a command is sent stores nothing.
LEMMA AnnouncedDerived ==
  ASSUME IsCache(cache), NEW c \in Commands
  PROVE  Derived(Announced(c), cache)
<1>1. c.name \in Names /\ c.toname \in Names
  BY CommandFacts
<1> DEFINE first == InvalidateFile(cache, c.path, c.name)
<1>2. Derived(first, cache)
  BY <1>1, InvalidateFileDerived
<1>3. Derived(InvalidateFile(first, c.topath, c.toname), first)
  BY <1>1, <1>2, InvalidateFileDerived DEF Derived
<1>4. Derived(InvalidateFile(first, c.topath, c.toname), cache)
  BY <1>2, <1>3, DerivedTwice
<1>5. Derived(EmptyCache, cache) /\ Derived(cache, cache)
  BY EmptyDerived, Itself
<1>6. Announced(c) \in {first, InvalidateFile(first, c.topath, c.toname), EmptyCache, cache}
  BY Zenon DEF Announced, SendDelete, SendRemoveDir, SendRawCommand, SendRename, InvalidateServer
<1> QED
  BY <1>2, <1>4, <1>5, <1>6, Zenon

\* What the cache is told when a command was answered stores nothing.
LEMMA ToldDerived ==
  ASSUME IsCache(cache), NEW c \in Commands, NEW ok, NEW exists
  PROVE  Derived(Told(c, ok, exists), cache)
<1>1. c.name \in Names /\ c.toname \in Names
  BY CommandFacts
<1>2. /\ Derived(RemoveFile(cache, c.path, c.name), cache)
      /\ Derived(RemoveDir(cache, c.path, c.name), cache)
      /\ Derived(Rename(cache, c.path, c.name, c.topath, c.toname), cache)
      /\ Derived(Lookup(cache, c.path), cache)
      /\ Derived(cache, cache)
  BY <1>1, RemoveFileDerived, RemoveDirDerived, RenameDerived, LookupDerived, Itself
<1>3. \A kind \in Kinds : Derived(UpdateFile(cache, c.path, c.name, kind), cache)
  BY <1>1, UpdateFileDerived
<1>4. /\ Derived(UpdateFile(cache, c.path, c.name, "none"), cache)
      /\ Derived(UpdateFile(cache, c.path, c.name, "dir"), cache)
      /\ Derived(UpdateFile(cache, c.path, c.name, "file"), cache)
  BY <1>3 DEF Kinds
<1>5. /\ Derived(DeleteDone(c, ok), cache) /\ Derived(RemoveDirDone(c, ok), cache)
      /\ Derived(ChmodDone(c, ok), cache) /\ Derived(RenameDone(c, ok), cache)
      /\ Derived(MkdirDone(c, ok, exists), cache) /\ Derived(UploadDone(c, ok), cache)
  BY <1>2, <1>4, Zenon DEF DeleteDone, RemoveDirDone, ChmodDone, RenameDone, MkdirDone, UploadDone
<1>6. Told(c, ok, exists) \in {DeleteDone(c, ok), RemoveDirDone(c, ok), ChmodDone(c, ok),
                               RenameDone(c, ok), MkdirDone(c, ok, exists), UploadDone(c, ok),
                               cache}
  BY Zenon DEF Told
<1> QED
  BY <1>2, <1>5, <1>6, Zenon

\* All listings change at once.
LEMMA EachFacts ==
  ASSUME NEW c, IsCache(c), NEW dirs, DOMAIN dirs = DOMAIN c.dirs,
         \A p \in DOMAIN c.dirs : dirs[p] \in Listing
  PROVE  IsCache([c EXCEPT !.dirs = dirs]) /\ [c EXCEPT !.dirs = dirs].dirs = dirs
<1>1. [c EXCEPT !.dirs = dirs] = [dirs |-> dirs, lru |-> c.lru, total |-> c.total]
  BY DEF IsCache
<1> QED
  BY <1>1 DEF IsCache

\* All listings change at once, but not when they were retrieved.
LEMMA EachDerived ==
  ASSUME NEW c, IsCache(c), NEW dirs, DOMAIN dirs = DOMAIN c.dirs,
         \A p \in DOMAIN c.dirs : dirs[p] \in Listing /\ Same(dirs[p], c.dirs[p])
  PROVE  Derived([c EXCEPT !.dirs = dirs], c)
  BY EachFacts DEF Derived

-----------------------------------------------------------------------------
(* The inductive invariant.                                               *)

\* Operations: before the reply, and after a reply that is no listing, one that
\* is not parsed, and one that is.
Pending == [step : {"ready", "waiting", "sent"}, cmd : Commands,
            rival : Engines \cup {Nobody}, refresh : BOOLEAN]
Answered == [step : {"replied"}, cmd : Commands, refresh : BOOLEAN,
             rival : Engines \cup {Nobody}, ok : BOOLEAN]
Retrieved == [step : {"replied"}, cmd : Commands, refresh : BOOLEAN,
              rival : Engines \cup {Nobody}, ok : {TRUE},
              listing : [kinds : [Names -> Kinds], seen : SUBSET Engines]]
Parsed == [step : {"parsed"}, cmd : Commands, refresh : BOOLEAN,
           rival : Engines \cup {Nobody},
           listing : [entries : Entries, for : SUBSET Engines, seen : SUBSET Engines]]

Operation(o) ==
  \/ o = Idle
  \/ o \in Pending
  \/ o \in Answered /\ ~(o.cmd.kind \in Listings /\ o.ok)
  \/ o \in Retrieved /\ o.cmd.kind \in Listings
  \/ o \in Parsed /\ o.cmd.kind \in Listings

\* The state has its types; a command that is under way for an operation is
\* the operation's.
Typed ==
  /\ server \in [Paths -> [Names -> Kinds]]
  /\ IsCache(cache)
  /\ op = [e \in Engines |-> op[e]]
  /\ \A e \in Engines : Operation(op[e])
  /\ wire = [e \in Engines |-> wire[e]]
  /\ \A e \in Engines : /\ wire[e] = Idle \/ wire[e] \in [cmd : Commands, covered : BOOLEAN]
                        /\ op[e].step = "sent" => wire[e].cmd = op[e].cmd

\* The lock that a command needs, and the operations that have it for sure.
Wants(c) ==
  [reason |-> IF c.kind = "mkdir" THEN "mkdir" ELSE "list",
   path |-> IF c.kind = "mkdir" THEN Child(c.path, c.name) ELSE c.path, inclusive |-> FALSE]

Needs(o) ==
  \/ o.step = "waiting"
  \/ o.step \in {"sent", "replied", "parsed"} /\ o.cmd.kind \in Listings

\* The locks that an engine may have for its command.
Lock(e, c) == [socket : {e}, req : {Wants(c)}, granted : BOOLEAN]

\* The locks k that the operations o have.
Held(k, o) ==
  /\ DOMAIN k \subseteq Engines
  /\ \A e \in DOMAIN k :
       /\ k[e] \in Lock(e, o[e].cmd)
       /\ o[e].step # "idle" /\ (k[e].granted <=> o[e].step # "waiting")
  /\ \A e \in Engines : Needs(o[e]) => e \in DOMAIN k
  /\ \A e, f \in DOMAIN k : k[e].granted /\ k[f].granted /\ e # f => k[e].req # k[f].req

\* An operation that waits for the lock to list a directory.
Awaits(o) == o.step = "waiting" /\ o.cmd.kind \in Listings

\* Engine e, whose operation is o, gets to see no listing that it must not take.
Fresh(e, o, ops, dirs) ==
  LET p == o.cmd.path
  IN /\ p \in DOMAIN dirs /\ e \in dirs[p].for => e \in dirs[p].seen \/ dirs[p].by = o.rival
     /\ \A i \in Engines :
          /\ ops[i].step = "parsed" /\ ops[i].cmd.path = p /\ e \in ops[i].listing.for
               => e \in ops[i].listing.seen \/ i = o.rival
          /\ ops[i].step = "replied" /\ ops[i].cmd.kind \in Listings /\ ops[i].ok
             /\ ops[i].cmd.path = p
               => e \in ops[i].listing.seen \/ i = o.rival

\* So do all engines that wait.
AllFresh(ops, dirs) == \A e \in Engines : Awaits(ops[e]) => Fresh(e, ops[e], ops, dirs)

\* The inductive invariant: types, locks that exclude one another, and listings
\* that are offered only to engines that may take them.
IInv == Typed /\ Held(locks, op) /\ AllFresh(op, cache.dirs)

-----------------------------------------------------------------------------
\* An operation that is neither about to store a listing nor waits for one.
Quiet(o) ==
  /\ ~Awaits(o) /\ o.step # "parsed"
  /\ ~(o.step = "replied" /\ o.cmd.kind \in Listings /\ o.ok)

\* Engine e comes to do what matters to no engine that waits for a listing.
LEMMA QuietFresh ==
  ASSUME NEW ops, NEW ops2, NEW c, NEW d, NEW e \in Engines,
         AllFresh(ops, c.dirs), Derived(d, c), Quiet(ops2[e]),
         \A i \in Engines \ {e} : ops2[i] = ops[i]
  PROVE  AllFresh(ops2, d.dirs)
<1> SUFFICES ASSUME NEW a \in Engines, Awaits(ops2[a])
             PROVE  Fresh(a, ops2[a], ops2, d.dirs)
  BY DEF AllFresh
<1>1. a # e
  BY DEF Quiet
<1>2. Fresh(a, ops[a], ops, c.dirs) /\ ops2[a] = ops[a]
  BY <1>1 DEF AllFresh
<1> QED
  BY <1>2 DEF Fresh, Derived, Same, Quiet

\* No operation changes, and the cache gets no new listing.
LEMMA SameFresh ==
  ASSUME NEW ops, NEW c, NEW d, AllFresh(ops, c.dirs), Derived(d, c)
  PROVE  AllFresh(ops, d.dirs)
  BY DEF AllFresh, Fresh, Derived, Same

\* The locks stay, and the operation of e has none or still wants its lock.
LEMMA HeldKept ==
  ASSUME NEW k, NEW o, NEW o2, NEW e \in Engines, Held(k, o),
         \A i \in Engines \ {e} : o2[i] = o[i],
         \/ e \notin DOMAIN k /\ ~Needs(o2[e])
         \/ /\ o2[e].cmd = o[e].cmd /\ o[e].step # "waiting"
            /\ o2[e].step \notin {"idle", "waiting"}
            /\ Needs(o2[e]) => Needs(o[e])
  PROVE  Held(k, o2)
  BY DEF Held

\* The operation of e ends, and its lock is released.
LEMMA HeldEnds ==
  ASSUME NEW k, NEW o, NEW o2, NEW e \in Engines, Held(k, o),
         \A i \in Engines \ {e} : o2[i] = o[i], o2[e] = Idle
  PROVE  Held([i \in DOMAIN k \ {e} |-> k[i]], o2)
<1> DEFINE m == [i \in DOMAIN k \ {e} |-> k[i]]
<1>1. DOMAIN m = DOMAIN k \ {e} /\ \A i \in DOMAIN m : m[i] = k[i]
  OBVIOUS
<1>2. Idle.step = "idle"
  BY DEF Idle
<1>3. ~Needs(o2[e])
  BY <1>2 DEF Needs
<1> HIDE DEF m
<1> QED
  BY <1>1, <1>3 DEF Held

\* The lock that an engine requests is the one its command needs.
LEMMA RequestWants ==
  ASSUME NEW e
  PROVE  Request(e) = Wants(op[e].cmd)
  BY Zenon DEF Request, Wants

\* A lock that is granted is not held by another engine.
LEMMA UncontendedFacts ==
  ASSUME Held(locks, op), NEW e \in Engines, NEW r, ~OpLocks!Contended(e, r)
  PROVE  \A i \in DOMAIN locks \ {e} : locks[i].granted => locks[i].req # r
<1> SUFFICES ASSUME NEW i \in DOMAIN locks \ {e}, locks[i].granted, locks[i].req = r
             PROVE  FALSE
  OBVIOUS
<1>1. i \in Engines /\ locks[i].socket = i
  BY DEF Held, Lock
<1>2. OpLocks!Conflict(locks[i].req, r)
  BY DEF OpLocks!Conflict
<1> QED
  <2>1. [x \in Engines |-> Nobody][i] = [x \in Engines |-> Nobody][e]
    BY <1>1
  <2> QED
    BY <1>1, <1>2, <2>1, Zenon DEF OpLocks!Contended

\* Lock l is added.
LEMMA HeldRequested ==
  ASSUME Held(locks, op), NEW e \in Engines, NEW l \in Lock(e, op[e].cmd), NEW o2,
         e \notin DOMAIN locks,
         l.granted => ~OpLocks!Contended(e, Wants(op[e].cmd)),
         locks' = [i \in DOMAIN locks \cup {e} |-> IF i = e THEN l ELSE locks[i]],
         \A i \in Engines \ {e} : o2[i].step = op[i].step /\ o2[i].cmd = op[i].cmd,
         o2[e].cmd = op[e].cmd, o2[e].step # "idle", l.granted <=> o2[e].step # "waiting"
  PROVE  Held(locks', o2)
<1>1. DOMAIN locks' = DOMAIN locks \cup {e} /\ locks'[e] = l
      /\ \A i \in DOMAIN locks : i # e /\ locks'[i] = locks[i]
  OBVIOUS
<1>2. l \in Lock(e, o2[e].cmd) /\ l.req = Wants(op[e].cmd)
  BY DEF Lock
<1>3. l.granted => \A i \in DOMAIN locks : locks[i].granted => locks[i].req # l.req
  BY <1>2, UncontendedFacts
<1>4. \A i \in DOMAIN locks : i \in Engines /\ o2[i].cmd = op[i].cmd
  BY <1>1 DEF Held
<1>5. \A i \in Engines \ {e} : Needs(o2[i]) => Needs(op[i])
  BY DEF Needs
<1> QED
  BY <1>1, <1>2, <1>3, <1>4, <1>5 DEF Held

\* What a request adds to the locks.
LEMMA RequestFacts ==
  ASSUME NEW e \in Engines, NEW granted \in BOOLEAN,
         OpLocks!Request(e, Request(e), e, granted)
  PROVE  \E l \in Lock(e, op[e].cmd) :
           /\ l.granted = granted
           /\ e \notin DOMAIN locks
           /\ l.granted => ~OpLocks!Contended(e, Wants(op[e].cmd))
           /\ locks' = [i \in DOMAIN locks \cup {e} |-> IF i = e THEN l ELSE locks[i]]
<1> DEFINE l == [socket |-> e, req |-> Wants(op[e].cmd), granted |-> granted]
<1>1. /\ e \notin DOMAIN locks
      /\ granted => ~OpLocks!Contended(e, Wants(op[e].cmd))
      /\ locks' = [i \in DOMAIN locks \cup {e} |-> IF i = e THEN l ELSE locks[i]]
  BY RequestWants DEF OpLocks!Request
<1>2. l \in Lock(e, op[e].cmd) /\ l.granted = granted
  BY DEF Lock
<1> HIDE DEF l
<1> QED
  BY <1>1, <1>2

\* The lock that e waited for is granted.
LEMMA HeldGranted ==
  ASSUME Held(locks, op), NEW e \in Engines, NEW o2, OpLocks!Grant(e, {e}),
         \A i \in Engines \ {e} : o2[i] = op[i],
         o2[e].cmd = op[e].cmd, o2[e].step \notin {"idle", "waiting"}
  PROVE  Held(locks', o2)
<1>1. e \in DOMAIN locks /\ ~OpLocks!Contended(e, locks[e].req)
  BY DEF OpLocks!Grant
<1>2. locks' = [i \in DOMAIN locks |-> IF i = e THEN [locks[i] EXCEPT !.granted = TRUE] ELSE locks[i]]
  BY DEF OpLocks!Grant
<1>3. locks[e] \in Lock(e, o2[e].cmd)
  BY <1>1 DEF Held
<1>4. \A x : x \in Lock(e, o2[e].cmd) =>
              LET y == [x EXCEPT !.granted = TRUE]
              IN y \in Lock(e, o2[e].cmd) /\ y.granted = TRUE /\ y.req = x.req
  BY DEF Lock
<1>5. /\ DOMAIN locks' = DOMAIN locks
      /\ locks'[e] = [locks[e] EXCEPT !.granted = TRUE]
      /\ \A i \in DOMAIN locks : i # e => locks'[i] = locks[i]
  BY <1>1, <1>2
<1>6. /\ locks'[e] \in Lock(e, o2[e].cmd)
      /\ locks'[e].granted = TRUE /\ locks'[e].req = locks[e].req
  BY <1>3, <1>4, <1>5
<1>7. \A i \in DOMAIN locks \ {e} : locks[i].granted => locks[i].req # locks[e].req
  BY <1>1, UncontendedFacts
<1>8. \A i \in DOMAIN locks : i \in Engines /\ (i # e => o2[i] = op[i] /\ locks'[i] = locks[i])
  BY <1>5 DEF Held
<1>9. \A i \in DOMAIN locks' :
        /\ locks'[i] \in Lock(i, o2[i].cmd)
        /\ o2[i].step # "idle" /\ (locks'[i].granted <=> o2[i].step # "waiting")
  <2> SUFFICES ASSUME NEW i \in DOMAIN locks
               PROVE  /\ locks'[i] \in Lock(i, o2[i].cmd)
                      /\ o2[i].step # "idle" /\ (locks'[i].granted <=> o2[i].step # "waiting")
    BY <1>5
  <2>1. CASE i = e
    BY <1>6, <2>1
  <2>2. CASE i # e
    BY <1>8, <2>2 DEF Held
  <2> QED
    BY <2>1, <2>2
<1>10. \A i \in Engines : Needs(o2[i]) => i \in DOMAIN locks'
  BY <1>1, <1>5 DEF Held
<1>11. \A i, f \in DOMAIN locks' :
         locks'[i].granted /\ locks'[f].granted /\ i # f => locks'[i].req # locks'[f].req
  <2> SUFFICES ASSUME NEW i \in DOMAIN locks, NEW f \in DOMAIN locks,
                      locks'[i].granted, locks'[f].granted, i # f
               PROVE  locks'[i].req # locks'[f].req
    BY <1>5
  <2>1. CASE i = e
    <3>1. locks'[f] = locks[f] /\ locks'[i].req = locks[e].req
      BY <1>6, <1>8, <2>1
    <3>2. locks[f].granted /\ f \in DOMAIN locks \ {e}
      BY <2>1, <3>1
    <3>3. locks[f].req # locks[e].req
      BY <1>7, <3>2, Zenon
    <3> QED
      BY <3>1, <3>3, Zenon
  <2>2. CASE f = e
    <3>1. locks'[i] = locks[i] /\ locks'[f].req = locks[e].req
      BY <1>6, <1>8, <2>2
    <3>2. locks[i].granted /\ i \in DOMAIN locks \ {e}
      BY <2>2, <3>1
    <3>3. locks[i].req # locks[e].req
      BY <1>7, <3>2, Zenon
    <3> QED
      BY <3>1, <3>3, Zenon
  <2>3. CASE i # e /\ f # e
    BY <1>5, <2>3 DEF Held
  <2> QED
    BY <2>1, <2>2, <2>3
<1> QED
  BY <1>5, <1>8, <1>9, <1>10, <1>11 DEF Held

-----------------------------------------------------------------------------
\* What the step of an operation says about it.
LEMMA StepFacts ==
  ASSUME NEW o, Operation(o)
  PROVE  /\ o.step = "idle" => o = Idle
         /\ o.step \in {"ready", "waiting", "sent"} => o \in Pending
         /\ o.step = "replied" =>
              \/ o \in Answered /\ ~(o.cmd.kind \in Listings /\ o.ok)
              \/ o \in Retrieved /\ o.cmd.kind \in Listings /\ o.ok
         /\ o.step = "parsed" => o \in Parsed /\ o.cmd.kind \in Listings
         /\ o # Idle => o.step # "idle" /\ o.cmd \in Commands
         /\ o.step \in {"idle", "ready", "waiting", "sent", "replied", "parsed"}
<1>1. CASE o = Idle
  BY <1>1 DEF Idle
<1>2. CASE o \in Pending
  BY <1>2 DEF Pending
<1>3. CASE o \in Answered /\ ~(o.cmd.kind \in Listings /\ o.ok)
  BY <1>3 DEF Answered
<1>4. CASE o \in Retrieved /\ o.cmd.kind \in Listings
  BY <1>4 DEF Retrieved
<1>5. CASE o \in Parsed /\ o.cmd.kind \in Listings
  BY <1>5 DEF Parsed
<1> QED
  BY <1>1, <1>2, <1>3, <1>4, <1>5, Zenon DEF Operation

\* An operation goes on to another step.
LEMMA PendingSet ==
  ASSUME NEW o \in Pending, NEW step \in {"ready", "waiting", "sent"}
  PROVE  LET x == [o EXCEPT !.step = step]
         IN /\ x \in Pending /\ x.step = step /\ x.cmd = o.cmd /\ x.rival = o.rival
            /\ Operation(x)
  BY DEF Pending, Operation

\* One engine e moves, to the operation x.
LEMMA OneMoves ==
  ASSUME IInv, NEW e \in Engines, NEW x, Operation(x), Quiet(x),
         op' = [op EXCEPT ![e] = x],
         server' \in [Paths -> [Names -> Kinds]],
         Derived(cache', cache),
         wire' = [i \in Engines |-> wire'[i]],
         \A i \in Engines \ {e} : wire'[i] = wire[i],
         wire'[e] = Idle \/ wire'[e] \in [cmd : Commands, covered : BOOLEAN],
         x.step = "sent" => wire'[e].cmd = x.cmd,
         Held(locks', op')
  PROVE  IInv'
<1>1. /\ op' = [i \in Engines |-> op'[i]] /\ op'[e] = x
      /\ \A i \in Engines \ {e} : op'[i] = op[i]
  BY DEF IInv, Typed
<1>2. \A i \in Engines : Operation(op'[i])
  BY <1>1 DEF IInv, Typed
<1>3. Typed'
  BY <1>1, <1>2 DEF IInv, Typed, Derived
<1>4. AllFresh(op', cache'.dirs)
  BY <1>1, QuietFresh DEF IInv
<1> QED
  BY <1>3, <1>4 DEF IInv

\* An engine without an operation waits for nothing and needs no lock.
LEMMA Idles ==
  Operation(Idle) /\ Quiet(Idle) /\ Idle.step = "idle" /\ ~Needs(Idle)
  BY DEF Operation, Quiet, Idle, Awaits, Needs

\* No command is sent or executed.
LEMMA WireStays ==
  ASSUME IInv, UNCHANGED wire, NEW e \in Engines
  PROVE  /\ wire' = [i \in Engines |-> wire'[i]]
         /\ \A i \in Engines \ {e} : wire'[i] = wire[i]
         /\ wire'[e] = Idle \/ wire'[e] \in [cmd : Commands, covered : BOOLEAN]
         /\ op[e].step = "sent" => wire'[e].cmd = op[e].cmd
  BY DEF IInv, Typed

\* A command given to an engine (CFileZillaEnginePrivate::List) keeps the invariant.
LEMMA StartInv ==
  ASSUME IInv, NEW e \in Engines, NEW c \in Commands, Start(e, c)
  PROVE  IInv'
<1> DEFINE known == c.kind = "list" /\ Found(cache, c.path, TRUE)
           stale == known /\ (cache.dirs[c.path].old \/ cache.dirs[c.path].unsure)
           ready == [step |-> "ready", cmd |-> c, rival |-> Nobody,
                     refresh |-> c.kind = "refresh" \/ stale]
           x == IF known /\ ~stale THEN Idle ELSE ready
<1>1. /\ op[e] = Idle
      /\ cache' = IF c.kind = "list" THEN Lookup(cache, c.path) ELSE cache
      /\ op' = [op EXCEPT ![e] = x]
      /\ UNCHANGED <<server, wire, locks, expired>>
  BY Zenon DEF Start
<1>2. ready \in Pending
  BY DEF Pending
<1>3. ready.step = "ready"
  OBVIOUS
<1> HIDE DEF ready, known, stale
<1>4. Operation(x) /\ Quiet(x) /\ ~Needs(x) /\ x.step # "sent"
  BY <1>2, <1>3, Idles DEF Operation, Quiet, Awaits, Needs
<1> HIDE DEF x
<1>5. Derived(cache', cache)
  BY <1>1, LookupDerived, Itself DEF IInv, Typed
<1>6. e \notin DOMAIN locks
  BY <1>1, Idles DEF IInv, Held
<1>7. op'[e] = x /\ \A i \in Engines \ {e} : op'[i] = op[i]
  BY <1>1 DEF IInv, Typed
<1>8. Held(locks', op')
  <2>1. Held(locks, op) /\ locks' = locks /\ ~Needs(op'[e])
    BY <1>1, <1>4, <1>7 DEF IInv
  <2>2. Held(locks, op')
    BY <1>6, <1>7, <2>1, HeldKept, Zenon
  <2> QED
    BY <2>1, <2>2
<1>9. server' \in [Paths -> [Names -> Kinds]]
  BY <1>1 DEF IInv, Typed
<1> QED
  BY <1>1, <1>4, <1>5, <1>8, <1>9, WireStays, OneMoves

\* The operation of e ends.
LEMMA EndInv ==
  ASSUME IInv, NEW e \in Engines, NEW c, End(e, c), Derived(c, cache),
         UNCHANGED <<server, wire>>
  PROVE  IInv'
<1>1. op' = [op EXCEPT ![e] = Idle] /\ cache' = c /\ locks' = Unlocked(e)
  BY Zenon DEF End
<1>2. op'[e] = Idle /\ \A i \in Engines \ {e} : op'[i] = op[i]
  BY <1>1 DEF IInv, Typed
<1>3. Held(Unlocked(e), op')
  BY <1>2, HeldEnds DEF IInv, Unlocked
<1>4. Held(locks', op')
  BY <1>1, <1>3
<1>5. server' \in [Paths -> [Names -> Kinds]] /\ Derived(cache', cache) /\ wire' = wire
  BY <1>1 DEF IInv, Typed
<1>6. Operation(Idle) /\ Quiet(Idle) /\ Idle.step # "sent"
  BY Idles
<1> QED
  BY <1>1, <1>4, <1>5, <1>6, WireStays, OneMoves

\* Locking the directory to be created keeps the invariant.
LEMMA LockMkdirInv ==
  ASSUME IInv, NEW e \in Engines, LockMkdir(e)
  PROVE  IInv'
<1> DEFINE granted == ~OpLocks!Contended(e, Request(e))
           x == IF granted THEN op[e] ELSE [op[e] EXCEPT !.step = "waiting"]
<1>1. /\ op[e].step = "ready" /\ op[e].cmd.kind = "mkdir"
      /\ OpLocks!Request(e, Request(e), e, granted)
      /\ op' = IF granted THEN op ELSE [op EXCEPT ![e].step = "waiting"]
      /\ UNCHANGED <<server, cache, wire>>
  BY Zenon DEF LockMkdir
<1>2. granted \in BOOLEAN
  BY Zenon
<1> HIDE DEF granted
<1>3. op[e] \in Pending /\ Operation(op[e])
  BY <1>1, StepFacts DEF IInv, Typed
<1>4. /\ x \in Pending /\ Operation(x) /\ x.cmd = op[e].cmd
      /\ x.step = IF granted THEN "ready" ELSE "waiting"
  BY <1>1, <1>3, PendingSet, ZenonT(60)
<1>5. op' = [op EXCEPT ![e] = x]
  BY <1>1 DEF IInv, Typed
<1> HIDE DEF x
<1>6. op'[e] = x /\ \A i \in Engines \ {e} : op'[i] = op[i]
  BY <1>5 DEF IInv, Typed
<1>7. Quiet(x) /\ x.step # "sent"
  BY <1>1, <1>4 DEF Quiet, Awaits, Listings
<1>8. Held(locks', op')
  <2>1. /\ op'[e].cmd = op[e].cmd /\ op'[e].step # "idle"
        /\ granted <=> op'[e].step # "waiting"
    BY <1>2, <1>4, <1>6
  <2>2. \A i \in Engines \ {e} : op'[i].step = op[i].step /\ op'[i].cmd = op[i].cmd
    BY <1>6
  <2>3. PICK l \in Lock(e, op[e].cmd) :
          /\ l.granted = granted
          /\ e \notin DOMAIN locks
          /\ l.granted => ~OpLocks!Contended(e, Wants(op[e].cmd))
          /\ locks' = [i \in DOMAIN locks \cup {e} |-> IF i = e THEN l ELSE locks[i]]
    BY <1>1, <1>2, RequestFacts
  <2>4. l.granted <=> op'[e].step # "waiting"
    BY <1>2, <2>1, <2>3
  <2> QED
    BY <2>1, <2>2, <2>3, <2>4, HeldRequested DEF IInv
<1>9. server' \in [Paths -> [Names -> Kinds]] /\ Derived(cache', cache) /\ wire' = wire
  BY <1>1, Itself DEF IInv, Typed
<1> QED
  BY <1>4, <1>5, <1>7, <1>8, <1>9, WireStays, OneMoves

\* Obtaining the lock of the directory to be created keeps the invariant.
LEMMA ObtainMkdirInv ==
  ASSUME IInv, NEW e \in Engines, ObtainMkdir(e)
  PROVE  IInv'
<1> DEFINE x == [op[e] EXCEPT !.step = "ready"]
<1>1. /\ op[e].step = "waiting" /\ op[e].cmd.kind = "mkdir"
      /\ OpLocks!Grant(e, {e})
      /\ op' = [op EXCEPT ![e].step = "ready"]
      /\ UNCHANGED <<server, cache, wire>>
  BY Zenon DEF ObtainMkdir
<1>2. op[e] \in Pending
  BY <1>1, StepFacts DEF IInv, Typed
<1>3. x \in Pending /\ Operation(x) /\ x.cmd = op[e].cmd /\ x.step = "ready"
  BY <1>2, PendingSet
<1>4. op' = [op EXCEPT ![e] = x]
  BY <1>1 DEF IInv, Typed
<1> HIDE DEF x
<1>5. op'[e] = x /\ \A i \in Engines \ {e} : op'[i] = op[i]
  BY <1>4 DEF IInv, Typed
<1>6. Quiet(x) /\ x.step # "sent"
  BY <1>3 DEF Quiet, Awaits, Listings
<1>7. Held(locks', op')
  BY <1>1, <1>3, <1>5, HeldGranted DEF IInv
<1>8. server' \in [Paths -> [Names -> Kinds]] /\ Derived(cache', cache) /\ wire' = wire
  BY <1>1, Itself DEF IInv, Typed
<1> QED
  BY <1>3, <1>4, <1>6, <1>7, <1>8, WireStays, OneMoves

\* Sending a command that changes a directory keeps the invariant.
LEMMA SendChangeInv ==
  ASSUME IInv, NEW e \in Engines, SendChange(e)
  PROVE  IInv'
<1> DEFINE c == op[e].cmd
           x == [op[e] EXCEPT !.step = "sent"]
           told == Announced(c)
           dirs == [p \in DOMAIN told.dirs |-> [told.dirs[p] EXCEPT !.during = @ \ {e}]]
           y == [cmd |-> c, covered |-> /\ Cached(cache, c.path)
                                        /\ cache.dirs[c.path].entries[c.name].kind = "dir"]
<1>1. /\ op[e].step = "ready" /\ op[e].cmd.kind \notin Listings
      /\ cache' = [told EXCEPT !.dirs = dirs]
      /\ wire' = [wire EXCEPT ![e] = y]
      /\ op' = [op EXCEPT ![e].step = "sent"]
      /\ UNCHANGED <<server, locks>>
  BY ZenonT(60) DEF SendChange, Each
<1>2. op[e] \in Pending
  BY <1>1, StepFacts DEF IInv, Typed
<1>3. x \in Pending /\ Operation(x) /\ x.cmd = c /\ x.step = "sent"
  BY <1>2, PendingSet
<1>4. op' = [op EXCEPT ![e] = x]
  BY <1>1 DEF IInv, Typed
<1>5. c \in Commands
  BY <1>2 DEF Pending
<1>6. Derived(told, cache)
  BY <1>5, AnnouncedDerived DEF IInv, Typed
<1>7. y \in [cmd : Commands, covered : BOOLEAN] /\ y.cmd = c
  BY <1>5
<1> HIDE DEF x, told, y
<1>8. op'[e] = x /\ \A i \in Engines \ {e} : op'[i] = op[i]
  BY <1>4 DEF IInv, Typed
<1>9. \A l \in Listing : LET m == [l EXCEPT !.during = @ \ {e}] IN m \in Listing /\ Same(m, l)
  BY DEF Listing, Same
<1>10. Derived(cache', told)
  <2>1. DOMAIN dirs = DOMAIN told.dirs
    OBVIOUS
  <2>2. \A p \in DOMAIN told.dirs : dirs[p] \in Listing /\ Same(dirs[p], told.dirs[p])
    BY <1>6, <1>9 DEF Derived, IsCache
  <2> HIDE DEF dirs
  <2> QED
    BY <1>1, <1>6, <2>1, <2>2, EachDerived DEF Derived
<1>11. Derived(cache', cache)
  BY <1>6, <1>10, DerivedTwice
<1>12. Quiet(x) /\ ~Needs(x)
  BY <1>1, <1>3 DEF Quiet, Awaits, Needs
<1>13. Held(locks', op')
  <2>1. Held(locks, op) /\ locks' = locks /\ op'[e].cmd = op[e].cmd /\ op[e].step # "waiting"
    BY <1>1, <1>3, <1>8 DEF IInv
  <2>2. op'[e].step \notin {"idle", "waiting"} /\ ~Needs(op'[e])
    BY <1>3, <1>8, <1>12
  <2>3. Held(locks, op')
    BY <1>8, <2>1, <2>2, HeldKept, Zenon
  <2> QED
    BY <2>1, <2>3
<1>14. /\ wire' = [i \in Engines |-> wire'[i]] /\ wire'[e] = y
       /\ \A i \in Engines \ {e} : wire'[i] = wire[i]
  BY <1>1 DEF IInv, Typed
<1>15. server' \in [Paths -> [Names -> Kinds]]
  BY <1>1 DEF IInv, Typed
<1> HIDE DEF c, dirs
<1> QED
  BY <1>3, <1>4, <1>7, <1>11, <1>12, <1>13, <1>14, <1>15, OneMoves

\* No operation moves.
LEMMA NoneMoves ==
  ASSUME IInv, UNCHANGED <<op, locks>>,
         server' \in [Paths -> [Names -> Kinds]],
         Derived(cache', cache),
         wire' = [i \in Engines |-> wire'[i]],
         \A i \in Engines : /\ wire'[i] = Idle \/ wire'[i] \in [cmd : Commands, covered : BOOLEAN]
                            /\ op[i].step = "sent" => wire'[i].cmd = op[i].cmd
  PROVE  IInv'
<1>1. op' = op /\ locks' = locks
  OBVIOUS
<1>2. Typed'
  BY <1>1 DEF IInv, Typed, Derived
<1>3. AllFresh(op, cache'.dirs)
  BY SameFresh DEF IInv
<1>4. AllFresh(op', cache'.dirs) /\ Held(locks', op')
  BY <1>1, <1>3 DEF IInv
<1> QED
  BY <1>2, <1>4 DEF IInv

\* Losing a command with its connection keeps the invariant.
LEMMA CommandLostInv ==
  ASSUME IInv, NEW e \in Engines, CommandLost(e)
  PROVE  IInv'
<1>1. /\ op[e].step # "sent" /\ wire' = [wire EXCEPT ![e] = Idle]
      /\ UNCHANGED <<server, cache, op, locks>>
  BY DEF CommandLost
<1>2. /\ wire' = [i \in Engines |-> wire'[i]] /\ wire'[e] = Idle
      /\ \A i \in Engines \ {e} : wire'[i] = wire[i]
  BY <1>1 DEF IInv, Typed
<1>3. server' \in [Paths -> [Names -> Kinds]] /\ Derived(cache', cache)
  BY <1>1, Itself DEF IInv, Typed
<1>4. \A i \in Engines : /\ wire'[i] = Idle \/ wire'[i] \in [cmd : Commands, covered : BOOLEAN]
                         /\ op[i].step = "sent" => wire'[i].cmd = op[i].cmd
  BY <1>1, <1>2 DEF IInv, Typed
<1> QED
  BY <1>1, <1>2, <1>3, <1>4, NoneMoves

\* A listing that grows older than ttl_ keeps the invariant.
LEMMA ExpiresInv ==
  ASSUME IInv, NEW p \in Paths, Expires(p)
  PROVE  IInv'
<1> DEFINE l == [cache.dirs[p] EXCEPT !.old = TRUE]
           dirs == [cache.dirs EXCEPT ![p] = l]
<1>1. /\ p \in DOMAIN cache.dirs
      /\ cache' = [cache EXCEPT !.dirs = dirs]
      /\ UNCHANGED <<server, op, wire, locks>>
  BY Zenon DEF Expires, Cached
<1>2. l \in Listing /\ Same(l, cache.dirs[p])
  BY <1>1 DEF IInv, Typed, IsCache, Listing, Same
<1> HIDE DEF l
<1>3. /\ DOMAIN dirs = DOMAIN cache.dirs
      /\ \A x \in DOMAIN cache.dirs : dirs[x] = IF x = p THEN l ELSE cache.dirs[x]
  BY <1>1
<1>4. \A x \in DOMAIN cache.dirs : dirs[x] \in Listing /\ Same(dirs[x], cache.dirs[x])
  BY <1>2, <1>3 DEF IInv, Typed, IsCache, Same
<1> HIDE DEF dirs
<1>5. Derived(cache', cache)
  BY <1>1, <1>3, <1>4, EachDerived DEF IInv, Typed
<1>6. /\ server' \in [Paths -> [Names -> Kinds]]
      /\ wire' = [i \in Engines |-> wire'[i]]
      /\ \A i \in Engines : /\ wire'[i] = Idle \/ wire'[i] \in [cmd : Commands, covered : BOOLEAN]
                            /\ op[i].step = "sent" => wire'[i].cmd = op[i].cmd
  BY <1>1 DEF IInv, Typed
<1> QED
  BY <1>1, <1>5, <1>6, NoneMoves

\* The reply to a change keeps the invariant.
LEMMA HandleReplyInv ==
  ASSUME IInv, NEW e \in Engines, HandleReply(e)
  PROVE  IInv'
<1>0. PICK exists \in {FALSE, ~op[e].ok} :
        LET now == Told(op[e].cmd, op[e].ok, exists)
            cleared(l) == [l EXCEPT !.blame = @ \ {e}]
            still(l) == [l EXCEPT !.blame = IF e \in @ THEN (@ \ {e}) \cup {Nobody} ELSE @]
        IN End(e, IF Followed(op[e].cmd) THEN Each(now, cleared) ELSE Each(now, still))
  BY Zenon DEF HandleReply
<1> DEFINE told == Told(op[e].cmd, op[e].ok, exists)
           forgiven == [p \in DOMAIN told.dirs |-> [told.dirs[p] EXCEPT !.blame = @ \ {e}]]
           kept == [p \in DOMAIN told.dirs |->
                      [told.dirs[p] EXCEPT !.blame = IF e \in @ THEN (@ \ {e}) \cup {Nobody} ELSE @]]
<1>1. /\ op[e].step = "replied"
      /\ End(e, IF Followed(op[e].cmd) THEN [told EXCEPT !.dirs = forgiven]
                ELSE [told EXCEPT !.dirs = kept])
      /\ UNCHANGED <<server, wire>>
  BY <1>0, ZenonT(60) DEF HandleReply, Each
<1>2. op[e].cmd \in Commands
  BY <1>1, StepFacts, Idles DEF IInv, Typed
<1>3. Derived(told, cache)
  BY <1>2, ToldDerived DEF IInv, Typed
<1> HIDE DEF told
<1>4. \A l \in Listing :
        LET m == [l EXCEPT !.blame = @ \ {e}]
            k == [l EXCEPT !.blame = IF e \in @ THEN (@ \ {e}) \cup {Nobody} ELSE @]
        IN m \in Listing /\ Same(m, l) /\ k \in Listing /\ Same(k, l)
  BY DEF Listing, Same
<1>5. /\ DOMAIN forgiven = DOMAIN told.dirs /\ DOMAIN kept = DOMAIN told.dirs
      /\ \A p \in DOMAIN told.dirs : /\ forgiven[p] \in Listing /\ Same(forgiven[p], told.dirs[p])
                                     /\ kept[p] \in Listing /\ Same(kept[p], told.dirs[p])
  BY <1>3, <1>4 DEF Derived, IsCache
<1> HIDE DEF forgiven, kept
<1>6. /\ Derived([told EXCEPT !.dirs = forgiven], told)
      /\ Derived([told EXCEPT !.dirs = kept], told)
  BY <1>3, <1>5, EachDerived DEF Derived
<1>7. /\ Derived([told EXCEPT !.dirs = forgiven], cache)
      /\ Derived([told EXCEPT !.dirs = kept], cache)
  BY <1>3, <1>6, DerivedTwice
<1> QED
  BY <1>1, <1>7, EndInv

\* An operation that is cancelled or times out keeps the invariant.
LEMMA AbandonInv ==
  ASSUME IInv, NEW e \in Engines, Abandon(e)
  PROVE  IInv'
<1> DEFINE c == op[e].cmd
           told == IF c.kind = "upload" /\ op[e].step \in {"sent", "replied"}
                   THEN UploadDone(c, TRUE) ELSE cache
           kept == [p \in DOMAIN told.dirs |->
                      [told.dirs[p] EXCEPT !.blame = IF e \in @ THEN (@ \ {e}) \cup {Nobody} ELSE @]]
<1>1. /\ op[e] # Idle
      /\ End(e, [told EXCEPT !.dirs = kept])
      /\ UNCHANGED <<server, wire>>
  BY Zenon DEF Abandon, Each
<1>2. c \in Commands
  BY <1>1, StepFacts DEF IInv, Typed
<1>3. Derived(told, cache)
  <2>1. Derived(UpdateFile(cache, c.path, c.name, "file"), cache) /\ Derived(cache, cache)
    BY <1>2, CommandFacts, UpdateFileDerived, Itself DEF IInv, Typed, Kinds
  <2> QED
    BY <2>1, Zenon DEF UploadDone
<1> HIDE DEF told
<1>4. \A l \in Listing :
        LET k == [l EXCEPT !.blame = IF e \in @ THEN (@ \ {e}) \cup {Nobody} ELSE @]
        IN k \in Listing /\ Same(k, l)
  BY DEF Listing, Same
<1>5. /\ DOMAIN kept = DOMAIN told.dirs
      /\ \A p \in DOMAIN told.dirs : kept[p] \in Listing /\ Same(kept[p], told.dirs[p])
  BY <1>3, <1>4 DEF Derived, IsCache
<1> HIDE DEF kept
<1>6. Derived([told EXCEPT !.dirs = kept], told)
  BY <1>3, <1>5, EachDerived DEF Derived
<1>7. Derived([told EXCEPT !.dirs = kept], cache)
  BY <1>3, <1>6, DerivedTwice
<1> QED
  BY <1>1, <1>7, EndInv

\* The server's directories stay directories.
LEMMA ExecutedTyped ==
  ASSUME server \in [Paths -> [Names -> Kinds]], NEW c \in Commands
  PROVE  Executed(c) \in [Paths -> [Names -> Kinds]]
<1>1. c.path \in Paths /\ c.topath \in Paths /\ c.name \in Names /\ c.toname \in Names
  BY CommandFacts
<1>2. \A kind \in Kinds : [server EXCEPT ![c.path][c.name] = kind] \in [Paths -> [Names -> Kinds]]
  BY <1>1
<1> DEFINE kind == Kind(c.path, c.name)
           moved == [server EXCEPT ![c.path][c.name] = "none", ![c.topath][c.toname] = kind]
           from == Child(c.path, c.name)
           to == Child(c.topath, c.toname)
           rename == [p \in Paths |-> IF kind = "dir" /\ p = to THEN Contents(from)
                                      ELSE IF kind = "dir" /\ p = from THEN [n \in Names |-> "none"]
                                      ELSE moved[p]]
<1>3. kind \in Kinds
  BY <1>1 DEF Kind, Kinds
<1> HIDE DEF kind
<1>4. moved \in [Paths -> [Names -> Kinds]]
  BY <1>1, <1>2, <1>3 DEF Kinds
<1>5. Contents(from) \in [Names -> Kinds] /\ [n \in Names |-> "none"] \in [Names -> Kinds]
  BY DEF Contents, Kinds
<1> HIDE DEF moved, from, to
<1>6. rename \in [Paths -> [Names -> Kinds]]
  BY <1>4, <1>5
<1>7. Executed(c) \in {[server EXCEPT ![c.path][c.name] = "none"],
                      [server EXCEPT ![c.path][c.name] = "dir"],
                      [server EXCEPT ![c.path][c.name] = "file"], rename, server}
  BY Zenon DEF Executed, kind, moved, from, to
<1> HIDE DEF rename
<1>8. /\ [server EXCEPT ![c.path][c.name] = "none"] \in [Paths -> [Names -> Kinds]]
      /\ [server EXCEPT ![c.path][c.name] = "dir"] \in [Paths -> [Names -> Kinds]]
      /\ [server EXCEPT ![c.path][c.name] = "file"] \in [Paths -> [Names -> Kinds]]
  BY <1>2 DEF Kinds
<1> QED
  BY <1>6, <1>7, <1>8, Zenon

\* Engine e moves to the operation x, which may be about to store a listing.
LEMMA MovesFresh ==
  ASSUME IInv, NEW e \in Engines, NEW x, Operation(x), op' = [op EXCEPT ![e] = x],
         server' \in [Paths -> [Names -> Kinds]], IsCache(cache'),
         wire' = [i \in Engines |-> wire'[i]],
         \A i \in Engines \ {e} : wire'[i] = wire[i],
         wire'[e] = Idle \/ wire'[e] \in [cmd : Commands, covered : BOOLEAN],
         x.step = "sent" => wire'[e].cmd = x.cmd,
         Held(locks', op'), AllFresh(op', cache'.dirs)
  PROVE  IInv'
<1>1. /\ op' = [i \in Engines |-> op'[i]] /\ op'[e] = x
      /\ \A i \in Engines \ {e} : op'[i] = op[i]
  BY DEF IInv, Typed
<1>2. \A i \in Engines : Operation(op'[i])
  BY <1>1 DEF IInv, Typed
<1>3. Typed'
  BY <1>1, <1>2 DEF IInv, Typed
<1> QED
  BY <1>3 DEF IInv

\* The server's execution of a command keeps the invariant: whoever waits for the
\* listing then requested its lock before.
LEMMA ServerExecutesInv ==
  ASSUME IInv, NEW e \in Engines, ServerExecutes(e)
  PROVE  IInv'
<1> DEFINE c == wire[e].cmd
           heard == op[e].step = "sent"
           changed == IF Succeeds(c) THEN Changed(c) ELSE {}
           waiting == {i \in Engines : i \in DOMAIN locks /\ op[i].cmd.kind \in Listings
                                       /\ op[i].cmd.path = c.path}
           dirs == [p \in DOMAIN cache.dirs |->
                      IF p \in changed /\ Unannounced(e, p)
                      THEN [cache.dirs[p] EXCEPT !.blame = @ \cup {IF heard THEN e ELSE Nobody}]
                      ELSE cache.dirs[p]]
           retrieved == [step |-> "replied", cmd |-> c, refresh |-> op[e].refresh,
                         rival |-> op[e].rival, ok |-> TRUE,
                         listing |-> [kinds |-> server[c.path], seen |-> waiting]]
           answered == [step |-> "replied", cmd |-> c, refresh |-> op[e].refresh,
                        rival |-> op[e].rival, ok |-> Succeeds(c)]
           x == IF c.kind \in Listings /\ Succeeds(c) THEN retrieved ELSE answered
<1>1. /\ wire[e] # Idle
      /\ server' = IF Succeeds(c) THEN Executed(c) ELSE server
      /\ cache' = [cache EXCEPT !.dirs = dirs]
      /\ op' = IF ~heard THEN op ELSE [op EXCEPT ![e] = x]
      /\ wire' = [wire EXCEPT ![e] = Idle]
      /\ UNCHANGED locks
  BY Zenon DEF ServerExecutes
<1>2. c \in Commands
  BY <1>1 DEF IInv, Typed
<1>3. server' \in [Paths -> [Names -> Kinds]]
  BY <1>1, <1>2, ExecutedTyped DEF IInv, Typed
<1>4. Derived(cache', cache)
  <2>1. \A l \in Listing :
          LET m == [l EXCEPT !.blame = @ \cup {IF heard THEN e ELSE Nobody}]
          IN m \in Listing /\ Same(m, l)
    BY DEF Listing, Same
  <2>2. \A l : Same(l, l)
    BY DEF Same
  <2>3. /\ DOMAIN dirs = DOMAIN cache.dirs
        /\ \A p \in DOMAIN cache.dirs : dirs[p] \in Listing /\ Same(dirs[p], cache.dirs[p])
    BY <2>1, <2>2 DEF IInv, Typed, IsCache
  <2> HIDE DEF dirs
  <2> QED
    BY <1>1, <2>3, EachDerived DEF IInv, Typed
<1>5. /\ wire' = [i \in Engines |-> wire'[i]] /\ wire'[e] = Idle
      /\ \A i \in Engines \ {e} : wire'[i] = wire[i]
  BY <1>1 DEF IInv, Typed
<1>6. CASE ~heard
  <2>1. op' = op /\ locks' = locks
    BY <1>1, <1>6
  <2>2. \A i \in Engines : /\ wire'[i] = Idle \/ wire'[i] \in [cmd : Commands, covered : BOOLEAN]
                           /\ op[i].step = "sent" => wire'[i].cmd = op[i].cmd
    BY <1>5, <1>6 DEF IInv, Typed
  <2> QED
    BY <1>3, <1>4, <1>5, <2>1, <2>2, NoneMoves
<1>7. CASE heard
  <2>1. op' = [op EXCEPT ![e] = x]
    BY <1>1, <1>7
  <2>2. op[e] \in Pending /\ op[e].cmd = c
    BY <1>7, StepFacts DEF IInv, Typed
  <2>3. op[e].refresh \in BOOLEAN /\ op[e].rival \in Engines \cup {Nobody}
    BY <2>2 DEF Pending
  <2>4. server[c.path] \in [Names -> Kinds] /\ waiting \in SUBSET Engines
    BY <1>2, CommandFacts DEF IInv, Typed
  <2>5. Succeeds(c) \in BOOLEAN
    BY Zenon DEF Succeeds
  <2>6. retrieved \in Retrieved /\ retrieved.cmd = c
    BY <1>2, <2>3, <2>4 DEF Retrieved
  <2>7. answered \in Answered /\ answered.cmd = c /\ (answered.ok <=> Succeeds(c))
    BY <1>2, <2>3, <2>5 DEF Answered
  <2>8. retrieved.step = "replied" /\ retrieved.listing.seen = waiting /\ answered.step = "replied"
    OBVIOUS
  <2> HIDE DEF retrieved, answered, waiting, heard
  <2>9. Operation(x) /\ x.step = "replied" /\ x.cmd = c
    BY <2>6, <2>7, <2>8 DEF Operation
  <2>10. /\ op'[e] = x /\ \A i \in Engines \ {e} : op'[i] = op[i]
    BY <2>1 DEF IInv, Typed
  <2>11. Held(locks', op')
    <3>1. Held(locks, op) /\ locks' = locks /\ op'[e].cmd = op[e].cmd /\ op[e].step = "sent"
      BY <1>1, <1>7, <2>2, <2>9, <2>10 DEF IInv, heard
    <3>2. op'[e].step \notin {"idle", "waiting"} /\ op[e].step # "waiting"
      BY <2>9, <2>10, <3>1
    <3>3. Needs(op'[e]) => Needs(op[e])
      BY <2>9, <2>10, <3>1 DEF Needs
    <3>4. Held(locks, op')
      BY <2>10, <3>1, <3>2, <3>3, HeldKept, Zenon
    <3> QED
      BY <3>1, <3>4
  <2>12. CASE x = retrieved
    <3>1. AllFresh(op', cache'.dirs)
      <4> SUFFICES ASSUME NEW a \in Engines, Awaits(op'[a])
                   PROVE  Fresh(a, op'[a], op', cache'.dirs)
        BY DEF AllFresh
      <4>1. a # e
        BY <2>9, <2>10 DEF Awaits
      <4>2. op'[a] = op[a] /\ Fresh(a, op[a], op, cache'.dirs)
        BY <1>4, <2>10, <4>1, SameFresh DEF IInv, AllFresh
      <4>3. a \in DOMAIN locks /\ op[a].cmd.kind \in Listings
        BY <4>2 DEF IInv, Held, Needs, Awaits
      <4>4. op[a].cmd.path = c.path => a \in waiting
        BY <4>3 DEF waiting
      <4>5. op'[e].step = "replied" /\ op'[e].cmd = c /\ op'[e].listing.seen = waiting
        BY <2>8, <2>9, <2>10, <2>12
      <4> QED
        BY <2>10, <4>2, <4>4, <4>5 DEF Fresh
    <3>2. IsCache(cache')
      BY <1>4 DEF Derived
    <3>3. x.step # "sent"
      BY <2>9
    <3> HIDE DEF x, c
    <3> QED
      BY <1>3, <1>5, <2>1, <2>9, <2>11, <3>1, <3>2, <3>3, MovesFresh
  <2>13. CASE ~(c.kind \in Listings /\ Succeeds(c))
    <3>1. Quiet(x) /\ x.step # "sent"
      BY <2>7, <2>9, <2>13 DEF Quiet, Awaits
    <3> HIDE DEF x, c
    <3> QED
      BY <1>3, <1>4, <1>5, <2>1, <2>9, <2>11, <3>1, OneMoves
  <2> QED
    BY <2>12, <2>13
<1> QED
  BY <1>6, <1>7

\* Parsing a listing keeps the invariant: it is offered to those who wait by then,
\* all of whom requested their lock before the server was asked, or while e was
\* retrieving it.
LEMMA ParseInv ==
  ASSUME IInv, NEW e \in Engines, Parse(e)
  PROVE  IInv'
<1> DEFINE p == op[e].cmd.path
           waiting == {i \in Engines : i \in DOMAIN locks /\ op[i].cmd.kind \in Listings
                                       /\ op[i].cmd.path = p}
           entries == [n \in Names |-> [kind |-> op[e].listing.kinds[n], unsure |-> FALSE]]
           listing == [entries |-> entries, for |-> waiting, seen |-> op[e].listing.seen]
           x == [step |-> "parsed", cmd |-> op[e].cmd, refresh |-> op[e].refresh,
                 rival |-> op[e].rival, listing |-> listing]
<1>1. /\ op[e].step = "replied" /\ op[e].cmd.kind \in Listings /\ op[e].ok
      /\ op' = [op EXCEPT ![e] = x]
      /\ UNCHANGED <<server, cache, wire, locks>>
  BY Zenon DEF Parse
<1>2. op[e] \in Retrieved
  BY <1>1, StepFacts DEF IInv, Typed
<1>3. /\ op[e].cmd \in Commands /\ op[e].refresh \in BOOLEAN /\ op[e].rival \in Engines \cup {Nobody}
      /\ op[e].listing \in [kinds : [Names -> Kinds], seen : SUBSET Engines]
  BY <1>2 DEF Retrieved
<1>4. entries \in Entries /\ waiting \in SUBSET Engines /\ op[e].listing.seen \in SUBSET Engines
  BY <1>3 DEF Entries
<1> HIDE DEF entries, waiting
<1>5. listing \in [entries : Entries, for : SUBSET Engines, seen : SUBSET Engines]
  BY <1>4
<1>6. listing.for = waiting /\ listing.seen = op[e].listing.seen
  OBVIOUS
<1> HIDE DEF listing
<1>7. /\ x \in Parsed /\ x.step = "parsed" /\ x.cmd = op[e].cmd /\ x.listing = listing
  BY <1>3, <1>5 DEF Parsed
<1> HIDE DEF x
<1>8. Operation(x) /\ x.step # "sent"
  BY <1>1, <1>7 DEF Operation
<1>9. op'[e] = x /\ \A i \in Engines \ {e} : op'[i] = op[i]
  BY <1>1 DEF IInv, Typed
<1>10. Held(locks', op')
  <2>1. Held(locks, op) /\ locks' = locks /\ op'[e].cmd = op[e].cmd /\ op[e].step # "waiting"
    BY <1>1, <1>7, <1>9 DEF IInv
  <2>2. op'[e].step \notin {"idle", "waiting"}
    BY <1>7, <1>9
  <2>3. Needs(op'[e]) => Needs(op[e])
    BY <1>1 DEF Needs
  <2>4. Held(locks, op')
    BY <1>9, <2>1, <2>2, <2>3, HeldKept, Zenon
  <2> QED
    BY <2>1, <2>4
<1>11. AllFresh(op', cache'.dirs)
  <2> SUFFICES ASSUME NEW a \in Engines, Awaits(op'[a])
               PROVE  Fresh(a, op'[a], op', cache'.dirs)
    BY DEF AllFresh
  <2>1. a # e
    BY <1>7, <1>9 DEF Awaits
  <2>2. op'[a] = op[a] /\ Fresh(a, op[a], op, cache.dirs) /\ cache' = cache
    BY <1>1, <1>9, <2>1 DEF IInv, AllFresh
  <2>3. op[a].cmd.path = p => a \in op[e].listing.seen \/ e = op[a].rival
    BY <1>1, <2>2 DEF Fresh
  <2>4. op'[e].step = "parsed" /\ op'[e].cmd.path = p /\ op'[e].listing.seen = op[e].listing.seen
    BY <1>6, <1>7, <1>9
  <2> HIDE DEF p
  <2> QED
    BY <1>9, <2>2, <2>3, <2>4 DEF Fresh
<1>12. server' \in [Paths -> [Names -> Kinds]] /\ IsCache(cache') /\ wire' = wire
  BY <1>1 DEF IInv, Typed
<1> QED
  BY <1>1, <1>8, <1>10, <1>11, <1>12, WireStays, MovesFresh

\* Storing a listing keeps the invariant: the cached listing is the parsed one.
LEMMA StoreListingInv ==
  ASSUME IInv, NEW e \in Engines, StoreListing(e)
  PROVE  IInv'
<1> DEFINE p == op[e].cmd.path
           l == op[e].listing
           right == \A n \in Names : l.entries[n].kind = server[p][n]
           late == {i \in Engines : op[i].step = "replied" /\ op[i].ok /\ Concerns(op[i].cmd, p)}
           k == [entries |-> l.entries, unsure |-> FALSE, old |-> FALSE,
                 for |-> l.for, seen |-> l.seen, by |-> e,
                 during |-> {i \in Engines : wire[i] # Idle},
                 blame |-> IF right THEN {} ELSE IF late = {} THEN {Nobody} ELSE late]
           c == Store(cache, p, k)
<1>1. /\ op[e].step = "parsed"
      /\ End(e, c)
      /\ UNCHANGED <<server, wire>>
  BY Zenon DEF StoreListing
<1>2. op[e] \in Parsed
  BY <1>1, StepFacts DEF IInv, Typed
<1>3. /\ op[e].cmd \in Commands
      /\ l \in [entries : Entries, for : SUBSET Engines, seen : SUBSET Engines]
  BY <1>2 DEF Parsed
<1>4. p \in Paths
  BY <1>3, CommandFacts
<1>5. {i \in Engines : wire[i] # Idle} \in SUBSET Engines
      /\ late \in SUBSET Engines
  OBVIOUS
<1> HIDE DEF right, late
<1>6. k \in Listing /\ k.for = l.for /\ k.seen = l.seen /\ k.by = e
  BY <1>3, <1>5 DEF Listing
<1> HIDE DEF k
<1>7. /\ IsCache(c)
      /\ \A x \in DOMAIN c.dirs :
           \/ x = p /\ Same(c.dirs[x], k)
           \/ x # p /\ x \in DOMAIN cache.dirs /\ Same(c.dirs[x], cache.dirs[x])
  BY <1>4, <1>6, StoreFacts DEF IInv, Typed
<1> HIDE DEF c
<1>8. op' = [op EXCEPT ![e] = Idle] /\ cache' = c /\ locks' = Unlocked(e)
  BY <1>1, Zenon DEF End
<1>9. op'[e] = Idle /\ \A i \in Engines \ {e} : op'[i] = op[i]
  BY <1>8 DEF IInv, Typed
<1>10. Held(locks', op')
  <2>1. Held(Unlocked(e), op')
    BY <1>9, HeldEnds DEF IInv, Unlocked
  <2> QED
    BY <1>8, <2>1
<1>11. Operation(Idle) /\ ~Awaits(Idle) /\ Idle.step = "idle"
  BY Idles DEF Awaits
<1>12. AllFresh(op', cache'.dirs)
  <2> SUFFICES ASSUME NEW a \in Engines, Awaits(op'[a])
               PROVE  Fresh(a, op'[a], op', cache'.dirs)
    BY DEF AllFresh
  <2>1. a # e
    BY <1>9, <1>11
  <2>2. op'[a] = op[a] /\ Fresh(a, op[a], op, cache.dirs)
    BY <1>9, <2>1 DEF IInv, AllFresh
  <2>3. op[a].cmd.path = p /\ a \in l.for => a \in l.seen \/ e = op[a].rival
    BY <1>1, <2>2 DEF Fresh
  <2>4. LET q == op[a].cmd.path
        IN q \in DOMAIN c.dirs /\ a \in c.dirs[q].for
             => a \in c.dirs[q].seen \/ c.dirs[q].by = op[a].rival
    <3>1. CASE op[a].cmd.path = p
      BY <1>6, <1>7, <2>3, <3>1 DEF Same
    <3>2. CASE op[a].cmd.path # p
      BY <1>7, <2>2, <3>2 DEF Same, Fresh
    <3> QED
      BY <3>1, <3>2
  <2>5. op'[e].step = "idle"
    BY <1>9, <1>11
  <2> HIDE DEF p, l
  <2> QED
    BY <1>8, <1>9, <2>2, <2>4, <2>5 DEF Fresh
<1>13. server' \in [Paths -> [Names -> Kinds]] /\ IsCache(cache') /\ wire' = wire
  BY <1>1, <1>7, <1>8 DEF IInv, Typed
<1>14. Idle.step # "sent"
  BY <1>11
<1> QED
  BY <1>8, <1>10, <1>11, <1>12, <1>13, <1>14, WireStays, MovesFresh

\* A list operation whose lock was granted keeps the invariant, whether the cache
\* answers it or the server is asked.
LEMMA ResendListInv ==
  ASSUME IInv, NEW e \in Engines, ResendList(e)
  PROVE  IInv'
<1> DEFINE p == op[e].cmd.path
           x == [op[e] EXCEPT !.step = "sent"]
           y == [cmd |-> op[e].cmd, covered |-> TRUE]
<1>1. /\ op[e].step = "waiting" /\ op[e].cmd.kind \in Listings
      /\ UNCHANGED server
      /\ \/ End(e, Lookup(cache, p)) /\ UNCHANGED wire
         \/ /\ OpLocks!Grant(e, {e})
            /\ cache' = Lookup(cache, p)
            /\ op' = [op EXCEPT ![e].step = "sent"]
            /\ wire' = [wire EXCEPT ![e] = y]
  BY Zenon DEF ResendList
<1>2. Derived(Lookup(cache, p), cache)
  BY LookupDerived DEF IInv, Typed
<1>3. CASE End(e, Lookup(cache, p)) /\ UNCHANGED wire
  <2>1. UNCHANGED <<server, wire>>
    BY <1>1, <1>3
  <2> QED
    BY <1>2, <1>3, <2>1, EndInv
<1>4. CASE /\ OpLocks!Grant(e, {e})
           /\ cache' = Lookup(cache, p)
           /\ op' = [op EXCEPT ![e].step = "sent"]
           /\ wire' = [wire EXCEPT ![e] = y]
  <2>1. op[e] \in Pending
    BY <1>1, StepFacts DEF IInv, Typed
  <2>2. op[e].cmd \in Commands
    BY <2>1 DEF Pending
  <2>3. y \in [cmd : Commands, covered : BOOLEAN] /\ y.cmd = op[e].cmd
    BY <2>2
  <2>4. x \in Pending /\ Operation(x) /\ x.cmd = op[e].cmd /\ x.step = "sent"
    BY <2>1, PendingSet
  <2>5. op' = [op EXCEPT ![e] = x]
    BY <1>4 DEF IInv, Typed
  <2> HIDE DEF x, y
  <2>6. op'[e] = x /\ \A i \in Engines \ {e} : op'[i] = op[i]
    BY <2>5 DEF IInv, Typed
  <2>7. /\ wire' = [i \in Engines |-> wire'[i]] /\ wire'[e] = y
        /\ \A i \in Engines \ {e} : wire'[i] = wire[i]
    BY <1>4 DEF IInv, Typed
  <2>8. Quiet(x)
    BY <2>4 DEF Quiet, Awaits
  <2>9. Held(locks', op')
    BY <1>4, <2>4, <2>6, HeldGranted DEF IInv
  <2>10. server' \in [Paths -> [Names -> Kinds]] /\ Derived(cache', cache)
    BY <1>1, <1>2, <1>4 DEF IInv, Typed
  <2> QED
    BY <2>3, <2>4, <2>5, <2>7, <2>8, <2>9, <2>10, OneMoves
<1> QED
  BY <1>1, <1>3, <1>4

\* A listing that was parsed is older than the lock e has just requested.
LEMMA ParsedWithout ==
  ASSUME NEW e, NEW o \in Parsed
  PROVE  LET m == [o EXCEPT !.listing.for = @ \ {e}, !.listing.seen = @ \ {e}]
         IN /\ m \in Parsed /\ m.step = o.step /\ m.cmd = o.cmd
            /\ m.listing.for = o.listing.for \ {e} /\ m.listing.seen = o.listing.seen \ {e}
<1> DEFINE l == [o.listing EXCEPT !.for = @ \ {e}, !.seen = @ \ {e}]
<1>1. [o EXCEPT !.listing.for = @ \ {e}, !.listing.seen = @ \ {e}] = [o EXCEPT !.listing = l]
  BY DEF Parsed
<1>2. o.listing \in [entries : Entries, for : SUBSET Engines, seen : SUBSET Engines]
  BY DEF Parsed
<1>3. /\ l \in [entries : Entries, for : SUBSET Engines, seen : SUBSET Engines]
      /\ l.for = o.listing.for \ {e} /\ l.seen = o.listing.seen \ {e}
  BY <1>2
<1> HIDE DEF l
<1>4. LET m == [o EXCEPT !.listing = l]
      IN m \in Parsed /\ m.step = o.step /\ m.cmd = o.cmd /\ m.listing = l
  BY <1>3 DEF Parsed
<1> QED
  BY <1>1, <1>3, <1>4

\* A listing that the server has sent is older than the lock e has just requested.
LEMMA RetrievedWithout ==
  ASSUME NEW e, NEW o \in Retrieved
  PROVE  LET m == [o EXCEPT !.listing.seen = @ \ {e}]
         IN /\ m \in Retrieved /\ m.step = o.step /\ m.cmd = o.cmd
            /\ m.listing.seen = o.listing.seen \ {e}
<1> DEFINE l == [o.listing EXCEPT !.seen = @ \ {e}]
<1>1. [o EXCEPT !.listing.seen = @ \ {e}] = [o EXCEPT !.listing = l]
  BY DEF Retrieved
<1>2. o.listing \in [kinds : [Names -> Kinds], seen : SUBSET Engines]
  BY DEF Retrieved
<1>3. l \in [kinds : [Names -> Kinds], seen : SUBSET Engines] /\ l.seen = o.listing.seen \ {e}
  BY <1>2
<1> HIDE DEF l
<1>4. LET m == [o EXCEPT !.listing = l]
      IN m \in Retrieved /\ m.step = o.step /\ m.cmd = o.cmd /\ m.listing = l
  BY <1>3 DEF Retrieved
<1> QED
  BY <1>1, <1>3, <1>4

\* The operation has received a listing.
Retrieves(o) == o.step = "replied" /\ o.cmd.kind \in Listings /\ o.ok

\* The operation o after engine e has started to wait for a listing of p.
Without(o, e, p) ==
  IF o.step = "parsed" /\ o.cmd.path = p
  THEN [o EXCEPT !.listing.for = @ \ {e}, !.listing.seen = @ \ {e}]
  ELSE IF o.step = "replied" /\ o.cmd.kind \in Listings /\ o.ok /\ o.cmd.path = p
  THEN [o EXCEPT !.listing.seen = @ \ {e}]
  ELSE o

\* The operation w is o, with nothing added to what others see; e is left out.
Kept(w, o, e, p) ==
  /\ Operation(w) /\ w.step = o.step /\ w.cmd = o.cmd
  /\ o.step \notin {"parsed", "replied"} => w = o
  /\ Retrieves(w) => Retrieves(o)
  /\ o.step = "parsed" /\ o.cmd.path = p => e \notin w.listing.for
  /\ \A a : a # e =>
       /\ o.step = "parsed" /\ a \in w.listing.for => a \in o.listing.for
       /\ (o.step = "parsed" \/ Retrieves(o)) /\ a \in o.listing.seen => a \in w.listing.seen

\* The listings under way when e starts to wait are kept for the others.
LEMMA WithoutFacts ==
  ASSUME NEW o, Operation(o), NEW e, NEW p
  PROVE  Kept(Without(o, e, p), o, e, p)
<1> DEFINE w == Without(o, e, p)
<1>1. CASE o.step = "parsed" /\ o.cmd.path = p
  <2>1. o \in Parsed /\ o.cmd.kind \in Listings
    BY <1>1, StepFacts
  <2> DEFINE m == [o EXCEPT !.listing.for = @ \ {e}, !.listing.seen = @ \ {e}]
  <2>2. /\ m \in Parsed /\ m.step = o.step /\ m.cmd = o.cmd
        /\ m.listing.for = o.listing.for \ {e} /\ m.listing.seen = o.listing.seen \ {e}
    BY <2>1, ParsedWithout, Zenon
  <2>3. w = m
    BY <1>1, Zenon DEF Without
  <2> HIDE DEF m
  <2>8. /\ w \in Parsed /\ w.step = o.step /\ w.cmd = o.cmd
        /\ w.listing.for = o.listing.for \ {e} /\ w.listing.seen = o.listing.seen \ {e}
    BY <2>2, <2>3
  <2> HIDE DEF w
  <2>4. Operation(w) /\ ~Retrieves(w)
    <3>1. w.cmd.kind \in Listings /\ w.step = "parsed"
      BY <1>1, <2>1, <2>8
    <3>2. Operation(w)
      BY <2>8, <3>1, Zenon DEF Operation
    <3>3. ~Retrieves(w)
      BY <3>1 DEF Retrieves
    <3> QED
      BY <3>2, <3>3
  <2>5. Operation(w) /\ w.step = o.step /\ w.cmd = o.cmd
        /\ (o.step \notin {"parsed", "replied"} => w = o)
        /\ (Retrieves(w) => Retrieves(o))
    BY <1>1, <2>8, <2>4
  <2>6. e \notin w.listing.for
    BY <2>8
  <2>7. \A a : a # e => /\ a \in w.listing.for => a \in o.listing.for
                        /\ a \in o.listing.seen => a \in w.listing.seen
    BY <2>8
  <2>9. Kept(w, o, e, p)
    BY <2>5, <2>6, <2>7, Zenon DEF Kept
  <2> QED
    BY <2>9 DEF w
<1>2. CASE Retrieves(o) /\ o.cmd.path = p
  <2>1. o \in Retrieved /\ o.cmd.kind \in Listings /\ o.step = "replied"
    BY <1>2, StepFacts DEF Retrieves
  <2>2. w = [o EXCEPT !.listing.seen = @ \ {e}]
    <3>1. ~(o.step = "parsed" /\ o.cmd.path = p)
      BY <2>1
    <3> QED
      BY <1>2, <3>1, Zenon DEF Without, Retrieves
  <2>3. /\ w \in Retrieved /\ w.step = o.step /\ w.cmd = o.cmd
        /\ w.listing.seen = o.listing.seen \ {e}
    BY <2>1, <2>2, RetrievedWithout
  <2> HIDE DEF w
  <2>4. Operation(w)
    BY <2>1, <2>3 DEF Operation
  <2>5. Operation(w) /\ w.step = o.step /\ w.cmd = o.cmd
        /\ (o.step \notin {"parsed", "replied"} => w = o)
        /\ (Retrieves(w) => Retrieves(o)) /\ o.step # "parsed"
    BY <1>2, <2>1, <2>3, <2>4
  <2>6. Kept(w, o, e, p)
    BY <2>3, <2>5 DEF Kept
  <2> QED
    BY <2>6 DEF w
<1>3. CASE ~(o.step = "parsed" /\ o.cmd.path = p) /\ ~(Retrieves(o) /\ o.cmd.path = p)
  <2>1. w = o
    BY <1>3, Zenon DEF Without, Retrieves
  <2> QED
    BY <1>3, <2>1 DEF Kept
<1> QED
  BY <1>1, <1>2, <1>3

\* The engine that is retrieving the listing a lock is requested for is the one
\* that holds the lock.
LEMMA HolderIsRival ==
  ASSUME Held(locks, op), NEW i \in Engines, NEW c, c.kind \in Listings,
         Retrieves(op[i]), op[i].cmd.path = c.path
  PROVE  {j \in DOMAIN locks : locks[j].granted /\ locks[j].req = Wants(c)} = {i}
<1>1. op[i].step = "replied" /\ op[i].cmd.kind \in Listings
  BY DEF Retrieves
<1>2. i \in DOMAIN locks
  BY <1>1 DEF Held, Needs
<1>3. Wants(op[i].cmd) = Wants(c)
  <2>1. op[i].cmd.kind # "mkdir" /\ c.kind # "mkdir"
    BY <1>1 DEF Listings
  <2> QED
    BY <2>1 DEF Wants
<1>4. locks[i].granted /\ locks[i].req = Wants(op[i].cmd)
  BY <1>1, <1>2 DEF Held, Lock
<1>5. \A j \in DOMAIN locks : locks[j].granted /\ j # i => locks[j].req # Wants(c)
  BY <1>2, <1>3, <1>4 DEF Held
<1>6. locks[i].granted /\ locks[i].req = Wants(c)
  BY <1>3, <1>4
<1>7. \A j \in DOMAIN locks : locks[j].granted /\ locks[j].req = Wants(c) <=> j = i
  BY <1>5, <1>6, ZenonT(60)
<1> QED
  BY <1>2, <1>7, Zenon

\* Sending a list operation keeps the invariant: e has no claim to a listing that
\* was parsed before, and the engine that is retrieving one is its rival.
LEMMA SendListInv ==
  ASSUME IInv, NEW e \in Engines, SendList(e)
  PROVE  IInv'
<1> DEFINE p == op[e].cmd.path
           granted == ~OpLocks!Contended(e, Request(e))
           others == {i \in DOMAIN locks : locks[i].granted /\ locks[i].req = Request(e)}
           looked == Lookup(cache, p)
           dirs == [q \in DOMAIN looked.dirs |->
                      [looked.dirs[q] EXCEPT !.for = @ \ {e}, !.seen = @ \ {e}]]
           step == IF granted THEN "sent" ELSE "waiting"
           rival == IF others = {} THEN Nobody ELSE CHOOSE o \in others : TRUE
           x == [op[e] EXCEPT !.step = step, !.rival = rival]
           y == [cmd |-> op[e].cmd, covered |-> TRUE]
<1>1. /\ op[e].step = "ready" /\ op[e].cmd.kind \in Listings /\ wire[e] = Idle
      /\ UNCHANGED server
  BY Zenon DEF SendList
<1>2. \/ End(e, looked) /\ UNCHANGED wire
      \/ /\ OpLocks!Request(e, Request(e), e, granted)
         /\ cache' = [looked EXCEPT !.dirs = dirs]
         /\ op' = [i \in Engines |-> IF i = e THEN x ELSE Without(op[i], e, p)]
         /\ wire' = IF granted THEN [wire EXCEPT ![e] = y] ELSE wire
  BY Zenon DEF SendList, Each, Without
<1>3. granted \in BOOLEAN
  BY Zenon
<1>4. Derived(looked, cache) /\ looked.dirs = cache.dirs
  BY LookupDerived DEF IInv, Typed
<1>5. CASE End(e, looked) /\ UNCHANGED wire
  <2>1. UNCHANGED <<server, wire>>
    BY <1>1, <1>5
  <2> HIDE DEF looked
  <2> QED
    BY <1>4, <1>5, <2>1, EndInv
<1>6. CASE /\ OpLocks!Request(e, Request(e), e, granted)
           /\ cache' = [looked EXCEPT !.dirs = dirs]
           /\ op' = [i \in Engines |-> IF i = e THEN x ELSE Without(op[i], e, p)]
           /\ wire' = IF granted THEN [wire EXCEPT ![e] = y] ELSE wire
  <2>1. op[e] \in Pending
    BY <1>1, StepFacts DEF IInv, Typed
  <2>2. op[e].cmd \in Commands /\ op[e].refresh \in BOOLEAN
    BY <2>1 DEF Pending
  <2>3. rival \in Engines \cup {Nobody}
    <3>1. others \subseteq Engines
      BY DEF IInv, Held
    <3>2. others # {} => (CHOOSE o \in others : TRUE) \in others
      BY Zenon
    <3> HIDE DEF others
    <3> QED
      BY <3>1, <3>2
  <2>4. step \in {"sent", "waiting"} /\ (granted <=> step = "sent")
    BY <1>3
  <2>5. y \in [cmd : Commands, covered : BOOLEAN] /\ y.cmd = op[e].cmd
    BY <2>2
  <2> HIDE DEF granted, rival, step, y
  <2>6. /\ x \in Pending /\ x.step = step /\ x.cmd = op[e].cmd /\ x.rival = rival
    BY <2>1, <2>3, <2>4 DEF Pending
  <2> HIDE DEF x
  <2>7. Operation(x)
    BY <2>6 DEF Operation
  <2>8. op'[e] = x /\ \A i \in Engines \ {e} : op'[i] = Without(op[i], e, p)
    BY <1>6
  <2>9. \A i \in Engines \ {e} : Kept(op'[i], op[i], e, p)
    BY <2>8, WithoutFacts, SMTT(30) DEF IInv, Typed
  <2>10. /\ wire' = [i \in Engines |-> wire'[i]]
         /\ \A i \in Engines \ {e} : wire'[i] = wire[i]
         /\ wire'[e] = IF granted THEN y ELSE Idle
    BY <1>1, <1>3, <1>6 DEF IInv, Typed
  <2>11. Typed'
    <3>1. \A i \in Engines : Operation(op'[i])
      BY <2>7, <2>8, <2>9, SMTT(30) DEF Kept
    <3>2. op' = [i \in Engines |-> op'[i]]
      BY <1>6
    <3>3. IsCache(cache')
      <4>1. \A l \in Listing : [l EXCEPT !.for = @ \ {e}, !.seen = @ \ {e}] \in Listing
        BY DEF Listing
      <4>2. DOMAIN dirs = DOMAIN looked.dirs /\ \A q \in DOMAIN looked.dirs : dirs[q] \in Listing
        BY <1>4, <4>1 DEF Derived, IsCache
      <4> HIDE DEF dirs, looked
      <4> QED
        BY <1>4, <1>6, <4>2, EachFacts DEF Derived
    <3>4. \A i \in Engines :
            /\ wire'[i] = Idle \/ wire'[i] \in [cmd : Commands, covered : BOOLEAN]
            /\ op'[i].step = "sent" => wire'[i].cmd = op'[i].cmd
      <4> SUFFICES ASSUME NEW i \in Engines
                   PROVE  /\ wire'[i] = Idle \/ wire'[i] \in [cmd : Commands, covered : BOOLEAN]
                          /\ op'[i].step = "sent" => wire'[i].cmd = op'[i].cmd
        OBVIOUS
      <4>1. CASE i = e
        <5>1. op'[e].step = "sent" => granted
          BY <2>4, <2>6, <2>8
        <5> QED
          BY <1>3, <2>5, <2>6, <2>8, <2>10, <4>1, <5>1
      <4>2. CASE i # e
        BY <2>9, <2>10, <4>2 DEF Kept, IInv, Typed
      <4> QED
        BY <4>1, <4>2
    <3>5. server' \in [Paths -> [Names -> Kinds]]
      BY <1>1 DEF IInv, Typed
    <3> QED
      BY <2>10, <3>1, <3>2, <3>3, <3>4, <3>5 DEF Typed
  <2>12. Held(locks', op')
    <3>1. PICK l \in Lock(e, op[e].cmd) :
            /\ l.granted = granted
            /\ e \notin DOMAIN locks
            /\ l.granted => ~OpLocks!Contended(e, Wants(op[e].cmd))
            /\ locks' = [i \in DOMAIN locks \cup {e} |-> IF i = e THEN l ELSE locks[i]]
      BY <1>3, <1>6, RequestFacts
    <3>2. \A i \in Engines \ {e} : op'[i].step = op[i].step /\ op'[i].cmd = op[i].cmd
      BY <2>9 DEF Kept
    <3>3. op'[e].cmd = op[e].cmd /\ op'[e].step # "idle" /\ (granted <=> op'[e].step # "waiting")
      BY <2>4, <2>6, <2>8
    <3>4. l.granted <=> op'[e].step # "waiting"
      BY <1>3, <3>1, <3>3
    <3> QED
      BY <3>1, <3>2, <3>3, <3>4, HeldRequested DEF IInv
  <2>13. /\ DOMAIN cache'.dirs = DOMAIN cache.dirs
         /\ \A q \in DOMAIN cache.dirs : /\ cache'.dirs[q].for = cache.dirs[q].for \ {e}
                                         /\ cache'.dirs[q].seen = cache.dirs[q].seen \ {e}
                                         /\ cache'.dirs[q].by = cache.dirs[q].by
    <3>1. \A l \in Listing : LET m == [l EXCEPT !.for = @ \ {e}, !.seen = @ \ {e}]
                             IN m.for = l.for \ {e} /\ m.seen = l.seen \ {e} /\ m.by = l.by
      BY SMTT(30) DEF Listing
    <3>2. /\ DOMAIN dirs = DOMAIN looked.dirs
          /\ \A q \in DOMAIN looked.dirs :
               dirs[q] = [looked.dirs[q] EXCEPT !.for = @ \ {e}, !.seen = @ \ {e}]
      OBVIOUS
    <3> HIDE DEF dirs, looked
    <3>3. cache'.dirs = dirs
      <4>1. looked = [dirs |-> looked.dirs, lru |-> looked.lru, total |-> looked.total]
        BY <1>4 DEF Derived, IsCache
      <4> QED
        BY <1>6, <4>1
    <3>4. \A q \in DOMAIN looked.dirs : looked.dirs[q] \in Listing
      <4>1. \A q \in DOMAIN cache.dirs : cache.dirs[q] \in Listing
        BY DEF IInv, Typed, IsCache
      <4> QED
        BY <1>4, <4>1
    <3>5. ASSUME NEW q \in DOMAIN looked.dirs
          PROVE  /\ dirs[q].for = looked.dirs[q].for \ {e}
                 /\ dirs[q].seen = looked.dirs[q].seen \ {e}
                 /\ dirs[q].by = looked.dirs[q].by
      BY <3>1, <3>2, <3>4, Zenon
    <3> QED
      BY <1>4, <3>2, <3>3, <3>5, Zenon
  <2>14. \A a \in Engines \ {e} : Awaits(op'[a]) => Fresh(a, op'[a], op', cache'.dirs)
    <3> SUFFICES ASSUME NEW a \in Engines \ {e}, Awaits(op'[a])
                 PROVE  Fresh(a, op'[a], op', cache'.dirs)
      OBVIOUS
    <3>1. op[a].step = "waiting" /\ op'[a] = op[a]
      BY <2>9 DEF Kept, Awaits
    <3>2. Fresh(a, op[a], op, cache.dirs)
      BY <3>1 DEF IInv, AllFresh
    <3> DEFINE q == op[a].cmd.path
    <3>3. q \in DOMAIN cache'.dirs /\ a \in cache'.dirs[q].for
            => a \in cache'.dirs[q].seen \/ cache'.dirs[q].by = op[a].rival
      BY <2>13, <3>2 DEF Fresh
    <3>4. ASSUME NEW i \in Engines
          PROVE  /\ op'[i].step = "parsed" /\ op'[i].cmd.path = q /\ a \in op'[i].listing.for
                      => a \in op'[i].listing.seen \/ i = op[a].rival
                 /\ Retrieves(op'[i]) /\ op'[i].cmd.path = q
                      => a \in op'[i].listing.seen \/ i = op[a].rival
      <4>1. CASE i = e
        <5>1. op'[i].step \in {"sent", "waiting"}
          BY <2>4, <2>6, <2>8, <4>1
        <5> QED
          BY <5>1 DEF Retrieves
      <4>2. CASE i # e
        <5>1. Kept(op'[i], op[i], e, p)
          BY <2>9, <4>2
        <5>2. /\ op[i].step = "parsed" /\ op[i].cmd.path = q /\ a \in op[i].listing.for
                   => a \in op[i].listing.seen \/ i = op[a].rival
              /\ Retrieves(op[i]) /\ op[i].cmd.path = q
                   => a \in op[i].listing.seen \/ i = op[a].rival
          BY <3>2 DEF Fresh, Retrieves
        <5> HIDE DEF q
        <5>3. a # e
          OBVIOUS
        <5> QED
          BY <5>1, <5>2, <5>3, Zenon DEF Kept
      <4> QED
        BY <4>1, <4>2
    <3> QED
      BY <3>1, <3>3, <3>4, Zenon DEF Fresh, Retrieves
  <2>15. Awaits(x) => Fresh(e, x, op', cache'.dirs)
    <3> SUFFICES ASSUME Awaits(x)
                 PROVE  Fresh(e, x, op', cache'.dirs)
      OBVIOUS
    <3>1. ~(p \in DOMAIN cache'.dirs /\ e \in cache'.dirs[p].for)
      BY <2>13
    <3>2. ASSUME NEW i \in Engines
          PROVE  /\ ~(op'[i].step = "parsed" /\ op'[i].cmd.path = p /\ e \in op'[i].listing.for)
                 /\ Retrieves(op'[i]) /\ op'[i].cmd.path = p => i = rival
      <4>1. CASE i = e
        <5>1. op'[i].step \in {"sent", "waiting"}
          BY <2>4, <2>6, <2>8, <4>1
        <5> QED
          BY <5>1 DEF Retrieves
      <4>2. CASE i # e
        <5>1. Kept(op'[i], op[i], e, p)
          BY <2>9, <4>2
        <5>2. ~(op'[i].step = "parsed" /\ op'[i].cmd.path = p /\ e \in op'[i].listing.for)
          BY <5>1, Zenon DEF Kept
        <5>3. ASSUME Retrieves(op'[i]), op'[i].cmd.path = p
              PROVE  i = rival
          <6>1. Retrieves(op[i]) /\ op[i].cmd.path = p
            BY <5>1, <5>3 DEF Kept
          <6>2. others = {i}
            BY <1>1, <6>1, HolderIsRival, RequestWants DEF IInv
          <6> HIDE DEF others
          <6> QED
            BY <6>2 DEF rival
        <5> QED
          BY <5>2, <5>3
      <4> QED
        BY <4>1, <4>2
    <3> QED
      BY <2>6, <3>1, <3>2, Zenon DEF Fresh, Retrieves
  <2>16. AllFresh(op', cache'.dirs)
    BY <2>8, <2>14, <2>15 DEF AllFresh
  <2> QED
    BY <2>11, <2>12, <2>16 DEF IInv
<1> QED
  BY <1>2, <1>5, <1>6

\* Idle engines with an empty cache satisfy the invariant.
LEMMA InitInv ==
  ASSUME Init
  PROVE  IInv
<1>1. /\ server = Initially /\ cache = EmptyCache
      /\ op = [e \in Engines |-> Idle] /\ wire = [e \in Engines |-> Idle]
      /\ locks = [e \in {} |-> {}]
  BY DEF Init
<1>2. Operation(Idle) /\ Idle.step = "idle" /\ ~Needs(Idle) /\ ~Awaits(Idle)
  BY Idles DEF Awaits
<1>3. server \in [Paths -> [Names -> Kinds]]
  BY <1>1, InitiallyAssumption
<1>4. IsCache(cache) /\ DOMAIN cache.dirs = {}
  BY <1>1 DEF IsCache, EmptyCache
<1>5. \A e \in Engines : op[e] = Idle /\ wire[e] = Idle
  BY <1>1
<1>6. Typed
  <2>1. op = [e \in Engines |-> op[e]] /\ wire = [e \in Engines |-> wire[e]]
    BY <1>1
  <2> QED
    BY <1>2, <1>3, <1>4, <1>5, <2>1 DEF Typed
<1>7. Held(locks, op)
  BY <1>1, <1>2, <1>5 DEF Held
<1>8. AllFresh(op, cache.dirs)
  BY <1>2, <1>5 DEF AllFresh
<1> QED
  BY <1>6, <1>7, <1>8 DEF IInv

\* Every step keeps the invariant.
LEMMA NextInv ==
  ASSUME IInv, [Next]_vars
  PROVE  IInv'
<1>1. CASE UNCHANGED vars
  BY <1>1 DEF vars, IInv, Typed, Held, AllFresh, Fresh
<1>2. ASSUME NEW e \in Engines, NEW c \in Commands, Start(e, c)
      PROVE  IInv'
  BY <1>2, StartInv
<1>3. ASSUME NEW e \in Engines,
             \/ SendList(e) \/ ResendList(e) \/ LockMkdir(e) \/ ObtainMkdir(e) \/ SendChange(e)
             \/ ServerExecutes(e) \/ Parse(e) \/ StoreListing(e) \/ HandleReply(e)
             \/ Abandon(e) \/ CommandLost(e)
      PROVE  IInv'
  BY <1>3, SendListInv, ResendListInv, LockMkdirInv, ObtainMkdirInv, SendChangeInv,
     ServerExecutesInv, ParseInv, StoreListingInv, HandleReplyInv, AbandonInv, CommandLostInv, Zenon
<1>4. ASSUME NEW p \in Paths, Expires(p)
      PROVE  IInv'
  BY <1>4, ExpiresInv
<1> QED
  BY <1>1, <1>2, <1>3, <1>4, Zenon DEF Next

\* Whatever the engines do, locks for one directory are granted to one engine at
\* a time, and a listing is offered to a waiting engine only if the server was
\* asked for it after the lock was requested or the engine that held the lock
\* then has retrieved it (oplock_manager.cpp, CFtpListOpData::Send and the SFTP
\* one in list_waitlock).
THEOREM Invariance == Spec => []IInv
<1>1. Init => IInv
  BY InitInv
<1>2. IInv /\ [Next]_vars => IInv'
  BY NextInv
<1> QED
  BY <1>1, <1>2, PTL DEF Spec

\* A refresh that is answered from the cache after it waited for the lock gets a
\* listing the server was asked for after the refresh began, or the one that
\* another connection was retrieving then: m_firstListTime is compared with
\* time_before_locking_, and one lock excludes the others.
THEOREM RefreshIsCurrent == Spec => []RefreshCurrent
<1>1. IInv => RefreshCurrent
  <2> SUFFICES ASSUME IInv, NEW e \in Engines,
                      op[e].step = "waiting", op[e].cmd.kind \in Listings, op[e].refresh, Usable(e)
               PROVE  LET l == cache.dirs[op[e].cmd.path]
                      IN e \in l.seen \/ l.by = op[e].rival
    BY Zenon DEF RefreshCurrent
  <2>1. Fresh(e, op[e], op, cache.dirs)
    BY DEF IInv, AllFresh, Awaits
  <2>2. op[e].cmd.path \in DOMAIN cache.dirs /\ e \in cache.dirs[op[e].cmd.path].for
    BY Zenon DEF Usable, Found, Cached
  <2> QED
    BY <2>1, <2>2, Zenon DEF Fresh
<1> QED
  BY <1>1, Invariance, PTL
=============================================================================
