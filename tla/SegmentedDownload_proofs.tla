---------------------- MODULE SegmentedDownload_proofs ----------------------
(***************************************************************************)
(* Proofs about the download in segments, for files, options and numbers   *)
(* of segments of any size: the files on the disk are always true, and the *)
(* parts are there until the merged file is complete.                      *)
(***************************************************************************)
EXTENDS SegmentedDownload, FiniteSetTheorems, SequenceTheorems, TLAPS

-----------------------------------------------------------------------------
(* The layout.                                                             *)

\* The segments of a layout are consecutive and end where the file ends.
THEOREM SegmentsTile ==
  ASSUME NEW c \in Segments, NEW i \in 1..c
  PROVE  /\ Length(c, i) \in Nat
         /\ Offset(c, i) \in Nat
         /\ Offset(c, 1) = 0
         /\ Offset(c, i + 1) = Offset(c, i) + Length(c, i)
         /\ Offset(c, c + 1) = Total
         /\ Offset(c, i) + Length(c, i) <= Total
<1> DEFINE q == Total \div c
           r == Total % c
<1>1. c \in Nat /\ c > 0 /\ Total \in Nat
  BY SizeAssumption DEF Segments
<1>2. q \in Nat /\ r \in 0..c - 1 /\ Total = c * q + r
  BY <1>1
<1> HIDE DEF q, r
<1>3. (i - 1) * q + q = i * q
  BY <1>1, <1>2
<1>4. (i - 1) * q \in Nat /\ i * q \in Nat /\ c * q \in Nat /\ 0 * q = 0
  BY <1>1, <1>2
<1>5. i * q <= c * q
  <2>1. (c - i) * q \in Nat /\ (c - i) * q = c * q - i * q
    BY <1>1, <1>2
  <2> QED BY <2>1, <1>4
<1>6. Length(c, i) = q + IF i <= r THEN 1 ELSE 0
  BY DEF Length, q, r
<1>7. Offset(c, i) = (i - 1) * q + IF i - 1 <= r THEN i - 1 ELSE r
  BY DEF Offset, q, r
<1>8. Offset(c, i + 1) = i * q + IF i <= r THEN i ELSE r
  <2>1. i + 1 - 1 = i BY <1>1
  <2> QED BY <2>1 DEF Offset, q, r
<1>9. Offset(c, 1) = 0 * q + IF 0 <= r THEN 0 ELSE r
  <2>1. 1 - 1 = 0 OBVIOUS
  <2> QED BY <2>1 DEF Offset, q, r
<1>10. Offset(c, c + 1) = c * q + IF c <= r THEN c ELSE r
  <2>1. \A k \in Nat :
          Offset(c, k) = (k - 1) * q + IF k - 1 <= r THEN k - 1 ELSE r
    BY DEF Offset, q, r
  <2>2. c + 1 \in Nat /\ (c + 1) - 1 = c BY <1>1
  <2> QED BY <2>1, <2>2
<1>11. Length(c, i) \in Nat /\ Offset(c, i) \in Nat
  BY <1>1, <1>2, <1>4, <1>6, <1>7
<1>12. Offset(c, 1) = 0 /\ Offset(c, c + 1) = Total
  BY <1>1, <1>2, <1>4, <1>9, <1>10
<1>13. Offset(c, i + 1) = Offset(c, i) + Length(c, i)
  BY <1>1, <1>2, <1>3, <1>4, <1>6, <1>7, <1>8
<1>14. Offset(c, i + 1) <= Total
  BY <1>1, <1>2, <1>4, <1>5, <1>8
<1> QED BY <1>11, <1>12, <1>13, <1>14

\* A finite set of naturals that is not empty has a greatest element, which is
\* its Max.
LEMMA MaxProperties ==
  ASSUME NEW n \in Nat, NEW S \in SUBSET (1..n), S # {}
  PROVE  Max(S) \in S /\ \A x \in S : Max(S) >= x
<1> DEFINE Down(x) == (x + 1)..n
           T == {Down(x) : x \in S}
           R == StrictSubsetOrdering(Nat)
           F == FiniteSubsetsOf(Nat)
<1>1. IsWellFoundedOn(R, F)
  BY FS_StrictSubsetOrderingWellFounded
<1>2. T \subseteq F
  <2>1. ASSUME NEW x \in S PROVE Down(x) \in F
    <3>1. IsFiniteSet(Down(x)) BY FS_Interval
    <3>2. Down(x) \subseteq Nat OBVIOUS
    <3> QED BY <3>1, <3>2 DEF FiniteSubsetsOf
  <2> QED BY <2>1
<1>3. T # {} OBVIOUS
<1>4. PICK t \in T : \A u \in T : <<u, t>> \notin R
  <2> HIDE DEF T, R, F
  <2> QED BY <1>1, <1>2, <1>3, WFMin
<1>5. PICK m \in S : t = Down(m) OBVIOUS
<1>6. ASSUME NEW x \in S, x > m PROVE FALSE
  <2>1. /\ Down(x) \subseteq Down(m)
        /\ Down(x) # Down(m)
        /\ Down(x) \in SUBSET Nat
        /\ Down(m) \in SUBSET Nat
    <3>1. x \in Down(m) /\ x \notin Down(x) BY <1>6
    <3> QED BY <1>6, <3>1
  <2>2. <<Down(x), Down(m)>> \in R BY <2>1 DEF StrictSubsetOrdering
  <2> QED BY <2>2, <1>4, <1>5
<1>7. \A x \in S : m >= x BY <1>6
<1> HIDE DEF Down, T, R, F
<1> QED BY <1>7 DEF Max

\* The number of segments is between 1 and the value of the option.
LEMMA SegmentCountRange ==
  ASSUME NEW wanted \in Segments
  PROVE  SegmentCount(wanted) \in 1..wanted
<1> DEFINE S == {n \in 1..wanted : n = 1 \/ Total >= n * MinSize}
<1>1. wanted \in Nat /\ 1 \in 1..wanted BY SizeAssumption DEF Segments
<1>2. S \in SUBSET (1..wanted) /\ S # {} BY <1>1
<1>3. SegmentCount(wanted) = Max(S) BY DEF SegmentCount
<1> HIDE DEF S
<1>4. Max(S) \in S BY <1>1, <1>2, MaxProperties
<1> QED BY <1>2, <1>3, <1>4

-----------------------------------------------------------------------------
(* The inductive invariant.                                                *)

\* A single stream that is appended to has a local file.
StreamHasFile ==
  phase \in {"transfer", "asking"} \/ (phase = "opening" /\ resume) => local # NoFile

\* There are fewer additional connections than segments, and none without an
\* operation.
ConnectionsBounded ==
  /\ Len(conns) < layout
  /\ phase = "idle" => conns = <<>>

\* A segment asks for more until it has received its length, and is done when
\* that is on the disk.
SegmentsOrderly ==
  phase = "segmented" =>
    /\ manifest = layout
    /\ \A i \in 1..layout :
          /\ stage[i] \in {"opening", "open"} => received[i] < Length(layout, i)
          /\ stage[i] \in {"finalizing", "done"} => received[i] = Length(layout, i)
          /\ stage[i] = "done" => PartSize(i) = Length(layout, i)

\* What was given to the writer is the file up to the place that is read.
MergeOrderly ==
  phase = "concat" /\ merge.state # "over" =>
    /\ manifest = layout
    /\ \A i \in 1..layout : PartSize(i) = Length(layout, i)
    /\ \A n \in DOMAIN merge.sent : merge.sent[n] = n
    /\ merge.part \in 1..layout + 1
    /\ merge.state = "reading" =>
         /\ Len(merge.sent) = Offset(layout, merge.part) + merge.pos
         /\ merge.part <= layout => merge.pos <= Length(layout, merge.part)
         /\ merge.part = layout + 1 => merge.pos = 0
    /\ merge.state = "finalizing" => Len(merge.sent) = Total /\ local # NoFile

IInv ==
  /\ TypeOK
  /\ FilesIntact
  /\ StreamHasFile
  /\ ConnectionsBounded
  /\ SegmentsOrderly
  /\ MergeOrderly
  /\ MergeHasParts

-----------------------------------------------------------------------------
(* Files.                                                                  *)

\* A file of blocks is not the absence of a file.
LEMMA FileIsThere ==
  ASSUME NEW file \in Seq(Block)
  PROVE  file # NoFile /\ Len(file) \in Nat
<1>1. file \in Seq(Nat)
  <2>1. Block \subseteq Nat BY DEF Block
  <2>2. file \in [1..Len(file) -> Block] /\ Len(file) \in Nat OBVIOUS
  <2>3. file \in [1..Len(file) -> Nat] BY <2>1, <2>2
  <2> QED BY <2>2, <2>3
<1> QED BY <1>1, FileAssumption

\* A new file is empty, and true.
LEMMA EmptyFile ==
  ASSUME NEW from \in Nat, NEW n \in Nat
  PROVE  <<>> \in Seq(Block) /\ <<>> # NoFile /\ Holds(<<>>, from, n)
<1>1. <<>> \in Seq(Block) OBVIOUS
<1>2. Len(<<>>) = 0 /\ DOMAIN <<>> = {} OBVIOUS
<1>3. Holds(<<>>, from, n) BY <1>2 DEF Holds
<1>4. <<>> # NoFile BY <1>1, FileIsThere
<1> QED BY <1>1, <1>3, <1>4

\* A file that is continued with the block after its last stays true.
LEMMA LongerFile ==
  ASSUME NEW file \in Seq(Block), NEW from \in Nat, NEW n \in Nat,
         Holds(file, from, n), Len(file) < n, from + n <= Total
  PROVE  LET longer == Append(file, from + Len(file) + 1) IN
         /\ longer \in Seq(Block)
         /\ longer # NoFile
         /\ Holds(longer, from, n)
         /\ Len(longer) = Len(file) + 1
<1> DEFINE b == from + Len(file) + 1
           longer == Append(file, b)
<1>1. Len(file) \in Nat /\ Total \in Nat BY SizeAssumption
<1>2. b \in Block BY <1>1 DEF Block
<1>3. b = from + (Len(file) + 1) BY <1>1
<1> HIDE DEF b
<1>4. longer \in Seq(Block) /\ Len(longer) = Len(file) + 1 BY <1>2
<1>5. ASSUME NEW k \in DOMAIN longer PROVE longer[k] = from + k
  <2>1. k \in 1..Len(file) + 1 BY <1>1, <1>4
  <2>2. CASE k = Len(file) + 1 BY <2>2, <1>2, <1>3
  <2>3. CASE k # Len(file) + 1
    <3>1. k \in 1..Len(file) BY <2>1, <2>3, <1>1
    <3>2. longer[k] = file[k] BY <3>1, <1>2
    <3> QED BY <3>1, <3>2 DEF Holds
  <2> QED BY <2>2, <2>3
<1>6. Holds(longer, from, n) BY <1>1, <1>4, <1>5 DEF Holds
<1>7. longer # NoFile BY <1>4, FileIsThere
<1> QED BY <1>4, <1>6, <1>7 DEF b

\* Deleting part files leaves the others as they are.
LEMMA DeletedParts ==
  ASSUME TypeOK, NEW k \in Segments
  PROVE  /\ WithoutParts(k) \in [Segments -> File]
         /\ \A i \in Segments :
               WithoutParts(k)[i] # NoFile => i > k /\ WithoutParts(k)[i] = parts[i]
<1>1. \A i \in Segments : parts[i] \in File BY DEF TypeOK
<1>2. NoFile \in File BY DEF File
<1>3. WithoutParts(k) \in [Segments -> File] BY <1>1, <1>2 DEF WithoutParts
<1>4. \A i \in Segments : ~(i <= k) <=> i > k BY DEF Segments
<1> QED BY <1>3, <1>4 DEF WithoutParts

\* The last segment that the option allows is a segment.
LEMMA LastSegment ==
  MaxSegments \in Segments /\ 1 \in Segments
BY SizeAssumption DEF Segments

-----------------------------------------------------------------------------
(* The initial states, and the ends of an operation.                       *)

\* Without an operation only the files matter.
LEMMA NoOperationInvariant ==
  ASSUME NoOperation, FilesIntact',
         local' \in File, parts' \in [Segments -> File],
         manifest' \in {NoFile, Torn} \cup Segments,
         outcome' \in {"none", "skipped"} \cup Results
  PROVE  IInv'
<1>1. NoMerge \in MergeType
  BY SizeAssumption DEF NoMerge, Merge, MergeType
<1>2. 0 \in 0..Total /\ 0 \in 0..MaxSegments /\ 1 \in Segments
  BY SizeAssumption DEF Segments
<1>3. TypeOK'
  <2>1. merge' \in MergeType
    BY <1>1 DEF NoOperation
  <2>2. /\ stage' \in [Segments -> {"opening", "open", "finalizing", "done"}]
        /\ received' \in [Segments -> 0..Total]
        /\ channel' \in [Segments -> 0..MaxSegments]
    BY <1>2 DEF NoOperation
  <2>3. conns' \in Seq({"starting", "ready", "failed"})
    BY DEF NoOperation
  <2>4. /\ phase' \in {"idle", "asking", "opening", "transfer", "segmented", "concat"}
        /\ resume' \in BOOLEAN /\ layout' \in Segments /\ failed' \in BOOLEAN
        /\ queued' \in {"none"} \cup Results
    BY <1>2 DEF NoOperation
  <2> QED BY <2>1, <2>2, <2>3, <2>4, Zenon DEF TypeOK
<1>4. /\ StreamHasFile' /\ ConnectionsBounded' /\ SegmentsOrderly'
      /\ MergeOrderly' /\ MergeHasParts'
  BY DEF NoOperation, StreamHasFile, ConnectionsBounded, SegmentsOrderly,
         MergeOrderly, MergeHasParts
<1> QED BY <1>3, <1>4 DEF IInv

\* The program starts with an empty disk.
LEMMA InitInvariant == Init => IInv
<1> SUFFICES ASSUME Init PROVE IInv OBVIOUS
<1>1. NoMerge \in MergeType
  BY SizeAssumption DEF NoMerge, Merge, MergeType
<1>2. 0 \in 0..Total /\ 0 \in 0..MaxSegments /\ 1 \in Segments
  BY SizeAssumption DEF Segments
<1>3. TypeOK
  <2>1. merge \in MergeType
    BY <1>1 DEF Init
  <2>2. /\ stage \in [Segments -> {"opening", "open", "finalizing", "done"}]
        /\ received \in [Segments -> 0..Total]
        /\ channel \in [Segments -> 0..MaxSegments]
        /\ parts \in [Segments -> File]
    BY <1>2 DEF Init, File
  <2>3. conns \in Seq({"starting", "ready", "failed"})
    BY DEF Init
  <2>4. /\ phase \in {"idle", "asking", "opening", "transfer", "segmented", "concat"}
        /\ resume \in BOOLEAN /\ layout \in Segments /\ failed \in BOOLEAN
        /\ queued \in {"none"} \cup Results
        /\ outcome \in {"none", "skipped"} \cup Results
        /\ local \in File /\ manifest \in {NoFile, Torn} \cup Segments
    BY <1>2 DEF Init, File
  <2> QED BY <2>1, <2>2, <2>3, <2>4, Zenon DEF TypeOK
<1>4. FilesIntact
  BY DEF Init, FilesIntact
<1>5. /\ StreamHasFile /\ ConnectionsBounded /\ SegmentsOrderly
      /\ MergeOrderly /\ MergeHasParts
  BY DEF Init, StreamHasFile, ConnectionsBounded, SegmentsOrderly,
         MergeOrderly, MergeHasParts
<1> QED BY <1>3, <1>4, <1>5 DEF IInv

\* Deleting some of the part files, or all of them and then the manifest,
\* leaves true files.
LEMMA DeletingKeepsTruth ==
  ASSUME TypeOK, FilesIntact, NEW k \in Segments, parts' = WithoutParts(k),
         local' = local,
         manifest' = manifest \/ k = MaxSegments \/ manifest = k
  PROVE  parts' \in [Segments -> File] /\ FilesIntact'
<1>1. /\ WithoutParts(k) \in [Segments -> File]
      /\ \A i \in Segments :
            WithoutParts(k)[i] # NoFile => i > k /\ WithoutParts(k)[i] = parts[i]
  BY DeletedParts
<1>2. ASSUME NEW i \in Segments, parts'[i] # NoFile
      PROVE  /\ manifest' \in i..MaxSegments
             /\ Holds(parts'[i], Offset(manifest', i), Length(manifest', i))
  <2>1. i > k /\ parts'[i] = parts[i] BY <1>1, <1>2
  <2>2. /\ manifest \in i..MaxSegments
        /\ Holds(parts[i], Offset(manifest, i), Length(manifest, i))
    BY <1>2, <2>1 DEF FilesIntact
  <2>3. k # MaxSegments /\ manifest # k
    BY <2>1, <2>2, SizeAssumption DEF Segments
  <2> QED BY <2>1, <2>2, <2>3
<1>3. local' # NoFile => Holds(local', 0, Total)
  BY DEF FilesIntact
<1> QED BY <1>1, <1>2, <1>3 DEF FilesIntact

\* Every way to end an operation leaves true files.
LEMMA ResetInvariant ==
  ASSUME IInv, NEW result \in Results, Reset(result)
  PROVE  IInv'
<1> USE DEF IInv
<1>1. parts' \in [Segments -> File] /\ manifest' \in {NoFile, Torn} \cup Segments
  <2>1. CASE DeleteSegmentFiles(MaxSegments)
    BY <2>1, LastSegment, DeletedParts DEF DeleteSegmentFiles
  <2>2. CASE UNCHANGED <<parts, manifest>>
    BY <2>2 DEF TypeOK
  <2> QED BY <2>1, <2>2 DEF Reset
<1>2. local' \in {local, NoFile} /\ local' \in File
  BY DEF Reset, TypeOK, File
<1>3. \A i \in Segments : parts'[i] # NoFile => parts'[i] = parts[i] /\ manifest' = manifest
  <2>1. CASE DeleteSegmentFiles(MaxSegments)
    <3>1. \A i \in Segments : WithoutParts(MaxSegments)[i] # NoFile => i > MaxSegments
      BY LastSegment, DeletedParts
    <3>2. \A i \in Segments : ~(i > MaxSegments) BY SizeAssumption DEF Segments
    <3> QED BY <2>1, <3>1, <3>2 DEF DeleteSegmentFiles
  <2>2. CASE UNCHANGED <<parts, manifest>>
    BY <2>2
  <2> QED BY <2>1, <2>2 DEF Reset
<1>4. FilesIntact'
  BY <1>2, <1>3 DEF FilesIntact
<1>5. outcome' \in {"none", "skipped"} \cup Results
  BY DEF Reset
<1>6. NoOperation
  BY DEF Reset
<1> QED BY <1>1, <1>2, <1>4, <1>5, <1>6, NoOperationInvariant

\* The process dies, possibly while it deletes.
LEMMA CrashInvariant ==
  ASSUME IInv, Crash \/ CrashDeleting
  PROVE  IInv'
<1> USE DEF IInv
<1>1. CASE Crash
  <2>1. UNCHANGED disk /\ outcome' = "none" /\ NoOperation BY <1>1 DEF Crash
  <2>2. FilesIntact' BY <2>1 DEF FilesIntact, disk
  <2>3. /\ local' \in File /\ parts' \in [Segments -> File]
        /\ manifest' \in {NoFile, Torn} \cup Segments
    BY <2>1 DEF TypeOK, disk
  <2> QED BY <2>1, <2>2, <2>3, NoOperationInvariant
<1>2. CASE CrashDeleting
  <2>1. PICK k \in Segments : parts' = WithoutParts(k) BY <1>2 DEF CrashDeleting
  <2>2. /\ local' = local /\ manifest' = manifest /\ outcome' = "none" /\ NoOperation
    BY <1>2 DEF CrashDeleting
  <2>3. parts' \in [Segments -> File] /\ FilesIntact'
    BY <2>1, <2>2, DeletingKeepsTruth
  <2>4. local' \in File /\ manifest' \in {NoFile, Torn} \cup Segments
    BY <2>2 DEF TypeOK
  <2> QED BY <2>2, <2>3, <2>4, NoOperationInvariant
<1> QED BY <1>1, <1>2

-----------------------------------------------------------------------------
(* Steps that neither touch a file nor advance the transfer.               *)

\* The connections, the failure flag and the queued result may change freely.
LEMMA ControlInvariant ==
  ASSUME IInv, UNCHANGED <<disk, phase, resume, layout, segs, merge>>,
         conns' \in Seq({"starting", "ready", "failed"}), ConnectionsBounded',
         failed' \in BOOLEAN, queued' \in {"none"} \cup Results,
         outcome' \in {"none", "skipped"} \cup Results
  PROVE  IInv'
<1> USE DEF IInv
<1>1. TypeOK' BY DEF TypeOK, disk, segs
<1>2. FilesIntact' BY DEF FilesIntact, disk
<1>3. StreamHasFile' BY DEF StreamHasFile, disk
<1>4. SegmentsOrderly' BY DEF SegmentsOrderly, PartSize, disk, segs
<1>5. MergeOrderly' BY DEF MergeOrderly, PartSize, disk
<1>6. MergeHasParts' BY DEF MergeHasParts, PartSize, disk
<1> QED BY <1>1, <1>2, <1>3, <1>4, <1>5, <1>6

\* A result that is queued is one of the results.
LEMMA TriggerResetType ==
  ASSUME IInv, NEW result \in Results, TriggerReset(result)
  PROVE  queued' \in {"none"} \cup Results
BY DEF IInv, TypeOK, TriggerReset

\* SingleEnd, SingleError and SegmentError only queue a result.
LEMMA ErrorInvariant ==
  ASSUME IInv, SingleEnd \/ SingleError \/ \E i \in 1..layout : SegmentError(i)
  PROVE  IInv'
<1>1. /\ UNCHANGED <<disk, phase, resume, layout, segs, merge, conns, outcome>>
      /\ \E result \in Results : TriggerReset(result)
      /\ failed' \in {failed, TRUE}
  <2>1. CASE SingleEnd
    BY <2>1 DEF SingleEnd, Results
  <2>2. CASE SingleError
    BY <2>2 DEF SingleError, Results
  <2>3. CASE \E i \in 1..layout : SegmentError(i)
    BY <2>3 DEF SegmentError, Fail, Results
  <2> QED BY <2>1, <2>2, <2>3
<1>2. queued' \in {"none"} \cup Results
  BY <1>1, TriggerResetType
<1>3. ConnectionsBounded'
  BY <1>1 DEF IInv, ConnectionsBounded
<1>4. /\ conns' \in Seq({"starting", "ready", "failed"})
      /\ failed' \in BOOLEAN
      /\ outcome' \in {"none", "skipped"} \cup Results
  BY <1>1 DEF IInv, TypeOK
<1> QED BY <1>1, <1>2, <1>3, <1>4, ControlInvariant

\* The state of a connection changes, and the next one may be started.
LEMMA StartNextConnections ==
  ASSUME IInv, NEW k \in DOMAIN conns, NEW state \in {"starting", "ready", "failed"},
         \/ conns' = [conns EXCEPT ![k] = state]
         \/ StartNext([conns EXCEPT ![k] = state]),
         UNCHANGED <<phase, layout>>
  PROVE  conns' \in Seq({"starting", "ready", "failed"}) /\ ConnectionsBounded'
<1> DEFINE States == {"starting", "ready", "failed"}
           cs == [conns EXCEPT ![k] = state]
<1>1. /\ conns \in Seq(States) /\ layout \in Nat
      /\ Len(conns) < layout /\ (phase = "idle" => conns = <<>>)
  BY SizeAssumption DEF IInv, TypeOK, ConnectionsBounded, Segments
<1>2. cs \in Seq(States) /\ Len(cs) = Len(conns)
  BY <1>1, ExceptSeq
<1>3. phase # "idle"
  BY <1>1
<1> HIDE DEF cs
<1>4. CASE conns' = cs
  BY <1>1, <1>2, <1>3, <1>4 DEF ConnectionsBounded
<1>5. CASE conns' = Append(cs, "starting") /\ Len(cs) + 1 < layout
  <2>1. conns' \in Seq(States) /\ Len(conns') = Len(cs) + 1 BY <1>2, <1>5
  <2> QED BY <1>1, <1>3, <1>5, <2>1 DEF ConnectionsBounded
<1>6. conns' = cs \/ (conns' = Append(cs, "starting") /\ Len(cs) + 1 < layout)
  BY DEF StartNext, cs
<1> QED BY <1>4, <1>5, <1>6

\* ConnectionFailed, ConnectionDropped and HostkeyMismatch leave the segments
\* where they are.
LEMMA ConnectionLostInvariant ==
  ASSUME IInv, NEW k \in DOMAIN conns,
         ConnectionFailed(k) \/ ConnectionDropped(k) \/ HostkeyMismatch(k)
  PROVE  IInv'
<1>1. /\ UNCHANGED <<disk, phase, resume, layout, segs, merge, outcome>>
      /\ \/ conns' = [conns EXCEPT ![k] = "failed"]
         \/ StartNext([conns EXCEPT ![k] = "failed"])
      /\ failed' \in {failed, TRUE}
      /\ UNCHANGED queued \/ \E result \in Results : TriggerReset(result)
  <2>1. CASE ConnectionFailed(k)
    BY <2>1 DEF ConnectionFailed
  <2>2. CASE ConnectionDropped(k)
    BY <2>2 DEF ConnectionDropped, Fail, Results
  <2>3. CASE HostkeyMismatch(k)
    BY <2>3 DEF HostkeyMismatch, Fail, Results
  <2> QED BY <2>1, <2>2, <2>3
<1>2. conns' \in Seq({"starting", "ready", "failed"}) /\ ConnectionsBounded'
  BY <1>1, StartNextConnections
<1>3. queued' \in {"none"} \cup Results
  BY <1>1, TriggerResetType DEF IInv, TypeOK
<1>4. /\ failed' \in BOOLEAN
      /\ outcome' \in {"none", "skipped"} \cup Results
  BY <1>1 DEF IInv, TypeOK
<1> QED BY <1>1, <1>2, <1>3, <1>4, ControlInvariant

\* ConnectionReady moves a segment to the connection and opens it again.
LEMMA ConnectionReadyInvariant ==
  ASSUME IInv, NEW k \in DOMAIN conns, ConnectionReady(k)
  PROVE  IInv'
<1> USE DEF IInv
<1>1. UNCHANGED <<disk, phase, resume, layout, received, merge, failed, queued, outcome>>
  BY DEF ConnectionReady
<1>2. conns' \in Seq({"starting", "ready", "failed"}) /\ ConnectionsBounded'
  BY <1>1, StartNextConnections DEF ConnectionReady
<1>3. k + 1 \in 1..layout /\ k \in 0..MaxSegments
  <2>1. k \in 1..Len(conns) /\ Len(conns) \in Nat BY DEF TypeOK
  <2>2. layout \in 1..MaxSegments /\ Len(conns) < layout
    BY DEF TypeOK, Segments, ConnectionsBounded
  <2> QED BY <2>1, <2>2, SizeAssumption
<1>4. \/ UNCHANGED <<channel, stage>>
      \/ /\ stage[k + 1] \in {"opening", "open"}
         /\ channel' = [channel EXCEPT ![k + 1] = k]
         /\ stage' = [stage EXCEPT ![k + 1] = "opening"]
  BY DEF ConnectionReady
<1>5. 1..layout \subseteq Segments
  BY SizeAssumption DEF TypeOK, Segments
<1>6. /\ stage' \in [Segments -> {"opening", "open", "finalizing", "done"}]
      /\ channel' \in [Segments -> 0..MaxSegments]
  BY <1>3, <1>4 DEF TypeOK
<1>7. TypeOK' BY <1>1, <1>2, <1>6 DEF TypeOK, disk
<1>8. FilesIntact' BY <1>1 DEF FilesIntact, disk
<1>9. StreamHasFile' BY <1>1 DEF StreamHasFile, disk
<1>10. SegmentsOrderly'
  <2>1. \A i \in 1..layout : stage'[i] = stage[i] \/
           (stage'[i] = "opening" /\ stage[i] \in {"opening", "open"})
    BY <1>3, <1>4, <1>5 DEF TypeOK
  <2> QED BY <1>1, <2>1 DEF SegmentsOrderly, PartSize, disk
<1>11. MergeOrderly' BY <1>1 DEF MergeOrderly, PartSize, disk
<1>12. MergeHasParts' BY <1>1 DEF MergeHasParts, PartSize, disk
<1> QED BY <1>2, <1>7, <1>8, <1>9, <1>10, <1>11, <1>12

-----------------------------------------------------------------------------
(* The single stream.                                                      *)

\* The start of a single stream deletes stale parts, and continues a local
\* file only if there is one.
LEMMA StartSingleInvariant ==
  ASSUME IInv, NEW res \in BOOLEAN, StartSingle(res), res => local # NoFile
  PROVE  IInv'
<1> USE DEF IInv
<1>1. /\ UNCHANGED <<local, layout, segs, conns, failed, merge, queued>>
      /\ phase' = "opening" /\ resume' = res /\ outcome' = "none"
      /\ \/ DeleteSegmentFiles(MaxSegments)
         \/ UNCHANGED <<parts, manifest>>
  BY DEF StartSingle
<1>2. parts' \in [Segments -> File] /\ FilesIntact'
  <2>1. CASE DeleteSegmentFiles(MaxSegments)
    BY <1>1, <2>1, LastSegment, DeletingKeepsTruth DEF DeleteSegmentFiles
  <2>2. CASE UNCHANGED <<parts, manifest>>
    BY <1>1, <2>2 DEF FilesIntact, TypeOK
  <2> QED BY <1>1, <2>1, <2>2
<1>3. manifest' \in {NoFile, Torn} \cup Segments
  BY <1>1 DEF DeleteSegmentFiles, TypeOK
<1>4. TypeOK' BY <1>1, <1>2, <1>3 DEF TypeOK, segs
<1>5. StreamHasFile' BY <1>1 DEF StreamHasFile
<1>6. ConnectionsBounded' BY <1>1 DEF ConnectionsBounded
<1>7. SegmentsOrderly' /\ MergeOrderly' /\ MergeHasParts'
  BY <1>1 DEF SegmentsOrderly, MergeOrderly, MergeHasParts
<1> QED BY <1>2, <1>4, <1>5, <1>6, <1>7

\* The stream is opened, and a block is written to the local file.
LEMMA SingleInvariant ==
  ASSUME IInv, SingleOpened \/ SingleData
  PROVE  IInv'
<1> USE DEF IInv
<1>1. /\ UNCHANGED <<parts, manifest, resume, layout, segs, conns, failed, merge,
                     queued, outcome>>
      /\ phase' = "transfer"
  BY DEF SingleOpened, SingleData
<1>2. local' \in Seq(Block) /\ local' # NoFile /\ Holds(local', 0, Total)
  <2>1. CASE SingleOpened /\ ~resume
    <3>1. local' = <<>> BY <2>1 DEF SingleOpened
    <3>2. 0 \in Nat /\ Total \in Nat BY SizeAssumption
    <3> QED BY <3>1, <3>2, EmptyFile
  <2>2. CASE SingleOpened /\ resume
    BY <2>2 DEF SingleOpened, StreamHasFile, FilesIntact, TypeOK, File
  <2>3. CASE SingleData
    <3>1. /\ phase = "transfer" /\ Len(local) < Total
          /\ local' = Append(local, Len(local) + 1)
      BY <2>3 DEF SingleData
    <3>2. local # NoFile BY <3>1 DEF StreamHasFile
    <3>3. local \in Seq(Block) /\ Holds(local, 0, Total)
      BY <3>2 DEF TypeOK, File, FilesIntact
    <3>4. 0 + Len(local) + 1 = Len(local) + 1 BY <3>3
    <3>5. 0 \in Nat /\ Total \in Nat /\ 0 + Total <= Total BY SizeAssumption
    <3>6. local' = Append(local, 0 + Len(local) + 1) BY <3>1, <3>4
    <3> QED BY <3>1, <3>3, <3>5, <3>6, LongerFile
  <2> QED BY <2>1, <2>2, <2>3
<1>3. TypeOK' BY <1>1, <1>2 DEF TypeOK, File, segs
<1>4. FilesIntact' BY <1>1, <1>2 DEF FilesIntact
<1>5. StreamHasFile' BY <1>2 DEF StreamHasFile
<1>6. ConnectionsBounded' BY <1>1 DEF ConnectionsBounded
<1>7. SegmentsOrderly' /\ MergeOrderly' /\ MergeHasParts'
  BY <1>1 DEF SegmentsOrderly, MergeOrderly, MergeHasParts
<1> QED BY <1>3, <1>4, <1>5, <1>6, <1>7

-----------------------------------------------------------------------------
(* The segments.                                                           *)

\* start_concat: the merge starts at the first block of complete parts.
LEMMA StartConcatInvariant ==
  ASSUME IInv, StartConcat, layout' \in Segments, manifest' = layout',
         parts' \in [Segments -> File],
         \A i \in Segments :
            parts'[i] # NoFile =>
               /\ manifest' \in i..MaxSegments
               /\ Holds(parts'[i], Offset(manifest', i), Length(manifest', i)),
         \A i \in 1..layout' : PartSize(i)' = Length(layout', i)
  PROVE  /\ local' \in File /\ phase' = "concat" /\ merge' \in MergeType
         /\ queued' \in {"none"} \cup Results
         /\ FilesIntact' /\ StreamHasFile' /\ SegmentsOrderly' /\ MergeOrderly'
         /\ MergeHasParts'
<1>1. /\ phase' = "concat" /\ merge' = NoMerge
      /\ local' \in {<<>>, local}
      /\ UNCHANGED queued \/ TriggerReset("error")
  BY DEF StartConcat
<1>2. local' \in File /\ (local' # NoFile => Holds(local', 0, Total))
  <2>1. 0 \in Nat /\ Total \in Nat BY SizeAssumption
  <2> QED BY <1>1, <2>1, EmptyFile DEF IInv, TypeOK, FilesIntact, File
<1>3. queued' \in {"none"} \cup Results
  BY <1>1, TriggerResetType DEF IInv, TypeOK, Results
<1>4. merge' \in MergeType
  BY <1>1, SizeAssumption DEF NoMerge, Merge, MergeType
<1>5. FilesIntact'
  BY <1>2 DEF FilesIntact
<1>6. StreamHasFile' /\ SegmentsOrderly'
  BY <1>1 DEF StreamHasFile, SegmentsOrderly
<1>7. MergeOrderly'
  <2>1. /\ merge'.part = 1 /\ merge'.pos = 0 /\ merge'.sent = <<>>
        /\ merge'.state = "reading"
    BY <1>1 DEF NoMerge, Merge
  <2>2. Len(<<>>) = 0 /\ DOMAIN <<>> = {} OBVIOUS
  <2>3. 1 \in 1..layout' /\ 1 <= layout' /\ 1 # layout' + 1 /\ 1 \in 1..layout' + 1
    <3>1. \A c \in Segments : 1 \in 1..c /\ 1 <= c /\ 1 # c + 1 /\ 1 \in 1..c + 1
      BY SizeAssumption DEF Segments
    <3> QED BY <3>1
  <2>4. Offset(layout', 1) = 0 /\ Length(layout', 1) \in Nat
    BY <2>3, SegmentsTile
  <2> HIDE DEF Merge
  <2> QED BY <2>1, <2>2, <2>3, <2>4 DEF MergeOrderly
<1>8. MergeHasParts'
  BY DEF MergeHasParts
<1> QED BY <1>1, <1>2, <1>3, <1>4, <1>5, <1>6, <1>7, <1>8

\* Which files a segmented attempt finds or makes: those of its own layout.
LEMMA ResumedParts ==
  ASSUME IInv, NEW c \in Segments,
         IF Resumable(c) THEN UNCHANGED <<parts, manifest>>
         ELSE parts' = WithoutParts(MaxSegments) /\ manifest' = c,
         received' = [i \in Segments |-> SizeRead(c, i)]
  PROVE  /\ manifest' = c
         /\ parts' \in [Segments -> File]
         /\ \A i \in Segments :
               parts'[i] # NoFile =>
                  /\ manifest' \in i..MaxSegments
                  /\ Holds(parts'[i], Offset(manifest', i), Length(manifest', i))
         /\ received' \in [Segments -> 0..Total]
         /\ \A i \in 1..c : received'[i] = PartSize(i)' /\ received'[i] <= Length(c, i)
<1> USE DEF IInv
<1>1. 1..c \subseteq Segments
  BY SizeAssumption DEF Segments
<1>2. \A i \in 1..c : Length(c, i) \in 0..Total
  <2>1. ASSUME NEW i \in 1..c PROVE Length(c, i) \in 0..Total
    <3>1. /\ Length(c, i) \in Nat /\ Offset(c, i) \in Nat
          /\ Offset(c, i) + Length(c, i) <= Total
      BY SegmentsTile
    <3> QED BY <3>1, SizeAssumption
  <2> QED BY <2>1
<1>3. \A i \in Segments : PartSize(i) \in Nat
  BY FileIsThere DEF PartSize, TypeOK, File
<1>4. CASE Resumable(c)
  <2>1. /\ UNCHANGED <<parts, manifest>> /\ manifest = c
        /\ \A i \in 1..c : PartSize(i) <= Length(c, i)
        /\ received' = [i \in Segments |-> IF i <= c THEN PartSize(i) ELSE 0]
    <3>1. ASSUME NEW i \in Segments
          PROVE  SizeRead(c, i) = IF i <= c THEN PartSize(i) ELSE 0
      <4>1. i <= c => \A k \in 1..i : k \in 1..c BY DEF Segments
      <4> QED BY <1>4, <4>1 DEF Resumable, SizeRead
    <3> QED BY <1>4, <3>1 DEF Resumable
  <2>2. ASSUME NEW i \in Segments PROVE received'[i] \in 0..Total
    <3>1. CASE i <= c
      <4>1. i \in 1..c BY <3>1 DEF Segments
      <4> QED BY <1>2, <1>3, <2>1, <3>1, <4>1, SizeAssumption
    <3>2. CASE ~(i <= c)
      BY <2>1, <3>2, SizeAssumption
    <3> QED BY <3>1, <3>2
  <2>3. received' \in [Segments -> 0..Total]
    BY <2>1, <2>2
  <2>4. \A i \in 1..c : received'[i] = PartSize(i)' /\ received'[i] <= Length(c, i)
    <3>1. ASSUME NEW i \in 1..c
          PROVE  received'[i] = PartSize(i)' /\ received'[i] <= Length(c, i)
      <4>1. i \in Segments /\ i <= c BY <1>1
      <4>2. PartSize(i)' = PartSize(i) BY <2>1 DEF PartSize
      <4> QED BY <2>1, <4>1, <4>2
    <3> QED BY <3>1
  <2> QED BY <2>1, <2>3, <2>4 DEF TypeOK, FilesIntact
<1>5. CASE ~Resumable(c)
  <2>1. /\ parts' = WithoutParts(MaxSegments) /\ manifest' = c
        /\ received' = [i \in Segments |-> 0]
    <3>1. ASSUME manifest = c PROVE Resumable(c)
      <4>1. ASSUME NEW i \in 1..c PROVE PartSize(i) <= Length(c, i)
        <5>1. CASE parts[i] = NoFile
          BY <1>2, <5>1, SizeAssumption DEF PartSize
        <5>2. CASE parts[i] # NoFile
          BY <1>1, <3>1, <5>2 DEF PartSize, FilesIntact, Holds
        <5> QED BY <5>1, <5>2
      <4> QED BY <3>1, <4>1 DEF Resumable
    <3>2. \A i \in Segments : SizeRead(c, i) = 0
      BY <1>5, <3>1 DEF SizeRead
    <3> QED BY <1>5, <3>2
  <2>2. parts' \in [Segments -> File]
    BY <2>1, LastSegment, DeletedParts
  <2>3. \A i \in Segments : parts'[i] = NoFile
    BY <2>1 DEF WithoutParts, Segments
  <2>4. received' \in [Segments -> 0..Total]
    BY <2>1, SizeAssumption
  <2>5. \A i \in 1..c : received'[i] = PartSize(i)' /\ received'[i] <= Length(c, i)
    BY <1>1, <1>2, <2>1, <2>3 DEF PartSize
  <2> QED BY <2>1, <2>2, <2>3, <2>4, <2>5
<1> QED BY <1>4, <1>5

\* start_segmented, whether or not the attempt finds all parts complete.
LEMMA StartSegmentedInvariant ==
  ASSUME IInv, phase = "idle", NEW c \in Segments, c > 1, StartSegmented(c)
  PROVE  IInv'
<1> USE DEF IInv
<1>1. /\ layout' = c /\ outcome' = "none"
      /\ UNCHANGED <<resume, channel, failed>>
      /\ stage' = [i \in Segments |->
                     IF i <= c /\ received'[i] >= Length(c, i) THEN "done" ELSE "opening"]
  BY DEF StartSegmented
<1>2. /\ manifest' = c
      /\ parts' \in [Segments -> File]
      /\ \A i \in Segments :
            parts'[i] # NoFile =>
               /\ manifest' \in i..MaxSegments
               /\ Holds(parts'[i], Offset(manifest', i), Length(manifest', i))
      /\ received' \in [Segments -> 0..Total]
      /\ \A i \in 1..c : received'[i] = PartSize(i)' /\ received'[i] <= Length(c, i)
  BY ResumedParts DEF StartSegmented
<1>3. 1..c \subseteq Segments /\ c \in Nat
  BY SizeAssumption DEF Segments
<1>4. \A i \in 1..c : Length(c, i) \in Nat
  BY SegmentsTile
<1>5. stage' \in [Segments -> {"opening", "open", "finalizing", "done"}]
  BY <1>1
<1>6. \A i \in 1..c : received'[i] \in Nat /\ i <= c
  BY <1>2, <1>3
<1>7. ASSUME NEW i \in 1..c
      PROVE  \/ stage'[i] = "opening" /\ received'[i] < Length(c, i)
             \/ stage'[i] = "done" /\ received'[i] = Length(c, i)
  <2>1. /\ received'[i] \in Nat /\ Length(c, i) \in Nat
        /\ received'[i] <= Length(c, i) /\ i \in Segments /\ i <= c
    BY <1>2, <1>3, <1>4, <1>6
  <2>2. stage'[i] = IF received'[i] >= Length(c, i) THEN "done" ELSE "opening"
    BY <1>1, <2>1
  <2> QED BY <2>1, <2>2
<1>8. conns = <<>>
  BY DEF ConnectionsBounded
<1>9. CASE /\ \A i \in 1..c : stage'[i] = "done"
           /\ StartConcat /\ UNCHANGED conns
  <2>1. \A i \in 1..layout' : PartSize(i)' = Length(layout', i)
    BY <1>1, <1>2, <1>7, <1>9
  <2>2. /\ local' \in File /\ phase' = "concat" /\ merge' \in MergeType
        /\ queued' \in {"none"} \cup Results
        /\ FilesIntact' /\ StreamHasFile' /\ SegmentsOrderly' /\ MergeOrderly'
        /\ MergeHasParts'
    BY <1>1, <1>2, <1>9, <2>1, StartConcatInvariant
  <2>3. ConnectionsBounded'
    <3>1. Len(<<>>) = 0 OBVIOUS
    <3> QED BY <1>1, <1>3, <1>8, <1>9, <2>2, <3>1 DEF ConnectionsBounded
  <2>4. TypeOK' BY <1>1, <1>2, <1>5, <1>9, <2>2 DEF TypeOK
  <2> QED BY <2>2, <2>3, <2>4
<1>10. CASE /\ phase' = "segmented" /\ conns' = <<"starting">>
            /\ UNCHANGED <<local, merge, queued>>
  <2>1. FilesIntact'
    BY <1>2, <1>10 DEF FilesIntact
  <2>2. StreamHasFile' /\ MergeOrderly' /\ MergeHasParts'
    BY <1>10 DEF StreamHasFile, MergeOrderly, MergeHasParts
  <2>3. conns' \in Seq({"starting", "ready", "failed"}) /\ Len(conns') = 1
    BY <1>10
  <2>4. ConnectionsBounded'
    BY <1>1, <1>10, <2>3 DEF ConnectionsBounded
  <2>5. SegmentsOrderly'
    <3>1. ASSUME NEW i \in 1..c
          PROVE  /\ stage'[i] \in {"opening", "open"} => received'[i] < Length(c, i)
                 /\ stage'[i] \in {"finalizing", "done"} => received'[i] = Length(c, i)
                 /\ stage'[i] = "done" => PartSize(i)' = Length(c, i)
      BY <1>2, <1>7
    <3> QED BY <1>1, <1>2, <3>1 DEF SegmentsOrderly
  <2>6. TypeOK' BY <1>1, <1>2, <1>5, <1>10, <2>3 DEF TypeOK
  <2> QED BY <2>1, <2>2, <2>4, <2>5, <2>6
<1> QED BY <1>9, <1>10 DEF StartSegmented

\* Start, whichever transfer it chooses.
LEMMA StartInvariant ==
  ASSUME IInv, Start
  PROVE  IInv'
<1> USE DEF IInv
<1>1. CASE /\ phase' = "asking" /\ local # NoFile /\ outcome' = "none"
           /\ UNCHANGED <<disk, resume, layout, segs, conns, failed, merge, queued>>
  <2>1. TypeOK' BY <1>1 DEF TypeOK, disk, segs
  <2>2. FilesIntact' BY <1>1 DEF FilesIntact, disk
  <2>3. StreamHasFile' /\ ConnectionsBounded'
    BY <1>1 DEF StreamHasFile, ConnectionsBounded, disk
  <2>4. SegmentsOrderly' /\ MergeOrderly' /\ MergeHasParts'
    BY <1>1 DEF SegmentsOrderly, MergeOrderly, MergeHasParts
  <2> QED BY <2>1, <2>2, <2>3, <2>4
<1>2. CASE StartSingle(FALSE)
  BY <1>2, StartSingleInvariant
<1>3. ASSUME phase = "idle", NEW wanted \in Segments, SegmentCount(wanted) > 1,
             StartSegmented(SegmentCount(wanted))
      PROVE  IInv'
  <2>1. SegmentCount(wanted) \in Segments
    <3>1. SegmentCount(wanted) \in 1..wanted BY SegmentCountRange
    <3>2. 1..wanted \subseteq Segments BY SizeAssumption DEF Segments
    <3> QED BY <3>1, <3>2
  <2> QED BY <1>3, <2>1, StartSegmentedInvariant
<1>4. ASSUME phase = "idle", NEW c, StartSegmentedFails(c)
      PROVE  IInv'
  <2>1. /\ UNCHANGED <<local, phase, resume, layout, segs, conns, failed, merge, queued>>
        /\ parts' = WithoutParts(MaxSegments)
        /\ manifest' \in {NoFile, Torn} /\ outcome' = "error"
    BY <1>4 DEF StartSegmentedFails
  <2>2. parts' \in [Segments -> File] /\ FilesIntact'
    BY <2>1, LastSegment, DeletingKeepsTruth
  <2>3. TypeOK' BY <2>1, <2>2 DEF TypeOK, segs, Results
  <2>4. StreamHasFile' /\ ConnectionsBounded' /\ SegmentsOrderly' /\ MergeOrderly'
        /\ MergeHasParts'
    BY <1>4, <2>1 DEF StreamHasFile, ConnectionsBounded, SegmentsOrderly, MergeOrderly,
                      MergeHasParts
  <2> QED BY <2>2, <2>3, <2>4
<1>5. phase = "idle" BY DEF Start
<1> QED BY <1>1, <1>2, <1>3, <1>4, <1>5 DEF Start

\* The answer to the question about the local file.
LEMMA AnswerInvariant ==
  ASSUME IInv, Answer
  PROVE  IInv'
<1>1. phase = "asking" /\ local # NoFile
  BY DEF Answer, IInv, StreamHasFile
<1>2. CASE StartSingle(FALSE) BY <1>2, StartSingleInvariant
<1>3. CASE StartSingle(TRUE) BY <1>1, <1>3, StartSingleInvariant
<1>4. CASE Reset("ok") BY <1>4, ResetInvariant DEF Results
<1> QED BY <1>2, <1>3, <1>4 DEF Answer

\* The steps of one segment: its part is opened or continued, or a block is
\* received.
LEMMA SegmentFacts ==
  ASSUME IInv, phase = "segmented", NEW i \in 1..layout
  PROVE  /\ i \in Segments /\ layout \in Segments /\ manifest = layout
         /\ Length(layout, i) \in 0..Total /\ Offset(layout, i) \in Nat
         /\ Offset(layout, i) + Length(layout, i) <= Total
         /\ received[i] \in 0..Length(layout, i)
<1> USE DEF IInv
<1>1. i \in Segments /\ layout \in Segments /\ manifest = layout
  BY SizeAssumption DEF TypeOK, Segments, SegmentsOrderly
<1>2. /\ Length(layout, i) \in Nat /\ Offset(layout, i) \in Nat
      /\ Offset(layout, i) + Length(layout, i) <= Total
  BY <1>1, SegmentsTile
<1>3. received[i] \in Nat /\ received[i] <= Length(layout, i)
  <2>1. received[i] \in 0..Total BY <1>1 DEF TypeOK
  <2>2. stage[i] \in {"opening", "open", "finalizing", "done"}
    BY <1>1 DEF TypeOK
  <2>3. received[i] < Length(layout, i) \/ received[i] = Length(layout, i)
    BY <2>2 DEF SegmentsOrderly
  <2> QED BY <1>2, <2>1, <2>3
<1> QED BY <1>1, <1>2, <1>3, SizeAssumption

\* on_segment_open, and the writer's thread, change one part file.
LEMMA PartWrittenInvariant ==
  ASSUME IInv, NEW i \in 1..layout, SegmentOpened(i) \/ WritePart(i)
  PROVE  IInv'
<1> USE DEF IInv
<1>1. /\ phase = "segmented"
      /\ UNCHANGED <<local, manifest, phase, resume, layout, received, channel, conns,
                     failed, merge, queued, outcome>>
  BY DEF SegmentOpened, WritePart, Active, segs
<1>2. /\ i \in Segments /\ layout \in Segments /\ manifest = layout
      /\ Length(layout, i) \in 0..Total /\ Offset(layout, i) \in Nat
      /\ Offset(layout, i) + Length(layout, i) <= Total
      /\ received[i] \in 0..Length(layout, i)
  BY <1>1, SegmentFacts
<1>3. Length(layout, i) \in Nat BY <1>2
<1>4. PICK file \in Seq(Block) :
         /\ parts' = [parts EXCEPT ![i] = file]
         /\ file # NoFile
         /\ Holds(file, Offset(layout, i), Length(layout, i))
         /\ \/ Len(file) <= received[i] /\ UNCHANGED stage
            \/ stage[i] = "opening" /\ stage' = [stage EXCEPT ![i] = "open"]
  <2>1. CASE SegmentOpened(i) /\ parts[i] = NoFile
    <3>1. /\ parts' = [parts EXCEPT ![i] = <<>>]
          /\ stage[i] = "opening" /\ stage' = [stage EXCEPT ![i] = "open"]
      BY <2>1 DEF SegmentOpened
    <3> QED BY <1>2, <1>3, <3>1, EmptyFile
  <2>2. CASE SegmentOpened(i) /\ parts[i] # NoFile
    <3>1. /\ parts' = [parts EXCEPT ![i] = parts[i]]
          /\ stage[i] = "opening" /\ stage' = [stage EXCEPT ![i] = "open"]
      BY <2>2 DEF SegmentOpened
    <3>2. parts[i] \in Seq(Block) BY <1>2, <2>2 DEF TypeOK, File
    <3>3. Holds(parts[i], Offset(layout, i), Length(layout, i))
      BY <1>2, <2>2 DEF FilesIntact
    <3> QED BY <2>2, <3>1, <3>2, <3>3
  <2>3. CASE WritePart(i)
    <3> DEFINE longer == Append(parts[i], Offset(layout, i) + Len(parts[i]) + 1)
    <3>1. /\ parts[i] # NoFile /\ Len(parts[i]) < received[i]
          /\ parts' = [parts EXCEPT ![i] = longer]
          /\ UNCHANGED stage
      BY <2>3 DEF WritePart, segs
    <3>2. parts[i] \in Seq(Block) BY <1>2, <3>1 DEF TypeOK, File
    <3>3. Holds(parts[i], Offset(layout, i), Length(layout, i))
      BY <1>2, <3>1 DEF FilesIntact
    <3>4. Len(parts[i]) \in Nat /\ Len(parts[i]) < Length(layout, i)
      BY <1>2, <3>1, <3>2
    <3>5. /\ longer \in Seq(Block) /\ longer # NoFile
          /\ Holds(longer, Offset(layout, i), Length(layout, i))
          /\ Len(longer) = Len(parts[i]) + 1
      BY <1>2, <1>3, <3>2, <3>3, <3>4, LongerFile
    <3> HIDE DEF longer
    <3>6. Len(longer) <= received[i] BY <1>2, <3>1, <3>4, <3>5
    <3> QED BY <3>1, <3>5, <3>6
  <2> QED BY <2>1, <2>2, <2>3
<1>5. stage' \in [Segments -> {"opening", "open", "finalizing", "done"}]
  BY <1>4 DEF TypeOK
<1>6. parts' \in [Segments -> File]
  BY <1>4 DEF TypeOK, File
<1>7. TypeOK' BY <1>1, <1>5, <1>6 DEF TypeOK
<1>8. FilesIntact'
  <2>1. ASSUME NEW j \in Segments, parts'[j] # NoFile
        PROVE  /\ manifest' \in j..MaxSegments
               /\ Holds(parts'[j], Offset(manifest', j), Length(manifest', j))
    <3>1. CASE j # i
      <4>1. parts'[j] = parts[j] BY <1>4, <3>1 DEF TypeOK
      <4> QED BY <1>1, <2>1, <4>1 DEF FilesIntact
    <3>2. CASE j = i
      <4>1. parts'[i] = file BY <1>2, <1>4 DEF TypeOK
      <4>2. manifest \in i..MaxSegments BY <1>2, SizeAssumption DEF Segments
      <4> QED BY <1>1, <1>2, <1>4, <3>2, <4>1, <4>2
    <3> QED BY <3>1, <3>2
  <2> QED BY <1>1, <2>1 DEF FilesIntact
<1>9. SegmentsOrderly'
  <2>1. ASSUME NEW j \in 1..layout
        PROVE  /\ stage'[j] \in {"opening", "open"} => received[j] < Length(layout, j)
               /\ stage'[j] \in {"finalizing", "done"} => received[j] = Length(layout, j)
               /\ stage'[j] = "done" => PartSize(j)' = Length(layout, j)
    <3>1. /\ stage[j] \in {"opening", "open"} => received[j] < Length(layout, j)
          /\ stage[j] \in {"finalizing", "done"} => received[j] = Length(layout, j)
          /\ stage[j] = "done" => PartSize(j) = Length(layout, j)
      BY <1>1 DEF SegmentsOrderly
    <3>2. j \in Segments BY <1>1, SegmentFacts
    <3>3. CASE j # i
      <4>1. parts'[j] = parts[j] /\ stage'[j] = stage[j]
        BY <1>4, <3>2, <3>3 DEF TypeOK
      <4> QED BY <3>1, <4>1 DEF PartSize
    <3>4. CASE j = i /\ stage'[i] = "open" /\ stage[i] = "opening"
      BY <3>1, <3>4
    <3>5. CASE j = i /\ Len(file) <= received[i] /\ UNCHANGED stage
      <4>1. CASE SegmentOpened(i)
        <5>1. stage[i] = "opening" BY <4>1 DEF SegmentOpened
        <5> QED BY <3>1, <3>5, <5>1
      <4>2. CASE WritePart(i)
        <5>1. PartSize(i) \in Nat /\ PartSize(i) < received[i]
          BY <1>2, <4>2, FileIsThere DEF WritePart, PartSize, TypeOK, File
        <5>2. stage[i] # "done" BY <1>2, <3>1, <3>5, <5>1
        <5> QED BY <3>1, <3>5, <5>2
      <4> QED BY <4>1, <4>2
    <3>6. stage[i] = "opening" /\ stage' = [stage EXCEPT ![i] = "open"] => stage'[i] = "open"
      BY <1>2 DEF TypeOK
    <3> QED BY <1>4, <3>3, <3>4, <3>5, <3>6
  <2> QED BY <1>1, <1>2, <2>1 DEF SegmentsOrderly
<1>10. StreamHasFile' /\ ConnectionsBounded' /\ MergeOrderly' /\ MergeHasParts'
  BY <1>1 DEF StreamHasFile, ConnectionsBounded, MergeOrderly, MergeHasParts
<1> QED BY <1>7, <1>8, <1>9, <1>10

\* process_segment_data: the segment never receives more than its length.
LEMMA SegmentDataInvariant ==
  ASSUME IInv, NEW i \in 1..layout, SegmentData(i)
  PROVE  IInv'
<1> USE DEF IInv
<1>1. /\ phase = "segmented" /\ stage[i] = "open"
      /\ UNCHANGED <<local, parts, manifest, phase, resume, layout, channel, conns,
                     failed, merge, queued, outcome>>
      /\ received' = [received EXCEPT ![i] = received[i] + 1]
      /\ stage' = [stage EXCEPT ![i] =
                     IF received[i] + 1 >= Length(layout, i) THEN "finalizing" ELSE stage[i]]
  BY DEF SegmentData, Active, disk
<1>2. /\ i \in Segments /\ manifest = layout
      /\ Length(layout, i) \in 0..Total
      /\ received[i] \in 0..Length(layout, i)
  BY <1>1, SegmentFacts
<1>3. received[i] < Length(layout, i)
  BY <1>1 DEF SegmentsOrderly
<1>4. received[i] + 1 \in 0..Total /\ Total \in Nat
  BY <1>2, <1>3, SizeAssumption
<1>5. /\ received' \in [Segments -> 0..Total]
      /\ stage' \in [Segments -> {"opening", "open", "finalizing", "done"}]
  BY <1>1, <1>4 DEF TypeOK
<1>6. TypeOK' BY <1>1, <1>5 DEF TypeOK
<1>7. FilesIntact' BY <1>1 DEF FilesIntact
<1>8. SegmentsOrderly'
  <2>1. ASSUME NEW j \in 1..layout
        PROVE  /\ stage'[j] \in {"opening", "open"} => received'[j] < Length(layout, j)
               /\ stage'[j] \in {"finalizing", "done"} => received'[j] = Length(layout, j)
               /\ stage'[j] = "done" => PartSize(j)' = Length(layout, j)
    <3>1. /\ stage[j] \in {"opening", "open"} => received[j] < Length(layout, j)
          /\ stage[j] \in {"finalizing", "done"} => received[j] = Length(layout, j)
          /\ stage[j] = "done" => PartSize(j) = Length(layout, j)
      BY <1>1 DEF SegmentsOrderly
    <3>2. j \in Segments BY <1>1, SegmentFacts
    <3>3. PartSize(j)' = PartSize(j) BY <1>1 DEF PartSize
    <3>4. CASE j # i
      <4>1. received'[j] = received[j] /\ stage'[j] = stage[j]
        BY <1>1, <3>2, <3>4 DEF TypeOK
      <4> QED BY <3>1, <3>3, <4>1
    <3>5. CASE j = i
      <4>1. received'[i] = received[i] + 1
        BY <1>1, <1>2 DEF TypeOK
      <4>2. stage'[i] = IF received[i] + 1 >= Length(layout, i) THEN "finalizing" ELSE "open"
        BY <1>1, <1>2 DEF TypeOK
      <4> QED BY <1>2, <1>3, <3>5, <4>1, <4>2
    <3> QED BY <3>4, <3>5
  <2> QED BY <1>1, <1>2, <2>1 DEF SegmentsOrderly
<1>9. StreamHasFile' /\ ConnectionsBounded' /\ MergeOrderly' /\ MergeHasParts'
  BY <1>1 DEF StreamHasFile, ConnectionsBounded, MergeOrderly, MergeHasParts
<1> QED BY <1>6, <1>7, <1>8, <1>9

\* finalize_segment, and the start of the merge after the last segment.
LEMMA FinalizeSegmentInvariant ==
  ASSUME IInv, NEW i \in 1..layout, FinalizeSegment(i)
  PROVE  IInv'
<1> USE DEF IInv
<1>1. /\ phase = "segmented" /\ stage[i] = "finalizing" /\ PartSize(i) = received[i]
      /\ UNCHANGED <<parts, manifest, resume, layout, received, channel, conns, failed,
                     outcome>>
      /\ stage' = [stage EXCEPT ![i] = "done"]
  BY DEF FinalizeSegment
<1>2. i \in Segments /\ layout \in Segments /\ manifest = layout
  BY <1>1, SegmentFacts
<1>3. stage' \in [Segments -> {"opening", "open", "finalizing", "done"}]
  BY <1>1 DEF TypeOK
<1>4. ASSUME NEW j \in 1..layout
      PROVE  /\ stage'[j] \in {"opening", "open"} => received[j] < Length(layout, j)
             /\ stage'[j] \in {"finalizing", "done"} => received[j] = Length(layout, j)
             /\ stage'[j] = "done" => PartSize(j)' = Length(layout, j)
  <2>1. /\ stage[j] \in {"opening", "open"} => received[j] < Length(layout, j)
        /\ stage[j] \in {"finalizing", "done"} => received[j] = Length(layout, j)
        /\ stage[j] = "done" => PartSize(j) = Length(layout, j)
    BY <1>1 DEF SegmentsOrderly
  <2>2. j \in Segments BY <1>1, SegmentFacts
  <2>3. PartSize(j)' = PartSize(j) BY <1>1 DEF PartSize
  <2>4. stage'[j] = IF j = i THEN "done" ELSE stage[j]
    BY <1>1, <1>2, <2>2 DEF TypeOK
  <2>5. CASE j = i BY <1>1, <2>1, <2>3, <2>4, <2>5
  <2>6. CASE j # i BY <2>1, <2>3, <2>4, <2>6
  <2> QED BY <2>5, <2>6
<1>5. CASE StartConcat /\ \A j \in 1..layout : stage'[j] = "done"
  <2>1. \A j \in 1..layout' : PartSize(j)' = Length(layout', j)
    BY <1>1, <1>4, <1>5
  <2>2. /\ layout' \in Segments /\ manifest' = layout'
        /\ parts' \in [Segments -> File]
        /\ \A j \in Segments :
              parts'[j] # NoFile =>
                 /\ manifest' \in j..MaxSegments
                 /\ Holds(parts'[j], Offset(manifest', j), Length(manifest', j))
    BY <1>1, <1>2 DEF TypeOK, FilesIntact
  <2>3. /\ local' \in File /\ phase' = "concat" /\ merge' \in MergeType
        /\ queued' \in {"none"} \cup Results
        /\ FilesIntact' /\ StreamHasFile' /\ SegmentsOrderly' /\ MergeOrderly'
        /\ MergeHasParts'
    BY <1>5, <2>1, <2>2, StartConcatInvariant
  <2>4. ConnectionsBounded' BY <1>1, <2>3 DEF ConnectionsBounded
  <2>5. TypeOK' BY <1>1, <1>3, <2>3 DEF TypeOK
  <2> QED BY <2>3, <2>4, <2>5
<1>6. CASE UNCHANGED <<local, phase, merge, queued>>
  <2>1. TypeOK' BY <1>1, <1>3, <1>6 DEF TypeOK
  <2>2. FilesIntact' BY <1>1, <1>6 DEF FilesIntact
  <2>3. SegmentsOrderly' BY <1>1, <1>2, <1>4, <1>6 DEF SegmentsOrderly
  <2>4. StreamHasFile' /\ ConnectionsBounded' /\ MergeOrderly' /\ MergeHasParts'
    BY <1>1, <1>6 DEF StreamHasFile, ConnectionsBounded, MergeOrderly, MergeHasParts
  <2> QED BY <2>1, <2>2, <2>3, <2>4
<1> QED BY <1>5, <1>6 DEF FinalizeSegment

-----------------------------------------------------------------------------
(* The merge.                                                              *)

\* The place that is read is a place of the file.
LEMMA MergeFacts ==
  ASSUME IInv, phase = "concat", merge.state = "reading", merge.part <= layout
  PROVE  /\ merge.part \in 1..layout /\ merge.part \in Segments /\ layout \in Segments
         /\ manifest = layout
         /\ merge.pos \in Nat /\ merge.sent \in Seq(Block)
         /\ merge.pos <= Length(layout, merge.part)
         /\ PartSize(merge.part) = Length(layout, merge.part)
         /\ Length(layout, merge.part) \in Nat /\ Offset(layout, merge.part) \in Nat
         /\ Offset(layout, merge.part + 1)
              = Offset(layout, merge.part) + Length(layout, merge.part)
         /\ Offset(layout, merge.part) + Length(layout, merge.part) <= Total
         /\ Len(merge.sent) = Offset(layout, merge.part) + merge.pos
         /\ \A n \in DOMAIN merge.sent : merge.sent[n] = n
<1> USE DEF IInv
<1>1. /\ merge.pos \in Nat /\ merge.sent \in Seq(Block) /\ layout \in Segments
      /\ layout \in Nat
  BY SizeAssumption DEF TypeOK, MergeType, Segments
<1>2. /\ manifest = layout
      /\ \A i \in 1..layout : PartSize(i) = Length(layout, i)
      /\ merge.part \in 1..layout + 1
      /\ Len(merge.sent) = Offset(layout, merge.part) + merge.pos
      /\ merge.pos <= Length(layout, merge.part)
      /\ \A n \in DOMAIN merge.sent : merge.sent[n] = n
  BY DEF MergeOrderly
<1>3. merge.part \in 1..layout
  BY <1>1, <1>2
<1>4. merge.part \in Segments
  BY <1>1, <1>3, SizeAssumption DEF Segments
<1>5. /\ Length(layout, merge.part) \in Nat /\ Offset(layout, merge.part) \in Nat
      /\ Offset(layout, merge.part + 1)
           = Offset(layout, merge.part) + Length(layout, merge.part)
      /\ Offset(layout, merge.part) + Length(layout, merge.part) <= Total
  BY <1>1, <1>3, SegmentsTile
<1> QED BY <1>1, <1>2, <1>3, <1>4, <1>5

\* The files and the layout stay, and only the progress of the merge changes.
LEMMA MergeProgress ==
  ASSUME IInv, phase = "concat", merge.state # "over",
         UNCHANGED <<disk, phase, resume, layout, segs, conns, failed, outcome>>,
         merge' \in MergeType, queued' \in {"none"} \cup Results, MergeOrderly'
  PROVE  IInv'
<1> USE DEF IInv
<1>1. TypeOK' BY DEF TypeOK, disk, segs
<1>2. FilesIntact' BY DEF FilesIntact, disk
<1>3. StreamHasFile' /\ ConnectionsBounded' /\ SegmentsOrderly'
  BY DEF StreamHasFile, ConnectionsBounded, SegmentsOrderly, disk
<1>4. MergeHasParts' BY DEF MergeHasParts, PartSize, disk
<1> QED BY <1>1, <1>2, <1>3, <1>4

\* concat_pump passes on the block that follows the last one it passed on.
LEMMA ConcatReadInvariant ==
  ASSUME IInv, ConcatRead
  PROVE  IInv'
<1> USE DEF IInv
<1> DEFINE p == merge.part
           block == parts[p][merge.pos + 1]
           longer == Append(merge.sent, block)
<1>1. /\ phase = "concat" /\ merge.state = "reading" /\ p <= layout
      /\ parts[p] # NoFile /\ merge.pos < Len(parts[p])
      /\ UNCHANGED <<disk, phase, resume, layout, segs, conns, failed, queued, outcome>>
      /\ merge' = Merge(p, merge.pos + 1, longer, "reading")
  BY DEF ConcatRead, Merging
<1>2. /\ p \in 1..layout /\ p \in Segments /\ layout \in Segments /\ manifest = layout
      /\ merge.pos \in Nat /\ merge.sent \in Seq(Block)
      /\ PartSize(p) = Length(layout, p)
      /\ Length(layout, p) \in Nat /\ Offset(layout, p) \in Nat
      /\ Offset(layout, p) + Length(layout, p) <= Total
      /\ Len(merge.sent) = Offset(layout, p) + merge.pos
      /\ \A n \in DOMAIN merge.sent : merge.sent[n] = n
  BY <1>1, MergeFacts
<1>3. /\ parts[p] \in Seq(Block) /\ Len(parts[p]) = Length(layout, p)
      /\ Holds(parts[p], Offset(layout, p), Length(layout, p))
  BY <1>1, <1>2 DEF TypeOK, File, PartSize, FilesIntact
<1>4. merge.pos + 1 \in DOMAIN parts[p] /\ merge.pos + 1 <= Length(layout, p)
  BY <1>1, <1>2, <1>3
<1>5. block = Offset(layout, p) + (merge.pos + 1)
  BY <1>3, <1>4 DEF Holds
<1>6. block = 0 + Len(merge.sent) + 1 /\ Len(merge.sent) < Total
  BY <1>2, <1>4, <1>5, SizeAssumption
<1>7. /\ longer \in Seq(Block) /\ Len(longer) = Len(merge.sent) + 1
      /\ \A n \in DOMAIN longer : longer[n] = n
  <2>1. 0 \in Nat /\ Total \in Nat /\ 0 + Total <= Total BY SizeAssumption
  <2>2. \A n \in DOMAIN merge.sent : n = 0 + n BY <1>2
  <2>3. Len(merge.sent) <= Total BY <1>2, <1>6, <2>1
  <2>4. Holds(merge.sent, 0, Total) BY <1>2, <2>2, <2>3 DEF Holds
  <2>5. /\ Append(merge.sent, 0 + Len(merge.sent) + 1) \in Seq(Block)
        /\ Holds(Append(merge.sent, 0 + Len(merge.sent) + 1), 0, Total)
        /\ Len(Append(merge.sent, 0 + Len(merge.sent) + 1)) = Len(merge.sent) + 1
    BY <1>2, <1>6, <2>1, <2>4, LongerFile
  <2> HIDE DEF block
  <2>6. longer \in Seq(Block) /\ Holds(longer, 0, Total) /\ Len(longer) = Len(merge.sent) + 1
    BY <1>6, <2>5
  <2> HIDE DEF longer
  <2>7. \A n \in DOMAIN longer : 0 + n = n BY <2>6
  <2> QED BY <2>6, <2>7 DEF Holds
<1> HIDE DEF longer, block
<1>8. /\ merge'.part = p /\ merge'.pos = merge.pos + 1 /\ merge'.sent = longer
      /\ merge'.state = "reading"
  BY <1>1 DEF Merge
<1>9. merge' \in MergeType
  <2>1. p \in 1..MaxSegments + 1
    BY <1>2, SizeAssumption DEF Segments
  <2>2. merge.pos + 1 \in 0..Total
    BY <1>2, <1>4, SizeAssumption
  <2> HIDE DEF p
  <2> QED BY <1>1, <1>7, <2>1, <2>2 DEF Merge, MergeType
<1>10. MergeOrderly'
  <2>1. /\ manifest = layout
        /\ \A i \in 1..layout : PartSize(i) = Length(layout, i)
        /\ p \in 1..layout + 1
    BY <1>1 DEF MergeOrderly
  <2>2. \A i \in 1..layout : PartSize(i)' = PartSize(i)
    BY <1>1 DEF PartSize, disk
  <2>3. Len(longer) = Offset(layout, p) + (merge.pos + 1)
    BY <1>2, <1>7
  <2>4. p # layout + 1
    BY <1>1, <2>1, SizeAssumption DEF TypeOK, Segments
  <2> HIDE DEF p
  <2> QED BY <1>1, <1>4, <1>7, <1>8, <2>1, <2>2, <2>3, <2>4 DEF MergeOrderly, disk
<1>11. queued' \in {"none"} \cup Results
  BY <1>1 DEF TypeOK
<1> QED BY <1>1, <1>9, <1>10, <1>11, MergeProgress

\* concat_pump continues with the next part when it has read all of one.
LEMMA ConcatNextPartInvariant ==
  ASSUME IInv, ConcatNextPart
  PROVE  IInv'
<1> USE DEF IInv
<1> DEFINE p == merge.part
<1>1. /\ phase = "concat" /\ merge.state = "reading" /\ p <= layout
      /\ parts[p] # NoFile /\ merge.pos = Len(parts[p])
      /\ UNCHANGED <<disk, phase, resume, layout, segs, conns, failed, queued, outcome>>
      /\ merge' = Merge(p + 1, 0, merge.sent, "reading")
  BY DEF ConcatNextPart, Merging
<1>2. /\ p \in 1..layout /\ p \in Segments /\ layout \in Segments
      /\ merge.pos \in Nat /\ merge.sent \in Seq(Block)
      /\ PartSize(p) = Length(layout, p)
      /\ Offset(layout, p) \in Nat /\ Length(layout, p) \in Nat
      /\ Offset(layout, p + 1) = Offset(layout, p) + Length(layout, p)
      /\ Len(merge.sent) = Offset(layout, p) + merge.pos
      /\ \A n \in DOMAIN merge.sent : merge.sent[n] = n
  BY <1>1, MergeFacts
<1>3. merge.pos = Length(layout, p)
  BY <1>1, <1>2 DEF PartSize
<1>4. Len(merge.sent) = Offset(layout, p + 1) + 0
  BY <1>2, <1>3
<1>5. p + 1 \in 1..layout + 1 /\ p + 1 \in 1..MaxSegments + 1 /\ 0 \in 0..Total
  BY <1>2, SizeAssumption DEF Segments
<1>6. p + 1 <= layout => 0 <= Length(layout, p + 1)
  <2>1. ASSUME p + 1 <= layout PROVE 0 <= Length(layout, p + 1)
    <3>1. p + 1 \in 1..layout BY <1>2, <2>1
    <3>2. Length(layout, p + 1) \in Nat BY <1>2, <3>1, SegmentsTile
    <3> QED BY <3>2
  <2> QED BY <2>1
<1>7. /\ merge'.part = p + 1 /\ merge'.pos = 0 /\ merge'.sent = merge.sent
      /\ merge'.state = "reading"
  BY <1>1 DEF Merge
<1>8. merge' \in MergeType
  BY <1>1, <1>2, <1>5 DEF Merge, MergeType
<1>9. MergeOrderly'
  <2>1. /\ manifest = layout
        /\ \A i \in 1..layout : PartSize(i) = Length(layout, i)
    BY <1>1 DEF MergeOrderly
  <2>2. \A i \in 1..layout : PartSize(i)' = PartSize(i)
    BY <1>1 DEF PartSize, disk
  <2> HIDE DEF p
  <2> QED BY <1>1, <1>2, <1>4, <1>5, <1>6, <1>7, <2>1, <2>2 DEF MergeOrderly, disk
<1>10. queued' \in {"none"} \cup Results
  BY <1>1 DEF TypeOK
<1> QED BY <1>1, <1>8, <1>9, <1>10, MergeProgress

\* The merge ends, because everything was read or because of an error.
LEMMA ConcatEndInvariant ==
  ASSUME IInv, ConcatEnd \/ ConcatError
  PROVE  IInv'
<1> USE DEF IInv
<1>1. /\ phase = "concat" /\ merge.state # "over"
      /\ UNCHANGED <<disk, phase, resume, layout, segs, conns, failed, outcome>>
      /\ \/ MergeIs("over") = merge' /\ TriggerReset("error")
         \/ MergeIs("finalizing") = merge' /\ UNCHANGED queued /\ Len(merge.sent) = Total
            /\ local # NoFile
  BY DEF ConcatEnd, ConcatError, Merging
<1>2. queued' \in {"none"} \cup Results
  BY <1>1, TriggerResetType DEF TypeOK, Results
<1>3. /\ merge'.part = merge.part /\ merge'.pos = merge.pos /\ merge'.sent = merge.sent
      /\ merge'.state \in {"over", "finalizing"}
      /\ merge'.state = "finalizing" => Len(merge.sent) = Total /\ local # NoFile
  BY <1>1 DEF MergeIs, Merge
<1>4. merge' \in MergeType
  BY <1>1 DEF MergeIs, Merge, TypeOK, MergeType
<1>5. MergeOrderly'
  BY <1>1, <1>3 DEF MergeOrderly, PartSize, disk
<1> QED BY <1>1, <1>2, <1>4, <1>5, MergeProgress

\* The writer's thread writes what it was given, in order.
LEMMA WriteLocalInvariant ==
  ASSUME IInv, WriteLocal
  PROVE  IInv'
<1> USE DEF IInv
<1>1. /\ phase = "concat" /\ merge.state # "over" /\ local # NoFile
      /\ Len(local) < Len(merge.sent)
      /\ local' = Append(local, merge.sent[Len(local) + 1])
      /\ UNCHANGED <<parts, manifest, phase, resume, layout, segs, conns, failed, merge,
                     queued, outcome>>
  BY DEF WriteLocal
<1>2. /\ local \in Seq(Block) /\ Holds(local, 0, Total) /\ merge.sent \in Seq(Block)
  BY <1>1 DEF TypeOK, File, FilesIntact, MergeType
<1>3. Len(local) + 1 \in DOMAIN merge.sent
  BY <1>1, <1>2
<1>4. merge.sent[Len(local) + 1] = 0 + Len(local) + 1
  BY <1>1, <1>2, <1>3 DEF MergeOrderly
<1>5. Len(local) < Total
  <2>1. merge.sent[Len(local) + 1] \in Block BY <1>2, <1>3
  <2> QED BY <1>2, <1>4, <2>1, SizeAssumption DEF Block
<1>6. local' \in Seq(Block) /\ local' # NoFile /\ Holds(local', 0, Total)
  <2>1. 0 \in Nat /\ Total \in Nat /\ 0 + Total <= Total BY SizeAssumption
  <2>2. local' = Append(local, 0 + Len(local) + 1) BY <1>1, <1>4
  <2> QED BY <1>2, <1>5, <2>1, <2>2, LongerFile
<1>7. TypeOK' BY <1>1, <1>6 DEF TypeOK, File, segs
<1>8. FilesIntact' BY <1>1, <1>6 DEF FilesIntact
<1>9. StreamHasFile' /\ ConnectionsBounded' /\ SegmentsOrderly'
  BY <1>1 DEF StreamHasFile, ConnectionsBounded, SegmentsOrderly
<1>10. MergeOrderly' BY <1>1, <1>6 DEF MergeOrderly, PartSize
<1>11. MergeHasParts'
  BY <1>1 DEF MergeHasParts, MergeOrderly, PartSize
<1> QED BY <1>7, <1>8, <1>9, <1>10, <1>11

\* concat_finalize deletes the parts when the local file is complete.
LEMMA ConcatFinalizeInvariant ==
  ASSUME IInv, ConcatFinalize
  PROVE  IInv'
<1> USE DEF IInv
<1>1. /\ phase = "concat" /\ merge.state = "finalizing"
      /\ Len(local) = Len(merge.sent)
      /\ parts' = WithoutParts(layout) /\ manifest' = NoFile
      /\ TriggerReset("ok") /\ merge' = MergeIs("over")
      /\ UNCHANGED <<local, phase, resume, layout, segs, conns, failed, outcome>>
  BY DEF ConcatFinalize, AllWritten, DeleteSegmentFiles
<1>2. layout \in Segments /\ manifest = layout /\ Len(merge.sent) = Total /\ local # NoFile
  BY <1>1 DEF TypeOK, MergeOrderly
<1>3. parts' \in [Segments -> File] /\ FilesIntact'
  BY <1>1, <1>2, DeletingKeepsTruth
<1>4. queued' \in {"none"} \cup Results
  BY <1>1, TriggerResetType DEF Results
<1>5. merge' \in MergeType /\ merge'.state = "over"
  BY <1>1 DEF MergeIs, Merge, TypeOK, MergeType
<1>6. TypeOK' BY <1>1, <1>3, <1>4, <1>5 DEF TypeOK, segs
<1>7. StreamHasFile' /\ ConnectionsBounded' /\ SegmentsOrderly' /\ MergeOrderly'
  BY <1>1, <1>5 DEF StreamHasFile, ConnectionsBounded, SegmentsOrderly, MergeOrderly
<1>8. MergeHasParts'
  BY <1>1, <1>2 DEF MergeHasParts
<1> QED BY <1>3, <1>6, <1>7, <1>8

-----------------------------------------------------------------------------
(* The theorems.                                                           *)

\* No step breaks the invariant.
LEMMA NextInvariant == IInv /\ [Next]_vars => IInv'
<1> SUFFICES ASSUME IInv, [Next]_vars PROVE IInv' OBVIOUS
<1>1. CASE Start BY <1>1, StartInvariant
<1>2. CASE Answer BY <1>2, AnswerInvariant
<1>3. CASE SingleOpened \/ SingleData BY <1>3, SingleInvariant
<1>4. CASE SingleEnd \/ SingleError BY <1>4, ErrorInvariant
<1>5. ASSUME NEW i \in 1..layout,
             \/ SegmentOpened(i) \/ SegmentData(i) \/ WritePart(i)
             \/ FinalizeSegment(i) \/ SegmentError(i)
      PROVE  IInv'
  <2>1. CASE SegmentOpened(i) \/ WritePart(i) BY <2>1, PartWrittenInvariant
  <2>2. CASE SegmentData(i) BY <2>2, SegmentDataInvariant
  <2>3. CASE FinalizeSegment(i) BY <2>3, FinalizeSegmentInvariant
  <2>4. CASE SegmentError(i) BY <2>4, ErrorInvariant
  <2> QED BY <1>5, <2>1, <2>2, <2>3, <2>4
<1>6. ASSUME NEW k \in DOMAIN conns,
             \/ ConnectionReady(k) \/ ConnectionFailed(k)
             \/ ConnectionDropped(k) \/ HostkeyMismatch(k)
      PROVE  IInv'
  <2>1. CASE ConnectionReady(k) BY <2>1, ConnectionReadyInvariant
  <2>2. CASE ConnectionFailed(k) \/ ConnectionDropped(k) \/ HostkeyMismatch(k)
    BY <2>2, ConnectionLostInvariant
  <2> QED BY <1>6, <2>1, <2>2
<1>7. CASE ConcatRead BY <1>7, ConcatReadInvariant
<1>8. CASE ConcatNextPart BY <1>8, ConcatNextPartInvariant
<1>9. CASE ConcatEnd \/ ConcatError BY <1>9, ConcatEndInvariant
<1>10. CASE WriteLocal BY <1>10, WriteLocalInvariant
<1>11. CASE ConcatFinalize BY <1>11, ConcatFinalizeInvariant
<1>12. CASE ResetEvent
  <2>1. queued \in Results BY <1>12 DEF ResetEvent, IInv, TypeOK
  <2> QED BY <1>12, <2>1, ResetInvariant DEF ResetEvent
<1>13. CASE Cancel BY <1>13, ResetInvariant DEF Cancel, Results
<1>14. CASE Disconnect BY <1>14, ResetInvariant DEF Disconnect, Results
<1>15. CASE Crash \/ CrashDeleting BY <1>15, CrashInvariant
<1>16. CASE UNCHANGED vars
  <2>1. UNCHANGED <<disk, phase, resume, layout, segs, merge, conns, failed, queued, outcome>>
    BY <1>16 DEF vars, disk, segs
  <2>2. ConnectionsBounded' BY <2>1 DEF IInv, ConnectionsBounded
  <2>3. /\ conns' \in Seq({"starting", "ready", "failed"})
        /\ failed' \in BOOLEAN /\ queued' \in {"none"} \cup Results
        /\ outcome' \in {"none", "skipped"} \cup Results
    BY <2>1 DEF IInv, TypeOK
  <2> QED BY <2>1, <2>2, <2>3, ControlInvariant
<1> QED
  BY <1>1, <1>2, <1>3, <1>4, <1>5, <1>6, <1>7, <1>8, <1>9, <1>10, <1>11, <1>12, <1>13,
     <1>14, <1>15, <1>16
  DEF Next

\* The inductive invariant holds of every download.
THEOREM Invariance == Spec => []IInv
<1>1. Init => IInv BY InitInvariant
<1>2. IInv /\ [Next]_vars => IInv' BY NextInvariant
<1> QED BY <1>1, <1>2, PTL DEF Spec

\* Every variable keeps its type, whatever the size of the file and the number
\* of segments: no segment receives, and no merge writes, more than its share.
THEOREM TypeCorrect == Spec => []TypeOK
<1>1. IInv => TypeOK BY DEF IInv
<1> QED BY <1>1, Invariance, PTL

\* Whatever attempts wrote them, with whatever options, and wherever they were
\* cancelled, lost their connections or died: the part files are beginnings of
\* the segments in the manifest's layout, and the local file is a beginning of
\* the remote file.
THEOREM FilesCorrect == Spec => []FilesIntact
<1>1. IInv => FilesIntact BY DEF IInv
<1> QED BY <1>1, Invariance, PTL

\* A merge has all its parts until the local file is complete.
THEOREM MergeCorrect == Spec => []MergeHasParts
<1>1. IInv => MergeHasParts BY DEF IInv
<1> QED BY <1>1, Invariance, PTL

-----------------------------------------------------------------------------
(* The end of a download.                                                   *)

\* The local file is the whole file.
LocalWhole == local # NoFile /\ Len(local) = Total

\* An operation has no outcome yet, an end is queued as a success only when the
\* local file is whole, and stays so; after a merge the parts are gone by then.
SuccessEarned ==
  /\ phase # "idle" => outcome = "none"
  /\ queued = "ok" =>
       /\ phase \in {"transfer", "concat"}
       /\ LocalWhole
       /\ phase = "concat" => manifest = NoFile /\ merge.state = "over"
  /\ outcome = "ok" => LocalWhole /\ manifest = NoFile

\* The initial state.
LEMMA SuccessInit == Init => SuccessEarned
BY DEF Init, SuccessEarned

\* An operation that is gone leaves nothing queued.
LEMMA GoneIsQuiet ==
  ASSUME NoOperation, outcome' # "ok"
  PROVE  SuccessEarned'
BY DEF NoOperation, SuccessEarned

\* CControlSocket::ResetOperation: a success that was queued is one.
LEMMA ResetEarned ==
  ASSUME IInv, SuccessEarned, NEW result, Reset(result), phase # "idle",
         result = "ok" => queued = "ok" \/ phase = "asking"
  PROVE  SuccessEarned'
<1>1. NoOperation /\ outcome' = IF phase = "asking" /\ result = "ok" THEN "skipped" ELSE result
  BY DEF Reset
<1>2. CASE outcome' # "ok" BY <1>1, <1>2, GoneIsQuiet
<1>3. CASE outcome' = "ok"
  <2>1. result = "ok" /\ phase # "asking" BY <1>1, <1>3
  <2>2. /\ queued = "ok" /\ phase \in {"transfer", "concat"} /\ LocalWhole
        /\ phase = "concat" => manifest = NoFile
    BY <2>1 DEF SuccessEarned
  <2>3. local' = local BY <2>1 DEF Reset
  <2>4. manifest' = NoFile
    BY <2>1, <2>2 DEF Reset, DeleteSegmentFiles
  <2>5. LocalWhole' BY <2>2, <2>3 DEF LocalWhole
  <2> QED BY <1>1, <2>4, <2>5 DEF NoOperation, SuccessEarned
<1> QED BY <1>2, <1>3

\* No step takes a transfer that is not complete for a success.
LEMMA SuccessStep == IInv /\ SuccessEarned /\ [Next]_vars => SuccessEarned'
<1> SUFFICES ASSUME IInv, SuccessEarned, [Next]_vars PROVE SuccessEarned' OBVIOUS
<1> DEFINE Others == UNCHANGED <<local, manifest, phase, outcome>>
<1>0. ASSUME Others, merge'.state = merge.state \/ queued # "ok", queued' = "ok" => queued = "ok"
      PROVE  SuccessEarned'
  BY <1>0 DEF SuccessEarned, LocalWhole
<1>1. CASE Start
  <2>1. phase = "idle" /\ queued # "ok" BY <1>1 DEF Start, SuccessEarned
  <2>2. \/ outcome' = "none" /\ (queued' = queued \/ TriggerReset("error"))
        \/ phase' = phase /\ outcome' = "error" /\ queued' = queued
    BY <1>1 DEF Start, StartSingle, StartSegmented, StartSegmentedFails, StartConcat
  <2> QED BY <2>1, <2>2 DEF SuccessEarned, TriggerReset
<1>2. CASE Answer
  <2>1. phase = "asking" /\ queued # "ok" BY <1>2 DEF Answer, SuccessEarned
  <2>2. CASE Reset("ok") BY <2>1, <2>2, ResetEarned
  <2>3. CASE StartSingle(FALSE) \/ StartSingle(TRUE)
    BY <2>1, <2>3 DEF StartSingle, SuccessEarned
  <2> QED BY <1>2, <2>2, <2>3 DEF Answer
<1>3. CASE SingleOpened \/ SingleData
  BY <1>3 DEF SingleOpened, SingleData, SuccessEarned
<1>4. CASE SingleEnd
  <2>1. local # NoFile BY <1>4 DEF SingleEnd, IInv, StreamHasFile
  <2> QED BY <1>4, <2>1 DEF SingleEnd, SuccessEarned, LocalWhole, disk, TriggerReset
<1>5. CASE SingleError BY <1>5 DEF SingleError, SuccessEarned, TriggerReset
<1>6. ASSUME NEW i \in 1..layout,
             \/ SegmentOpened(i) \/ SegmentData(i) \/ WritePart(i)
             \/ FinalizeSegment(i) \/ SegmentError(i)
      PROVE  SuccessEarned'
  <2>1. phase = "segmented" /\ queued # "ok" /\ outcome' = outcome
    BY <1>6 DEF SegmentOpened, SegmentData, WritePart, FinalizeSegment, SegmentError, Active,
                SuccessEarned
  <2>2. queued' # "ok"
    BY <1>6, <2>1 DEF SegmentOpened, SegmentData, WritePart, FinalizeSegment, SegmentError, Fail,
                TriggerReset, StartConcat
  <2> QED BY <2>1, <2>2 DEF SuccessEarned
<1>7. ASSUME NEW k \in DOMAIN conns,
             \/ ConnectionReady(k) \/ ConnectionFailed(k)
             \/ ConnectionDropped(k) \/ HostkeyMismatch(k)
      PROVE  SuccessEarned'
  <2>1. Others /\ merge' = merge
    BY <1>7 DEF ConnectionReady, ConnectionFailed, ConnectionDropped, HostkeyMismatch, disk
  <2>2. queued' = queued \/ TriggerReset("error") \/ TriggerReset("critical")
    BY <1>7 DEF ConnectionReady, ConnectionFailed, ConnectionDropped, HostkeyMismatch, Fail
  <2> QED BY <1>0, <2>1, <2>2 DEF TriggerReset
<1>8. CASE ConcatRead \/ ConcatNextPart \/ ConcatEnd \/ ConcatError
  <2>1. Others /\ queued # "ok"
    BY <1>8 DEF ConcatRead, ConcatNextPart, ConcatEnd, ConcatError, Merging, disk, SuccessEarned
  <2>2. queued' # "ok"
    BY <1>8, <2>1 DEF ConcatRead, ConcatNextPart, ConcatEnd, ConcatError, TriggerReset
  <2> QED BY <1>0, <2>1, <2>2
<1>9. CASE WriteLocal
  <2>1. phase = "concat" /\ queued # "ok" BY <1>9 DEF WriteLocal, SuccessEarned
  <2> QED BY <1>9, <2>1 DEF WriteLocal, SuccessEarned
<1>10. CASE ConcatFinalize
  <2>1. LocalWhole
    BY <1>10 DEF ConcatFinalize, AllWritten, IInv, MergeOrderly, LocalWhole
  <2>2. /\ UNCHANGED <<local, phase, outcome>> /\ manifest' = NoFile
        /\ merge'.state = "over" /\ phase = "concat"
    BY <1>10 DEF ConcatFinalize, AllWritten, DeleteSegmentFiles, MergeIs, Merge
  <2> QED BY <2>1, <2>2 DEF SuccessEarned, LocalWhole
<1>11. CASE ResetEvent
  <2>1. queued # "none" /\ Reset(queued) BY <1>11 DEF ResetEvent
  <2>2. CASE phase # "idle" BY <2>1, <2>2, ResetEarned
  <2>3. CASE phase = "idle"
    <3>1. queued # "ok" BY <2>3 DEF SuccessEarned
    <3>2. NoOperation /\ outcome' # "ok" BY <2>1, <2>3, <3>1 DEF Reset
    <3> QED BY <3>2, GoneIsQuiet
  <2> QED BY <2>2, <2>3
<1>12. CASE Cancel BY <1>12, ResetEarned DEF Cancel
<1>13. CASE Disconnect BY <1>13, ResetEarned DEF Disconnect
<1>14. CASE Crash \/ CrashDeleting BY <1>14, GoneIsQuiet DEF Crash, CrashDeleting
<1>15. CASE UNCHANGED vars BY <1>0, <1>15 DEF vars
<1> QED
  BY <1>1, <1>2, <1>3, <1>4, <1>5, <1>6, <1>7, <1>8, <1>9, <1>10, <1>11, <1>12, <1>13, <1>14,
     <1>15
  DEF Next

\* A transfer that succeeds leaves the whole file and none of its parts,
\* whatever attempts came before.
THEOREM SuccessCorrect == Spec => []SuccessComplete
<1>1. Init => SuccessEarned BY SuccessInit
<1>2. IInv /\ SuccessEarned /\ [Next]_vars => SuccessEarned' BY SuccessStep
<1>3. ASSUME IInv, SuccessEarned PROVE SuccessComplete
  <2>1. ASSUME manifest = NoFile, NEW i \in Segments PROVE parts[i] = NoFile
    <3>1. NoFile \notin i..MaxSegments BY FileAssumption, SizeAssumption DEF Segments
    <3> QED BY <1>3, <2>1, <3>1 DEF IInv, FilesIntact
  <2> QED BY <1>3, <2>1 DEF SuccessEarned, LocalWhole, SuccessComplete
<1> QED BY <1>1, <1>2, <1>3, Invariance, PTL DEF Spec

-----------------------------------------------------------------------------
(* The connections of the segments.                                         *)

\* One connection is being established at a time, an unfinished segment's
\* connection is there, and segments begin on the primary connection.
ChannelsUsable ==
  /\ \A j, k \in DOMAIN conns : conns[j] = "starting" /\ conns[k] = "starting" => j = k
  /\ phase = "segmented" /\ ~failed =>
        \A i \in 1..layout : stage[i] # "done" /\ channel[i] # 0 =>
           channel[i] \in DOMAIN conns /\ conns[channel[i]] = "ready"
  /\ phase = "idle" => \A i \in Segments : channel[i] = 0

\* The next connection is begun when none is being established any more.
LEMMA StartNextFacts ==
  ASSUME IInv, ChannelsUsable, NEW k \in DOMAIN conns, conns[k] = "starting",
         NEW s \in {"ready", "failed"}, StartNext([conns EXCEPT ![k] = s])
  PROVE  /\ \A i, j \in DOMAIN conns' : conns'[i] = "starting" /\ conns'[j] = "starting" => i = j
         /\ \A j \in DOMAIN conns : j \in DOMAIN conns' /\ (j # k => conns'[j] = conns[j])
         /\ conns'[k] = s
<1> DEFINE Status == {"starting", "ready", "failed"}
           cs == [conns EXCEPT ![k] = s]
<1>1. conns \in Seq(Status) BY DEF IInv, TypeOK
<1>2. DOMAIN conns = 1..Len(conns) /\ Len(conns) \in Nat BY <1>1
<1>3. /\ cs \in Seq(Status) /\ Len(cs) = Len(conns) /\ cs[k] = s
      /\ \A j \in DOMAIN conns : j # k => cs[j] = conns[j]
  BY <1>1, <1>2, ExceptSeq
<1>4. \A j \in DOMAIN conns : cs[j] # "starting" BY <1>3 DEF ChannelsUsable
<1>5. conns' = Append(cs, "starting") \/ conns' = cs BY DEF StartNext
<1> HIDE DEF cs
<1>6. CASE conns' = cs BY <1>2, <1>3, <1>4, <1>6
<1>7. CASE conns' = Append(cs, "starting")
  <2>1. /\ DOMAIN conns' = 1..Len(conns) + 1
        /\ \A j \in 1..Len(conns) : conns'[j] = cs[j]
        /\ conns'[Len(conns) + 1] = "starting"
    BY <1>2, <1>3, <1>7, AppendProperties
  <2> QED BY <1>2, <1>3, <1>4, <2>1
<1> QED BY <1>5, <1>6, <1>7

\* A connection that is lost or refused fails, and no other changes.
LEMMA FailedConnection ==
  ASSUME IInv, ChannelsUsable, NEW k \in DOMAIN conns,
         conns' = [conns EXCEPT ![k] = "failed"]
  PROVE  /\ \A i, j \in DOMAIN conns' : conns'[i] = "starting" /\ conns'[j] = "starting" => i = j
         /\ DOMAIN conns' = DOMAIN conns
         /\ \A j \in DOMAIN conns : j # k => conns'[j] = conns[j]
BY DEF ChannelsUsable

\* Without an operation there is no connection.
LEMMA GoneIsUnconnected ==
  ASSUME NoOperation
  PROVE  ChannelsUsable'
BY DEF NoOperation, ChannelsUsable

\* No step leaves an unfinished segment on a connection that is not there.
LEMMA ChannelsStep == IInv /\ ChannelsUsable /\ [Next]_vars => ChannelsUsable'
<1> SUFFICES ASSUME IInv, ChannelsUsable, [Next]_vars PROVE ChannelsUsable' OBVIOUS
<1>0. ASSUME conns' = conns, phase' # "segmented", phase' # "idle" PROVE ChannelsUsable'
  BY <1>0 DEF ChannelsUsable
<1>1. ASSUME UNCHANGED <<conns, channel, layout>>, phase' = phase, failed' = FALSE => failed = FALSE,
             \A i \in 1..layout : stage[i] = "done" => stage'[i] = "done"
      PROVE  ChannelsUsable'
  BY <1>1 DEF ChannelsUsable, IInv, TypeOK
<1>2. CASE Start
  <2>1. phase = "idle" /\ conns = <<>> /\ \A i \in Segments : channel[i] = 0
    BY <1>2 DEF Start, ChannelsUsable, IInv, ConnectionsBounded
  <2>2. CASE phase' = "asking" /\ conns' = conns BY <2>2, <1>0
  <2>3. ASSUME NEW res, StartSingle(res) PROVE ChannelsUsable'
    BY <2>3, <1>0 DEF StartSingle
  <2>4. ASSUME NEW wanted \in Segments, StartSegmented(SegmentCount(wanted)) PROVE ChannelsUsable'
    <3> DEFINE c == SegmentCount(wanted)
    <3>1. c \in Segments
      BY <2>4, SegmentCountRange, SizeAssumption DEF Segments
    <3>2. layout' = c /\ channel' = channel BY <2>4 DEF StartSegmented
    <3> HIDE DEF c
    <3>3. \A i \in 1..layout' : channel'[i] = 0
      BY <3>1, <3>2, <2>1, SizeAssumption DEF Segments
    <3>4. (conns' = conns /\ phase' = "concat") \/ (conns' = <<"starting">> /\ phase' = "segmented")
      BY <2>4 DEF StartSegmented, StartConcat
    <3> QED BY <3>3, <3>4, <2>1 DEF ChannelsUsable
  <2>5. ASSUME NEW wanted \in Segments, StartSegmentedFails(SegmentCount(wanted)) PROVE ChannelsUsable'
    BY <2>5, <1>1 DEF StartSegmentedFails, segs
  <2> QED BY <1>2, <2>2, <2>3, <2>4, <2>5 DEF Start
<1>3. CASE Answer
  <2>1. ASSUME NEW res, StartSingle(res) PROVE ChannelsUsable'
    BY <2>1, <1>0 DEF StartSingle
  <2> QED BY <1>3, <2>1, GoneIsUnconnected DEF Answer, Reset
<1>4. CASE SingleOpened \/ SingleData \/ SingleEnd \/ SingleError
  <2>1. conns' = conns /\ phase' \notin {"segmented", "idle"}
    BY <1>4 DEF SingleOpened, SingleData, SingleEnd, SingleError
  <2> QED BY <2>1, <1>0
<1>5. ASSUME NEW i \in 1..layout,
             \/ SegmentOpened(i) \/ SegmentData(i) \/ WritePart(i)
             \/ FinalizeSegment(i) \/ SegmentError(i)
      PROVE  ChannelsUsable'
  <2>0. layout \in Segments /\ stage \in [Segments -> {"opening", "open", "finalizing", "done"}]
        /\ 1..layout \subseteq Segments /\ failed \in BOOLEAN
    BY SizeAssumption DEF IInv, TypeOK, Segments
  <2>1. CASE SegmentOpened(i) \/ SegmentData(i)
    BY <2>0, <2>1, <1>1 DEF SegmentOpened, SegmentData, disk
  <2>2. CASE WritePart(i) BY <2>2, <1>1 DEF WritePart, segs
  <2>3. CASE FinalizeSegment(i)
    <3>1. /\ UNCHANGED <<conns, channel, layout, failed>>
          /\ \A j \in 1..layout : stage[j] = "done" => stage'[j] = "done"
          /\ phase' = phase \/ phase' = "concat"
      BY <2>0, <2>3 DEF FinalizeSegment, StartConcat
    <3> QED BY <3>1, <1>0, <1>1
  <2>4. CASE SegmentError(i) BY <2>0, <2>4, <1>1 DEF SegmentError, Fail, segs
  <2> QED BY <1>5, <2>1, <2>2, <2>3, <2>4
<1>6. ASSUME NEW k \in DOMAIN conns, ConnectionReady(k) PROVE ChannelsUsable'
  <2>1. /\ conns[k] = "starting" /\ StartNext([conns EXCEPT ![k] = "ready"])
        /\ UNCHANGED <<phase, layout, failed>>
    BY <1>6 DEF ConnectionReady
  <2>2. /\ \A i, j \in DOMAIN conns' : conns'[i] = "starting" /\ conns'[j] = "starting" => i = j
        /\ \A j \in DOMAIN conns : j \in DOMAIN conns' /\ (j # k => conns'[j] = conns[j])
        /\ conns'[k] = "ready"
    BY <2>1, StartNextFacts
  <2>3. phase # "idle" BY DEF IInv, ConnectionsBounded
  <2>4. /\ k + 1 \in Segments
        /\ channel \in [Segments -> 0..MaxSegments]
        /\ stage \in [Segments -> {"opening", "open", "finalizing", "done"}]
        /\ 1..layout \subseteq Segments
    <3>1. conns \in Seq({"starting", "ready", "failed"}) /\ layout \in 1..MaxSegments
      BY DEF IInv, TypeOK, Segments
    <3>2. k \in Nat /\ 1 <= k /\ k <= Len(conns) /\ Len(conns) \in Nat BY <3>1
    <3>3. Len(conns) < layout BY DEF IInv, ConnectionsBounded
    <3>4. k + 1 \in Segments /\ 1..layout \subseteq Segments
      BY <3>1, <3>2, <3>3, SizeAssumption DEF Segments
    <3> QED BY <3>4 DEF IInv, TypeOK
  <2>5. ASSUME phase = "segmented", ~failed, NEW i \in 1..layout, stage'[i] # "done", channel'[i] # 0
        PROVE  channel'[i] \in DOMAIN conns' /\ conns'[channel'[i]] = "ready"
    <3>1. CASE i = k + 1 /\ stage[k + 1] \in {"opening", "open"}
      <4>1. channel'[i] = k BY <1>6, <2>4, <2>5, <3>1 DEF ConnectionReady
      <4> QED BY <4>1, <2>2
    <3>2. CASE ~(i = k + 1 /\ stage[k + 1] \in {"opening", "open"})
      <4>1. channel'[i] = channel[i] /\ stage'[i] = stage[i]
        BY <1>6, <2>4, <2>5, <3>2 DEF ConnectionReady
      <4>2. channel[i] \in DOMAIN conns /\ conns[channel[i]] = "ready"
        BY <4>1, <2>5 DEF ChannelsUsable
      <4> QED BY <4>1, <4>2, <2>1, <2>2
    <3> QED BY <3>1, <3>2
  <2> QED BY <2>1, <2>2, <2>3, <2>5 DEF ChannelsUsable
<1>7. ASSUME NEW k \in DOMAIN conns, ConnectionFailed(k) PROVE ChannelsUsable'
  <2>1. /\ conns[k] = "starting" /\ StartNext([conns EXCEPT ![k] = "failed"])
        /\ UNCHANGED <<phase, layout, stage, channel, failed>>
    BY <1>7 DEF ConnectionFailed, segs
  <2>2. /\ \A i, j \in DOMAIN conns' : conns'[i] = "starting" /\ conns'[j] = "starting" => i = j
        /\ \A j \in DOMAIN conns : j \in DOMAIN conns' /\ (j # k => conns'[j] = conns[j])
    BY <2>1, StartNextFacts
  <2> QED BY <2>1, <2>2 DEF ChannelsUsable
<1>8. ASSUME NEW k \in DOMAIN conns, ConnectionDropped(k) \/ HostkeyMismatch(k)
      PROVE  ChannelsUsable'
  <2>1. /\ conns' = [conns EXCEPT ![k] = "failed"]
        /\ UNCHANGED <<phase, layout, stage, channel>>
        /\ phase = "segmented" => failed' = TRUE
    BY <1>8 DEF ConnectionDropped, HostkeyMismatch, Fail, segs, IInv, TypeOK
  <2> QED BY <2>1, FailedConnection DEF ChannelsUsable
<1>9. CASE ConcatRead \/ ConcatNextPart \/ ConcatEnd \/ ConcatError \/ WriteLocal \/ ConcatFinalize
  <2>1. conns' = conns /\ phase' = "concat"
    BY <1>9 DEF ConcatRead, ConcatNextPart, ConcatEnd, ConcatError, WriteLocal, ConcatFinalize,
                Merging, AllWritten
  <2> QED BY <2>1, <1>0
<1>10. CASE ResetEvent \/ Cancel \/ Disconnect \/ Crash \/ CrashDeleting
  BY <1>10, GoneIsUnconnected DEF ResetEvent, Cancel, Disconnect, Crash, CrashDeleting, Reset
<1>11. CASE UNCHANGED vars BY <1>11, <1>1 DEF vars
<1> QED
  BY <1>2, <1>3, <1>4, <1>5, <1>6, <1>7, <1>8, <1>9, <1>10, <1>11 DEF Next

\* Additional connections are established one at a time, and no unfinished
\* segment is left on a connection that was lost.
THEOREM ConnectionsCorrect == Spec => []ConnectionsOrderly
<1>1. Init => ChannelsUsable BY DEF Init, ChannelsUsable
<1>2. IInv /\ ChannelsUsable /\ [Next]_vars => ChannelsUsable' BY ChannelsStep
<1>3. ChannelsUsable => ConnectionsOrderly BY DEF ChannelsUsable, ConnectionsOrderly, OnChannel
<1> QED BY <1>1, <1>2, <1>3, Invariance, PTL DEF Spec

-----------------------------------------------------------------------------
(* What an attempt leaves for the next one.                                 *)

\* While the segments are fetched, no part gets shorter.
LEMMA PartsGrow ==
  ASSUME IInv, [Next]_vars, phase = "segmented", NEW i \in Segments
  PROVE  PartSize(i) <= PartSize(i)'
<1>1. PartSize(i) \in Nat BY DEF IInv, TypeOK, PartSize, File
<1>2. ASSUME parts' = parts PROVE PartSize(i) <= PartSize(i)' BY <1>1, <1>2 DEF PartSize
<1>3. ASSUME NEW j \in 1..layout, SegmentOpened(j) PROVE PartSize(i) <= PartSize(i)'
  <2>1. parts' = [parts EXCEPT ![j] = IF @ = NoFile THEN <<>> ELSE @]
    BY <1>3 DEF SegmentOpened
  <2>2. parts'[i] = parts[i] \/ (parts[i] = NoFile /\ parts'[i] = <<>>)
    BY <2>1 DEF IInv, TypeOK
  <2>3. Len(<<>>) = 0 OBVIOUS
  <2> QED BY <1>1, <2>2, <2>3 DEF PartSize
<1>4. ASSUME NEW j \in 1..layout, WritePart(j) PROVE PartSize(i) <= PartSize(i)'
  <2> DEFINE p == Append(parts[j], Offset(layout, j) + Len(parts[j]) + 1)
  <2>1. parts[j] # NoFile /\ parts' = [parts EXCEPT ![j] = p] BY <1>4 DEF WritePart
  <2>2. parts' \in [Segments -> File]
    BY <1>4, PartWrittenInvariant DEF IInv, TypeOK
  <2>3. parts'[i] = IF i = j THEN p ELSE parts[i] BY <2>1 DEF IInv, TypeOK
  <2>4. CASE i = j
    <3>1. parts[i] \in Seq(Block) BY <2>1, <2>4 DEF IInv, TypeOK, File
    <3>2. Len(p) = Len(parts[i]) + 1 BY <3>1, <2>4
    <3>3. p # NoFile
      <4>1. layout \in Segments /\ Total \in Nat BY SizeAssumption DEF IInv, TypeOK
      <4>2. Offset(layout, j) \in Nat BY <1>4, <4>1, SegmentsTile
      <4>3. parts[i] \in Seq(Nat) BY <3>1, <4>1 DEF Block
      <4>4. p \in Seq(Nat) BY <2>4, <4>2, <4>3
      <4> QED BY <4>4, FileAssumption
    <3> QED BY <3>2, <3>3, <2>1, <2>3, <2>4, <1>1 DEF PartSize
  <2>5. CASE i # j BY <2>3, <2>5, <1>1 DEF PartSize
  <2> QED BY <2>4, <2>5
<1>5. CASE Start \/ Answer \/ SingleOpened \/ SingleData \/ SingleEnd \/ SingleError
           \/ ConcatRead \/ ConcatNextPart \/ ConcatEnd \/ ConcatError \/ WriteLocal
           \/ ConcatFinalize \/ CrashDeleting
  BY <1>5 DEF Start, Answer, SingleOpened, SingleData, SingleEnd, SingleError, ConcatRead,
    ConcatNextPart, ConcatEnd, ConcatError, WriteLocal, ConcatFinalize, CrashDeleting, Merging,
    AllWritten, Deleting
<1>6. CASE ResetEvent \/ Cancel \/ Disconnect \/ Crash \/ UNCHANGED vars
  <2>1. parts' = parts
    BY <1>6 DEF ResetEvent, Cancel, Disconnect, Crash, Reset, vars, disk
  <2> QED BY <2>1, <1>2
<1>7. ASSUME NEW j \in 1..layout, SegmentData(j) \/ FinalizeSegment(j) \/ SegmentError(j)
      PROVE  PartSize(i) <= PartSize(i)'
  BY <1>7, <1>2 DEF SegmentData, FinalizeSegment, SegmentError, disk
<1>8. ASSUME NEW k \in DOMAIN conns,
             \/ ConnectionReady(k) \/ ConnectionFailed(k)
             \/ ConnectionDropped(k) \/ HostkeyMismatch(k)
      PROVE  PartSize(i) <= PartSize(i)'
  BY <1>8, <1>2 DEF ConnectionReady, ConnectionFailed, ConnectionDropped, HostkeyMismatch, disk
<1> QED BY <1>3, <1>4, <1>5, <1>6, <1>7, <1>8 DEF Next

\* What a segmented attempt has written survives whatever ends it.
THEOREM PartsSurvive == Spec => PartsKept
<1> DEFINE Kept == phase = "segmented" => Stored \subseteq Stored'
<1>1. ASSUME IInv, [Next]_vars PROVE Kept
  <2> SUFFICES ASSUME phase = "segmented", NEW b \in Segments \X Block, b[2] <= PartSize(b[1])
               PROVE  b[2] <= PartSize(b[1])'
    BY DEF Stored
  <2>1. b[1] \in Segments /\ b[2] \in Nat BY DEF Block
  <2>2. PartSize(b[1]) <= PartSize(b[1])' BY <1>1, <2>1, PartsGrow
  <2>3. PartSize(b[1]) \in Nat /\ PartSize(b[1])' \in Nat
    <3>1. IInv' BY <1>1, NextInvariant
    <3> QED BY <1>1, <2>1, <3>1, SMTT(30) DEF IInv, TypeOK, PartSize, File
  <2> QED BY <2>1, <2>2, <2>3
<1> QED BY <1>1, Invariance, PTL DEF Spec, PartsKept
=============================================================================
