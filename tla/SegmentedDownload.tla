------------------------- MODULE SegmentedDownload -------------------------
(***************************************************************************)
(* The life of one SFTP download, engine/sftp/filetransfer.cpp: attempts   *)
(* that fetch a file in one stream or in segments, are cancelled, lose     *)
(* their connections, or die with the process, and the files they leave    *)
(* for the next attempt.  A segment is written to a part file of its own,  *)
(* a manifest names the layout of the parts, and the completed parts are   *)
(* merged into the local file.                                             *)
(*                                                                         *)
(* Every action is one handler of the engine's event loop, or one write of *)
(* a writer thread.  How replies are matched to requests is the subject of *)
(* module SegmentPipeline; here a segment receives its blocks in order.    *)
(***************************************************************************)
EXTENDS Integers, Sequences, FiniteSetsExt

CONSTANTS
  Total,        \* remoteFileSize_, in blocks
  MaxSegments,  \* max_segment_count_, the upper limit of the option as well
  MinSize,      \* OPTION_SFTP_SEGMENT_MIN_SIZE, in blocks
  NoFile,       \* a path at which there is no file
  Torn          \* a manifest that was not completely written

ASSUME SizeAssumption ==
  /\ Total \in Nat \ {0}
  /\ MaxSegments \in Nat \ {0}
  /\ MinSize \in Nat \ {0}
ASSUME FileAssumption ==
  NoFile \notin Seq(Nat) \cup Nat /\ Torn \notin Nat /\ NoFile # Torn

VARIABLES
  \* on the disk
  local,        \* the file localName_: its blocks, named by their number
  parts,        \* the part files <name>.fzseg<i>: [1..MaxSegments -> blocks]
  manifest,     \* <name>.fzseg: NoFile, Torn, or the number of segments
  \* the operation
  phase,        \* opState
  resume,       \* resume_
  layout,       \* segments_.size()
  stage,        \* of a segment: its request, finalizing_ and done_
  received,     \* of a segment: received_
  channel,      \* of a segment: 0 for the primary connection, or conn_
  conns,        \* segment_connections_
  failed,       \* seg_failed_
  merge,        \* concat_part_, the read position, the blocks given to the
                \* writer, and concat_finalizing_
  queued,       \* result of the first reset_event queued, which destroys
                \* the operation and with it the others
  outcome       \* how the last attempt ended

disk == <<local, parts, manifest>>
segs == <<stage, received, channel>>
vars == <<local, parts, manifest, phase, resume, layout, stage, received,
          channel, conns, failed, merge, queued, outcome>>

Segments == 1..MaxSegments
Block == 1..Total
File == Seq(Block) \cup {NoFile}
Results == {"ok", "error", "critical", "canceled", "disconnected"}
MergeType == [part : 1..MaxSegments + 1, pos : 0..Total, sent : Seq(Block),
              state : {"reading", "finalizing", "over"}]

TypeOK ==
  /\ local \in File
  /\ parts \in [Segments -> File]
  /\ manifest \in {NoFile, Torn} \cup Segments
  /\ phase \in {"idle", "asking", "opening", "transfer", "segmented", "concat"}
  /\ resume \in BOOLEAN
  /\ layout \in Segments
  /\ stage \in [Segments -> {"opening", "open", "finalizing", "done"}]
  /\ received \in [Segments -> 0..Total]
  /\ channel \in [Segments -> 0..MaxSegments]
  /\ conns \in Seq({"starting", "ready", "failed"})
  /\ failed \in BOOLEAN
  /\ merge \in MergeType
  /\ queued \in {"none"} \cup Results
  /\ outcome \in {"none", "skipped"} \cup Results

-----------------------------------------------------------------------------
(* The layout of the segments.                                             *)

\* segment_count: the largest number of segments, up to the option's value,
\* of which each has at least the minimum size.
SegmentCount(wanted) ==
  Max({n \in 1..wanted : n = 1 \/ Total >= n * MinSize})

\* Definitions marked "Fault:" are the definition that follows them with a
\* plausible mistake in it; no specification uses them.

\* Fault: every segment has the longer length.
LengthRoundedUp(c, i) == Total \div c + IF Total % c > 0 THEN 1 ELSE 0

\* The equal split of start_segmented: the first Total % c segments are one
\* block longer, and a segment starts where the previous one ends.
Length(c, i) == Total \div c + IF i <= Total % c THEN 1 ELSE 0
Offset(c, i) ==
  (i - 1) * (Total \div c) + IF i - 1 <= Total % c THEN i - 1 ELSE Total % c

PartSize(i) == IF parts[i] = NoFile THEN 0 ELSE Len(parts[i])

\* Fault: the number of segments in the manifest is not compared.
ResumableAnyLayout(c) ==
  manifest \in Segments /\ \A i \in 1..c : PartSize(i) <= Length(c, i)

\* read_segment_manifest, then the sizes of the part files.
Resumable(c) == manifest = c /\ \A i \in 1..c : PartSize(i) <= Length(c, i)

\* part_size_: the sizes are read up to the first part that is too large, and
\* are not reset when the parts are then deleted.
SizeRead(c, i) ==
  IF manifest = c /\ i <= c /\ \A k \in 1..i : PartSize(k) <= Length(c, k)
  THEN PartSize(i) ELSE 0

\* delete_segment_files(k) before it removes the manifest
WithoutParts(k) == [i \in Segments |-> IF i <= k THEN NoFile ELSE parts[i]]
DeleteSegmentFiles(k) == parts' = WithoutParts(k) /\ manifest' = NoFile

-----------------------------------------------------------------------------
Merge(part, pos, sent, state) ==
  [part |-> part, pos |-> pos, sent |-> sent, state |-> state]
NoMerge == Merge(1, 0, <<>>, "reading")

\* The operation's data is gone: cleanup_segments and its destruction.
NoOperation ==
  /\ phase' = "idle"
  /\ resume' = FALSE
  /\ layout' = 1
  /\ stage' = [i \in Segments |-> "opening"]
  /\ received' = [i \in Segments |-> 0]
  /\ channel' = [i \in Segments |-> 0]
  /\ conns' = <<>>
  /\ failed' = FALSE
  /\ merge' = NoMerge
  /\ queued' = "none"

Init ==
  /\ local = NoFile
  /\ parts = [i \in Segments |-> NoFile]
  /\ manifest = NoFile
  /\ phase = "idle"
  /\ resume = FALSE
  /\ layout = 1
  /\ stage = [i \in Segments |-> "opening"]
  /\ received = [i \in Segments |-> 0]
  /\ channel = [i \in Segments |-> 0]
  /\ conns = <<>>
  /\ failed = FALSE
  /\ merge = NoMerge
  /\ queued = "none"
  /\ outcome = "none"

\* trigger_reset
TriggerReset(result) == queued' = IF queued = "none" THEN result ELSE queued

\* seg_failed_ = true; trigger_reset(result)
Fail(result) == failed' = TRUE /\ TriggerReset(result)

\* Fault: a single stream leaves the parts of earlier attempts behind.
ResetKeepingParts(result) ==
  /\ local' = IF result # "ok" /\ phase = "concat" THEN NoFile ELSE local
  /\ outcome' = IF phase = "asking" /\ result = "ok" THEN "skipped" ELSE result
  /\ UNCHANGED <<parts, manifest>>
  /\ NoOperation

\* CControlSocket::ResetOperation with CSftpFileTransferOpData::Reset
Reset(result) ==
  /\ IF result = "ok" /\ phase \notin {"segmented", "concat"} /\ manifest # NoFile
     THEN DeleteSegmentFiles(MaxSegments)
     ELSE UNCHANGED <<parts, manifest>>
  /\ local' = IF result # "ok" /\ phase = "concat" THEN NoFile ELSE local
  /\ outcome' = IF phase = "asking" /\ result = "ok" THEN "skipped" ELSE result
  /\ NoOperation

-----------------------------------------------------------------------------
(* The single stream.                                                      *)

\* Send in state filetransfer_transfer without segments: stale parts are
\* deleted, the remote file is opened.
StartSingle(res) ==
  /\ IF ~res /\ manifest # NoFile THEN DeleteSegmentFiles(MaxSegments)
                                  ELSE UNCHANGED <<parts, manifest>>
  /\ phase' = "opening"
  /\ resume' = res
  /\ outcome' = "none"
  /\ UNCHANGED <<local, layout, segs, conns, failed, merge, queued>>

\* process_handle
SingleOpened ==
  /\ phase = "opening" /\ queued = "none"
  /\ local' = IF resume THEN local ELSE <<>>
  /\ phase' = "transfer"
  /\ UNCHANGED <<parts, manifest, resume, layout, segs, conns, failed, merge, queued, outcome>>

\* process_data
SingleData ==
  /\ phase = "transfer" /\ queued = "none"
  /\ Len(local) < Total
  /\ local' = Append(local, Len(local) + 1)
  /\ UNCHANGED <<parts, manifest, phase, resume, layout, segs, conns, failed, merge, queued, outcome>>

\* do_process_status with SSH_FX_EOF, then finalize.  A server says so only at
\* the end of the file: any end of file is a success.
SingleEnd ==
  /\ phase = "transfer" /\ queued = "none"
  /\ Len(local) = Total
  /\ TriggerReset("ok")
  /\ UNCHANGED <<disk, phase, resume, layout, segs, conns, failed, merge, outcome>>

\* An error status, a second short read, or an error of the writer.
SingleError ==
  /\ phase \in {"opening", "transfer"} /\ queued = "none"
  /\ \E result \in {"error", "critical"} : TriggerReset(result)
  /\ UNCHANGED <<disk, phase, resume, layout, segs, conns, failed, merge, outcome>>

-----------------------------------------------------------------------------
(* The segments.                                                           *)

\* start_concat, called when the last segment is done: the local file is
\* created, or truncated.
StartConcat ==
  /\ phase' = "concat"
  /\ merge' = NoMerge
  /\ \/ local' = <<>> /\ UNCHANGED queued
     \/ UNCHANGED local /\ TriggerReset("error")

\* Fault: the case that every part is complete already is forgotten.
StartSegmentedUnmerged(c) ==
  /\ IF Resumable(c) THEN UNCHANGED <<parts, manifest>>
     ELSE parts' = WithoutParts(MaxSegments) /\ manifest' = c
  /\ received' = [i \in Segments |-> SizeRead(c, i)]
  /\ stage' = [i \in Segments |->
                 IF i <= c /\ received'[i] >= Length(c, i) THEN "done" ELSE "opening"]
  /\ layout' = c
  /\ phase' = "segmented"
  /\ conns' = <<"starting">>
  /\ outcome' = "none"
  /\ UNCHANGED <<local, resume, channel, failed, merge, queued>>

\* start_segmented: complete parts of the same layout are kept, else all files
\* of an earlier attempt are deleted and the manifest is written.
StartSegmented(c) ==
  /\ IF Resumable(c) THEN UNCHANGED <<parts, manifest>>
     ELSE parts' = WithoutParts(MaxSegments) /\ manifest' = c
  /\ received' = [i \in Segments |-> SizeRead(c, i)]
  /\ stage' = [i \in Segments |->
                 IF i <= c /\ received'[i] >= Length(c, i) THEN "done" ELSE "opening"]
  /\ layout' = c
  /\ outcome' = "none"
  /\ IF \A i \in 1..c : stage'[i] = "done"
     THEN StartConcat /\ UNCHANGED conns
     ELSE /\ phase' = "segmented"
          /\ conns' = <<"starting">>
          /\ UNCHANGED <<local, merge, queued>>
  /\ UNCHANGED <<resume, channel, failed>>

\* write_segment_manifest fails, start_segmented returns an error.
StartSegmentedFails(c) ==
  /\ ~Resumable(c)
  /\ parts' = WithoutParts(MaxSegments)
  /\ manifest' \in {NoFile, Torn}
  /\ outcome' = "error"
  /\ UNCHANGED <<local, phase, resume, layout, segs, conns, failed, merge, queued>>

\* CheckOverwriteFile: without a local file the transfer starts at once.
Start ==
  /\ phase = "idle"
  /\ \/ /\ local # NoFile
        /\ phase' = "asking"
        /\ outcome' = "none"
        /\ UNCHANGED <<disk, resume, layout, segs, conns, failed, merge, queued>>
     \/ /\ local = NoFile
        /\ \E wanted \in Segments :
              \/ SegmentCount(wanted) = 1 /\ StartSingle(FALSE)
              \/ SegmentCount(wanted) > 1 /\ StartSegmented(SegmentCount(wanted))
              \/ SegmentCount(wanted) > 1 /\ StartSegmentedFails(SegmentCount(wanted))

\* SetFileExistsAction.  A file that is there is never fetched in segments.
Answer ==
  /\ phase = "asking"
  /\ \/ StartSingle(FALSE)   \* overwrite
     \/ StartSingle(TRUE)    \* resume
     \/ Reset("ok")          \* skip

OnChannel(i) == channel[i] # 0 => conns[channel[i]] = "ready"

\* A segment whose channel is alive, in a transfer that has not failed.
Active(i) == phase = "segmented" /\ i <= layout /\ ~failed /\ OnChannel(i)

\* Fault: the part is opened at its beginning.
SegmentOpenedFresh(i) ==
  /\ Active(i) /\ stage[i] = "opening"
  /\ stage' = [stage EXCEPT ![i] = "open"]
  /\ parts' = [parts EXCEPT ![i] = <<>>]
  /\ UNCHANGED <<local, manifest, phase, resume, layout, received, channel, conns,
                 failed, merge, queued, outcome>>

\* on_segment_open: the writer is opened once, at the size of the part.
SegmentOpened(i) ==
  /\ Active(i) /\ stage[i] = "opening"
  /\ stage' = [stage EXCEPT ![i] = "open"]
  /\ parts' = [parts EXCEPT ![i] = IF @ = NoFile THEN <<>> ELSE @]
  /\ UNCHANGED <<local, manifest, phase, resume, layout, received, channel, conns,
                 failed, merge, queued, outcome>>

\* process_segment_data
SegmentData(i) ==
  /\ Active(i) /\ stage[i] = "open"
  /\ received' = [received EXCEPT ![i] = @ + 1]
  /\ stage' = [stage EXCEPT ![i] =
                 IF received[i] + 1 >= Length(layout, i) THEN "finalizing" ELSE @]
  /\ UNCHANGED <<disk, phase, resume, layout, channel, conns, failed, merge, queued, outcome>>

\* The writer's thread writes the next block that was received.
WritePart(i) ==
  /\ phase = "segmented" /\ i <= layout
  /\ parts[i] # NoFile /\ Len(parts[i]) < received[i]
  /\ parts' = [parts EXCEPT ![i] = Append(@, Offset(layout, i) + Len(@) + 1)]
  /\ UNCHANGED <<local, manifest, phase, resume, layout, segs, conns, failed, merge,
                 queued, outcome>>

\* Fault: the writer's answer "wait" is taken for success.
FinalizeSegmentEarly(i) ==
  /\ phase = "segmented" /\ i <= layout /\ ~failed
  /\ stage[i] = "finalizing"
  /\ stage' = [stage EXCEPT ![i] = "done"]
  /\ IF \A j \in 1..layout : stage'[j] = "done"
     THEN StartConcat
     ELSE UNCHANGED <<local, phase, merge, queued>>
  /\ UNCHANGED <<parts, manifest, resume, layout, received, channel, conns, failed, outcome>>

\* finalize_segment, once everything received is written.
FinalizeSegment(i) ==
  /\ phase = "segmented" /\ i <= layout /\ ~failed
  /\ stage[i] = "finalizing" /\ PartSize(i) = received[i]
  /\ stage' = [stage EXCEPT ![i] = "done"]
  /\ IF \A j \in 1..layout : stage'[j] = "done"
     THEN StartConcat
     ELSE UNCHANGED <<local, phase, merge, queued>>
  /\ UNCHANGED <<parts, manifest, resume, layout, received, channel, conns, failed, outcome>>

\* process_segment_status, a short read, or an error of the writer.
SegmentError(i) ==
  /\ Active(i) /\ stage[i] # "done"
  /\ Fail("error")
  /\ UNCHANGED <<disk, phase, resume, layout, segs, conns, merge, outcome>>

-----------------------------------------------------------------------------
(* The additional connections of the segments, segment_connection.cpp.     *)

\* start_next_segment_connection, after connection k of cs was resolved.
StartNext(cs) ==
  conns' = IF phase = "segmented" /\ ~failed /\ Len(cs) + 1 < layout
           THEN Append(cs, "starting") ELSE cs

\* on_sftp_ready, on_segment_connection_ready: the connection takes over the
\* segment of its index, whose requests are cancelled and sent again.
ConnectionReady(k) ==
  /\ conns[k] = "starting"
  /\ StartNext([conns EXCEPT ![k] = "ready"])
  /\ LET i == k + 1
     IN IF phase = "segmented" /\ ~failed /\ stage[i] \in {"opening", "open"}
        THEN /\ channel' = [channel EXCEPT ![i] = k]
             /\ stage' = [stage EXCEPT ![i] = "opening"]
        ELSE UNCHANGED <<channel, stage>>
  /\ UNCHANGED <<disk, phase, resume, layout, received, failed, merge, queued, outcome>>

\* fail(), on_segment_connection_failed: the segment stays where it is.
ConnectionFailed(k) ==
  /\ conns[k] = "starting"
  /\ StartNext([conns EXCEPT ![k] = "failed"])
  /\ UNCHANGED <<disk, phase, resume, layout, segs, failed, merge, queued, outcome>>

\* Fault: a lost connection is treated like one that was not established.
ConnectionDroppedQuietly(k) ==
  /\ conns[k] = "ready"
  /\ StartNext([conns EXCEPT ![k] = "failed"])
  /\ UNCHANGED <<disk, phase, resume, layout, segs, failed, merge, queued, outcome>>

\* on_sftp_done or on_session_done of a connection in use
ConnectionDropped(k) ==
  /\ conns[k] = "ready"
  /\ conns' = [conns EXCEPT ![k] = "failed"]
  /\ IF phase = "segmented" /\ ~failed THEN Fail("error") ELSE UNCHANGED <<failed, queued>>
  /\ UNCHANGED <<disk, phase, resume, layout, segs, merge, outcome>>

\* on_hostkey_verification, on_segment_hostkey_mismatch: whatever the opState
HostkeyMismatch(k) ==
  /\ conns[k] = "starting"
  /\ conns' = [conns EXCEPT ![k] = "failed"]
  /\ Fail("critical")
  /\ UNCHANGED <<disk, phase, resume, layout, segs, merge, outcome>>

-----------------------------------------------------------------------------
(* The merge.                                                              *)

MergeIs(state) == Merge(merge.part, merge.pos, merge.sent, state)
Merging == phase = "concat" /\ merge.state = "reading" /\ local # NoFile

\* concat_pump: the next block of a part goes to the writer.
ConcatRead ==
  /\ Merging /\ merge.part <= layout
  /\ parts[merge.part] # NoFile /\ merge.pos < Len(parts[merge.part])
  /\ merge' = Merge(merge.part, merge.pos + 1,
                    Append(merge.sent, parts[merge.part][merge.pos + 1]), "reading")
  /\ UNCHANGED <<disk, phase, resume, layout, segs, conns, failed, queued, outcome>>

\* concat_pump: the part has been read.
ConcatNextPart ==
  /\ Merging /\ merge.part <= layout
  /\ parts[merge.part] # NoFile /\ merge.pos = Len(parts[merge.part])
  /\ merge' = Merge(merge.part + 1, 0, merge.sent, "reading")
  /\ UNCHANGED <<disk, phase, resume, layout, segs, conns, failed, queued, outcome>>

\* concat_pump: all parts have been read.
ConcatEnd ==
  /\ Merging /\ merge.part > layout
  /\ IF Len(merge.sent) # Total
     THEN TriggerReset("error") /\ merge' = MergeIs("over")
     ELSE UNCHANGED queued /\ merge' = MergeIs("finalizing")
  /\ UNCHANGED <<disk, phase, resume, layout, segs, conns, failed, outcome>>

\* A part cannot be opened or read, or the local file not be written.
ConcatError ==
  /\ phase = "concat" /\ merge.state # "over" /\ local # NoFile
  /\ TriggerReset("error")
  /\ merge' = MergeIs("over")
  /\ UNCHANGED <<disk, phase, resume, layout, segs, conns, failed, outcome>>

\* The writer's thread writes the next block it was given.
WriteLocal ==
  /\ phase = "concat" /\ merge.state # "over" /\ local # NoFile
  /\ Len(local) < Len(merge.sent)
  /\ local' = Append(local, merge.sent[Len(local) + 1])
  /\ UNCHANGED <<parts, manifest, phase, resume, layout, segs, conns, failed, merge,
                 queued, outcome>>

AllWritten ==
  phase = "concat" /\ merge.state = "finalizing" /\ Len(local) = Len(merge.sent)

\* concat_finalize: the parts are deleted, the result is only queued.
ConcatFinalize ==
  /\ AllWritten
  /\ DeleteSegmentFiles(layout)
  /\ TriggerReset("ok")
  /\ merge' = MergeIs("over")
  /\ UNCHANGED <<local, phase, resume, layout, segs, conns, failed, outcome>>

-----------------------------------------------------------------------------
(* The end of an operation.                                                *)

\* CSftpOpData::on_reset_event
ResetEvent == queued # "none" /\ Reset(queued)

\* CControlSocket::Cancel, on behalf of the user
Cancel == phase # "idle" /\ Reset("canceled")

\* DoClose: the primary connection is lost, or OnTimer found no activity.
Disconnect == phase # "idle" /\ Reset("disconnected")

\* The process dies between two handlers.
Crash == phase # "idle" /\ NoOperation /\ outcome' = "none" /\ UNCHANGED disk

\* A handler is about to delete the part files.
Deleting ==
  \/ /\ phase = "idle" /\ local = NoFile
     /\ \E wanted \in Segments :
           SegmentCount(wanted) = 1 \/ ~Resumable(SegmentCount(wanted))
  \/ phase = "asking"
  \/ phase = "transfer" /\ queued = "ok"
  \/ AllWritten

\* The process dies while it deletes: delete_segment_files removes the parts
\* in order, and the manifest last.
CrashDeleting ==
  /\ Deleting
  /\ \E k \in Segments : parts' = WithoutParts(k)
  /\ NoOperation /\ outcome' = "none"
  /\ UNCHANGED <<local, manifest>>

Next ==
  \/ Start \/ Answer
  \/ SingleOpened \/ SingleData \/ SingleEnd \/ SingleError
  \/ \E i \in 1..layout :
        \/ SegmentOpened(i) \/ SegmentData(i) \/ WritePart(i)
        \/ FinalizeSegment(i) \/ SegmentError(i)
  \/ \E k \in DOMAIN conns :
        \/ ConnectionReady(k) \/ ConnectionFailed(k)
        \/ ConnectionDropped(k) \/ HostkeyMismatch(k)
  \/ ConcatRead \/ ConcatNextPart \/ ConcatEnd \/ ConcatError
  \/ WriteLocal \/ ConcatFinalize
  \/ ResetEvent \/ Cancel \/ Disconnect \/ Crash \/ CrashDeleting

\* The event loop runs its handlers, the writers write, the server answers and
\* every connection attempt is decided, by its own timer if need be.
Fairness ==
  /\ WF_vars(SingleOpened \/ SingleData \/ SingleEnd)
  /\ \A i \in Segments :
        /\ WF_vars(i <= layout /\ SegmentOpened(i))
        /\ WF_vars(i <= layout /\ SegmentData(i))
        /\ WF_vars(i <= layout /\ WritePart(i))
        /\ WF_vars(i <= layout /\ FinalizeSegment(i))
  /\ WF_vars(ConcatRead \/ ConcatNextPart \/ ConcatEnd)
  /\ WF_vars(WriteLocal)
  /\ WF_vars(ConcatFinalize)
  /\ WF_vars(ResetEvent)

Spec == Init /\ [][Next]_vars /\ Fairness

-----------------------------------------------------------------------------
\* file consists of the blocks from + 1, from + 2, ..., at most n of them.
Holds(file, from, n) ==
  Len(file) <= n /\ \A b \in DOMAIN file : file[b] = from + b

\* What the files say is true: every part file on the disk is the beginning of
\* its segment in the layout the manifest names, and the local file is the
\* beginning of the remote file, whatever the attempts that wrote them, their
\* options, and where they stopped.  A resumed attempt trusts the files.
FilesIntact ==
  /\ \A i \in Segments :
        parts[i] # NoFile =>
           /\ manifest \in i..MaxSegments
           /\ Holds(parts[i], Offset(manifest, i), Length(manifest, i))
  /\ local # NoFile => Holds(local, 0, Total)

\* A successful transfer leaves the whole file and none of its part files.
SuccessComplete ==
  outcome = "ok" =>
     /\ local # NoFile => Len(local) = Total
     /\ phase = "idle" => local # NoFile
     /\ phase = "idle" => manifest = NoFile /\ \A i \in Segments : parts[i] = NoFile

\* A merge starts from complete parts and keeps all of them until the local
\* file is complete on the disk.
MergeHasParts ==
  phase = "concat" =>
     \/ \A i \in 1..layout : PartSize(i) = Length(layout, i)
     \/ local # NoFile /\ Len(local) = Total

\* What a segmented attempt has received and written survives its failure.
Stored == {b \in Segments \X Block : b[2] <= PartSize(b[1])}
PartsKept == [][phase = "segmented" => Stored \subseteq Stored']_vars

\* Additional connections are established one at a time, and an unfinished
\* segment is never left on a connection that is not there.
ConnectionsOrderly ==
  /\ \A j, k \in DOMAIN conns : conns[j] = "starting" /\ conns[k] = "starting" => j = k
  /\ phase = "segmented" /\ ~failed =>
        \A i \in 1..layout : stage[i] # "done" => OnChannel(i)

\* Every transfer ends.
Ends == phase \notin {"idle", "asking"} ~> phase = "idle"

\* The comment of Reset: a partially merged file that is removed can be
\* reproduced from the parts.
MergeReproducible ==
  [][phase = "concat" /\ local # NoFile /\ local' = NoFile =>
       \A i \in 1..layout : PartSize(i) = Length(layout, i)]_vars

\* The comment of Reset: an operation that ends without segments and removes
\* the parts has downloaded the file.
PartsRemovedWhenFinished ==
  [][outcome # "skipped" /\ outcome' = "skipped" /\ parts' # parts =>
       Len(local) = Total]_vars
=============================================================================
