-------------------------- MODULE SegmentPipeline --------------------------
(***************************************************************************)
(* The read requests of a segmented download, engine/sftp/filetransfer.cpp:*)
(* the segments share channels, a segment moves to an additional channel   *)
(* once that is established, and buffers go round between the segments,    *)
(* their writers and a common pool.                                        *)
(*                                                                         *)
(* A channel keeps its requests in order.  sftp_client matches replies to  *)
(* requests by their id, hands them out in the order of the requests, and  *)
(* drops the replies to requests that were cancelled.  It hands out none   *)
(* while a handler has asked it to wait.  Failing transfers are the        *)
(* subject of module SegmentedDownload.                                    *)
(***************************************************************************)
EXTENDS Integers, Sequences, FiniteSets

CONSTANTS
  N,            \* number of segments
  Extra,        \* additional connections that will be established: numbers
                \* below N, connection k is meant for segment k + 1
  Length,       \* blocks of each segment
  MaxPending,   \* max_pending_, which adapts to the round trip time
  Pool,         \* buffers of buffer_pool_, any number of which a writer takes
  BufferSize    \* blocks that fit into a buffer

ASSUME SizeAssumption ==
  /\ {N, Length, MaxPending, Pool, BufferSize} \subseteq Nat \ {0}
  /\ Extra \subseteq 1..N - 1

VARIABLES
  chan,         \* of a channel: the packets of its output buffer, those sent,
                \* whether it waits (wait_read_), and its segment_pipe_state
  seg,          \* the segment_handlers
  backpressure  \* whether a channel may not take a packet at once

vars == <<chan, seg, backpressure>>

Segs == 1..N
Chans == 0..N - 1
NoBuffer == -1
NoChannel == -1

Packet == [kind : {"open", "read", "close"}, seg : Segs, block : 0..Length, live : BOOLEAN]

ChannelState == [out : Seq(Packet), sent : Seq(Packet), blocked : BOOLEAN,
                 requested : Int, responded : Nat, turn : 0..N - 1, ready : BOOLEAN]
SegmentState == [conn : Chans,              \* conn_
                 handle : BOOLEAN,          \* handle_ is not empty
                 opened : BOOLEAN,          \* writer_ is open
                 next : 0..Length,          \* blocks requested
                 outstanding : 0..Length,   \* outstanding_
                 got : Seq(1..Length),      \* the blocks appended, in order
                 buffer : NoBuffer..BufferSize,
                 writing : 0..Pool,         \* buffers its writer has
                 waits : {"no", "writer", "pool"},
                 stall : {NoChannel} \cup Chans,
                 phase : {"receiving", "finalizing", "done"}]

TypeOK ==
  /\ chan \in [Chans -> ChannelState]
  /\ seg \in [Segs -> SegmentState]
  /\ backpressure \in BOOLEAN

-----------------------------------------------------------------------------
(* Operators on a pair st of channels st.c and segments st.s.              *)

Pending(st, c) == Len(st.c[c].out) + Len(st.c[c].sent)
CanSend(st, c) == st.c[c].out = <<>>

\* A packet is written at once, unless the channel is or becomes congested.
Send(st, c, p, congested) ==
  IF congested \/ ~CanSend(st, c)
  THEN [st EXCEPT !.c[c].out = Append(@, p)]
  ELSE [st EXCEPT !.c[c].sent = Append(@, p)]

\* The buffers of a segment that are filled or written, numbered; and how many
\* there are besides those of all segments.
Held(x) == x.writing + IF x.buffer # NoBuffer THEN 1 ELSE 0
InUse(st) == {u \in Segs \X (1..Pool + 1) : u[2] <= Held(st.s[u[1]])}
Free(st) == Pool - Cardinality(InUse(st))

\* Definitions marked "Fault:" are the definition that follows them with a
\* plausible mistake in it; no specification uses them.

\* Fault: the end of the segment is not looked at.
CandidatesEndless(st, c) ==
  {s \in Segs : /\ st.s[s].conn = c
                /\ st.s[s].handle
                /\ st.s[s].phase = "receiving"
                /\ st.s[s].buffer # NoBuffer}

\* next_request_segment: the segments with something left to request, and the
\* first of them from next_segment_ on.
Candidates(st, c) ==
  {s \in Segs : /\ st.s[s].conn = c
                /\ st.s[s].handle
                /\ st.s[s].phase = "receiving"
                /\ st.s[s].buffer # NoBuffer
                /\ st.s[s].next < Length}
NextSegment(st, c) ==
  CHOOSE s \in Candidates(st, c) :
    \A t \in Candidates(st, c) : (s - 1 - st.c[c].turn) % N <= (t - 1 - st.c[c].turn) % N

\* The body of the loop of request_segments.
Request(st, c, congested) ==
  IF Pending(st, c) < MaxPending /\ CanSend(st, c) /\ Candidates(st, c) # {}
  THEN LET s == NextSegment(st, c)
           block == st.s[s].next + 1
           read == [kind |-> "read", seg |-> s, block |-> block, live |-> TRUE]
           sent == Send(st, c, read, congested)
       IN [sent EXCEPT !.s[s].next = block,
                       !.s[s].outstanding = @ + 1,
                       !.c[c].turn = s % N,
                       !.c[c].requested = @ + 1]
  ELSE st

\* request_segments sends at most two requests.  (The sets have TLC evaluate
\* the state after each request once.)
RequestSegments(st, c, congested) ==
  CHOOSE second \in {Request(first, c, congested) : first \in {Request(st, c, congested)}} : TRUE

\* The buffer of s goes to its writer.
HandOver(st, s) ==
  IF st.s[s].buffer > 0
  THEN [st EXCEPT !.s[s].buffer = NoBuffer, !.s[s].writing = @ + 1]
  ELSE [st EXCEPT !.s[s].buffer = NoBuffer]

\* get_next_segment_buffer: waits "no" is aio_result::ok
GetNextBuffer(st, s) ==
  LET handed == HandOver(st, s)
  IN IF st.s[s].buffer > 0 /\ handed.s[s].writing >= Pool
     THEN [handed EXCEPT !.s[s].waits = "writer"]
     ELSE IF Free(handed) = 0 THEN [handed EXCEPT !.s[s].waits = "pool"]
     ELSE [handed EXCEPT !.s[s].waits = "no", !.s[s].buffer = 0]

\* Fault: the channel goes on handing out replies.
BufferThenRequestUnblocked(st, s, c, congested) ==
  LET got == GetNextBuffer(st, s)
  IN IF got.s[s].waits = "no" THEN RequestSegments(got, st.s[s].conn, congested)
     ELSE got

\* A reply handler of channel c that needs a buffer for s: with one it requests
\* more, without one the channel waits.
BufferThenRequest(st, s, c, congested) ==
  LET got == GetNextBuffer(st, s)
  IN IF got.s[s].waits = "no" THEN RequestSegments(got, st.s[s].conn, congested)
     ELSE [got EXCEPT !.s[s].stall = c, !.c[c].blocked = TRUE]

\* Fault: the channel is not the one stalled but the segment's present one.
UnstallPresent(st, s) ==
  IF st.s[s].stall = NoChannel THEN st
  ELSE [st EXCEPT !.c[st.s[s].conn].blocked = FALSE, !.s[s].stall = NoChannel]

\* sftp_client::unblock_read for the channel that s stalls, if any
Unstall(st, s) ==
  IF st.s[s].stall = NoChannel THEN st
  ELSE [st EXCEPT !.c[st.s[s].stall].blocked = FALSE, !.s[s].stall = NoChannel]

-----------------------------------------------------------------------------
Segment(s, phase) ==
  [conn |-> 0, handle |-> FALSE, opened |-> FALSE, next |-> 0, outstanding |-> 0,
   got |-> <<>>, buffer |-> NoBuffer, writing |-> 0, waits |-> "no",
   stall |-> NoChannel, phase |-> phase]
Open(s) == [kind |-> "open", seg |-> s, block |-> 0, live |-> TRUE]
Close(s) == [kind |-> "close", seg |-> s, block |-> 0, live |-> FALSE]

\* start_segmented opens the file for every segment on the primary channel.
Init ==
  /\ seg = [s \in Segs |-> Segment(s, "receiving")]
  /\ chan = [c \in Chans |->
               [out |-> <<>>, sent |-> IF c = 0 THEN [s \in Segs |-> Open(s)] ELSE <<>>,
                blocked |-> FALSE, requested |-> 0, responded |-> 0, turn |-> 0,
                ready |-> c = 0]]
  /\ backpressure \in BOOLEAN

\* (The quantifier has TLC evaluate the pair once.)
Become(st) == \E next \in {st} : chan' = next.c /\ seg' = next.s

\* The output buffer of the channel drains.
Flush(c) ==
  /\ chan[c].out # <<>>
  /\ chan' = [chan EXCEPT ![c].out = Tail(@), ![c].sent = Append(@, Head(chan[c].out))]
  /\ UNCHANGED seg

\* The state after the reply to the oldest request of c was taken.
Taken(c) == [c |-> [chan EXCEPT ![c].sent = Tail(@)], s |-> seg]

\* sftp_client hands out the reply to a request of that kind.
Replied(c, kind) ==
  /\ chan[c].sent # <<>> /\ ~chan[c].blocked
  /\ Head(chan[c].sent).live /\ Head(chan[c].sent).kind = kind

\* The reply to a cancelled request, or to close(nullptr, handle), is dropped.
DropReply(c) ==
  /\ chan[c].sent # <<>> /\ ~chan[c].blocked /\ ~Head(chan[c].sent).live
  /\ Become(Taken(c))

\* on_segment_open: a segment that was moved has its writer and its buffer.
OnSegmentOpen(c, congested) ==
  /\ Replied(c, "open")
  /\ LET s == Head(chan[c].sent).seg
         st == [Taken(c) EXCEPT !.s[s].handle = TRUE, !.s[s].opened = TRUE]
     IN Become(IF seg[s].opened THEN RequestSegments(st, seg[s].conn, congested)
               ELSE BufferThenRequest(st, s, c, congested))

\* process_segment_data.  A segment that is complete goes to finalize_segment,
\* and nothing more is requested on this occasion.
ProcessSegmentData(c, congested) ==
  /\ Replied(c, "read")
  /\ LET p == Head(chan[c].sent)
         s == p.seg
         st == [Taken(c) EXCEPT !.s[s].outstanding = @ - 1,
                                !.s[s].got = Append(@, p.block),
                                !.s[s].buffer = @ + 1,
                                !.c[seg[s].conn].responded = @ + 1]
     IN Become(IF Len(st.s[s].got) >= Length
               THEN [HandOver(st, s) EXCEPT !.s[s].phase = "finalizing"]
               ELSE IF st.s[s].buffer = BufferSize
               THEN BufferThenRequest(st, s, c, congested)
               ELSE RequestSegments(st, seg[s].conn, congested))

\* The writer's thread writes a buffer and returns it to the pool.
WriteBuffer(s) ==
  /\ seg[s].writing > 0
  /\ seg' = [seg EXCEPT ![s].writing = @ - 1]
  /\ UNCHANGED chan

\* Fault: the channel goes on waiting although its segment has a buffer again.
OnWriterAvailableStalled(s, congested) ==
  /\ seg[s].waits = "writer" /\ seg[s].writing < Pool
  /\ LET got == GetNextBuffer([c |-> chan, s |-> seg], s)
     IN Become(IF got.s[s].waits = "no"
               THEN RequestSegments(got, seg[s].conn, congested)
               ELSE got)

\* on_segment_buffer_availability for the writer: its queue has room again.
OnWriterAvailable(s, congested) ==
  /\ seg[s].waits = "writer" /\ seg[s].writing < Pool
  /\ LET got == GetNextBuffer([c |-> chan, s |-> seg], s)
     IN Become(IF got.s[s].waits = "no"
               THEN RequestSegments(Unstall(got, s), seg[s].conn, congested)
               ELSE got)

\* on_segment_buffer_availability for the pool, which signals all that wait.
OnPoolAvailable(s, congested) ==
  /\ seg[s].waits = "pool" /\ Free([c |-> chan, s |-> seg]) > 0
  /\ LET got == [c |-> chan, s |-> [seg EXCEPT ![s].waits = "no", ![s].buffer = 0]]
     IN Become(RequestSegments(Unstall(got, s), seg[s].conn, congested))

\* finalize_segment, called again by the writer when all is written
FinalizeSegment(s) ==
  /\ seg[s].phase = "finalizing" /\ seg[s].writing = 0
  /\ seg' = [seg EXCEPT ![s].phase = "done"]
  /\ UNCHANGED chan

\* sftp_client::cancel: the requests of s on its channel are not answered.
Dead(q, s) ==
  [n \in DOMAIN q |-> IF q[n].seg = s THEN [q[n] EXCEPT !.live = FALSE] ELSE q[n]]
Cancel(st, s) ==
  [st EXCEPT !.c[st.s[s].conn].out = Dead(@, s), !.c[st.s[s].conn].sent = Dead(@, s)]

CloseHandle(st, s, congested) ==
  IF st.s[s].handle THEN Send(st, st.s[s].conn, Close(s), congested) ELSE st

\* Fault: reading goes on after the last block requested.
ReassignRequested(st, s, c) ==
  [st EXCEPT !.c[st.s[s].conn].requested = @ - st.s[s].outstanding,
             !.s[s].outstanding = 0,
             !.s[s].handle = FALSE,
             !.s[s].conn = c]

\* Fault: the cancelled requests still count on the old channel.
ReassignUncounted(st, s, c) ==
  [st EXCEPT !.s[s].outstanding = 0,
             !.s[s].handle = FALSE,
             !.s[s].next = Len(st.s[s].got),
             !.s[s].conn = c]

\* Segment s goes on with channel c after the last block received.
Reassign(st, s, c) ==
  [st EXCEPT !.c[st.s[s].conn].requested = @ - st.s[s].outstanding,
             !.s[s].outstanding = 0,
             !.s[s].handle = FALSE,
             !.s[s].next = Len(st.s[s].got),
             !.s[s].conn = c]

\* migrate_segment: the requests on the old channel are cancelled and the file
\* is opened again on the new one.
Migrate(st, s, c, congested) ==
  Send(Reassign(CloseHandle(Cancel(st, s), s, congested), s, c), c, Open(s), congested)

\* on_segment_connection_ready: connection c takes segment c + 1, unless that
\* has received everything.
OnSegmentConnectionReady(c, congested) ==
  /\ ~chan[c].ready /\ c \in Extra
  /\ \E s \in Segs : seg[s].phase # "done"   \* opState is filetransfer_segmented
  /\ LET st == [c |-> [chan EXCEPT ![c].ready = TRUE], s |-> seg]
     IN Become(IF seg[c + 1].phase = "receiving" THEN Migrate(st, c + 1, c, congested)
               ELSE st)

\* What happens without anybody's doing: channels drain, the server answers,
\* writers write, events are delivered.
Step ==
  \/ \E c \in Chans : Flush(c) \/ DropReply(c)
  \/ \E s \in Segs : WriteBuffer(s) \/ FinalizeSegment(s)
  \/ \E congested \in {FALSE, backpressure} :
        \/ \E c \in Chans : OnSegmentOpen(c, congested) \/ ProcessSegmentData(c, congested)
        \/ \E s \in Segs : OnWriterAvailable(s, congested) \/ OnPoolAvailable(s, congested)

Next ==
  /\ \/ Step
     \/ \E c \in Chans, congested \in {FALSE, backpressure} :
           OnSegmentConnectionReady(c, congested)
  /\ UNCHANGED backpressure

\* An additional connection need not come up.
Fairness == WF_vars(Step /\ UNCHANGED backpressure)

Spec == Init /\ [][Next]_vars /\ Fairness

-----------------------------------------------------------------------------
Queue(c) == chan[c].sent \o chan[c].out

\* A live read request of s.
IsRead(p, s) == p.seg = s /\ p.live /\ p.kind = "read"

\* The blocks that a segment has received and those it has requested make up
\* its range in order, without a gap or an overlap, wherever it has moved to:
\* the part file is only ever appended to.  outstanding_ counts them.
RequestsTile ==
  \A s \in Segs :
     LET got == Len(seg[s].got)
         q == Queue(seg[s].conn)
         reads == {n \in DOMAIN q : IsRead(q[n], s)}
     IN /\ \A n \in 1..got : seg[s].got[n] = n
        /\ seg[s].next = got + seg[s].outstanding
        /\ {q[n].block : n \in reads} = got + 1..seg[s].next
        /\ \A m, n \in reads : m < n => q[m].block < q[n].block
        /\ \A c \in Chans \ {seg[s].conn} :
             \A n \in DOMAIN Queue(c) : ~IsRead(Queue(c)[n], s)

\* The requests of channel c under way, numbered by segment.
UnderWay(c) ==
  {u \in Segs \X (1..Length) : seg[u[1]].conn = c /\ u[2] <= seg[u[1]].outstanding}

\* The comment of migrate_segment: the pipelining counters of a channel stay
\* balanced when its requests are cancelled.
CountersBalanced ==
  \A c \in Chans : chan[c].requested - chan[c].responded = Cardinality(UnderWay(c))

\* The data that a channel can hand out has a buffer to go to; "Server sent
\* unexpected data" is the server's fault.
DataHasBuffer ==
  \A c \in Chans :
     Replied(c, "read") =>
       LET s == Head(chan[c].sent).seg
       IN seg[s].buffer \in 0..BufferSize - 1 /\ seg[s].outstanding > 0

\* A channel waits exactly while one segment that stalled it has no buffer.
StallHasOwner ==
  \A c \in Chans :
     LET owners == {s \in Segs : seg[s].stall = c}
     IN /\ chan[c].blocked <=> owners # {}
        /\ \A s, t \in owners : s = t
        /\ \A s \in owners : seg[s].waits # "no" /\ seg[s].buffer = NoBuffer

\* Every segment completes, whichever connections come up and when, if the
\* channels take packets at once.
Completes == ~backpressure ~> \A s \in Segs : seg[s].phase = "done"
=============================================================================
