----------------------- MODULE SegmentPipeline_proofs -----------------------
(***************************************************************************)
(* Proofs about the read requests of a segmented download, for any number  *)
(* of segments, connections, blocks and buffers.                           *)
(***************************************************************************)
EXTENDS SegmentPipeline, SequenceTheorems, FiniteSetTheorems, WellFoundedInduction, TLAPS

-----------------------------------------------------------------------------
(* The inductive invariant, in terms of a pair st of channels and segments, *)
(* on which the handlers work.                                             *)

State == [c : [Chans -> ChannelState], s : [Segs -> SegmentState]]

\* The packets of a channel, in the order in which they are answered.
Line(k) == k.sent \o k.out

\* The live read requests of s in q ask for the blocks lo..hi, in order.
Ordered(q, s, lo, hi) ==
  /\ \A n \in 1..Len(q) : IsRead(q[n], s) => q[n].block \in lo..hi
  /\ \A b \in lo..hi : \E n \in 1..Len(q) : IsRead(q[n], s) /\ q[n].block = b
  /\ \A m, n \in 1..Len(q) : IsRead(q[m], s) /\ IsRead(q[n], s) /\ m < n => q[m].block < q[n].block

\* The packets r are q with the requests of s cancelled.
Cancelled(q, r, s) == r = Dead(q, s)

\* What segment s, in state x, still waits for on channel c.
Until(x, c) == IF x.conn = c THEN x.next ELSE Len(x.got)
Received(x) ==
  /\ \A n \in 1..Len(x.got) : x.got[n] = n
  /\ x.next = Len(x.got) + x.outstanding
Tiled(st) ==
  \A s \in Segs :
     /\ Received(st.s[s])
     /\ \A c \in Chans : Ordered(Line(st.c[c]), s, Len(st.s[s].got) + 1, Until(st.s[s], c))

\* Of every segment, the numbers up to its value in f.
Cells(f, k) == {u \in Segs \X (1..k) : u[2] <= f[u[1]]}

\* The requests of channel c under way.
Asks(st, c) == [s \in Segs |-> IF st.s[s].conn = c THEN st.s[s].outstanding ELSE 0]
Counted(st) ==
  \A c \in Chans : st.c[c].requested - st.c[c].responded = Cardinality(Cells(Asks(st, c), Length))

\* A segment without a buffer stalls its channel, if it has requested anything.
Buffered(x) ==
  /\ x.buffer # NoBuffer => x.stall = NoChannel
  /\ x.waits = "no" <=> x.stall = NoChannel
  /\ x.buffer = NoBuffer /\ x.outstanding > 0 => x.stall = x.conn
  /\ ~x.opened => x.buffer = NoBuffer /\ x.stall = NoChannel /\ x.outstanding = 0
Owned(st) ==
  /\ \A c \in Chans : st.c[c].blocked <=> \E s \in Segs : st.s[s].stall = c
  /\ \A s, t \in Segs : st.s[s].stall = st.s[t].stall /\ st.s[s].stall # NoChannel => s = t

\* The buffer of every segment has room.
Room(st) == \A s \in Segs : st.s[s].buffer < BufferSize

\* There are as many buffers in use as exist.
Holds(st) == [s \in Segs |-> Held(st.s[s])]
Pooled(st) == Cardinality(Cells(Holds(st), Pool + 1)) <= Pool

\* All but the room in the buffers, which a handler restores.
Base(st) ==
  /\ st \in State
  /\ Tiled(st)
  /\ Counted(st)
  /\ \A s \in Segs : Buffered(st.s[s])
  /\ Owned(st)
  /\ Pooled(st)

Good(st) == Base(st) /\ Room(st)

\* Nothing is requested or received; the segment is as far as before.
SameRequests(y, x) ==
  x.conn = y.conn /\ x.next = y.next /\ x.outstanding = y.outstanding /\ x.got = y.got
SameRest(y, x) ==
  x.handle = y.handle /\ x.opened = y.opened /\ x.stall = y.stall /\ x.phase = y.phase

\* The request for a block, and channel k with a packet more.
Read(s, block) == [kind |-> "read", seg |-> s, block |-> block, live |-> TRUE]
SentOn(k, p, congested) ==
  IF congested \/ k.out # <<>> THEN [k EXCEPT !.out = Append(@, p)]
  ELSE [k EXCEPT !.sent = Append(@, p)]

\* All but the buffer of s.
Nearly(st, s) ==
  /\ st \in State /\ Tiled(st) /\ Counted(st) /\ Owned(st) /\ Pooled(st)
  /\ \A t \in Segs \ {s} : Buffered(st.s[t]) /\ st.s[t].buffer < BufferSize

\* From st to nw, channel c becomes k and segment s becomes x.
Changed(st, nw, c, k, s, x) ==
  nw = [c |-> [st.c EXCEPT ![c] = k], s |-> [st.s EXCEPT ![s] = x]]

Now == [c |-> chan, s |-> seg]
IInv == Good(Now) /\ backpressure \in BOOLEAN

-----------------------------------------------------------------------------
(* The blocks requested on a line, as it gets longer and shorter.          *)

\* A packet that is no read of s changes nothing for s.
LEMMA OrderedOther ==
  ASSUME NEW q \in Seq(Packet), NEW s \in Segs, NEW lo \in Int, NEW hi \in Int, Ordered(q, s, lo, hi),
         NEW p \in Packet, ~IsRead(p, s), NEW r, r = Append(q, p)
  PROVE  Ordered(r, s, lo, hi)
<1>1. /\ r \in Seq(Packet) /\ Len(r) = Len(q) + 1 /\ r[Len(q) + 1] = p
      /\ \A n \in 1..Len(q) : r[n] = q[n]
  BY AppendProperties
<1>2. Len(q) \in Nat
  BY LenProperties
<1>3. \A n \in 1..Len(r) : IsRead(r[n], s) => n \in 1..Len(q) /\ r[n] = q[n]
  BY <1>1, <1>2
<1>4. \A n \in 1..Len(q) : n \in 1..Len(r)
  BY <1>1, <1>2
<1> HIDE DEF IsRead
<1> QED
  BY <1>1, <1>2, <1>3, <1>4 DEF Ordered

\* The next block is requested.
LEMMA OrderedRead ==
  ASSUME NEW q \in Seq(Packet), NEW s \in Segs, NEW lo \in Int, NEW hi \in Int, Ordered(q, s, lo, hi), lo <= hi + 1,
         NEW p \in Packet, IsRead(p, s), p.block = hi + 1, NEW r, r = Append(q, p)
  PROVE  Ordered(r, s, lo, hi + 1)
<1>1. /\ r \in Seq(Packet) /\ Len(r) = Len(q) + 1 /\ r[Len(q) + 1] = p
      /\ \A n \in 1..Len(q) : r[n] = q[n]
  BY AppendProperties
<1>2. Len(q) \in Nat
  BY LenProperties
<1>3. \A n \in 1..Len(r) : n = Len(r) \/ (n \in 1..Len(q) /\ r[n] = q[n])
  BY <1>1, <1>2
<1>4. r[Len(r)] = p /\ Len(r) \in 1..Len(r) /\ \A n \in 1..Len(q) : n \in 1..Len(r)
  BY <1>1, <1>2
<1>5. \A n \in 1..Len(r) : IsRead(r[n], s) => r[n].block \in lo..hi + 1
  BY <1>1, <1>2, <1>3, <1>4 DEF Ordered
<1>6. \A b \in lo..hi + 1 : \E n \in 1..Len(r) : IsRead(r[n], s) /\ r[n].block = b
  <2> TAKE b \in lo..hi + 1
  <2>1. CASE b = hi + 1
    BY <1>4, <2>1
  <2>2. CASE b \in lo..hi
    <3>1. PICK n \in 1..Len(q) : IsRead(q[n], s) /\ q[n].block = b
      BY <2>2 DEF Ordered
    <3> QED
      BY <1>1, <1>4, <3>1
  <2> QED
    BY <2>1, <2>2
<1>7. ASSUME NEW m \in 1..Len(r), NEW n \in 1..Len(r), IsRead(r[m], s), IsRead(r[n], s), m < n
      PROVE  r[m].block < r[n].block
  <2>1. m \in 1..Len(q) /\ r[m] = q[m]
    BY <1>1, <1>2, <1>7
  <2>2. q[m].block \in lo..hi
    BY <1>7, <2>1 DEF Ordered
  <2>3. CASE n = Len(r)
    BY <1>4, <2>1, <2>2, <2>3
  <2>4. CASE n \in 1..Len(q) /\ r[n] = q[n]
    BY <1>7, <2>1, <2>4 DEF Ordered
  <2> QED
    BY <1>3, <2>3, <2>4
<1> QED
  BY <1>5, <1>6, <1>7 DEF Ordered

\* The first packet is answered, and is no read of s.
LEMMA OrderedTailOther ==
  ASSUME NEW q \in Seq(Packet), NEW s \in Segs, NEW lo \in Int, NEW hi \in Int, Ordered(q, s, lo, hi),
         q # <<>>, ~IsRead(Head(q), s), NEW r, r = Tail(q)
  PROVE  Ordered(r, s, lo, hi)
<1>1. /\ r \in Seq(Packet) /\ Len(q) \in Nat \ {0} /\ Len(r) = Len(q) - 1
      /\ \A n \in 1..Len(r) : n + 1 \in 1..Len(q) /\ r[n] = q[n + 1]
  BY HeadTailProperties, LenProperties, EmptySeq
<1>2. q[1] = Head(q)
  OBVIOUS
<1>3. \A n \in 1..Len(q) : IsRead(q[n], s) => n - 1 \in 1..Len(r) /\ r[n - 1] = q[n]
  <2> TAKE n \in 1..Len(q)
  <2> HAVE IsRead(q[n], s)
  <2>1. n # 1
    BY <1>2
  <2>2. n - 1 \in 1..Len(r)
    BY <1>1, <2>1
  <2>3. r[n - 1] = q[(n - 1) + 1]
    BY <1>1, <2>2
  <2> QED
    BY <2>2, <2>3
<1>4. \A n \in 1..Len(r) : IsRead(r[n], s) => r[n].block \in lo..hi
  BY <1>1 DEF Ordered
<1>5. \A b \in lo..hi : \E n \in 1..Len(r) : IsRead(r[n], s) /\ r[n].block = b
  <2> TAKE b \in lo..hi
  <2>1. PICK n \in 1..Len(q) : IsRead(q[n], s) /\ q[n].block = b
    BY DEF Ordered
  <2>2. n - 1 \in 1..Len(r) /\ r[n - 1] = q[n]
    BY <1>3, <2>1
  <2> QED
    BY <2>1, <2>2
<1>6. ASSUME NEW m \in 1..Len(r), NEW n \in 1..Len(r), IsRead(r[m], s), IsRead(r[n], s), m < n
      PROVE  r[m].block < r[n].block
  <2>1. m + 1 \in 1..Len(q) /\ n + 1 \in 1..Len(q) /\ m + 1 < n + 1 /\ r[m] = q[m + 1] /\ r[n] = q[n + 1]
    BY <1>1, <1>6
  <2> QED
    BY <1>6, <2>1 DEF Ordered
<1> QED
  BY <1>4, <1>5, <1>6 DEF Ordered

\* The first packet is answered, and is a read of s: the first block of all.
LEMMA OrderedTailRead ==
  ASSUME NEW q \in Seq(Packet), NEW s \in Segs, NEW lo \in Int, NEW hi \in Int, Ordered(q, s, lo, hi),
         q # <<>>, IsRead(Head(q), s), NEW r, r = Tail(q)
  PROVE  Head(q).block = lo /\ lo <= hi /\ Ordered(r, s, lo + 1, hi)
<1>1. /\ r \in Seq(Packet) /\ Len(q) \in Nat \ {0} /\ Len(r) = Len(q) - 1
      /\ \A n \in 1..Len(r) : n + 1 \in 1..Len(q) /\ r[n] = q[n + 1]
  BY HeadTailProperties, LenProperties, EmptySeq
<1>2. q[1] = Head(q) /\ 1 \in 1..Len(q)
  BY <1>1
<1>3. q[1].block \in lo..hi
  BY <1>2 DEF Ordered
<1>4. lo <= hi /\ lo \in lo..hi
  BY <1>3
<1>5. q[1].block = lo
  <2>1. PICK n \in 1..Len(q) : IsRead(q[n], s) /\ q[n].block = lo
    BY <1>4 DEF Ordered
  <2>2. 1 < n => q[1].block < q[n].block
    BY <1>2, <2>1 DEF Ordered
  <2> QED
    BY <1>3, <2>1, <2>2
<1>6. ASSUME NEW n \in 1..Len(r), IsRead(r[n], s) PROVE r[n].block \in lo + 1..hi
  <2>1. n + 1 \in 1..Len(q) /\ 1 < n + 1 /\ r[n] = q[n + 1]
    BY <1>1, <1>6
  <2>2. q[n + 1].block \in lo..hi /\ q[1].block < q[n + 1].block
    BY <1>2, <1>6, <2>1 DEF Ordered
  <2> QED
    BY <1>5, <2>1, <2>2
<1>7. \A b \in lo + 1..hi : \E n \in 1..Len(r) : IsRead(r[n], s) /\ r[n].block = b
  <2> TAKE b \in lo + 1..hi
  <2>0. b \in lo..hi /\ b # lo
    OBVIOUS
  <2>1. PICK n \in 1..Len(q) : IsRead(q[n], s) /\ q[n].block = b
    BY <2>0 DEF Ordered
  <2>2. n # 1
    BY <1>5, <2>0, <2>1
  <2>3. n - 1 \in 1..Len(r)
    BY <1>1, <2>2
  <2>4. r[n - 1] = q[(n - 1) + 1]
    BY <1>1, <2>3
  <2> QED
    BY <2>1, <2>3, <2>4
<1>8. ASSUME NEW m \in 1..Len(r), NEW n \in 1..Len(r), IsRead(r[m], s), IsRead(r[n], s), m < n
      PROVE  r[m].block < r[n].block
  <2>1. m + 1 \in 1..Len(q) /\ n + 1 \in 1..Len(q) /\ m + 1 < n + 1 /\ r[m] = q[m + 1] /\ r[n] = q[n + 1]
    BY <1>1, <1>8
  <2> QED
    BY <1>8, <2>1 DEF Ordered
<1> QED
  BY <1>2, <1>4, <1>5, <1>6, <1>7, <1>8 DEF Ordered

\* The requests of s are cancelled.
LEMMA OrderedCancelled ==
  ASSUME NEW q \in Seq(Packet), NEW s \in Segs, NEW r, Cancelled(q, r, s)
  PROVE  /\ r \in Seq(Packet)
         /\ \A lo, hi \in Int : hi < lo => Ordered(r, s, lo, hi)
         /\ \A t \in Segs \ {s} : \A lo, hi \in Int : Ordered(q, t, lo, hi) => Ordered(r, t, lo, hi)
<1>1. Len(q) \in Nat /\ DOMAIN q = 1..Len(q) /\ \A n \in 1..Len(q) : q[n] \in Packet
  BY LenProperties, ElementOfSeq
<1>2. r = [n \in 1..Len(q) |-> IF q[n].seg = s THEN [q[n] EXCEPT !.live = FALSE] ELSE q[n]]
  BY <1>1 DEF Cancelled, Dead
<1>3. ASSUME NEW n \in 1..Len(q)
      PROVE  /\ r[n] \in Packet /\ ~IsRead(r[n], s)
             /\ \A t \in Segs \ {s} : /\ IsRead(r[n], t) <=> IsRead(q[n], t)
                                      /\ IsRead(r[n], t) => r[n] = q[n]
  <2>1. CASE q[n].seg = s
    <3>1. r[n] = [q[n] EXCEPT !.live = FALSE]
      BY <1>2, <2>1
    <3> QED
      BY <1>1, <2>1, <3>1 DEF Packet, IsRead
  <2>2. CASE q[n].seg # s
    <3>1. r[n] = q[n]
      BY <1>2, <2>2
    <3> QED
      BY <1>1, <2>2, <3>1 DEF IsRead
  <2> QED
    BY <2>1, <2>2
<1>4. DOMAIN r = 1..Len(q) /\ r = [n \in 1..Len(q) |-> r[n]]
  BY <1>2
<1>5. r \in Seq(Packet) /\ Len(r) = Len(q)
  <2>1. r \in [1..Len(q) -> Packet]
    BY <1>3, <1>4
  <2> QED
    BY <1>1, <2>1
<1>6. ASSUME NEW lo \in Int, NEW hi \in Int, hi < lo PROVE Ordered(r, s, lo, hi)
  BY <1>3, <1>5, <1>6 DEF Ordered
<1>7. ASSUME NEW t \in Segs \ {s}, NEW lo \in Int, NEW hi \in Int, Ordered(q, t, lo, hi)
      PROVE  Ordered(r, t, lo, hi)
  <2>1. \A n \in 1..Len(r) : /\ IsRead(r[n], t) <=> IsRead(q[n], t)
                             /\ IsRead(q[n], t) => r[n] = q[n]
    BY <1>3, <1>5
  <2> HIDE DEF IsRead
  <2>2. \A n \in 1..Len(r) : IsRead(r[n], t) => r[n].block \in lo..hi
    BY <1>5, <1>7, <2>1 DEF Ordered
  <2>3. \A b \in lo..hi : \E n \in 1..Len(r) : IsRead(r[n], t) /\ r[n].block = b
    BY <1>5, <1>7, <2>1 DEF Ordered
  <2>4. \A m, n \in 1..Len(r) : IsRead(r[m], t) /\ IsRead(r[n], t) /\ m < n => r[m].block < r[n].block
    BY <1>5, <1>7, <2>1 DEF Ordered
  <2> QED
    BY <2>2, <2>3, <2>4 DEF Ordered
<1> QED
  BY <1>5, <1>6, <1>7

-----------------------------------------------------------------------------
(* The line of a channel, which is in its output buffer or sent.           *)

\* A packet that is sent or buffered comes last.
LEMMA LineAppend ==
  ASSUME NEW a \in Seq(Packet), NEW b \in Seq(Packet), NEW p \in Packet
  PROVE  /\ a \o b \in Seq(Packet)
         /\ Append(b, p) \in Seq(Packet) /\ Append(a, p) \in Seq(Packet)
         /\ a \o Append(b, p) = Append(a \o b, p)
         /\ b = <<>> => Append(a, p) \o b = Append(a \o b, p)
<1>1. a \o b \in Seq(Packet) /\ <<p>> \in Seq(Packet)
  BY ConcatProperties
<1>2. Append(b, p) = b \o <<p>> /\ Append(a \o b, p) = (a \o b) \o <<p>>
  BY <1>1, AppendIsConcat
<1>3. (a \o b) \o <<p>> = a \o (b \o <<p>>)
  BY <1>1, ConcatAssociative
<1>4. Append(b, p) \in Seq(Packet) /\ Append(a, p) \in Seq(Packet)
  BY AppendProperties
<1>5. b = <<>> => Append(a, p) \o b = Append(a \o b, p)
  <2>1. Append(a, p) \o <<>> = Append(a, p) /\ a \o <<>> = a
    BY <1>4, ConcatEmptySeq
  <2> QED
    BY <2>1, Zenon
<1>6. a \o Append(b, p) = Append(a \o b, p)
  BY <1>2, <1>3, Zenon
<1> QED
  BY <1>1, <1>4, <1>5, <1>6, Zenon

\* The line shrinks at its head.
LEMMA LineTail ==
  ASSUME NEW a \in Seq(Packet), NEW b \in Seq(Packet), a # <<>>
  PROVE  /\ a \o b \in Seq(Packet) /\ a \o b # <<>>
         /\ Head(a) \in Packet /\ Head(a \o b) = Head(a)
         /\ Tail(a) \in Seq(Packet) /\ Tail(a) \o b = Tail(a \o b)
<1>1. /\ Tail(a) \in Seq(Packet) /\ Len(Tail(a)) = Len(a) - 1 /\ Head(a) \in Packet
      /\ \A i \in 1..Len(Tail(a)) : Tail(a)[i] = a[i + 1]
  BY HeadTailProperties
<1>2. /\ a \o b \in Seq(Packet) /\ Len(a \o b) = Len(a) + Len(b)
      /\ \A i \in 1..Len(a) + Len(b) : (a \o b)[i] = IF i <= Len(a) THEN a[i] ELSE b[i - Len(a)]
  BY ConcatProperties
<1>3. Len(a) \in Nat \ {0} /\ Len(b) \in Nat
  BY EmptySeq, LenProperties
<1>4. a \o b # <<>>
  BY <1>2, <1>3, EmptySeq
<1>5. Head(a \o b) = Head(a)
  BY <1>2, <1>3, <1>4
<1>6. /\ Tail(a \o b) \in Seq(Packet) /\ Len(Tail(a \o b)) = Len(a) + Len(b) - 1
      /\ \A i \in 1..Len(Tail(a \o b)) : Tail(a \o b)[i] = (a \o b)[i + 1]
  BY <1>2, <1>4, HeadTailProperties
<1>7. /\ Tail(a) \o b \in Seq(Packet) /\ Len(Tail(a) \o b) = Len(a) - 1 + Len(b)
      /\ \A i \in 1..Len(a) - 1 + Len(b) :
           (Tail(a) \o b)[i] = IF i <= Len(a) - 1 THEN Tail(a)[i] ELSE b[i - (Len(a) - 1)]
  BY <1>1, ConcatProperties
<1>8. ASSUME NEW i \in 1..Len(Tail(a) \o b) PROVE (Tail(a) \o b)[i] = Tail(a \o b)[i]
  <2>1. i + 1 \in 1..Len(a) + Len(b) /\ i \in 1..Len(Tail(a \o b))
    BY <1>3, <1>6, <1>7
  <2>2. CASE i <= Len(a) - 1
    BY <1>1, <1>2, <1>3, <1>6, <1>7, <2>1, <2>2
  <2>3. CASE i > Len(a) - 1
    <3>1. (Tail(a) \o b)[i] = b[i - (Len(a) - 1)]
      BY <1>3, <1>7, <2>3
    <3>2. Tail(a \o b)[i] = b[(i + 1) - Len(a)]
      BY <1>2, <1>3, <1>6, <2>1, <2>3
    <3>3. i - (Len(a) - 1) = (i + 1) - Len(a)
      BY <1>3
    <3> QED
      BY <3>1, <3>2, <3>3
  <2> QED
    BY <1>3, <2>2, <2>3
<1>9. Tail(a) \o b = Tail(a \o b)
  <2>1. Len(Tail(a) \o b) = Len(Tail(a \o b))
    BY <1>3, <1>6, <1>7
  <2> HIDE DEF Packet
  <2> QED
    BY <1>6, <1>7, <1>8, <2>1, SeqEqual
<1> QED
  BY <1>1, <1>2, <1>4, <1>5, <1>9

\* A packet goes from the output buffer to the network.
LEMMA LineFlush ==
  ASSUME NEW a \in Seq(Packet), NEW b \in Seq(Packet), b # <<>>
  PROVE  /\ Append(a, Head(b)) \in Seq(Packet) /\ Tail(b) \in Seq(Packet)
         /\ Append(a, Head(b)) \o Tail(b) = a \o b
<1>1. Head(b) \in Packet /\ Tail(b) \in Seq(Packet)
  BY HeadTailProperties
<1>2. <<Head(b)>> \in Seq(Packet) /\ <<Head(b)>> \o Tail(b) = b
  <2>1. Len(b) \in Nat \ {0}
    BY EmptySeq
  <2>2. /\ Len(Tail(b)) = Len(b) - 1
        /\ \A i \in 1..Len(Tail(b)) : Tail(b)[i] = b[i + 1]
    BY HeadTailProperties
  <2>3. <<Head(b)>> \in Seq(Packet) /\ Len(<<Head(b)>>) = 1 /\ <<Head(b)>>[1] = Head(b)
    BY <1>1
  <2>4. /\ <<Head(b)>> \o Tail(b) \in Seq(Packet) /\ Len(<<Head(b)>> \o Tail(b)) = 1 + (Len(b) - 1)
        /\ \A i \in 1..1 + (Len(b) - 1) :
             (<<Head(b)>> \o Tail(b))[i] = IF i <= 1 THEN <<Head(b)>>[i] ELSE Tail(b)[i - 1]
    BY <1>1, <2>2, <2>3, ConcatProperties
  <2>5. ASSUME NEW i \in 1..Len(<<Head(b)>> \o Tail(b)) PROVE (<<Head(b)>> \o Tail(b))[i] = b[i]
    <3>1. CASE i = 1
      BY <2>1, <2>3, <2>4, <3>1
    <3>2. CASE i # 1
      <4>1. i - 1 \in 1..Len(Tail(b)) /\ i \in 1..1 + (Len(b) - 1) /\ ~(i <= 1)
        BY <2>1, <2>2, <2>4, <3>2
      <4>2. Tail(b)[i - 1] = b[(i - 1) + 1] /\ (i - 1) + 1 = i
        BY <2>2, <4>1
      <4> QED
        BY <2>4, <4>1, <4>2
    <3> QED
      BY <3>1, <3>2
  <2>6. Len(<<Head(b)>> \o Tail(b)) = Len(b)
    BY <2>1, <2>4
  <2> HIDE DEF Packet
  <2> QED
    BY <2>3, <2>4, <2>5, <2>6, SeqEqual
<1>3. Append(a, Head(b)) = a \o <<Head(b)>>
  BY <1>1, AppendIsConcat
<1>4. (a \o <<Head(b)>>) \o Tail(b) = a \o (<<Head(b)>> \o Tail(b))
  BY <1>1, <1>2, ConcatAssociative
<1>5. Append(a, Head(b)) \in Seq(Packet)
  BY <1>1, AppendProperties
<1>6. Append(a, Head(b)) \o Tail(b) = a \o b
  BY <1>2, <1>3, <1>4, Zenon
<1> QED
  BY <1>1, <1>5, <1>6

-----------------------------------------------------------------------------
(* Counting requests and buffers.                                          *)

\* There are finitely many cells, and no more of a segment than of all.
LEMMA CellsFinite ==
  ASSUME NEW k \in Nat, NEW f \in [Segs -> Int]
  PROVE  /\ IsFiniteSet(Cells(f, k)) /\ Cardinality(Cells(f, k)) \in Nat
         /\ \A s \in Segs : f[s] \in 0..k => f[s] <= Cardinality(Cells(f, k))
<1>1. IsFiniteSet(Segs \X (1..k))
  <2>1. IsFiniteSet(Segs) /\ IsFiniteSet(1..k)
    BY FS_Interval, SizeAssumption DEF Segs
  <2> QED
    BY <2>1, FS_Product
<1>2. Cells(f, k) \in SUBSET (Segs \X (1..k))
  BY DEF Cells
<1>3. IsFiniteSet(Cells(f, k)) /\ Cardinality(Cells(f, k)) \in Nat
  BY <1>1, <1>2, FS_Subset, FS_CardinalityType
<1>4. ASSUME NEW s \in Segs, f[s] \in 0..k PROVE f[s] <= Cardinality(Cells(f, k))
  <2>1. IsFiniteSet({s}) /\ Cardinality({s}) = 1
    BY FS_Singleton
  <2>2. IsFiniteSet(1..f[s]) /\ Cardinality(1..f[s]) = f[s]
    BY <1>4, FS_Interval
  <2>3. Cardinality({s} \X (1..f[s])) = Cardinality({s}) * Cardinality(1..f[s])
    BY <2>1, <2>2, FS_Product, Zenon
  <2>4. {s} \X (1..f[s]) \in SUBSET Cells(f, k)
    BY <1>4 DEF Cells
  <2>5. Cardinality({s} \X (1..f[s])) <= Cardinality(Cells(f, k))
    BY <1>3, <2>4, FS_Subset
  <2>6. Cardinality({s} \X (1..f[s])) = 1 * f[s]
    BY <2>1, <2>2, <2>3, Zenon
  <2> QED
    BY <1>4, <2>5, <2>6
<1> QED
  BY <1>3, <1>4

\* Another set of cells is no larger when no segment has more.
LEMMA CellsFewer ==
  ASSUME NEW k \in Nat, NEW f \in [Segs -> Int], NEW g \in [Segs -> Int], \A s \in Segs : g[s] <= f[s]
  PROVE  Cardinality(Cells(g, k)) <= Cardinality(Cells(f, k))
<1>1. Cells(g, k) \in SUBSET Cells(f, k)
  BY DEF Cells
<1> QED
  BY <1>1, CellsFinite, FS_Subset

\* One segment has one more.
LEMMA CellsMore ==
  ASSUME NEW k \in Nat, NEW f \in [Segs -> Int], NEW g \in [Segs -> Int], NEW s \in Segs,
         f[s] \in 0..k - 1, g[s] = f[s] + 1, \A t \in Segs \ {s} : g[t] = f[t]
  PROVE  Cardinality(Cells(g, k)) = Cardinality(Cells(f, k)) + 1
<1>1. Cells(g, k) = Cells(f, k) \cup {<<s, f[s] + 1>>}
  BY DEF Cells
<1>2. <<s, f[s] + 1>> \notin Cells(f, k)
  BY DEF Cells
<1> QED
  BY <1>1, <1>2, CellsFinite, FS_AddElement, ZenonT(60)

\* One segment has none any more.
LEMMA CellsClear ==
  ASSUME NEW k \in Nat, NEW f \in [Segs -> Int], NEW g \in [Segs -> Int], NEW s \in Segs,
         f[s] \in 0..k, g[s] = 0, \A t \in Segs \ {s} : g[t] = f[t]
  PROVE  Cardinality(Cells(g, k)) = Cardinality(Cells(f, k)) - f[s]
<1>1. IsFiniteSet({s}) /\ Cardinality({s}) = 1
  BY FS_Singleton
<1>2. IsFiniteSet(1..f[s]) /\ Cardinality(1..f[s]) = f[s]
  BY FS_Interval
<1>3. IsFiniteSet({s} \X (1..f[s])) /\ Cardinality({s} \X (1..f[s])) = 1 * f[s]
  BY <1>1, <1>2, FS_Product
<1>4. Cells(f, k) = Cells(g, k) \cup ({s} \X (1..f[s]))
  BY DEF Cells
<1>5. Cells(g, k) \cap ({s} \X (1..f[s])) = {}
  BY DEF Cells
<1>6. Cardinality(Cells(f, k)) = Cardinality(Cells(g, k)) + f[s] - 0
  <2>1. Cardinality({}) = 0
    BY FS_EmptySet
  <2>2. IsFiniteSet(Cells(g, k)) /\ Cardinality(Cells(g, k)) \in Nat
    BY CellsFinite
  <2>3. Cardinality(Cells(g, k) \cup ({s} \X (1..f[s])))
          = Cardinality(Cells(g, k)) + Cardinality({s} \X (1..f[s]))
            - Cardinality(Cells(g, k) \cap ({s} \X (1..f[s])))
    BY <1>3, <2>2, FS_Union
  <2>4. Cardinality(Cells(f, k)) = Cardinality(Cells(g, k)) + (1 * f[s]) - 0
    BY <1>3, <1>4, <1>5, <2>1, <2>3, Zenon
  <2> QED
    BY <2>2, <2>4
<1> QED
  BY <1>6, CellsFinite

-----------------------------------------------------------------------------
(* A handler's step changes one channel and one segment.                   *)

\* What changes, and what does not.
LEMMA ChangedFacts ==
  ASSUME NEW st \in State, NEW c \in Chans, NEW k \in ChannelState, NEW s \in Segs, NEW x \in SegmentState,
         NEW nw, Changed(st, nw, c, k, s, x)
  PROVE  /\ nw \in State
         /\ nw.c[c] = k /\ \A d \in Chans \ {c} : nw.c[d] = st.c[d]
         /\ nw.s[s] = x /\ \A t \in Segs \ {s} : nw.s[t] = st.s[t]
<1>1. st.c \in [Chans -> ChannelState] /\ st.s \in [Segs -> SegmentState]
  BY DEF State
<1>2. nw.c \in [Chans -> ChannelState] /\ nw.s \in [Segs -> SegmentState]
  <2> HIDE DEF ChannelState, SegmentState
  <2> QED
    BY <1>1 DEF Changed
<1>3. nw \in State
  <2>1. nw = [c |-> nw.c, s |-> nw.s]
    BY DEF Changed
  <2> HIDE DEF ChannelState, SegmentState
  <2> QED
    BY <1>2, <2>1 DEF State
<1> HIDE DEF ChannelState, SegmentState
<1>4. nw.c[c] = k /\ \A d \in Chans \ {c} : nw.c[d] = st.c[d]
  BY <1>1 DEF Changed
<1>5. nw.s[s] = x /\ \A t \in Segs \ {s} : nw.s[t] = st.s[t]
  BY <1>1 DEF Changed
<1> QED
  BY <1>3, <1>4, <1>5

\* The fields of a state have their types.
LEMMA Fields ==
  ASSUME NEW st \in State
  PROVE  /\ \A c \in Chans :
              /\ st.c[c] \in ChannelState
              /\ st.c[c].out \in Seq(Packet) /\ st.c[c].sent \in Seq(Packet)
              /\ Line(st.c[c]) \in Seq(Packet)
              /\ st.c[c].blocked \in BOOLEAN /\ st.c[c].ready \in BOOLEAN
              /\ st.c[c].requested \in Int /\ st.c[c].responded \in Nat /\ st.c[c].turn \in 0..N - 1
         /\ \A s \in Segs :
              /\ st.s[s] \in SegmentState /\ st.s[s].conn \in Chans
              /\ st.s[s].handle \in BOOLEAN /\ st.s[s].opened \in BOOLEAN
              /\ st.s[s].next \in 0..Length /\ st.s[s].outstanding \in 0..Length
              /\ st.s[s].got \in Seq(1..Length) /\ Len(st.s[s].got) \in Nat
              /\ st.s[s].buffer \in NoBuffer..BufferSize /\ st.s[s].writing \in 0..Pool
              /\ st.s[s].waits \in {"no", "writer", "pool"}
              /\ st.s[s].stall \in {NoChannel} \cup Chans
              /\ st.s[s].phase \in {"receiving", "finalizing", "done"}
<1>1. ASSUME NEW c \in Chans
      PROVE  /\ st.c[c] \in ChannelState
             /\ st.c[c].out \in Seq(Packet) /\ st.c[c].sent \in Seq(Packet)
             /\ st.c[c].blocked \in BOOLEAN /\ st.c[c].ready \in BOOLEAN
             /\ st.c[c].requested \in Int /\ st.c[c].responded \in Nat /\ st.c[c].turn \in 0..N - 1
  BY DEF State, ChannelState
<1>2. ASSUME NEW s \in Segs
      PROVE  /\ st.s[s] \in SegmentState /\ st.s[s].conn \in Chans
             /\ st.s[s].handle \in BOOLEAN /\ st.s[s].opened \in BOOLEAN
             /\ st.s[s].next \in 0..Length /\ st.s[s].outstanding \in 0..Length
             /\ st.s[s].got \in Seq(1..Length)
             /\ st.s[s].buffer \in NoBuffer..BufferSize /\ st.s[s].writing \in 0..Pool
             /\ st.s[s].waits \in {"no", "writer", "pool"}
             /\ st.s[s].stall \in {NoChannel} \cup Chans
             /\ st.s[s].phase \in {"receiving", "finalizing", "done"}
  BY DEF State, SegmentState
<1>3. ASSUME NEW s \in Segs PROVE Len(st.s[s].got) \in Nat
  BY <1>2, LenProperties
<1>4. ASSUME NEW c \in Chans PROVE Line(st.c[c]) \in Seq(Packet)
  BY <1>1, LineAppend, ConcatProperties DEF Line
<1> QED
  BY <1>1, <1>2, <1>3, <1>4

\* The lines and the blocks received still fit together.
LEMMA ChangedTiled ==
  ASSUME NEW st \in State, NEW c \in Chans, NEW k \in ChannelState, NEW s \in Segs, NEW x \in SegmentState,
         NEW nw, Changed(st, nw, c, k, s, x), Tiled(st), Received(x),
         \A t \in Segs \ {s} : \A lo, hi \in Int :
            Ordered(Line(st.c[c]), t, lo, hi) => Ordered(Line(k), t, lo, hi),
         Ordered(Line(k), s, Len(x.got) + 1, Until(x, c)),
         \A d \in Chans \ {c} : Ordered(Line(st.c[d]), s, Len(x.got) + 1, Until(x, d))
  PROVE  Tiled(nw)
<1>1. /\ nw.c[c] = k /\ \A d \in Chans \ {c} : nw.c[d] = st.c[d]
      /\ nw.s[s] = x /\ \A t \in Segs \ {s} : nw.s[t] = st.s[t]
  BY ChangedFacts
<1>2. ASSUME NEW t \in Segs PROVE Received(nw.s[t])
  <2>1. CASE t = s
    BY <1>1, <2>1, Zenon
  <2>2. CASE t # s
    <3>1. nw.s[t] = st.s[t]
      BY <1>1, <2>2
    <3> QED
      BY <3>1, Zenon DEF Tiled
  <2> QED
    BY <2>1, <2>2
<1>3. ASSUME NEW t \in Segs, NEW d \in Chans
      PROVE  Ordered(Line(nw.c[d]), t, Len(nw.s[t].got) + 1, Until(nw.s[t], d))
  <2>1. CASE t = s /\ d = c
    BY <1>1, <2>1, Zenon
  <2>2. CASE t = s /\ d # c
    <3>1. nw.c[d] = st.c[d] /\ d \in Chans \ {c}
      BY <1>1, <2>2
    <3> QED
      BY <1>1, <2>2, <3>1, Zenon
  <2>3. CASE t # s
    <3>1. nw.s[t] = st.s[t]
      BY <1>1, <2>3
    <3>2. Ordered(Line(st.c[d]), t, Len(st.s[t].got) + 1, Until(st.s[t], d))
      BY DEF Tiled
    <3>3. CASE d = c
      <4>1. Len(st.s[t].got) + 1 \in Int /\ Until(st.s[t], c) \in Int /\ t \in Segs \ {s}
        BY <2>3, Fields DEF Until
      <4>2. Ordered(Line(k), t, Len(st.s[t].got) + 1, Until(st.s[t], c))
        BY <3>2, <3>3, <4>1, Zenon
      <4> QED
        BY <1>1, <3>1, <3>3, <4>2, Zenon
    <3>4. CASE d # c
      <4>1. nw.c[d] = st.c[d]
        BY <1>1, <3>4
      <4> QED
        BY <3>1, <3>2, <4>1, Zenon
    <3> QED
      BY <3>3, <3>4
  <2> QED
    BY <2>1, <2>2, <2>3
<1> QED
  BY <1>2, <1>3, Zenon DEF Tiled

\* A channel's counters and the requests under way.
LEMMA AsksType ==
  ASSUME NEW st \in State, NEW c \in Chans
  PROVE  /\ Asks(st, c) \in [Segs -> Int]
         /\ \A s \in Segs : Asks(st, c)[s] = IF st.s[s].conn = c THEN st.s[s].outstanding ELSE 0
BY Fields DEF Asks

\* Nothing that the counters count has changed.
LEMMA CountedSame ==
  ASSUME NEW st \in State, NEW c \in Chans, NEW k \in ChannelState, NEW s \in Segs, NEW x \in SegmentState,
         NEW nw, Changed(st, nw, c, k, s, x), Counted(st),
         k.requested = st.c[c].requested, k.responded = st.c[c].responded,
         x.conn = st.s[s].conn, x.outstanding = st.s[s].outstanding
  PROVE  Counted(nw)
<1>1. /\ nw.c[c] = k /\ \A d \in Chans \ {c} : nw.c[d] = st.c[d]
      /\ nw.s[s] = x /\ \A t \in Segs \ {s} : nw.s[t] = st.s[t]
  BY ChangedFacts
<1>2. \A t \in Segs : nw.s[t].conn = st.s[t].conn /\ nw.s[t].outstanding = st.s[t].outstanding
  BY <1>1
<1>3. \A d \in Chans : nw.c[d].requested = st.c[d].requested /\ nw.c[d].responded = st.c[d].responded
  BY <1>1
<1>4. ASSUME NEW d \in Chans PROVE Asks(nw, d) = Asks(st, d)
  BY <1>2 DEF Asks
<1> QED
  BY <1>3, <1>4, Zenon DEF Counted

\* A request of s on c more, or one less.
LEMMA CountedStep ==
  ASSUME NEW st \in State, NEW c \in Chans, NEW k \in ChannelState, NEW s \in Segs, NEW x \in SegmentState,
         NEW nw, Changed(st, nw, c, k, s, x), Counted(st),
         NEW step \in {1, -1}, st.s[s].conn = c, x.conn = c, x.outstanding = st.s[s].outstanding + step,
         k.requested - k.responded = (st.c[c].requested - st.c[c].responded) + step
  PROVE  Counted(nw)
<1>1. /\ nw.c[c] = k /\ \A d \in Chans \ {c} : nw.c[d] = st.c[d]
      /\ nw.s[s] = x /\ \A t \in Segs \ {s} : nw.s[t] = st.s[t]
      /\ nw \in State
  BY ChangedFacts
<1>2. ASSUME NEW d \in Chans \ {c} PROVE Asks(nw, d) = Asks(st, d)
  <2>1. \A t \in Segs : Asks(nw, d)[t] = Asks(st, d)[t]
    BY <1>1, AsksType
  <2>2. Asks(nw, d) = [t \in Segs |-> Asks(nw, d)[t]] /\ Asks(st, d) = [t \in Segs |-> Asks(st, d)[t]]
    BY DEF Asks
  <2> QED
    BY <2>1, <2>2
<1>3. /\ Asks(nw, c)[s] = Asks(st, c)[s] + step
      /\ Asks(nw, c)[s] \in 0..Length /\ Asks(st, c)[s] \in 0..Length
      /\ \A t \in Segs \ {s} : Asks(nw, c)[t] = Asks(st, c)[t]
  <2>1. /\ \A t \in Segs : Asks(st, c)[t] = IF st.s[t].conn = c THEN st.s[t].outstanding ELSE 0
        /\ \A t \in Segs : Asks(nw, c)[t] = IF nw.s[t].conn = c THEN nw.s[t].outstanding ELSE 0
    BY <1>1, AsksType
  <2>2. st.s[s].outstanding \in 0..Length /\ nw.s[s].outstanding \in 0..Length
    BY <1>1, Fields
  <2> QED
    BY <1>1, <2>1, <2>2
<1>4. Length \in Nat
  BY SizeAssumption
<1>5. Cardinality(Cells(Asks(nw, c), Length)) = Cardinality(Cells(Asks(st, c), Length)) + step
  <2>1. Asks(nw, c) \in [Segs -> Int] /\ Asks(st, c) \in [Segs -> Int]
    BY <1>1, AsksType
  <2>2. Cardinality(Cells(Asks(nw, c), Length)) \in Nat /\ Cardinality(Cells(Asks(st, c), Length)) \in Nat
    BY <1>4, <2>1, CellsFinite
  <2>3. CASE step = 1
    <3>1. Asks(st, c)[s] \in 0..Length - 1 /\ Asks(nw, c)[s] = Asks(st, c)[s] + 1
      BY <1>3, <1>4, <2>3
    <3> QED
      BY <1>3, <1>4, <2>1, <2>3, <3>1, CellsMore
  <2>4. CASE step = -1
    <3>1. Asks(nw, c)[s] \in 0..Length - 1 /\ Asks(st, c)[s] = Asks(nw, c)[s] + 1
      BY <1>3, <1>4, <2>4
    <3>2. \A t \in Segs \ {s} : Asks(st, c)[t] = Asks(nw, c)[t]
      BY <1>3
    <3>3. Cardinality(Cells(Asks(st, c), Length)) = Cardinality(Cells(Asks(nw, c), Length)) + 1
      BY <1>4, <2>1, <3>1, <3>2, CellsMore
    <3> QED
      BY <2>2, <2>4, <3>3
  <2> QED
    BY <2>3, <2>4
<1>6. ASSUME NEW d \in Chans
      PROVE  nw.c[d].requested - nw.c[d].responded = Cardinality(Cells(Asks(nw, d), Length))
  <2>1. st.c[d].requested - st.c[d].responded = Cardinality(Cells(Asks(st, d), Length))
    BY Zenon DEF Counted
  <2>2. CASE d = c
    <3>1. nw.c[d].requested - nw.c[d].responded = (st.c[d].requested - st.c[d].responded) + step
      BY <1>1, <2>2
    <3> QED
      BY <1>5, <2>1, <2>2, <3>1, Zenon
  <2>3. CASE d # c
    <3>1. nw.c[d] = st.c[d] /\ d \in Chans \ {c}
      BY <1>1, <2>3
    <3> QED
      BY <1>2, <2>1, <3>1, Zenon
  <2> QED
    BY <2>2, <2>3
<1> QED
  BY <1>6, Zenon DEF Counted

\* The requests of s on c are cancelled.
LEMMA CountedClear ==
  ASSUME NEW st \in State, NEW c \in Chans, NEW k \in ChannelState, NEW s \in Segs, NEW x \in SegmentState,
         NEW nw, Changed(st, nw, c, k, s, x), Counted(st),
         st.s[s].conn = c, x.outstanding = 0,
         k.requested - k.responded = (st.c[c].requested - st.c[c].responded) - st.s[s].outstanding
  PROVE  Counted(nw)
<1>1. /\ nw.c[c] = k /\ \A d \in Chans \ {c} : nw.c[d] = st.c[d]
      /\ nw.s[s] = x /\ \A t \in Segs \ {s} : nw.s[t] = st.s[t]
      /\ nw \in State
  BY ChangedFacts
<1>2. ASSUME NEW d \in Chans \ {c} PROVE Asks(nw, d) = Asks(st, d)
  <2>1. \A t \in Segs : Asks(nw, d)[t] = Asks(st, d)[t]
    BY <1>1, AsksType
  <2>2. Asks(nw, d) = [t \in Segs |-> Asks(nw, d)[t]] /\ Asks(st, d) = [t \in Segs |-> Asks(st, d)[t]]
    BY DEF Asks
  <2> QED
    BY <2>1, <2>2
<1>3. /\ Asks(nw, c)[s] = 0 /\ Asks(st, c)[s] = st.s[s].outstanding /\ Asks(st, c)[s] \in 0..Length
      /\ \A t \in Segs \ {s} : Asks(nw, c)[t] = Asks(st, c)[t]
  <2>1. /\ \A t \in Segs : Asks(st, c)[t] = IF st.s[t].conn = c THEN st.s[t].outstanding ELSE 0
        /\ \A t \in Segs : Asks(nw, c)[t] = IF nw.s[t].conn = c THEN nw.s[t].outstanding ELSE 0
    BY <1>1, AsksType
  <2>2. st.s[s].outstanding \in 0..Length
    BY Fields
  <2> QED
    BY <1>1, <2>1, <2>2
<1>4. Length \in Nat /\ Asks(nw, c) \in [Segs -> Int] /\ Asks(st, c) \in [Segs -> Int]
  BY <1>1, AsksType, SizeAssumption
<1>5. Cardinality(Cells(Asks(nw, c), Length)) = Cardinality(Cells(Asks(st, c), Length)) - Asks(st, c)[s]
  BY <1>3, <1>4, CellsClear
<1>6. ASSUME NEW d \in Chans
      PROVE  nw.c[d].requested - nw.c[d].responded = Cardinality(Cells(Asks(nw, d), Length))
  <2>1. st.c[d].requested - st.c[d].responded = Cardinality(Cells(Asks(st, d), Length))
    BY Zenon DEF Counted
  <2>2. CASE d = c
    <3>1. nw.c[d].requested - nw.c[d].responded = (st.c[d].requested - st.c[d].responded) - Asks(st, c)[s]
      BY <1>1, <1>3, <2>2, Zenon
    <3> QED
      BY <1>5, <2>1, <2>2, <3>1, Zenon
  <2>3. CASE d # c
    <3>1. nw.c[d] = st.c[d] /\ d \in Chans \ {c}
      BY <1>1, <2>3
    <3> QED
      BY <1>2, <2>1, <3>1, Zenon
  <2> QED
    BY <2>2, <2>3
<1> QED
  BY <1>6, Zenon DEF Counted

-----------------------------------------------------------------------------
(* Who stalls a channel, and the buffers in use.                           *)

\* No stall begins or ends.
LEMMA OwnedSame ==
  ASSUME NEW st \in State, NEW c \in Chans, NEW k \in ChannelState, NEW s \in Segs, NEW x \in SegmentState,
         NEW nw, Changed(st, nw, c, k, s, x), Owned(st),
         k.blocked = st.c[c].blocked, x.stall = st.s[s].stall
  PROVE  Owned(nw)
<1>1. /\ nw.c[c] = k /\ \A d \in Chans \ {c} : nw.c[d] = st.c[d]
      /\ nw.s[s] = x /\ \A t \in Segs \ {s} : nw.s[t] = st.s[t]
  BY ChangedFacts
<1>2. \A t \in Segs : nw.s[t].stall = st.s[t].stall
  BY <1>1
<1>3. \A d \in Chans : nw.c[d].blocked = st.c[d].blocked
  BY <1>1
<1> QED
  BY <1>2, <1>3 DEF Owned

\* Segment s stalls channel c.
LEMMA OwnedStall ==
  ASSUME NEW st \in State, NEW c \in Chans, NEW k \in ChannelState, NEW s \in Segs, NEW x \in SegmentState,
         NEW nw, Changed(st, nw, c, k, s, x), Owned(st),
         ~st.c[c].blocked, st.s[s].stall = NoChannel, k.blocked, x.stall = c
  PROVE  Owned(nw)
<1>1. /\ nw.c[c] = k /\ \A d \in Chans \ {c} : nw.c[d] = st.c[d]
      /\ nw.s[s] = x /\ \A t \in Segs \ {s} : nw.s[t] = st.s[t]
  BY ChangedFacts
<1>2. \A t \in Segs \ {s} : nw.s[t].stall = st.s[t].stall
  BY <1>1
<1>3. \A d \in Chans \ {c} : nw.c[d].blocked = st.c[d].blocked
  BY <1>1
<1>4. \A t \in Segs : st.s[t].stall # c
  BY DEF Owned
<1>5. c # NoChannel /\ \A d \in Chans : d # NoChannel
  BY DEF Chans, NoChannel
<1>6. ASSUME NEW d \in Chans PROVE nw.c[d].blocked <=> \E t \in Segs : nw.s[t].stall = d
  <2>1. CASE d = c
    BY <1>1, <2>1
  <2>2. CASE d # c
    <3>1. nw.c[d].blocked <=> \E t \in Segs : st.s[t].stall = d
      BY <1>3, <2>2 DEF Owned
    <3>2. \A t \in Segs : nw.s[t].stall = d <=> st.s[t].stall = d
      BY <1>1, <1>2, <1>5, <2>2
    <3> QED
      BY <3>1, <3>2
  <2> QED
    BY <2>1, <2>2
<1>7. ASSUME NEW t \in Segs, NEW u \in Segs, nw.s[t].stall = nw.s[u].stall, nw.s[t].stall # NoChannel
      PROVE  t = u
  <2>1. CASE t = s \/ u = s
    BY <1>1, <1>2, <1>4, <1>7, <2>1
  <2>2. CASE t # s /\ u # s
    BY <1>2, <1>7, <2>2 DEF Owned
  <2> QED
    BY <2>1, <2>2
<1> QED
  BY <1>6, <1>7 DEF Owned

\* Segment s stalls channel c no longer.
LEMMA OwnedUnstall ==
  ASSUME NEW st \in State, NEW c \in Chans, NEW k \in ChannelState, NEW s \in Segs, NEW x \in SegmentState,
         NEW nw, Changed(st, nw, c, k, s, x), Owned(st),
         st.s[s].stall = c, ~k.blocked, x.stall = NoChannel
  PROVE  Owned(nw)
<1>1. /\ nw.c[c] = k /\ \A d \in Chans \ {c} : nw.c[d] = st.c[d]
      /\ nw.s[s] = x /\ \A t \in Segs \ {s} : nw.s[t] = st.s[t]
  BY ChangedFacts
<1>2. \A t \in Segs \ {s} : nw.s[t].stall = st.s[t].stall
  BY <1>1
<1>3. \A d \in Chans \ {c} : nw.c[d].blocked = st.c[d].blocked
  BY <1>1
<1>4. \A d \in Chans : d # NoChannel
  BY DEF Chans, NoChannel
<1>5. \A t \in Segs : nw.s[t].stall # c
  <2> TAKE t \in Segs
  <2>1. CASE t = s
    BY <1>1, <1>4, <2>1
  <2>2. CASE t # s
    BY <1>2, <1>4, <2>2 DEF Owned
  <2> QED
    BY <2>1, <2>2
<1>6. ASSUME NEW d \in Chans PROVE nw.c[d].blocked <=> \E t \in Segs : nw.s[t].stall = d
  <2>1. CASE d = c
    BY <1>1, <1>5, <2>1
  <2>2. CASE d # c
    <3>1. nw.c[d].blocked <=> \E t \in Segs : st.s[t].stall = d
      BY <1>3, <2>2 DEF Owned
    <3>2. \A t \in Segs : nw.s[t].stall = d <=> st.s[t].stall = d
      BY <1>1, <1>2, <1>4, <2>2
    <3> QED
      BY <3>1, <3>2
  <2> QED
    BY <2>1, <2>2
<1>7. ASSUME NEW t \in Segs, NEW u \in Segs, nw.s[t].stall = nw.s[u].stall, nw.s[t].stall # NoChannel
      PROVE  t = u
  <2>1. t # s /\ u # s
    BY <1>1, <1>7
  <2> QED
    BY <1>2, <1>7, <2>1 DEF Owned
<1> QED
  BY <1>6, <1>7 DEF Owned

\* The number of buffers each segment has in use.
LEMMA HoldsType ==
  ASSUME NEW st \in State
  PROVE  /\ Holds(st) \in [Segs -> Int]
         /\ \A s \in Segs : Holds(st)[s] = Held(st.s[s]) /\ Holds(st)[s] \in 0..Pool + 1
<1>1. ASSUME NEW s \in Segs PROVE Held(st.s[s]) \in 0..Pool + 1
  <2>1. st.s[s].writing \in 0..Pool
    BY Fields
  <2>2. Pool \in Nat
    BY SizeAssumption
  <2> QED
    BY <2>1, <2>2 DEF Held
<1> QED
  BY <1>1 DEF Holds

\* The buffers in use by a segment are at most those that exist.
LEMMA PooledBound ==
  ASSUME NEW st \in State, Pooled(st), NEW s \in Segs
  PROVE  Held(st.s[s]) <= Pool
<1>1. Pool + 1 \in Nat /\ Pool \in Nat
  BY SizeAssumption
<1>2. Holds(st)[s] <= Cardinality(Cells(Holds(st), Pool + 1))
  BY <1>1, HoldsType, CellsFinite
<1>3. Cardinality(Cells(Holds(st), Pool + 1)) \in Nat
  BY <1>1, HoldsType, CellsFinite
<1> QED
  BY <1>1, <1>2, <1>3, HoldsType DEF Pooled

\* Free counts the buffers that are not in use.
LEMMA FreeCells ==
  ASSUME NEW st \in State
  PROVE  /\ Free(st) = Pool - Cardinality(Cells(Holds(st), Pool + 1))
         /\ Cardinality(Cells(Holds(st), Pool + 1)) \in Nat
         /\ Pooled(st) => Free(st) \in Nat
<1>1. InUse(st) = Cells(Holds(st), Pool + 1)
  BY DEF InUse, Cells, Holds
<1>2. Pool + 1 \in Nat /\ Pool \in Nat
  BY SizeAssumption
<1>3. Cardinality(Cells(Holds(st), Pool + 1)) \in Nat
  BY <1>2, HoldsType, CellsFinite
<1>4. Free(st) = Pool - Cardinality(Cells(Holds(st), Pool + 1))
  BY <1>1, Zenon DEF Free
<1> QED
  BY <1>2, <1>3, <1>4 DEF Pooled

\* A segment keeps its buffers, or has fewer.
LEMMA PooledFewer ==
  ASSUME NEW st \in State, NEW c \in Chans, NEW k \in ChannelState, NEW s \in Segs, NEW x \in SegmentState,
         NEW nw, Changed(st, nw, c, k, s, x), Pooled(st), Held(x) <= Held(st.s[s])
  PROVE  Pooled(nw)
<1>1. /\ nw.s[s] = x /\ \A t \in Segs \ {s} : nw.s[t] = st.s[t]
      /\ nw \in State
  BY ChangedFacts
<1>2. \A t \in Segs : Holds(nw)[t] <= Holds(st)[t]
  <2> TAKE t \in Segs
  <2>1. Holds(nw)[t] = Held(nw.s[t]) /\ Holds(st)[t] = Held(st.s[t]) /\ Holds(st)[t] \in 0..Pool + 1
    BY <1>1, HoldsType
  <2>2. CASE t = s
    BY <1>1, <2>1, <2>2, Zenon
  <2>3. CASE t # s
    <3>1. nw.s[t] = st.s[t]
      BY <1>1, <2>3
    <3>2. Holds(nw)[t] = Holds(st)[t]
      BY <2>1, <3>1, Zenon
    <3> QED
      BY <2>1, <3>2
  <2> QED
    BY <2>2, <2>3
<1>3. Pool + 1 \in Nat /\ Pool \in Nat
  BY SizeAssumption
<1>4. Holds(st) \in [Segs -> Int] /\ Holds(nw) \in [Segs -> Int]
  BY <1>1, HoldsType
<1>5. Cardinality(Cells(Holds(nw), Pool + 1)) <= Cardinality(Cells(Holds(st), Pool + 1))
  BY <1>2, <1>3, <1>4, CellsFewer
<1>6. Cardinality(Cells(Holds(nw), Pool + 1)) \in Nat /\ Cardinality(Cells(Holds(st), Pool + 1)) \in Nat
  BY <1>3, <1>4, CellsFinite
<1> QED
  BY <1>3, <1>5, <1>6 DEF Pooled

\* A segment gets one of the buffers that are free.
LEMMA PooledMore ==
  ASSUME NEW st \in State, NEW c \in Chans, NEW k \in ChannelState, NEW s \in Segs, NEW x \in SegmentState,
         NEW nw, Changed(st, nw, c, k, s, x), Pooled(st), Free(st) > 0, Held(x) = Held(st.s[s]) + 1
  PROVE  Pooled(nw)
<1>1. /\ nw.s[s] = x /\ \A t \in Segs \ {s} : nw.s[t] = st.s[t]
      /\ nw \in State
  BY ChangedFacts
<1>2. \A t \in Segs \ {s} : Holds(nw)[t] = Holds(st)[t]
  <2> TAKE t \in Segs \ {s}
  <2>1. Holds(nw)[t] = Held(nw.s[t]) /\ Holds(st)[t] = Held(st.s[t]) /\ nw.s[t] = st.s[t]
    BY <1>1, HoldsType
  <2> QED
    BY <2>1, Zenon
<1>3. Pool + 1 \in Nat /\ Pool \in Nat
  BY SizeAssumption
<1>4. Holds(st) \in [Segs -> Int] /\ Holds(nw) \in [Segs -> Int]
  BY <1>1, HoldsType
<1>5. Holds(nw)[s] = Holds(st)[s] + 1
  <2>1. Holds(nw)[s] = Held(nw.s[s]) /\ Holds(st)[s] = Held(st.s[s])
    BY <1>1, HoldsType
  <2> QED
    BY <1>1, <2>1, Zenon
<1>6. Holds(st)[s] \in 0..(Pool + 1) - 1
  <2>1. Held(st.s[s]) <= Pool
    BY PooledBound
  <2>2. Holds(st)[s] = Held(st.s[s]) /\ Holds(st)[s] \in 0..Pool + 1
    BY HoldsType
  <2>3. Holds(st)[s] <= Pool
    BY <2>1, <2>2, Zenon
  <2> QED
    BY <1>3, <2>2, <2>3
<1>7. Cardinality(Cells(Holds(nw), Pool + 1)) = Cardinality(Cells(Holds(st), Pool + 1)) + 1
  BY <1>2, <1>3, <1>4, <1>5, <1>6, CellsMore
<1>8. Cardinality(Cells(Holds(st), Pool + 1)) \in Nat /\ Free(st) = Pool - Cardinality(Cells(Holds(st), Pool + 1))
  BY FreeCells
<1> QED
  BY <1>3, <1>7, <1>8 DEF Pooled

-----------------------------------------------------------------------------
(* Requesting a block.                                                     *)

\* A set of numbers that is not empty has a smallest one.
LEMMA Smallest ==
  ASSUME NEW D, D \subseteq Nat, D # {}
  PROVE  \E d \in D : \A e \in D : d <= e
<1>1. PICK R : R = OpToRel(<, Nat)
  OBVIOUS
<1>2. IsWellFoundedOn(R, Nat)
  BY <1>1, NatLessThanWellFounded
<1>3. PICK d \in D : \A e \in D : ~(<<e, d>> \in R)
  BY <1>2, WFMin, Zenon
<1>4. ASSUME NEW e \in D PROVE d <= e
  <2>1. ~(e < d)
    BY <1>1, <1>3 DEF OpToRel
  <2> QED
    BY <2>1
<1> QED
  BY <1>3, <1>4

\* The segment to request from next is one of those that have something left.
LEMMA NextIsCandidate ==
  ASSUME NEW st \in State, NEW c \in Chans, Candidates(st, c) # {}
  PROVE  NextSegment(st, c) \in Candidates(st, c)
<1>1. \A s \in Candidates(st, c) : (s - 1 - st.c[c].turn) % N \in Nat
  <2>1. st.c[c].turn \in Int
    BY Fields
  <2>2. PICK turn \in Int : turn = st.c[c].turn
    BY <2>1
  <2>3. \A x \in Int : x % N \in Nat
    BY SizeAssumption
  <2>4. \A s \in Candidates(st, c) : s - 1 - turn \in Int
    BY DEF Candidates, Segs
  <2> QED
    BY <2>2, <2>3, <2>4, Zenon
<1>2. PICK d \in {(s - 1 - st.c[c].turn) % N : s \in Candidates(st, c)} :
        \A e \in {(s - 1 - st.c[c].turn) % N : s \in Candidates(st, c)} : d <= e
  <2>1. {(s - 1 - st.c[c].turn) % N : s \in Candidates(st, c)} \subseteq Nat
    BY <1>1
  <2>2. {(s - 1 - st.c[c].turn) % N : s \in Candidates(st, c)} # {}
    OBVIOUS
  <2> QED
    BY <2>1, <2>2, Smallest
<1>3. \E s \in Candidates(st, c) :
        \A t \in Candidates(st, c) : (s - 1 - st.c[c].turn) % N <= (t - 1 - st.c[c].turn) % N
  BY <1>2
<1> QED
  BY <1>3 DEF NextSegment

\* A packet goes to the end of the line of its channel, and nowhere else.
LEMMA SentOnFacts ==
  ASSUME NEW k \in ChannelState, NEW p \in Packet, NEW congested
  PROVE  /\ SentOn(k, p, congested) \in ChannelState
         /\ Line(SentOn(k, p, congested)) = Append(Line(k), p)
         /\ SentOn(k, p, congested).blocked = k.blocked
         /\ SentOn(k, p, congested).requested = k.requested
         /\ SentOn(k, p, congested).responded = k.responded
<1>1. k.out \in Seq(Packet) /\ k.sent \in Seq(Packet)
  BY DEF ChannelState
<1>2. /\ Append(k.out, p) \in Seq(Packet) /\ Append(k.sent, p) \in Seq(Packet)
      /\ k.sent \o Append(k.out, p) = Append(k.sent \o k.out, p)
      /\ k.out = <<>> => Append(k.sent, p) \o k.out = Append(k.sent \o k.out, p)
  BY <1>1, LineAppend
<1>3. CASE congested \/ k.out # <<>>
  <2>1. SentOn(k, p, congested) = [k EXCEPT !.out = Append(k.out, p)]
    BY <1>3 DEF SentOn
  <2>2. [k EXCEPT !.out = Append(k.out, p)] \in ChannelState
    BY <1>2 DEF ChannelState
  <2>3. /\ [k EXCEPT !.out = Append(k.out, p)].out = Append(k.out, p)
        /\ [k EXCEPT !.out = Append(k.out, p)].sent = k.sent
        /\ [k EXCEPT !.out = Append(k.out, p)].blocked = k.blocked
        /\ [k EXCEPT !.out = Append(k.out, p)].requested = k.requested
        /\ [k EXCEPT !.out = Append(k.out, p)].responded = k.responded
    BY DEF ChannelState
  <2> QED
    BY <1>2, <2>1, <2>2, <2>3, Zenon DEF Line
<1>4. CASE ~(congested \/ k.out # <<>>)
  <2>1. SentOn(k, p, congested) = [k EXCEPT !.sent = Append(k.sent, p)]
    BY <1>4 DEF SentOn
  <2>2. [k EXCEPT !.sent = Append(k.sent, p)] \in ChannelState
    BY <1>2 DEF ChannelState
  <2>3. /\ [k EXCEPT !.sent = Append(k.sent, p)].sent = Append(k.sent, p)
        /\ [k EXCEPT !.sent = Append(k.sent, p)].out = k.out
        /\ [k EXCEPT !.sent = Append(k.sent, p)].blocked = k.blocked
        /\ [k EXCEPT !.sent = Append(k.sent, p)].requested = k.requested
        /\ [k EXCEPT !.sent = Append(k.sent, p)].responded = k.responded
    BY DEF ChannelState
  <2> QED
    BY <1>2, <1>4, <2>1, <2>2, <2>3, Zenon DEF Line
<1> QED
  BY <1>3, <1>4

\* Sending, in terms of the channel it changes.
LEMMA SendChanges ==
  ASSUME NEW st \in State, NEW c, NEW p, NEW congested
  PROVE  Send(st, c, p, congested) = [c |-> [st.c EXCEPT ![c] = SentOn(st.c[c], p, congested)], s |-> st.s]
<1>1. st = [c |-> st.c, s |-> st.s]
  BY DEF State
<1>2. CASE congested \/ ~CanSend(st, c)
  <2>1. SentOn(st.c[c], p, congested) = [st.c[c] EXCEPT !.out = Append(st.c[c].out, p)]
    BY <1>2 DEF SentOn, CanSend
  <2>2. Send(st, c, p, congested) = [st EXCEPT !.c[c].out = Append(st.c[c].out, p)]
    BY <1>2, Zenon DEF Send
  <2>3. [st EXCEPT !.c[c].out = Append(st.c[c].out, p)]
          = [c |-> [st.c EXCEPT ![c] = [st.c[c] EXCEPT !.out = Append(st.c[c].out, p)]], s |-> st.s]
    BY <1>1, SMTT(30)
  <2> QED
    BY <2>1, <2>2, <2>3, Zenon
<1>3. CASE ~(congested \/ ~CanSend(st, c))
  <2>1. SentOn(st.c[c], p, congested) = [st.c[c] EXCEPT !.sent = Append(st.c[c].sent, p)]
    BY <1>3 DEF SentOn, CanSend
  <2>2. Send(st, c, p, congested) = [st EXCEPT !.c[c].sent = Append(st.c[c].sent, p)]
    BY <1>3, Zenon DEF Send
  <2>3. [st EXCEPT !.c[c].sent = Append(st.c[c].sent, p)]
          = [c |-> [st.c EXCEPT ![c] = [st.c[c] EXCEPT !.sent = Append(st.c[c].sent, p)]], s |-> st.s]
    BY <1>1, SMTT(30)
  <2> QED
    BY <2>1, <2>2, <2>3, Zenon
<1> QED
  BY <1>2, <1>3

\* A request in terms of the channel and the segment it changes.
LEMMA RequestChanges ==
  ASSUME NEW st \in State, NEW c \in Chans, NEW congested,
         Pending(st, c) < MaxPending, CanSend(st, c), Candidates(st, c) # {}
  PROVE  Changed(st, Request(st, c, congested), c,
           [SentOn(st.c[c], Read(NextSegment(st, c), st.s[NextSegment(st, c)].next + 1), congested)
              EXCEPT !.turn = NextSegment(st, c) % N, !.requested = @ + 1],
           NextSegment(st, c),
           [st.s[NextSegment(st, c)] EXCEPT !.next = @ + 1, !.outstanding = @ + 1])
<1>1. PICK s : s = NextSegment(st, c)
  OBVIOUS
<1>2. s \in Segs
  BY <1>1, NextIsCandidate DEF Candidates
<1>3. PICK p : p = Read(s, st.s[s].next + 1)
  OBVIOUS
<1>4. PICK k : k = SentOn(st.c[c], p, congested)
  OBVIOUS
<1>5. st = [c |-> st.c, s |-> st.s]
  BY DEF State
<1>6. st.c \in [Chans -> ChannelState] /\ st.s \in [Segs -> SegmentState]
  BY DEF State
<1>7. PICK w : w = Send(st, c, p, congested)
  OBVIOUS
<1>8. PICK C : C = [st.c EXCEPT ![c] = k]
  OBVIOUS
<1>9. w = [c |-> C, s |-> st.s]
  <2>1. Send(st, c, p, congested) = [c |-> [st.c EXCEPT ![c] = SentOn(st.c[c], p, congested)], s |-> st.s]
    BY SendChanges
  <2> QED
    BY <1>4, <1>7, <1>8, <2>1, Zenon
<1>10. Request(st, c, congested)
         = [w EXCEPT !.s[s].next = st.s[s].next + 1, !.s[s].outstanding = @ + 1,
                     !.c[c].turn = s % N, !.c[c].requested = @ + 1]
  BY <1>1, <1>3, <1>7, Zenon DEF Request, Read
<1>11. w.s[s] = st.s[s] /\ w.c[c] = k
  BY <1>6, <1>8, <1>9
<1>12. Request(st, c, congested)
         = [[[[w EXCEPT !.s[s].next = st.s[s].next + 1] EXCEPT !.s[s].outstanding = st.s[s].outstanding + 1]
              EXCEPT !.c[c].turn = s % N] EXCEPT !.c[c].requested = k.requested + 1]
  BY <1>10, <1>11, Zenon
<1>13. PICK x : x = [st.s[s] EXCEPT !.next = st.s[s].next + 1]
  OBVIOUS
<1>14. PICK y : y = [x EXCEPT !.outstanding = st.s[s].outstanding + 1]
  OBVIOUS
<1>15. PICK l : l = [k EXCEPT !.turn = s % N]
  OBVIOUS
<1>16. PICK m : m = [l EXCEPT !.requested = k.requested + 1]
  OBVIOUS
<1>17. [w EXCEPT !.s[s].next = st.s[s].next + 1] = [c |-> C, s |-> [st.s EXCEPT ![s] = x]]
  BY <1>9, <1>13
<1>18. [[c |-> C, s |-> [st.s EXCEPT ![s] = x]] EXCEPT !.s[s].outstanding = st.s[s].outstanding + 1]
         = [c |-> C, s |-> [st.s EXCEPT ![s] = y]]
  BY <1>2, <1>6, <1>14
<1>19. [[c |-> C, s |-> [st.s EXCEPT ![s] = y]] EXCEPT !.c[c].turn = s % N]
         = [c |-> [st.c EXCEPT ![c] = l], s |-> [st.s EXCEPT ![s] = y]]
  BY <1>6, <1>8, <1>15
<1>20. [[c |-> [st.c EXCEPT ![c] = l], s |-> [st.s EXCEPT ![s] = y]] EXCEPT !.c[c].requested = k.requested + 1]
         = [c |-> [st.c EXCEPT ![c] = m], s |-> [st.s EXCEPT ![s] = y]]
  BY <1>6, <1>16
<1>21. y = [st.s[s] EXCEPT !.next = st.s[s].next + 1, !.outstanding = st.s[s].outstanding + 1]
  BY <1>13, <1>14
<1>22. m = [k EXCEPT !.turn = s % N, !.requested = k.requested + 1]
  BY <1>15, <1>16
<1>23. Request(st, c, congested) = [c |-> [st.c EXCEPT ![c] = m], s |-> [st.s EXCEPT ![s] = y]]
  <2>1. [[w EXCEPT !.s[s].next = st.s[s].next + 1] EXCEPT !.s[s].outstanding = st.s[s].outstanding + 1]
          = [c |-> C, s |-> [st.s EXCEPT ![s] = y]]
    BY <1>17, <1>18, Zenon
  <2>2. [[[w EXCEPT !.s[s].next = st.s[s].next + 1] EXCEPT !.s[s].outstanding = st.s[s].outstanding + 1]
             EXCEPT !.c[c].turn = s % N]
          = [c |-> [st.c EXCEPT ![c] = l], s |-> [st.s EXCEPT ![s] = y]]
    BY <1>19, <2>1, Zenon
  <2> QED
    BY <1>12, <1>20, <2>2, Zenon
<1>24. Changed(st, Request(st, c, congested), c, m, s, y)
  BY <1>23, Zenon DEF Changed
<1>25. /\ m = [SentOn(st.c[c], p, congested)
                 EXCEPT !.turn = s % N, !.requested = SentOn(st.c[c], p, congested).requested + 1]
       /\ y = [st.s[s] EXCEPT !.next = @ + 1, !.outstanding = @ + 1]
  BY <1>4, <1>21, <1>22, Zenon
<1> QED
  BY <1>1, <1>3, <1>24, <1>25, Zenon

\* All that holds of the segments one by one.
LEMMA GoodParts ==
  ASSUME NEW st \in State, NEW c \in Chans, NEW k \in ChannelState, NEW s \in Segs, NEW x \in SegmentState,
         NEW nw, Changed(st, nw, c, k, s, x), \A t \in Segs \ {s} : Buffered(st.s[t]), Buffered(x)
  PROVE  /\ nw \in State
         /\ \A t \in Segs : Buffered(nw.s[t])
         /\ (\A t \in Segs \ {s} : st.s[t].buffer < BufferSize) /\ x.buffer < BufferSize => Room(nw)
<1>1. /\ nw.s[s] = x /\ \A t \in Segs \ {s} : nw.s[t] = st.s[t]
      /\ nw \in State
  BY ChangedFacts
<1>2. ASSUME NEW t \in Segs PROVE Buffered(nw.s[t])
  <2>1. CASE t = s
    BY <1>1, <2>1, Zenon
  <2>2. CASE t # s
    <3>1. nw.s[t] = st.s[t] /\ t \in Segs \ {s}
      BY <1>1, <2>2
    <3> QED
      BY <3>1, Zenon
  <2> QED
    BY <2>1, <2>2
<1>3. ASSUME \A t \in Segs \ {s} : st.s[t].buffer < BufferSize, x.buffer < BufferSize PROVE Room(nw)
  BY <1>1, <1>3 DEF Room
<1> QED
  BY <1>1, <1>2, <1>3

\* A request keeps the order of the blocks, the counters and the buffers.
LEMMA RequestGood ==
  ASSUME NEW st, Good(st), NEW c \in Chans, NEW congested
  PROVE  Good(Request(st, c, congested))
<1>1. st \in State /\ Tiled(st) /\ Counted(st) /\ Owned(st) /\ Pooled(st) /\ Room(st)
      /\ \A s \in Segs : Buffered(st.s[s])
  BY DEF Good, Base
<1>2. CASE ~(Pending(st, c) < MaxPending /\ CanSend(st, c) /\ Candidates(st, c) # {})
  <2>1. Request(st, c, congested) = st
    BY <1>2, Zenon DEF Request
  <2> QED
    BY <2>1, Zenon
<1>3. CASE Pending(st, c) < MaxPending /\ CanSend(st, c) /\ Candidates(st, c) # {}
  <2>1. PICK s : s = NextSegment(st, c)
    OBVIOUS
  <2>2. s \in Candidates(st, c)
    BY <1>1, <1>3, <2>1, NextIsCandidate
  <2>3. /\ s \in Segs /\ st.s[s].conn = c /\ st.s[s].buffer # NoBuffer /\ st.s[s].next < Length
    BY <2>2 DEF Candidates
  <2>4. PICK nw : nw = Request(st, c, congested)
    OBVIOUS
  <2>5. PICK p : p = Read(s, st.s[s].next + 1)
    OBVIOUS
  <2>6. PICK l : l = SentOn(st.c[c], p, congested)
    OBVIOUS
  <2>7. PICK k : k = [l EXCEPT !.turn = s % N, !.requested = @ + 1]
    OBVIOUS
  <2>8. PICK x : x = [st.s[s] EXCEPT !.next = @ + 1, !.outstanding = @ + 1]
    OBVIOUS
  <2>9. Changed(st, nw, c, k, s, x)
    <3>1. Changed(st, Request(st, c, congested), c,
           [SentOn(st.c[c], Read(NextSegment(st, c), st.s[NextSegment(st, c)].next + 1), congested)
              EXCEPT !.turn = NextSegment(st, c) % N, !.requested = @ + 1],
           NextSegment(st, c),
           [st.s[NextSegment(st, c)] EXCEPT !.next = @ + 1, !.outstanding = @ + 1])
      BY <1>1, <1>3, RequestChanges
    <3>2. Changed(st, nw, c,
           [SentOn(st.c[c], Read(s, st.s[s].next + 1), congested)
              EXCEPT !.turn = s % N, !.requested = @ + 1],
           s,
           [st.s[s] EXCEPT !.next = @ + 1, !.outstanding = @ + 1])
      BY <2>1, <2>4, <3>1, Zenon
    <3>3. Changed(st, nw, c, [l EXCEPT !.turn = s % N, !.requested = @ + 1],
           s, [st.s[s] EXCEPT !.next = @ + 1, !.outstanding = @ + 1])
      BY <2>5, <2>6, <3>2, Zenon
    <3> QED
      BY <2>7, <2>8, <3>3, ZenonT(60)
  <2>10. p \in Packet /\ IsRead(p, s) /\ p.block = st.s[s].next + 1 /\ \A t \in Segs \ {s} : ~IsRead(p, t)
    <3>1. st.s[s].next + 1 \in 0..Length
      <4>1. st.s[s].next \in 0..Length
        BY <1>1, <2>3, Fields, Zenon
      <4>2. st.s[s].next < Length
        BY <2>3
      <4> QED
        BY <4>1, <4>2, SizeAssumption
    <3>2. /\ p \in Packet
          /\ p.kind = "read" /\ p.live = TRUE /\ p.seg = s /\ p.block = st.s[s].next + 1
      BY <2>3, <2>5, <3>1 DEF Read, Packet
    <3> QED
      BY <3>2 DEF IsRead
  <2>11. /\ l \in ChannelState /\ Line(l) = Append(Line(st.c[c]), p)
         /\ l.blocked = st.c[c].blocked /\ l.requested = st.c[c].requested /\ l.responded = st.c[c].responded
    <3>1. st.c[c] \in ChannelState
      BY <1>1, Fields
    <3>2. /\ SentOn(st.c[c], p, congested) \in ChannelState
          /\ Line(SentOn(st.c[c], p, congested)) = Append(Line(st.c[c]), p)
          /\ SentOn(st.c[c], p, congested).blocked = st.c[c].blocked
          /\ SentOn(st.c[c], p, congested).requested = st.c[c].requested
          /\ SentOn(st.c[c], p, congested).responded = st.c[c].responded
      BY <2>10, <3>1, SentOnFacts
    <3> QED
      BY <2>6, <3>2, Zenon
  <2>12. /\ k \in ChannelState /\ Line(k) = Line(l)
         /\ k.blocked = l.blocked /\ k.requested = l.requested + 1 /\ k.responded = l.responded
    <3>1. s % N \in 0..N - 1
      BY <2>3, SizeAssumption DEF Segs
    <3>2. k \in ChannelState /\ k.sent = l.sent /\ k.out = l.out
         /\ k.blocked = l.blocked /\ k.requested = l.requested + 1 /\ k.responded = l.responded
      <4>1. l \in ChannelState
        BY <2>11
      <4>2. PICK t : t = s % N
        OBVIOUS
      <4>3. PICK r : r = l.requested + 1
        OBVIOUS
      <4>4. t \in 0..N - 1 /\ r \in Int
        BY <3>1, <4>1, <4>2, <4>3 DEF ChannelState
      <4>5. k = [l EXCEPT !.turn = t, !.requested = r]
        BY <2>7, <4>2, <4>3, Zenon
      <4>6. k \in ChannelState
        BY <4>1, <4>4, <4>5 DEF ChannelState
      <4>7. k.sent = l.sent /\ k.out = l.out /\ k.blocked = l.blocked /\ k.requested = r /\ k.responded = l.responded
        BY <4>1, <4>5 DEF ChannelState
      <4> QED
        BY <4>3, <4>6, <4>7, Zenon
    <3> QED
      BY <3>2, Zenon DEF Line
  <2>13. /\ x \in SegmentState
         /\ x.next = st.s[s].next + 1 /\ x.outstanding = st.s[s].outstanding + 1
         /\ x.conn = st.s[s].conn /\ x.got = st.s[s].got /\ x.buffer = st.s[s].buffer
         /\ x.writing = st.s[s].writing /\ x.waits = st.s[s].waits /\ x.stall = st.s[s].stall
         /\ x.opened = st.s[s].opened
    <3>1. st.s[s].next = Len(st.s[s].got) + st.s[s].outstanding
      BY <1>1, <2>3 DEF Tiled, Received
    <3>2. st.s[s].next + 1 \in 0..Length /\ st.s[s].outstanding + 1 \in 0..Length
      <4>1. /\ st.s[s].next \in 0..Length /\ st.s[s].outstanding \in 0..Length
            /\ Len(st.s[s].got) \in Nat /\ Length \in Nat
        <5>1. /\ st.s[s].next \in 0..Length /\ st.s[s].outstanding \in 0..Length
              /\ Len(st.s[s].got) \in Nat
          BY <1>1, <2>3, Fields, Zenon
        <5> QED
          BY <5>1, SizeAssumption
      <4>2. st.s[s].next < Length
        BY <2>3
      <4>3. st.s[s].outstanding <= st.s[s].next
        BY <3>1, <4>1
      <4> QED
        BY <4>1, <4>2, <4>3
    <3>3. st.s[s] \in SegmentState
      BY <1>1, <2>3, Fields
    <3> QED
      BY <2>8, <3>2, <3>3 DEF SegmentState
  <2>14. Tiled(nw)
    <3>1. \A d \in Chans : Ordered(Line(st.c[d]), s, Len(st.s[s].got) + 1, Until(st.s[s], d))
      BY <1>1, <2>3 DEF Tiled
    <3>2. Received(x)
      <4>1. Received(st.s[s])
        BY <1>1, <2>3 DEF Tiled
      <4> QED
        BY <1>1, <2>3, <2>13, <4>1, Fields DEF Received
    <3>3. Line(st.c[c]) \in Seq(Packet) /\ Line(k) = Append(Line(st.c[c]), p)
      BY <1>1, <2>11, <2>12, Fields
    <3>4. \A t \in Segs \ {s} : \A lo, hi \in Int :
            Ordered(Line(st.c[c]), t, lo, hi) => Ordered(Line(k), t, lo, hi)
      BY <2>10, <3>3, OrderedOther
    <3>5. Len(st.s[s].got) \in Nat /\ st.s[s].next \in Nat /\ Len(st.s[s].got) <= st.s[s].next
      <4>1. st.s[s].next = Len(st.s[s].got) + st.s[s].outstanding
        BY <1>1, <2>3 DEF Tiled, Received
      <4> QED
        BY <1>1, <2>3, <4>1, Fields
    <3>6. Ordered(Line(k), s, Len(x.got) + 1, Until(x, c))
      <4>1. Until(st.s[s], c) = st.s[s].next /\ Until(x, c) = st.s[s].next + 1
        BY <2>3, <2>13 DEF Until
      <4>2. Ordered(Line(st.c[c]), s, Len(st.s[s].got) + 1, st.s[s].next)
        BY <3>1, <4>1
      <4>3. Ordered(Line(k), s, Len(st.s[s].got) + 1, st.s[s].next + 1)
        <5>1. /\ Len(st.s[s].got) + 1 \in Int /\ st.s[s].next \in Int
              /\ Len(st.s[s].got) + 1 <= st.s[s].next + 1
          BY <3>5
        <5>2. p \in Packet /\ IsRead(p, s) /\ p.block = st.s[s].next + 1
          BY <2>10
        <5> HIDE DEF IsRead
        <5> QED
          BY <2>3, <3>3, <4>2, <5>1, <5>2, OrderedRead
      <4> QED
        BY <2>13, <4>1, <4>3, Zenon
    <3>7. \A d \in Chans \ {c} : Ordered(Line(st.c[d]), s, Len(x.got) + 1, Until(x, d))
      <4> TAKE d \in Chans \ {c}
      <4>1. Until(x, d) = Until(st.s[s], d)
        BY <2>3, <2>13 DEF Until
      <4> QED
        BY <2>13, <3>1, <4>1, Zenon
    <3> QED
      BY <1>1, <2>3, <2>9, <2>12, <2>13, <3>2, <3>4, <3>6, <3>7, ChangedTiled
  <2>15. Counted(nw)
    <3>1. /\ st.c[c].requested \in Int /\ st.c[c].responded \in Int
      BY <1>1, Fields
    <3>2. k.requested - k.responded = (st.c[c].requested - st.c[c].responded) + 1
      BY <2>11, <2>12, <3>1
    <3> QED
      BY <1>1, <2>3, <2>9, <2>12, <2>13, <3>2, CountedStep
  <2>16. Owned(nw)
    BY <1>1, <2>3, <2>9, <2>11, <2>12, <2>13, OwnedSame
  <2>17. Pooled(nw)
    <3>1. Held(x) <= Held(st.s[s])
      BY <1>1, <2>3, <2>13, Fields DEF Held
    <3> QED
      BY <1>1, <2>3, <2>9, <2>12, <2>13, <3>1, PooledFewer
  <2>18. nw \in State /\ (\A t \in Segs : Buffered(nw.s[t])) /\ Room(nw)
    <3>1. Buffered(x)
      BY <1>1, <2>3, <2>13 DEF Buffered
    <3>2. (\A t \in Segs \ {s} : st.s[t].buffer < BufferSize) /\ x.buffer < BufferSize
      BY <1>1, <2>3, <2>13 DEF Room
    <3> QED
      BY <1>1, <2>3, <2>9, <2>12, <2>13, <3>1, <3>2, GoodParts
  <2>19. Good(nw)
    BY <2>14, <2>15, <2>16, <2>17, <2>18 DEF Good, Base
  <2> QED
    BY <2>4, <2>19, Zenon
<1> QED
  BY <1>2, <1>3

\* request_segments
LEMMA RequestSegmentsGood ==
  ASSUME NEW st, Good(st), NEW c \in Chans, NEW congested
  PROVE  Good(RequestSegments(st, c, congested))
<1>1. Good(Request(st, c, congested))
  BY RequestGood
<1> DEFINE Seconds == {Request(first, c, congested) : first \in {Request(st, c, congested)}}
<1>2. Request(Request(st, c, congested), c, congested) \in Seconds
  BY Zenon
<1>3. RequestSegments(st, c, congested) = CHOOSE second \in Seconds : TRUE
  BY Zenon DEF RequestSegments
<1>4. RequestSegments(st, c, congested) \in Seconds
  BY <1>2, <1>3, Zenon
<1>5. RequestSegments(st, c, congested) = Request(Request(st, c, congested), c, congested)
  BY <1>4, Zenon
<1>6. Good(Request(Request(st, c, congested), c, congested))
  BY <1>1, RequestGood
<1> QED
  BY <1>5, <1>6, Zenon

-----------------------------------------------------------------------------
(* Buffers.                                                                *)

\* A step that only changes a segment changes some channel into itself.
LEMMA SegmentOnly ==
  ASSUME NEW st \in State, NEW s \in Segs, NEW x \in SegmentState, NEW nw,
         nw = [c |-> st.c, s |-> [st.s EXCEPT ![s] = x]], NEW c \in Chans
  PROVE  Changed(st, nw, c, st.c[c], s, x) /\ st.c[c] \in ChannelState
<1>1. st.c \in [Chans -> ChannelState]
  BY DEF State
<1>2. [st.c EXCEPT ![c] = st.c[c]] = st.c
  BY <1>1
<1>3. st.c[c] \in ChannelState
  BY <1>1
<1>4. Changed(st, nw, c, st.c[c], s, x)
  BY <1>2, Zenon DEF Changed
<1> QED
  BY <1>3, <1>4

\* A step that requests and receives nothing keeps the order and the counters.
LEMMA KeepRequests ==
  ASSUME NEW st \in State, NEW c \in Chans, NEW k \in ChannelState, NEW s \in Segs, NEW x \in SegmentState,
         NEW nw, Changed(st, nw, c, k, s, x), Tiled(st), Counted(st),
         Line(k) = Line(st.c[c]), k.requested = st.c[c].requested, k.responded = st.c[c].responded,
         SameRequests(st.s[s], x)
  PROVE  Tiled(nw) /\ Counted(nw)
<1>1. /\ x.conn = st.s[s].conn /\ x.next = st.s[s].next
      /\ x.outstanding = st.s[s].outstanding /\ x.got = st.s[s].got
  BY DEF SameRequests
<1>2. Counted(nw)
  BY <1>1, CountedSame
<1>3. Received(x)
  <2>1. Received(st.s[s])
    BY DEF Tiled
  <2> QED
    BY <1>1, <2>1 DEF Received
<1>4. \A d \in Chans : Ordered(Line(st.c[d]), s, Len(x.got) + 1, Until(x, d))
  <2> TAKE d \in Chans
  <2>1. Ordered(Line(st.c[d]), s, Len(st.s[s].got) + 1, Until(st.s[s], d))
    BY DEF Tiled
  <2>2. Until(x, d) = Until(st.s[s], d)
    BY <1>1 DEF Until
  <2> QED
    BY <1>1, <2>1, <2>2, Zenon
<1>5. \A t \in Segs \ {s} : \A lo, hi \in Int :
         Ordered(Line(st.c[c]), t, lo, hi) => Ordered(Line(k), t, lo, hi)
  BY Zenon
<1>6. Ordered(Line(k), s, Len(x.got) + 1, Until(x, c))
  <2>1. Ordered(Line(st.c[c]), s, Len(x.got) + 1, Until(x, c))
    BY <1>4
  <2> QED
    BY <2>1, Zenon
<1>7. Tiled(nw)
  BY <1>3, <1>4, <1>5, <1>6, ChangedTiled
<1> QED
  BY <1>2, <1>7

\* A buffer with data goes to the writer, and an empty one back to the pool.
LEMMA HandOverFacts ==
  ASSUME NEW st \in State, Pooled(st), NEW s \in Segs
  PROVE  \E x \in SegmentState :
           /\ HandOver(st, s) = [c |-> st.c, s |-> [st.s EXCEPT ![s] = x]]
           /\ SameRequests(st.s[s], x) /\ SameRest(st.s[s], x)
           /\ x.buffer = NoBuffer /\ x.waits = st.s[s].waits
           /\ HandOver(st, s) \in State /\ Pooled(HandOver(st, s))
<1>1. PICK y : y = st.s[s]
  OBVIOUS
<1>2. y \in SegmentState /\ y.buffer \in NoBuffer..BufferSize /\ y.writing \in 0..Pool
  BY <1>1, Fields
<1>3. st = [c |-> st.c, s |-> st.s] /\ st.s \in [Segs -> SegmentState] /\ NoBuffer \in NoBuffer..BufferSize
  BY SizeAssumption DEF State, NoBuffer
<1>4. PICK x \in SegmentState :
        /\ HandOver(st, s) = [c |-> st.c, s |-> [st.s EXCEPT ![s] = x]]
        /\ SameRequests(y, x) /\ SameRest(y, x)
        /\ x.buffer = NoBuffer /\ x.waits = y.waits /\ Held(x) <= Held(y)
  <2>1. CASE st.s[s].buffer > 0
    <3>1. PICK z : z = [y EXCEPT !.buffer = NoBuffer]
      OBVIOUS
    <3>2. PICK x : x = [z EXCEPT !.writing = y.writing + 1]
      OBVIOUS
    <3>3. y.writing + 1 \in 0..Pool
      <4>1. Held(y) <= Pool
        BY <1>1, PooledBound
      <4>2. y.buffer # NoBuffer
        BY <1>1, <1>2, <2>1 DEF NoBuffer
      <4> QED
        BY <1>2, <4>1, <4>2, SizeAssumption DEF Held
    <3>4. x \in SegmentState
      BY <1>2, <1>3, <3>1, <3>2, <3>3 DEF SegmentState
    <3>5. /\ x.conn = y.conn /\ x.next = y.next /\ x.outstanding = y.outstanding /\ x.got = y.got
          /\ x.handle = y.handle /\ x.opened = y.opened /\ x.stall = y.stall /\ x.phase = y.phase
          /\ x.waits = y.waits /\ x.buffer = NoBuffer /\ x.writing = y.writing + 1
      BY <1>2, <3>1, <3>2 DEF SegmentState
    <3>6. HandOver(st, s) = [[st EXCEPT !.s[s].buffer = NoBuffer] EXCEPT !.s[s].writing = st.s[s].writing + 1]
      <4>1. HandOver(st, s) = [st EXCEPT !.s[s].buffer = NoBuffer, !.s[s].writing = @ + 1]
        BY <2>1, Zenon DEF HandOver
      <4>2. [st EXCEPT !.s[s].buffer = NoBuffer].s[s].writing = st.s[s].writing
        BY <1>3
      <4> QED
        BY <4>1, <4>2, Zenon
    <3>7. [st EXCEPT !.s[s].buffer = NoBuffer] = [c |-> st.c, s |-> [st.s EXCEPT ![s] = z]]
      BY <1>1, <1>3, <3>1
    <3>8. [[c |-> st.c, s |-> [st.s EXCEPT ![s] = z]] EXCEPT !.s[s].writing = st.s[s].writing + 1]
            = [c |-> st.c, s |-> [st.s EXCEPT ![s] = x]]
      BY <1>1, <1>3, <3>2
    <3>9. HandOver(st, s) = [c |-> st.c, s |-> [st.s EXCEPT ![s] = x]]
      BY <3>6, <3>7, <3>8, Zenon
    <3>10. Held(x) <= Held(y)
      BY <1>1, <1>2, <2>1, <3>5 DEF Held, NoBuffer
    <3> QED
      BY <3>4, <3>5, <3>9, <3>10 DEF SameRequests, SameRest
  <2>2. CASE ~(st.s[s].buffer > 0)
    <3>1. PICK x : x = [y EXCEPT !.buffer = NoBuffer]
      OBVIOUS
    <3>2. x \in SegmentState
      BY <1>2, <1>3, <3>1 DEF SegmentState
    <3>3. /\ x.conn = y.conn /\ x.next = y.next /\ x.outstanding = y.outstanding /\ x.got = y.got
          /\ x.handle = y.handle /\ x.opened = y.opened /\ x.stall = y.stall /\ x.phase = y.phase
          /\ x.waits = y.waits /\ x.buffer = NoBuffer /\ x.writing = y.writing
      BY <1>2, <3>1 DEF SegmentState
    <3>4. HandOver(st, s) = [st EXCEPT !.s[s].buffer = NoBuffer]
      BY <2>2, Zenon DEF HandOver
    <3>5. [st EXCEPT !.s[s].buffer = NoBuffer] = [c |-> st.c, s |-> [st.s EXCEPT ![s] = x]]
      BY <1>1, <1>3, <3>1
    <3>6. Held(x) <= Held(y)
      BY <1>2, <3>3 DEF Held, NoBuffer
    <3> QED
      BY <3>2, <3>3, <3>4, <3>5, <3>6 DEF SameRequests, SameRest
  <2> QED
    BY <2>1, <2>2
<1>5. PICK c \in Chans : TRUE
  BY SizeAssumption DEF Chans
<1>6. Changed(st, HandOver(st, s), c, st.c[c], s, x) /\ st.c[c] \in ChannelState
  BY <1>4, SegmentOnly
<1>7. HandOver(st, s) \in State
  BY <1>6, ChangedFacts
<1>8. Held(x) <= Held(st.s[s])
  BY <1>1, <1>4
<1>9. Pooled(HandOver(st, s))
  BY <1>6, <1>8, PooledFewer
<1> QED
  BY <1>1, <1>4, <1>7, <1>9, Zenon

\* get_next_segment_buffer: there is a new buffer, or the segment waits.
LEMMA GetNextBufferFacts ==
  ASSUME NEW st \in State, Pooled(st), NEW s \in Segs
  PROVE  \E x \in SegmentState :
           /\ GetNextBuffer(st, s) = [c |-> st.c, s |-> [st.s EXCEPT ![s] = x]]
           /\ SameRequests(st.s[s], x) /\ SameRest(st.s[s], x)
           /\ x.buffer = IF x.waits = "no" THEN 0 ELSE NoBuffer
           /\ GetNextBuffer(st, s) \in State /\ Pooled(GetNextBuffer(st, s))
<1>1. PICK h : h = HandOver(st, s)
  OBVIOUS
<1>2. PICK y \in SegmentState :
        /\ h = [c |-> st.c, s |-> [st.s EXCEPT ![s] = y]]
        /\ SameRequests(st.s[s], y) /\ SameRest(st.s[s], y)
        /\ y.buffer = NoBuffer /\ y.waits = st.s[s].waits
        /\ h \in State /\ Pooled(h)
  <2>1. \E y \in SegmentState :
           /\ HandOver(st, s) = [c |-> st.c, s |-> [st.s EXCEPT ![s] = y]]
           /\ SameRequests(st.s[s], y) /\ SameRest(st.s[s], y)
           /\ y.buffer = NoBuffer /\ y.waits = st.s[s].waits
           /\ HandOver(st, s) \in State /\ Pooled(HandOver(st, s))
    BY HandOverFacts
  <2> QED
    BY <1>1, <2>1, Zenon
<1>3. st.s \in [Segs -> SegmentState] /\ 0 \in NoBuffer..BufferSize
  BY SizeAssumption DEF State, NoBuffer
<1>4. PICK b \in BOOLEAN : b = (st.s[s].buffer > 0 /\ h.s[s].writing >= Pool)
  OBVIOUS
<1>5. PICK i \in Int : i = Free(h)
  BY <1>2, FreeCells
<1>6. GetNextBuffer(st, s) = IF b THEN [h EXCEPT !.s[s].waits = "writer"]
                             ELSE IF i = 0 THEN [h EXCEPT !.s[s].waits = "pool"]
                             ELSE [h EXCEPT !.s[s].waits = "no", !.s[s].buffer = 0]
  BY <1>1, <1>4, <1>5, Zenon DEF GetNextBuffer
<1>7. PICK c \in Chans : TRUE
  BY SizeAssumption DEF Chans
<1>8. h.s[s] = y /\ h.s = [st.s EXCEPT ![s] = y] /\ h.c = st.c
  BY <1>2, <1>3
<1>9. ASSUME NEW w \in {"writer", "pool"}, GetNextBuffer(st, s) = [h EXCEPT !.s[s].waits = w]
      PROVE  \E x \in SegmentState :
               /\ GetNextBuffer(st, s) = [c |-> st.c, s |-> [st.s EXCEPT ![s] = x]]
               /\ SameRequests(st.s[s], x) /\ SameRest(st.s[s], x)
               /\ x.buffer = IF x.waits = "no" THEN 0 ELSE NoBuffer
               /\ GetNextBuffer(st, s) \in State /\ Pooled(GetNextBuffer(st, s))
  <2>1. PICK x : x = [y EXCEPT !.waits = w]
    OBVIOUS
  <2>2. x \in SegmentState
    BY <1>2, <1>9, <2>1 DEF SegmentState
  <2>3. /\ x.conn = y.conn /\ x.next = y.next /\ x.outstanding = y.outstanding /\ x.got = y.got
        /\ x.handle = y.handle /\ x.opened = y.opened /\ x.stall = y.stall /\ x.phase = y.phase
        /\ x.waits = w /\ x.buffer = y.buffer /\ x.writing = y.writing
    BY <1>2, <2>1 DEF SegmentState
  <2>4. [[c |-> st.c, s |-> [st.s EXCEPT ![s] = y]] EXCEPT !.s[s].waits = w]
          = [c |-> st.c, s |-> [st.s EXCEPT ![s] = x]]
    BY <1>3, <2>1
  <2>5. GetNextBuffer(st, s) = [c |-> st.c, s |-> [st.s EXCEPT ![s] = x]]
    BY <1>2, <1>9, <2>4, Zenon
  <2>6. SameRequests(st.s[s], x) /\ SameRest(st.s[s], x)
    BY <1>2, <2>3 DEF SameRequests, SameRest
  <2>7. x.buffer = IF x.waits = "no" THEN 0 ELSE NoBuffer
    BY <1>2, <1>9, <2>3
  <2>8. [st.s EXCEPT ![s] = x] = [h.s EXCEPT ![s] = x]
    BY <1>3, <1>8
  <2>9. GetNextBuffer(st, s) = [c |-> h.c, s |-> [h.s EXCEPT ![s] = x]]
    BY <1>8, <2>5, <2>8, Zenon
  <2>10. Changed(h, GetNextBuffer(st, s), c, h.c[c], s, x) /\ h.c[c] \in ChannelState
    BY <1>2, <2>2, <2>9, SegmentOnly
  <2>11. GetNextBuffer(st, s) \in State
    BY <1>2, <2>2, <2>10, ChangedFacts
  <2>12. Held(x) <= Held(h.s[s])
    <3>1. y.writing \in Int
      BY <1>2 DEF SegmentState
    <3> QED
      BY <1>8, <2>3, <3>1 DEF Held
  <2>13. Pooled(GetNextBuffer(st, s))
    BY <1>2, <2>2, <2>10, <2>12, PooledFewer
  <2> QED
    BY <2>2, <2>5, <2>6, <2>7, <2>11, <2>13
<1>10. ASSUME GetNextBuffer(st, s) = [h EXCEPT !.s[s].waits = "no", !.s[s].buffer = 0], i # 0
       PROVE  \E x \in SegmentState :
                /\ GetNextBuffer(st, s) = [c |-> st.c, s |-> [st.s EXCEPT ![s] = x]]
                /\ SameRequests(st.s[s], x) /\ SameRest(st.s[s], x)
                /\ x.buffer = IF x.waits = "no" THEN 0 ELSE NoBuffer
                /\ GetNextBuffer(st, s) \in State /\ Pooled(GetNextBuffer(st, s))
  <2>1. PICK z : z = [y EXCEPT !.waits = "no"]
    OBVIOUS
  <2>2. PICK x : x = [z EXCEPT !.buffer = 0]
    OBVIOUS
  <2>3. x \in SegmentState
    BY <1>2, <1>3, <2>1, <2>2 DEF SegmentState
  <2>4. /\ x.conn = y.conn /\ x.next = y.next /\ x.outstanding = y.outstanding /\ x.got = y.got
        /\ x.handle = y.handle /\ x.opened = y.opened /\ x.stall = y.stall /\ x.phase = y.phase
        /\ x.waits = "no" /\ x.buffer = 0 /\ x.writing = y.writing
    BY <1>2, <2>1, <2>2 DEF SegmentState
  <2>5. [[c |-> st.c, s |-> [st.s EXCEPT ![s] = y]] EXCEPT !.s[s].waits = "no"]
          = [c |-> st.c, s |-> [st.s EXCEPT ![s] = z]]
    BY <1>3, <2>1
  <2>6. [[c |-> st.c, s |-> [st.s EXCEPT ![s] = z]] EXCEPT !.s[s].buffer = 0]
          = [c |-> st.c, s |-> [st.s EXCEPT ![s] = x]]
    BY <1>3, <2>2
  <2>7. GetNextBuffer(st, s) = [c |-> st.c, s |-> [st.s EXCEPT ![s] = x]]
    <3>1. GetNextBuffer(st, s) = [[h EXCEPT !.s[s].waits = "no"] EXCEPT !.s[s].buffer = 0]
      BY <1>10, Zenon
    <3>2. [h EXCEPT !.s[s].waits = "no"] = [c |-> st.c, s |-> [st.s EXCEPT ![s] = z]]
      BY <1>2, <2>5, Zenon
    <3> QED
      BY <2>6, <3>1, <3>2, Zenon
  <2>8. SameRequests(st.s[s], x) /\ SameRest(st.s[s], x)
    BY <1>2, <2>4 DEF SameRequests, SameRest
  <2>9. [st.s EXCEPT ![s] = x] = [h.s EXCEPT ![s] = x]
    BY <1>3, <1>8
  <2>10. GetNextBuffer(st, s) = [c |-> h.c, s |-> [h.s EXCEPT ![s] = x]]
    BY <1>8, <2>7, <2>9, Zenon
  <2>11. Changed(h, GetNextBuffer(st, s), c, h.c[c], s, x) /\ h.c[c] \in ChannelState
    BY <1>2, <2>3, <2>10, SegmentOnly
  <2>12. GetNextBuffer(st, s) \in State
    BY <1>2, <2>3, <2>11, ChangedFacts
  <2>13. Held(x) = Held(h.s[s]) + 1
    <3>1. y.writing \in Int
      BY <1>2 DEF SegmentState
    <3> QED
      BY <1>2, <1>8, <2>4, <3>1 DEF Held, NoBuffer
  <2>14. Free(h) > 0
    <3>1. Free(h) \in Nat /\ Free(h) # 0
      BY <1>2, <1>5, <1>10, FreeCells
    <3> QED
      BY <3>1
  <2>15. Pooled(GetNextBuffer(st, s))
    BY <1>2, <2>3, <2>11, <2>13, <2>14, PooledMore
  <2>16. x.buffer = IF x.waits = "no" THEN 0 ELSE NoBuffer
    BY <2>4
  <2> QED
    BY <2>3, <2>7, <2>8, <2>12, <2>15, <2>16
<1>11. CASE b
  BY <1>6, <1>9, <1>11, Zenon
<1>12. CASE ~b /\ i = 0
  BY <1>6, <1>9, <1>12, Zenon
<1>13. CASE ~b /\ i # 0
  BY <1>6, <1>10, <1>13, Zenon
<1> QED
  BY <1>11, <1>12, <1>13

\* What holds while a handler works on s, and what it has to restore.
LEMMA NearlyGood ==
  ASSUME NEW st, NEW s \in Segs
  PROVE  /\ Good(st) => Nearly(st, s) /\ Buffered(st.s[s]) /\ st.s[s].buffer < BufferSize
         /\ Nearly(st, s) /\ Buffered(st.s[s]) /\ st.s[s].buffer < BufferSize => Good(st)
<1> HIDE DEF Buffered
<1> QED
  BY DEF Good, Base, Nearly, Room

\* A segment's step that is well done in all respects.
LEMMA NearlyChanged ==
  ASSUME NEW st, NEW c \in Chans, NEW k \in ChannelState, NEW s \in Segs, NEW x \in SegmentState,
         NEW nw, Changed(st, nw, c, k, s, x), Nearly(st, s),
         Tiled(nw), Counted(nw), Owned(nw), Pooled(nw)
  PROVE  /\ Nearly(nw, s)
         /\ Buffered(x) /\ x.buffer < BufferSize => Good(nw)
<1>1. st \in State
  BY DEF Nearly
<1>2. /\ nw.s[s] = x /\ \A t \in Segs \ {s} : nw.s[t] = st.s[t]
      /\ nw \in State
  BY <1>1, ChangedFacts
<1>3. ASSUME NEW t \in Segs \ {s} PROVE Buffered(nw.s[t]) /\ nw.s[t].buffer < BufferSize
  <2>1. nw.s[t] = st.s[t]
    BY <1>2
  <2>2. Buffered(st.s[t]) /\ st.s[t].buffer < BufferSize
    BY Zenon DEF Nearly
  <2> QED
    BY <2>1, <2>2, Zenon
<1>4. Nearly(nw, s)
  BY <1>2, <1>3, Zenon DEF Nearly
<1>5. ASSUME Buffered(x), x.buffer < BufferSize PROVE Good(nw)
  <2>1. Buffered(nw.s[s]) /\ nw.s[s].buffer < BufferSize
    BY <1>2, <1>5, Zenon
  <2> QED
    BY <1>4, <2>1, NearlyGood
<1> QED
  BY <1>4, <1>5

\* After get_next_segment_buffer.
LEMMA Refilled ==
  ASSUME NEW st, NEW s \in Segs, Nearly(st, s), NEW got, got = GetNextBuffer(st, s)
  PROVE  /\ Nearly(got, s) /\ got.c = st.c
         /\ SameRequests(st.s[s], got.s[s]) /\ SameRest(st.s[s], got.s[s])
         /\ got.s[s].buffer = IF got.s[s].waits = "no" THEN 0 ELSE NoBuffer
<1>1. st \in State /\ Tiled(st) /\ Counted(st) /\ Owned(st) /\ Pooled(st)
  BY DEF Nearly
<1>2. PICK x \in SegmentState :
           /\ got = [c |-> st.c, s |-> [st.s EXCEPT ![s] = x]]
           /\ SameRequests(st.s[s], x) /\ SameRest(st.s[s], x)
           /\ x.buffer = IF x.waits = "no" THEN 0 ELSE NoBuffer
           /\ got \in State /\ Pooled(got)
  <2>1. \E x \in SegmentState :
           /\ GetNextBuffer(st, s) = [c |-> st.c, s |-> [st.s EXCEPT ![s] = x]]
           /\ SameRequests(st.s[s], x) /\ SameRest(st.s[s], x)
           /\ x.buffer = IF x.waits = "no" THEN 0 ELSE NoBuffer
           /\ GetNextBuffer(st, s) \in State /\ Pooled(GetNextBuffer(st, s))
    BY <1>1, GetNextBufferFacts
  <2> QED
    BY <2>1, Zenon
<1>3. PICK c \in Chans : TRUE
  BY SizeAssumption DEF Chans
<1>4. Changed(st, got, c, st.c[c], s, x) /\ st.c[c] \in ChannelState
  <2>1. got = [c |-> st.c, s |-> [st.s EXCEPT ![s] = x]]
    BY <1>2
  <2> QED
    BY <1>1, <2>1, SegmentOnly
<1>5. got.s[s] = x /\ got.c = st.c
  <2>1. st.s \in [Segs -> SegmentState]
    BY <1>1 DEF State
  <2> QED
    BY <1>2, <2>1
<1>6. Tiled(got) /\ Counted(got)
  <2>1. SameRequests(st.s[s], x)
    BY <1>2
  <2> QED
    BY <1>1, <1>4, <2>1, KeepRequests
<1>7. Owned(got)
  <2>1. x.stall = st.s[s].stall
    BY <1>2 DEF SameRest
  <2> QED
    BY <1>1, <1>4, <2>1, OwnedSame
<1>8. Nearly(got, s)
  <2>1. Pooled(got)
    BY <1>2
  <2> QED
    BY <1>4, <1>6, <1>7, <2>1, NearlyChanged
<1> QED
  BY <1>2, <1>5, <1>8, Zenon

\* Blocking or unblocking a channel of a pair.
LEMMA PutBlocked ==
  ASSUME NEW C, NEW S, NEW c, NEW b
  PROVE  [[c |-> C, s |-> S] EXCEPT !.c[c].blocked = b]
           = [c |-> [C EXCEPT ![c] = [C[c] EXCEPT !.blocked = b]], s |-> S]
OBVIOUS

\* A handler that needs a buffer: it gets one, or its channel waits.
LEMMA BufferThenRequestGood ==
  ASSUME NEW st, NEW s \in Segs, Nearly(st, s), NEW c \in Chans, NEW congested,
         st.s[s].stall = NoChannel, st.s[s].opened, ~st.c[c].blocked,
         st.s[s].outstanding > 0 => c = st.s[s].conn
  PROVE  Good(BufferThenRequest(st, s, c, congested))
<1>1. PICK got : got = GetNextBuffer(st, s)
  OBVIOUS
<1>2. /\ Nearly(got, s) /\ got.c = st.c
      /\ SameRequests(st.s[s], got.s[s]) /\ SameRest(st.s[s], got.s[s])
      /\ got.s[s].buffer = IF got.s[s].waits = "no" THEN 0 ELSE NoBuffer
  BY <1>1, Refilled
<1>3. PICK x : x = got.s[s]
  OBVIOUS
<1>4. got \in State /\ Tiled(got) /\ Counted(got) /\ Owned(got) /\ Pooled(got)
  BY <1>2 DEF Nearly
<1>5. /\ x \in SegmentState /\ x.stall = NoChannel /\ x.opened
      /\ x.outstanding = st.s[s].outstanding /\ x.conn = st.s[s].conn
      /\ x.buffer = IF x.waits = "no" THEN 0 ELSE NoBuffer
  <2>1. got.s[s] \in SegmentState
    BY <1>4, Fields
  <2> QED
    BY <1>2, <1>3, <2>1 DEF SameRequests, SameRest
<1>6. CASE x.waits = "no"
  <2>1. BufferThenRequest(st, s, c, congested) = RequestSegments(got, st.s[s].conn, congested)
    BY <1>1, <1>3, <1>6, Zenon DEF BufferThenRequest
  <2>2. Buffered(x) /\ x.buffer < BufferSize
    BY <1>5, <1>6, SizeAssumption DEF Buffered, NoBuffer
  <2>3. Good(got)
    BY <1>2, <1>3, <2>2, NearlyGood
  <2>4. st.s[s].conn \in Chans
    BY Fields DEF Nearly
  <2>5. Good(RequestSegments(got, st.s[s].conn, congested))
    BY <2>3, <2>4, RequestSegmentsGood
  <2> QED
    BY <2>1, <2>5, Zenon
<1>7. CASE x.waits # "no"
  <2>1. BufferThenRequest(st, s, c, congested) = [got EXCEPT !.s[s].stall = c, !.c[c].blocked = TRUE]
    BY <1>1, <1>3, <1>7, Zenon DEF BufferThenRequest
  <2>2. PICK nw : nw = BufferThenRequest(st, s, c, congested)
    OBVIOUS
  <2>3. PICK y : y = [x EXCEPT !.stall = c]
    OBVIOUS
  <2>4. PICK k : k = [st.c[c] EXCEPT !.blocked = TRUE]
    OBVIOUS
  <2>5. PICK S : S = got.s
    OBVIOUS
  <2>6. S \in [Segs -> SegmentState] /\ st.c \in [Chans -> ChannelState] /\ S[s] = x
        /\ got = [c |-> st.c, s |-> S]
    BY <1>2, <1>3, <1>4, <2>5 DEF State
  <2>7. [got EXCEPT !.s[s].stall = c] = [c |-> st.c, s |-> [S EXCEPT ![s] = y]]
    BY <2>3, <2>6
  <2>8. [[c |-> st.c, s |-> [S EXCEPT ![s] = y]] EXCEPT !.c[c].blocked = TRUE]
          = [c |-> [st.c EXCEPT ![c] = k], s |-> [S EXCEPT ![s] = y]]
    <3>1. PICK b : b = TRUE
      OBVIOUS
    <3>2. [[c |-> st.c, s |-> [S EXCEPT ![s] = y]] EXCEPT !.c[c].blocked = b]
            = [c |-> [st.c EXCEPT ![c] = [st.c[c] EXCEPT !.blocked = b]], s |-> [S EXCEPT ![s] = y]]
      BY PutBlocked
    <3> QED
      BY <2>4, <3>1, <3>2, Zenon
  <2>9. nw = [c |-> [st.c EXCEPT ![c] = k], s |-> [S EXCEPT ![s] = y]]
    <3>1. nw = [[got EXCEPT !.s[s].stall = c] EXCEPT !.c[c].blocked = TRUE]
      BY <2>1, <2>2, Zenon
    <3> QED
      BY <2>7, <2>8, <3>1, Zenon
  <2>10. Changed(got, nw, c, k, s, y)
    BY <1>2, <2>5, <2>9, Zenon DEF Changed
  <2>11. /\ k \in ChannelState /\ k.blocked /\ Line(k) = Line(st.c[c])
         /\ k.requested = st.c[c].requested /\ k.responded = st.c[c].responded
    <3>1. st.c[c] \in ChannelState
      BY <2>6
    <3>2. k \in ChannelState /\ k.blocked /\ k.sent = st.c[c].sent /\ k.out = st.c[c].out
         /\ k.requested = st.c[c].requested /\ k.responded = st.c[c].responded
      BY <2>4, <3>1 DEF ChannelState
    <3> QED
      BY <3>2, Zenon DEF Line
  <2>12. /\ y \in SegmentState /\ y.stall = c /\ y.waits = x.waits /\ y.buffer = NoBuffer
         /\ y.opened = x.opened /\ y.conn = x.conn /\ y.outstanding = x.outstanding
         /\ y.next = x.next /\ y.got = x.got /\ y.writing = x.writing
    BY <1>5, <1>7, <2>3 DEF SegmentState
  <2>13. Tiled(nw) /\ Counted(nw)
    <3>1. SameRequests(x, y)
      BY <2>12 DEF SameRequests
    <3> QED
      BY <1>2, <1>3, <1>4, <2>10, <2>11, <2>12, <3>1, KeepRequests
  <2>14. Owned(nw)
    <3>1. ~got.c[c].blocked /\ got.s[s].stall = NoChannel
      BY <1>2, <1>3, <1>5
    <3> QED
      BY <1>4, <2>10, <2>11, <2>12, <3>1, OwnedStall
  <2>15. Pooled(nw)
    <3>1. Held(y) <= Held(got.s[s])
      <4>1. x.writing \in Int
        BY <1>5 DEF SegmentState
      <4> QED
        BY <1>3, <1>5, <1>7, <2>12, <4>1 DEF Held
    <3> QED
      BY <1>4, <2>10, <2>11, <2>12, <3>1, PooledFewer
  <2>16. Buffered(y) /\ y.buffer < BufferSize
    <3>1. c # NoChannel
      BY DEF Chans, NoChannel
    <3> QED
      BY <1>5, <1>7, <2>12, <3>1, SizeAssumption DEF Buffered, NoBuffer
  <2>17. Good(nw)
    BY <1>2, <2>10, <2>11, <2>12, <2>13, <2>14, <2>15, <2>16, NearlyChanged
  <2> QED
    BY <2>2, <2>17, Zenon
<1> QED
  BY <1>6, <1>7

\* The channel that s stalls, if any, goes on once s has a buffer.
LEMMA UnstallGood ==
  ASSUME NEW st, NEW s \in Segs, Nearly(st, s),
         st.s[s].opened, st.s[s].waits = "no", st.s[s].buffer = 0
  PROVE  Good(Unstall(st, s))
<1>1. st \in State /\ Tiled(st) /\ Counted(st) /\ Owned(st) /\ Pooled(st)
  BY DEF Nearly
<1>2. CASE st.s[s].stall = NoChannel
  <2>1. Unstall(st, s) = st
    BY <1>2, Zenon DEF Unstall
  <2>2. Buffered(st.s[s]) /\ st.s[s].buffer < BufferSize
    BY <1>2, SizeAssumption DEF Buffered, NoBuffer
  <2>3. Good(st)
    BY <2>2, NearlyGood
  <2> QED
    BY <2>1, <2>3, Zenon
<1>3. CASE st.s[s].stall # NoChannel
  <2>1. PICK c \in Chans : c = st.s[s].stall
    BY <1>1, <1>3, Fields
  <2>2. PICK nw : nw = Unstall(st, s)
    OBVIOUS
  <2>3. PICK x : x = st.s[s]
    OBVIOUS
  <2>4. PICK y : y = [x EXCEPT !.stall = NoChannel]
    OBVIOUS
  <2>5. PICK k : k = [st.c[c] EXCEPT !.blocked = FALSE]
    OBVIOUS
  <2>6. /\ st.s \in [Segs -> SegmentState] /\ st.c \in [Chans -> ChannelState]
        /\ st = [c |-> st.c, s |-> st.s]
    BY <1>1 DEF State
  <2>7. nw = [[st EXCEPT !.c[c].blocked = FALSE] EXCEPT !.s[s].stall = NoChannel]
    <3>1. Unstall(st, s) = [st EXCEPT !.c[st.s[s].stall].blocked = FALSE, !.s[s].stall = NoChannel]
      BY <1>3, Zenon DEF Unstall
    <3> QED
      BY <2>1, <2>2, <3>1, Zenon
  <2>8. [st EXCEPT !.c[c].blocked = FALSE] = [c |-> [st.c EXCEPT ![c] = k], s |-> st.s]
    <3>1. PICK b : b = FALSE
      OBVIOUS
    <3>2. [[c |-> st.c, s |-> st.s] EXCEPT !.c[c].blocked = b]
            = [c |-> [st.c EXCEPT ![c] = [st.c[c] EXCEPT !.blocked = b]], s |-> st.s]
      BY PutBlocked
    <3> QED
      BY <2>5, <2>6, <3>1, <3>2, Zenon
  <2>9. [[c |-> [st.c EXCEPT ![c] = k], s |-> st.s] EXCEPT !.s[s].stall = NoChannel]
          = [c |-> [st.c EXCEPT ![c] = k], s |-> [st.s EXCEPT ![s] = y]]
    BY <2>3, <2>4, <2>6
  <2>10. Changed(st, nw, c, k, s, y)
    <3>1. nw = [c |-> [st.c EXCEPT ![c] = k], s |-> [st.s EXCEPT ![s] = y]]
      BY <2>7, <2>8, <2>9, Zenon
    <3> QED
      BY <3>1, Zenon DEF Changed
  <2>11. /\ k \in ChannelState /\ ~k.blocked /\ Line(k) = Line(st.c[c])
         /\ k.requested = st.c[c].requested /\ k.responded = st.c[c].responded
    <3>1. st.c[c] \in ChannelState
      BY <2>6
    <3>2. k \in ChannelState /\ ~k.blocked /\ k.sent = st.c[c].sent /\ k.out = st.c[c].out
         /\ k.requested = st.c[c].requested /\ k.responded = st.c[c].responded
      BY <2>5, <3>1 DEF ChannelState
    <3> QED
      BY <3>2, Zenon DEF Line
  <2>12. x \in SegmentState /\ x.opened /\ x.waits = "no" /\ x.buffer = 0
    BY <2>3, <2>6
  <2>13. /\ y \in SegmentState /\ y.stall = NoChannel /\ y.waits = "no" /\ y.buffer = 0
         /\ y.opened /\ y.conn = x.conn /\ y.outstanding = x.outstanding
         /\ y.next = x.next /\ y.got = x.got /\ y.writing = x.writing
    BY <2>4, <2>12 DEF SegmentState
  <2>14. Tiled(nw) /\ Counted(nw)
    <3>1. SameRequests(x, y)
      BY <2>13 DEF SameRequests
    <3> QED
      BY <1>1, <2>3, <2>10, <2>11, <2>13, <3>1, KeepRequests
  <2>15. Owned(nw)
    BY <1>1, <2>1, <2>10, <2>11, <2>13, OwnedUnstall
  <2>16. Pooled(nw)
    <3>1. Held(y) <= Held(st.s[s])
      <4>1. x.writing \in Int
        BY <2>12 DEF SegmentState
      <4> QED
        BY <2>3, <2>12, <2>13, <4>1 DEF Held
    <3> QED
      BY <1>1, <2>10, <2>11, <2>13, <3>1, PooledFewer
  <2>17. Buffered(y) /\ y.buffer < BufferSize
    BY <2>13, SizeAssumption DEF Buffered, NoBuffer
  <2>18. Good(nw)
    BY <2>10, <2>11, <2>13, <2>14, <2>15, <2>16, <2>17, NearlyChanged
  <2> QED
    BY <2>2, <2>18, Zenon
<1> QED
  BY <1>2, <1>3

-----------------------------------------------------------------------------
(* The handlers.                                                           *)

\* A handler's result becomes the state.
LEMMA BecomeGood ==
  ASSUME NEW st, Good(st), Become(st), UNCHANGED backpressure, IInv
  PROVE  IInv'
<1>1. st \in State
  BY DEF Good, Base
<1>2. st = [c |-> st.c, s |-> st.s]
  BY <1>1 DEF State
<1>3. chan' = st.c /\ seg' = st.s
  BY DEF Become
<1>4. Now' = st
  BY <1>2, <1>3, Zenon DEF Now
<1>5. Good(Now')
  BY <1>4, Zenon
<1>6. backpressure' \in BOOLEAN
  BY DEF IInv
<1> QED
  BY <1>5, <1>6, Zenon DEF IInv

\* A step that requests nothing, receives nothing and stalls nobody.
LEMMA KeepGood ==
  ASSUME NEW st, Good(st), NEW c \in Chans, NEW k \in ChannelState, NEW s \in Segs, NEW x \in SegmentState,
         NEW nw, Changed(st, nw, c, k, s, x),
         Line(k) = Line(st.c[c]), k.requested = st.c[c].requested, k.responded = st.c[c].responded,
         k.blocked = st.c[c].blocked,
         SameRequests(st.s[s], x), x.stall = st.s[s].stall, Held(x) <= Held(st.s[s]),
         Buffered(x), x.buffer < BufferSize
  PROVE  Good(nw)
<1>1. st \in State /\ Tiled(st) /\ Counted(st) /\ Owned(st) /\ Pooled(st) /\ Nearly(st, s)
  BY NearlyGood DEF Nearly
<1>2. Tiled(nw) /\ Counted(nw)
  BY <1>1, KeepRequests
<1>3. Owned(nw)
  BY <1>1, OwnedSame
<1>4. Pooled(nw)
  BY <1>1, PooledFewer
<1> QED
  BY <1>1, <1>2, <1>3, <1>4, NearlyChanged

\* Nothing is expected, so it does not matter where from.
LEMMA OrderedNone ==
  ASSUME NEW q, NEW s, NEW lo \in Int, NEW hi \in Int, Ordered(q, s, lo, hi), hi < lo,
         NEW a \in Int, NEW b \in Int, b < a
  PROVE  Ordered(q, s, a, b)
<1>1. \A n \in 1..Len(q) : ~IsRead(q[n], s)
  <2> HIDE DEF IsRead
  <2> QED
    BY DEF Ordered
<1> QED
  BY <1>1 DEF Ordered

\* A reply was taken that is no block of any segment.
LEMMA TailKeeps ==
  ASSUME NEW st \in State, NEW c \in Chans, NEW k \in ChannelState, NEW s \in Segs, NEW x \in SegmentState,
         NEW nw, Changed(st, nw, c, k, s, x), Tiled(st), Counted(st),
         st.c[c].sent # <<>>, \A t \in Segs : ~IsRead(Head(st.c[c].sent), t),
         k.sent = Tail(st.c[c].sent), k.out = st.c[c].out,
         k.requested = st.c[c].requested, k.responded = st.c[c].responded,
         SameRequests(st.s[s], x)
  PROVE  Tiled(nw) /\ Counted(nw)
<1>1. /\ x.conn = st.s[s].conn /\ x.next = st.s[s].next
      /\ x.outstanding = st.s[s].outstanding /\ x.got = st.s[s].got
  BY DEF SameRequests
<1>2. Counted(nw)
  BY <1>1, CountedSame
<1>3. Received(x)
  <2>1. Received(st.s[s])
    BY DEF Tiled
  <2> QED
    BY <1>1, <2>1 DEF Received
<1>4. /\ Line(st.c[c]) \in Seq(Packet) /\ Line(st.c[c]) # <<>>
      /\ Head(Line(st.c[c])) = Head(st.c[c].sent) /\ Line(k) = Tail(Line(st.c[c]))
  <2>1. st.c[c].sent \in Seq(Packet) /\ st.c[c].out \in Seq(Packet)
    BY Fields
  <2>2. /\ st.c[c].sent \o st.c[c].out \in Seq(Packet) /\ st.c[c].sent \o st.c[c].out # <<>>
        /\ Head(st.c[c].sent \o st.c[c].out) = Head(st.c[c].sent)
        /\ Tail(st.c[c].sent) \o st.c[c].out = Tail(st.c[c].sent \o st.c[c].out)
    BY <2>1, LineTail
  <2> QED
    BY <2>2, Zenon DEF Line
<1>5. \A t \in Segs : \A lo, hi \in Int :
         Ordered(Line(st.c[c]), t, lo, hi) => Ordered(Line(k), t, lo, hi)
  <2>1. \A t \in Segs : ~IsRead(Head(Line(st.c[c])), t)
    BY <1>4, Zenon
  <2> HIDE DEF IsRead
  <2> QED
    BY <1>4, <2>1, OrderedTailOther
<1>6. \A d \in Chans : Ordered(Line(st.c[d]), s, Len(x.got) + 1, Until(x, d))
  <2> TAKE d \in Chans
  <2>1. Ordered(Line(st.c[d]), s, Len(st.s[s].got) + 1, Until(st.s[s], d))
    BY DEF Tiled
  <2>2. Until(x, d) = Until(st.s[s], d)
    BY <1>1 DEF Until
  <2> QED
    BY <1>1, <2>1, <2>2, Zenon
<1>7. Ordered(Line(k), s, Len(x.got) + 1, Until(x, c))
  <2>1. Len(x.got) + 1 \in Int /\ Until(x, c) \in Int
    <3>1. Len(st.s[s].got) \in Nat /\ st.s[s].next \in Int
      BY Fields
    <3> QED
      BY <1>1, <3>1 DEF Until
  <2> QED
    BY <1>5, <1>6, <2>1
<1>8. Tiled(nw)
  BY <1>3, <1>5, <1>6, <1>7, ChangedTiled
<1> QED
  BY <1>2, <1>8

\* The state of the module as a pair.
LEMMA NowFacts ==
  ASSUME IInv
  PROVE  /\ Good(Now) /\ Now \in State /\ Now.c = chan /\ Now.s = seg
         /\ chan \in [Chans -> ChannelState] /\ seg \in [Segs -> SegmentState]
<1>1. Good(Now) /\ Now \in State
  BY DEF IInv, Good, Base
<1>2. Now.c = chan /\ Now.s = seg
  BY DEF Now
<1>3. Now.c \in [Chans -> ChannelState] /\ Now.s \in [Segs -> SegmentState]
  BY <1>1 DEF State
<1> QED
  BY <1>1, <1>2, <1>3, Zenon

\* Taking a reply.
LEMMA TakenFacts ==
  ASSUME IInv, NEW c \in Chans, chan[c].sent # <<>>
  PROVE  \E k \in ChannelState :
           /\ Taken(c) = [c |-> [chan EXCEPT ![c] = k], s |-> seg]
           /\ k.sent = Tail(chan[c].sent) /\ k.out = chan[c].out
           /\ k.requested = chan[c].requested /\ k.responded = chan[c].responded
           /\ k.blocked = chan[c].blocked
<1>1. chan \in [Chans -> ChannelState]
  BY NowFacts
<1>2. chan[c].sent \in Seq(Packet) /\ chan[c] \in ChannelState
  BY <1>1 DEF ChannelState
<1>3. Tail(chan[c].sent) \in Seq(Packet)
  BY <1>2, HeadTailProperties
<1>4. PICK k : k = [chan[c] EXCEPT !.sent = Tail(chan[c].sent)]
  OBVIOUS
<1>5. /\ k \in ChannelState /\ k.sent = Tail(chan[c].sent) /\ k.out = chan[c].out
      /\ k.requested = chan[c].requested /\ k.responded = chan[c].responded
      /\ k.blocked = chan[c].blocked
  BY <1>2, <1>3, <1>4 DEF ChannelState
<1>6. Taken(c) = [c |-> [chan EXCEPT ![c] = k], s |-> seg]
  <2>1. [chan EXCEPT ![c].sent = Tail(chan[c].sent)] = [chan EXCEPT ![c] = k]
    BY <1>4
  <2>2. Taken(c) = [c |-> [chan EXCEPT ![c].sent = Tail(chan[c].sent)], s |-> seg]
    BY Zenon DEF Taken
  <2> QED
    BY <2>1, <2>2, Zenon
<1> QED
  BY <1>5, <1>6

\* The reply to a request that was cancelled.
LEMMA DropReplyGood ==
  ASSUME IInv, NEW c \in Chans, DropReply(c), UNCHANGED backpressure
  PROVE  IInv'
<1>1. chan[c].sent # <<>> /\ ~Head(chan[c].sent).live /\ Become(Taken(c))
  BY DEF DropReply
<1>2. PICK k \in ChannelState :
           /\ Taken(c) = [c |-> [chan EXCEPT ![c] = k], s |-> seg]
           /\ k.sent = Tail(chan[c].sent) /\ k.out = chan[c].out
           /\ k.requested = chan[c].requested /\ k.responded = chan[c].responded
           /\ k.blocked = chan[c].blocked
  BY <1>1, TakenFacts
<1>3. PICK st : st = Now
  OBVIOUS
<1>4. /\ Good(st) /\ st \in State /\ st.c = chan /\ st.s = seg
      /\ chan \in [Chans -> ChannelState] /\ seg \in [Segs -> SegmentState]
  BY <1>3, NowFacts
<1>5. PICK s \in Segs : TRUE
  BY SizeAssumption DEF Segs
<1>6. PICK x \in SegmentState : x = seg[s]
  BY <1>4
<1>7. PICK nw : nw = Taken(c)
  OBVIOUS
<1>8. Changed(st, nw, c, k, s, x)
  <2>1. [seg EXCEPT ![s] = x] = seg
    BY <1>4, <1>6
  <2>2. nw = [c |-> [chan EXCEPT ![c] = k], s |-> seg]
    BY <1>2, <1>7, Zenon
  <2>3. nw = [c |-> [st.c EXCEPT ![c] = k], s |-> [st.s EXCEPT ![s] = x]]
    BY <1>4, <2>1, <2>2, Zenon
  <2> QED
    BY <2>3, Zenon DEF Changed
<1>9. Tiled(st) /\ Counted(st) /\ Owned(st) /\ Pooled(st) /\ Nearly(st, s)
  BY <1>4, NearlyGood DEF Nearly
<1>10. Tiled(nw) /\ Counted(nw)
  <2>1. \A t \in Segs : ~IsRead(Head(st.c[c].sent), t)
    BY <1>1, <1>4 DEF IsRead
  <2>2. SameRequests(st.s[s], x)
    BY <1>4, <1>6 DEF SameRequests
  <2>3. /\ st.c[c].sent # <<>> /\ k.sent = Tail(st.c[c].sent) /\ k.out = st.c[c].out
        /\ k.requested = st.c[c].requested /\ k.responded = st.c[c].responded
    BY <1>1, <1>2, <1>4, Zenon
  <2> QED
    BY <1>4, <1>8, <1>9, <2>1, <2>2, <2>3, TailKeeps
<1>11. Owned(nw)
  <2>1. k.blocked = st.c[c].blocked /\ x.stall = st.s[s].stall
    BY <1>2, <1>4, <1>6
  <2> QED
    BY <1>4, <1>8, <1>9, <2>1, OwnedSame
<1>12. Pooled(nw)
  <2>1. Held(x) <= Held(st.s[s])
    <3>1. x.writing \in Int
      BY <1>6 DEF SegmentState
    <3> QED
      BY <1>4, <1>6, <3>1 DEF Held
  <2> QED
    BY <1>4, <1>8, <1>9, <2>1, PooledFewer
<1>13. Buffered(x) /\ x.buffer < BufferSize
  <2>1. Buffered(st.s[s]) /\ st.s[s].buffer < BufferSize
    BY <1>4, NearlyGood
  <2> QED
    BY <1>4, <1>6, <2>1, Zenon
<1>14. Good(nw)
  BY <1>8, <1>9, <1>10, <1>11, <1>12, <1>13, NearlyChanged
<1>15. Become(nw)
  BY <1>1, <1>7, Zenon
<1> QED
  BY <1>14, <1>15, BecomeGood

\* The output buffer drains.
LEMMA FlushGood ==
  ASSUME IInv, NEW c \in Chans, Flush(c), UNCHANGED backpressure
  PROVE  IInv'
<1>1. PICK st : st = Now
  OBVIOUS
<1>2. /\ Good(st) /\ st \in State /\ st.c = chan /\ st.s = seg
      /\ chan \in [Chans -> ChannelState] /\ seg \in [Segs -> SegmentState]
  BY <1>1, NowFacts
<1>3. PICK s \in Segs : TRUE
  BY SizeAssumption DEF Segs
<1>4. PICK x \in SegmentState : x = seg[s]
  BY <1>2
<1>5. chan[c] \in ChannelState /\ chan[c].sent \in Seq(Packet) /\ chan[c].out \in Seq(Packet)
  BY <1>2 DEF ChannelState
<1>6. /\ Append(chan[c].sent, Head(chan[c].out)) \in Seq(Packet) /\ Tail(chan[c].out) \in Seq(Packet)
      /\ Append(chan[c].sent, Head(chan[c].out)) \o Tail(chan[c].out) = chan[c].sent \o chan[c].out
  <2>1. chan[c].out # <<>>
    BY DEF Flush
  <2> QED
    BY <1>5, <2>1, LineFlush
<1>7. PICK l : l = [chan[c] EXCEPT !.out = Tail(chan[c].out)]
  OBVIOUS
<1>8. PICK k : k = [l EXCEPT !.sent = Append(chan[c].sent, Head(chan[c].out))]
  OBVIOUS
<1>9. /\ k \in ChannelState /\ k.sent = Append(chan[c].sent, Head(chan[c].out)) /\ k.out = Tail(chan[c].out)
      /\ k.requested = chan[c].requested /\ k.responded = chan[c].responded /\ k.blocked = chan[c].blocked
  <2>1. Append(chan[c].sent, Head(chan[c].out)) \in Seq(Packet) /\ Tail(chan[c].out) \in Seq(Packet)
    BY <1>6
  <2> QED
    BY <1>5, <1>7, <1>8, <2>1 DEF ChannelState
<1>10. Line(k) = Line(st.c[c])
  BY <1>2, <1>6, <1>9, Zenon DEF Line
<1>11. chan' = [chan EXCEPT ![c] = k] /\ seg' = seg
  <2>1. chan' = [[chan EXCEPT ![c].out = Tail(chan[c].out)] EXCEPT ![c].sent = Append(@, Head(chan[c].out))]
    BY Zenon DEF Flush
  <2>2. [chan EXCEPT ![c].out = Tail(chan[c].out)] = [chan EXCEPT ![c] = l]
    BY <1>7
  <2>3. l.sent = chan[c].sent /\ [chan EXCEPT ![c] = l][c] = l
    BY <1>2, <1>5, <1>7 DEF ChannelState
  <2>4. [[chan EXCEPT ![c] = l] EXCEPT ![c].sent = Append(chan[c].sent, Head(chan[c].out))]
          = [chan EXCEPT ![c] = k]
    BY <1>2, <1>8
  <2>5. chan' = [[chan EXCEPT ![c] = l] EXCEPT ![c].sent = Append([chan EXCEPT ![c] = l][c].sent, Head(chan[c].out))]
    BY <2>1, <2>2, Zenon
  <2>6. chan' = [chan EXCEPT ![c] = k]
    BY <2>3, <2>4, <2>5, Zenon
  <2> QED
    BY <2>6, Zenon DEF Flush
<1>12. PICK nw : nw = [c |-> chan', s |-> seg']
  OBVIOUS
<1>13. Changed(st, nw, c, k, s, x)
  <2>1. [seg EXCEPT ![s] = x] = seg
    BY <1>2, <1>4
  <2>2. nw = [c |-> [st.c EXCEPT ![c] = k], s |-> [st.s EXCEPT ![s] = x]]
    BY <1>2, <1>11, <1>12, <2>1, Zenon
  <2> QED
    BY <2>2, Zenon DEF Changed
<1>14. Buffered(x) /\ x.buffer < BufferSize /\ SameRequests(st.s[s], x) /\ x.stall = st.s[s].stall
       /\ Held(x) <= Held(st.s[s])
  <2>1. Buffered(st.s[s]) /\ st.s[s].buffer < BufferSize
    BY <1>2, NearlyGood
  <2>2. x = st.s[s]
    BY <1>2, <1>4, Zenon
  <2>3. x.writing \in Int
    BY <1>4 DEF SegmentState
  <2>4. Held(x) <= Held(x)
    BY <2>3 DEF Held
  <2> QED
    BY <2>1, <2>2, <2>4, Zenon DEF SameRequests
<1>15. /\ k.requested = st.c[c].requested /\ k.responded = st.c[c].responded
       /\ k.blocked = st.c[c].blocked
  BY <1>2, <1>9, Zenon
<1>16. Good(nw)
  BY <1>2, <1>9, <1>10, <1>13, <1>14, <1>15, KeepGood
<1>17. Become(nw)
  BY <1>12 DEF Become
<1> QED
  BY <1>16, <1>17, BecomeGood

\* The reply to the oldest request of a channel is for some segment.
LEMMA RepliedFacts ==
  ASSUME IInv, NEW c \in Chans, NEW kind, Replied(c, kind)
  PROVE  /\ chan[c].sent # <<>> /\ ~chan[c].blocked
         /\ Head(chan[c].sent) \in Packet /\ Head(chan[c].sent).seg \in Segs
         /\ Head(chan[c].sent).live /\ Head(chan[c].sent).kind = kind
<1>1. chan \in [Chans -> ChannelState]
  BY NowFacts
<1>2. chan[c].sent \in Seq(Packet)
  BY <1>1 DEF ChannelState
<1>3. chan[c].sent # <<>> /\ ~chan[c].blocked /\ Head(chan[c].sent).live /\ Head(chan[c].sent).kind = kind
  BY DEF Replied
<1>4. Head(chan[c].sent) \in Packet
  BY <1>2, <1>3, HeadTailProperties
<1>5. Head(chan[c].sent).seg \in Segs
  BY <1>4 DEF Packet
<1> QED
  BY <1>3, <1>4, <1>5

\* Fields of a segment of a pair.
LEMMA PutHandle ==
  ASSUME NEW C, NEW S, NEW s, NEW b
  PROVE  /\ [[c |-> C, s |-> S] EXCEPT !.s[s].handle = b]
              = [c |-> C, s |-> [S EXCEPT ![s] = [S[s] EXCEPT !.handle = b]]]
         /\ [[c |-> C, s |-> S] EXCEPT !.s[s].opened = b]
              = [c |-> C, s |-> [S EXCEPT ![s] = [S[s] EXCEPT !.opened = b]]]
<1>1. [[c |-> C, s |-> S] EXCEPT !.s[s].handle = b]
         = [c |-> C, s |-> [S EXCEPT ![s] = [S[s] EXCEPT !.handle = b]]]
  OBVIOUS
<1>2. [[c |-> C, s |-> S] EXCEPT !.s[s].opened = b]
         = [c |-> C, s |-> [S EXCEPT ![s] = [S[s] EXCEPT !.opened = b]]]
  OBVIOUS
<1> QED
  BY <1>1, <1>2

\* The segment that is opened.
Opened(st, s) == [st EXCEPT !.s[s].handle = TRUE, !.s[s].opened = TRUE]

\* Nothing but that changes.
LEMMA OpenedFacts ==
  ASSUME NEW C, NEW S \in [Segs -> SegmentState], NEW s \in Segs
  PROVE  \E x \in SegmentState :
           /\ Opened([c |-> C, s |-> S], s) = [c |-> C, s |-> [S EXCEPT ![s] = x]]
           /\ SameRequests(S[s], x) /\ x.stall = S[s].stall /\ x.waits = S[s].waits
           /\ x.buffer = S[s].buffer /\ x.writing = S[s].writing /\ x.opened
<1>1. PICK b \in BOOLEAN : b = TRUE
  OBVIOUS
<1>2. PICK y : y = [S[s] EXCEPT !.handle = b]
  OBVIOUS
<1>3. PICK x : x = [y EXCEPT !.opened = b]
  OBVIOUS
<1>4. S[s] \in SegmentState
  OBVIOUS
<1>5. x \in SegmentState
  BY <1>2, <1>3, <1>4 DEF SegmentState
<1>6. /\ x.conn = S[s].conn /\ x.next = S[s].next /\ x.outstanding = S[s].outstanding
      /\ x.got = S[s].got /\ x.stall = S[s].stall /\ x.waits = S[s].waits
      /\ x.buffer = S[s].buffer /\ x.writing = S[s].writing /\ x.opened
  BY <1>1, <1>2, <1>3, <1>4 DEF SegmentState
<1>7. [[c |-> C, s |-> S] EXCEPT !.s[s].handle = b] = [c |-> C, s |-> [S EXCEPT ![s] = y]]
  <2>1. [[c |-> C, s |-> S] EXCEPT !.s[s].handle = b]
          = [c |-> C, s |-> [S EXCEPT ![s] = [S[s] EXCEPT !.handle = b]]]
    BY PutHandle
  <2> QED
    BY <1>2, <2>1, Zenon
<1>8. PICK T : T = [S EXCEPT ![s] = y]
  OBVIOUS
<1>9. T[s] = y /\ \A z : [T EXCEPT ![s] = z] = [S EXCEPT ![s] = z]
  BY <1>8
<1>10. [[c |-> C, s |-> T] EXCEPT !.s[s].opened = b] = [c |-> C, s |-> [S EXCEPT ![s] = x]]
  <2>1. [[c |-> C, s |-> T] EXCEPT !.s[s].opened = b]
          = [c |-> C, s |-> [T EXCEPT ![s] = [T[s] EXCEPT !.opened = b]]]
    BY PutHandle
  <2>2. [T[s] EXCEPT !.opened = b] = x
    BY <1>3, <1>9, Zenon
  <2>3. [T EXCEPT ![s] = x] = [S EXCEPT ![s] = x]
    BY <1>9
  <2> QED
    BY <2>1, <2>2, <2>3, Zenon
<1>11. [[c |-> C, s |-> S] EXCEPT !.s[s].handle = b, !.s[s].opened = b]
         = [c |-> C, s |-> [S EXCEPT ![s] = x]]
  <2>1. [[c |-> C, s |-> S] EXCEPT !.s[s].handle = b, !.s[s].opened = b]
         = [[[c |-> C, s |-> S] EXCEPT !.s[s].handle = b] EXCEPT !.s[s].opened = b]
    BY Zenon
  <2> QED
    BY <1>7, <1>8, <1>10, <2>1, Zenon
<1>12. Opened([c |-> C, s |-> S], s) = [c |-> C, s |-> [S EXCEPT ![s] = x]]
  BY <1>1, <1>11, Zenon DEF Opened
<1>13. SameRequests(S[s], x)
  BY <1>6 DEF SameRequests
<1> QED
  BY <1>5, <1>6, <1>12, <1>13, Zenon

\* on_segment_open
LEMMA OnSegmentOpenGood ==
  ASSUME IInv, NEW c \in Chans, NEW congested, OnSegmentOpen(c, congested), UNCHANGED backpressure
  PROVE  IInv'
<1>1. PICK s : s = Head(chan[c].sent).seg
  OBVIOUS
<1>2. /\ s \in Segs /\ chan[c].sent # <<>> /\ ~chan[c].blocked
      /\ Head(chan[c].sent).kind = "open"
  <2>1. Replied(c, "open")
    BY DEF OnSegmentOpen
  <2> QED
    BY <1>1, <2>1, RepliedFacts
<1>3. PICK k \in ChannelState :
           /\ Taken(c) = [c |-> [chan EXCEPT ![c] = k], s |-> seg]
           /\ k.sent = Tail(chan[c].sent) /\ k.out = chan[c].out
           /\ k.requested = chan[c].requested /\ k.responded = chan[c].responded
           /\ k.blocked = chan[c].blocked
  BY <1>2, TakenFacts
<1>4. PICK st : st = Now
  OBVIOUS
<1>5. /\ Good(st) /\ st \in State /\ st.c = chan /\ st.s = seg
      /\ chan \in [Chans -> ChannelState] /\ seg \in [Segs -> SegmentState]
  BY <1>4, NowFacts
<1>6. PICK nw : nw = [Taken(c) EXCEPT !.s[s].handle = TRUE, !.s[s].opened = TRUE]
  OBVIOUS
<1>7. PICK x \in SegmentState :
           /\ nw = [c |-> [chan EXCEPT ![c] = k], s |-> [seg EXCEPT ![s] = x]]
           /\ SameRequests(seg[s], x) /\ x.stall = seg[s].stall /\ x.waits = seg[s].waits
           /\ x.buffer = seg[s].buffer /\ x.writing = seg[s].writing /\ x.opened
  <2>1. PICK C : C = [chan EXCEPT ![c] = k]
    OBVIOUS
  <2>2. \E x \in SegmentState :
           /\ Opened([c |-> C, s |-> seg], s) = [c |-> C, s |-> [seg EXCEPT ![s] = x]]
           /\ SameRequests(seg[s], x) /\ x.stall = seg[s].stall /\ x.waits = seg[s].waits
           /\ x.buffer = seg[s].buffer /\ x.writing = seg[s].writing /\ x.opened
    <3>1. seg \in [Segs -> SegmentState] /\ s \in Segs
      BY <1>2, <1>5
    <3> QED
      BY <3>1, OpenedFacts
  <2>3. nw = Opened([c |-> C, s |-> seg], s)
    BY <1>3, <1>6, <2>1, Zenon DEF Opened
  <2> QED
    BY <2>1, <2>2, <2>3, Zenon
<1>8. Changed(st, nw, c, k, s, x)
  <2>1. nw = [c |-> [st.c EXCEPT ![c] = k], s |-> [st.s EXCEPT ![s] = x]]
    BY <1>5, <1>7, Zenon
  <2> QED
    BY <2>1, Zenon DEF Changed
<1>9. Tiled(st) /\ Counted(st) /\ Owned(st) /\ Pooled(st) /\ Nearly(st, s)
  BY <1>2, <1>5, NearlyGood DEF Nearly
<1>10. Tiled(nw) /\ Counted(nw)
  <2>1. \A t \in Segs : ~IsRead(Head(st.c[c].sent), t)
    BY <1>2, <1>5 DEF IsRead
  <2>2. SameRequests(st.s[s], x)
    BY <1>5, <1>7, Zenon
  <2>3. /\ st.c[c].sent # <<>> /\ k.sent = Tail(st.c[c].sent) /\ k.out = st.c[c].out
        /\ k.requested = st.c[c].requested /\ k.responded = st.c[c].responded
    BY <1>2, <1>3, <1>5, Zenon
  <2> QED
    BY <1>2, <1>5, <1>8, <1>9, <2>1, <2>2, <2>3, TailKeeps
<1>11. Owned(nw)
  <2>1. k.blocked = st.c[c].blocked /\ x.stall = st.s[s].stall
    BY <1>3, <1>5, <1>7, Zenon
  <2> QED
    BY <1>2, <1>5, <1>8, <1>9, <2>1, OwnedSame
<1>12. Pooled(nw)
  <2>1. Held(x) <= Held(st.s[s])
    <3>1. x.writing \in Int
      BY <1>7 DEF SegmentState
    <3>2. x.writing = st.s[s].writing /\ x.buffer = st.s[s].buffer
      BY <1>5, <1>7, Zenon
    <3> QED
      BY <3>1, <3>2 DEF Held
  <2> QED
    BY <1>2, <1>5, <1>8, <1>9, <2>1, PooledFewer
<1>13. Buffered(seg[s]) /\ seg[s].buffer < BufferSize
  <2>1. Buffered(st.s[s]) /\ st.s[s].buffer < BufferSize
    BY <1>2, <1>5, NearlyGood
  <2> QED
    BY <1>5, <2>1, Zenon
<1>14. nw.s[s] = x /\ nw.c[c] = k /\ nw \in State /\ Nearly(nw, s)
  <2>1. nw.s[s] = x /\ nw.c[c] = k /\ nw \in State
    BY <1>2, <1>5, <1>8, ChangedFacts
  <2>2. Nearly(nw, s)
    BY <1>2, <1>8, <1>9, <1>10, <1>11, <1>12, NearlyChanged
  <2> QED
    BY <2>1, <2>2
<1>15. Become(IF seg[s].opened THEN RequestSegments(nw, seg[s].conn, congested)
              ELSE BufferThenRequest(nw, s, c, congested))
  BY <1>1, <1>6, Zenon DEF OnSegmentOpen
<1>16. x.conn = seg[s].conn /\ x.outstanding = seg[s].outstanding /\ seg[s].conn \in Chans
  <2>1. seg[s].conn \in Chans
    BY <1>2, <1>5 DEF SegmentState
  <2> QED
    BY <1>7, <2>1 DEF SameRequests
<1>17. CASE seg[s].opened
  <2>1. Buffered(x) /\ x.buffer < BufferSize
    BY <1>7, <1>13, <1>16, <1>17 DEF Buffered
  <2>2. Good(nw)
    BY <1>2, <1>14, <2>1, NearlyGood
  <2>3. Good(RequestSegments(nw, seg[s].conn, congested))
    BY <1>16, <2>2, RequestSegmentsGood
  <2>4. Become(RequestSegments(nw, seg[s].conn, congested))
    BY <1>15, <1>17, Zenon
  <2> QED
    BY <2>3, <2>4, BecomeGood
<1>18. CASE ~seg[s].opened
  <2>1. seg[s].stall = NoChannel /\ seg[s].outstanding = 0
    BY <1>13, <1>18 DEF Buffered
  <2>2. /\ nw.s[s].stall = NoChannel /\ nw.s[s].opened /\ ~nw.c[c].blocked
        /\ ~(nw.s[s].outstanding > 0)
    <3>1. x.stall = NoChannel /\ x.opened /\ ~k.blocked /\ x.outstanding = 0
      BY <1>2, <1>3, <1>7, <1>16, <2>1, Zenon
    <3>2. nw.s[s].outstanding = 0
      BY <1>14, <3>1, Zenon
    <3> QED
      BY <1>14, <3>1, <3>2
  <2>3. Good(BufferThenRequest(nw, s, c, congested))
    BY <1>2, <1>14, <2>2, BufferThenRequestGood, ZenonT(60)
  <2>4. Become(BufferThenRequest(nw, s, c, congested))
    BY <1>15, <1>18, Zenon
  <2> QED
    BY <2>3, <2>4, BecomeGood
<1> QED
  BY <1>17, <1>18

\* The block that comes next is the next one of its segment, which has room
\* for it.
LEMMA ReadFacts ==
  ASSUME IInv, NEW c \in Chans, Replied(c, "read"), NEW s, s = Head(chan[c].sent).seg
  PROVE  /\ s \in Segs /\ seg[s].conn = c /\ seg[s].outstanding > 0
         /\ Head(chan[c].sent).block = Len(seg[s].got) + 1
         /\ Len(seg[s].got) + 1 \in 1..Length
         /\ seg[s].buffer \in 0..BufferSize - 1
         /\ seg[s].stall = NoChannel /\ seg[s].waits = "no" /\ seg[s].opened
         /\ Ordered(Tail(Line(chan[c])), s, (Len(seg[s].got) + 1) + 1, seg[s].next)
<1>1. PICK p : p = Head(chan[c].sent)
  OBVIOUS
<1>2. s \in Segs /\ chan[c].sent # <<>> /\ ~chan[c].blocked /\ p \in Packet /\ IsRead(p, s)
  <2>1. s = p.seg
    BY <1>1
  <2>2. chan[c].sent # <<>> /\ ~chan[c].blocked /\ p \in Packet /\ p.seg \in Segs /\ p.live /\ p.kind = "read"
    BY <1>1, RepliedFacts
  <2> QED
    BY <2>1, <2>2 DEF IsRead
<1>3. PICK st : st = Now
  OBVIOUS
<1>4. /\ Good(st) /\ st \in State /\ st.c = chan /\ st.s = seg
      /\ chan \in [Chans -> ChannelState] /\ seg \in [Segs -> SegmentState]
  BY <1>3, NowFacts
<1>5. PICK y : y = seg[s]
  OBVIOUS
<1>6. /\ y \in SegmentState /\ y.next \in 0..Length /\ y.outstanding \in 0..Length
      /\ Len(y.got) \in Nat /\ y.buffer \in NoBuffer..BufferSize
      /\ y.stall \in {NoChannel} \cup Chans
  BY <1>2, <1>4, <1>5, Fields
<1>7. PICK q \in Seq(Packet) : q = Line(chan[c])
  BY <1>4, Fields
<1>8. q # <<>> /\ Head(q) = p
  <2>1. chan[c].sent \in Seq(Packet) /\ chan[c].out \in Seq(Packet)
    BY <1>4 DEF ChannelState
  <2>2. chan[c].sent \o chan[c].out # <<>> /\ Head(chan[c].sent \o chan[c].out) = Head(chan[c].sent)
    BY <1>2, <2>1, LineTail
  <2> QED
    BY <1>1, <1>7, <2>2, Zenon DEF Line
<1>9. Ordered(q, s, Len(y.got) + 1, Until(y, c)) /\ Received(y)
  <2>1. Ordered(Line(st.c[c]), s, Len(st.s[s].got) + 1, Until(st.s[s], c)) /\ Received(st.s[s])
    BY <1>2, <1>4 DEF Good, Base, Tiled
  <2> QED
    BY <1>4, <1>5, <1>7, <2>1, Zenon
<1>10. Until(y, c) \in Int /\ Len(y.got) + 1 \in Int
  BY <1>6 DEF Until
<1>11. /\ Head(q).block = Len(y.got) + 1 /\ Len(y.got) + 1 <= Until(y, c)
       /\ Ordered(Tail(q), s, (Len(y.got) + 1) + 1, Until(y, c))
  <2>1. IsRead(Head(q), s)
    BY <1>2, <1>8, Zenon
  <2> HIDE DEF IsRead
  <2>2. PICK r : r = Tail(q)
    OBVIOUS
  <2>3. PICK lo \in Int : lo = Len(y.got) + 1
    BY <1>10
  <2>4. PICK hi \in Int : hi = Until(y, c)
    BY <1>10
  <2>5. Ordered(q, s, lo, hi)
    BY <1>9, <2>3, <2>4, Zenon
  <2>6. q # <<>> /\ s \in Segs
    BY <1>2, <1>8
  <2>7. Head(q).block = lo /\ lo <= hi /\ Ordered(r, s, lo + 1, hi)
    BY <2>1, <2>2, <2>5, <2>6, OrderedTailRead
  <2> QED
    BY <2>2, <2>3, <2>4, <2>7, Zenon
<1>12. y.conn = c /\ Until(y, c) = y.next
  BY <1>6, <1>11 DEF Until
<1>13. y.outstanding > 0 /\ Len(y.got) + 1 \in 1..Length
  <2>1. Len(y.got) + 1 <= y.next
    BY <1>11, <1>12, Zenon
  <2>2. y.next = Len(y.got) + y.outstanding
    BY <1>9 DEF Received
  <2>3. y.next \in 0..Length /\ y.outstanding \in 0..Length /\ Len(y.got) \in Nat /\ Length \in Nat
    BY <1>6, SizeAssumption
  <2> QED
    BY <2>1, <2>2, <2>3
<1>14. y.stall # c
  <2>1. st.c[c].blocked <=> \E t \in Segs : st.s[t].stall = c
    BY <1>4 DEF Good, Base, Owned
  <2> QED
    BY <1>2, <1>4, <1>5, <2>1
<1>15. Buffered(y) /\ y.buffer < BufferSize
  <2>1. Buffered(st.s[s]) /\ st.s[s].buffer < BufferSize
    BY <1>2, <1>4, NearlyGood
  <2> QED
    BY <1>4, <1>5, <2>1, Zenon
<1>16. y.buffer # NoBuffer /\ y.stall = NoChannel /\ y.waits = "no" /\ y.opened
  BY <1>12, <1>13, <1>14, <1>15 DEF Buffered
<1>17. y.buffer \in 0..BufferSize - 1
  BY <1>6, <1>15, <1>16, SizeAssumption DEF NoBuffer
<1>18. Ordered(Tail(Line(chan[c])), s, (Len(seg[s].got) + 1) + 1, seg[s].next)
  BY <1>5, <1>7, <1>11, <1>12, Zenon
<1>19. Head(chan[c].sent).block = Len(seg[s].got) + 1
  BY <1>1, <1>5, <1>8, <1>11, Zenon
<1>20. seg[s].conn = c /\ seg[s].outstanding > 0 /\ Len(seg[s].got) + 1 \in 1..Length
       /\ seg[s].buffer \in 0..BufferSize - 1
       /\ seg[s].stall = NoChannel /\ seg[s].waits = "no" /\ seg[s].opened
  BY <1>5, <1>12, <1>13, <1>16, <1>17, Zenon
<1> QED
  BY <1>2, <1>18, <1>19, <1>20

\* What a block that arrives changes.
Arrived(st, s, c, block) ==
  [st EXCEPT !.s[s].outstanding = @ - 1, !.s[s].got = Append(@, block),
             !.s[s].buffer = @ + 1, !.c[c].responded = @ + 1]

\* A block makes x of the segment y, and k of the channel l.
OneMore(y, l, x, k, block) ==
  /\ x.outstanding = y.outstanding - 1 /\ x.got = Append(y.got, block)
  /\ x.buffer = y.buffer + 1
  /\ x.conn = y.conn /\ x.next = y.next /\ x.writing = y.writing
  /\ SameRest(y, x) /\ x.waits = y.waits
  /\ k.responded = l.responded + 1 /\ k.requested = l.requested
  /\ k.sent = l.sent /\ k.out = l.out /\ k.blocked = l.blocked

\* The segment and the channel after it.
LEMMA ArrivedFacts ==
  ASSUME NEW C \in [Chans -> ChannelState], NEW S \in [Segs -> SegmentState],
         NEW c \in Chans, NEW s \in Segs, NEW block \in 1..Length,
         S[s].outstanding > 0, S[s].buffer \in 0..BufferSize - 1
  PROVE  \E x \in SegmentState, k \in ChannelState :
           /\ Arrived([c |-> C, s |-> S], s, c, block)
                = [c |-> [C EXCEPT ![c] = k], s |-> [S EXCEPT ![s] = x]]
           /\ OneMore(S[s], C[c], x, k, block)
<1>1. PICK o : o = S[s].outstanding - 1
  OBVIOUS
<1>2. PICK g : g = Append(S[s].got, block)
  OBVIOUS
<1>3. PICK b : b = S[s].buffer + 1
  OBVIOUS
<1>4. PICK r : r = C[c].responded + 1
  OBVIOUS
<1>5. S[s] \in SegmentState /\ C[c] \in ChannelState
  OBVIOUS
<1>6. o \in 0..Length /\ g \in Seq(1..Length) /\ b \in NoBuffer..BufferSize /\ r \in Nat
  <2>1. /\ S[s].outstanding \in 0..Length /\ S[s].got \in Seq(1..Length)
        /\ C[c].responded \in Nat
    BY <1>5 DEF SegmentState, ChannelState
  <2>2. o \in 0..Length
    BY <1>1, <2>1, SizeAssumption
  <2>3. g \in Seq(1..Length)
    BY <1>2, <2>1, AppendProperties
  <2>4. b \in NoBuffer..BufferSize
    BY <1>3, SizeAssumption DEF NoBuffer
  <2>5. r \in Nat
    BY <1>4, <2>1
  <2> QED
    BY <2>2, <2>3, <2>4, <2>5
<1>7. PICK u : u = [S[s] EXCEPT !.outstanding = o]
  OBVIOUS
<1>8. PICK v : v = [u EXCEPT !.got = g]
  OBVIOUS
<1>9. PICK x : x = [v EXCEPT !.buffer = b]
  OBVIOUS
<1>10. PICK k : k = [C[c] EXCEPT !.responded = r]
  OBVIOUS
<1>11. u \in SegmentState /\ v \in SegmentState /\ x \in SegmentState /\ k \in ChannelState
  <2>1. u \in SegmentState
    BY <1>5, <1>6, <1>7 DEF SegmentState
  <2>2. v \in SegmentState
    BY <1>6, <1>8, <2>1 DEF SegmentState
  <2>3. x \in SegmentState
    BY <1>6, <1>9, <2>2 DEF SegmentState
  <2>4. k \in ChannelState
    BY <1>5, <1>6, <1>10 DEF ChannelState
  <2> QED
    BY <2>1, <2>2, <2>3, <2>4
<1>12. /\ x.outstanding = o /\ x.got = g /\ x.buffer = b
       /\ x.conn = S[s].conn /\ x.next = S[s].next /\ x.writing = S[s].writing
       /\ x.handle = S[s].handle /\ x.opened = S[s].opened /\ x.stall = S[s].stall
       /\ x.phase = S[s].phase /\ x.waits = S[s].waits
  BY <1>5, <1>7, <1>8, <1>9 DEF SegmentState
<1>13. /\ k.responded = r /\ k.requested = C[c].requested
       /\ k.sent = C[c].sent /\ k.out = C[c].out /\ k.blocked = C[c].blocked
  BY <1>5, <1>10 DEF ChannelState
<1>15. PICK P : P = [c |-> C, s |-> S]
  OBVIOUS
<1>16. Arrived(P, s, c, block)
         = [[[[P EXCEPT !.s[s].outstanding = o] EXCEPT !.s[s].got = g] EXCEPT !.s[s].buffer = b]
              EXCEPT !.c[c].responded = r]
  <2>1. P.s = S /\ P.c = C
    BY <1>15
  <2>2. P.s[s].outstanding - 1 = o /\ Append(P.s[s].got, block) = g
        /\ P.s[s].buffer + 1 = b /\ P.c[c].responded + 1 = r
    BY <1>1, <1>2, <1>3, <1>4, <2>1, Zenon
  <2>3. Arrived(P, s, c, block)
         = [P EXCEPT !.s[s].outstanding = o, !.s[s].got = g, !.s[s].buffer = b, !.c[c].responded = r]
    BY <2>2, Zenon DEF Arrived
  <2> QED
    BY <2>3, Zenon
<1>17. [[[P EXCEPT !.s[s].outstanding = o] EXCEPT !.s[s].got = g] EXCEPT !.s[s].buffer = b]
         = [c |-> C, s |-> [S EXCEPT ![s] = x]]
  <2>1. [P EXCEPT !.s[s].outstanding = o] = [c |-> C, s |-> [S EXCEPT ![s] = u]]
    BY <1>7, <1>15
  <2>2. [[c |-> C, s |-> [S EXCEPT ![s] = u]] EXCEPT !.s[s].got = g]
          = [c |-> C, s |-> [S EXCEPT ![s] = v]]
    BY <1>8
  <2>3. [[c |-> C, s |-> [S EXCEPT ![s] = v]] EXCEPT !.s[s].buffer = b]
          = [c |-> C, s |-> [S EXCEPT ![s] = x]]
    BY <1>9
  <2> QED
    BY <2>1, <2>2, <2>3, Zenon
<1>18. [[c |-> C, s |-> [S EXCEPT ![s] = x]] EXCEPT !.c[c].responded = r]
         = [c |-> [C EXCEPT ![c] = k], s |-> [S EXCEPT ![s] = x]]
  BY <1>10
<1>20. Arrived([c |-> C, s |-> S], s, c, block) = [c |-> [C EXCEPT ![c] = k], s |-> [S EXCEPT ![s] = x]]
  BY <1>15, <1>16, <1>17, <1>18, Zenon
<1>21. SameRest(S[s], x)
  BY <1>12 DEF SameRest
<1> QED
  BY <1>1, <1>2, <1>3, <1>4, <1>11, <1>12, <1>13, <1>20, <1>21, Zenon DEF OneMore

\* A segment that has received everything needs no buffer.
LEMMA FinalizingGood ==
  ASSUME NEW st, NEW s \in Segs, Nearly(st, s),
         st.s[s].stall = NoChannel, st.s[s].waits = "no", st.s[s].opened, st.s[s].outstanding = 0
  PROVE  Good([HandOver(st, s) EXCEPT !.s[s].phase = "finalizing"])
<1>1. st \in State /\ Tiled(st) /\ Counted(st) /\ Owned(st) /\ Pooled(st)
  BY DEF Nearly
<1>2. PICK h : h = HandOver(st, s)
  OBVIOUS
<1>3. PICK y \in SegmentState :
        /\ h = [c |-> st.c, s |-> [st.s EXCEPT ![s] = y]]
        /\ SameRequests(st.s[s], y) /\ SameRest(st.s[s], y)
        /\ y.buffer = NoBuffer /\ y.waits = st.s[s].waits
        /\ h \in State /\ Pooled(h)
  <2>1. \E y \in SegmentState :
           /\ HandOver(st, s) = [c |-> st.c, s |-> [st.s EXCEPT ![s] = y]]
           /\ SameRequests(st.s[s], y) /\ SameRest(st.s[s], y)
           /\ y.buffer = NoBuffer /\ y.waits = st.s[s].waits
           /\ HandOver(st, s) \in State /\ Pooled(HandOver(st, s))
    BY <1>1, HandOverFacts
  <2> QED
    BY <1>2, <2>1, Zenon
<1>4. /\ y.conn = st.s[s].conn /\ y.next = st.s[s].next /\ y.outstanding = st.s[s].outstanding
      /\ y.got = st.s[s].got /\ y.opened = st.s[s].opened /\ y.stall = st.s[s].stall
  BY <1>3 DEF SameRequests, SameRest
<1>5. PICK x : x = [y EXCEPT !.phase = "finalizing"]
  OBVIOUS
<1>6. /\ x \in SegmentState /\ x.conn = y.conn /\ x.next = y.next /\ x.outstanding = y.outstanding
      /\ x.got = y.got /\ x.opened = y.opened /\ x.stall = y.stall /\ x.waits = y.waits
      /\ x.buffer = y.buffer /\ x.writing = y.writing
  <2>1. y \in SegmentState
    BY <1>3
  <2> QED
    BY <1>5, <2>1 DEF SegmentState
<1>7. PICK nw : nw = [h EXCEPT !.s[s].phase = "finalizing"]
  OBVIOUS
<1>8. PICK c \in Chans : TRUE
  BY SizeAssumption DEF Chans
<1>9. h.c = st.c /\ h.s = [st.s EXCEPT ![s] = y] /\ h.s[s] = y /\ h \in State /\ Pooled(h)
  <2>1. st.s \in [Segs -> SegmentState]
    BY <1>1 DEF State
  <2>2. h = [c |-> st.c, s |-> [st.s EXCEPT ![s] = y]] /\ h \in State /\ Pooled(h)
    BY <1>3
  <2> QED
    BY <2>1, <2>2
<1>10. nw = [c |-> h.c, s |-> [h.s EXCEPT ![s] = x]]
  <2>1. PICK T : T = h.s
    OBVIOUS
  <2>2. h = [c |-> h.c, s |-> T] /\ T[s] = y
    BY <1>9, <2>1 DEF State
  <2>3. [h EXCEPT !.s[s].phase = "finalizing"] = [c |-> h.c, s |-> [T EXCEPT ![s] = [T[s] EXCEPT !.phase = "finalizing"]]]
    BY <2>2
  <2> QED
    BY <1>5, <1>7, <2>1, <2>2, <2>3, Zenon
<1>11. PICK k \in ChannelState : k = h.c[c]
  BY <1>9, Fields
<1>12. Changed(h, nw, c, k, s, x)
  <2>1. Changed(h, nw, c, h.c[c], s, x)
    BY <1>6, <1>9, <1>10, SegmentOnly
  <2> QED
    BY <1>11, <2>1, Zenon
<1>13. Changed(st, h, c, k, s, y) /\ k = st.c[c]
  <2>1. h = [c |-> st.c, s |-> [st.s EXCEPT ![s] = y]] /\ y \in SegmentState
    BY <1>3
  <2>2. Changed(st, h, c, st.c[c], s, y)
    BY <1>1, <2>1, SegmentOnly
  <2>3. k = st.c[c]
    BY <1>9, <1>11, Zenon
  <2> QED
    BY <2>2, <2>3, Zenon
<1>14. Tiled(h) /\ Counted(h) /\ Owned(h)
  <2>1. SameRequests(st.s[s], y) /\ y \in SegmentState
    BY <1>3
  <2>2. /\ Line(k) = Line(st.c[c]) /\ k.requested = st.c[c].requested
        /\ k.responded = st.c[c].responded /\ k.blocked = st.c[c].blocked
    BY <1>13, Zenon
  <2>3. Tiled(h) /\ Counted(h)
    BY <1>1, <1>13, <2>1, <2>2, KeepRequests
  <2>4. Owned(h)
    BY <1>1, <1>4, <1>13, <2>1, <2>2, OwnedSame
  <2> QED
    BY <2>3, <2>4
<1>15. Nearly(h, s)
  <2>1. y \in SegmentState
    BY <1>3
  <2> QED
    BY <1>9, <1>13, <1>14, <2>1, NearlyChanged
<1>16. Tiled(nw) /\ Counted(nw) /\ Owned(nw)
  <2>1. SameRequests(h.s[s], x)
    BY <1>6, <1>9 DEF SameRequests
  <2>2. /\ Line(k) = Line(h.c[c]) /\ k.requested = h.c[c].requested
        /\ k.responded = h.c[c].responded /\ k.blocked = h.c[c].blocked
    BY <1>11, Zenon
  <2>3. Tiled(nw) /\ Counted(nw)
    BY <1>6, <1>9, <1>12, <1>14, <2>1, <2>2, KeepRequests
  <2>4. x.stall = h.s[s].stall
    BY <1>6, <1>9, Zenon
  <2>5. Owned(nw)
    BY <1>6, <1>9, <1>12, <1>14, <2>2, <2>4, OwnedSame
  <2> QED
    BY <2>3, <2>5
<1>17. Pooled(nw)
  <2>1. x.buffer = h.s[s].buffer /\ x.writing = h.s[s].writing
    BY <1>6, <1>9, Zenon
  <2>2. x.writing \in Int
    BY <1>6 DEF SegmentState
  <2>3. Held(x) <= Held(h.s[s])
    BY <2>1, <2>2 DEF Held
  <2> QED
    BY <1>6, <1>9, <1>12, <2>3, PooledFewer
<1>18. Buffered(x) /\ x.buffer < BufferSize
  <2>1. x.buffer = NoBuffer /\ x.waits = "no" /\ x.stall = NoChannel /\ x.opened /\ x.outstanding = 0
    BY <1>3, <1>4, <1>6
  <2> QED
    BY <2>1, SizeAssumption DEF Buffered, NoBuffer
<1>19. Good(nw)
  BY <1>6, <1>12, <1>15, <1>16, <1>17, <1>18, NearlyChanged
<1> QED
  BY <1>2, <1>7, <1>19, Zenon

\* A block for s arrives at c and leads to nw.
Arrives(c, s, nw) ==
  s = Head(chan[c].sent).seg /\ nw = Arrived(Taken(c), s, c, Head(chan[c].sent).block)

\* The state after a block arrived: all is well but the buffer, which may be full.
LEMMA DataFacts ==
  ASSUME IInv, NEW c \in Chans, Replied(c, "read"), NEW s, NEW nw, Arrives(c, s, nw)
  PROVE  /\ Nearly(nw, s) /\ nw.s[s] \in SegmentState
         /\ nw.s[s].conn = c /\ nw.s[s].stall = NoChannel /\ nw.s[s].waits = "no" /\ nw.s[s].opened
         /\ nw.s[s].buffer \in 0..BufferSize
         /\ Received(nw.s[s]) /\ ~nw.c[c].blocked
<1>1. /\ s \in Segs /\ seg[s].conn = c /\ seg[s].outstanding > 0
      /\ Head(chan[c].sent).block = Len(seg[s].got) + 1
      /\ Len(seg[s].got) + 1 \in 1..Length
      /\ seg[s].buffer \in 0..BufferSize - 1
      /\ seg[s].stall = NoChannel /\ seg[s].waits = "no" /\ seg[s].opened
      /\ Ordered(Tail(Line(chan[c])), s, (Len(seg[s].got) + 1) + 1, seg[s].next)
  <2>1. s = Head(chan[c].sent).seg
    BY DEF Arrives
  <2> QED
    BY <2>1, ReadFacts
<1>2. chan[c].sent # <<>> /\ ~chan[c].blocked
  BY DEF Replied
<1>3. PICK k0 \in ChannelState :
           /\ Taken(c) = [c |-> [chan EXCEPT ![c] = k0], s |-> seg]
           /\ k0.sent = Tail(chan[c].sent) /\ k0.out = chan[c].out
           /\ k0.requested = chan[c].requested /\ k0.responded = chan[c].responded
           /\ k0.blocked = chan[c].blocked
  BY <1>2, TakenFacts
<1>4. PICK st : st = Now
  OBVIOUS
<1>5. /\ Good(st) /\ st \in State /\ st.c = chan /\ st.s = seg
      /\ chan \in [Chans -> ChannelState] /\ seg \in [Segs -> SegmentState]
  BY <1>4, NowFacts
<1>6. PICK C : C = [chan EXCEPT ![c] = k0]
  OBVIOUS
<1>7. C \in [Chans -> ChannelState] /\ C[c] = k0 /\ \A z : [C EXCEPT ![c] = z] = [chan EXCEPT ![c] = z]
  <2>1. k0 \in ChannelState /\ chan \in [Chans -> ChannelState]
    BY <1>3, <1>5
  <2> HIDE DEF ChannelState
  <2> QED
    BY <1>6, <2>1
<1>8. PICK block \in 1..Length : block = Len(seg[s].got) + 1
  BY <1>1
<1>9. PICK x \in SegmentState, k \in ChannelState :
           /\ nw = [c |-> [C EXCEPT ![c] = k], s |-> [seg EXCEPT ![s] = x]]
           /\ OneMore(seg[s], C[c], x, k, block)
  <2>1. nw = Arrived([c |-> C, s |-> seg], s, c, block)
    BY <1>1, <1>3, <1>6, <1>8, Zenon DEF Arrives
  <2>2. C \in [Chans -> ChannelState] /\ seg \in [Segs -> SegmentState] /\ s \in Segs
        /\ seg[s].outstanding > 0 /\ seg[s].buffer \in 0..BufferSize - 1
    BY <1>1, <1>5, <1>7
  <2>3. \E x \in SegmentState, k \in ChannelState :
           /\ Arrived([c |-> C, s |-> seg], s, c, block)
                = [c |-> [C EXCEPT ![c] = k], s |-> [seg EXCEPT ![s] = x]]
           /\ OneMore(seg[s], C[c], x, k, block)
    BY <2>2, ArrivedFacts
  <2> QED
    BY <2>1, <2>3, Zenon
<1>10. /\ k.sent = Tail(st.c[c].sent) /\ k.out = st.c[c].out /\ k.requested = st.c[c].requested
       /\ k.responded = st.c[c].responded + 1 /\ k.blocked = st.c[c].blocked
  BY <1>3, <1>5, <1>7, <1>9, Zenon DEF OneMore
<1>11. PICK y \in SegmentState : y = seg[s] /\ y = st.s[s]
  <2>1. seg[s] \in SegmentState /\ seg[s] = st.s[s]
    BY <1>1, <1>5
  <2> QED
    BY <2>1
<1>12. /\ x.outstanding = y.outstanding - 1 /\ x.got = Append(y.got, block) /\ x.buffer = y.buffer + 1
       /\ x.conn = y.conn /\ x.next = y.next /\ x.writing = y.writing
       /\ x.opened = y.opened /\ x.stall = y.stall /\ x.waits = y.waits
  <2>1. SameRest(y, x)
    BY <1>9, <1>11, Zenon DEF OneMore
  <2> QED
    BY <1>9, <1>11, <2>1, Zenon DEF SameRest, OneMore
<1>13. Changed(st, nw, c, k, s, x)
  <2>1. nw = [c |-> [st.c EXCEPT ![c] = k], s |-> [st.s EXCEPT ![s] = x]]
    BY <1>5, <1>7, <1>9, Zenon
  <2> QED
    BY <2>1, Zenon DEF Changed
<1>14. Tiled(st) /\ Counted(st) /\ Owned(st) /\ Pooled(st) /\ Nearly(st, s)
  BY <1>1, <1>5, NearlyGood DEF Nearly
<1>15. /\ y.outstanding \in 0..Length /\ y.got \in Seq(1..Length) /\ Len(y.got) \in Nat
       /\ y.next \in 0..Length /\ y.writing \in 0..Pool /\ y.conn = c
  <2>1. /\ y.outstanding \in 0..Length /\ y.got \in Seq(1..Length)
        /\ y.next \in 0..Length /\ y.writing \in 0..Pool
    BY <1>11 DEF SegmentState
  <2> QED
    BY <1>1, <1>11, <2>1, LenProperties
<1>16. PICK g \in Nat : g = Len(y.got)
  BY <1>15
<1>17. /\ Len(x.got) = g + 1 /\ x.got[g + 1] = g + 1 /\ \A n \in 1..g : x.got[n] = y.got[n]
  <2>1. /\ Len(Append(y.got, block)) = Len(y.got) + 1
        /\ Append(y.got, block)[Len(y.got) + 1] = block
        /\ \A n \in 1..Len(y.got) : Append(y.got, block)[n] = y.got[n]
    BY <1>15, AppendProperties
  <2>2. block = g + 1
    BY <1>8, <1>11, <1>16, Zenon
  <2> QED
    BY <1>12, <1>16, <2>1, <2>2, Zenon
<1>18. Received(x)
  <2>1. Received(st.s[s])
    BY <1>1, <1>14 DEF Tiled
  <2>2. (\A n \in 1..g : y.got[n] = n) /\ y.next = g + y.outstanding
    BY <1>11, <1>16, <2>1 DEF Received
  <2>3. \A n \in 1..g + 1 : x.got[n] = n
    <3> TAKE n \in 1..g + 1
    <3>1. CASE n = g + 1
      BY <1>17, <3>1
    <3>2. CASE n # g + 1
      <4>1. n \in 1..g
        BY <3>2
      <4> QED
        BY <1>17, <2>2, <4>1
    <3> QED
      BY <3>1, <3>2
  <2>4. x.next = (g + 1) + x.outstanding
    BY <1>12, <1>15, <2>2
  <2> QED
    BY <1>17, <2>3, <2>4 DEF Received
<1>19. Tiled(nw)
  <2>1. /\ Line(st.c[c]) \in Seq(Packet) /\ Line(st.c[c]) # <<>>
        /\ Head(Line(st.c[c])) = Head(chan[c].sent) /\ Line(k) = Tail(Line(st.c[c]))
    <3>1. st.c[c].sent \in Seq(Packet) /\ st.c[c].out \in Seq(Packet) /\ st.c[c].sent # <<>>
      BY <1>2, <1>5, Fields
    <3>2. /\ st.c[c].sent \o st.c[c].out \in Seq(Packet) /\ st.c[c].sent \o st.c[c].out # <<>>
          /\ Head(st.c[c].sent \o st.c[c].out) = Head(st.c[c].sent)
          /\ Tail(st.c[c].sent) \o st.c[c].out = Tail(st.c[c].sent \o st.c[c].out)
      BY <3>1, LineTail
    <3> QED
      BY <1>5, <1>10, <3>2, Zenon DEF Line
  <2>2. \A t \in Segs \ {s} : ~IsRead(Head(Line(st.c[c])), t)
    <3>1. \A t \in Segs \ {s} : ~IsRead(Head(chan[c].sent), t)
      BY DEF IsRead, Arrives
    <3> QED
      BY <2>1, <3>1, Zenon
  <2>3. \A t \in Segs \ {s} : \A lo, hi \in Int :
            Ordered(Line(st.c[c]), t, lo, hi) => Ordered(Line(k), t, lo, hi)
    <3> HIDE DEF IsRead
    <3> QED
      BY <2>1, <2>2, OrderedTailOther
  <2>4. Ordered(Line(k), s, Len(x.got) + 1, Until(x, c))
    <3>1. Until(x, c) = y.next
      BY <1>12, <1>15 DEF Until
    <3>2. Ordered(Line(k), s, (Len(y.got) + 1) + 1, y.next)
      BY <1>1, <1>5, <1>11, <2>1, Zenon
    <3> QED
      BY <1>16, <1>17, <3>1, <3>2, Zenon
  <2>5. ASSUME NEW d \in Chans \ {c} PROVE Ordered(Line(st.c[d]), s, Len(x.got) + 1, Until(x, d))
    <3>1. Ordered(Line(st.c[d]), s, Len(st.s[s].got) + 1, Until(st.s[s], d))
      BY <1>1, <1>14 DEF Tiled
    <3>2. Until(st.s[s], d) = g /\ Until(x, d) = g + 1
      BY <1>11, <1>12, <1>15, <1>16, <1>17 DEF Until
    <3>3. Ordered(Line(st.c[d]), s, g + 1, g)
      BY <1>11, <1>16, <3>1, <3>2, Zenon
    <3>4. g + 1 \in Int /\ g \in Int /\ g < g + 1 /\ (g + 1) + 1 \in Int /\ g + 1 < (g + 1) + 1
      OBVIOUS
    <3>5. Ordered(Line(st.c[d]), s, (g + 1) + 1, g + 1)
      BY <3>3, <3>4, OrderedNone
    <3> QED
      BY <1>17, <3>2, <3>5, Zenon
  <2> QED
    BY <1>1, <1>5, <1>13, <1>14, <1>18, <2>3, <2>4, <2>5, ChangedTiled
<1>20. Counted(nw)
  <2>1. st.c[c].requested \in Int /\ st.c[c].responded \in Int
    BY <1>5, Fields
  <2>2. k.requested - k.responded = (st.c[c].requested - st.c[c].responded) + -1
    BY <1>10, <2>1
  <2>3. x.outstanding = st.s[s].outstanding + -1
    BY <1>11, <1>12, <1>15
  <2>4. st.s[s].conn = c /\ x.conn = c
    BY <1>11, <1>12, <1>15
  <2> QED
    BY <1>1, <1>5, <1>13, <1>14, <2>2, <2>3, <2>4, CountedStep
<1>21. Owned(nw)
  <2>1. x.stall = st.s[s].stall /\ k.blocked = st.c[c].blocked
    BY <1>10, <1>11, <1>12, Zenon
  <2> QED
    BY <1>1, <1>5, <1>13, <1>14, <2>1, OwnedSame
<1>22. y.buffer \in 0..BufferSize - 1 /\ x.buffer \in 0..BufferSize
  <2>1. y.buffer \in 0..BufferSize - 1
    BY <1>1, <1>11, Zenon
  <2> QED
    BY <1>12, <2>1, SizeAssumption
<1>23. Pooled(nw)
  <2>1. Held(x) <= Held(y)
    BY <1>12, <1>15, <1>22 DEF Held, NoBuffer
  <2>2. Held(x) <= Held(st.s[s])
    BY <1>11, <2>1, Zenon
  <2> QED
    BY <1>1, <1>5, <1>13, <1>14, <2>2, PooledFewer
<1>24. Nearly(nw, s)
  BY <1>1, <1>13, <1>14, <1>19, <1>20, <1>21, <1>23, NearlyChanged, ZenonT(60)
<1>25. nw.s[s] = x /\ nw.c[c] = k
  BY <1>1, <1>5, <1>13, ChangedFacts
<1>26. x.conn = c /\ x.stall = NoChannel /\ x.waits = "no" /\ x.opened /\ ~k.blocked
  BY <1>1, <1>2, <1>5, <1>10, <1>11, <1>12, Zenon
<1>27. x \in SegmentState
  OBVIOUS
<1> QED
  BY <1>18, <1>22, <1>24, <1>25, <1>26, <1>27, Zenon

\* process_segment_data
LEMMA ProcessSegmentDataGood ==
  ASSUME IInv, NEW c \in Chans, NEW congested, ProcessSegmentData(c, congested), UNCHANGED backpressure
  PROVE  IInv'
<1>1. PICK s : s = Head(chan[c].sent).seg
  OBVIOUS
<1>2. PICK nw : nw = Arrived(Taken(c), s, c, Head(chan[c].sent).block)
  OBVIOUS
<1>3. Replied(c, "read")
  BY DEF ProcessSegmentData
<1>4. s \in Segs /\ seg[s].conn = c
  BY <1>1, <1>3, ReadFacts
<1>5. /\ Nearly(nw, s) /\ nw.s[s] \in SegmentState
      /\ nw.s[s].conn = c /\ nw.s[s].stall = NoChannel /\ nw.s[s].waits = "no" /\ nw.s[s].opened
      /\ nw.s[s].buffer \in 0..BufferSize
      /\ Received(nw.s[s]) /\ ~nw.c[c].blocked
  <2>1. Arrives(c, s, nw)
    BY <1>1, <1>2, Zenon DEF Arrives
  <2> QED
    BY <1>3, <2>1, DataFacts
<1>6. Become(IF Len(nw.s[s].got) >= Length
             THEN [HandOver(nw, s) EXCEPT !.s[s].phase = "finalizing"]
             ELSE IF nw.s[s].buffer = BufferSize
             THEN BufferThenRequest(nw, s, c, congested)
             ELSE RequestSegments(nw, c, congested))
  BY <1>1, <1>2, <1>4, Zenon DEF ProcessSegmentData, Arrived
<1>7. CASE Len(nw.s[s].got) >= Length
  <2>1. nw.s[s].outstanding = 0
    <3>1. nw.s[s].next = Len(nw.s[s].got) + nw.s[s].outstanding
      BY <1>5 DEF Received
    <3>2. /\ nw.s[s].next \in 0..Length /\ nw.s[s].outstanding \in 0..Length
          /\ nw.s[s].got \in Seq(1..Length)
      BY <1>5 DEF SegmentState
    <3>3. Len(nw.s[s].got) \in Nat /\ Length \in Nat
      BY <3>2, LenProperties, SizeAssumption
    <3> QED
      BY <1>7, <3>1, <3>2, <3>3
  <2>2. Good([HandOver(nw, s) EXCEPT !.s[s].phase = "finalizing"])
    BY <1>4, <1>5, <2>1, FinalizingGood
  <2>3. Become([HandOver(nw, s) EXCEPT !.s[s].phase = "finalizing"])
    BY <1>6, <1>7, Zenon
  <2> QED
    BY <2>2, <2>3, BecomeGood
<1>8. CASE ~(Len(nw.s[s].got) >= Length) /\ nw.s[s].buffer = BufferSize
  <2>1. Good(BufferThenRequest(nw, s, c, congested))
    BY <1>4, <1>5, BufferThenRequestGood
  <2>2. Become(BufferThenRequest(nw, s, c, congested))
    BY <1>6, <1>8, Zenon
  <2> QED
    BY <2>1, <2>2, BecomeGood
<1>9. CASE ~(Len(nw.s[s].got) >= Length) /\ nw.s[s].buffer # BufferSize
  <2>1. Buffered(nw.s[s]) /\ nw.s[s].buffer < BufferSize
    <3>1. nw.s[s].buffer # NoBuffer
      BY <1>5 DEF NoBuffer
    <3>2. nw.s[s].buffer < BufferSize
      BY <1>5, <1>9, SizeAssumption
    <3> QED
      BY <1>5, <3>1, <3>2 DEF Buffered
  <2>2. Good(nw)
    BY <1>4, <1>5, <2>1, NearlyGood
  <2>3. Good(RequestSegments(nw, c, congested))
    BY <2>2, RequestSegmentsGood
  <2>4. Become(RequestSegments(nw, c, congested))
    BY <1>6, <1>9, Zenon
  <2> QED
    BY <2>3, <2>4, BecomeGood
<1> QED
  BY <1>7, <1>8, <1>9

\* A step of one segment that requests and receives nothing.
LEMMA SegmentGood ==
  ASSUME IInv, NEW s \in Segs, NEW x \in SegmentState, seg' = [seg EXCEPT ![s] = x],
         UNCHANGED <<chan, backpressure>>,
         SameRequests(seg[s], x), x.stall = seg[s].stall, x.waits = seg[s].waits,
         x.buffer = seg[s].buffer, x.opened = seg[s].opened, x.writing <= seg[s].writing
  PROVE  IInv'
<1>1. PICK st : st = Now
  OBVIOUS
<1>2. /\ Good(st) /\ st \in State /\ st.c = chan /\ st.s = seg
      /\ chan \in [Chans -> ChannelState] /\ seg \in [Segs -> SegmentState]
  BY <1>1, NowFacts
<1>3. PICK c \in Chans : TRUE
  BY SizeAssumption DEF Chans
<1>4. PICK nw : nw = [c |-> st.c, s |-> [st.s EXCEPT ![s] = x]]
  OBVIOUS
<1>5. PICK k \in ChannelState : k = st.c[c]
  BY <1>2, Fields
<1>6. Changed(st, nw, c, k, s, x)
  <2>1. Changed(st, nw, c, st.c[c], s, x)
    BY <1>2, <1>4, SegmentOnly
  <2> QED
    BY <1>5, <2>1, Zenon
<1>7. Buffered(st.s[s]) /\ st.s[s].buffer < BufferSize
  BY <1>2, NearlyGood
<1>8. PICK y \in SegmentState : y = st.s[s] /\ y = seg[s]
  BY <1>2
<1>9. /\ SameRequests(y, x) /\ x.stall = y.stall /\ x.waits = y.waits
      /\ x.buffer = y.buffer /\ x.opened = y.opened /\ x.writing <= y.writing
  BY <1>8, Zenon
<1>10. Buffered(x) /\ x.buffer < BufferSize
  <2>1. Buffered(y) /\ y.buffer < BufferSize
    BY <1>7, <1>8, Zenon
  <2> QED
    BY <1>9, <2>1 DEF Buffered, SameRequests
<1>11. Held(x) <= Held(y)
  <2>1. x.writing \in Int /\ y.writing \in Int
    BY DEF SegmentState
  <2> QED
    BY <1>9, <2>1 DEF Held
<1>12. /\ Line(k) = Line(st.c[c]) /\ k.requested = st.c[c].requested
       /\ k.responded = st.c[c].responded /\ k.blocked = st.c[c].blocked
  BY <1>5, Zenon
<1>13. SameRequests(st.s[s], x) /\ x.stall = st.s[s].stall /\ Held(x) <= Held(st.s[s])
  BY <1>8, <1>9, <1>11, Zenon
<1>14. Good(nw)
  BY <1>2, <1>6, <1>10, <1>12, <1>13, KeepGood
<1>15. Become(nw)
  <2>1. nw.c = chan' /\ nw.s = seg'
    BY <1>2, <1>4
  <2> QED
    BY <2>1 DEF Become
<1> QED
  BY <1>14, <1>15, BecomeGood

\* The writer's thread
LEMMA WriteBufferGood ==
  ASSUME IInv, NEW s \in Segs, WriteBuffer(s), UNCHANGED backpressure
  PROVE  IInv'
<1>1. seg[s] \in SegmentState
  BY NowFacts
<1>2. PICK w : w = seg[s].writing - 1
  OBVIOUS
<1>3. w \in 0..Pool /\ w <= seg[s].writing
  <2>1. seg[s].writing \in 0..Pool /\ Pool \in Nat
    BY <1>1, SizeAssumption DEF SegmentState
  <2>2. seg[s].writing > 0
    BY DEF WriteBuffer
  <2> QED
    BY <1>2, <2>1, <2>2
<1>4. PICK x : x = [seg[s] EXCEPT !.writing = w]
  OBVIOUS
<1>5. /\ x \in SegmentState /\ x.writing = w
      /\ x.conn = seg[s].conn /\ x.next = seg[s].next /\ x.outstanding = seg[s].outstanding
      /\ x.got = seg[s].got /\ x.stall = seg[s].stall /\ x.waits = seg[s].waits
      /\ x.buffer = seg[s].buffer /\ x.opened = seg[s].opened
  BY <1>1, <1>3, <1>4 DEF SegmentState
<1>6. seg' = [seg EXCEPT ![s] = x] /\ chan' = chan
  <2>1. seg' = [seg EXCEPT ![s].writing = w] /\ chan' = chan
    BY <1>2 DEF WriteBuffer
  <2> QED
    BY <1>4, <2>1
<1> QED
  BY <1>3, <1>5, <1>6, SegmentGood DEF SameRequests

\* finalize_segment
LEMMA FinalizeSegmentGood ==
  ASSUME IInv, NEW s \in Segs, FinalizeSegment(s), UNCHANGED backpressure
  PROVE  IInv'
<1>1. seg[s] \in SegmentState
  BY NowFacts
<1>2. PICK x : x = [seg[s] EXCEPT !.phase = "done"]
  OBVIOUS
<1>3. /\ x \in SegmentState /\ x.writing = seg[s].writing
      /\ x.conn = seg[s].conn /\ x.next = seg[s].next /\ x.outstanding = seg[s].outstanding
      /\ x.got = seg[s].got /\ x.stall = seg[s].stall /\ x.waits = seg[s].waits
      /\ x.buffer = seg[s].buffer /\ x.opened = seg[s].opened
  BY <1>1, <1>2 DEF SegmentState
<1>4. seg' = [seg EXCEPT ![s] = x] /\ chan' = chan
  BY <1>2 DEF FinalizeSegment
<1>5. x.writing <= seg[s].writing
  <2>1. seg[s].writing \in Int
    BY <1>1 DEF SegmentState
  <2> QED
    BY <1>3, <2>1
<1> QED
  BY <1>3, <1>4, <1>5, SegmentGood DEF SameRequests

\* A segment that waits for a buffer has none, and stalls a channel.
LEMMA WaitingFacts ==
  ASSUME IInv, NEW s \in Segs, seg[s].waits # "no"
  PROVE  /\ Nearly(Now, s) /\ seg[s] \in SegmentState /\ seg[s].conn \in Chans
         /\ seg[s].buffer = NoBuffer /\ seg[s].stall # NoChannel /\ seg[s].opened
         /\ seg[s].outstanding > 0 => seg[s].stall = seg[s].conn
<1>1. /\ Good(Now) /\ Now \in State /\ Now.s = seg /\ seg \in [Segs -> SegmentState]
  BY NowFacts
<1>2. Nearly(Now, s) /\ Buffered(Now.s[s])
  BY <1>1, NearlyGood
<1>3. Buffered(seg[s])
  BY <1>1, <1>2, Zenon
<1>4. seg[s] \in SegmentState /\ seg[s].conn \in Chans
  <2>1. seg[s] \in SegmentState
    BY <1>1
  <2> QED
    BY <2>1 DEF SegmentState
<1> QED
  BY <1>2, <1>3, <1>4 DEF Buffered

\* on_segment_buffer_availability, for the writer
LEMMA OnWriterAvailableGood ==
  ASSUME IInv, NEW s \in Segs, NEW congested, OnWriterAvailable(s, congested), UNCHANGED backpressure
  PROVE  IInv'
<1>1. PICK st : st = Now
  OBVIOUS
<1>2. PICK got : got = GetNextBuffer(st, s)
  OBVIOUS
<1>3. st.s = seg
  BY <1>1 DEF Now
<1>4. /\ Nearly(st, s) /\ seg[s] \in SegmentState /\ seg[s].conn \in Chans
      /\ seg[s].buffer = NoBuffer /\ seg[s].stall # NoChannel /\ seg[s].opened
      /\ seg[s].outstanding > 0 => seg[s].stall = seg[s].conn
  <2>1. seg[s].waits # "no"
    BY DEF OnWriterAvailable
  <2>2. /\ Nearly(Now, s) /\ seg[s] \in SegmentState /\ seg[s].conn \in Chans
        /\ seg[s].buffer = NoBuffer /\ seg[s].stall # NoChannel /\ seg[s].opened
        /\ seg[s].outstanding > 0 => seg[s].stall = seg[s].conn
    BY <2>1, WaitingFacts
  <2> QED
    BY <1>1, <2>2, Zenon
<1>5. /\ Nearly(got, s) /\ SameRequests(st.s[s], got.s[s]) /\ SameRest(st.s[s], got.s[s])
      /\ got.s[s].buffer = IF got.s[s].waits = "no" THEN 0 ELSE NoBuffer
  BY <1>2, <1>4, Refilled
<1>6. PICK x : x = got.s[s]
  OBVIOUS
<1>7. /\ x.conn = seg[s].conn /\ x.outstanding = seg[s].outstanding
      /\ x.opened = seg[s].opened /\ x.stall = seg[s].stall
      /\ x.buffer = IF x.waits = "no" THEN 0 ELSE NoBuffer
  <2>1. SameRequests(seg[s], x) /\ SameRest(seg[s], x)
    BY <1>3, <1>5, <1>6, Zenon
  <2>2. x.buffer = IF x.waits = "no" THEN 0 ELSE NoBuffer
    BY <1>5, <1>6, Zenon
  <2> QED
    BY <2>1, <2>2 DEF SameRequests, SameRest
<1>8. Become(IF got.s[s].waits = "no"
             THEN RequestSegments(Unstall(got, s), seg[s].conn, congested)
             ELSE got)
  BY <1>1, <1>2, Zenon DEF OnWriterAvailable, Now
<1>9. CASE got.s[s].waits = "no"
  <2>1. got.s[s].opened /\ got.s[s].buffer = 0
    BY <1>4, <1>6, <1>7, <1>9
  <2>2. Good(Unstall(got, s))
    BY <1>5, <1>9, <2>1, UnstallGood
  <2>3. Good(RequestSegments(Unstall(got, s), seg[s].conn, congested))
    BY <1>4, <2>2, RequestSegmentsGood
  <2>4. Become(RequestSegments(Unstall(got, s), seg[s].conn, congested))
    BY <1>8, <1>9, Zenon
  <2> QED
    BY <2>3, <2>4, BecomeGood
<1>10. CASE got.s[s].waits # "no"
  <2>1. x.waits # "no" /\ x.buffer = NoBuffer
    BY <1>6, <1>7, <1>10
  <2>2. Buffered(x) /\ x.buffer < BufferSize
    BY <1>4, <1>7, <2>1, SizeAssumption DEF Buffered, NoBuffer
  <2>3. Buffered(got.s[s]) /\ got.s[s].buffer < BufferSize
    BY <1>6, <2>2, Zenon
  <2>4. Good(got)
    BY <1>5, <2>3, NearlyGood
  <2>5. Become(got)
    BY <1>8, <1>10, Zenon
  <2> QED
    BY <2>4, <2>5, BecomeGood
<1> QED
  BY <1>9, <1>10

\* on_segment_buffer_availability, for the pool
LEMMA OnPoolAvailableGood ==
  ASSUME IInv, NEW s \in Segs, NEW congested, OnPoolAvailable(s, congested), UNCHANGED backpressure
  PROVE  IInv'
<1>1. PICK st : st = Now
  OBVIOUS
<1>2. /\ st \in State /\ st.c = chan /\ st.s = seg
      /\ chan \in [Chans -> ChannelState] /\ seg \in [Segs -> SegmentState]
  BY <1>1, NowFacts
<1>3. PICK y \in SegmentState : y = seg[s]
  BY <1>2
<1>4. /\ Nearly(st, s) /\ y.conn \in Chans
      /\ y.buffer = NoBuffer /\ y.stall # NoChannel /\ y.opened
  <2>1. seg[s].waits # "no"
    BY DEF OnPoolAvailable
  <2>2. /\ Nearly(Now, s) /\ seg[s].conn \in Chans
        /\ seg[s].buffer = NoBuffer /\ seg[s].stall # NoChannel /\ seg[s].opened
    BY <2>1, WaitingFacts
  <2> QED
    BY <1>1, <1>3, <2>2, Zenon
<1>5. PICK u : u = [y EXCEPT !.waits = "no"]
  OBVIOUS
<1>6. PICK x : x = [u EXCEPT !.buffer = 0]
  OBVIOUS
<1>7. /\ x \in SegmentState /\ x.conn = y.conn /\ x.next = y.next /\ x.outstanding = y.outstanding
      /\ x.got = y.got /\ x.opened = y.opened /\ x.stall = y.stall /\ x.writing = y.writing
      /\ x.waits = "no" /\ x.buffer = 0
  <2>1. 0 \in NoBuffer..BufferSize
    BY SizeAssumption DEF NoBuffer
  <2> QED
    BY <1>5, <1>6, <2>1 DEF SegmentState
<1>8. PICK got : got = [c |-> st.c, s |-> [st.s EXCEPT ![s] = x]]
  OBVIOUS
<1>9. [c |-> chan, s |-> [seg EXCEPT ![s].waits = "no", ![s].buffer = 0]] = got
  <2>1. [seg EXCEPT ![s].waits = "no", ![s].buffer = 0]
          = [[seg EXCEPT ![s].waits = "no"] EXCEPT ![s].buffer = 0]
    BY Zenon
  <2>2. [seg EXCEPT ![s].waits = "no"] = [seg EXCEPT ![s] = u]
    BY <1>3, <1>5
  <2>3. [[seg EXCEPT ![s] = u] EXCEPT ![s].buffer = 0] = [seg EXCEPT ![s] = x]
    BY <1>2, <1>6
  <2> QED
    BY <1>2, <1>8, <2>1, <2>2, <2>3, Zenon
<1>10. PICK c \in Chans : TRUE
  BY SizeAssumption DEF Chans
<1>11. PICK k \in ChannelState : k = st.c[c]
  BY <1>2, Fields
<1>12. Changed(st, got, c, k, s, x)
  <2>1. Changed(st, got, c, st.c[c], s, x)
    BY <1>2, <1>7, <1>8, SegmentOnly
  <2> QED
    BY <1>11, <2>1, Zenon
<1>13. Tiled(st) /\ Counted(st) /\ Owned(st) /\ Pooled(st)
  BY <1>4 DEF Nearly
<1>14. /\ Line(k) = Line(st.c[c]) /\ k.requested = st.c[c].requested
       /\ k.responded = st.c[c].responded /\ k.blocked = st.c[c].blocked
  BY <1>11, Zenon
<1>15. SameRequests(st.s[s], x) /\ x.stall = st.s[s].stall
  <2>1. SameRequests(y, x)
    BY <1>7 DEF SameRequests
  <2> QED
    BY <1>2, <1>3, <1>7, <2>1, Zenon
<1>16. Tiled(got) /\ Counted(got)
  BY <1>2, <1>7, <1>12, <1>13, <1>14, <1>15, KeepRequests
<1>17. Owned(got)
  BY <1>2, <1>7, <1>12, <1>13, <1>14, <1>15, OwnedSame
<1>18. Pooled(got)
  <2>1. Held(x) = Held(y) + 1
    <3>1. y.writing \in Int
      BY DEF SegmentState
    <3> QED
      BY <1>4, <1>7, <3>1 DEF Held, NoBuffer
  <2>2. Held(x) = Held(st.s[s]) + 1
    BY <1>2, <1>3, <2>1, Zenon
  <2>3. Free(st) > 0
    <3>1. Free([c |-> chan, s |-> seg]) > 0
      BY DEF OnPoolAvailable
    <3> QED
      BY <1>1, <3>1, Zenon DEF Now
  <2> QED
    BY <1>2, <1>7, <1>12, <1>13, <2>2, <2>3, PooledMore
<1>19. Nearly(got, s)
  BY <1>4, <1>7, <1>12, <1>16, <1>17, <1>18, NearlyChanged
<1>20. got.s[s] = x
  BY <1>2, <1>7, <1>12, ChangedFacts
<1>21. Good(Unstall(got, s))
  <2>1. got.s[s].opened /\ got.s[s].waits = "no" /\ got.s[s].buffer = 0
    BY <1>4, <1>7, <1>20
  <2> QED
    BY <1>19, <2>1, UnstallGood
<1>22. seg[s].conn \in Chans
  BY <1>3, <1>4, Zenon
<1>23. Good(RequestSegments(Unstall(got, s), seg[s].conn, congested))
  BY <1>21, <1>22, RequestSegmentsGood
<1>24. Become(RequestSegments(Unstall(got, s), seg[s].conn, congested))
  BY <1>9, Zenon DEF OnPoolAvailable
<1> QED
  BY <1>23, <1>24, BecomeGood

-----------------------------------------------------------------------------
(* A segment moves to another channel.                                     *)

\* Requests are cancelled in the output buffer and among those sent alike.
LEMMA DeadFacts ==
  ASSUME NEW q \in Seq(Packet), NEW s \in Segs
  PROVE  /\ Dead(q, s) \in Seq(Packet) /\ Len(Dead(q, s)) = Len(q)
         /\ \A n \in 1..Len(q) :
              Dead(q, s)[n] = IF q[n].seg = s THEN [q[n] EXCEPT !.live = FALSE] ELSE q[n]
<1>1. Len(q) \in Nat /\ DOMAIN q = 1..Len(q)
  BY LenProperties
<1>2. PICK r : r = Dead(q, s)
  OBVIOUS
<1>3. r = [n \in 1..Len(q) |-> IF q[n].seg = s THEN [q[n] EXCEPT !.live = FALSE] ELSE q[n]]
  BY <1>1, <1>2, Zenon DEF Dead
<1>4. DOMAIN r = 1..Len(q)
  BY <1>3
<1>5. r \in Seq(Packet)
  <2>1. Cancelled(q, r, s)
    BY <1>2, Zenon DEF Cancelled
  <2> QED
    BY <2>1, OrderedCancelled
<1>6. Len(r) = Len(q)
  BY <1>1, <1>4, <1>5, LenProperties
<1>7. \A n \in 1..Len(q) : r[n] = IF q[n].seg = s THEN [q[n] EXCEPT !.live = FALSE] ELSE q[n]
  BY <1>3
<1> QED
  BY <1>2, <1>5, <1>6, <1>7, Zenon

\* So they are on the whole line.
LEMMA DeadLine ==
  ASSUME NEW a \in Seq(Packet), NEW b \in Seq(Packet), NEW s \in Segs
  PROVE  Dead(a, s) \o Dead(b, s) = Dead(a \o b, s)
<1>1. /\ a \o b \in Seq(Packet) /\ Len(a \o b) = Len(a) + Len(b)
      /\ \A i \in 1..Len(a) + Len(b) : (a \o b)[i] = IF i <= Len(a) THEN a[i] ELSE b[i - Len(a)]
  BY ConcatProperties
<1>2. Len(a) \in Nat /\ Len(b) \in Nat
  BY LenProperties
<1>3. PICK x : x = Dead(a, s)
  OBVIOUS
<1>4. PICK y : y = Dead(b, s)
  OBVIOUS
<1>5. PICK z : z = Dead(a \o b, s)
  OBVIOUS
<1>6. /\ x \in Seq(Packet) /\ Len(x) = Len(a)
      /\ \A n \in 1..Len(a) : x[n] = IF a[n].seg = s THEN [a[n] EXCEPT !.live = FALSE] ELSE a[n]
  <2>1. /\ Dead(a, s) \in Seq(Packet) /\ Len(Dead(a, s)) = Len(a)
        /\ \A n \in 1..Len(a) :
             Dead(a, s)[n] = IF a[n].seg = s THEN [a[n] EXCEPT !.live = FALSE] ELSE a[n]
    BY DeadFacts, Zenon
  <2> QED
    BY <1>3, <2>1, Zenon
<1>7. /\ y \in Seq(Packet) /\ Len(y) = Len(b)
      /\ \A n \in 1..Len(b) : y[n] = IF b[n].seg = s THEN [b[n] EXCEPT !.live = FALSE] ELSE b[n]
  <2>1. /\ Dead(b, s) \in Seq(Packet) /\ Len(Dead(b, s)) = Len(b)
        /\ \A n \in 1..Len(b) :
             Dead(b, s)[n] = IF b[n].seg = s THEN [b[n] EXCEPT !.live = FALSE] ELSE b[n]
    BY DeadFacts, Zenon
  <2> QED
    BY <1>4, <2>1, Zenon
<1>8. /\ z \in Seq(Packet) /\ Len(z) = Len(a) + Len(b)
      /\ \A n \in 1..Len(a) + Len(b) :
           z[n] = IF (a \o b)[n].seg = s THEN [(a \o b)[n] EXCEPT !.live = FALSE] ELSE (a \o b)[n]
  <2>1. /\ Dead(a \o b, s) \in Seq(Packet) /\ Len(Dead(a \o b, s)) = Len(a \o b)
        /\ \A n \in 1..Len(a \o b) :
             Dead(a \o b, s)[n] = IF (a \o b)[n].seg = s THEN [(a \o b)[n] EXCEPT !.live = FALSE] ELSE (a \o b)[n]
    BY <1>1, DeadFacts, Zenon
  <2> QED
    BY <1>1, <1>5, <2>1, Zenon
<1>9. /\ x \o y \in Seq(Packet) /\ Len(x \o y) = Len(a) + Len(b)
      /\ \A i \in 1..Len(a) + Len(b) : (x \o y)[i] = IF i <= Len(a) THEN x[i] ELSE y[i - Len(a)]
  <2>1. /\ x \o y \in Seq(Packet) /\ Len(x \o y) = Len(x) + Len(y)
        /\ \A i \in 1..Len(x) + Len(y) : (x \o y)[i] = IF i <= Len(x) THEN x[i] ELSE y[i - Len(x)]
    <3>1. x \in Seq(Packet) /\ y \in Seq(Packet)
      BY <1>6, <1>7, Zenon
    <3> HIDE DEF Packet
    <3> QED
      BY <3>1, ConcatProperties
  <2> QED
    BY <1>6, <1>7, <2>1, Zenon
<1>10. ASSUME NEW i \in 1..Len(a) + Len(b) PROVE (x \o y)[i] = z[i]
  <2>1. CASE i <= Len(a)
    <3>1. i \in 1..Len(a) /\ (a \o b)[i] = a[i] /\ (x \o y)[i] = x[i]
      BY <1>1, <1>2, <1>9, <2>1
    <3>2. x[i] = IF a[i].seg = s THEN [a[i] EXCEPT !.live = FALSE] ELSE a[i]
      BY <1>6, <3>1
    <3> QED
      BY <1>8, <3>1, <3>2, Zenon
  <2>2. CASE ~(i <= Len(a))
    <3>1. i - Len(a) \in 1..Len(b) /\ (a \o b)[i] = b[i - Len(a)] /\ (x \o y)[i] = y[i - Len(a)]
      BY <1>1, <1>2, <1>9, <2>2
    <3>2. y[i - Len(a)] = IF b[i - Len(a)].seg = s THEN [b[i - Len(a)] EXCEPT !.live = FALSE] ELSE b[i - Len(a)]
      BY <1>7, <3>1, Zenon
    <3> QED
      BY <1>8, <3>1, <3>2, Zenon
  <2> QED
    BY <2>1, <2>2
<1>11. x \o y = z
  <2>1. Len(x \o y) = Len(z) /\ \A i \in 1..Len(x \o y) : (x \o y)[i] = z[i]
    BY <1>8, <1>9, <1>10
  <2> HIDE DEF Packet
  <2> QED
    BY <1>8, <1>9, <2>1, SeqEqual
<1> QED
  BY <1>3, <1>4, <1>5, <1>11, Zenon

\* sftp_client::cancel, in terms of the channel it changes.
LEMMA CancelFacts ==
  ASSUME NEW st \in State, NEW s \in Segs, NEW d \in Chans, d = st.s[s].conn
  PROVE  \E k \in ChannelState :
           /\ Cancel(st, s) = [c |-> [st.c EXCEPT ![d] = k], s |-> st.s]
           /\ Cancelled(Line(st.c[d]), Line(k), s)
           /\ k.blocked = st.c[d].blocked /\ k.requested = st.c[d].requested
           /\ k.responded = st.c[d].responded
<1>1. PICK l \in ChannelState : l = st.c[d]
  BY Fields
<1>2. l.out \in Seq(Packet) /\ l.sent \in Seq(Packet)
  BY DEF ChannelState
<1>3. PICK a : a = Dead(l.out, s)
  OBVIOUS
<1>4. PICK b : b = Dead(l.sent, s)
  OBVIOUS
<1>5. a \in Seq(Packet) /\ b \in Seq(Packet) /\ b \o a = Dead(l.sent \o l.out, s)
  <2>1. Dead(l.out, s) \in Seq(Packet) /\ Dead(l.sent, s) \in Seq(Packet)
        /\ Dead(l.sent, s) \o Dead(l.out, s) = Dead(l.sent \o l.out, s)
    <3>1. Dead(l.out, s) \in Seq(Packet) /\ Dead(l.sent, s) \in Seq(Packet)
      BY <1>2, DeadFacts, Zenon
    <3>2. Dead(l.sent, s) \o Dead(l.out, s) = Dead(l.sent \o l.out, s)
      BY <1>2, DeadLine, Zenon
    <3> QED
      BY <3>1, <3>2, Zenon
  <2> QED
    BY <1>3, <1>4, <2>1, Zenon
<1>6. PICK m : m = [l EXCEPT !.out = a]
  OBVIOUS
<1>7. PICK k : k = [m EXCEPT !.sent = b]
  OBVIOUS
<1>8. /\ k \in ChannelState /\ k.out = a /\ k.sent = b /\ k.blocked = l.blocked
      /\ k.requested = l.requested /\ k.responded = l.responded
  <2>1. a \in Seq(Packet) /\ b \in Seq(Packet)
    BY <1>5
  <2> QED
    BY <1>6, <1>7, <2>1 DEF ChannelState
<1>9. PICK C : C = st.c
  OBVIOUS
<1>10. st = [c |-> C, s |-> st.s] /\ C[d] = l /\ C \in [Chans -> ChannelState]
  BY <1>1, <1>9 DEF State
<1>11. Cancel(st, s) = [[st EXCEPT !.c[d].out = a] EXCEPT !.c[d].sent = b]
  <2>1. Dead(st.c[d].out, s) = a /\ Dead(st.c[d].sent, s) = b
    BY <1>1, <1>3, <1>4, Zenon
  <2>2. Cancel(st, s) = [st EXCEPT !.c[d].out = a, !.c[d].sent = b]
    BY <2>1, Zenon DEF Cancel
  <2> QED
    BY <2>2, Zenon
<1>12. [st EXCEPT !.c[d].out = a] = [c |-> [C EXCEPT ![d] = m], s |-> st.s]
  BY <1>6, <1>10
<1>13. [[c |-> [C EXCEPT ![d] = m], s |-> st.s] EXCEPT !.c[d].sent = b]
         = [c |-> [C EXCEPT ![d] = k], s |-> st.s]
  BY <1>7, <1>10
<1>14. Cancel(st, s) = [c |-> [st.c EXCEPT ![d] = k], s |-> st.s]
  BY <1>9, <1>11, <1>12, <1>13, Zenon
<1>15. Cancelled(Line(st.c[d]), Line(k), s)
  BY <1>1, <1>5, <1>8, Zenon DEF Cancelled, Line
<1> QED
  BY <1>1, <1>8, <1>14, <1>15, Zenon

\* A packet that asks for nothing is sent.
LEMMA SendGood ==
  ASSUME NEW st, Good(st), NEW c \in Chans, NEW p \in Packet, \A t \in Segs : ~IsRead(p, t), NEW congested
  PROVE  Good(Send(st, c, p, congested))
<1>1. st \in State
  BY DEF Good, Base
<1>2. PICK nw : nw = Send(st, c, p, congested)
  OBVIOUS
<1>3. PICK l \in ChannelState : l = st.c[c]
  BY <1>1, Fields
<1>4. PICK k : k = SentOn(l, p, congested)
  OBVIOUS
<1>5. /\ k \in ChannelState /\ Line(k) = Append(Line(l), p) /\ k.blocked = l.blocked
      /\ k.requested = l.requested /\ k.responded = l.responded
  <2>1. /\ SentOn(l, p, congested) \in ChannelState
        /\ Line(SentOn(l, p, congested)) = Append(Line(l), p)
        /\ SentOn(l, p, congested).blocked = l.blocked
        /\ SentOn(l, p, congested).requested = l.requested
        /\ SentOn(l, p, congested).responded = l.responded
    BY SentOnFacts
  <2> QED
    BY <1>4, <2>1, Zenon
<1>6. nw = [c |-> [st.c EXCEPT ![c] = k], s |-> st.s]
  <2>1. Send(st, c, p, congested) = [c |-> [st.c EXCEPT ![c] = SentOn(st.c[c], p, congested)], s |-> st.s]
    BY <1>1, SendChanges
  <2> QED
    BY <1>2, <1>3, <1>4, <2>1, Zenon
<1>7. PICK s \in Segs : TRUE
  BY SizeAssumption DEF Segs
<1>8. PICK x \in SegmentState : x = st.s[s]
  BY <1>1, Fields
<1>9. Changed(st, nw, c, k, s, x)
  <2>1. st.s \in [Segs -> SegmentState]
    BY <1>1 DEF State
  <2>2. [st.s EXCEPT ![s] = x] = st.s
    BY <1>8, <2>1
  <2> QED
    BY <1>6, <2>2, Zenon DEF Changed
<1>10. Tiled(st) /\ Counted(st) /\ Owned(st) /\ Pooled(st) /\ Nearly(st, s)
  BY NearlyGood DEF Nearly
<1>11. \A t \in Segs : \A lo, hi \in Int : Ordered(Line(st.c[c]), t, lo, hi) => Ordered(Line(k), t, lo, hi)
  <2>1. Line(st.c[c]) \in Seq(Packet) /\ Line(k) = Append(Line(st.c[c]), p)
    BY <1>1, <1>3, <1>5, Fields
  <2> HIDE DEF IsRead
  <2> QED
    BY <2>1, OrderedOther
<1>12. \A d \in Chans : Ordered(Line(st.c[d]), s, Len(x.got) + 1, Until(x, d))
  <2>1. \A d \in Chans : Ordered(Line(st.c[d]), s, Len(st.s[s].got) + 1, Until(st.s[s], d))
    BY <1>10 DEF Tiled
  <2> QED
    BY <1>8, <2>1, Zenon
<1>13. Tiled(nw)
  <2>1. Len(x.got) + 1 \in Int /\ Until(x, c) \in Int
    <3>1. Len(st.s[s].got) \in Nat /\ st.s[s].next \in Int
      BY <1>1, Fields
    <3> QED
      BY <1>8, <3>1 DEF Until
  <2>2. Ordered(Line(k), s, Len(x.got) + 1, Until(x, c))
    BY <1>11, <1>12, <2>1
  <2>3. Received(x)
    BY <1>8, <1>10 DEF Tiled
  <2> QED
    <3>1. \A t \in Segs \ {s} : \A lo, hi \in Int :
            Ordered(Line(st.c[c]), t, lo, hi) => Ordered(Line(k), t, lo, hi)
      BY <1>11
    <3>2. \A d \in Chans \ {c} : Ordered(Line(st.c[d]), s, Len(x.got) + 1, Until(x, d))
      BY <1>12
    <3>3. k \in ChannelState /\ Tiled(st)
      BY <1>5, <1>10
    <3> QED
      BY <1>1, <1>9, <2>2, <2>3, <3>1, <3>2, <3>3, ChangedTiled
<1>14. /\ k.blocked = st.c[c].blocked /\ k.requested = st.c[c].requested
       /\ k.responded = st.c[c].responded
  BY <1>3, <1>5, Zenon
<1>15. x.conn = st.s[s].conn /\ x.outstanding = st.s[s].outstanding /\ x.stall = st.s[s].stall
  BY <1>8, Zenon
<1>16. Counted(nw)
  BY <1>1, <1>5, <1>9, <1>10, <1>14, <1>15, CountedSame
<1>17. Owned(nw)
  BY <1>1, <1>5, <1>9, <1>10, <1>14, <1>15, OwnedSame
<1>18. Pooled(nw)
  <2>1. Held(x) <= Held(x)
    <3>1. x.writing \in Int
      BY DEF SegmentState
    <3> QED
      BY <3>1 DEF Held
  <2>2. Held(x) <= Held(st.s[s])
    BY <1>8, <2>1, Zenon
  <2> QED
    BY <1>1, <1>5, <1>9, <1>10, <2>2, PooledFewer
<1>19. Buffered(x) /\ x.buffer < BufferSize
  <2>1. Buffered(st.s[s]) /\ st.s[s].buffer < BufferSize
    BY NearlyGood
  <2> QED
    BY <1>8, <2>1, Zenon
<1>20. Good(nw)
  BY <1>5, <1>9, <1>10, <1>13, <1>16, <1>17, <1>18, <1>19, NearlyChanged
<1> QED
  BY <1>2, <1>20, Zenon

\* Closing the handle on the old channel cancels nothing more.
LEMMA ClosedFacts ==
  ASSUME NEW st \in State, NEW s \in Segs, NEW d \in Chans, d = st.s[s].conn, NEW congested
  PROVE  \E k \in ChannelState :
           /\ CloseHandle(Cancel(st, s), s, congested) = [c |-> [st.c EXCEPT ![d] = k], s |-> st.s]
           /\ \A lo, hi \in Int : hi < lo => Ordered(Line(k), s, lo, hi)
           /\ \A t \in Segs \ {s} : \A lo, hi \in Int :
                Ordered(Line(st.c[d]), t, lo, hi) => Ordered(Line(k), t, lo, hi)
           /\ k.blocked = st.c[d].blocked /\ k.requested = st.c[d].requested
           /\ k.responded = st.c[d].responded
<1>1. PICK w : w = Cancel(st, s)
  OBVIOUS
<1>2. PICK l \in ChannelState :
           /\ w = [c |-> [st.c EXCEPT ![d] = l], s |-> st.s]
           /\ Cancelled(Line(st.c[d]), Line(l), s)
           /\ l.blocked = st.c[d].blocked /\ l.requested = st.c[d].requested
           /\ l.responded = st.c[d].responded
  <2>1. \E k \in ChannelState :
           /\ Cancel(st, s) = [c |-> [st.c EXCEPT ![d] = k], s |-> st.s]
           /\ Cancelled(Line(st.c[d]), Line(k), s)
           /\ k.blocked = st.c[d].blocked /\ k.requested = st.c[d].requested
           /\ k.responded = st.c[d].responded
    BY CancelFacts
  <2> QED
    BY <1>1, <2>1, Zenon
<1>3. PICK q \in Seq(Packet) : q = Line(st.c[d])
  BY Fields
<1>4. PICK r : r = Line(l)
  OBVIOUS
<1>5. /\ r \in Seq(Packet)
      /\ \A lo, hi \in Int : hi < lo => Ordered(r, s, lo, hi)
      /\ \A t \in Segs \ {s} : \A lo, hi \in Int : Ordered(q, t, lo, hi) => Ordered(r, t, lo, hi)
  <2>1. Cancelled(q, r, s)
    BY <1>2, <1>3, <1>4, Zenon
  <2> QED
    BY <2>1, OrderedCancelled
<1>6. w \in State /\ w.s = st.s /\ w.c[d] = l /\ \A z : [w.c EXCEPT ![d] = z] = [st.c EXCEPT ![d] = z]
  <2>1. st.c \in [Chans -> ChannelState] /\ st.s \in [Segs -> SegmentState]
    BY DEF State
  <2>2. PICK C : C = [st.c EXCEPT ![d] = l]
    OBVIOUS
  <2>3. w = [c |-> C, s |-> st.s]
    BY <1>2, <2>2, Zenon
  <2> HIDE DEF ChannelState, SegmentState
  <2>4. C \in [Chans -> ChannelState] /\ C[d] = l /\ \A z : [C EXCEPT ![d] = z] = [st.c EXCEPT ![d] = z]
    BY <2>1, <2>2
  <2> QED
    BY <2>1, <2>3, <2>4 DEF State
<1>7. CASE ~st.s[s].handle
  <2>1. CloseHandle(w, s, congested) = w
    BY <1>6, <1>7, Zenon DEF CloseHandle
  <2>2. CloseHandle(Cancel(st, s), s, congested) = [c |-> [st.c EXCEPT ![d] = l], s |-> st.s]
    BY <1>1, <1>2, <2>1, Zenon
  <2> QED
    BY <1>2, <1>3, <1>4, <1>5, <2>2, Zenon
<1>8. CASE st.s[s].handle
  <2>1. PICK p : p = Close(s)
    OBVIOUS
  <2>2. p \in Packet /\ \A t \in Segs : ~IsRead(p, t)
    BY <2>1, SizeAssumption DEF Close, Packet, IsRead
  <2>3. PICK k : k = SentOn(l, p, congested)
    OBVIOUS
  <2>4. /\ k \in ChannelState /\ Line(k) = Append(r, p) /\ k.blocked = l.blocked
        /\ k.requested = l.requested /\ k.responded = l.responded
    <3>1. /\ SentOn(l, p, congested) \in ChannelState
          /\ Line(SentOn(l, p, congested)) = Append(Line(l), p)
          /\ SentOn(l, p, congested).blocked = l.blocked
          /\ SentOn(l, p, congested).requested = l.requested
          /\ SentOn(l, p, congested).responded = l.responded
      BY <2>2, SentOnFacts
    <3> QED
      BY <1>4, <2>3, <3>1, Zenon
  <2>5. CloseHandle(w, s, congested) = Send(w, d, p, congested)
    BY <1>6, <1>8, <2>1, Zenon DEF CloseHandle
  <2>6. Send(w, d, p, congested) = [c |-> [w.c EXCEPT ![d] = SentOn(w.c[d], p, congested)], s |-> w.s]
    BY <1>6, SendChanges
  <2>7. CloseHandle(Cancel(st, s), s, congested) = [c |-> [st.c EXCEPT ![d] = k], s |-> st.s]
    BY <1>1, <1>6, <2>3, <2>5, <2>6, Zenon
  <2>8. PICK v : v = Line(k)
    OBVIOUS
  <2>9. v = Append(r, p)
    BY <2>4, <2>8, Zenon
  <2>10. \A t \in Segs : \A lo, hi \in Int : Ordered(r, t, lo, hi) => Ordered(v, t, lo, hi)
    <3> HIDE DEF IsRead, Packet
    <3> QED
      BY <1>5, <2>2, <2>9, OrderedOther
  <2>11. /\ \A lo, hi \in Int : hi < lo => Ordered(v, s, lo, hi)
         /\ \A t \in Segs \ {s} : \A lo, hi \in Int : Ordered(q, t, lo, hi) => Ordered(v, t, lo, hi)
    BY <1>5, <2>10
  <2> QED
    BY <1>2, <1>3, <2>4, <2>7, <2>8, <2>11, Zenon
<1> QED
  BY <1>7, <1>8

\* A segment y goes on as x on channel c, where nothing is requested yet, and
\* the old channel l as k.
Moved(y, l, x, k, c) ==
  /\ x.conn = c /\ x.outstanding = 0 /\ x.next = Len(y.got) /\ x.got = y.got
  /\ x.opened = y.opened /\ x.buffer = y.buffer /\ x.writing = y.writing
  /\ x.waits = y.waits /\ x.stall = y.stall
  /\ k.requested = l.requested - y.outstanding
  /\ k.sent = l.sent /\ k.out = l.out /\ k.blocked = l.blocked /\ k.responded = l.responded

\* The counter and the segment after it.
LEMMA ReassignFacts ==
  ASSUME NEW C \in [Chans -> ChannelState], NEW S \in [Segs -> SegmentState],
         NEW s \in Segs, NEW c \in Chans, NEW d \in Chans, d = S[s].conn, Len(S[s].got) \in 0..Length
  PROVE  \E x \in SegmentState, k \in ChannelState :
           /\ Reassign([c |-> C, s |-> S], s, c) = [c |-> [C EXCEPT ![d] = k], s |-> [S EXCEPT ![s] = x]]
           /\ Moved(S[s], C[d], x, k, c)
<1>1. PICK r \in Int : r = C[d].requested - S[s].outstanding
  <2>1. C[d].requested \in Int
    BY DEF ChannelState
  <2>2. S[s].outstanding \in Int
    BY DEF SegmentState
  <2> QED
    BY <2>1, <2>2
<1>2. PICK b \in BOOLEAN : b = FALSE
  OBVIOUS
<1>3. PICK g \in 0..Length : g = Len(S[s].got)
  OBVIOUS
<1>4. S[s] \in SegmentState /\ C[d] \in ChannelState
  OBVIOUS
<1>5. PICK k : k = [C[d] EXCEPT !.requested = r]
  OBVIOUS
<1>6. PICK u : u = [S[s] EXCEPT !.outstanding = 0]
  OBVIOUS
<1>7. PICK v : v = [u EXCEPT !.handle = b]
  OBVIOUS
<1>8. PICK w : w = [v EXCEPT !.next = g]
  OBVIOUS
<1>9. PICK x : x = [w EXCEPT !.conn = c]
  OBVIOUS
<1>10. k \in ChannelState /\ x \in SegmentState
  <2>1. k \in ChannelState
    BY <1>4, <1>5 DEF ChannelState
  <2>2. 0 \in 0..Length
    BY SizeAssumption
  <2>3. u \in SegmentState
    BY <1>4, <1>6, <2>2 DEF SegmentState
  <2>4. v \in SegmentState
    BY <1>7, <2>3 DEF SegmentState
  <2>5. w \in SegmentState
    BY <1>8, <2>4 DEF SegmentState
  <2>6. x \in SegmentState
    BY <1>9, <2>5 DEF SegmentState
  <2> QED
    BY <2>1, <2>6
<1>11. /\ x.conn = c /\ x.outstanding = 0 /\ x.next = g /\ x.got = S[s].got
       /\ x.opened = S[s].opened /\ x.buffer = S[s].buffer /\ x.writing = S[s].writing
       /\ x.waits = S[s].waits /\ x.stall = S[s].stall
  BY <1>4, <1>6, <1>7, <1>8, <1>9 DEF SegmentState
<1>12. /\ k.requested = r /\ k.sent = C[d].sent /\ k.out = C[d].out
       /\ k.blocked = C[d].blocked /\ k.responded = C[d].responded
  BY <1>4, <1>5 DEF ChannelState
<1>13. PICK P : P = [c |-> C, s |-> S]
  OBVIOUS
<1>14. Reassign(P, s, c)
         = [[[[[P EXCEPT !.c[d].requested = r] EXCEPT !.s[s].outstanding = 0]
                EXCEPT !.s[s].handle = b] EXCEPT !.s[s].next = g] EXCEPT !.s[s].conn = c]
  <2>1. P.s = S /\ P.c = C
    BY <1>13
  <2>2. P.s[s].conn = d /\ P.c[d].requested - P.s[s].outstanding = r /\ Len(P.s[s].got) = g
    BY <1>1, <1>3, <2>1, Zenon
  <2>3. Reassign(P, s, c)
          = [P EXCEPT !.c[d].requested = r, !.s[s].outstanding = 0, !.s[s].handle = FALSE,
                      !.s[s].next = g, !.s[s].conn = c]
    BY <2>2, Zenon DEF Reassign
  <2>4. Reassign(P, s, c)
          = [P EXCEPT !.c[d].requested = r, !.s[s].outstanding = 0, !.s[s].handle = b,
                      !.s[s].next = g, !.s[s].conn = c]
    BY <1>2, <2>3, Zenon
  <2> QED
    BY <2>4, Zenon
<1>15. PICK D : D = [C EXCEPT ![d] = k]
  OBVIOUS
<1>16. [P EXCEPT !.c[d].requested = r] = [c |-> D, s |-> S]
  BY <1>5, <1>13, <1>15
<1>17. [[c |-> D, s |-> S] EXCEPT !.s[s].outstanding = 0] = [c |-> D, s |-> [S EXCEPT ![s] = u]]
  BY <1>6
<1>18. [[c |-> D, s |-> [S EXCEPT ![s] = u]] EXCEPT !.s[s].handle = b] = [c |-> D, s |-> [S EXCEPT ![s] = v]]
  <2>1. PICK T : T = [S EXCEPT ![s] = u]
    OBVIOUS
  <2>2. [[c |-> D, s |-> T] EXCEPT !.s[s].handle = b]
          = [c |-> D, s |-> [T EXCEPT ![s] = [T[s] EXCEPT !.handle = b]]]
    BY PutHandle
  <2>3. T[s] = u /\ [T EXCEPT ![s] = v] = [S EXCEPT ![s] = v]
    BY <2>1
  <2>4. [[c |-> D, s |-> T] EXCEPT !.s[s].handle = b] = [c |-> D, s |-> [S EXCEPT ![s] = v]]
    BY <1>7, <2>2, <2>3, Zenon
  <2> QED
    BY <2>1, <2>4, Zenon
<1>19. [[c |-> D, s |-> [S EXCEPT ![s] = v]] EXCEPT !.s[s].next = g] = [c |-> D, s |-> [S EXCEPT ![s] = w]]
  BY <1>8
<1>20. [[c |-> D, s |-> [S EXCEPT ![s] = w]] EXCEPT !.s[s].conn = c] = [c |-> D, s |-> [S EXCEPT ![s] = x]]
  BY <1>9
<1>21. Reassign([c |-> C, s |-> S], s, c) = [c |-> [C EXCEPT ![d] = k], s |-> [S EXCEPT ![s] = x]]
  <2>1. [[P EXCEPT !.c[d].requested = r] EXCEPT !.s[s].outstanding = 0] = [c |-> D, s |-> [S EXCEPT ![s] = u]]
    BY <1>16, <1>17, Zenon
  <2>2. [[[P EXCEPT !.c[d].requested = r] EXCEPT !.s[s].outstanding = 0] EXCEPT !.s[s].handle = b]
          = [c |-> D, s |-> [S EXCEPT ![s] = v]]
    BY <1>18, <2>1, Zenon
  <2>3. [[[[P EXCEPT !.c[d].requested = r] EXCEPT !.s[s].outstanding = 0] EXCEPT !.s[s].handle = b]
            EXCEPT !.s[s].next = g]
          = [c |-> D, s |-> [S EXCEPT ![s] = w]]
    BY <1>19, <2>2, Zenon
  <2>4. Reassign(P, s, c) = [c |-> D, s |-> [S EXCEPT ![s] = x]]
    BY <1>14, <1>20, <2>3, Zenon
  <2> QED
    BY <1>13, <1>15, <2>4, Zenon
<1>22. Moved(S[s], C[d], x, k, c)
  BY <1>1, <1>3, <1>11, <1>12, Zenon DEF Moved
<1> QED
  BY <1>10, <1>21, <1>22

\* migrate_segment
LEMMA MigrateGood ==
  ASSUME NEW st, Good(st), NEW s \in Segs, NEW c \in Chans, NEW congested
  PROVE  Good(Migrate(st, s, c, congested))
<1>1. st \in State /\ Tiled(st) /\ Counted(st) /\ Owned(st) /\ Pooled(st) /\ Nearly(st, s)
  BY NearlyGood DEF Nearly
<1>2. PICK d \in Chans : d = st.s[s].conn
  BY <1>1, Fields
<1>3. PICK w : w = CloseHandle(Cancel(st, s), s, congested)
  OBVIOUS
<1>4. PICK l \in ChannelState :
           /\ w = [c |-> [st.c EXCEPT ![d] = l], s |-> st.s]
           /\ \A lo, hi \in Int : hi < lo => Ordered(Line(l), s, lo, hi)
           /\ \A t \in Segs \ {s} : \A lo, hi \in Int :
                Ordered(Line(st.c[d]), t, lo, hi) => Ordered(Line(l), t, lo, hi)
           /\ l.blocked = st.c[d].blocked /\ l.requested = st.c[d].requested
           /\ l.responded = st.c[d].responded
  <2>1. \E k \in ChannelState :
           /\ CloseHandle(Cancel(st, s), s, congested) = [c |-> [st.c EXCEPT ![d] = k], s |-> st.s]
           /\ \A lo, hi \in Int : hi < lo => Ordered(Line(k), s, lo, hi)
           /\ \A t \in Segs \ {s} : \A lo, hi \in Int :
                Ordered(Line(st.c[d]), t, lo, hi) => Ordered(Line(k), t, lo, hi)
           /\ k.blocked = st.c[d].blocked /\ k.requested = st.c[d].requested
           /\ k.responded = st.c[d].responded
    BY <1>1, <1>2, ClosedFacts
  <2> QED
    BY <1>3, <2>1, Zenon
<1>5. PICK C : C = [st.c EXCEPT ![d] = l]
  OBVIOUS
<1>6. /\ C \in [Chans -> ChannelState] /\ C[d] = l /\ st.s \in [Segs -> SegmentState]
      /\ \A z : [C EXCEPT ![d] = z] = [st.c EXCEPT ![d] = z]
  <2>1. st.c \in [Chans -> ChannelState] /\ st.s \in [Segs -> SegmentState]
    BY <1>1 DEF State
  <2>2. l \in ChannelState
    OBVIOUS
  <2> HIDE DEF ChannelState, SegmentState
  <2> QED
    BY <1>5, <2>1, <2>2
<1>7. PICK y \in SegmentState : y = st.s[s]
  BY <1>1, Fields
<1>8. /\ Received(y) /\ y.next \in 0..Length /\ y.outstanding \in 0..Length /\ Len(y.got) \in Nat
      /\ y.writing \in Int
  <2>1. /\ y.next \in 0..Length /\ y.outstanding \in 0..Length /\ y.got \in Seq(1..Length) /\ y.writing \in Int
    BY DEF SegmentState
  <2>2. Received(st.s[s])
    BY <1>1 DEF Tiled
  <2> QED
    BY <1>7, <2>1, <2>2, LenProperties
<1>9. Len(y.got) \in 0..Length
  <2>1. y.next = Len(y.got) + y.outstanding
    BY <1>8 DEF Received
  <2> QED
    BY <1>8, <2>1, SizeAssumption
<1>10. PICK nw : nw = Reassign(w, s, c)
  OBVIOUS
<1>11. PICK x \in SegmentState, k \in ChannelState :
         /\ nw = [c |-> [C EXCEPT ![d] = k], s |-> [st.s EXCEPT ![s] = x]]
         /\ Moved(y, l, x, k, c)
  <2>1. Len(st.s[s].got) \in 0..Length
    BY <1>7, <1>9, Zenon
  <2>2. \E x \in SegmentState, k \in ChannelState :
           /\ Reassign([c |-> C, s |-> st.s], s, c)
                = [c |-> [C EXCEPT ![d] = k], s |-> [st.s EXCEPT ![s] = x]]
           /\ Moved(st.s[s], C[d], x, k, c)
    BY <1>2, <1>6, <2>1, ReassignFacts
  <2>3. nw = Reassign([c |-> C, s |-> st.s], s, c)
    BY <1>4, <1>5, <1>10, Zenon
  <2> QED
    BY <1>6, <1>7, <2>2, <2>3, Zenon
<1>12. /\ x.conn = c /\ x.outstanding = 0 /\ x.next = Len(y.got) /\ x.got = y.got
       /\ x.opened = y.opened /\ x.buffer = y.buffer /\ x.writing = y.writing
       /\ x.waits = y.waits /\ x.stall = y.stall
  BY <1>11, Zenon DEF Moved
<1>13. /\ k.requested = l.requested - y.outstanding /\ Line(k) = Line(l)
       /\ k.blocked = l.blocked /\ k.responded = l.responded
  BY <1>11, Zenon DEF Moved, Line
<1>14. Changed(st, nw, d, k, s, x)
  <2>1. nw = [c |-> [st.c EXCEPT ![d] = k], s |-> [st.s EXCEPT ![s] = x]]
    BY <1>6, <1>11, Zenon
  <2> QED
    BY <2>1, Zenon DEF Changed
<1>15. Tiled(nw)
  <2>1. Received(x)
    BY <1>8, <1>12 DEF Received
  <2>2. \A e \in Chans : Until(x, e) = Len(x.got)
    BY <1>12 DEF Until
  <2>3. PICK g \in Nat : g = Len(x.got) /\ g = Len(y.got)
    BY <1>8, <1>12
  <2>4. g \in Int /\ g + 1 \in Int /\ g < g + 1
    OBVIOUS
  <2>5. Ordered(Line(k), s, Len(x.got) + 1, Until(x, d))
    <3>1. Ordered(Line(l), s, g + 1, g)
      BY <1>4, <2>4
    <3> QED
      BY <1>13, <2>2, <2>3, <3>1, Zenon
  <2>6. \A e \in Chans \ {d} : Ordered(Line(st.c[e]), s, Len(x.got) + 1, Until(x, e))
    <3> TAKE e \in Chans \ {d}
    <3>1. Ordered(Line(st.c[e]), s, Len(st.s[s].got) + 1, Until(st.s[s], e))
      BY <1>1 DEF Tiled
    <3>2. Until(st.s[s], e) = Len(st.s[s].got)
      BY <1>2 DEF Until
    <3> QED
      BY <1>7, <2>2, <2>3, <3>1, <3>2, Zenon
  <2>7. \A t \in Segs \ {s} : \A lo, hi \in Int :
            Ordered(Line(st.c[d]), t, lo, hi) => Ordered(Line(k), t, lo, hi)
    BY <1>4, <1>13, Zenon
  <2> QED
    BY <1>1, <1>14, <2>1, <2>5, <2>6, <2>7, ChangedTiled
<1>16. Counted(nw)
  <2>1. /\ st.c[d].requested \in Int /\ st.c[d].responded \in Int
    BY <1>1, Fields
  <2>2. k.requested = st.c[d].requested - y.outstanding /\ k.responded = st.c[d].responded
    BY <1>4, <1>13, Zenon
  <2>3. k.requested - k.responded = (st.c[d].requested - st.c[d].responded) - y.outstanding
    BY <1>8, <2>1, <2>2
  <2>4. k.requested - k.responded = (st.c[d].requested - st.c[d].responded) - st.s[s].outstanding
    BY <1>7, <2>3, Zenon
  <2>5. x.outstanding = 0
    BY <1>12
  <2> QED
    BY <1>1, <1>2, <1>14, <2>4, <2>5, CountedClear
<1>17. Owned(nw)
  <2>1. k.blocked = st.c[d].blocked /\ x.stall = st.s[s].stall
    BY <1>4, <1>7, <1>12, <1>13, Zenon
  <2> QED
    BY <1>1, <1>14, <2>1, OwnedSame
<1>18. Pooled(nw)
  <2>1. Held(x) <= Held(y)
    BY <1>8, <1>12 DEF Held
  <2>2. Held(x) <= Held(st.s[s])
    BY <1>7, <2>1, Zenon
  <2> QED
    BY <1>1, <1>14, <2>2, PooledFewer
<1>19. Buffered(x) /\ x.buffer < BufferSize
  <2>1. Buffered(st.s[s]) /\ st.s[s].buffer < BufferSize
    BY NearlyGood
  <2>2. Buffered(y) /\ y.buffer < BufferSize
    BY <1>7, <2>1, Zenon
  <2> QED
    BY <1>12, <2>2 DEF Buffered
<1>20. Good(nw)
  BY <1>1, <1>14, <1>15, <1>16, <1>17, <1>18, <1>19, NearlyChanged
<1>21. PICK p : p = Open(s)
  OBVIOUS
<1>22. p \in Packet /\ \A t \in Segs : ~IsRead(p, t)
  BY <1>21, SizeAssumption DEF Open, Packet, IsRead
<1>23. Good(Send(nw, c, p, congested))
  <2> HIDE DEF Packet, IsRead
  <2> QED
    BY <1>20, <1>22, SendGood
<1> QED
  BY <1>3, <1>10, <1>21, <1>23, Zenon DEF Migrate

\* A channel becomes ready.
LEMMA PutReady ==
  ASSUME NEW C, NEW c, NEW b
  PROVE  [C EXCEPT ![c].ready = b] = [C EXCEPT ![c] = [C[c] EXCEPT !.ready = b]]
OBVIOUS

\* on_segment_connection_ready
LEMMA OnSegmentConnectionReadyGood ==
  ASSUME IInv, NEW c \in Chans, NEW congested, OnSegmentConnectionReady(c, congested), UNCHANGED backpressure
  PROVE  IInv'
<1>1. PICK st : st = Now
  OBVIOUS
<1>2. /\ Good(st) /\ st \in State /\ st.c = chan /\ st.s = seg
      /\ chan \in [Chans -> ChannelState] /\ seg \in [Segs -> SegmentState]
  BY <1>1, NowFacts
<1>3. PICK s \in Segs : s = c + 1
  <2>1. c \in Extra
    BY DEF OnSegmentConnectionReady
  <2> QED
    BY <2>1, SizeAssumption DEF Segs
<1>4. PICK l \in ChannelState : l = chan[c]
  BY <1>2
<1>5. PICK b \in BOOLEAN : b = TRUE
  OBVIOUS
<1>6. PICK k : k = [l EXCEPT !.ready = b]
  OBVIOUS
<1>7. /\ k \in ChannelState /\ k.sent = l.sent /\ k.out = l.out /\ k.requested = l.requested
      /\ k.responded = l.responded /\ k.blocked = l.blocked
  BY <1>6 DEF ChannelState
<1>8. PICK nw : nw = [c |-> [chan EXCEPT ![c].ready = TRUE], s |-> seg]
  OBVIOUS
<1>9. PICK x \in SegmentState : x = seg[s]
  BY <1>2
<1>10. Changed(st, nw, c, k, s, x)
  <2>1. [chan EXCEPT ![c].ready = b] = [chan EXCEPT ![c] = [chan[c] EXCEPT !.ready = b]]
    BY PutReady
  <2>2. [seg EXCEPT ![s] = x] = seg
    BY <1>2, <1>9
  <2>3. nw = [c |-> [st.c EXCEPT ![c] = k], s |-> [st.s EXCEPT ![s] = x]]
    BY <1>2, <1>4, <1>5, <1>6, <1>8, <2>1, <2>2, Zenon
  <2> QED
    BY <2>3, Zenon DEF Changed
<1>11. Good(nw)
  <2>1. /\ Line(k) = Line(st.c[c]) /\ k.requested = st.c[c].requested
        /\ k.responded = st.c[c].responded /\ k.blocked = st.c[c].blocked
    BY <1>2, <1>4, <1>7, Zenon DEF Line
  <2>2. SameRequests(st.s[s], x) /\ x.stall = st.s[s].stall
    BY <1>2, <1>9, Zenon DEF SameRequests
  <2>3. Held(x) <= Held(st.s[s])
    <3>1. x.writing \in Int
      BY DEF SegmentState
    <3>2. Held(x) <= Held(x)
      BY <3>1 DEF Held
    <3> QED
      BY <1>2, <1>9, <3>2, Zenon
  <2>4. Buffered(x) /\ x.buffer < BufferSize
    <3>1. Buffered(st.s[s]) /\ st.s[s].buffer < BufferSize
      BY <1>2, NearlyGood
    <3> QED
      BY <1>2, <1>9, <3>1, Zenon
  <2> QED
    BY <1>2, <1>7, <1>10, <2>1, <2>2, <2>3, <2>4, KeepGood
<1>12. Become(IF seg[s].phase = "receiving" THEN Migrate(nw, s, c, congested) ELSE nw)
  BY <1>3, <1>8, Zenon DEF OnSegmentConnectionReady
<1>13. CASE seg[s].phase = "receiving"
  <2>1. Good(Migrate(nw, s, c, congested))
    BY <1>11, MigrateGood
  <2>2. Become(Migrate(nw, s, c, congested))
    BY <1>12, <1>13, Zenon
  <2> QED
    BY <2>1, <2>2, BecomeGood
<1>14. CASE seg[s].phase # "receiving"
  <2>1. Become(nw)
    BY <1>12, <1>14, Zenon
  <2> QED
    BY <1>11, <2>1, BecomeGood
<1> QED
  BY <1>13, <1>14

-----------------------------------------------------------------------------
(* The inductive invariant, and what it implies.                           *)

\* In the beginning only the file is being opened.
LEMMA InitGood ==
  ASSUME Init
  PROVE  IInv
<1>1. PICK st : st = Now
  OBVIOUS
<1>2. st.c = chan /\ st.s = seg /\ st = [c |-> chan, s |-> seg]
  BY <1>1 DEF Now
<1>3. N \in Nat \ {0} /\ Length \in Nat \ {0} /\ Pool \in Nat \ {0} /\ BufferSize \in Nat \ {0}
  BY SizeAssumption
<1>4. PICK opens : opens = [s \in Segs |-> Open(s)]
  OBVIOUS
<1>5. opens \in Seq(Packet) /\ \A n \in 1..Len(opens) : opens[n].kind = "open"
  <2>1. \A s \in Segs : Open(s) \in Packet /\ Open(s).kind = "open"
    BY <1>3 DEF Open, Packet
  <2>2. opens \in [1..N -> Packet] /\ \A s \in Segs : opens[s].kind = "open"
    <3> HIDE DEF Packet, Open
    <3> QED
      BY <1>4, <2>1 DEF Segs
  <2>3. opens \in Seq(Packet) /\ Len(opens) = N
    <3> HIDE DEF Packet
    <3> QED
      BY <1>3, <2>2
  <2> QED
    BY <2>2, <2>3 DEF Segs
<1>6. \A s \in Segs : seg[s] = Segment(s, "receiving")
  BY DEF Init
<1>7. \A s \in Segs :
        /\ seg[s].conn = 0 /\ ~seg[s].handle /\ ~seg[s].opened /\ seg[s].next = 0
        /\ seg[s].outstanding = 0 /\ seg[s].got = <<>> /\ seg[s].buffer = NoBuffer
        /\ seg[s].writing = 0 /\ seg[s].waits = "no" /\ seg[s].stall = NoChannel
        /\ seg[s].phase = "receiving" /\ seg[s] \in SegmentState
  <2> TAKE s \in Segs
  <2>1. seg[s] = Segment(s, "receiving")
    BY <1>6
  <2>2. /\ 0 \in Chans /\ 0 \in 0..Length /\ NoBuffer \in NoBuffer..BufferSize /\ 0 \in 0..Pool
        /\ <<>> \in Seq(1..Length)
    BY <1>3 DEF Chans, NoBuffer
  <2> HIDE DEF NoBuffer
  <2> QED
    BY <2>1, <2>2 DEF Segment, SegmentState
<1>8. \A c \in Chans : chan[c] = [out |-> <<>>, sent |-> IF c = 0 THEN opens ELSE <<>>,
                blocked |-> FALSE, requested |-> 0, responded |-> 0, turn |-> 0,
                ready |-> c = 0]
  BY <1>4 DEF Init
<1>9. ASSUME NEW c \in Chans
      PROVE  \E q \in Seq(Packet), b \in BOOLEAN :
               /\ chan[c] = [out |-> <<>>, sent |-> q, blocked |-> FALSE, requested |-> 0,
                             responded |-> 0, turn |-> 0, ready |-> b]
               /\ \A n \in 1..Len(q) : q[n].kind = "open"
  <2>1. PICK b \in BOOLEAN : b = (c = 0)
    OBVIOUS
  <2>2. CASE c = 0
    <3>1. chan[c] = [out |-> <<>>, sent |-> opens, blocked |-> FALSE, requested |-> 0,
                     responded |-> 0, turn |-> 0, ready |-> b]
      BY <1>8, <2>1, <2>2, Zenon
    <3> QED
      BY <1>5, <3>1, Zenon
  <2>3. CASE c # 0
    <3>1. chan[c] = [out |-> <<>>, sent |-> <<>>, blocked |-> FALSE, requested |-> 0,
                     responded |-> 0, turn |-> 0, ready |-> b]
      BY <1>8, <2>1, <2>3, Zenon
    <3>2. <<>> \in Seq(Packet) /\ \A n \in 1..Len(<<>>) : <<>>[n].kind = "open"
      OBVIOUS
    <3> QED
      BY <3>1, <3>2, Zenon
  <2> QED
    BY <2>2, <2>3
<1>10. ASSUME NEW c \in Chans
       PROVE  /\ chan[c] \in ChannelState
              /\ chan[c].out = <<>> /\ chan[c].sent \in Seq(Packet)
              /\ \A n \in 1..Len(chan[c].sent) : chan[c].sent[n].kind = "open"
              /\ ~chan[c].blocked /\ chan[c].requested = 0 /\ chan[c].responded = 0
  <2>1. PICK q \in Seq(Packet), b \in BOOLEAN :
               /\ chan[c] = [out |-> <<>>, sent |-> q, blocked |-> FALSE, requested |-> 0,
                             responded |-> 0, turn |-> 0, ready |-> b]
               /\ \A n \in 1..Len(q) : q[n].kind = "open"
    BY <1>9
  <2>2. 0 \in 0..N - 1 /\ <<>> \in Seq(Packet)
    BY <1>3
  <2> HIDE DEF Packet
  <2>3. chan[c] \in ChannelState
    BY <2>1, <2>2 DEF ChannelState
  <2>4. /\ chan[c].out = <<>> /\ chan[c].sent = q
        /\ ~chan[c].blocked /\ chan[c].requested = 0 /\ chan[c].responded = 0
    BY <2>1
  <2> QED
    BY <2>1, <2>3, <2>4, Zenon
<1>11. st \in State
  <2>1. chan = [c \in Chans |-> chan[c]] /\ seg = [s \in Segs |-> seg[s]]
    BY DEF Init
  <2>2. chan \in [Chans -> ChannelState] /\ seg \in [Segs -> SegmentState]
    <3> HIDE DEF ChannelState, SegmentState
    <3> QED
      BY <1>7, <1>10, <2>1
  <2> HIDE DEF ChannelState, SegmentState
  <2> QED
    BY <1>2, <2>2 DEF State
<1>12. Tiled(st)
  <2>1. ASSUME NEW s \in Segs PROVE Received(seg[s])
    BY <1>7 DEF Received
  <2>2. ASSUME NEW s \in Segs, NEW c \in Chans
        PROVE  Ordered(Line(chan[c]), s, Len(seg[s].got) + 1, Until(seg[s], c))
    <3>1. Len(seg[s].got) = 0 /\ Until(seg[s], c) = 0
      BY <1>7 DEF Until
    <3>2. PICK q \in Seq(Packet) : q = chan[c].sent
      BY <1>10
    <3>3. Line(chan[c]) = q
      <4>1. Line(chan[c]) = q \o <<>>
        BY <1>10, <3>2, Zenon DEF Line
      <4>2. q \o <<>> = q
        BY ConcatEmptySeq
      <4> QED
        BY <4>1, <4>2, Zenon
    <3>4. \A n \in 1..Len(q) : ~IsRead(q[n], s)
      <4>1. \A n \in 1..Len(q) : q[n].kind = "open"
        BY <1>10, <3>2, Zenon
      <4> QED
        BY <4>1 DEF IsRead
    <3>5. Ordered(q, s, 0 + 1, 0)
      <4> HIDE DEF IsRead
      <4> QED
        BY <3>4 DEF Ordered
    <3> QED
      BY <3>1, <3>3, <3>5, Zenon
  <2> QED
    BY <1>2, <2>1, <2>2, Zenon DEF Tiled
<1>13. Counted(st)
  <2> SUFFICES ASSUME NEW c \in Chans
               PROVE  st.c[c].requested - st.c[c].responded = Cardinality(Cells(Asks(st, c), Length))
    BY DEF Counted
  <2>1. \A s \in Segs : Asks(st, c)[s] = 0
    BY <1>2, <1>7 DEF Asks
  <2>2. Cells(Asks(st, c), Length) = {}
    BY <2>1 DEF Cells
  <2>3. Cardinality(Cells(Asks(st, c), Length)) = 0
    BY <2>2, FS_EmptySet
  <2>4. st.c[c].requested - st.c[c].responded = 0
    BY <1>2, <1>10
  <2> QED
    BY <2>3, <2>4, Zenon
<1>14. \A s \in Segs : Buffered(st.s[s]) /\ st.s[s].buffer < BufferSize
  BY <1>2, <1>3, <1>7 DEF Buffered, NoBuffer
<1>15. Owned(st)
  <2>1. \A c \in Chans : c # NoChannel
    BY DEF Chans, NoChannel
  <2> QED
    BY <1>2, <1>7, <1>10, <2>1 DEF Owned
<1>16. Pooled(st)
  <2>1. \A s \in Segs : Holds(st)[s] = 0
    BY <1>2, <1>7 DEF Holds, Held
  <2>2. Cells(Holds(st), Pool + 1) = {}
    BY <2>1 DEF Cells
  <2>3. Cardinality(Cells(Holds(st), Pool + 1)) = 0
    BY <2>2, FS_EmptySet
  <2> QED
    BY <1>3, <2>3 DEF Pooled
<1>17. Good(st)
  BY <1>11, <1>12, <1>13, <1>14, <1>15, <1>16 DEF Good, Base, Room
<1>18. backpressure \in BOOLEAN
  BY DEF Init
<1> QED
  BY <1>1, <1>17, <1>18, Zenon DEF IInv

\* Every step keeps the inductive invariant, which relates what each segment has
\* received and requested to the lines of the channels, the counters of the
\* channels to the requests under way, and the stalled channels to the segments
\* that wait for a buffer.
THEOREM Invariance == Spec => []IInv
<1>1. Init => IInv
  BY InitGood
<1>2. IInv /\ [Next]_vars => IInv'
  <2> SUFFICES ASSUME IInv, [Next]_vars PROVE IInv'
    OBVIOUS
  <2>1. CASE UNCHANGED vars
    <3>1. chan' = chan /\ seg' = seg /\ backpressure' = backpressure
      BY <2>1 DEF vars
    <3>2. Good(Now) /\ Become(Now)
      BY <3>1, NowFacts DEF Become, Now
    <3> QED
      BY <3>1, <3>2, BecomeGood
  <2>2. CASE Next
    <3>1. UNCHANGED backpressure
      BY <2>2 DEF Next
    <3>2. ASSUME NEW c \in Chans, Flush(c) PROVE IInv'
      BY <3>1, <3>2, FlushGood
    <3>3. ASSUME NEW c \in Chans, DropReply(c) PROVE IInv'
      BY <3>1, <3>3, DropReplyGood
    <3>4. ASSUME NEW s \in Segs, WriteBuffer(s) PROVE IInv'
      BY <3>1, <3>4, WriteBufferGood
    <3>5. ASSUME NEW s \in Segs, FinalizeSegment(s) PROVE IInv'
      BY <3>1, <3>5, FinalizeSegmentGood
    <3>6. ASSUME NEW c \in Chans, NEW congested, OnSegmentOpen(c, congested) PROVE IInv'
      BY <3>1, <3>6, OnSegmentOpenGood
    <3>7. ASSUME NEW c \in Chans, NEW congested, ProcessSegmentData(c, congested) PROVE IInv'
      BY <3>1, <3>7, ProcessSegmentDataGood
    <3>8. ASSUME NEW s \in Segs, NEW congested, OnWriterAvailable(s, congested) PROVE IInv'
      BY <3>1, <3>8, OnWriterAvailableGood
    <3>9. ASSUME NEW s \in Segs, NEW congested, OnPoolAvailable(s, congested) PROVE IInv'
      BY <3>1, <3>9, OnPoolAvailableGood
    <3>10. ASSUME NEW c \in Chans, NEW congested, OnSegmentConnectionReady(c, congested) PROVE IInv'
      BY <3>1, <3>10, OnSegmentConnectionReadyGood
    <3> QED
      BY <2>2, <3>2, <3>3, <3>4, <3>5, <3>6, <3>7, <3>8, <3>9, <3>10, Zenon DEF Next, Step
  <2> QED
    BY <2>1, <2>2
<1> QED
  BY <1>1, <1>2, PTL DEF Spec

\* The variables of the pipeline keep their types.
THEOREM TypeCorrect == Spec => []TypeOK
<1>1. IInv => TypeOK
  BY NowFacts, Zenon DEF TypeOK, IInv
<1> QED
  BY <1>1, Invariance, PTL

\* The blocks a segment has received and requested tile its range, in order,
\* whichever channel it is on: its part file is only ever appended to.
THEOREM BlocksInOrder == Spec => []RequestsTile
<1>1. ASSUME IInv, NEW s \in Segs, NEW y, y = seg[s]
      PROVE  /\ y \in SegmentState /\ y.conn \in Chans /\ Received(y)
             /\ \A c \in Chans : Ordered(Line(chan[c]), s, Len(y.got) + 1, Until(y, c))
  <2>1. /\ Good(Now) /\ Now.c = chan /\ Now.s = seg /\ seg \in [Segs -> SegmentState]
    BY <1>1, NowFacts
  <2>2. Received(Now.s[s]) /\ \A c \in Chans : Ordered(Line(Now.c[c]), s, Len(Now.s[s].got) + 1, Until(Now.s[s], c))
    BY <2>1 DEF Good, Base, Tiled
  <2>3. seg[s] \in SegmentState /\ seg[s].conn \in Chans
    <3>1. seg[s] \in SegmentState
      BY <2>1
    <3> QED
      BY <3>1 DEF SegmentState
  <2> QED
    BY <1>1, <2>1, <2>2, <2>3, Zenon
<1>2. ASSUME IInv, NEW c \in Chans
      PROVE  Queue(c) = Line(chan[c]) /\ Queue(c) \in Seq(Packet) /\ DOMAIN Queue(c) = 1..Len(Queue(c))
  <2>1. Line(chan[c]) \in Seq(Packet)
    <3>1. Line(Now.c[c]) \in Seq(Packet) /\ Now.c = chan
      BY <1>2, NowFacts, Fields
    <3> QED
      BY <3>1, Zenon
  <2>2. Queue(c) = Line(chan[c])
    BY Zenon DEF Queue, Line
  <2>3. Queue(c) \in Seq(Packet)
    BY <2>1, <2>2, Zenon
  <2> QED
    BY <2>2, <2>3, LenProperties
<1>3. ASSUME IInv, NEW s \in Segs
      PROVE  LET got == Len(seg[s].got)
                 q == Queue(seg[s].conn)
                 reads == {n \in DOMAIN q : IsRead(q[n], s)}
             IN /\ \A n \in 1..got : seg[s].got[n] = n
                /\ seg[s].next = got + seg[s].outstanding
                /\ {q[n].block : n \in reads} = got + 1..seg[s].next
                /\ \A m, n \in reads : m < n => q[m].block < q[n].block
                /\ \A c \in Chans \ {seg[s].conn} :
                     \A n \in DOMAIN Queue(c) : ~IsRead(Queue(c)[n], s)
  <2> DEFINE InLine(y, q) ==
               LET got == Len(y.got)
                   reads == {n \in DOMAIN q : IsRead(q[n], s)}
               IN /\ \A n \in 1..got : y.got[n] = n
                  /\ y.next = got + y.outstanding
                  /\ {q[n].block : n \in reads} = got + 1..y.next
                  /\ \A m, n \in reads : m < n => q[m].block < q[n].block
  <2>1. PICK y : y = seg[s]
    OBVIOUS
  <2>2. /\ y \in SegmentState /\ y.conn \in Chans /\ Received(y)
        /\ \A c \in Chans : Ordered(Line(chan[c]), s, Len(y.got) + 1, Until(y, c))
    BY <1>1, <1>3, <2>1
  <2>3. PICK q : q = Queue(y.conn)
    OBVIOUS
  <2>4. q \in Seq(Packet) /\ DOMAIN q = 1..Len(q) /\ Ordered(q, s, Len(y.got) + 1, y.next)
    <3>1. Until(y, y.conn) = y.next
      BY DEF Until
    <3>2. Queue(y.conn) = Line(chan[y.conn]) /\ Queue(y.conn) \in Seq(Packet)
          /\ DOMAIN Queue(y.conn) = 1..Len(Queue(y.conn))
      BY <1>2, <1>3, <2>2
    <3>3. Ordered(Line(chan[y.conn]), s, Len(y.got) + 1, Until(y, y.conn))
      BY <2>2
    <3> QED
      BY <2>3, <3>1, <3>2, <3>3, Zenon
  <2>5. PICK reads : reads = {n \in DOMAIN q : IsRead(q[n], s)}
    OBVIOUS
  <2>6. reads = {n \in 1..Len(q) : IsRead(q[n], s)}
    BY <2>4, <2>5, Zenon
  <2>7. {q[n].block : n \in reads} = Len(y.got) + 1..y.next
    <3> HIDE DEF IsRead
    <3> QED
      BY <2>4, <2>6 DEF Ordered
  <2>8. \A m, n \in reads : m < n => q[m].block < q[n].block
    <3> HIDE DEF IsRead
    <3> QED
      BY <2>4, <2>6 DEF Ordered
  <2>9. (\A n \in 1..Len(y.got) : y.got[n] = n) /\ y.next = Len(y.got) + y.outstanding
    BY <2>2 DEF Received
  <2>10. ASSUME NEW c \in Chans \ {y.conn}, NEW n \in DOMAIN Queue(c), IsRead(Queue(c)[n], s) PROVE FALSE
    <3>1. PICK r : r = Queue(c)
      OBVIOUS
    <3>2. r = Line(chan[c]) /\ DOMAIN r = 1..Len(r)
      BY <1>2, <1>3, <3>1
    <3>3. Ordered(Line(chan[c]), s, Len(y.got) + 1, Until(y, c))
      BY <2>2
    <3>4. Until(y, c) = Len(y.got) /\ Len(y.got) \in Nat
      <4>1. y.got \in Seq(1..Length)
        BY <2>2 DEF SegmentState
      <4> QED
        BY <4>1, LenProperties DEF Until
    <3>5. Ordered(r, s, Len(y.got) + 1, Len(y.got))
      BY <3>2, <3>3, <3>4, Zenon
    <3>6. n \in 1..Len(r) /\ IsRead(r[n], s)
      BY <2>10, <3>1, <3>2, Zenon
    <3>7. r[n].block \in Len(y.got) + 1..Len(y.got)
      <4> HIDE DEF IsRead
      <4> QED
        BY <3>5, <3>6 DEF Ordered
    <3> QED
      BY <3>4, <3>7
  <2>11. \A c \in Chans \ {y.conn} : \A n \in DOMAIN Queue(c) : ~IsRead(Queue(c)[n], s)
    BY <2>10
  <2>12. InLine(y, q)
    <3>1. /\ {q[n].block : n \in {n \in DOMAIN q : IsRead(q[n], s)}} = Len(y.got) + 1..y.next
          /\ \A m, n \in {n \in DOMAIN q : IsRead(q[n], s)} : m < n => q[m].block < q[n].block
      <4> HIDE DEF IsRead
      <4> QED
        BY <2>5, <2>7, <2>8
    <3> QED
      BY <3>1, <2>9, Zenon
  <2>13. InLine(seg[s], Queue(seg[s].conn))
    <3> HIDE DEF InLine
    <3> QED
      BY <2>1, <2>3, <2>12, Zenon
  <2>14. \A c \in Chans \ {seg[s].conn} : \A n \in DOMAIN Queue(c) : ~IsRead(Queue(c)[n], s)
    BY <2>1, <2>11, Zenon
  <2> QED
    BY <2>13, <2>14, Zenon
<1>4. IInv => RequestsTile
  BY <1>3, Zenon DEF RequestsTile
<1> QED
  BY <1>4, Invariance, PTL

\* The pipelining counters of a channel count the requests under way, also when
\* migrate_segment cancels some.
THEOREM CountersExact == Spec => []CountersBalanced
<1>1. ASSUME IInv, NEW c \in Chans
      PROVE  chan[c].requested - chan[c].responded = Cardinality(UnderWay(c))
  <2>1. Good(Now) /\ Now.c = chan /\ Now.s = seg
    BY <1>1, NowFacts
  <2>2. Now.c[c].requested - Now.c[c].responded = Cardinality(Cells(Asks(Now, c), Length))
    BY <2>1 DEF Good, Base, Counted
  <2>3. \A s \in Segs : Asks(Now, c)[s] = IF seg[s].conn = c THEN seg[s].outstanding ELSE 0
    BY <2>1 DEF Asks
  <2>4. Length \in Nat
    BY SizeAssumption
  <2>5. ASSUME NEW u \in Segs \X (1..Length)
        PROVE  u[2] <= Asks(Now, c)[u[1]] <=> seg[u[1]].conn = c /\ u[2] <= seg[u[1]].outstanding
    <3>1. u[1] \in Segs /\ u[2] \in 1..Length
      OBVIOUS
    <3>2. ~(u[2] <= 0)
      BY <2>4, <3>1
    <3>3. CASE seg[u[1]].conn = c
      BY <2>3, <3>1, <3>3
    <3>4. CASE seg[u[1]].conn # c
      BY <2>3, <3>1, <3>2, <3>4
    <3> QED
      BY <3>3, <3>4
  <2>6. Cells(Asks(Now, c), Length) = UnderWay(c)
    BY <2>5 DEF Cells, UnderWay
  <2> QED
    BY <2>1, <2>2, <2>6, Zenon
<1>2. IInv => CountersBalanced
  BY <1>1, Zenon DEF CountersBalanced
<1> QED
  BY <1>2, Invariance, PTL

\* A block that a channel can hand out has a buffer with room, and was asked for:
\* "Server sent unexpected data" is never the client's doing.
THEOREM NoDataUnexpected == Spec => []DataHasBuffer
<1>1. ASSUME IInv, NEW c \in Chans, Replied(c, "read")
      PROVE  LET s == Head(chan[c].sent).seg
             IN seg[s].buffer \in 0..BufferSize - 1 /\ seg[s].outstanding > 0
  BY <1>1, ReadFacts
<1>2. IInv => DataHasBuffer
  BY <1>1, Zenon DEF DataHasBuffer
<1> QED
  BY <1>2, Invariance, PTL

\* A channel waits exactly while one segment that stalled it waits for a buffer,
\* so unblock_read reaches it whichever channel the segment is on by then.
THEOREM StallsEnd == Spec => []StallHasOwner
<1>1. ASSUME IInv, NEW c \in Chans
      PROVE  LET owners == {s \in Segs : seg[s].stall = c}
             IN /\ chan[c].blocked <=> owners # {}
                /\ \A s, t \in owners : s = t
                /\ \A s \in owners : seg[s].waits # "no" /\ seg[s].buffer = NoBuffer
  <2>1. Good(Now) /\ Now.c = chan /\ Now.s = seg
    BY <1>1, NowFacts
  <2>2. /\ chan[c].blocked <=> \E s \in Segs : seg[s].stall = c
        /\ \A s, t \in Segs : seg[s].stall = seg[t].stall /\ seg[s].stall # NoChannel => s = t
        /\ \A s \in Segs : Buffered(seg[s])
    <3>1. Owned(Now) /\ \A s \in Segs : Buffered(Now.s[s])
      BY <2>1 DEF Good, Base
    <3> QED
      BY <2>1, <3>1, Zenon DEF Owned
  <2>3. c # NoChannel
    BY DEF Chans, NoChannel
  <2>4. PICK owners : owners = {s \in Segs : seg[s].stall = c}
    OBVIOUS
  <2>5. /\ chan[c].blocked <=> owners # {}
        /\ \A s, t \in owners : s = t
    BY <2>2, <2>3, <2>4
  <2>6. \A s \in owners : seg[s].waits # "no" /\ seg[s].buffer = NoBuffer
    BY <2>2, <2>3, <2>4 DEF Buffered
  <2> QED
    BY <2>4, <2>5, <2>6, Zenon
<1>2. IInv => StallHasOwner
  BY <1>1, Zenon DEF StallHasOwner
<1> QED
  BY <1>2, Invariance, PTL
=============================================================================
