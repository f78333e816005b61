------------------------- MODULE FtpTransfer_proofs -------------------------
(***************************************************************************)
(* Proofs about an FTP control connection, for any number of operations,   *)
(* keepalives and faults, and every setting of the options.                *)
(***************************************************************************)
EXTENDS FtpTransfer, SequenceTheorems, FiniteSetTheorems, TLAPS

-----------------------------------------------------------------------------
(* The inductive invariant, in terms of a control connection c, its data    *)
(* socket d, the server s, and the number e of TransferEndEvents queued.    *)
(* Its core is that at most one command is outstanding, and whose it is.    *)

TopIn(c) == c.ops[Len(c.ops)]
IsRaw(c) == c.ops # <<>> /\ TopIn(c).kind = "raw"
Sent == {"transfer", "waitfinish", "waittransferpre", "waittransfer", "waitsocket"}

\* The stack is a parent, alone or below the login or a raw transfer.
Parent(o, states) ==
  /\ o.kind \in Parents /\ o.tid = 0 /\ ~o.asks /\ ~o.resolving
  /\ o.kind = "command" => o.st = "command" /\ ~o.again
  /\ o.st \in states
Logon(o) ==
  o.kind = "logon" /\ o.tid = 0 /\ ~o.asks /\ ~o.resolving /\ o.st \in {"connect", "welcome", "login"}
Raw(o, c) ==
  /\ o.kind = "raw" /\ o.tid = c.tids /\ o.tid > 0
  /\ o.st \in {"type", "port_pasv", "rest"} \cup Sent
  /\ o.sent <=> o.st \in Sent
  /\ o.asks => o.sent
  /\ o.resolving => o.st = "port_pasv"
Stacked(c) ==
  \/ c.ops = <<>>
  \/ Len(c.ops) = 1 /\ Parent(c.ops[1], {"start", "command"})
  \/ Len(c.ops) = 2 /\ Parent(c.ops[1], {"start", "command"}) /\ Logon(c.ops[2])
  \/ Len(c.ops) = 2 /\ Parent(c.ops[1], {"wait", "waittest"}) /\ Raw(c.ops[2], c)

\* What a parent may still ask for.
Remaining(c) ==
  IF c.ops = <<>> THEN 0
  ELSE (IF c.ops[1].st = "start" THEN 1 ELSE 0) + (IF c.ops[1].again THEN 1 ELSE 0)

\* The command that is outstanding, and its replies under way.
Current(s) == IF s.cmds # <<>> THEN s.cmds[1] ELSE s.replies[1][1]
IsTransfer(s) == Current(s).cmd = "transfer"
InFlight(s) ==
  LET x == Current(s)
  IN \/ s.cmds = <<x>> /\ s.replies = <<>>
     \/ s.cmds = <<x>> /\ s.replies = <<<<x, 1>>>> /\ s.prelim
     \/ s.cmds = <<>> /\ \E code \in {2, 5} : s.replies = <<<<x, code>>>>
     \/ s.cmds = <<>> /\ x.cmd = "transfer" /\ \E code \in {2, 5} : s.replies = <<<<x, 1>>, <<x, code>>>>
Nothing(s) == s.cmds = <<>> /\ s.replies = <<>>

Outstanding(c, s) ==
  /\ \/ c.pending = 0 /\ Nothing(s)
     \/ c.pending = 1 /\ InFlight(s)
  /\ s.prelim => s.cmds # <<>> /\ IsTransfer(s)
  /\ \/ c.skip = 0
     \/ c.skip = 1 /\ c.pending = 1 /\ Len(c.ops) <= 1
  /\ c.ops = <<>> => c.skip = c.pending

Connected(c) ==
  /\ c.conn = "closed" => c.ops = <<>> /\ c.pending = 0
  /\ c.conn = "connecting" <=> c.ops # <<>> /\ TopIn(c).kind = "logon" /\ TopIn(c).st = "connect"
  /\ c.conn = "connecting" => c.pending = 0
  /\ c.idle => c.conn = "up"

\* The operation on top waits for the command that is outstanding, if it is
\* not to be skipped.
SentBy(o) ==
  CASE o.kind = "logon" -> o.st
    [] o.kind = "command" -> "command"
    [] o.kind \in {"list", "file"} -> "extra"
    [] o.kind = "raw" /\ o.st = "type" -> "type"
    [] o.kind = "raw" /\ o.st = "port_pasv" -> IF o.pasv THEN "pasv" ELSE "port"
    [] o.kind = "raw" /\ o.st = "rest" -> "rest"
    [] OTHER -> "transfer"
Matched(c, s) ==
  c.ops # <<>> /\ c.skip = 0 =>
    LET o == TopIn(c)
    IN /\ c.pending = 1 =>
            /\ Current(s).cmd = SentBy(o) /\ Current(s).tid = o.tid
            /\ Current(s).binary = o.binary /\ Current(s).offset = o.offset
            /\ ~o.resolving
            /\ o.kind \in Parents => o.st = "command"
            /\ o.st \in {"transfer", "waittransferpre"} => (s.prelim => s.replies # <<>>)
            /\ o.st \in {"waitfinish", "waittransfer"} =>
                 /\ s.cmds # <<>> => s.prelim /\ s.replies = <<>>
                 /\ s.replies # <<>> => s.replies[1][2] # 1
            /\ o.st # "waitsocket"
       /\ c.pending = 0 => c.conn = "connecting" \/ o.resolving \/ o.st = "waitsocket"

\* What the final reply says.
Said(s) ==
  s.cmds = <<>> /\ s.replies # <<>> =>
    LET x == Current(s)
    IN /\ s.replies[Len(s.replies)][2] = 2 =>
            /\ x.cmd = "type" => s.type = x.binary
            /\ x.cmd \in {"port", "pasv"} => s.port = x.tid
            /\ x.cmd = "rest" => s.offset = x.offset
            /\ x.cmd = "transfer" => s.completed = x.tid
       /\ x.cmd = "rest" /\ x.offset = 0 => s.offset = 0

\* What the client believes of the server, and has prepared it for.
Known(c, s) ==
  /\ c.conn = "up" /\ c.lastType \in Types =>
       /\ s.type = c.lastType
       /\ s.cmds # <<>> => /\ Current(s).cmd \notin {"type", "command"}
                           /\ Current(s).cmd = "keepalive" => Current(s).binary = c.lastType
  /\ c.conn = "up" /\ ~c.sentRest =>
       /\ s.offset = 0
       /\ s.cmds # <<>> /\ Current(s).cmd = "rest" => Current(s).offset = 0
  /\ s.cmds # <<>> /\ IsTransfer(s) /\ ~s.prelim =>
       /\ Current(s).binary = s.type /\ Current(s).offset = s.offset /\ Current(s).tid = s.port
Believed(c, s) ==
  /\ Known(c, s)
  /\ IsRaw(c) /\ TopIn(c).st # "type" => c.lastType = TopIn(c).binary
  /\ IsRaw(c) /\ TopIn(c).st = "rest" => s.port = TopIn(c).tid

\* The data socket belongs to the raw transfer.
Up(d) == d.link = "connected" \/ d.reason # "none"
Data(c, d, s) ==
  /\ ~IsRaw(c) => d = NoSocket
  /\ d.link # "connected" \/ d.reason = "none" => d.block <= 1
  /\ IsRaw(c) =>
       LET o == TopIn(c)
       IN /\ d.tid = o.tid
          /\ ~o.sent => /\ d.block = 1 /\ d.link \in {"idle", "listening", "reset"}
                        /\ d.events = "none"
                        /\ s.replies # <<>> => ~s.linked
          /\ ~o.sent /\ d.reason # "none" => d.early
          /\ o.sent /\ d.reason = "none" /\ d.block > 0 => o.asks
          /\ o.asks => d.link \in {"connected", "reset"}
          /\ d.events # "none" => Up(d)
          /\ d.reason = "none" /\ d.events = "postponed" => d.block > 0
          /\ s.cmds # <<>> /\ IsTransfer(s) /\ s.linked => Up(d)
          /\ s.cmds = <<>> /\ s.replies # <<>> /\ IsTransfer(s) /\ s.replies[Len(s.replies)][2] = 2 => Up(d)
          /\ o.st = "waitsocket" => Up(d)

\* The end of the data connection, and of the transfer.
Ended(c, d, s, e) ==
  /\ e + (IF d.tid # 0 /\ d.reason = "none" THEN 1 ELSE 0) <= c.tids
  /\ d.reason = "ok" => s.received = d.tid
  /\ IsRaw(c) =>
       LET o == TopIn(c)
       IN /\ d.reason # "none" /\ ~d.early /\ o.st \in {"transfer", "waitfinish", "waitsocket"} => e > 0
          /\ o.st \in {"waittransferpre", "waittransfer"} /\ o.reason = "ok" => s.received = o.tid
          /\ o.st = "waitsocket" => s.completed = o.tid

Timed(c) == c.ops # <<>> /\ ~TopIn(c).resolving => c.timer

Inv(c, d, s, e) ==
  /\ c \in ControlState /\ d \in Socket /\ s \in ServerState /\ e \in Nat
  /\ Stacked(c)
  /\ c.tids + Remaining(c) <= 2 * c.count
  /\ Outstanding(c, s)
  /\ Connected(c)
  /\ Matched(c, s)
  /\ Said(s)
  /\ Believed(c, s)
  /\ Data(c, d, s)
  /\ Ended(c, d, s, e)
  /\ Timed(c)

IInv == Inv(ctl, data, srv, ends)

-----------------------------------------------------------------------------
(* A handler's record, and the invariant of the state it leads to.         *)

Machine == [c : ControlState, d : Socket, q : Seq(Command)]
Holds(m, s, e) == Inv(m.c, m.d, [s EXCEPT !.cmds = m.q], e)

\* Two short sequences are the same if their elements are.
LEMMA ShortEqual ==
  ASSUME NEW S, NEW s \in Seq(S), NEW t \in Seq(S), Len(s) = Len(t), Len(s) \in {1, 2},
         s[1] = t[1], Len(s) = 2 => s[2] = t[2]
  PROVE  s = t
<1>1. \A i \in 1..Len(s) : s[i] = t[i]
  OBVIOUS
<1> QED
  BY <1>1, SeqEqual

\* The stack has one or two operations: what the sequence operators make of it.
LEMMA Stacks ==
  ASSUME NEW p, NEW o
  PROVE  /\ Len(<<p>>) = 1 /\ Len(<<p, o>>) = 2 /\ <<p>> # <<>> /\ <<p, o>> # <<>>
         /\ <<p>>[1] = p /\ <<p, o>>[1] = p /\ <<p, o>>[2] = o
         /\ Append(<<p>>, o) = <<p, o>> /\ Append(<<>>, p) = <<p>>
         /\ Front(<<p>>) = <<>> /\ Front(<<p, o>>) = <<p>>
         /\ Last(<<p>>) = p /\ Last(<<p, o>>) = o
         /\ Tail(<<p>>) = <<>> /\ Tail(<<p, o>>) = <<o>>
         /\ \A x : [<<p>> EXCEPT ![1] = x] = <<x>>
         /\ \A x : [<<p, o>> EXCEPT ![2] = x] = <<p, x>>
<1>1. Front(<<p>>) = <<>>
  <2>1. SubSeq(<<p>>, 1, 0) = <<>>
    OBVIOUS
  <2> QED
    BY <2>1 DEF Front
<1>2. Front(<<p, o>>) = <<p>>
  <2>1. SubSeq(<<p, o>>, 1, 1) = <<p>>
    <3>1. <<p, o>> \in Seq({p, o}) /\ <<p>> \in Seq({p, o})
      OBVIOUS
    <3>2. SubSeq(<<p, o>>, 1, 1) \in Seq({p, o}) /\ Len(SubSeq(<<p, o>>, 1, 1)) = 1
          /\ SubSeq(<<p, o>>, 1, 1)[1] = p
      BY <3>1, SubSeqProperties
    <3> PICK s : s = SubSeq(<<p, o>>, 1, 1)
      OBVIOUS
    <3> PICK u : u = <<p>>
      OBVIOUS
    <3>3. Len(u) = 1 /\ u[1] = p
      OBVIOUS
    <3>4. s = u
      BY <3>1, <3>2, <3>3, ShortEqual
    <3> QED
      BY <3>4
  <2> QED
    BY <2>1 DEF Front
<1>3. \A x : [<<p>> EXCEPT ![1] = x] = <<x>>
  OBVIOUS
<1>4. \A x : [<<p, o>> EXCEPT ![2] = x] = <<p, x>>
  OBVIOUS
<1>5. Append(<<p>>, o) = <<p, o>> /\ Append(<<>>, p) = <<p>>
  <2>1. <<p, o>> \in Seq({p, o}) /\ <<p>> \in Seq({p, o})
    OBVIOUS
  <2>2. Append(<<p>>, o) \in Seq({p, o}) /\ Len(Append(<<p>>, o)) = 2
        /\ Append(<<p>>, o)[1] = p /\ Append(<<p>>, o)[2] = o
    BY <2>1, AppendProperties
  <2>3. Append(<<p>>, o) = <<p, o>>
    <3> PICK s : s = Append(<<p>>, o)
      OBVIOUS
    <3> PICK u : u = <<p, o>>
      OBVIOUS
    <3>1. Len(u) = 2 /\ u[1] = p /\ u[2] = o
      OBVIOUS
    <3>2. s = u
      BY <2>1, <2>2, <3>1, ShortEqual
    <3> QED
      BY <3>2
  <2>4. Append(<<>>, p) = <<p>>
    OBVIOUS
  <2> QED
    BY <2>3, <2>4
<1>6. Tail(<<p>>) = <<>> /\ Tail(<<p, o>>) = <<o>>
  OBVIOUS
<1>7. Last(<<p>>) = p /\ Last(<<p, o>>) = o
  BY DEF Last
<1> QED
  BY <1>1, <1>2, <1>3, <1>4, <1>5, <1>6, <1>7

\* The operation on top of two, or of one.
LEMMA TopOfTwo ==
  ASSUME NEW c, NEW p, NEW o, c.ops = <<p, o>>
  PROVE  Len(c.ops) = 2 /\ c.ops[1] = p /\ c.ops[2] = o /\ c.ops # <<>> /\ TopIn(c) = o
BY Stacks DEF TopIn
\* TopOf is the operation on top.
LEMMA TopOfIs ==
  ASSUME NEW m, NEW p, NEW o
  PROVE  /\ m.c.ops = <<p, o>> => TopOf(m) = o
         /\ m.c.ops = <<p>> => TopOf(m) = p
<1>1. ASSUME m.c.ops = <<p, o>> PROVE TopOf(m) = o
  BY <1>1 DEF TopOf, Last
<1>2. ASSUME m.c.ops = <<p>> PROVE TopOf(m) = p
  BY <1>2 DEF TopOf, Last
<1> QED
  BY <1>1, <1>2
\* The operation on top, when it is alone.
LEMMA TopOfOne ==
  ASSUME NEW c, NEW p, c.ops = <<p>>
  PROVE  Len(c.ops) = 1 /\ c.ops[1] = p /\ c.ops # <<>> /\ TopIn(c) = p
BY Stacks DEF TopIn

\* Small numbers.
LEMMA Numbers == 0 \in Few /\ 1 \in Few /\ 2 \in Few /\ 0 \in Transfers
BY FtpAssumption DEF Few, Transfers, MaxTransfers

\* The fields that the sending of a command and the end of an operation leave alone.
Kept(c, k) ==
  /\ k.conn = c.conn /\ k.lastType = c.lastType /\ k.sentRest = c.sentRest
  /\ k.tids = c.tids /\ k.count = c.count /\ k.succeeded = c.succeeded

\* One command is on its way.
Only(q, x) == q = <<x>>

\* SendCommand sends the command of the operation on top, here the first one.
LEMMA SendCommandIs ==
  ASSUME NEW m \in Machine, NEW o \in Op, m.c.ops # <<>>, o = TopIn(m.c), m.c.pending = 0, m.q = <<>>,
         NEW cmd, NEW x \in Command, x.cmd = cmd, x.tid = o.tid, x.binary = o.binary, x.offset = o.offset,
         NEW n, n = SendCommand(m, cmd)
  PROVE  /\ n \in Machine /\ n.d = m.d /\ Only(n.q, x)
         /\ n.c.ops = m.c.ops /\ n.c.pending = 1 /\ n.c.skip = m.c.skip
         /\ n.c.timer /\ n.c.idle = m.c.idle
         /\ Kept(m.c, n.c)
<1>1. TopOf(m) = o
  BY DEF TopOf, TopIn, Last
<1>y. PICK y : y = [cmd |-> cmd, tid |-> o.tid, binary |-> o.binary, offset |-> o.offset]
  OBVIOUS
<1>2. x = y
  BY <1>y DEF Command
<1>3. [m.c EXCEPT !.pending = 1, !.timer = TRUE] \in ControlState
  BY Numbers DEF Machine, ControlState
<1>4. n = [m EXCEPT !.c.pending = 1, !.c.timer = TRUE, !.q = Append(<<>>, x)]
  <2>1. n = [m EXCEPT !.c.pending = m.c.pending + 1, !.c.timer = TRUE, !.q = Append(m.q, y)]
    BY <1>1, <1>y DEF SendCommand
  <2>2. m.c.pending + 1 = 1
    OBVIOUS
  <2> QED
    BY <1>2, <2>1, <2>2
<1>5. n = [m EXCEPT !.c = [m.c EXCEPT !.pending = 1, !.timer = TRUE], !.q = <<x>>]
  BY <1>4, Stacks, Zenon DEF Machine, ControlState
<1>6. <<x>> \in Seq(Command)
  OBVIOUS
<1>7. n.c = [m.c EXCEPT !.pending = 1, !.timer = TRUE] /\ n.d = m.d /\ n.q = <<x>> /\ n \in Machine
  BY <1>3, <1>5, <1>6 DEF Machine
<1> QED
  BY <1>7 DEF Machine, ControlState, Kept, Only

\* WithTop replaces the operation on top of two.
LEMMA WithTopIs ==
  ASSUME NEW m \in Machine, NEW p \in Op, NEW o, m.c.ops = <<p, o>>, NEW x \in Op, NEW n, n = WithTop(m, x)
  PROVE  /\ n \in Machine /\ n.d = m.d /\ n.q = m.q
         /\ n.c.ops = <<p, x>> /\ n.c.pending = m.c.pending /\ n.c.skip = m.c.skip
         /\ n.c.timer = m.c.timer /\ n.c.idle = m.c.idle
         /\ Kept(m.c, n.c)
<1>1. <<p, x>> \in Seq(Op)
  OBVIOUS
<1>2. [m.c EXCEPT !.ops = <<p, x>>] \in ControlState
  BY <1>1 DEF Machine, ControlState
<1>3. n = [m EXCEPT !.c = [m.c EXCEPT !.ops = [m.c.ops EXCEPT ![2] = x]]]
  BY Stacks, Zenon DEF WithTop, Machine, ControlState
<1>4. [m.c.ops EXCEPT ![2] = x] = <<p, x>>
  BY Stacks
<1>5. n.c = [m.c EXCEPT !.ops = <<p, x>>] /\ n.d = m.d /\ n.q = m.q /\ n \in Machine
  BY <1>2, <1>3, <1>4 DEF Machine
<1> QED
  BY <1>5 DEF Machine, ControlState, Kept

\* WithTop replaces a parent alone.
LEMMA WithOnlyIs ==
  ASSUME NEW m \in Machine, NEW p, m.c.ops = <<p>>, NEW x \in Op, NEW n, n = WithTop(m, x)
  PROVE  /\ n \in Machine /\ n.d = m.d /\ n.q = m.q
         /\ n.c.ops = <<x>> /\ n.c.pending = m.c.pending /\ n.c.skip = m.c.skip
         /\ n.c.timer = m.c.timer /\ n.c.idle = m.c.idle
         /\ Kept(m.c, n.c)
<1>1. <<x>> \in Seq(Op)
  OBVIOUS
<1>2. [m.c EXCEPT !.ops = <<x>>] \in ControlState
  BY <1>1 DEF Machine, ControlState
<1>3. n = [m EXCEPT !.c = [m.c EXCEPT !.ops = [m.c.ops EXCEPT ![1] = x]]]
  BY Stacks, Zenon DEF WithTop, Machine, ControlState
<1>4. [m.c.ops EXCEPT ![1] = x] = <<x>>
  BY Stacks
<1>5. n.c = [m.c EXCEPT !.ops = <<x>>] /\ n.d = m.d /\ n.q = m.q /\ n \in Machine
  BY <1>2, <1>3, <1>4 DEF Machine
<1> QED
  BY <1>5 DEF Machine, ControlState, Kept

\* There is no data socket.
LEMMA NoSocketIs == NoSocket \in Socket
BY Numbers DEF NoSocket, Socket

\* StartKeepaliveTimer starts it when no reply is awaited.
LEMMA KeepaliveIs ==
  ASSUME NEW c \in ControlState, NEW k, k = StartKeepaliveTimer(c)
  PROVE  k = [c EXCEPT !.idle = c.idle \/ (c.skip = 0 /\ c.pending = 0)] /\ k \in ControlState
<1> PICK i \in BOOLEAN : i = (c.idle \/ (c.skip = 0 /\ c.pending = 0))
  OBVIOUS
<1>1. k = [c EXCEPT !.idle = i]
  BY DEF StartKeepaliveTimer, ControlState
<1> QED
  BY <1>1 DEF ControlState

\* PopOp, with the fields it changes.
LEMMA PopOpIs ==
  ASSUME NEW m \in Machine, NEW rest \in Seq(Op), rest = Front(m.c.ops), NEW n, n = PopOp(m)
  PROVE  /\ n \in Machine /\ n.d = NoSocket /\ n.q = m.q
         /\ n.c.ops = rest /\ n.c.skip = m.c.pending /\ n.c.pending = m.c.pending
         /\ n.c.timer <=> m.c.timer /\ rest # <<>>
         /\ n.c.idle <=> m.c.idle \/ m.c.pending = 0
         /\ Kept(m.c, n.c)
<1> PICK b \in BOOLEAN : b = (m.c.timer /\ rest # <<>>)
  OBVIOUS
<1> PICK i \in BOOLEAN : i = (m.c.idle \/ m.c.pending = 0)
  OBVIOUS
<1>c. PICK c : c = [m.c EXCEPT !.skip = m.c.pending, !.ops = rest, !.timer = b]
  OBVIOUS
<1>1. c \in ControlState
  BY <1>c DEF Machine, ControlState
<1>k. PICK k : k = StartKeepaliveTimer(c)
  OBVIOUS
<1>2. k = [c EXCEPT !.idle = c.idle \/ (c.skip = 0 /\ c.pending = 0)] /\ k \in ControlState
  BY <1>1, <1>k, KeepaliveIs
<1>3. c = [m.c EXCEPT !.skip = m.c.pending, !.ops = Front(m.c.ops), !.timer = @ /\ Front(m.c.ops) # <<>>]
  BY <1>c DEF Machine, ControlState
<1>4. n = [m EXCEPT !.c = k, !.d = NoSocket]
  BY <1>3, <1>k DEF PopOp
<1>5. /\ c.ops = rest /\ c.skip = m.c.pending /\ c.pending = m.c.pending /\ c.timer = b /\ c.idle = m.c.idle
      /\ Kept(m.c, c)
  BY <1>c DEF Machine, ControlState, Kept
<1>6. n \in Machine /\ n.c = k /\ n.d = NoSocket /\ n.q = m.q
  BY <1>2, <1>4, NoSocketIs DEF Machine
<1>7. /\ k.ops = rest /\ k.skip = m.c.pending /\ k.pending = m.c.pending /\ k.timer = b /\ k.idle = i
      /\ Kept(m.c, k)
  BY <1>1, <1>2, <1>5 DEF ControlState, Kept
<1> QED
  BY <1>6, <1>7

-----------------------------------------------------------------------------
(* Before a command is sent: nothing is outstanding, nothing to be skipped. *)

Calm(m, s, e) ==
  /\ m.q = <<>> /\ s.replies = <<>> /\ ~s.prelim
  /\ m.c.pending = 0 /\ m.c.skip = 0 /\ m.c.conn = "up"
  /\ m.c.lastType \in Types => s.type = m.c.lastType
  /\ ~m.c.sentRest => s.offset = 0
  /\ m.c.tids + Remaining(m.c) <= 2 * m.c.count
  /\ e + (IF m.d.tid # 0 /\ m.d.reason = "none" THEN 1 ELSE 0) <= m.c.tids
  /\ m.d.reason = "ok" => s.received = m.d.tid

\* A raw transfer o above its parent p has a command to send.
Unsent == {"type", "port_pasv", "rest", "transfer"}
DataUnsent(d) ==
  d.block = 1 /\ d.link \in {"idle", "listening", "reset"} /\ d.events = "none"
  /\ (d.reason # "none" => d.early)
RawReady(m, s, e, p, o) ==
  /\ Calm(m, s, e)
  /\ m.c.ops = <<p, o>> /\ p \in Op /\ o \in Op
  /\ Parent(p, {"wait", "waittest"})
  /\ o.kind = "raw" /\ o.tid = m.c.tids /\ o.tid > 0
  /\ o.st \in Unsent /\ ~o.sent /\ ~o.asks /\ (o.resolving => o.st = "port_pasv")
  /\ o.st # "type" => m.c.lastType = o.binary
  /\ o.st \in {"rest", "transfer"} => s.port = o.tid /\ ~s.linked
  /\ o.st = "transfer" => s.offset = o.offset
  /\ DataUnsent(m.d) /\ m.d.tid = o.tid

\* The server, with other commands under way to it.
LEMMA ServerIs ==
  ASSUME NEW s \in ServerState, NEW q \in Seq(Command), NEW t, t = [s EXCEPT !.cmds = q]
  PROVE  /\ t \in ServerState /\ t.cmds = q
         /\ t.replies = s.replies /\ t.type = s.type /\ t.offset = s.offset /\ t.port = s.port
         /\ t.prelim = s.prelim /\ t.linked = s.linked
         /\ t.completed = s.completed /\ t.received = s.received
BY DEF ServerState

\* A raw transfer has sent its command: the invariant holds.  The fields of
\* the parent and the raw transfer that do not matter may have changed.
LEMMA RawSent ==
  ASSUME NEW m \in Machine, NEW s \in ServerState, NEW e \in Nat, NEW p, NEW o, RawReady(m, s, e, p, o),
         NEW n \in Machine, NEW p2 \in Op, NEW o2 \in Op, NEW x \in Command,
         Parent(p2, {"wait", "waittest"}), p2.again = p.again,
         o2.kind = "raw", o2.tid = o.tid, o2.st = o.st, o2.binary = o.binary, o2.offset = o.offset,
         o2.sent <=> o.st = "transfer", ~o2.asks, ~o2.resolving,
         n.c.ops = <<p2, o2>>, n.c.conn = "up", n.c.pending = 1, n.c.skip = 0, n.c.timer,
         n.c.lastType = IF o.st = "type" THEN "unknown" ELSE m.c.lastType,
         n.c.sentRest <=> m.c.sentRest \/ (o.st = "rest" /\ o.offset > 0),
         n.c.tids = m.c.tids, n.c.count = m.c.count,
         Only(n.q, x), x.cmd = SentBy(o2), x.tid = o.tid, x.binary = o.binary, x.offset = o.offset,
         n.d.tid = m.d.tid, n.d.reason = m.d.reason, n.d.early = m.d.early, n.d.events = m.d.events,
         o.st = "transfer" => (n.d.link = "connected" \/ n.d.reason = "none" => n.d.block = 0) /\ n.d.block \in {0, 1},
         o.st # "transfer" => n.d.block = 1 /\ n.d.link \in {"idle", "listening", "reset"}
  PROVE  Holds(n, s, e)
<1> USE DEF RawReady, Calm, Only
<1> PICK t : t = [s EXCEPT !.cmds = n.q]
  OBVIOUS
<1>t. /\ t \in ServerState /\ t.cmds = <<x>>
      /\ t.replies = <<>> /\ t.type = s.type /\ t.offset = s.offset /\ t.port = s.port
      /\ ~t.prelim /\ t.linked = s.linked
      /\ t.completed = s.completed /\ t.received = s.received
  BY ServerIs DEF Machine
<1> PICK c : c = n.c
  OBVIOUS
<1> PICK d : d = n.d
  OBVIOUS
<1>1. c \in ControlState /\ d \in Socket /\ t \in ServerState /\ e \in Nat
  BY <1>t DEF Machine
<1>s. /\ Len(c.ops) = 2 /\ c.ops[1] = p2 /\ c.ops[2] = o2 /\ c.ops # <<>> /\ TopIn(c) = o2 /\ IsRaw(c)
      /\ t.cmds # <<>> /\ Current(t) = x
  <2>1. Len(c.ops) = 2 /\ c.ops[1] = p2 /\ c.ops[2] = o2 /\ c.ops # <<>> /\ TopIn(c) = o2
    BY TopOfTwo
  <2>2. t.cmds # <<>> /\ t.cmds[1] = x
    BY <1>t, Stacks
  <2> QED
    BY <2>1, <2>2 DEF IsRaw, Current
<1>2. Stacked(c)
  BY <1>s DEF Stacked, Raw, Unsent, Sent
<1>3. c.tids + Remaining(c) <= 2 * c.count
  BY <1>s, Stacks DEF Remaining, Parent
<1>4. Outstanding(c, t)
  BY <1>s, <1>t DEF Outstanding, InFlight
<1>5. Connected(c)
  BY <1>s DEF Connected
<1>6. Matched(c, t)
  BY <1>s, <1>t DEF Matched, Parents, Unsent
<1>7. Said(t)
  BY <1>s DEF Said
<1>8. Believed(c, t)
  <2>1. c.lastType \in Types => o.st # "type" /\ s.type = c.lastType
    BY DEF Types
  <2>2. x.cmd \notin {"command", "keepalive"} /\ (x.cmd = "type" => o.st = "type")
        /\ (x.cmd = "rest" => o.st = "rest") /\ (x.cmd = "transfer" => o.st = "transfer")
    BY DEF SentBy, Unsent
  <2>3. o.st # "type" => o.binary \in Types /\ s.type = o.binary /\ c.lastType = o.binary
    BY DEF Op
  <2>4. ~c.sentRest => s.offset = 0 /\ (x.cmd = "rest" => x.offset = 0)
    BY <2>2 DEF Op, Offsets
  <2> QED
    BY <1>s, <1>t, <2>1, <2>2, <2>3, <2>4 DEF Believed, Known, IsTransfer
<1>9. Data(c, d, t)
  BY <1>s, <1>t DEF Data, Unsent, SentBy, IsTransfer, Up, DataUnsent
<1>10. Ended(c, d, t, e)
  BY <1>s, <1>t DEF Ended, Unsent, DataUnsent
<1>11. Timed(c)
  BY <1>s DEF Timed
<1> QED
  BY <1>1, <1>2, <1>3, <1>4, <1>5, <1>6, <1>7, <1>8, <1>9, <1>10, <1>11 DEF Holds, Inv

-----------------------------------------------------------------------------
(* What is left of the invariant when the operations are taken away.       *)

Loose(c, s, e) ==
  /\ \/ c.pending = 0 /\ Nothing(s)
     \/ c.pending = 1 /\ InFlight(s)
  /\ s.prelim => s.cmds # <<>> /\ IsTransfer(s)
  /\ c.conn = "up"
  /\ Said(s) /\ Known(c, s)
  /\ c.tids <= 2 * c.count /\ e <= c.tids

\* The invariant implies it while the connection is up.
LEMMA InvLoose ==
  ASSUME NEW c, NEW d, NEW s, NEW e, Inv(c, d, s, e), c.conn = "up"
  PROVE  Loose(c, s, e)
<1> USE DEF Inv
<1>1. c.tids \in Nat /\ c.count \in Nat /\ d.tid \in Nat
  BY FtpAssumption DEF ControlState, Transfers, MaxTransfers, Socket
<1>2. Remaining(c) \in Nat
  BY DEF Remaining
<1>3. c.tids <= 2 * c.count
  BY <1>1, <1>2
<1>4. e <= c.tids
  BY <1>1 DEF Ended
<1> QED
  BY <1>3, <1>4 DEF Outstanding, Believed, Loose

\* It holds before a command is sent.
LEMMA CalmLoose ==
  ASSUME NEW m \in Machine, NEW s \in ServerState, NEW e \in Nat, Calm(m, s, e),
         NEW t, t = [s EXCEPT !.cmds = m.q]
  PROVE  Loose(m.c, t, e)
<1> USE DEF Calm
<1>t. t.cmds = <<>> /\ t.replies = <<>> /\ t.type = s.type /\ t.offset = s.offset /\ ~t.prelim
  BY ServerIs DEF Machine
<1>1. m.c.tids \in Nat /\ m.c.count \in Nat
  BY FtpAssumption DEF Machine, ControlState, Transfers, MaxTransfers
<1>2. Remaining(m.c) \in Nat
  BY DEF Remaining
<1>3. m.c.tids <= 2 * m.c.count
  BY <1>1, <1>2
<1>4. e <= m.c.tids
  BY <1>1
<1>5. Said(t) /\ Known(m.c, t)
  BY <1>t DEF Said, Known
<1>6. Nothing(t)
  BY <1>t DEF Nothing
<1> QED
  BY <1>t, <1>3, <1>4, <1>5, <1>6 DEF Loose

\* Without operations the invariant holds if what is outstanding is skipped.
LEMMA Emptied ==
  ASSUME NEW c \in ControlState, NEW s \in ServerState, NEW e \in Nat, Loose(c, s, e),
         NEW k \in ControlState, k.ops = <<>>, k.skip = c.pending, k.pending = c.pending,
         k.conn = c.conn, k.lastType = c.lastType, k.sentRest = c.sentRest, k.tids = c.tids, k.count = c.count
  PROVE  Inv(k, NoSocket, s, e)
<1> USE DEF Loose
<1>r. ~IsRaw(k)
  BY DEF IsRaw
<1>2. Stacked(k)
  BY DEF Stacked
<1>3. k.tids + Remaining(k) <= 2 * k.count
  BY FtpAssumption DEF Remaining, ControlState, Transfers, MaxTransfers
<1>4. Outstanding(k, s)
  <2>1. Len(k.ops) = 0
    BY EmptySeq
  <2> QED
    BY <2>1 DEF Outstanding
<1>5. Connected(k)
  BY DEF Connected
<1>6. Matched(k, s)
  BY DEF Matched
<1>8. Believed(k, s)
  BY <1>r DEF Believed, Known
<1>9. Data(k, NoSocket, s)
  BY <1>r DEF Data, NoSocket
<1>10. Ended(k, NoSocket, s, e)
  BY <1>r, FtpAssumption DEF Ended, NoSocket, ControlState, Transfers, MaxTransfers
<1>11. Timed(k)
  BY DEF Timed
<1> QED
  BY <1>2, <1>3, <1>4, <1>5, <1>6, <1>8, <1>9, <1>10, <1>11, NoSocketIs DEF Inv

-----------------------------------------------------------------------------
(* The commands of a raw transfer.                                         *)

\* Both operations fail before the transfer command is sent.
LEMMA FailRawIs ==
  ASSUME NEW m \in Machine, NEW p \in Op, NEW o \in Op, m.c.ops = <<p, o>>, NEW n, n = FailRaw(m)
  PROVE  /\ n \in Machine /\ n.d = NoSocket /\ n.q = m.q
         /\ n.c.ops = <<>> /\ n.c.skip = m.c.pending /\ n.c.pending = m.c.pending
         /\ Kept(m.c, n.c)
<1>k. PICK k : k = PopOp(m)
  OBVIOUS
<1>p. PICK rest : rest = <<p>>
  OBVIOUS
<1>1. rest \in Seq(Op) /\ rest = Front(m.c.ops)
  <2>1. Front(<<p, o>>) = <<p>>
    BY Stacks
  <2>2. <<p>> \in Seq(Op)
    OBVIOUS
  <2> QED
    BY <1>p, <2>1, <2>2
<1>2. /\ k \in Machine /\ k.d = NoSocket /\ k.q = m.q
      /\ k.c.ops = rest /\ k.c.skip = m.c.pending /\ k.c.pending = m.c.pending
      /\ Kept(m.c, k.c)
  BY <1>1, <1>k, PopOpIs
<1>4. n = PopOp(k)
  BY <1>k DEF FailRaw
<1>e. PICK none : none = <<>>
  OBVIOUS
<1>5. none \in Seq(Op) /\ none = Front(k.c.ops)
  <2>1. Front(<<p>>) = <<>>
    BY Stacks
  <2> QED
    BY <1>2, <1>p, <1>e, <2>1, EmptySeq
<1>6. /\ n \in Machine /\ n.d = NoSocket /\ n.q = k.q
      /\ n.c.ops = none /\ n.c.skip = k.c.pending /\ n.c.pending = k.c.pending
      /\ Kept(k.c, n.c)
  BY <1>2, <1>4, <1>5, PopOpIs
<1> QED
  BY <1>2, <1>6, <1>e DEF Kept

\* The outcome of PORT or PASV: the command that has been sent.
SameOp(o, o2) ==
  /\ o2.kind = o.kind /\ o2.st = o.st /\ o2.tid = o.tid /\ o2.binary = o.binary /\ o2.offset = o.offset
  /\ o2.again = o.again /\ o2.resolving = o.resolving /\ o2.sent = o.sent /\ o2.reason = o.reason
  /\ o2.asks = o.asks
Asked(m, n, p, o2) ==
  /\ n \in Machine /\ o2 \in Op
  /\ n.c.ops = <<p, o2>> /\ n.c.pending = 1 /\ n.c.skip = m.c.skip /\ n.c.timer /\ n.c.idle = m.c.idle
  /\ Kept(m.c, n.c)
  /\ n.d.tid = m.d.tid /\ n.d.reason = m.d.reason /\ n.d.early = m.d.early /\ n.d.events = m.d.events
  /\ n.d.block = m.d.block /\ n.d.link \in {m.d.link, "listening"}
  /\ \E x \in Command : /\ Only(n.q, x) /\ x.cmd = IF o2.pasv THEN "pasv" ELSE "port"
                        /\ x.tid = o2.tid /\ x.binary = o2.binary /\ x.offset = o2.offset

\* GetPassiveCommand asks for the server's port.
LEMMA GetPassiveIs ==
  ASSUME NEW m \in Machine, NEW p \in Op, NEW o \in Op, m.c.ops = <<p, o>>, m.c.pending = 0, m.q = <<>>, o.pasv,
         NEW n, n = GetPassiveCommand(m)
  PROVE  \E o2 \in Op : SameOp(o, o2) /\ Asked(m, n, p, o2)
<1>o. PICK o2 : o2 = [o EXCEPT !.triedPasv = TRUE]
  OBVIOUS
<1>1. o2 \in Op /\ o2.pasv /\ SameOp(o, o2)
  BY <1>o DEF Op, SameOp
<1>k. PICK k : k = WithTop(m, o2)
  OBVIOUS
<1>2. /\ k \in Machine /\ k.d = m.d /\ k.q = m.q
      /\ k.c.ops = <<p, o2>> /\ k.c.pending = m.c.pending /\ k.c.skip = m.c.skip
      /\ k.c.timer = m.c.timer /\ k.c.idle = m.c.idle
      /\ Kept(m.c, k.c)
  BY <1>1, <1>k, WithTopIs
<1>4. k.c.ops # <<>> /\ TopIn(k.c) = o2
  BY <1>2, TopOfTwo
<1>5. TopOf(m) = o
  BY TopOfIs
<1>6. n = SendCommand(k, "pasv")
  BY <1>5, <1>k, <1>o DEF GetPassiveCommand
<1>x. PICK x \in Command : x.cmd = "pasv" /\ x.tid = o2.tid /\ x.binary = o2.binary /\ x.offset = o2.offset
  <2>1. [cmd |-> "pasv", tid |-> o2.tid, binary |-> o2.binary, offset |-> o2.offset] \in Command
    BY <1>1 DEF Op, Command
  <2> QED
    BY <2>1
<1>7. /\ n \in Machine /\ n.d = k.d /\ Only(n.q, x)
      /\ n.c.ops = k.c.ops /\ n.c.pending = 1 /\ n.c.skip = k.c.skip
      /\ n.c.timer /\ n.c.idle = k.c.idle
      /\ Kept(k.c, n.c)
  <2>1. k \in Machine /\ k.q = <<>> /\ k.c.pending = 0
    BY <1>2
  <2> QED
    BY <1>1, <1>4, <1>6, <1>x, <2>1, SendCommandIs
<1> QED
  BY <1>1, <1>2, <1>7, <1>x DEF Asked, Kept

\* A command is among those of the protocol.
LEMMA CommandExists ==
  ASSUME NEW o \in Op, NEW cmd,
         cmd \in {"welcome", "login", "command", "extra", "keepalive", "type", "port", "pasv", "rest", "transfer"}
  PROVE  \E x \in Command : x.cmd = cmd /\ x.tid = o.tid /\ x.binary = o.binary /\ x.offset = o.offset
<1>1. [cmd |-> cmd, tid |-> o.tid, binary |-> o.binary, offset |-> o.offset] \in Command
  BY DEF Op, Command
<1> QED
  BY <1>1

\* A listening socket, and PORT.
LEMMA PortIs ==
  ASSUME NEW m \in Machine, NEW p \in Op, NEW o \in Op, m.c.ops = <<p, o>>, m.c.pending = 0, m.q = <<>>, ~o.pasv,
         NEW n, n = SendCommand(WithTop([m EXCEPT !.d.link = "listening"], [o EXCEPT !.triedActive = TRUE]), "port")
  PROVE  \E o2 \in Op : SameOp(o, o2) /\ Asked(m, n, p, o2)
<1>l. PICK l : l = [m EXCEPT !.d.link = "listening"]
  OBVIOUS
<1>a. /\ l \in Machine /\ l.c = m.c /\ l.q = m.q
      /\ l.d.link = "listening" /\ l.d.tid = m.d.tid /\ l.d.reason = m.d.reason /\ l.d.early = m.d.early
      /\ l.d.events = m.d.events /\ l.d.block = m.d.block
  <2>1. [m.d EXCEPT !.link = "listening"] \in Socket
    BY DEF Machine, Socket
  <2>2. l = [m EXCEPT !.d = [m.d EXCEPT !.link = "listening"]]
    BY <1>l DEF Machine, Socket
  <2>3. l \in Machine /\ l.c = m.c /\ l.q = m.q /\ l.d = [m.d EXCEPT !.link = "listening"]
    BY <2>1, <2>2 DEF Machine
  <2> QED
    BY <2>3 DEF Machine, Socket
<1>o. PICK o2 : o2 = [o EXCEPT !.triedActive = TRUE]
  OBVIOUS
<1>1. o2 \in Op /\ ~o2.pasv /\ SameOp(o, o2)
  BY <1>o DEF Op, SameOp
<1>k. PICK k : k = WithTop(l, o2)
  OBVIOUS
<1>2. /\ k \in Machine /\ k.d = l.d /\ k.q = l.q
      /\ k.c.ops = <<p, o2>> /\ k.c.pending = l.c.pending /\ k.c.skip = l.c.skip
      /\ k.c.timer = l.c.timer /\ k.c.idle = l.c.idle
      /\ Kept(l.c, k.c)
  BY <1>1, <1>a, <1>k, WithTopIs
<1>4. k.c.ops # <<>> /\ TopIn(k.c) = o2
  BY <1>2, TopOfTwo
<1>6. n = SendCommand(k, "port")
  BY <1>k, <1>o, <1>l
<1>x. PICK x \in Command : x.cmd = "port" /\ x.tid = o2.tid /\ x.binary = o2.binary /\ x.offset = o2.offset
  BY <1>1, CommandExists
<1>7. /\ n \in Machine /\ n.d = k.d /\ Only(n.q, x)
      /\ n.c.ops = k.c.ops /\ n.c.pending = 1 /\ n.c.skip = k.c.skip
      /\ n.c.timer /\ n.c.idle = k.c.idle
      /\ Kept(k.c, n.c)
  <2>1. k \in Machine /\ k.q = <<>> /\ k.c.pending = 0
    BY <1>2, <1>a
  <2> QED
    BY <1>1, <1>4, <1>6, <1>x, <2>1, SendCommandIs
<1>8. /\ n.d.tid = m.d.tid /\ n.d.reason = m.d.reason /\ n.d.early = m.d.early /\ n.d.events = m.d.events
      /\ n.d.block = m.d.block /\ n.d.link \in {m.d.link, "listening"}
  BY <1>2, <1>7, <1>a
<1>9. Kept(m.c, n.c)
  BY <1>2, <1>7, <1>a DEF Kept
<1>10. n.c.ops = <<p, o2>> /\ n.c.pending = 1 /\ n.c.skip = m.c.skip /\ n.c.timer /\ n.c.idle = m.c.idle
  BY <1>2, <1>7, <1>a
<1> QED
  BY <1>1, <1>7, <1>8, <1>9, <1>10, <1>x DEF Asked

\* The outcomes of sending PORT or PASV.
LEMMA SendPortIs ==
  ASSUME NEW m \in Machine, NEW p \in Op, NEW o \in Op, m.c.ops = <<p, o>>, m.c.pending = 0, m.q = <<>>,
         NEW n \in SendPort(m)
  PROVE  \/ n = FailRaw(m)
         \/ \E o2 \in Op : SameOp(o, o2) /\ Asked(m, n, p, o2)
<1>t. TopOf(m) = o
  BY TopOfIs
<1>1. CASE n = FailRaw(m)
  BY <1>1
<1>2. CASE o.pasv /\ n = GetPassiveCommand(m)
  BY <1>2, GetPassiveIs
<1>3. CASE ~o.pasv /\ n = SendCommand(WithTop([m EXCEPT !.d.link = "listening"], [o EXCEPT !.triedActive = TRUE]), "port")
  BY <1>3, PortIs
<1>4. CASE n = GetPassiveCommand(WithTop(m, [o EXCEPT !.triedActive = TRUE, !.pasv = TRUE]))
  <2>o. PICK o1 : o1 = [o EXCEPT !.triedActive = TRUE, !.pasv = TRUE]
    OBVIOUS
  <2>1. o1 \in Op /\ o1.pasv /\ SameOp(o, o1)
    BY <2>o DEF Op, SameOp
  <2>k. PICK k : k = WithTop(m, o1)
    OBVIOUS
  <2>2. /\ k \in Machine /\ k.d = m.d /\ k.q = m.q
        /\ k.c.ops = <<p, o1>> /\ k.c.pending = m.c.pending /\ k.c.skip = m.c.skip
        /\ k.c.timer = m.c.timer /\ k.c.idle = m.c.idle
        /\ Kept(m.c, k.c)
    BY <2>1, <2>k, WithTopIs
  <2>3. n = GetPassiveCommand(k)
    BY <1>4, <2>k, <2>o
  <2>4. k.c.pending = 0 /\ k.q = <<>>
    BY <2>2
  <2>5. PICK o2 \in Op : SameOp(o1, o2) /\ Asked(k, n, p, o2)
    BY <2>1, <2>2, <2>3, <2>4, GetPassiveIs
  <2>6. SameOp(o, o2)
    BY <2>1, <2>5 DEF SameOp
  <2>7. Asked(m, n, p, o2)
    BY <2>2, <2>5 DEF Asked, Kept
  <2> QED
    BY <2>6, <2>7
<1> QED
  BY <1>t, <1>1, <1>2, <1>3, <1>4 DEF SendPort

\* What every outcome n of a handler that starts in m has to satisfy.
Fine(m, n, s, e) == n \in Machine /\ Holds(n, s, e) /\ n.c.succeeded = m.c.succeeded

\* Once all operations are gone.
LEMMA Gone ==
  ASSUME NEW m \in Machine, NEW s \in ServerState, NEW e \in Nat, Loose(m.c, [s EXCEPT !.cmds = m.q], e),
         NEW n \in Machine, n.d = NoSocket, n.q = m.q,
         n.c.ops = <<>>, n.c.skip = m.c.pending, n.c.pending = m.c.pending, Kept(m.c, n.c)
  PROVE  Fine(m, n, s, e)
<1>t. PICK t : t = [s EXCEPT !.cmds = m.q]
  OBVIOUS
<1>1. t \in ServerState /\ Loose(m.c, t, e) /\ t = [s EXCEPT !.cmds = n.q]
  BY <1>t, ServerIs DEF Machine
<1>2. m.c \in ControlState /\ n.c \in ControlState
  BY DEF Machine
<1>k. PICK k : k = n.c
  OBVIOUS
<1>3. /\ k \in ControlState /\ k.ops = <<>> /\ k.skip = m.c.pending /\ k.pending = m.c.pending
      /\ k.conn = m.c.conn /\ k.lastType = m.c.lastType /\ k.sentRest = m.c.sentRest
      /\ k.tids = m.c.tids /\ k.count = m.c.count
  BY <1>2, <1>k DEF Kept
<1>4. Inv(k, NoSocket, t, e)
  BY <1>1, <1>2, <1>3, Emptied
<1> QED
  BY <1>1, <1>4, <1>k DEF Holds, Fine, Kept

\* A transfer whose socket cannot be created.
LEMMA RawGivesUp ==
  ASSUME NEW m \in Machine, NEW s \in ServerState, NEW e \in Nat, NEW p, NEW o, RawReady(m, s, e, p, o),
         NEW n, n = FailRaw(m)
  PROVE  Fine(m, n, s, e)
<1>1. m.c.ops = <<p, o>> /\ p \in Op /\ o \in Op /\ Calm(m, s, e)
  BY DEF RawReady
<1>2. /\ n \in Machine /\ n.d = NoSocket /\ n.q = m.q
      /\ n.c.ops = <<>> /\ n.c.skip = m.c.pending /\ n.c.pending = m.c.pending
      /\ Kept(m.c, n.c)
  BY <1>1, FailRawIs
<1>3. Loose(m.c, [s EXCEPT !.cmds = m.q], e)
  BY <1>1, CalmLoose
<1> QED
  BY <1>2, <1>3, Gone

\* PORT or PASV has been sent, by a transfer that does not wait for the
\* resolver any more.
LEMMA PortAsked ==
  ASSUME NEW m \in Machine, NEW s \in ServerState, NEW e \in Nat, NEW p, NEW o, RawReady(m, s, e, p, o),
         o.st = "port_pasv", ~o.resolving,
         NEW n, NEW o2, SameOp(o, o2), Asked(m, n, p, o2)
  PROVE  Fine(m, n, s, e)
<1>1. /\ n \in Machine /\ o2 \in Op
      /\ n.c.ops = <<p, o2>> /\ n.c.pending = 1 /\ n.c.skip = m.c.skip /\ n.c.timer
      /\ Kept(m.c, n.c)
      /\ n.d.tid = m.d.tid /\ n.d.reason = m.d.reason /\ n.d.early = m.d.early /\ n.d.events = m.d.events
      /\ n.d.block = m.d.block /\ n.d.link \in {m.d.link, "listening"}
  BY DEF Asked
<1>2. PICK x \in Command : /\ Only(n.q, x) /\ x.cmd = (IF o2.pasv THEN "pasv" ELSE "port")
                           /\ x.tid = o2.tid /\ x.binary = o2.binary /\ x.offset = o2.offset
  BY DEF Asked
<1>3. /\ Parent(p, {"wait", "waittest"}) /\ p \in Op /\ m.c.skip = 0 /\ m.c.conn = "up" /\ o.kind = "raw"
      /\ ~o.sent /\ ~o.asks
      /\ m.d.block = 1 /\ m.d.link \in {"idle", "listening", "reset"}
  BY DEF RawReady, Calm, DataUnsent
<1>4. x.cmd = SentBy(o2)
  BY <1>2, <1>3 DEF SentBy, SameOp
<1>5. Holds(n, s, e)
  BY <1>1, <1>2, <1>3, <1>4, RawSent DEF SameOp, Kept
<1> QED
  BY <1>1, <1>5 DEF Fine, Kept

\* SendPort with all its outcomes.
LEMMA PortFine ==
  ASSUME NEW m \in Machine, NEW s \in ServerState, NEW e \in Nat, NEW p, NEW o, RawReady(m, s, e, p, o),
         o.st = "port_pasv", ~o.resolving, NEW n \in SendPort(m)
  PROVE  Fine(m, n, s, e)
<1>1. m.c.ops = <<p, o>> /\ p \in Op /\ o \in Op /\ m.c.pending = 0 /\ m.q = <<>>
  BY DEF RawReady, Calm
<1>2. n = FailRaw(m) \/ \E o2 \in Op : SameOp(o, o2) /\ Asked(m, n, p, o2)
  BY <1>1, SendPortIs
<1> QED
  BY <1>2, RawGivesUp, PortAsked

\* A transfer that waits for the resolver.
LEMMA Resolves ==
  ASSUME NEW m \in Machine, NEW s \in ServerState, NEW e \in Nat, NEW p, NEW o, RawReady(m, s, e, p, o),
         o.st = "port_pasv", NEW o2 \in Op, o2.resolving, o2.kind = o.kind, o2.st = o.st, o2.tid = o.tid, o2.sent = o.sent,
         o2.asks = o.asks, o2.binary = o.binary, NEW n, n = WithTop(m, o2)
  PROVE  Fine(m, n, s, e)
<1>0. /\ m.c.ops = <<p, o>> /\ p \in Op /\ o \in Op
  BY DEF RawReady
<1>p. /\ o.kind = "raw" /\ ~o.sent /\ ~o.asks
  BY DEF RawReady
<1>1. o2 \in Op /\ o2.resolving /\ o2.kind = "raw" /\ o2.st = "port_pasv" /\ o2.tid = o.tid
      /\ ~o2.sent /\ ~o2.asks /\ o2.binary = o.binary
  BY <1>p
<1>2. /\ n \in Machine /\ n.d = m.d /\ n.q = m.q
      /\ n.c.ops = <<p, o2>> /\ n.c.pending = m.c.pending /\ n.c.skip = m.c.skip
      /\ n.c.idle = m.c.idle
      /\ Kept(m.c, n.c)
  BY <1>0, WithTopIs
<1>t0. PICK t : t = [s EXCEPT !.cmds = n.q]
  OBVIOUS
<1>t. /\ t \in ServerState /\ t.cmds = <<>>
      /\ t.replies = <<>> /\ t.type = s.type /\ t.offset = s.offset /\ t.port = s.port
      /\ ~t.prelim /\ t.linked = s.linked
      /\ t.completed = s.completed /\ t.received = s.received
  BY <1>2, <1>t0, ServerIs DEF Machine, RawReady, Calm
<1>c. PICK c : c = n.c
  OBVIOUS
<1>d. PICK d : d = m.d
  OBVIOUS
<1>s. Len(c.ops) = 2 /\ c.ops[1] = p /\ c.ops[2] = o2 /\ c.ops # <<>> /\ TopIn(c) = o2
  <2>1. c.ops = <<p, o2>>
    BY <1>2, <1>c
  <2> QED
    BY <2>1, TopOfTwo
<1> USE DEF RawReady, Calm
<1>k. /\ c \in ControlState /\ c.pending = 0 /\ c.skip = 0 /\ c.conn = "up"
      /\ c.tids = m.c.tids /\ c.count = m.c.count /\ c.lastType = m.c.lastType /\ c.sentRest = m.c.sentRest
  BY <1>2, <1>c DEF Kept, Machine
<1>2a. Stacked(c)
  BY <1>s, <1>k, <1>1 DEF Stacked, Raw, Sent
<1>3. c.tids + Remaining(c) <= 2 * c.count
  BY <1>s, <1>k, Stacks DEF Remaining
<1>4. Outstanding(c, t)
  BY <1>s, <1>k, <1>t DEF Outstanding, Nothing
<1>5. Connected(c)
  BY <1>s, <1>k, <1>1 DEF Connected
<1>6. Matched(c, t)
  BY <1>s, <1>k, <1>1 DEF Matched
<1>7. Said(t)
  BY <1>t DEF Said
<1>8. Believed(c, t)
  BY <1>s, <1>k, <1>t, <1>1 DEF Believed, Known
<1>9. Data(c, d, t)
  BY <1>s, <1>d, <1>t, <1>1 DEF Data, DataUnsent, Up, IsRaw
<1>10. Ended(c, d, t, e)
  BY <1>s, <1>d, <1>k, <1>t, <1>1 DEF Ended
<1>11. Timed(c)
  BY <1>s, <1>1 DEF Timed
<1>12. Inv(c, d, t, e)
  BY <1>t, <1>d, <1>k, <1>2a, <1>3, <1>4, <1>5, <1>6, <1>7, <1>8, <1>9, <1>10, <1>11 DEF Inv, Machine
<1> QED
  BY <1>12, <1>c, <1>d, <1>t0, <1>2 DEF Holds, Fine, Kept

\* SetActive lets the events of the data socket come, for the first time.
LEMMA SetActiveIs ==
  ASSUME NEW d \in Socket, d.block \in {0, 1}, NEW f, f = SetActive(d)
  PROVE  /\ f \in Socket /\ f.tid = d.tid /\ f.link = d.link /\ f.reason = d.reason /\ f.early = d.early
         /\ d.events = "none" => f.events = "none"
         /\ f.block \in {0, 1} /\ (d.reason = "none" => f.block = 0)
         /\ f.events = IF d.reason = "none" /\ d.block = 1 /\ d.link = "connected" /\ d.events = "postponed"
                       THEN "flowing" ELSE d.events
<1>1. CASE d.reason # "none" \/ d.block = 0
  BY <1>1 DEF SetActive
<1>2. CASE d.reason = "none" /\ d.block = 1
  <2>e. PICK ev \in {"none", "postponed", "flowing"} :
          ev = IF d.link = "connected" /\ d.events = "postponed" THEN "flowing" ELSE d.events
    BY DEF Socket
  <2>1. f = [d EXCEPT !.block = 0, !.events = ev]
    BY <1>2, <2>e DEF SetActive, Socket
  <2> QED
    BY <1>2, <2>1, <2>e, Numbers DEF Socket
<1> QED
  BY <1>1, <1>2

\* The transfer command.
LEMMA TransferCommandFine ==
  ASSUME NEW m \in Machine, NEW s \in ServerState, NEW e \in Nat, NEW p, NEW o, RawReady(m, s, e, p, o),
         o.st = "transfer", NEW l, l \in {m.d.link, "connecting"}
  PROVE  Fine(m, SendCommand(WithTop([m EXCEPT !.d = SetActive([m.d EXCEPT !.link = l])], [o EXCEPT !.sent = TRUE]),
                             "transfer"), s, e)
<1>n. PICK n : n = SendCommand(WithTop([m EXCEPT !.d = SetActive([m.d EXCEPT !.link = l])], [o EXCEPT !.sent = TRUE]),
                               "transfer")
  OBVIOUS
<1>0. /\ m.c.ops = <<p, o>> /\ p \in Op /\ o \in Op /\ m.c.pending = 0 /\ m.c.skip = 0 /\ m.c.conn = "up" /\ m.q = <<>>
      /\ Parent(p, {"wait", "waittest"}) /\ o.kind = "raw" /\ ~o.asks /\ ~o.resolving
      /\ m.d.block = 1 /\ m.d.link \in {"idle", "listening", "reset"} /\ m.d.events = "none"
  BY DEF RawReady, Calm, DataUnsent
<1>d. PICK d : d = [m.d EXCEPT !.link = l]
  OBVIOUS
<1>1. /\ d \in Socket /\ d.link = l /\ d.tid = m.d.tid /\ d.reason = m.d.reason /\ d.early = m.d.early
      /\ d.events = "none" /\ d.block = 1
  BY <1>0, <1>d DEF Machine, Socket
<1>f. PICK f : f = SetActive(d)
  OBVIOUS
<1>2. /\ f \in Socket /\ f.tid = m.d.tid /\ f.link = l /\ f.reason = m.d.reason /\ f.early = m.d.early
      /\ f.events = "none" /\ f.block \in {0, 1} /\ (m.d.reason = "none" => f.block = 0)
  BY <1>1, <1>f, SetActiveIs
<1>m. PICK m1 : m1 = [m EXCEPT !.d = f]
  OBVIOUS
<1>3. m1 \in Machine /\ m1.c = m.c /\ m1.q = <<>> /\ m1.d = f
  BY <1>0, <1>2, <1>m DEF Machine
<1>o. PICK o2 : o2 = [o EXCEPT !.sent = TRUE]
  OBVIOUS
<1>4. /\ o2 \in Op /\ o2.sent /\ o2.kind = "raw" /\ o2.tid = o.tid /\ o2.st = o.st /\ o2.binary = o.binary
      /\ o2.offset = o.offset /\ ~o2.asks /\ ~o2.resolving
  BY <1>0, <1>o DEF Op
<1>k. PICK k : k = WithTop(m1, o2)
  OBVIOUS
<1>5. m1.c.ops = <<p, o>>
  BY <1>0, <1>3
<1>6. /\ k \in Machine /\ k.d = m1.d /\ k.q = m1.q
      /\ k.c.ops = <<p, o2>> /\ k.c.pending = m1.c.pending /\ k.c.skip = m1.c.skip
      /\ k.c.timer = m1.c.timer /\ k.c.idle = m1.c.idle
      /\ Kept(m1.c, k.c)
  BY <1>0, <1>3, <1>4, <1>5, <1>k, WithTopIs
<1>7. k.c.ops # <<>> /\ TopIn(k.c) = o2
  BY <1>6, TopOfTwo
<1>8. n = SendCommand(k, "transfer")
  BY <1>n, <1>k, <1>o, <1>m, <1>f, <1>d
<1>x. PICK x \in Command : x.cmd = "transfer" /\ x.tid = o2.tid /\ x.binary = o2.binary /\ x.offset = o2.offset
  BY <1>4, CommandExists
<1>9. /\ n \in Machine /\ n.d = k.d /\ Only(n.q, x)
      /\ n.c.ops = k.c.ops /\ n.c.pending = 1 /\ n.c.skip = k.c.skip
      /\ n.c.timer /\ n.c.idle = k.c.idle
      /\ Kept(k.c, n.c)
  <2>1. k \in Machine /\ k.q = <<>> /\ k.c.pending = 0
    BY <1>0, <1>3, <1>6
  <2> QED
    BY <1>4, <1>7, <1>8, <1>x, <2>1, SendCommandIs
<1>10. n.c.ops = <<p, o2>> /\ n.c.skip = 0 /\ n.d = f
  BY <1>0, <1>3, <1>6, <1>9
<1>11. Kept(m.c, n.c)
  BY <1>3, <1>6, <1>9 DEF Kept
<1>12. x.cmd = SentBy(o2)
  BY <1>4, <1>x DEF SentBy
<1>13. Holds(n, s, e)
  <2>1. /\ Parent(p, {"wait", "waittest"}) /\ p.again = p.again
        /\ o2.kind = "raw" /\ o2.tid = o.tid /\ o2.st = o.st /\ o2.binary = o.binary /\ o2.offset = o.offset
        /\ (o2.sent <=> o.st = "transfer") /\ ~o2.asks /\ ~o2.resolving
        /\ n.c.ops = <<p, o2>> /\ n.c.conn = "up" /\ n.c.pending = 1 /\ n.c.skip = 0 /\ n.c.timer
        /\ n.c.lastType = (IF o.st = "type" THEN "unknown" ELSE m.c.lastType)
        /\ (n.c.sentRest <=> m.c.sentRest \/ (o.st = "rest" /\ o.offset > 0))
        /\ n.c.tids = m.c.tids /\ n.c.count = m.c.count
        /\ Only(n.q, x) /\ x.cmd = SentBy(o2) /\ x.tid = o.tid /\ x.binary = o.binary /\ x.offset = o.offset
        /\ n.d.tid = m.d.tid /\ n.d.reason = m.d.reason /\ n.d.early = m.d.early /\ n.d.events = m.d.events
        /\ (o.st = "transfer" => (n.d.link = "connected" \/ n.d.reason = "none" => n.d.block = 0) /\ n.d.block \in {0, 1})
        /\ (o.st # "transfer" => n.d.block = 1 /\ n.d.link \in {"idle", "listening", "reset"})
    BY <1>0, <1>1, <1>2, <1>4, <1>9, <1>10, <1>11, <1>12, <1>x DEF Kept
  <2>2. n \in Machine /\ p \in Op /\ o2 \in Op
    BY <1>0, <1>4, <1>9
  <2> QED
    BY <2>1, <2>2, RawSent
<1>14. Fine(m, n, s, e)
  BY <1>9, <1>11, <1>13 DEF Fine, Kept
<1> QED
  BY <1>14, <1>n

\* TYPE and REST.
LEMMA SetupFine ==
  ASSUME NEW m \in Machine, NEW s \in ServerState, NEW e \in Nat, NEW p, NEW o, RawReady(m, s, e, p, o),
         o.st \in {"type", "rest"},
         NEW k \in Machine, k.d = m.d, k.q = m.q,
         k.c.ops = m.c.ops, k.c.pending = m.c.pending, k.c.skip = m.c.skip, k.c.conn = m.c.conn,
         o.st = "type" => k.c.lastType = "unknown", o.st # "type" => k.c.lastType = m.c.lastType,
         k.c.sentRest <=> m.c.sentRest \/ (o.st = "rest" /\ o.offset > 0),
         k.c.tids = m.c.tids, k.c.count = m.c.count, k.c.succeeded = m.c.succeeded,
         NEW cmd, cmd = o.st, NEW n, n = SendCommand(k, cmd)
  PROVE  Fine(m, n, s, e)
<1>0. /\ m.c.ops = <<p, o>> /\ p \in Op /\ o \in Op /\ m.c.pending = 0 /\ m.c.skip = 0 /\ m.c.conn = "up" /\ m.q = <<>>
      /\ Parent(p, {"wait", "waittest"}) /\ o.kind = "raw" /\ ~o.asks /\ ~o.resolving /\ ~o.sent
      /\ m.d.block = 1 /\ m.d.link \in {"idle", "listening", "reset"} /\ m.d.events = "none"
  BY DEF RawReady, Calm, DataUnsent
<1>2. k.c.ops # <<>> /\ TopIn(k.c) = o
  <2>1. k.c.ops = <<p, o>>
    BY <1>0
  <2> QED
    BY <2>1, TopOfTwo
<1>x. PICK x \in Command : x.cmd = cmd /\ x.tid = o.tid /\ x.binary = o.binary /\ x.offset = o.offset
  <2>1. [cmd |-> o.st, tid |-> o.tid, binary |-> o.binary, offset |-> o.offset] \in Command
    BY <1>0 DEF Op, Command
  <2> QED
    BY <2>1
<1>3. /\ n \in Machine /\ n.d = k.d /\ Only(n.q, x)
      /\ n.c.ops = k.c.ops /\ n.c.pending = 1 /\ n.c.skip = k.c.skip
      /\ n.c.timer /\ n.c.idle = k.c.idle
      /\ Kept(k.c, n.c)
  <2>1. k.q = <<>> /\ k.c.pending = 0 /\ o \in Op
    BY <1>0
  <2> QED
    BY <1>2, <1>x, <2>1, SendCommandIs
<1>4. /\ n.c.ops = <<p, o>> /\ n.c.skip = 0 /\ n.d = m.d /\ n.c.conn = "up"
      /\ n.c.lastType = k.c.lastType /\ n.c.sentRest = k.c.sentRest
      /\ n.c.tids = m.c.tids /\ n.c.count = m.c.count /\ n.c.succeeded = m.c.succeeded
  BY <1>0, <1>3 DEF Kept
<1>5. x.cmd = SentBy(o)
  BY <1>0, <1>x DEF SentBy
<1>6. Holds(n, s, e)
  <2>1. /\ Parent(p, {"wait", "waittest"}) /\ p.again = p.again
        /\ o.kind = "raw" /\ o.tid = o.tid /\ o.st = o.st /\ o.binary = o.binary /\ o.offset = o.offset
        /\ (o.sent <=> o.st = "transfer") /\ ~o.asks /\ ~o.resolving
        /\ n.c.ops = <<p, o>> /\ n.c.conn = "up" /\ n.c.pending = 1 /\ n.c.skip = 0 /\ n.c.timer
        /\ n.c.lastType = (IF o.st = "type" THEN "unknown" ELSE m.c.lastType)
        /\ (n.c.sentRest <=> m.c.sentRest \/ (o.st = "rest" /\ o.offset > 0))
        /\ n.c.tids = m.c.tids /\ n.c.count = m.c.count
        /\ Only(n.q, x) /\ x.cmd = SentBy(o) /\ x.tid = o.tid /\ x.binary = o.binary /\ x.offset = o.offset
        /\ n.d.tid = m.d.tid /\ n.d.reason = m.d.reason /\ n.d.early = m.d.early /\ n.d.events = m.d.events
        /\ (o.st = "transfer" => (n.d.link = "connected" \/ n.d.reason = "none" => n.d.block = 0) /\ n.d.block \in {0, 1})
        /\ (o.st # "transfer" => n.d.block = 1 /\ n.d.link \in {"idle", "listening", "reset"})
    BY <1>0, <1>3, <1>4, <1>5, <1>x
  <2>2. n \in Machine /\ p \in Op /\ o \in Op
    BY <1>0, <1>3
  <2> QED
    BY <2>1, <2>2, RawSent
<1> QED
  BY <1>3, <1>4, <1>6 DEF Fine

\* SendRaw with all its outcomes, but for a transfer that only waits.
LEMMA SendRawFine ==
  ASSUME NEW m \in Machine, NEW s \in ServerState, NEW e \in Nat, NEW p, NEW o, RawReady(m, s, e, p, o),
         ~o.resolving, NEW n \in SendRaw(m)
  PROVE  Fine(m, n, s, e)
<1>0. m.c.ops = <<p, o>> /\ p \in Op /\ o \in Op /\ o.st \in Unsent
  BY DEF RawReady
<1>t. TopOf(m) = o
  BY <1>0, TopOfIs
<1>1. CASE o.st = "type"
  <2>k. PICK k : k = [m EXCEPT !.c.lastType = "unknown"]
    OBVIOUS
  <2>1. /\ k \in Machine /\ k.d = m.d /\ k.q = m.q
        /\ k.c.ops = m.c.ops /\ k.c.pending = m.c.pending /\ k.c.skip = m.c.skip /\ k.c.conn = m.c.conn
        /\ k.c.lastType = "unknown" /\ k.c.sentRest = m.c.sentRest
        /\ k.c.tids = m.c.tids /\ k.c.count = m.c.count /\ k.c.succeeded = m.c.succeeded
    <3>1. [m.c EXCEPT !.lastType = "unknown"] \in ControlState
      BY DEF Machine, ControlState
    <3>2. k \in Machine /\ k.d = m.d /\ k.q = m.q /\ k.c = [m.c EXCEPT !.lastType = "unknown"]
      BY <3>1, <2>k DEF Machine
    <3> QED
      BY <3>2 DEF Machine, ControlState
  <2>2. n = SendCommand(k, "type")
    BY <1>1, <1>t, <2>k DEF SendRaw
  <2> QED
    BY <1>1, <2>1, <2>2, SetupFine
<1>2. CASE o.st = "rest"
  <2>b. PICK sr \in BOOLEAN : sr = (m.c.sentRest \/ o.offset > 0)
    OBVIOUS
  <2>k. PICK k : k = [m EXCEPT !.c.sentRest = sr]
    OBVIOUS
  <2>1. /\ k \in Machine /\ k.d = m.d /\ k.q = m.q
        /\ k.c.ops = m.c.ops /\ k.c.pending = m.c.pending /\ k.c.skip = m.c.skip /\ k.c.conn = m.c.conn
        /\ k.c.lastType = m.c.lastType /\ k.c.sentRest = sr
        /\ k.c.tids = m.c.tids /\ k.c.count = m.c.count /\ k.c.succeeded = m.c.succeeded
    <3>1. [m.c EXCEPT !.sentRest = sr] \in ControlState
      BY DEF Machine, ControlState
    <3>2. k \in Machine /\ k.d = m.d /\ k.q = m.q /\ k.c = [m.c EXCEPT !.sentRest = sr]
      BY <3>1, <2>k DEF Machine
    <3> QED
      BY <3>2 DEF Machine, ControlState
  <2>2. n = SendCommand(k, "rest")
    BY <1>2, <1>t, <2>b, <2>k DEF SendRaw
  <2>3. k.c.sentRest <=> m.c.sentRest \/ (o.st = "rest" /\ o.offset > 0)
    BY <1>2, <2>1, <2>b
  <2> QED
    BY <1>2, <2>1, <2>2, <2>3, SetupFine
<1>3. CASE o.st = "port_pasv"
  <2>1. n \in SendPort(m) \/ n = WithTop(m, [o EXCEPT !.resolving = TRUE])
    BY <1>3, <1>t DEF SendRaw, SendPortPasv
  <2>o. PICK o2 : o2 = [o EXCEPT !.resolving = TRUE]
    OBVIOUS
  <2>2. /\ o2 \in Op /\ o2.resolving /\ o2.kind = o.kind /\ o2.st = o.st /\ o2.tid = o.tid /\ o2.sent = o.sent
        /\ o2.asks = o.asks /\ o2.binary = o.binary
    BY <1>0, <2>o DEF Op
  <2>3. n \in SendPort(m) \/ n = WithTop(m, o2)
    BY <2>1, <2>o
  <2> QED
    BY <1>3, <2>2, <2>3, PortFine, Resolves
<1>4. CASE o.st = "transfer"
  <2>l. PICK l : l = IF o.pasv THEN "connecting" ELSE m.d.link
    OBVIOUS
  <2>1. (IF o.pasv THEN [m.d EXCEPT !.link = "connecting"] ELSE m.d) = [m.d EXCEPT !.link = l]
    BY <2>l DEF Machine, Socket
  <2>2. \/ n = SendCommand(WithTop([m EXCEPT !.d = SetActive([m.d EXCEPT !.link = l])], [o EXCEPT !.sent = TRUE]),
                           "transfer")
        \/ n = FailRaw(m)
    BY <1>4, <1>t, <2>1 DEF SendRaw, SendTransfer
  <2>3. l \in {m.d.link, "connecting"}
    BY <2>l
  <2>4. Fine(m, SendCommand(WithTop([m EXCEPT !.d = SetActive([m.d EXCEPT !.link = l])], [o EXCEPT !.sent = TRUE]),
                            "transfer"), s, e)
    BY <1>4, <2>3, TransferCommandFine
  <2> QED
    BY <2>2, <2>4, RawGivesUp
<1> QED
  BY <1>0, <1>1, <1>2, <1>3, <1>4 DEF Unsent

-----------------------------------------------------------------------------
(* The commands of a parent and of the login, and the start of a transfer. *)

\* A parent alone has a command to send, or a transfer to start.
ParentReady(m, s, e, p) ==
  /\ Calm(m, s, e) /\ m.c.ops = <<p>> /\ p \in Op /\ Parent(p, {"start", "command"}) /\ m.d = NoSocket

\* A parent has sent its command.
LEMMA ParentSent ==
  ASSUME NEW m \in Machine, NEW s \in ServerState, NEW e \in Nat, NEW p, ParentReady(m, s, e, p),
         NEW n \in Machine, NEW x \in Command, p.st = "command",
         n.c.ops = <<p>>, n.c.conn = "up", n.c.pending = 1, n.c.skip = 0, n.c.timer,
         x.cmd = SentBy(p),
         n.c.lastType = IF x.cmd = "command" THEN "unknown" ELSE m.c.lastType,
         n.c.sentRest = m.c.sentRest,
         n.c.tids = m.c.tids, n.c.count = m.c.count, n.c.succeeded = m.c.succeeded,
         Only(n.q, x), x.tid = p.tid, x.binary = p.binary, x.offset = p.offset,
         n.d = m.d
  PROVE  Fine(m, n, s, e)
<1> USE DEF ParentReady, Calm, Only
<1>t0. PICK t : t = [s EXCEPT !.cmds = n.q]
  OBVIOUS
<1>t. /\ t \in ServerState /\ t.cmds = <<x>>
      /\ t.replies = <<>> /\ t.type = s.type /\ t.offset = s.offset /\ t.port = s.port
      /\ ~t.prelim /\ t.linked = s.linked
      /\ t.completed = s.completed /\ t.received = s.received
  BY <1>t0, ServerIs DEF Machine
<1>c. PICK c : c = n.c
  OBVIOUS
<1>1. c \in ControlState
  BY <1>c DEF Machine
<1>s. /\ Len(c.ops) = 1 /\ c.ops[1] = p /\ c.ops # <<>> /\ TopIn(c) = p /\ ~IsRaw(c)
      /\ t.cmds # <<>> /\ Current(t) = x
  <2>1. Len(c.ops) = 1 /\ c.ops[1] = p /\ c.ops # <<>> /\ TopIn(c) = p
    <3>1. c.ops = <<p>>
      BY <1>c
    <3> QED
      BY <3>1, TopOfOne
  <2>2. t.cmds # <<>> /\ t.cmds[1] = x
    BY <1>t, Stacks
  <2> QED
    BY <2>1, <2>2 DEF IsRaw, Current, Parent, Parents
<1>x. x.cmd \in {"command", "extra"}
  BY DEF SentBy, Parent, Parents
<1>2. Stacked(c)
  BY <1>s DEF Stacked
<1>3. c.tids + Remaining(c) <= 2 * c.count
  BY <1>s, <1>c, Stacks DEF Remaining
<1>4. Outstanding(c, t)
  BY <1>s, <1>t, <1>c DEF Outstanding, InFlight
<1>5. Connected(c)
  BY <1>s, <1>c DEF Connected, Parent, Parents
<1>6. Matched(c, t)
  BY <1>s, <1>t, <1>c DEF Matched, Parent
<1>7. Said(t)
  BY <1>s DEF Said
<1>8. Believed(c, t)
  BY <1>s, <1>t, <1>c, <1>x DEF Believed, Known, IsTransfer, Types
<1>9. Data(c, NoSocket, t)
  BY <1>s DEF Data, NoSocket
<1>10. Ended(c, NoSocket, t, e)
  BY <1>s, <1>c DEF Ended, NoSocket
<1>11. Timed(c)
  BY <1>s, <1>c DEF Timed
<1>12. Inv(c, NoSocket, t, e)
  BY <1>1, <1>t, <1>2, <1>3, <1>4, <1>5, <1>6, <1>7, <1>8, <1>9, <1>10, <1>11, NoSocketIs DEF Inv
<1> QED
  BY <1>12, <1>c, <1>t0 DEF Holds, Fine

\* The login command is sent above the parent.
LogonReady(m, s, e, p, o) ==
  /\ Calm(m, s, e) /\ m.c.ops = <<p, o>> /\ p \in Op /\ o \in Op
  /\ Parent(p, {"start", "command"}) /\ Logon(o) /\ o.st = "login" /\ m.d = NoSocket
\* What follows is fine.
LEMMA LoginSent ==
  ASSUME NEW m \in Machine, NEW s \in ServerState, NEW e \in Nat, NEW p, NEW o, LogonReady(m, s, e, p, o),
         NEW n, n = SendCommand(m, "login")
  PROVE  Fine(m, n, s, e)
<1>o. o \in Op
  BY DEF LogonReady
<1>x. PICK x \in Command : x.cmd = "login" /\ x.tid = o.tid /\ x.binary = o.binary /\ x.offset = o.offset
  BY <1>o, CommandExists
<1>0. /\ n \in Machine /\ n.d = m.d /\ Only(n.q, x)
      /\ n.c.ops = m.c.ops /\ n.c.pending = 1 /\ n.c.skip = m.c.skip
      /\ n.c.timer /\ n.c.idle = m.c.idle
      /\ Kept(m.c, n.c)
  <2>1. m.q = <<>> /\ m.c.pending = 0
    BY DEF Calm, LogonReady
  <2>2. m.c.ops # <<>> /\ TopIn(m.c) = o
    BY TopOfTwo DEF LogonReady
  <2> QED
    BY <1>o, <1>x, <2>1, <2>2, SendCommandIs
<1> USE DEF LogonReady, Calm, Only
<1>t0. PICK t : t = [s EXCEPT !.cmds = n.q]
  OBVIOUS
<1>t. /\ t \in ServerState /\ t.cmds = <<x>>
      /\ t.replies = <<>> /\ t.type = s.type /\ t.offset = s.offset /\ t.port = s.port
      /\ ~t.prelim /\ t.linked = s.linked
      /\ t.completed = s.completed /\ t.received = s.received
  BY <1>0, <1>t0, ServerIs DEF Machine
<1>c. PICK c : c = n.c
  OBVIOUS
<1>1. /\ c \in ControlState /\ c.ops = <<p, o>> /\ c.pending = 1 /\ c.skip = 0 /\ c.timer /\ c.conn = "up"
      /\ c.tids = m.c.tids /\ c.count = m.c.count /\ c.lastType = m.c.lastType /\ c.sentRest = m.c.sentRest
  BY <1>0, <1>c DEF Machine, Kept
<1>s. /\ Len(c.ops) = 2 /\ c.ops[1] = p /\ c.ops[2] = o /\ c.ops # <<>> /\ TopIn(c) = o /\ ~IsRaw(c)
      /\ t.cmds # <<>> /\ Current(t) = x
  <2>1. Len(c.ops) = 2 /\ c.ops[1] = p /\ c.ops[2] = o /\ c.ops # <<>> /\ TopIn(c) = o
    BY <1>1, TopOfTwo
  <2>2. t.cmds # <<>> /\ t.cmds[1] = x
    BY <1>t, Stacks
  <2> QED
    BY <2>1, <2>2 DEF IsRaw, Current, Logon
<1>2. Stacked(c)
  BY <1>s DEF Stacked
<1>3. c.tids + Remaining(c) <= 2 * c.count
  BY <1>s, <1>1, Stacks DEF Remaining
<1>4. Outstanding(c, t)
  BY <1>s, <1>t, <1>1 DEF Outstanding, InFlight
<1>5. Connected(c)
  BY <1>s, <1>1 DEF Connected
<1>6. Matched(c, t)
  BY <1>s, <1>t, <1>1, <1>x DEF Matched, Logon, SentBy, Parents
<1>7. Said(t)
  BY <1>s DEF Said
<1>8. Believed(c, t)
  BY <1>s, <1>t, <1>1, <1>x DEF Believed, Known, IsTransfer
<1>9. Data(c, NoSocket, t)
  BY <1>s DEF Data, NoSocket
<1>10. Ended(c, NoSocket, t, e)
  BY <1>s, <1>1 DEF Ended, NoSocket
<1>11. Timed(c)
  BY <1>s, <1>1 DEF Timed
<1>12. Inv(c, NoSocket, t, e)
  BY <1>1, <1>t, <1>2, <1>3, <1>4, <1>5, <1>6, <1>7, <1>8, <1>9, <1>10, <1>11, NoSocketIs DEF Inv
<1> QED
  BY <1>0, <1>12, <1>c, <1>t0 DEF Holds, Fine, Kept

\* A new operation is one.
LEMMA NewOpIs ==
  ASSUME NEW kind \in Parents \cup {"logon", "raw"}, NEW st,
         st \in {"connect", "welcome", "login", "start", "wait", "waittest", "command",
                 "type", "port_pasv", "rest", "transfer", "waitfinish",
                 "waittransferpre", "waittransfer", "waitsocket"},
         NEW o, o = NewOp(kind, st)
  PROVE  /\ o \in Op /\ o.kind = kind /\ o.st = st /\ o.tid = 0 /\ ~o.asks /\ ~o.resolving /\ ~o.sent
         /\ ~o.again
<1>1. PassiveFirst \in BOOLEAN
  BY FtpAssumption
<1>2. 0 \in Offsets /\ "I" \in Types
  BY DEF Offsets, Types
<1> QED
  BY <1>1, <1>2, Numbers DEF NewOp, Op

\* A parent that waits for the transfer it is about to start.
TransferReady(m, s, e, p) ==
  /\ m.q = <<>> /\ s.replies = <<>> /\ ~s.prelim
  /\ m.c.pending = 0 /\ m.c.skip = 0 /\ m.c.conn = "up"
  /\ m.c.lastType \in Types => s.type = m.c.lastType
  /\ ~m.c.sentRest => s.offset = 0
  /\ m.c.tids + 1 + Remaining(m.c) <= 2 * m.c.count
  /\ e <= m.c.tids
  /\ m.c.ops = <<p>> /\ p \in Op /\ Parent(p, {"wait", "waittest"})

\* The record with which the first command of a transfer is sent.
LEMMA TransferIs ==
  ASSUME NEW m \in Machine, NEW s \in ServerState, NEW e \in Nat, NEW p, TransferReady(m, s, e, p),
         NEW offset \in Offsets, NEW n \in Transfer(m, offset)
  PROVE  \E k \in Machine, o \in Op :
            RawReady(k, s, e, p, o) /\ ~o.resolving /\ k.c.succeeded = m.c.succeeded /\ n \in SendRaw(k)
<1>0. m.c.ops = <<p>> /\ p \in Op /\ Parent(p, {"wait", "waittest"})
  BY DEF TransferReady
<1>1. TopOf(m) = p
  BY <1>0, TopOfIs
<1>n. /\ m.c.tids \in Nat /\ m.c.count \in 0..MaxOps /\ m.c.tids + 1 <= 2 * m.c.count
      /\ m.c.tids + 1 + Remaining(m.c) <= 2 * m.c.count
  <2>1. m.c.tids \in Nat /\ m.c.count \in 0..MaxOps
    BY FtpAssumption DEF Machine, ControlState, Transfers, MaxTransfers
  <2>2. Remaining(m.c) \in Nat
    BY DEF Remaining
  <2> QED
    BY <2>1, <2>2 DEF TransferReady
<1>t. PICK tid : tid = m.c.tids + 1
  OBVIOUS
<1>2. tid \in Transfers /\ tid > 0
  BY <1>n, <1>t, FtpAssumption DEF Transfers, MaxTransfers
<1>s. PICK st : st = IF p.binary = m.c.lastType THEN "port_pasv" ELSE "type"
  OBVIOUS
<1>b. PICK base : base = NewOp("raw", st)
  OBVIOUS
<1>3. /\ base \in Op /\ base.kind = "raw" /\ base.st = st /\ ~base.asks /\ ~base.resolving /\ ~base.sent
  BY <1>b, <1>s, NewOpIs
<1>o. PICK o : o = [base EXCEPT !.tid = tid, !.binary = p.binary, !.offset = offset]
  OBVIOUS
<1>4. /\ o \in Op /\ o.kind = "raw" /\ o.st = st /\ ~o.asks /\ ~o.resolving /\ ~o.sent
      /\ o.tid = tid /\ o.binary = p.binary
  BY <1>0, <1>2, <1>3, <1>o DEF Op
<1>d. PICK d : d = [NoSocket EXCEPT !.tid = tid, !.block = 1]
  OBVIOUS
<1>5. /\ d \in Socket /\ d.tid = tid /\ d.block = 1 /\ d.link = "idle" /\ d.events = "none" /\ d.reason = "none"
  BY <1>2, <1>d, Numbers DEF Socket, NoSocket
<1>c. PICK c : c = [m.c EXCEPT !.tids = tid, !.ops = <<p, o>>]
  OBVIOUS
<1>6. /\ c \in ControlState /\ c.ops = <<p, o>> /\ c.tids = tid /\ c.pending = m.c.pending /\ c.skip = m.c.skip
      /\ c.conn = m.c.conn /\ c.lastType = m.c.lastType /\ c.sentRest = m.c.sentRest /\ c.count = m.c.count
      /\ c.succeeded = m.c.succeeded
  <2>1. <<p, o>> \in Seq(Op)
    BY <1>0, <1>4
  <2> QED
    BY <1>2, <1>c, <2>1 DEF Machine, ControlState
<1>k. PICK k : k = [m EXCEPT !.c = c, !.d = d]
  OBVIOUS
<1>7. k \in Machine /\ k.c = c /\ k.d = d /\ k.q = m.q
  BY <1>5, <1>6, <1>k DEF Machine
<1>8. n \in SendRaw(k)
  <2>1. n \in SendRaw([m EXCEPT !.c.tids = tid, !.c.ops = Append(@, o), !.d = d])
    BY <1>1, <1>t, <1>s, <1>b, <1>o, <1>d DEF Transfer
  <2>2. Append(m.c.ops, o) = <<p, o>>
    <3>1. Append(<<p>>, o) = <<p, o>>
      BY Stacks, ZenonT(60)
    <3> QED
      BY <1>0, <3>1, Zenon
  <2>3. [m EXCEPT !.c.tids = tid, !.c.ops = Append(@, o), !.d = d] = [m EXCEPT !.c = c, !.d = d]
    <3>1. [m EXCEPT !.c.tids = tid, !.c.ops = Append(@, o), !.d = d]
            = [m EXCEPT !.c = [m.c EXCEPT !.tids = tid, !.ops = Append(m.c.ops, o)], !.d = d]
      BY Zenon DEF Machine, ControlState
    <3> QED
      BY <1>c, <2>2, <3>1
  <2> QED
    BY <1>k, <2>1, <2>3
<1>9. RawReady(k, s, e, p, o)
  <2>1. Len(c.ops) = 2 /\ c.ops[1] = p /\ c.ops[2] = o /\ c.ops # <<>> /\ TopIn(c) = o
    BY <1>6, TopOfTwo
  <2>2. Len(m.c.ops) = 1 /\ m.c.ops[1] = p /\ m.c.ops # <<>>
    BY <1>0, TopOfOne
  <2>3. Remaining(c) = Remaining(m.c)
    BY <2>1, <2>2 DEF Remaining
  <2>4. c.tids + Remaining(c) <= 2 * c.count
    BY <1>n, <1>t, <1>6, <2>3
  <2>5. e + (IF d.tid # 0 /\ d.reason = "none" THEN 1 ELSE 0) <= c.tids
    BY <1>n, <1>t, <1>5, <1>6 DEF TransferReady
  <2>6. Calm(k, s, e)
    BY <1>5, <1>6, <1>7, <2>4, <2>5 DEF Calm, TransferReady
  <2>7. DataUnsent(k.d) /\ k.d.tid = o.tid
    BY <1>4, <1>5, <1>7 DEF DataUnsent
  <2>8. o.st # "type" => k.c.lastType = o.binary
    BY <1>s, <1>4, <1>6, <1>7
  <2>9. o.st \in {"type", "port_pasv"}
    BY <1>s, <1>4
  <2> QED
    BY <1>0, <1>2, <1>4, <1>6, <1>7, <2>6, <2>7, <2>8, <2>9 DEF RawReady, Unsent
<1> QED
  BY <1>4, <1>6, <1>7, <1>8, <1>9

\* The start of a transfer.
LEMMA TransferFine ==
  ASSUME NEW m \in Machine, NEW s \in ServerState, NEW e \in Nat, NEW p, TransferReady(m, s, e, p),
         NEW offset \in Offsets, NEW n \in Transfer(m, offset)
  PROVE  Fine(m, n, s, e)
<1>1. PICK k \in Machine, o \in Op :
         RawReady(k, s, e, p, o) /\ ~o.resolving /\ k.c.succeeded = m.c.succeeded /\ n \in SendRaw(k)
  BY TransferIs
<1>2. Fine(k, n, s, e)
  BY <1>1, SendRawFine
<1> QED
  BY <1>1, <1>2 DEF Fine

\* A parent sends its command.
LEMMA ParentSends ==
  ASSUME NEW m \in Machine, NEW s \in ServerState, NEW e \in Nat, NEW p, ParentReady(m, s, e, p), p.st = "command",
         NEW k \in Machine, k.d = m.d, k.q = m.q, k.c.ops = m.c.ops, k.c.pending = m.c.pending,
         k.c.skip = m.c.skip, k.c.conn = m.c.conn,
         p.kind = "command" => k.c.lastType = "unknown", p.kind # "command" => k.c.lastType = m.c.lastType,
         k.c.sentRest = m.c.sentRest, k.c.tids = m.c.tids, k.c.count = m.c.count, k.c.succeeded = m.c.succeeded,
         NEW cmd, cmd = SentBy(p), NEW n, n = SendCommand(k, cmd)
  PROVE  Fine(m, n, s, e)
<1>0. /\ m.c.ops = <<p>> /\ p \in Op /\ m.c.pending = 0 /\ m.c.skip = 0 /\ m.c.conn = "up" /\ m.q = <<>>
      /\ p.kind \in Parents
  BY DEF ParentReady, Calm, Parent
<1>2. k.c.ops # <<>> /\ TopIn(k.c) = p
  <2>1. k.c.ops = <<p>>
    BY <1>0
  <2> QED
    BY <2>1, TopOfOne
<1>c. cmd \in {"command", "extra"} /\ (cmd = "command" <=> p.kind = "command")
  BY <1>0 DEF SentBy, Parents
<1>x. PICK x \in Command : x.cmd = cmd /\ x.tid = p.tid /\ x.binary = p.binary /\ x.offset = p.offset
  <2>1. [cmd |-> cmd, tid |-> p.tid, binary |-> p.binary, offset |-> p.offset] \in Command
    BY <1>0, <1>c DEF Op, Command
  <2> QED
    BY <2>1
<1>3. /\ n \in Machine /\ n.d = k.d /\ Only(n.q, x)
      /\ n.c.ops = k.c.ops /\ n.c.pending = 1 /\ n.c.skip = k.c.skip
      /\ n.c.timer /\ n.c.idle = k.c.idle
      /\ Kept(k.c, n.c)
  <2>1. k.q = <<>> /\ k.c.pending = 0 /\ p \in Op
    BY <1>0
  <2> QED
    BY <1>2, <1>x, <2>1, SendCommandIs
<1>4. /\ n.c.ops = <<p>> /\ n.c.skip = 0 /\ n.d = m.d /\ n.c.conn = "up"
      /\ n.c.lastType = k.c.lastType /\ n.c.sentRest = m.c.sentRest
      /\ n.c.tids = m.c.tids /\ n.c.count = m.c.count /\ n.c.succeeded = m.c.succeeded
  BY <1>0, <1>3 DEF Kept
<1>5. n.c.lastType = IF x.cmd = "command" THEN "unknown" ELSE m.c.lastType
  BY <1>4, <1>c, <1>x
<1>6. x.cmd = SentBy(p)
  BY <1>x
<1> QED
  BY <1>3, <1>4, <1>5, <1>6, <1>x, ParentSent

\* SendNextCommand of a parent, with all its outcomes.
LEMMA ParentNext ==
  ASSUME NEW m \in Machine, NEW s \in ServerState, NEW e \in Nat, NEW p, ParentReady(m, s, e, p),
         NEW n \in SendNextCommand(m)
  PROVE  Fine(m, n, s, e)
<1>0. /\ m.c.ops = <<p>> /\ p \in Op /\ Calm(m, s, e) /\ Parent(p, {"start", "command"}) /\ m.d = NoSocket
  BY DEF ParentReady
<1>a. /\ p.kind \in {"command", "list", "file"} /\ ~p.asks /\ p.st \in {"start", "command"} /\ m.c.skip = 0
      /\ (p.kind = "command" => p.st = "command")
  BY <1>0 DEF Parent, Parents, Calm
<1>t. TopOf(m) = p
  BY <1>0, TopOfIs
<1>1. CASE p.kind = "command"
  <2>1. n = SendCommand([m EXCEPT !.c.lastType = "unknown"], "command")
    BY <1>a, <1>t, <1>1 DEF SendNextCommand
  <2>k. PICK k : k = [m EXCEPT !.c.lastType = "unknown"]
    OBVIOUS
  <2>2. /\ k \in Machine /\ k.d = m.d /\ k.q = m.q
        /\ k.c.ops = m.c.ops /\ k.c.pending = m.c.pending /\ k.c.skip = m.c.skip /\ k.c.conn = m.c.conn
        /\ k.c.lastType = "unknown" /\ k.c.sentRest = m.c.sentRest
        /\ k.c.tids = m.c.tids /\ k.c.count = m.c.count /\ k.c.succeeded = m.c.succeeded
    <3>1. [m.c EXCEPT !.lastType = "unknown"] \in ControlState
      BY DEF Machine, ControlState
    <3>2. k \in Machine /\ k.d = m.d /\ k.q = m.q /\ k.c = [m.c EXCEPT !.lastType = "unknown"]
      BY <3>1, <2>k DEF Machine
    <3> QED
      BY <3>2 DEF Machine, ControlState
  <2>3. SentBy(p) = "command" /\ p.st = "command"
    BY <1>1, <1>a DEF SentBy
  <2>4. n = SendCommand(k, SentBy(p))
    BY <2>1, <2>3, <2>k
  <2> QED
    BY <1>1, <2>2, <2>3, <2>4, ParentSends
<1>2. CASE p.kind # "command" /\ p.st = "command"
  <2>1. n = SendCommand(m, "extra")
    BY <1>a, <1>t, <1>2 DEF SendNextCommand
  <2>2. SentBy(p) = "extra"
    BY <1>2, <1>a DEF SentBy
  <2>3. n = SendCommand(m, SentBy(p))
    BY <2>1, <2>2
  <2> QED
    BY <1>2, <2>3, ParentSends
<1>3. CASE p.kind # "command" /\ p.st = "start"
  <2>1. PICK st \in {"wait", "waittest"}, offset \in Offsets : n \in Transfer(WithTop(m, [p EXCEPT !.st = st]), offset)
    <3>1. 0 \in Offsets /\ 2 \in Offsets /\ p.offset \in Offsets
      BY <1>0 DEF Offsets, Op
    <3>2. \/ n \in Transfer(WithTop(m, [p EXCEPT !.st = "wait"]), 0)
          \/ n \in Transfer(WithTop(m, [p EXCEPT !.st = "waittest"]), 2)
          \/ n \in Transfer(WithTop(m, [p EXCEPT !.st = "wait"]), p.offset)
      BY <1>a, <1>t, <1>3 DEF SendNextCommand
    <3> QED
      BY <3>1, <3>2
  <2>p. PICK p2 : p2 = [p EXCEPT !.st = st]
    OBVIOUS
  <2>2. /\ p2 \in Op /\ p2.st = st /\ p2.kind = p.kind /\ p2.again = p.again /\ p2.tid = p.tid
        /\ p2.asks = p.asks /\ p2.resolving = p.resolving
    BY <1>0, <2>p DEF Op
  <2>3. Parent(p2, {"wait", "waittest"})
    BY <1>0, <1>3, <2>2 DEF Parent
  <2>k. PICK k : k = WithTop(m, p2)
    OBVIOUS
  <2>4. /\ k \in Machine /\ k.d = m.d /\ k.q = m.q
        /\ k.c.ops = <<p2>> /\ k.c.pending = m.c.pending /\ k.c.skip = m.c.skip
        /\ k.c.timer = m.c.timer /\ k.c.idle = m.c.idle
        /\ Kept(m.c, k.c)
    BY <1>0, <2>2, <2>k, WithOnlyIs
  <2>5. n \in Transfer(k, offset)
    BY <2>1, <2>p, <2>k
  <2>6. Remaining(m.c) = 1 + Remaining(k.c)
    <3>1. m.c.ops[1] = p /\ m.c.ops # <<>>
      BY <1>0, TopOfOne
    <3>2. k.c.ops[1] = p2 /\ k.c.ops # <<>>
      BY <2>4, TopOfOne
    <3> QED
      BY <1>3, <2>2, <3>1, <3>2 DEF Remaining
  <2>7. k.c.tids + 1 + Remaining(k.c) <= 2 * k.c.count
    <3>1. m.c.tids \in Nat /\ m.c.count \in Nat
      BY FtpAssumption DEF Machine, ControlState, Transfers, MaxTransfers
    <3>2. Remaining(k.c) \in Nat
      BY DEF Remaining
    <3>3. m.c.tids + Remaining(m.c) <= 2 * m.c.count
      BY <1>0 DEF Calm
    <3> QED
      BY <2>4, <2>6, <3>1, <3>2, <3>3 DEF Kept
  <2>8. e <= k.c.tids
    <3>1. m.c.tids \in Nat
      BY FtpAssumption DEF Machine, ControlState, Transfers, MaxTransfers
    <3> QED
      BY <1>0, <2>4, <3>1 DEF Calm, Kept, NoSocket
  <2>9. TransferReady(k, s, e, p2)
    BY <1>0, <2>2, <2>3, <2>4, <2>7, <2>8 DEF TransferReady, Calm, Kept
  <2>10. Fine(k, n, s, e)
    BY <2>4, <2>5, <2>9, TransferFine
  <2> QED
    BY <2>4, <2>10 DEF Fine, Kept
<1> QED
  BY <1>a, <1>1, <1>2, <1>3

-----------------------------------------------------------------------------
(* The end of a raw transfer.                                              *)

\* A raw transfer above its parent while nothing is outstanding, and the
\* parent when the transfer is over.
Resting(m, s, e, p, o) ==
  Calm(m, s, e) /\ m.c.ops = <<p, o>> /\ p \in Op /\ o \in Op /\ Parent(p, {"wait", "waittest"})
Popped(m, s, e, p) ==
  Calm(m, s, e) /\ m.c.ops = <<p>> /\ p \in Op /\ Parent(p, {"wait", "waittest"}) /\ m.d = NoSocket

\* PopOp leads from the one to the other.
LEMMA PopRawIs ==
  ASSUME NEW m \in Machine, NEW s \in ServerState, NEW e \in Nat, NEW p, NEW o, Resting(m, s, e, p, o),
         NEW n, n = PopOp(m)
  PROVE  n \in Machine /\ Popped(n, s, e, p) /\ n.c.succeeded = m.c.succeeded
<1>0. m.c.ops = <<p, o>> /\ p \in Op /\ o \in Op /\ Parent(p, {"wait", "waittest"}) /\ Calm(m, s, e)
  BY DEF Resting
<1>p. PICK rest : rest = <<p>>
  OBVIOUS
<1>1. rest \in Seq(Op) /\ rest = Front(m.c.ops)
  <2>1. Front(<<p, o>>) = <<p>>
    BY Stacks
  <2>2. <<p>> \in Seq(Op)
    BY <1>0
  <2> QED
    BY <1>0, <1>p, <2>1, <2>2
<1>2. /\ n \in Machine /\ n.d = NoSocket /\ n.q = m.q
      /\ n.c.ops = rest /\ n.c.skip = m.c.pending /\ n.c.pending = m.c.pending
      /\ Kept(m.c, n.c)
  BY <1>1, PopOpIs
<1>3. n.c.ops = <<p>>
  BY <1>2, <1>p
<1>4. Remaining(n.c) = Remaining(m.c)
  <2>1. m.c.ops[1] = p /\ m.c.ops # <<>>
    BY <1>0, TopOfTwo
  <2>2. n.c.ops[1] = p /\ n.c.ops # <<>>
    BY <1>3, TopOfOne
  <2> QED
    BY <2>1, <2>2 DEF Remaining
<1>5. NoSocket.tid = 0 /\ NoSocket.reason = "none"
  BY DEF NoSocket
<1>6. e <= m.c.tids
  <2>1. m.c.tids \in Nat
    BY FtpAssumption DEF Machine, ControlState, Transfers, MaxTransfers
  <2> QED
    BY <1>0, <2>1 DEF Calm
<1>7. Calm(n, s, e)
  BY <1>0, <1>2, <1>4, <1>5, <1>6 DEF Calm, Kept
<1> QED
  BY <1>0, <1>2, <1>3, <1>7 DEF Popped, Kept

\* The parent ends with its transfer.
LEMMA PopParentFine ==
  ASSUME NEW m \in Machine, NEW s \in ServerState, NEW e \in Nat, NEW p, m.c.ops = <<p>>, Calm(m, s, e),
         NEW n, n = PopOp(m)
  PROVE  Fine(m, n, s, e)
<1>e. PICK none : none = <<>>
  OBVIOUS
<1>1. none \in Seq(Op) /\ none = Front(m.c.ops)
  <2>1. Front(<<p>>) = <<>>
    BY Stacks
  <2> QED
    BY <1>e, <2>1, EmptySeq
<1>2. /\ n \in Machine /\ n.d = NoSocket /\ n.q = m.q
      /\ n.c.ops = none /\ n.c.skip = m.c.pending /\ n.c.pending = m.c.pending
      /\ Kept(m.c, n.c)
  BY <1>1, PopOpIs
<1>3. Loose(m.c, [s EXCEPT !.cmds = m.q], e)
  BY CalmLoose
<1>4. n.c.ops = <<>>
  BY <1>2, <1>e
<1> QED
  BY <1>2, <1>3, <1>4, Gone

\* The parent goes on: with a command, or with another transfer.
LEMMA ParentGoesOn ==
  ASSUME NEW m \in Machine, NEW s \in ServerState, NEW e \in Nat, NEW p, Popped(m, s, e, p),
         NEW p2 \in Op, p2.kind = p.kind, p2.tid = p.tid, p2.asks = p.asks, p2.resolving = p.resolving,
         p2.st \in {"start", "command"},
         (IF p2.st = "start" THEN 1 ELSE 0) + (IF p2.again THEN 1 ELSE 0) <= (IF p.again THEN 1 ELSE 0),
         NEW n \in SendNextCommand(WithTop(m, p2))
  PROVE  Fine(m, n, s, e)
<1>0. m.c.ops = <<p>> /\ p \in Op /\ Parent(p, {"wait", "waittest"}) /\ Calm(m, s, e) /\ m.d = NoSocket
  BY DEF Popped
<1>k. PICK k : k = WithTop(m, p2)
  OBVIOUS
<1>1. /\ k \in Machine /\ k.d = m.d /\ k.q = m.q
      /\ k.c.ops = <<p2>> /\ k.c.pending = m.c.pending /\ k.c.skip = m.c.skip
      /\ Kept(m.c, k.c)
  BY <1>0, <1>k, WithOnlyIs
<1>2. Parent(p2, {"start", "command"})
  BY <1>0 DEF Parent
<1>3. Remaining(k.c) <= Remaining(m.c)
  <2>1. m.c.ops[1] = p /\ m.c.ops # <<>> /\ p.st # "start"
    BY <1>0, TopOfOne DEF Parent
  <2>2. k.c.ops[1] = p2 /\ k.c.ops # <<>>
    BY <1>1, TopOfOne
  <2> QED
    BY <2>1, <2>2 DEF Remaining
<1>4. k.c.tids + Remaining(k.c) <= 2 * k.c.count
  <2>1. m.c.tids \in Nat /\ m.c.count \in Nat
    BY FtpAssumption DEF Machine, ControlState, Transfers, MaxTransfers
  <2>2. Remaining(k.c) \in Nat /\ Remaining(m.c) \in Nat
    BY DEF Remaining
  <2> QED
    BY <1>0, <1>1, <1>3, <2>1, <2>2 DEF Calm, Kept
<1>5. Calm(k, s, e)
  BY <1>0, <1>1, <1>4 DEF Calm, Kept
<1>6. ParentReady(k, s, e, p2)
  BY <1>0, <1>1, <1>2, <1>5 DEF ParentReady
<1>7. Fine(k, n, s, e)
  BY <1>1, <1>6, <1>k, ParentNext
<1> QED
  BY <1>1, <1>7 DEF Fine, Kept

\* The parent finishes, with a command or without.
LEMMA FinishFine ==
  ASSUME NEW m \in Machine, NEW s \in ServerState, NEW e \in Nat, NEW p, Popped(m, s, e, p), ~p.again,
         NEW n \in Finish(m)
  PROVE  Fine(m, n, s, e)
<1>0. m.c.ops = <<p>> /\ p \in Op /\ Calm(m, s, e)
  BY DEF Popped
<1>t. TopOf(m) = p
  BY <1>0, TopOfIs
<1>p. PICK p2 : p2 = [p EXCEPT !.st = "command"]
  OBVIOUS
<1>1. /\ p2 \in Op /\ p2.kind = p.kind /\ p2.tid = p.tid /\ p2.asks = p.asks /\ p2.resolving = p.resolving
      /\ p2.st = "command" /\ ~p2.again
  BY <1>0, <1>p DEF Op
<1>2. n = PopOp(m) \/ n \in SendNextCommand(WithTop(m, p2))
  BY <1>t, <1>p DEF Finish
<1> QED
  BY <1>0, <1>1, <1>2, PopParentFine, ParentGoesOn

\* The parent starts its second transfer.
LEMMA RepeatFine ==
  ASSUME NEW m \in Machine, NEW s \in ServerState, NEW e \in Nat, NEW p, Popped(m, s, e, p), p.again,
         NEW n \in Repeat(m)
  PROVE  Fine(m, n, s, e)
<1>0. m.c.ops = <<p>> /\ p \in Op
  BY DEF Popped
<1>t. TopOf(m) = p
  BY <1>0, TopOfIs
<1>p. PICK p2 : p2 = [p EXCEPT !.st = "start", !.again = FALSE]
  OBVIOUS
<1>1. /\ p2 \in Op /\ p2.kind = p.kind /\ p2.tid = p.tid /\ p2.asks = p.asks /\ p2.resolving = p.resolving
      /\ p2.st = "start" /\ ~p2.again
  BY <1>0, <1>p DEF Op
<1>2. n \in SendNextCommand(WithTop(m, p2))
  BY <1>t, <1>p DEF Repeat
<1> QED
  BY <1>1, <1>2, ParentGoesOn

\* A raw transfer that failed.
LEMMA RawFailedFine ==
  ASSUME NEW m \in Machine, NEW s \in ServerState, NEW e \in Nat, NEW p, NEW o, Resting(m, s, e, p, o),
         NEW n \in RawFailed(m)
  PROVE  Fine(m, n, s, e)
<1>k. PICK k : k = PopOp(m)
  OBVIOUS
<1>1. k \in Machine /\ Popped(k, s, e, p) /\ k.c.succeeded = m.c.succeeded
  BY <1>k, PopRawIs
<1>2. k.c.ops = <<p>> /\ Calm(k, s, e)
  BY <1>1 DEF Popped
<1>3. TopOf(k) = p
  BY <1>2, TopOfIs
<1>4. n = PopOp(k) \/ (p.again /\ n \in Repeat(k)) \/ (~p.again /\ n \in Finish(k))
  BY <1>3, <1>k DEF RawFailed
<1>5. Fine(k, n, s, e)
  BY <1>1, <1>2, <1>4, PopParentFine, FinishFine, RepeatFine
<1> QED
  BY <1>1, <1>5 DEF Fine

\* A raw transfer that succeeded.
LEMMA RawOKFine ==
  ASSUME NEW m \in Machine, NEW s \in ServerState, NEW e \in Nat, NEW p, NEW o, Resting(m, s, e, p, o),
         NEW n \in RawOK(m)
  PROVE  n \in Machine /\ Holds(n, s, e) /\ n.c.succeeded = o.tid
<1>0. TopOf(m) = o /\ o \in Op
  BY TopOfIs DEF Resting
<1>k. PICK k : k = PopOp(m)
  OBVIOUS
<1>1. k \in Machine /\ Popped(k, s, e, p)
  BY <1>k, PopRawIs
<1>j. PICK j : j = [k EXCEPT !.c.succeeded = o.tid]
  OBVIOUS
<1>2. /\ j \in Machine /\ j.d = k.d /\ j.q = k.q /\ j.c = [k.c EXCEPT !.succeeded = o.tid]
  <2>1. [k.c EXCEPT !.succeeded = o.tid] \in ControlState
    BY <1>0, <1>1, ZenonT(60) DEF Machine, ControlState, Op
  <2> QED
    BY <1>1, <1>j, <2>1 DEF Machine
<1>3. /\ j.c.succeeded = o.tid /\ j.c.ops = k.c.ops /\ j.c.pending = k.c.pending /\ j.c.skip = k.c.skip
      /\ j.c.conn = k.c.conn /\ j.c.lastType = k.c.lastType /\ j.c.sentRest = k.c.sentRest
      /\ j.c.tids = k.c.tids /\ j.c.count = k.c.count
  BY <1>1, <1>2 DEF Machine, ControlState
<1>4. Popped(j, s, e, p)
  BY <1>1, <1>2, <1>3 DEF Popped, Calm, Remaining
<1>5. TopOf(j) = p
  BY <1>4, TopOfIs DEF Popped
<1>6. (p.again /\ n \in Repeat(j)) \/ (~p.again /\ n \in Finish(j))
  BY <1>0, <1>5, <1>k, <1>j DEF RawOK
<1>7. Fine(j, n, s, e)
  BY <1>2, <1>4, <1>6, FinishFine, RepeatFine
<1> QED
  BY <1>3, <1>7 DEF Fine

-----------------------------------------------------------------------------
(* A final reply.                                                          *)

\* SendNextCommand of a raw transfer.
LEMMA RawNext ==
  ASSUME NEW m \in Machine, NEW s \in ServerState, NEW e \in Nat, NEW p, NEW o, RawReady(m, s, e, p, o),
         ~o.resolving, NEW n \in SendNextCommand(m)
  PROVE  Fine(m, n, s, e)
<1>0. TopOf(m) = o /\ o.kind = "raw" /\ ~o.asks /\ m.c.skip = 0
  BY TopOfIs DEF RawReady, Calm
<1>1. n \in SendRaw(m)
  BY <1>0 DEF SendNextCommand
<1> QED
  BY <1>1, SendRawFine

\* A raw transfer that waits sends nothing.
LEMMA RawWaits ==
  ASSUME NEW m, NEW o, TopOf(m) = o, o.kind = "raw", o.st \in Sent \ Unsent, m.c.skip = 0,
         NEW n \in SendNextCommand(m)
  PROVE  n = m
<1>1. CASE o.asks
  BY <1>1 DEF SendNextCommand
<1>2. CASE ~o.asks
  <2>1. n \in SendRaw(m)
    BY <1>2 DEF SendNextCommand
  <2> QED
    BY <2>1 DEF SendRaw, Sent, Unsent
<1> QED
  BY <1>1, <1>2

\* The reply to x with this code is read, which leads from s0 to s.
Reads(s0, s, x, code) ==
  /\ s0.replies # <<>> /\ x = s0.replies[1][1] /\ code = s0.replies[1][2]
  /\ s = [s0 EXCEPT !.replies = Tail(s0.replies)]

\* A final reply is the last one under way.
LEMMA FinalReply ==
  ASSUME NEW c, NEW d, NEW s0, NEW e, Inv(c, d, s0, e), NEW s, NEW x, NEW code, Reads(s0, s, x, code), code # 1
  PROVE  /\ s \in ServerState /\ s.cmds = <<>> /\ s.replies = <<>> /\ ~s.prelim
         /\ s.type = s0.type /\ s.offset = s0.offset /\ s.port = s0.port /\ s.linked = s0.linked
         /\ s.completed = s0.completed /\ s.received = s0.received
         /\ c.pending = 1 /\ c.conn = "up" /\ code \in {2, 5}
         /\ s0.cmds = <<>> /\ Current(s0) = x /\ s0.replies[Len(s0.replies)][2] = code
<1> USE DEF Inv, Reads
<1>1. c.pending = 1 /\ InFlight(s0)
  BY DEF Outstanding, Nothing
<1>2. c.conn = "up"
  BY <1>1 DEF Connected, ControlState
<1>y. PICK y : y = Current(s0)
  OBVIOUS
<1>3. s0.cmds = <<>> /\ \E k \in {2, 5} : s0.replies = <<<<y, k>>>>
  <2>1. CASE s0.replies = <<>>
    BY <2>1
  <2>2. CASE s0.replies = <<<<y, 1>>>>
    BY <2>2
  <2>3. CASE \E k \in {2, 5} : s0.replies = <<<<y, 1>>, <<y, k>>>>
    BY <2>3
  <2> QED
    BY <1>1, <1>y, <2>1, <2>2, <2>3 DEF InFlight
<1>4. PICK k \in {2, 5} : s0.replies = <<<<y, k>>>>
  BY <1>3
<1>5. x = y /\ code = k /\ Len(s0.replies) = 1 /\ Tail(s0.replies) = <<>>
  BY <1>4
<1>6. ~s0.prelim
  BY <1>3 DEF Outstanding
<1>7. s = [s0 EXCEPT !.replies = <<>>]
  BY <1>5
<1>8. <<>> \in Seq(Command \X {1, 2, 5})
  BY EmptySeq
<1>9. /\ s \in ServerState /\ s.cmds = s0.cmds /\ s.replies = <<>> /\ s.prelim = s0.prelim
      /\ s.type = s0.type /\ s.offset = s0.offset /\ s.port = s0.port /\ s.linked = s0.linked
      /\ s.completed = s0.completed /\ s.received = s0.received
  BY <1>7, <1>8 DEF ServerState
<1>10. code = s0.replies[Len(s0.replies)][2] /\ code \in {2, 5}
  BY <1>5
<1> QED
  BY <1>1, <1>2, <1>3, <1>5, <1>6, <1>9, <1>10, <1>y

\* After it nothing is outstanding.
LEMMA FinalCalm ==
  ASSUME NEW c, NEW d, NEW s0, NEW e, Inv(c, d, s0, e), NEW s, NEW x, NEW code, Reads(s0, s, x, code), code # 1,
         NEW m \in Machine, m.d = d, m.q = s0.cmds, m.c.ops = c.ops, m.c.pending = 0, m.c.skip = 0, Kept(c, m.c)
  PROVE  Calm(m, s, e)
<1>1. /\ s.cmds = <<>> /\ s.replies = <<>> /\ ~s.prelim
      /\ s.type = s0.type /\ s.offset = s0.offset
      /\ s.received = s0.received
      /\ c.conn = "up" /\ s0.cmds = <<>>
  BY FinalReply
<1>2. Remaining(m.c) = Remaining(c)
  BY DEF Remaining
<1>3. /\ c.lastType \in Types => s0.type = c.lastType
      /\ ~c.sentRest => s0.offset = 0
  BY <1>1 DEF Inv, Believed, Known
<1>4. /\ e + (IF d.tid # 0 /\ d.reason = "none" THEN 1 ELSE 0) <= c.tids
      /\ d.reason = "ok" => s0.received = d.tid
      /\ c.tids + Remaining(c) <= 2 * c.count
  BY DEF Inv, Ended
<1> QED
  BY <1>1, <1>2, <1>3, <1>4 DEF Calm, Kept

\* The four forms of the stack.
LEMMA StackIs ==
  ASSUME NEW c \in ControlState, Stacked(c)
  PROVE  \/ c.ops = <<>>
         \/ \E p \in Op : c.ops = <<p>> /\ Parent(p, {"start", "command"})
         \/ \E p, o \in Op : c.ops = <<p, o>> /\ Parent(p, {"start", "command"}) /\ Logon(o)
         \/ \E p, o \in Op : c.ops = <<p, o>> /\ Parent(p, {"wait", "waittest"}) /\ Raw(o, c)
<1>0. c.ops \in Seq(Op)
  BY DEF ControlState
<1>1. ASSUME Len(c.ops) = 1 PROVE c.ops[1] \in Op /\ c.ops = <<c.ops[1]>>
  BY <1>0, <1>1
<1>2. ASSUME Len(c.ops) = 2 PROVE c.ops[1] \in Op /\ c.ops[2] \in Op /\ c.ops = <<c.ops[1], c.ops[2]>>
  <2>p. PICK p : p = c.ops[1]
    OBVIOUS
  <2>o. PICK o : o = c.ops[2]
    OBVIOUS
  <2>1. p \in Op /\ o \in Op
    BY <1>0, <1>2, <2>p, <2>o
  <2>t. PICK t : t = <<p, o>>
    OBVIOUS
  <2>2. t \in Seq(Op) /\ Len(t) = 2 /\ t[1] = p /\ t[2] = o
    BY <2>1, <2>t
  <2>3. c.ops = t
    BY <1>0, <1>2, <2>p, <2>o, <2>2, ShortEqual
  <2> QED
    BY <2>1, <2>3, <2>p, <2>o, <2>t
<1>3. CASE Len(c.ops) = 1 /\ Parent(c.ops[1], {"start", "command"})
  BY <1>1, <1>3, Zenon
<1>4. CASE Len(c.ops) = 2 /\ Parent(c.ops[1], {"start", "command"}) /\ Logon(c.ops[2])
  BY <1>2, <1>4, Zenon
<1>5. CASE Len(c.ops) = 2 /\ Parent(c.ops[1], {"wait", "waittest"}) /\ Raw(c.ops[2], c)
  BY <1>2, <1>5, Zenon
<1> QED
  BY <1>3, <1>4, <1>5 DEF Stacked

\* A raw transfer has its parent below.
LEMMA RawStack ==
  ASSUME NEW c \in ControlState, Stacked(c), IsRaw(c)
  PROVE  \E p, o \in Op : /\ c.ops = <<p, o>> /\ Parent(p, {"wait", "waittest"}) /\ Raw(o, c)
                          /\ TopIn(c) = o /\ c.ops # <<>> /\ c.ops[1] = p
<1>1. ASSUME NEW q \in Op, c.ops = <<q>>, Parent(q, {"start", "command"}) PROVE FALSE
  <2>1. TopIn(c) = q
    BY <1>1, TopOfOne
  <2> QED
    BY <1>1, <2>1 DEF IsRaw, Parent, Parents
<1>2. ASSUME NEW q \in Op, NEW o \in Op, c.ops = <<q, o>>, Logon(o) PROVE FALSE
  <2>1. TopIn(c) = o
    BY <1>2, TopOfTwo
  <2> QED
    BY <1>2, <2>1 DEF IsRaw, Logon
<1>3. PICK p \in Op, o \in Op : c.ops = <<p, o>> /\ Parent(p, {"wait", "waittest"}) /\ Raw(o, c)
  BY <1>1, <1>2, StackIs DEF IsRaw
<1>4. TopIn(c) = o /\ c.ops # <<>> /\ c.ops[1] = p
  BY <1>3, TopOfTwo
<1> QED
  BY <1>3, <1>4

\* The operation on top is a parent, the login or a raw transfer.
LEMMA TopIs ==
  ASSUME NEW c \in ControlState, Stacked(c), c.ops # <<>>, NEW t, TopIn(c) = t
  PROVE  /\ t \in Op
         /\ \/ Parent(t, {"start", "command"})
            \/ Logon(t)
            \/ IsRaw(c) /\ Raw(t, c)
<1>1. ASSUME NEW q \in Op, c.ops = <<q>> PROVE q = t
  BY <1>1, TopOfOne
<1>2. ASSUME NEW q \in Op, NEW o \in Op, c.ops = <<q, o>> PROVE o = t
  BY <1>2, TopOfTwo
<1>3. CASE \E p \in Op : c.ops = <<p>> /\ Parent(p, {"start", "command"})
  BY <1>1, <1>3, Zenon
<1>4. CASE \E p, o \in Op : c.ops = <<p, o>> /\ Parent(p, {"start", "command"}) /\ Logon(o)
  BY <1>2, <1>4, Zenon
<1>5. CASE \E p, o \in Op : c.ops = <<p, o>> /\ Parent(p, {"wait", "waittest"}) /\ Raw(o, c)
  <2>1. t \in Op /\ Raw(t, c)
    BY <1>2, <1>5, Zenon
  <2>2. IsRaw(c)
    BY <2>1 DEF IsRaw, Raw
  <2> QED
    BY <2>1, <2>2
<1> QED
  BY <1>3, <1>4, <1>5, StackIs, Zenon

\* A raw transfer has the final reply to its command.
Ready(d) ==
  /\ d.link # "connected" \/ d.reason = "none" => d.block <= 1
  /\ d.events # "none" => Up(d)
  /\ d.reason = "none" /\ d.events = "postponed" => d.block > 0
Answered(m, s, e, p, o, code) ==
  /\ Resting(m, s, e, p, o) /\ Raw(o, m.c) /\ ~o.resolving /\ m.c.timer /\ o.st # "waitsocket"
  /\ code \in {2, 5}
  /\ o.st # "type" => m.c.lastType = o.binary
  /\ o.st = "rest" => s.port = o.tid
  /\ ~o.sent => DataUnsent(m.d) /\ ~s.linked
  /\ m.d.tid = o.tid /\ Ready(m.d)
  /\ o.sent /\ m.d.reason = "none" /\ m.d.block > 0 => o.asks
  /\ o.asks => m.d.link \in {"connected", "reset"}
  /\ code = 2 => /\ o.st = "type" => s.type = o.binary
                 /\ o.st = "port_pasv" => s.port = o.tid
                 /\ o.st = "rest" => s.offset = o.offset
                 /\ o.sent => s.completed = o.tid /\ Up(m.d)
  /\ o.st = "rest" /\ o.offset = 0 => s.offset = 0
  /\ o.st \in {"waittransferpre", "waittransfer"} /\ o.reason = "ok" => s.received = o.tid
  /\ o.st \in {"transfer", "waitfinish"} /\ m.d.reason # "none" /\ ~m.d.early => e > 0

\* The invariant gives the handler of the reply all of this.
LEMMA AnsweredIs ==
  ASSUME NEW c, NEW d, NEW s0, NEW e, Inv(c, d, s0, e), NEW s, NEW x, NEW code, Reads(s0, s, x, code), code # 1,
         c.skip = 0, NEW p \in Op, NEW o \in Op, c.ops = <<p, o>>, Parent(p, {"wait", "waittest"}), Raw(o, c),
         NEW m \in Machine, m.d = d, m.q = s0.cmds, m.c.ops = c.ops, m.c.pending = 0, m.c.skip = 0,
         m.c.timer = c.timer, Kept(c, m.c)
  PROVE  Answered(m, s, e, p, o, code)
<1>1. Calm(m, s, e)
  BY FinalCalm
<1>2. /\ s.type = s0.type /\ s.offset = s0.offset /\ s.port = s0.port /\ s.linked = s0.linked
      /\ s.completed = s0.completed /\ s.received = s0.received
      /\ c.pending = 1 /\ c.conn = "up" /\ code \in {2, 5}
      /\ s0.cmds = <<>> /\ Current(s0) = x /\ s0.replies[Len(s0.replies)][2] = code /\ s0.replies # <<>>
  BY FinalReply DEF Reads
<1>3. c.ops # <<>> /\ TopIn(c) = o /\ IsRaw(c)
  BY TopOfTwo DEF IsRaw, Raw
<1>4. /\ x.cmd = SentBy(o) /\ x.tid = o.tid /\ x.binary = o.binary /\ x.offset = o.offset
      /\ ~o.resolving /\ o.st # "waitsocket"
  BY <1>2, <1>3 DEF Inv, Matched
<1>5. /\ code = 2 =>
            /\ x.cmd = "type" => s.type = x.binary
            /\ x.cmd \in {"port", "pasv"} => s.port = x.tid
            /\ x.cmd = "rest" => s.offset = x.offset
            /\ x.cmd = "transfer" => s.completed = x.tid
      /\ x.cmd = "rest" /\ x.offset = 0 => s.offset = 0
  BY <1>2 DEF Inv, Said
<1>6. c.timer
  BY <1>3, <1>4 DEF Inv, Timed
<1>7. /\ o.st # "type" => m.c.lastType = o.binary
      /\ o.st = "rest" => s.port = o.tid
  BY <1>2, <1>3 DEF Inv, Believed, Kept
<1>8. /\ ~o.sent => DataUnsent(m.d) /\ ~s.linked
      /\ m.d.tid = o.tid /\ Ready(m.d)
      /\ o.sent /\ m.d.reason = "none" /\ m.d.block > 0 => o.asks
      /\ o.asks => m.d.link \in {"connected", "reset"}
  BY <1>2, <1>3 DEF Inv, Data, DataUnsent, Ready
<1>9. code = 2 /\ x.cmd = "transfer" => Up(m.d)
  BY <1>2, <1>3 DEF Inv, Data, IsTransfer
<1>10. /\ o.st \in {"waittransferpre", "waittransfer"} /\ o.reason = "ok" => s.received = o.tid
       /\ o.st \in {"transfer", "waitfinish"} /\ m.d.reason # "none" /\ ~m.d.early => e > 0
  BY <1>2, <1>3 DEF Inv, Ended
<1>11. /\ o.st = "type" => x.cmd = "type"
       /\ o.st = "port_pasv" => x.cmd \in {"port", "pasv"}
       /\ o.st = "rest" => x.cmd = "rest"
       /\ o.sent => x.cmd = "transfer"
  BY <1>4 DEF SentBy, Raw, Sent
<1>12. Raw(o, m.c)
  BY DEF Raw, Kept
<1> QED
  BY <1>1, <1>2, <1>4, <1>5, <1>6, <1>7, <1>8, <1>9, <1>10, <1>11, <1>12 DEF Answered, Resting

\* The raw transfer goes on with its next command.
LEMMA NextStep ==
  ASSUME NEW m \in Machine, NEW s \in ServerState, NEW e \in Nat, NEW p, NEW o, NEW code,
         Answered(m, s, e, p, o, code), ~o.sent,
         NEW k \in Machine, k.d = m.d, k.q = m.q, k.c.ops = m.c.ops, k.c.pending = m.c.pending,
         k.c.skip = m.c.skip, k.c.conn = m.c.conn,
         k.c.tids = m.c.tids, k.c.count = m.c.count, k.c.succeeded = m.c.succeeded,
         k.c.lastType \in Types => s.type = k.c.lastType, ~k.c.sentRest => s.offset = 0,
         NEW o2 \in Op, o2.kind = "raw", o2.tid = o.tid, ~o2.sent, ~o2.asks, ~o2.resolving,
         o2.st \in {"port_pasv", "rest", "transfer"}, k.c.lastType = o2.binary,
         o2.st # "port_pasv" => s.port = o2.tid, o2.st = "transfer" => s.offset = o2.offset,
         NEW n \in SendNextCommand(WithTop(k, o2))
  PROVE  Fine(m, n, s, e)
<1>0. /\ m.c.ops = <<p, o>> /\ p \in Op /\ o \in Op /\ Calm(m, s, e) /\ Parent(p, {"wait", "waittest"})
      /\ o.tid = m.c.tids /\ o.tid > 0 /\ DataUnsent(m.d) /\ ~s.linked /\ m.d.tid = o.tid
  BY DEF Answered, Resting, Raw
<1>j. PICK j : j = WithTop(k, o2)
  OBVIOUS
<1>1. k.c.ops = <<p, o>>
  BY <1>0
<1>2. /\ j \in Machine /\ j.d = k.d /\ j.q = k.q
      /\ j.c.ops = <<p, o2>> /\ j.c.pending = k.c.pending /\ j.c.skip = k.c.skip
      /\ Kept(k.c, j.c)
  BY <1>0, <1>1, <1>j, WithTopIs
<1>3. Remaining(j.c) = Remaining(m.c)
  <2>1. m.c.ops[1] = p /\ m.c.ops # <<>>
    BY <1>0, TopOfTwo
  <2>2. j.c.ops[1] = p /\ j.c.ops # <<>>
    BY <1>2, TopOfTwo
  <2> QED
    BY <2>1, <2>2 DEF Remaining
<1>4. Calm(j, s, e)
  BY <1>0, <1>2, <1>3 DEF Calm, Kept
<1>5. RawReady(j, s, e, p, o2)
  BY <1>0, <1>2, <1>4 DEF RawReady, Unsent, Kept
<1>6. Fine(j, n, s, e)
  BY <1>2, <1>5, <1>j, RawNext
<1> QED
  BY <1>2, <1>6 DEF Fine, Kept

\* The reply has come, and the end of the data connection has not been handled.
LEMMA SocketAwaited ==
  ASSUME NEW m \in Machine, NEW s \in ServerState, NEW e \in Nat, NEW p, NEW o,
         Answered(m, s, e, p, o, 2), o.st \in {"transfer", "waitfinish"}
  PROVE  Fine(m, WithTop(m, [o EXCEPT !.st = "waitsocket"]), s, e)
<1>0. m.c.ops = <<p, o>> /\ p \in Op /\ o \in Op
  BY DEF Answered, Resting
<1>o. PICK o2 : o2 = [o EXCEPT !.st = "waitsocket"]
  OBVIOUS
<1>1. /\ o2 \in Op /\ o2.st = "waitsocket" /\ o2.kind = o.kind /\ o2.tid = o.tid /\ o2.sent = o.sent
      /\ o2.asks = o.asks /\ o2.resolving = o.resolving /\ o2.binary = o.binary /\ o2.reason = o.reason
  BY <1>0, <1>o DEF Op
<1>n. PICK n : n = WithTop(m, o2)
  OBVIOUS
<1>2. /\ n \in Machine /\ n.d = m.d /\ n.q = m.q
      /\ n.c.ops = <<p, o2>> /\ n.c.pending = m.c.pending /\ n.c.skip = m.c.skip
      /\ n.c.timer = m.c.timer /\ n.c.idle = m.c.idle
      /\ Kept(m.c, n.c)
  BY <1>0, <1>1, <1>n, WithTopIs
<1> USE DEF Answered, Resting, Calm
<1>t0. PICK t : t = [s EXCEPT !.cmds = n.q]
  OBVIOUS
<1>t. /\ t \in ServerState /\ t.cmds = <<>>
      /\ t.replies = <<>> /\ t.type = s.type /\ t.offset = s.offset /\ t.port = s.port
      /\ ~t.prelim /\ t.linked = s.linked
      /\ t.completed = s.completed /\ t.received = s.received
  BY <1>2, <1>t0, ServerIs DEF Machine
<1>c. PICK c : c = n.c
  OBVIOUS
<1>d. PICK d : d = m.d
  OBVIOUS
<1>s. Len(c.ops) = 2 /\ c.ops[1] = p /\ c.ops[2] = o2 /\ c.ops # <<>> /\ TopIn(c) = o2
  <2>1. c.ops = <<p, o2>>
    BY <1>2, <1>c
  <2> QED
    BY <2>1, TopOfTwo
<1>m. m.c.ops[1] = p /\ m.c.ops # <<>>
  BY TopOfTwo
<1>k. /\ c \in ControlState /\ c.pending = 0 /\ c.skip = 0 /\ c.conn = "up" /\ c.timer
      /\ c.tids = m.c.tids /\ c.count = m.c.count /\ c.lastType = m.c.lastType /\ c.sentRest = m.c.sentRest
  BY <1>2, <1>c DEF Kept, Machine
<1>r. o.kind = "raw" /\ o.sent /\ o.tid = m.c.tids /\ o.tid > 0
  BY DEF Raw, Sent
<1>2a. Stacked(c)
  BY <1>s, <1>k, <1>1, <1>r DEF Stacked, Raw, Sent
<1>3. c.tids + Remaining(c) <= 2 * c.count
  BY <1>s, <1>k, <1>m DEF Remaining
<1>4. Outstanding(c, t)
  BY <1>s, <1>k, <1>t DEF Outstanding, Nothing
<1>5. Connected(c)
  BY <1>s, <1>k, <1>1, <1>r DEF Connected
<1>6. Matched(c, t)
  BY <1>s, <1>k, <1>1 DEF Matched
<1>7. Said(t)
  BY <1>t DEF Said
<1>8. Believed(c, t)
  BY <1>s, <1>k, <1>t, <1>1 DEF Believed, Known
<1>9. Data(c, d, t)
  BY <1>s, <1>d, <1>t, <1>1, <1>r DEF Data, Ready, IsRaw
<1>10. Ended(c, d, t, e)
  BY <1>s, <1>d, <1>k, <1>t, <1>1, <1>r DEF Ended
<1>11. Timed(c)
  BY <1>s, <1>k DEF Timed
<1>12. Inv(c, d, t, e)
  BY <1>t, <1>d, <1>k, <1>2a, <1>3, <1>4, <1>5, <1>6, <1>7, <1>8, <1>9, <1>10, <1>11 DEF Inv, Machine
<1> QED
  <2>1. Fine(m, n, s, e)
    BY <1>12, <1>c, <1>d, <1>t0, <1>2 DEF Holds, Fine, Kept
  <2> QED
    BY <2>1, <1>n, <1>o

\* The failure of a transfer after it has noted the reason.
LEMMA NotedFailure ==
  ASSUME NEW m \in Machine, NEW s \in ServerState, NEW e \in Nat, NEW p, NEW o, Resting(m, s, e, p, o),
         NEW reason \in {"fail", "immediate"}, NEW n \in RawFailed(WithTop(m, Failure(o, reason)))
  PROVE  Fine(m, n, s, e)
<1>0. m.c.ops = <<p, o>> /\ p \in Op /\ o \in Op /\ Calm(m, s, e) /\ Parent(p, {"wait", "waittest"})
  BY DEF Resting
<1>o. PICK o2 : o2 = Failure(o, reason)
  OBVIOUS
<1>1. o2 \in Op
  BY <1>0, <1>o DEF Failure, Op
<1>k. PICK k : k = WithTop(m, o2)
  OBVIOUS
<1>2. /\ k \in Machine /\ k.d = m.d /\ k.q = m.q
      /\ k.c.ops = <<p, o2>> /\ k.c.pending = m.c.pending /\ k.c.skip = m.c.skip
      /\ Kept(m.c, k.c)
  BY <1>0, <1>1, <1>k, WithTopIs
<1>3. Remaining(k.c) = Remaining(m.c)
  <2>1. m.c.ops[1] = p /\ m.c.ops # <<>>
    BY <1>0, TopOfTwo
  <2>2. k.c.ops[1] = p /\ k.c.ops # <<>>
    BY <1>2, TopOfTwo
  <2> QED
    BY <2>1, <2>2 DEF Remaining
<1>4. Calm(k, s, e)
  BY <1>0, <1>2, <1>3 DEF Calm, Kept
<1>5. Resting(k, s, e, p, o2)
  BY <1>0, <1>1, <1>2, <1>4 DEF Resting
<1>6. n \in RawFailed(k)
  BY <1>o, <1>k
<1>7. Fine(k, n, s, e)
  BY <1>2, <1>5, <1>6, RawFailedFine
<1> QED
  BY <1>2, <1>7 DEF Fine, Kept

\* A handler's outcome: success only of a transfer that both sides have completed.
Outcome(m, n, s, e) ==
  /\ n \in Machine /\ Holds(n, s, e)
  /\ n.c.succeeded # m.c.succeeded => s.completed = n.c.succeeded /\ s.received = n.c.succeeded

\* The reply to PORT or PASV.
LEMMA PortPasvFine ==
  ASSUME NEW m \in Machine, NEW s \in ServerState, NEW e \in Nat, NEW p, NEW o, NEW code,
         Answered(m, s, e, p, o, code), o.st = "port_pasv", NEW n \in ParsePortPasv(m, code)
  PROVE  Fine(m, n, s, e)
<1>0. /\ m.c.ops = <<p, o>> /\ p \in Op /\ o \in Op /\ Calm(m, s, e) /\ Resting(m, s, e, p, o)
      /\ o.kind = "raw" /\ ~o.sent /\ ~o.asks /\ ~o.resolving /\ m.c.lastType = o.binary
      /\ (code = 2 => s.port = o.tid)
  BY DEF Answered, Resting, Raw, Sent
<1>c. /\ m.c.lastType \in Types => s.type = m.c.lastType
      /\ ~m.c.sentRest => s.offset = 0
  BY <1>0 DEF Calm
<1>t. TopOf(m) = o
  BY <1>0, TopOfIs
<1>1. CASE Good(code)
  <2>s. PICK st : st = IF o.offset > 0 \/ m.c.sentRest THEN "rest" ELSE "transfer"
    OBVIOUS
  <2>o. PICK o2 : o2 = [o EXCEPT !.st = st]
    OBVIOUS
  <2>1. /\ o2 \in Op /\ o2.kind = "raw" /\ o2.tid = o.tid /\ ~o2.sent /\ ~o2.asks /\ ~o2.resolving
        /\ o2.st = st /\ st \in {"rest", "transfer"} /\ o2.binary = o.binary /\ o2.offset = o.offset
    BY <1>0, <2>s, <2>o DEF Op
  <2>2. n \in SendNextCommand(WithTop(m, o2))
    BY <1>t, <1>1, <2>s, <2>o DEF ParsePortPasv
  <2>3. st = "transfer" => s.offset = o2.offset
    BY <1>0, <1>c, <2>s, <2>1 DEF Op, Offsets
  <2>4. s.port = o2.tid
    BY <1>0, <1>1, <2>1 DEF Good
  <2> QED
    BY <1>0, <1>c, <2>1, <2>2, <2>3, <2>4, NextStep
<1>2. CASE ~Good(code) /\ n \in RawFailed(m)
  BY <1>0, <1>2, RawFailedFine
<1>3. CASE ~Good(code) /\ n \in SendNextCommand(WithTop(m, [o EXCEPT !.pasv = ~o.triedPasv]))
  <2>b. PICK b \in BOOLEAN : b = ~o.triedPasv
    OBVIOUS
  <2>o. PICK o2 : o2 = [o EXCEPT !.pasv = b]
    OBVIOUS
  <2>1. /\ o2 \in Op /\ o2.kind = "raw" /\ o2.tid = o.tid /\ ~o2.sent /\ ~o2.asks /\ ~o2.resolving
        /\ o2.st = "port_pasv" /\ o2.binary = o.binary /\ o2.offset = o.offset
    BY <1>0, <2>o DEF Op
  <2>2. n \in SendNextCommand(WithTop(m, o2))
    BY <1>3, <2>b, <2>o
  <2> QED
    BY <1>0, <1>c, <2>1, <2>2, NextStep
<1> QED
  BY <1>t, <1>1, <1>2, <1>3 DEF ParsePortPasv

\* The final reply to a command of a raw transfer.
LEMMA ParseRawFine ==
  ASSUME NEW m \in Machine, NEW s \in ServerState, NEW e \in Nat, NEW p, NEW o, NEW code,
         Answered(m, s, e, p, o, code), NEW n \in ParseRaw(m, code)
  PROVE  Outcome(m, n, s, e)
<1>0. /\ m.c.ops = <<p, o>> /\ p \in Op /\ o \in Op /\ Calm(m, s, e) /\ Resting(m, s, e, p, o)
      /\ o.kind = "raw" /\ ~o.resolving /\ o.st # "waitsocket" /\ code \in {2, 5}
      /\ o.st \in {"type", "port_pasv", "rest", "transfer", "waitfinish", "waittransferpre", "waittransfer"}
      /\ (o.sent <=> o.st \in Sent) /\ (~o.sent => ~o.asks)
  BY DEF Answered, Resting, Raw, Sent
<1>c. /\ m.c.lastType \in Types => s.type = m.c.lastType
      /\ ~m.c.sentRest => s.offset = 0
      /\ m.c.skip = 0
  BY <1>0 DEF Calm
<1>t. TopOf(m) = o
  BY <1>0, TopOfIs
<1>f. Fine(m, n, s, e) => Outcome(m, n, s, e)
  BY DEF Fine, Outcome
<1>g. n \in RawFailed(m) => Outcome(m, n, s, e)
  BY <1>0, <1>f, RawFailedFine
<1>1. CASE o.st = "type" /\ Good(code)
  <2>1. n \in SendNextCommand(WithTop([m EXCEPT !.c.lastType = o.binary], [o EXCEPT !.st = "port_pasv"]))
    BY <1>t, <1>1 DEF ParseRaw
  <2>k. PICK k : k = [m EXCEPT !.c.lastType = o.binary]
    OBVIOUS
  <2>2. /\ k \in Machine /\ k.d = m.d /\ k.q = m.q
        /\ k.c.ops = m.c.ops /\ k.c.pending = m.c.pending /\ k.c.skip = m.c.skip /\ k.c.conn = m.c.conn
        /\ k.c.lastType = o.binary /\ k.c.sentRest = m.c.sentRest
        /\ k.c.tids = m.c.tids /\ k.c.count = m.c.count /\ k.c.succeeded = m.c.succeeded
    <3>1. [m.c EXCEPT !.lastType = o.binary] \in ControlState
      BY <1>0 DEF Machine, ControlState, Op
    <3>2. k \in Machine /\ k.d = m.d /\ k.q = m.q /\ k.c = [m.c EXCEPT !.lastType = o.binary]
      BY <3>1, <2>k DEF Machine
    <3> QED
      BY <3>2 DEF Machine, ControlState
  <2>o. PICK o2 : o2 = [o EXCEPT !.st = "port_pasv"]
    OBVIOUS
  <2>3. /\ o2 \in Op /\ o2.kind = "raw" /\ o2.tid = o.tid /\ ~o2.sent /\ ~o2.asks /\ ~o2.resolving
        /\ o2.st = "port_pasv" /\ o2.binary = o.binary
    BY <1>0, <1>1, <2>o DEF Op, Sent
  <2>4. n \in SendNextCommand(WithTop(k, o2))
    BY <2>1, <2>k, <2>o
  <2>5. s.type = o.binary
    BY <1>1 DEF Answered, Good
  <2>6. ~o.sent
    BY <1>0, <1>1 DEF Sent
  <2>7. Fine(m, n, s, e)
    BY <1>c, <2>2, <2>3, <2>4, <2>5, <2>6, NextStep
  <2> QED
    BY <1>f, <2>7
<1>2. CASE o.st = "port_pasv"
  <2>1. n \in ParsePortPasv(m, code)
    BY <1>t, <1>2 DEF ParseRaw
  <2> QED
    BY <1>f, <1>2, <2>1, PortPasvFine
<1>3. CASE o.st = "rest" /\ ~(o.offset > 0 /\ ~Good(code))
  <2>b. PICK b \in BOOLEAN : b = (m.c.sentRest /\ o.offset > 0)
    OBVIOUS
  <2>1. n \in SendNextCommand(WithTop([m EXCEPT !.c.sentRest = m.c.sentRest /\ o.offset > 0], [o EXCEPT !.st = "transfer"]))
    BY <1>t, <1>3 DEF ParseRaw
  <2>k. PICK k : k = [m EXCEPT !.c.sentRest = b]
    OBVIOUS
  <2>2. /\ k \in Machine /\ k.d = m.d /\ k.q = m.q
        /\ k.c.ops = m.c.ops /\ k.c.pending = m.c.pending /\ k.c.skip = m.c.skip /\ k.c.conn = m.c.conn
        /\ k.c.lastType = m.c.lastType /\ k.c.sentRest = b
        /\ k.c.tids = m.c.tids /\ k.c.count = m.c.count /\ k.c.succeeded = m.c.succeeded
    <3>1. [m.c EXCEPT !.sentRest = b] \in ControlState
      BY DEF Machine, ControlState
    <3>2. k \in Machine /\ k.d = m.d /\ k.q = m.q /\ k.c = [m.c EXCEPT !.sentRest = b]
      BY <3>1, <2>k DEF Machine
    <3> QED
      BY <3>2 DEF Machine, ControlState
  <2>o. PICK o2 : o2 = [o EXCEPT !.st = "transfer"]
    OBVIOUS
  <2>3. /\ o2 \in Op /\ o2.kind = "raw" /\ o2.tid = o.tid /\ ~o2.sent /\ ~o2.asks /\ ~o2.resolving
        /\ o2.st = "transfer" /\ o2.binary = o.binary /\ o2.offset = o.offset
    BY <1>0, <1>3, <2>o DEF Op, Sent
  <2>4. n \in SendNextCommand(WithTop(k, o2))
    BY <2>1, <2>b, <2>k, <2>o
  <2>5. m.c.lastType = o.binary /\ s.port = o.tid /\ (o.offset = 0 => s.offset = 0) /\ (code = 2 => s.offset = o.offset)
    BY <1>3 DEF Answered
  <2>6. ~o.sent
    BY <1>0, <1>3 DEF Sent
  <2>7. s.offset = o.offset
    BY <1>0, <1>3, <2>5 DEF Good, Op, Offsets
  <2>8. ~b => s.offset = 0
    <3>1. o.offset \in 0..2
      BY <1>0 DEF Op, Offsets
    <3>2. ~b => ~m.c.sentRest \/ ~(o.offset > 0)
      BY <2>b
    <3> QED
      BY <1>c, <2>7, <3>1, <3>2
  <2>9. Fine(m, n, s, e)
    <3>1. /\ k.c.lastType = o2.binary /\ s.port = o2.tid /\ s.offset = o2.offset
          /\ (k.c.lastType \in Types => s.type = k.c.lastType) /\ (~k.c.sentRest => s.offset = 0)
      BY <1>c, <2>2, <2>3, <2>5, <2>7, <2>8
    <3> QED
      BY <2>2, <2>3, <2>4, <2>6, <3>1, NextStep
  <2> QED
    BY <1>f, <2>9
<1>4. CASE o.st \in {"transfer", "waitfinish"} /\ Good(code)
  <2>1. n \in SendNextCommand(WithTop(m, [o EXCEPT !.st = "waitsocket"]))
    BY <1>t, <1>4 DEF ParseRaw, Good
  <2>o. PICK o2 : o2 = [o EXCEPT !.st = "waitsocket"]
    OBVIOUS
  <2>k. PICK k : k = WithTop(m, o2)
    OBVIOUS
  <2>2. o2 \in Op /\ o2.kind = "raw" /\ o2.st = "waitsocket"
    BY <1>0, <2>o DEF Op
  <2>3. k.c.ops = <<p, o2>> /\ k.c.skip = 0
    BY <1>0, <1>c, <2>2, <2>k, WithTopIs
  <2>4. TopOf(k) = o2
    BY <2>3, TopOfIs
  <2>5. n = k
    BY <2>1, <2>2, <2>3, <2>4, <2>o, <2>k, RawWaits DEF Sent, Unsent
  <2>6. Fine(m, WithTop(m, [o EXCEPT !.st = "waitsocket"]), s, e)
    BY <1>4, SocketAwaited DEF Good
  <2> QED
    BY <1>f, <2>5, <2>6, <2>o, <2>k
<1>5. CASE o.st \in {"transfer", "waittransferpre", "waitfinish", "waittransfer"} /\ ~Good(code)
  <2>1. n \in RawFailed(WithTop(m, Failure(o, "immediate"))) \/ n \in RawFailed(WithTop(m, Failure(o, "fail")))
    BY <1>0, <1>t, <1>5 DEF ParseRaw, Good
  <2> QED
    BY <1>0, <1>f, <2>1, NotedFailure
<1>6. CASE o.st \in {"waittransferpre", "waittransfer"} /\ Good(code)
  <2>1. (o.reason = "ok" /\ n \in RawOK(m)) \/ n \in RawFailed(m)
    BY <1>t, <1>6 DEF ParseRaw, Good
  <2>2. o.reason = "ok" => s.completed = o.tid /\ s.received = o.tid
    BY <1>0, <1>6 DEF Answered, Good, Sent
  <2>3. n \in RawOK(m) => n \in Machine /\ Holds(n, s, e) /\ n.c.succeeded = o.tid
    BY <1>0, RawOKFine
  <2> QED
    BY <1>g, <2>1, <2>2, <2>3 DEF Outcome
<1>7. CASE n \in RawFailed(m)
  BY <1>7, <1>g
<1> QED
  <2>1. CASE o.st = "type" /\ ~Good(code)
    BY <1>t, <1>7, <2>1 DEF ParseRaw
  <2>2. CASE o.st = "rest" /\ o.offset > 0 /\ ~Good(code)
    BY <1>t, <1>7, <2>2 DEF ParseRaw
  <2> QED
    BY <1>0, <1>1, <1>2, <1>3, <1>4, <1>5, <1>6, <2>1, <2>2

-----------------------------------------------------------------------------
(* A preliminary reply, and replies that are skipped.                      *)

\* The command that the server has is the current one.
LEMMA CurrentIs ==
  ASSUME NEW s, NEW y, s.cmds = <<y>>
  PROVE  s.cmds # <<>> /\ Current(s) = y
<1>1. s.cmds # <<>> /\ s.cmds[1] = y
  BY Stacks
<1> QED
  BY <1>1 DEF Current

\* A preliminary reply is one to a transfer command, whose final reply is to
\* come.
LEMMA PrelimReply ==
  ASSUME NEW c, NEW d, NEW s0, NEW e, Inv(c, d, s0, e), NEW s, NEW x, Reads(s0, s, x, 1)
  PROVE  /\ s \in ServerState /\ s.cmds = s0.cmds /\ s.prelim = s0.prelim
         /\ s.type = s0.type /\ s.offset = s0.offset /\ s.port = s0.port /\ s.linked = s0.linked
         /\ s.completed = s0.completed /\ s.received = s0.received
         /\ c.pending = 1 /\ c.conn = "up" /\ x.cmd = "transfer"
         /\ Current(s0) = x /\ Current(s) = x /\ InFlight(s)
         /\ s.cmds # <<>> => s.prelim /\ s.replies = <<>>
         /\ s.replies # <<>> => s.cmds = <<>> /\ s.replies[1][2] # 1
                                /\ s.replies[Len(s.replies)] = s0.replies[Len(s0.replies)]
         /\ s0.replies # <<>>
<1> USE DEF Inv, Reads
<1>1. c.pending = 1 /\ InFlight(s0)
  BY DEF Outstanding, Nothing
<1>2. c.conn = "up"
  BY <1>1 DEF Connected, ControlState
<1>y. PICK y : y = Current(s0)
  OBVIOUS
<1>3. \/ s0.cmds = <<y>> /\ s0.replies = <<<<y, 1>>>> /\ s0.prelim
      \/ s0.cmds = <<>> /\ y.cmd = "transfer" /\ \E k \in {2, 5} : s0.replies = <<<<y, 1>>, <<y, k>>>>
  <2>1. CASE s0.replies = <<>>
    BY <2>1
  <2>2. CASE \E k \in {2, 5} : s0.replies = <<<<y, k>>>>
    BY <2>2
  <2> QED
    BY <1>1, <1>y, <2>1, <2>2 DEF InFlight
<1>t. s0.prelim => s0.cmds # <<>> /\ y.cmd = "transfer"
  BY <1>y DEF Outstanding, IsTransfer
<1>4. CASE s0.cmds = <<y>> /\ s0.replies = <<<<y, 1>>>> /\ s0.prelim
  <2>1. x = y /\ Tail(s0.replies) = <<>>
    BY <1>4
  <2>2. s = [s0 EXCEPT !.replies = <<>>]
    BY <2>1
  <2>3. <<>> \in Seq(Command \X {1, 2, 5})
    BY EmptySeq
  <2>4. /\ s \in ServerState /\ s.cmds = <<y>> /\ s.replies = <<>> /\ s.prelim = s0.prelim
        /\ s.type = s0.type /\ s.offset = s0.offset /\ s.port = s0.port /\ s.linked = s0.linked
        /\ s.completed = s0.completed /\ s.received = s0.received /\ s.cmds = s0.cmds
    BY <1>4, <2>2, <2>3 DEF ServerState
  <2>5. Current(s) = y
    <3>1. s.cmds = <<y>>
      BY <2>4
    <3> QED
      BY <3>1, CurrentIs, Zenon
  <2>6. InFlight(s)
    BY <2>4, <2>5 DEF InFlight
  <2> QED
    BY <1>1, <1>2, <1>4, <1>t, <1>y, <2>1, <2>4, <2>5, <2>6
<1>5. CASE s0.cmds = <<>> /\ y.cmd = "transfer" /\ \E k \in {2, 5} : s0.replies = <<<<y, 1>>, <<y, k>>>>
  <2>1. PICK k \in {2, 5} : s0.replies = <<<<y, 1>>, <<y, k>>>>
    BY <1>5
  <2>r. PICK r : r = <<<<y, k>>>>
    OBVIOUS
  <2>2. x = y /\ Tail(s0.replies) = r /\ s0.replies[2] = <<y, k>> /\ Len(s0.replies) = 2
    BY <2>1, <2>r
  <2>3. s = [s0 EXCEPT !.replies = r]
    BY <2>2
  <2>4. r \in Seq(Command \X {1, 2, 5})
    <3>1. s0.replies \in Seq(Command \X {1, 2, 5})
      BY DEF ServerState
    <3>2. s0.replies[2] \in Command \X {1, 2, 5}
      BY <2>2, <3>1
    <3>3. <<y, k>> \in Command \X {1, 2, 5}
      BY <2>2, <3>2
    <3> QED
      BY <2>r, <3>3
  <2>5. /\ s \in ServerState /\ s.cmds = <<>> /\ s.replies = r /\ s.prelim = s0.prelim
        /\ s.type = s0.type /\ s.offset = s0.offset /\ s.port = s0.port /\ s.linked = s0.linked
        /\ s.completed = s0.completed /\ s.received = s0.received
    BY <1>5, <2>3, <2>4 DEF ServerState
  <2>6. r[1] = <<y, k>> /\ Len(r) = 1 /\ r # <<>>
    BY <2>r
  <2>7. Current(s) = y
    BY <2>5, <2>6 DEF Current
  <2>8. InFlight(s)
    BY <2>5, <2>7, <2>r DEF InFlight
  <2>9. s.replies[1][2] # 1 /\ s.replies[Len(s.replies)] = s0.replies[Len(s0.replies)]
    BY <2>2, <2>5, <2>6
  <2> QED
    BY <1>1, <1>2, <1>5, <1>y, <2>2, <2>5, <2>7, <2>8, <2>9
<1> QED
  BY <1>3, <1>4, <1>5

\* What the client believes, and what the reply says, do not change.
LEMMA PrelimKnown ==
  ASSUME NEW c, NEW d, NEW s0, NEW e, Inv(c, d, s0, e), NEW s, NEW x, Reads(s0, s, x, 1),
         NEW k, k.pending = c.pending, k.skip = c.skip, Kept(c, k), k.idle = c.idle
  PROVE  /\ s.prelim => s.cmds # <<>> /\ IsTransfer(s)
         /\ Said(s) /\ Known(k, s)
<1>1. /\ s.cmds = s0.cmds /\ s.prelim = s0.prelim
      /\ s.type = s0.type /\ s.offset = s0.offset /\ s.port = s0.port
      /\ s.completed = s0.completed
      /\ Current(s0) = x /\ Current(s) = x
      /\ s.replies # <<>> => s.replies[Len(s.replies)] = s0.replies[Len(s0.replies)]
      /\ s0.replies # <<>>
  BY PrelimReply
<1>2. s.prelim => s.cmds # <<>> /\ IsTransfer(s)
  BY <1>1 DEF Inv, Outstanding, IsTransfer
<1>3. Said(s)
  BY <1>1 DEF Inv, Said
<1>4. Known(k, s)
  BY <1>1 DEF Inv, Believed, Known, IsTransfer, Kept
<1> QED
  BY <1>2, <1>3, <1>4

\* A preliminary reply to a command that is to be skipped.
LEMMA PrelimSkipped ==
  ASSUME NEW c, NEW d, NEW s0, NEW e, Inv(c, d, s0, e), NEW s, NEW x, Reads(s0, s, x, 1), c.skip # 0
  PROVE  Inv(c, d, s, e)
<1>1. /\ s \in ServerState /\ s.cmds = s0.cmds /\ s.received = s0.received /\ s.completed = s0.completed
      /\ c.pending = 1 /\ InFlight(s)
  BY PrelimReply
<1>2. /\ s.prelim => s.cmds # <<>> /\ IsTransfer(s)
      /\ Said(s) /\ Known(c, s)
  BY PrelimKnown DEF Kept
<1>3. ~IsRaw(c)
  <2>1. Len(c.ops) <= 1
    BY DEF Inv, Outstanding
  <2>2. CASE c.ops = <<>>
    BY <2>2 DEF IsRaw
  <2>3. CASE Len(c.ops) = 1 /\ Parent(c.ops[1], {"start", "command"})
    BY <2>3 DEF IsRaw, TopIn, Parent, Parents
  <2> QED
    BY <2>1, <2>2, <2>3 DEF Inv, Stacked
<1>4. Outstanding(c, s)
  BY <1>1, <1>2 DEF Inv, Outstanding
<1>5. Matched(c, s)
  BY DEF Matched
<1>6. Believed(c, s)
  BY <1>2, <1>3 DEF Believed
<1>7. Data(c, d, s)
  BY <1>3 DEF Inv, Data
<1>8. Ended(c, d, s, e)
  BY <1>1, <1>3 DEF Inv, Ended
<1> QED
  BY <1>1, <1>2, <1>4, <1>5, <1>6, <1>7, <1>8 DEF Inv

\* A preliminary reply to the operation on top is one to its transfer command.
LEMMA PrelimRaw ==
  ASSUME NEW c, NEW d, NEW s0, NEW e, Inv(c, d, s0, e), NEW s, NEW x, Reads(s0, s, x, 1), c.skip = 0, c.ops # <<>>
  PROVE  IsRaw(c) /\ TopIn(c).st \in {"transfer", "waittransferpre"}
<1>1. c.pending = 1 /\ x.cmd = "transfer" /\ Current(s0) = x /\ s0.replies # <<>> /\ s0.replies[1][2] = 1
  BY PrelimReply DEF Reads
<1>o. PICK o : o = TopIn(c)
  OBVIOUS
<1>2. /\ SentBy(o) = "transfer" /\ o.st # "waitsocket"
      /\ (o.st \in {"waitfinish", "waittransfer"} => s0.replies[1][2] # 1)
  BY <1>1, <1>o DEF Inv, Matched
<1>3. \/ Parent(o, {"start", "command"}) \/ Logon(o) \/ Raw(o, c)
  BY <1>o DEF Inv, Stacked, TopIn
<1>4. ~Parent(o, {"start", "command"}) /\ ~Logon(o)
  BY <1>2 DEF SentBy, Parent, Parents, Logon
<1> QED
  BY <1>1, <1>2, <1>3, <1>4, <1>o DEF Raw, SentBy, Sent, IsRaw

\* The transfer goes on waiting for its final reply.
LEMMA PrelimTaken ==
  ASSUME NEW c, NEW d, NEW s0, NEW e, Inv(c, d, s0, e), NEW s, NEW x, Reads(s0, s, x, 1), c.skip = 0,
         NEW p \in Op, NEW o \in Op, c.ops = <<p, o>>, Parent(p, {"wait", "waittest"}), Raw(o, c),
         NEW st, st = IF o.st = "transfer" THEN "waitfinish" ELSE "waittransfer",
         NEW o2 \in Op, o2.st = st, o2.kind = o.kind, o2.tid = o.tid, o2.binary = o.binary, o2.offset = o.offset,
         o2.sent = o.sent, o2.reason = o.reason, o2.asks = o.asks, o2.resolving = o.resolving, o2.pasv = o.pasv,
         NEW k \in ControlState, k.ops = <<p, o2>>, k.pending = c.pending, k.skip = c.skip,
         k.timer = c.timer, k.idle = c.idle, Kept(c, k)
  PROVE  Inv(k, d, s, e)
<1>1. /\ s \in ServerState /\ s.cmds = s0.cmds /\ s.prelim = s0.prelim
      /\ s.port = s0.port /\ s.linked = s0.linked
      /\ s.completed = s0.completed /\ s.received = s0.received
      /\ c.pending = 1 /\ c.conn = "up" /\ x.cmd = "transfer"
      /\ Current(s0) = x /\ Current(s) = x /\ InFlight(s)
      /\ s.cmds # <<>> => s.prelim /\ s.replies = <<>>
      /\ s.replies # <<>> => s.cmds = <<>> /\ s.replies[1][2] # 1
                             /\ s.replies[Len(s.replies)] = s0.replies[Len(s0.replies)]
      /\ s0.replies # <<>>
  BY PrelimReply
<1>2. /\ s.prelim => s.cmds # <<>> /\ IsTransfer(s)
      /\ Said(s) /\ Known(k, s)
  BY PrelimKnown
<1>3. c.ops # <<>> /\ TopIn(c) = o /\ IsRaw(c) /\ c.ops[1] = p
  BY TopOfTwo DEF IsRaw, Raw
<1>4. o.st \in {"transfer", "waittransferpre"}
  BY <1>3, PrelimRaw
<1>s. Len(k.ops) = 2 /\ k.ops[1] = p /\ k.ops[2] = o2 /\ k.ops # <<>> /\ TopIn(k) = o2
  BY TopOfTwo
<1>r. o.kind = "raw" /\ o.sent /\ o2.st \in {"waitfinish", "waittransfer"} /\ IsRaw(k)
      /\ (o2.st = "waitfinish" <=> o.st = "transfer") /\ (o2.st = "waittransfer" <=> o.st = "waittransferpre")
  BY <1>s, <1>4 DEF Raw, Sent, IsRaw
<1>5. Stacked(k)
  BY <1>s, <1>r DEF Stacked, Raw, Sent, Kept
<1>6. k.tids + Remaining(k) <= 2 * k.count
  BY <1>s, <1>3 DEF Inv, Remaining, Kept
<1>7. Outstanding(k, s)
  BY <1>s, <1>1, <1>2 DEF Outstanding
<1>8. Connected(k)
  BY <1>s, <1>1, <1>r DEF Connected, Kept
<1>9. Matched(k, s)
  <2>1. /\ x.cmd = SentBy(o) /\ x.tid = o.tid /\ x.binary = o.binary /\ x.offset = o.offset /\ ~o.resolving
    BY <1>1, <1>3 DEF Inv, Matched
  <2>2. SentBy(o2) = "transfer"
    BY <1>r DEF SentBy
  <2> QED
    BY <1>s, <1>1, <1>r, <2>1, <2>2 DEF Matched, Parents
<1>10. Believed(k, s)
  <2>1. c.lastType = o.binary
    BY <1>3, <1>4 DEF Inv, Believed
  <2> QED
    BY <1>s, <1>2, <1>r, <2>1 DEF Believed, Kept
<1>11. Data(k, d, s)
  <2>1. Data(c, d, s0)
    BY DEF Inv
  <2>2. IsTransfer(s0) /\ IsTransfer(s)
    BY <1>1 DEF IsTransfer
  <2>3. s.cmds # <<>> /\ s.linked => Up(d)
    BY <1>1, <1>3, <2>1, <2>2 DEF Data
  <2>4. s.cmds = <<>> /\ s.replies # <<>> /\ s.replies[Len(s.replies)][2] = 2 => Up(d)
    <3>1. s0.cmds = <<>> /\ s0.replies # <<>> /\ s0.replies[Len(s0.replies)][2] = 2 => Up(d)
      BY <1>3, <2>1, <2>2 DEF Data
    <3> QED
      BY <1>1, <3>1
  <2>5. /\ d.link # "connected" \/ d.reason = "none" => d.block <= 1
        /\ d.tid = o.tid
        /\ d.reason = "none" /\ d.block > 0 => o.asks
        /\ o.asks => d.link \in {"connected", "reset"}
        /\ d.events # "none" => Up(d)
        /\ d.reason = "none" /\ d.events = "postponed" => d.block > 0
    BY <1>3, <1>r, <2>1 DEF Data
  <2> QED
    BY <1>s, <1>r, <2>3, <2>4, <2>5 DEF Data
<1>12. Ended(k, d, s, e)
  BY <1>s, <1>1, <1>3, <1>r DEF Inv, Ended, Kept
<1>13. Timed(k)
  BY <1>s, <1>3 DEF Inv, Timed
<1> QED
  BY <1>1, <1>2, <1>5, <1>6, <1>7, <1>8, <1>9, <1>10, <1>11, <1>12, <1>13 DEF Inv

\* The last reply that is to be skipped.
LEMMA SkipFine ==
  ASSUME NEW c \in ControlState, NEW d, NEW s0, NEW e \in Nat, Inv(c, d, s0, e), NEW s \in ServerState, NEW x, NEW code,
         Reads(s0, s, x, code), code # 1, c.skip # 0,
         NEW m \in Machine, m.d = d, m.q = s0.cmds, m.c.ops = c.ops, m.c.pending = 0, m.c.skip = c.skip, Kept(c, m.c),
         NEW n \in Skip(m)
  PROVE  Fine(m, n, s, e)
<1>0. c.skip = 1 /\ Len(c.ops) <= 1 /\ m.c.skip = 1
  BY DEF Inv, Outstanding
<1>i. PICK i : i = [m.c EXCEPT !.skip = 0]
  OBVIOUS
<1>k. PICK k : k = [m EXCEPT !.c = [i EXCEPT !.timer = FALSE]]
  OBVIOUS
<1>1. i \in ControlState /\ i.ops = c.ops /\ i.pending = 0 /\ i.skip = 0 /\ Kept(c, i)
  BY <1>i, Numbers, ZenonT(60) DEF Machine, ControlState, Kept
<1>2. /\ k \in Machine /\ k.d = d /\ k.q = s0.cmds /\ k.c.ops = c.ops /\ k.c.pending = 0 /\ k.c.skip = 0 /\ Kept(c, k.c)
  <2>1. [i EXCEPT !.timer = FALSE] \in ControlState
    BY <1>1 DEF ControlState
  <2>2. k \in Machine /\ k.d = m.d /\ k.q = m.q /\ k.c = [i EXCEPT !.timer = FALSE]
    BY <1>k, <2>1 DEF Machine
  <2> QED
    BY <1>1, <2>2 DEF ControlState, Kept
<1>3. \/ c.ops = <<>> /\ n = [k EXCEPT !.c = StartKeepaliveTimer(k.c)]
      \/ c.ops # <<>> /\ n \in SendNextCommand(k)
  <2>1. [m.c EXCEPT !.skip = m.c.skip - 1] = i
    BY <1>0, <1>i
  <2> QED
    BY <1>1, <1>k, <2>1 DEF Skip
<1>4. Calm(k, s, e)
  BY <1>2, FinalCalm
<1>5. CASE c.ops = <<>> /\ n = [k EXCEPT !.c = StartKeepaliveTimer(k.c)]
  <2>j. PICK j : j = StartKeepaliveTimer(k.c)
    OBVIOUS
  <2>1. j = [k.c EXCEPT !.idle = k.c.idle \/ (k.c.skip = 0 /\ k.c.pending = 0)] /\ j \in ControlState
    BY <1>2, <2>j, KeepaliveIs DEF Machine
  <2>2. n = [k EXCEPT !.c = j]
    BY <1>5, <2>j
  <2>3. n \in Machine /\ n.c = j /\ n.d = k.d /\ n.q = k.q
    BY <1>2, <2>1, <2>2 DEF Machine
  <2>4. j.ops = k.c.ops /\ j.skip = k.c.skip /\ j.pending = k.c.pending /\ Kept(k.c, j)
    BY <1>2, <2>1 DEF Machine, ControlState, Kept
  <2>5. n.d = NoSocket
    <3>1. ~IsRaw(c)
      BY <1>5 DEF IsRaw
    <3> QED
      BY <1>2, <2>3, <3>1 DEF Inv, Data
  <2>6. Loose(k.c, [s EXCEPT !.cmds = k.q], e)
    BY <1>2, <1>4, CalmLoose
  <2>7. /\ n.c.ops = <<>> /\ n.c.skip = k.c.pending /\ n.c.pending = k.c.pending /\ Kept(k.c, n.c)
    BY <1>2, <1>5, <2>3, <2>4
  <2>8. Fine(k, n, s, e)
    BY <1>2, <2>3, <2>5, <2>6, <2>7, Gone
  <2> QED
    BY <1>2, <2>8 DEF Fine, Kept
<1>6. CASE c.ops # <<>> /\ n \in SendNextCommand(k)
  <2>1. PICK p \in Op : c.ops = <<p>> /\ Parent(p, {"start", "command"})
    <3>1. ASSUME NEW p, NEW o, c.ops = <<p, o>> PROVE FALSE
      <4>1. Len(c.ops) = 2
        BY <3>1, TopOfTwo
      <4> QED
        BY <1>0, <4>1
    <3>2. Stacked(c)
      BY DEF Inv
    <3> QED
      BY <1>6, <3>1, <3>2, StackIs
  <2>2. d = NoSocket
    <3>1. TopIn(c) = p
      BY <2>1, TopOfOne
    <3>2. ~IsRaw(c)
      BY <2>1, <3>1 DEF IsRaw, Parent, Parents
    <3> QED
      BY <3>2 DEF Inv, Data
  <2>3. ParentReady(k, s, e, p)
    BY <1>2, <1>4, <2>1, <2>2 DEF ParentReady
  <2>4. Fine(k, n, s, e)
    BY <1>2, <1>6, <2>3, ParentNext
  <2> QED
    BY <1>2, <2>4 DEF Fine, Kept
<1> QED
  BY <1>3, <1>5, <1>6

\* The final reply to a command of the login or of a parent.
LEMMA ParseOtherFine ==
  ASSUME NEW c \in ControlState, NEW d, NEW s0, NEW e \in Nat, Inv(c, d, s0, e), NEW s \in ServerState, NEW x, NEW code,
         Reads(s0, s, x, code), code # 1, c.skip = 0, c.ops # <<>>, ~IsRaw(c),
         NEW m \in Machine, m.d = d, m.q = s0.cmds, m.c.ops = c.ops, m.c.pending = 0, m.c.skip = 0, Kept(c, m.c),
         NEW n \in ParseOther(m, code)
  PROVE  Fine(m, n, s, e)
<1>0. /\ Calm(m, s, e) /\ c.conn = "up" /\ c.pending = 1 /\ m.d = NoSocket
  <2>1. Calm(m, s, e)
    BY FinalCalm
  <2>2. c.conn = "up" /\ c.pending = 1
    BY FinalReply
  <2> QED
    BY <2>1, <2>2 DEF Inv, Data
<1>s. Stacked(c)
  BY DEF Inv
<1>1. CASE \E p \in Op : c.ops = <<p>> /\ Parent(p, {"start", "command"})
  <2>1. PICK p \in Op : m.c.ops = <<p>> /\ Parent(p, {"start", "command"})
    BY <1>1
  <2>2. TopOf(m) = p
    BY <2>1, TopOfIs
  <2>3. n = PopOp(m)
    BY <2>1, <2>2 DEF ParseOther, Parent, Parents
  <2> QED
    BY <1>0, <2>1, <2>3, PopParentFine
<1>2. CASE \E p, o \in Op : c.ops = <<p, o>> /\ Parent(p, {"start", "command"}) /\ Logon(o)
  <2>1. PICK p \in Op, o \in Op : m.c.ops = <<p, o>> /\ c.ops = <<p, o>> /\ Parent(p, {"start", "command"}) /\ Logon(o)
    BY <1>2
  <2>2. TopOf(m) = o /\ TopIn(c) = o
    BY <2>1, TopOfIs, TopOfTwo
  <2>3. o.st \in {"welcome", "login"} /\ o.kind = "logon"
    BY <1>0, <2>1, <2>2 DEF Inv, Connected, Logon
  <2>4. CASE o.st = "welcome"
    <3>o. PICK o2 : o2 = [o EXCEPT !.st = "login"]
      OBVIOUS
    <3>1. o2 \in Op /\ Logon(o2) /\ o2.st = "login" /\ ~o2.asks /\ o2.kind = "logon"
      BY <2>1, <3>o DEF Op, Logon
    <3>k. PICK k : k = WithTop(m, o2)
      OBVIOUS
    <3>2. n \in SendNextCommand(k)
      BY <2>2, <2>3, <2>4, <3>o, <3>k DEF ParseOther
    <3>3. /\ k \in Machine /\ k.d = m.d /\ k.q = m.q
          /\ k.c.ops = <<p, o2>> /\ k.c.pending = m.c.pending /\ k.c.skip = m.c.skip
          /\ Kept(m.c, k.c)
      BY <2>1, <3>1, <3>k, WithTopIs
    <3>4. Remaining(k.c) = Remaining(m.c)
      <4>1. m.c.ops[1] = p /\ m.c.ops # <<>>
        BY <2>1, TopOfTwo
      <4>2. k.c.ops[1] = p /\ k.c.ops # <<>>
        BY <3>3, TopOfTwo
      <4> QED
        BY <4>1, <4>2 DEF Remaining
    <3>5. Calm(k, s, e)
      BY <1>0, <3>3, <3>4 DEF Calm, Kept
    <3>6. LogonReady(k, s, e, p, o2)
      BY <1>0, <2>1, <3>1, <3>3, <3>5 DEF LogonReady
    <3>7. TopOf(k) = o2
      BY <3>3, TopOfIs
    <3>8. n = SendCommand(k, "login")
      BY <3>1, <3>2, <3>3, <3>7 DEF SendNextCommand
    <3>9. Fine(k, n, s, e)
      BY <3>3, <3>6, <3>8, LoginSent
    <3> QED
      BY <3>3, <3>9 DEF Fine, Kept
  <2>5. CASE o.st = "login"
    <3>k. PICK k : k = PopOp(m)
      OBVIOUS
    <3>1. n \in SendNextCommand(k)
      BY <2>2, <2>3, <2>5, <3>k DEF ParseOther
    <3>p. PICK rest : rest = <<p>>
      OBVIOUS
    <3>2. rest \in Seq(Op) /\ rest = Front(m.c.ops)
      <4>1. Front(<<p, o>>) = <<p>>
        BY Stacks
      <4>2. <<p>> \in Seq(Op)
        OBVIOUS
      <4> QED
        BY <2>1, <3>p, <4>1, <4>2
    <3>3. /\ k \in Machine /\ k.d = NoSocket /\ k.q = m.q
          /\ k.c.ops = rest /\ k.c.skip = m.c.pending /\ k.c.pending = m.c.pending
          /\ Kept(m.c, k.c)
      BY <3>2, <3>k, PopOpIs
    <3>4. k.c.ops = <<p>>
      BY <3>3, <3>p
    <3>5. Remaining(k.c) = Remaining(m.c)
      <4>1. m.c.ops[1] = p /\ m.c.ops # <<>>
        BY <2>1, TopOfTwo
      <4>2. k.c.ops[1] = p /\ k.c.ops # <<>>
        BY <3>4, TopOfOne
      <4> QED
        BY <4>1, <4>2 DEF Remaining
    <3>6. Calm(k, s, e)
      BY <1>0, <3>3, <3>5 DEF Calm, Kept
    <3>7. ParentReady(k, s, e, p)
      BY <2>1, <3>3, <3>4, <3>6 DEF ParentReady
    <3>8. Fine(k, n, s, e)
      BY <3>1, <3>3, <3>7, ParentNext
    <3> QED
      BY <3>3, <3>8 DEF Fine, Kept
  <2> QED
    BY <2>3, <2>4, <2>5
<1>3. ASSUME NEW p \in Op, NEW o \in Op, c.ops = <<p, o>>, Raw(o, c) PROVE FALSE
  <2>1. TopIn(c) = o
    BY <1>3, TopOfTwo
  <2> QED
    BY <1>3, <2>1 DEF IsRaw, Raw
<1> QED
  BY <1>s, <1>1, <1>2, <1>3, StackIs

-----------------------------------------------------------------------------
(* The steps of the control connection.                                    *)

\* What SuccessIsReal demands of a step.
Real ==
  ctl'.succeeded # ctl.succeeded => srv'.completed = ctl'.succeeded /\ srv'.received = ctl'.succeeded

\* The record a handler starts with.
LEMMA HereIs ==
  ASSUME IInv
  PROVE  /\ Here \in Machine /\ Here.c = ctl /\ Here.d = data /\ Here.q = srv.cmds
         /\ ctl \in ControlState /\ data \in Socket /\ srv \in ServerState /\ ends \in Nat
<1>1. ctl \in ControlState /\ data \in Socket /\ srv \in ServerState /\ ends \in Nat
  BY DEF IInv, Inv
<1>2. srv.cmds \in Seq(Command)
  BY <1>1 DEF ServerState
<1> QED
  BY <1>1, <1>2 DEF Here, Machine

\* A handler ends with its outcome.
LEMMA OutcomeStep ==
  ASSUME NEW s \in ServerState, NEW e, NEW m, NEW n, Outcome(m, n, s, e), m.c.succeeded = ctl.succeeded,
         Becomes(n), srv' = [s EXCEPT !.cmds = n.q], ends' = e
  PROVE  IInv' /\ Real
<1>1. n.q \in Seq(Command)
  BY DEF Outcome, Machine
<1>t. PICK t : t = [s EXCEPT !.cmds = n.q]
  OBVIOUS
<1>2. t.completed = s.completed /\ t.received = s.received
  BY <1>1, <1>t, ServerIs
<1>3. Inv(n.c, n.d, t, e)
  BY <1>t DEF Outcome, Holds
<1>4. ctl' = n.c /\ data' = n.d /\ srv' = t /\ ends' = e
  BY <1>t DEF Becomes
<1>5. IInv'
  BY <1>3, <1>4 DEF IInv
<1>6. Real
  BY <1>2, <1>4 DEF Real, Outcome
<1> QED
  BY <1>5, <1>6

\* The next reply of the server.
LEMMA ParseResponseStep ==
  ASSUME IInv, ParseResponse
  PROVE  IInv' /\ Real
<1>h. /\ Here \in Machine /\ Here.c = ctl /\ Here.d = data /\ Here.q = srv.cmds
      /\ ctl \in ControlState /\ data \in Socket /\ srv \in ServerState /\ ends \in Nat
  BY HereIs
<1>i. Inv(ctl, data, srv, ends)
  BY DEF IInv
<1>s. PICK s : s = [srv EXCEPT !.replies = Tail(srv.replies)]
  OBVIOUS
<1>x. PICK x : x = srv.replies[1][1]
  OBVIOUS
<1>k. PICK code : code = srv.replies[1][2]
  OBVIOUS
<1>r. Reads(srv, s, x, code) /\ Code = code
  <2>1. srv.replies # <<>>
    BY DEF ParseResponse
  <2> QED
    BY <1>s, <1>x, <1>k, <2>1 DEF Reads, Code, Reply
<1>m. PICK m : m = Counted(Here)
  OBVIOUS
<1>1. PICK n \in (IF code # 1 /\ ctl.pending = 0 THEN {Here}
                  ELSE IF ctl.skip # 0 THEN IF code = 1 THEN {m} ELSE Skip(m)
                  ELSE IF ~HasOp THEN {m}
                  ELSE IF Top.kind = "raw" THEN ParseRaw(m, code) ELSE ParseOther(m, code)) :
        /\ Becomes(n)
        /\ srv' = [srv EXCEPT !.replies = Tail(@), !.cmds = n.q]
  BY <1>r, <1>m DEF ParseResponse
<1>e. ends' = ends
  BY DEF ParseResponse
<1>2. srv' = [s EXCEPT !.cmds = n.q]
  BY <1>1, <1>s, <1>h DEF ServerState
<1>t. Top = TopIn(ctl)
  BY DEF Top, TopIn, Last
<1>3. CASE code = 1
  <2>r. Reads(srv, s, x, 1)
    BY <1>r, <1>3
  <2>1. /\ s \in ServerState /\ s.cmds = srv.cmds /\ ctl.pending = 1
    BY <1>i, <2>r, PrelimReply
  <2>2. m = Here
    BY <1>m, <1>3, <1>r DEF Counted
  <2>3. CASE ctl.skip # 0
    <3>1. n = Here
      BY <1>1, <1>3, <2>2, <2>3
    <3>2. Inv(ctl, data, s, ends)
      BY <1>i, <2>r, <2>3, PrelimSkipped
    <3>3. srv' = s
      BY <1>h, <1>2, <2>1, <3>1 DEF ServerState
    <3>4. ctl' = ctl /\ data' = data
      BY <1>1, <1>h, <3>1 DEF Becomes
    <3> QED
      BY <1>e, <3>2, <3>3, <3>4 DEF IInv, Real
  <2>4. CASE ctl.skip = 0
    <3>1. HasOp
      BY <1>i, <2>1, <2>4 DEF Inv, Outstanding, HasOp
    <3>2. IsRaw(ctl) /\ TopIn(ctl).st \in {"transfer", "waittransferpre"}
      BY <1>i, <2>r, <2>4, <3>1, PrelimRaw DEF HasOp
    <3>3. PICK p \in Op, o \in Op : ctl.ops = <<p, o>> /\ Parent(p, {"wait", "waittest"}) /\ Raw(o, ctl)
      BY <1>h, <1>i, <3>2, RawStack DEF Inv
    <3>4. TopIn(ctl) = o /\ TopOf(Here) = o
      <4>1. Here.c.ops = <<p, o>>
        BY <1>h, <3>3
      <4> QED
        BY <3>3, <4>1, TopOfTwo, TopOfIs
    <3>5. n \in ParseRaw(Here, 1)
      BY <1>1, <1>3, <1>t, <2>2, <2>4, <3>1, <3>2 DEF IsRaw
    <3>v. PICK st : st = IF o.st = "transfer" THEN "waitfinish" ELSE "waittransfer"
      OBVIOUS
    <3>o. PICK o2 : o2 = [o EXCEPT !.st = st]
      OBVIOUS
    <3>6. /\ o2 \in Op /\ o2.st = st /\ o2.kind = o.kind /\ o2.tid = o.tid /\ o2.binary = o.binary
          /\ o2.offset = o.offset /\ o2.sent = o.sent /\ o2.reason = o.reason /\ o2.asks = o.asks
          /\ o2.resolving = o.resolving /\ o2.pasv = o.pasv /\ o2.kind = "raw" /\ st \in {"waitfinish", "waittransfer"}
      BY <3>3, <3>v, <3>o DEF Op, Raw
    <3>j. PICK j : j = WithTop(Here, o2)
      OBVIOUS
    <3>7. n \in SendNextCommand(j)
      BY <3>2, <3>4, <3>5, <3>v, <3>o, <3>j DEF ParseRaw
    <3>8. /\ j \in Machine /\ j.d = data /\ j.q = srv.cmds
          /\ j.c.ops = <<p, o2>> /\ j.c.pending = ctl.pending /\ j.c.skip = ctl.skip
          /\ j.c.timer = ctl.timer /\ j.c.idle = ctl.idle
          /\ Kept(ctl, j.c)
      <4>1. Here.c.ops = <<p, o>>
        BY <1>h, <3>3
      <4> QED
        BY <1>h, <3>3, <3>6, <3>j, <4>1, WithTopIs
    <3>9. n = j
      <4>1. TopOf(j) = o2 /\ j.c.skip = 0
        BY <2>4, <3>8, TopOfIs
      <4> QED
        BY <3>6, <3>7, <4>1, RawWaits DEF Sent, Unsent
    <3>10. Inv(j.c, data, s, ends)
      <4>1. j.c \in ControlState
        BY <3>8 DEF Machine
      <4> QED
        BY <1>i, <2>r, <2>4, <3>3, <3>v, <3>6, <3>8, <4>1, PrelimTaken, ZenonT(60)
    <3>11. srv' = s
      BY <1>2, <2>1, <3>8, <3>9 DEF ServerState
    <3>12. ctl' = j.c /\ data' = data
      BY <1>1, <3>8, <3>9 DEF Becomes
    <3>13. IInv'
      BY <1>e, <3>10, <3>11, <3>12 DEF IInv
    <3>14. Real
      BY <3>8, <3>12 DEF Real, Kept
    <3> QED
      BY <3>13, <3>14
  <2> QED
    BY <2>3, <2>4
<1>4. CASE code # 1
  <2>1. s \in ServerState /\ ctl.pending = 1 /\ code \in {2, 5}
    BY <1>i, <1>r, <1>4, FinalReply
  <2>2. /\ m \in Machine /\ m.d = data /\ m.q = srv.cmds /\ m.c.ops = ctl.ops /\ m.c.pending = 0
        /\ m.c.skip = ctl.skip /\ m.c.timer = ctl.timer /\ Kept(ctl, m.c)
    <3>1. m = [Here EXCEPT !.c = [ctl EXCEPT !.pending = 0]]
      <4>1. m = [Here EXCEPT !.c.pending = Here.c.pending - 1]
        BY <1>h, <1>m, <1>r, <1>4, <2>1 DEF Counted
      <4>2. Here.c.pending - 1 = 0
        BY <1>h, <2>1
      <4>3. m = [Here EXCEPT !.c.pending = 0]
        BY <4>1, <4>2
      <4> QED
        BY <1>h, <4>3
    <3>2. [ctl EXCEPT !.pending = 0] \in ControlState
      BY <1>h, Numbers DEF ControlState
    <3>3. m \in Machine /\ m.c = [ctl EXCEPT !.pending = 0] /\ m.d = data /\ m.q = srv.cmds
      BY <1>h, <3>1, <3>2 DEF Machine
    <3> QED
      BY <1>h, <3>3 DEF ControlState, Kept
  <2>3. Fine(m, n, s, ends) => Outcome(m, n, s, ends)
    BY DEF Fine, Outcome
  <2>4. CASE ctl.skip # 0
    <3>1. n \in Skip(m)
      BY <1>1, <1>4, <2>1, <2>4
    <3>2. Fine(m, n, s, ends)
      BY <1>h, <1>i, <1>r, <1>4, <2>1, <2>2, <2>4, <3>1, SkipFine
    <3> QED
      BY <1>1, <1>2, <1>e, <2>1, <2>2, <2>3, <3>2, OutcomeStep DEF Kept
  <2>5. CASE ctl.skip = 0
    <3>1. HasOp
      BY <1>i, <2>1, <2>5 DEF Inv, Outstanding, HasOp
    <3>2. CASE ~IsRaw(ctl)
      <4>1. n \in ParseOther(m, code)
        BY <1>1, <1>4, <1>t, <2>1, <2>5, <3>1, <3>2 DEF IsRaw, HasOp
      <4>2. Fine(m, n, s, ends)
        BY <1>h, <1>i, <1>r, <1>4, <2>1, <2>2, <2>5, <3>1, <3>2, <4>1, ParseOtherFine DEF HasOp
      <4> QED
        BY <1>1, <1>2, <1>e, <2>1, <2>2, <2>3, <4>2, OutcomeStep DEF Kept
    <3>3. CASE IsRaw(ctl)
      <4>1. PICK p \in Op, o \in Op : ctl.ops = <<p, o>> /\ Parent(p, {"wait", "waittest"}) /\ Raw(o, ctl)
        BY <1>h, <1>i, <3>3, RawStack DEF Inv
      <4>2. n \in ParseRaw(m, code)
        BY <1>1, <1>4, <1>t, <2>1, <2>5, <3>1, <3>3 DEF IsRaw
      <4>3. Answered(m, s, ends, p, o, code)
        BY <1>i, <1>r, <1>4, <2>2, <2>5, <4>1, AnsweredIs
      <4>4. Outcome(m, n, s, ends)
        BY <1>h, <2>1, <2>2, <4>2, <4>3, ParseRawFine
      <4> QED
        BY <1>1, <1>2, <1>e, <2>1, <2>2, <4>4, OutcomeStep DEF Kept
    <3> QED
      BY <3>2, <3>3
  <2> QED
    BY <2>4, <2>5
<1> QED
  BY <1>3, <1>4

\* The connection is closed.
LEMMA ClosedInv ==
  ASSUME NEW c, NEW d, NEW s, NEW e, Inv(c, d, s, e), NEW k \in ControlState,
         k.ops = <<>>, k.conn = "closed", k.pending = 0, k.skip = 0, ~k.idle, k.tids = c.tids, k.count = c.count
  PROVE  Inv(k, NoSocket, Fresh(s), e)
<1>t. PICK t : t = Fresh(s)
  OBVIOUS
<1>1. /\ t \in ServerState /\ t.cmds = <<>> /\ t.replies = <<>> /\ ~t.prelim
      /\ t.completed = s.completed /\ t.received = s.received
  <2>1. s \in ServerState
    BY DEF Inv
  <2>2. <<>> \in Seq(Command) /\ <<>> \in Seq(Command \X {1, 2, 5}) /\ "A" \in Types /\ 0 \in Offsets
    BY EmptySeq DEF Types, Offsets
  <2> QED
    BY <1>t, <2>1, <2>2, Numbers DEF Fresh, ServerState
<1>r. ~IsRaw(k)
  BY DEF IsRaw
<1>n. c.tids \in Nat /\ c.count \in Nat /\ d.tid \in Nat /\ Remaining(c) \in Nat
  <2>1. c \in ControlState /\ d \in Socket
    BY DEF Inv
  <2>2. c.tids \in Nat /\ c.count \in Nat /\ d.tid \in Nat
    BY <2>1, FtpAssumption DEF ControlState, Transfers, MaxTransfers, Socket
  <2>3. Remaining(c) \in Nat
    BY DEF Remaining
  <2> QED
    BY <2>2, <2>3
<1>2. Stacked(k)
  BY DEF Stacked
<1>3. k.tids + Remaining(k) <= 2 * k.count
  BY <1>n DEF Inv, Remaining
<1>4. Outstanding(k, t)
  BY <1>1 DEF Outstanding, Nothing
<1>5. Connected(k)
  BY DEF Connected
<1>6. Matched(k, t)
  BY DEF Matched
<1>7. Said(t)
  BY <1>1 DEF Said
<1>8. Believed(k, t)
  BY <1>r, <1>1 DEF Believed, Known
<1>9. Data(k, NoSocket, t)
  BY <1>r DEF Data, NoSocket
<1>10. Ended(k, NoSocket, t, e)
  BY <1>r, <1>n DEF Inv, Ended, NoSocket
<1>11. Timed(k)
  BY DEF Timed
<1>12. e \in Nat
  BY DEF Inv
<1> QED
  BY <1>t, <1>1, <1>2, <1>3, <1>4, <1>5, <1>6, <1>7, <1>8, <1>9, <1>10, <1>11, <1>12, NoSocketIs DEF Inv

\* The connection is closed by a handler.
LEMMA CloseStep ==
  ASSUME IInv, ctl' = Closed(ctl), DoClose, ends' = ends
  PROVE  IInv' /\ Real
<1>1. ctl \in ControlState /\ Inv(ctl, data, srv, ends)
  BY DEF IInv, Inv
<1>k. PICK k : k = Closed(ctl)
  OBVIOUS
<1>2. /\ k \in ControlState /\ k.ops = <<>> /\ k.conn = "closed" /\ k.pending = 0 /\ k.skip = 0 /\ ~k.idle
      /\ k.tids = ctl.tids /\ k.count = ctl.count /\ k.succeeded = ctl.succeeded
  BY <1>1, <1>k, Numbers, EmptySeq DEF Closed, ControlState
<1>3. Inv(k, NoSocket, Fresh(srv), ends)
  BY <1>1, <1>2, ClosedInv
<1> QED
  BY <1>2, <1>3, <1>k DEF IInv, Real, DoClose

\* The control connection is lost.
LEMMA ConnectionLostStep ==
  ASSUME IInv, ConnectionLost
  PROVE  IInv' /\ Real
<1>1. ctl \in ControlState /\ Inv(ctl, data, srv, ends)
  BY DEF IInv, Inv
<1>j. PICK j : j = Closed(ctl)
  OBVIOUS
<1>2. /\ j \in ControlState /\ j.ops = <<>> /\ j.conn = "closed" /\ j.pending = 0 /\ j.skip = 0 /\ ~j.idle
      /\ j.tids = ctl.tids /\ j.count = ctl.count /\ j.succeeded = ctl.succeeded /\ j.faults = ctl.faults
  BY <1>1, <1>j, Numbers, EmptySeq DEF Closed, ControlState
<1>f. PICK f : f = ctl.faults + 1
  OBVIOUS
<1>3. f \in 0..MaxFaults
  BY <1>1, <1>f, FtpAssumption DEF ConnectionLost, ControlState
<1>k. PICK k : k = [j EXCEPT !.faults = f]
  OBVIOUS
<1>4. /\ k \in ControlState /\ k.ops = <<>> /\ k.conn = "closed" /\ k.pending = 0 /\ k.skip = 0 /\ ~k.idle
      /\ k.tids = ctl.tids /\ k.count = ctl.count /\ k.succeeded = ctl.succeeded
  BY <1>2, <1>3, <1>k DEF ControlState
<1>5. ctl' = k /\ DoClose /\ ends' = ends
  BY <1>2, <1>j, <1>f, <1>k DEF ConnectionLost
<1>6. Inv(k, NoSocket, Fresh(srv), ends)
  BY <1>1, <1>4, ClosedInv
<1> QED
  BY <1>4, <1>5, <1>6 DEF IInv, Real, DoClose

\* EndAll, with the fields it changes.
LEMMA EndAllIs ==
  ASSUME NEW m \in Machine, NEW n, n = EndAll(m)
  PROVE  /\ n \in Machine /\ n.d = NoSocket /\ n.q = m.q
         /\ n.c.ops = <<>> /\ n.c.skip = m.c.pending /\ n.c.pending = m.c.pending
         /\ Kept(m.c, n.c)
<1>c. PICK c : c = [m.c EXCEPT !.skip = m.c.pending, !.ops = <<>>, !.timer = FALSE]
  OBVIOUS
<1>1. /\ c \in ControlState /\ c.ops = <<>> /\ c.skip = m.c.pending /\ c.pending = m.c.pending /\ Kept(m.c, c)
  BY <1>c, EmptySeq DEF Machine, ControlState, Kept
<1>k. PICK k : k = StartKeepaliveTimer(c)
  OBVIOUS
<1>2. k = [c EXCEPT !.idle = c.idle \/ (c.skip = 0 /\ c.pending = 0)] /\ k \in ControlState
  BY <1>1, <1>k, KeepaliveIs
<1>3. k.ops = c.ops /\ k.skip = c.skip /\ k.pending = c.pending /\ Kept(c, k)
  BY <1>1, <1>2 DEF ControlState, Kept
<1>4. n = [m EXCEPT !.c = k, !.d = NoSocket]
  BY <1>c, <1>k DEF EndAll
<1>5. n \in Machine /\ n.c = k /\ n.d = NoSocket /\ n.q = m.q
  BY <1>2, <1>4, NoSocketIs DEF Machine
<1> QED
  BY <1>1, <1>3, <1>5 DEF Kept

\* All operations end; what is outstanding will be skipped.
LEMMA EndAllStep ==
  ASSUME IInv, ctl.conn = "up", ends' = ends,
         NEW m \in Machine, m.q = srv.cmds, m.c.pending = ctl.pending, Kept(ctl, m.c),
         Handle({EndAll(m)})
  PROVE  IInv' /\ Real
<1>h. /\ srv \in ServerState /\ ends \in Nat
  BY HereIs
<1>n. PICK n : n = EndAll(m)
  OBVIOUS
<1>1. Becomes(n) /\ srv' = [srv EXCEPT !.cmds = n.q]
  BY <1>n DEF Handle
<1>2. /\ n \in Machine /\ n.d = NoSocket /\ n.q = m.q
      /\ n.c.ops = <<>> /\ n.c.skip = m.c.pending /\ n.c.pending = m.c.pending
      /\ Kept(m.c, n.c)
  BY <1>n, EndAllIs
<1>3. Loose(ctl, srv, ends)
  BY InvLoose DEF IInv
<1>4. Loose(m.c, srv, ends)
  BY <1>3 DEF Loose, Known, Kept
<1>5. srv = [srv EXCEPT !.cmds = m.q]
  BY <1>h DEF ServerState
<1>6. Fine(m, n, srv, ends)
  BY <1>h, <1>2, <1>4, <1>5, Gone
<1>7. Outcome(m, n, srv, ends) /\ m.c.succeeded = ctl.succeeded
  BY <1>6 DEF Fine, Outcome, Kept
<1> QED
  BY <1>h, <1>1, <1>7, OutcomeStep

\* The user cancels.
LEMMA CancelStep ==
  ASSUME IInv, Cancel
  PROVE  IInv' /\ Real
<1>h. /\ Here \in Machine /\ Here.c = ctl /\ Here.d = data /\ Here.q = srv.cmds /\ ctl \in ControlState
  BY HereIs
<1>1. CASE Top.kind = "logon"
  BY <1>1, CloseStep DEF Cancel
<1>2. CASE Top.kind # "logon"
  <2>1. Top = TopIn(ctl)
    BY DEF Top, TopIn, Last
  <2>2. ctl.conn = "up"
    BY <1>h, <1>2, <2>1 DEF Cancel, HasOp, IInv, Inv, Connected, ControlState
  <2>3. Handle({EndAll(Here)}) /\ ends' = ends
    BY <1>2 DEF Cancel
  <2> QED
    BY <1>h, <2>2, <2>3, EndAllStep DEF Kept
<1> QED
  BY <1>1, <1>2

\* The login is refused.
LEMMA LoginRefusedStep ==
  ASSUME IInv, LoginRefused
  PROVE  IInv' /\ Real
BY CloseStep DEF LoginRefused

\* A new command's operation.
LEMMA NewCommandIs ==
  ASSUME NEW op \in NewCommands
  PROVE  op \in Op /\ Parent(op, {"start", "command"})
<1>k. PICK o1 : o1 = NewOp("command", "command")
  OBVIOUS
<1>l. PICK o2 : o2 = NewOp("list", "start")
  OBVIOUS
<1>f. PICK o3 : o3 = NewOp("file", "start")
  OBVIOUS
<1>1. /\ o1 \in Op /\ o1.kind = "command" /\ o1.st = "command" /\ o1.tid = 0 /\ ~o1.asks /\ ~o1.resolving /\ ~o1.again
      /\ o2 \in Op /\ o2.kind = "list" /\ o2.st = "start" /\ o2.tid = 0 /\ ~o2.asks /\ ~o2.resolving
      /\ o3 \in Op /\ o3.kind = "file" /\ o3.st = "start" /\ o3.tid = 0 /\ ~o3.asks /\ ~o3.resolving
  BY <1>k, <1>l, <1>f, NewOpIs DEF Parents
<1>2. \/ op = o1 \/ op = [o2 EXCEPT !.again = TRUE] \/ op = [o3 EXCEPT !.binary = "A"]
      \/ \E b \in BOOLEAN : op = [o3 EXCEPT !.again = b, !.offset = 1]
  BY <1>k, <1>l, <1>f DEF NewCommands
<1>3. CASE op = o1
  BY <1>1, <1>3 DEF Parent, Parents
<1>4. CASE op = [o2 EXCEPT !.again = TRUE]
  BY <1>1, <1>4 DEF Parent, Parents, Op
<1>5. CASE op = [o3 EXCEPT !.binary = "A"]
  BY <1>1, <1>5 DEF Parent, Parents, Op, Types
<1>6. ASSUME NEW b \in BOOLEAN, op = [o3 EXCEPT !.again = b, !.offset = 1]
      PROVE  op \in Op /\ Parent(op, {"start", "command"})
  <2>1. 1 \in Offsets
    BY DEF Offsets
  <2> QED
    BY <1>1, <1>6, <2>1 DEF Parent, Parents, Op
<1> QED
  BY <1>2, <1>3, <1>4, <1>5, <1>6

\* Without operations.
LEMMA IdleIs ==
  ASSUME IInv, ~HasOp
  PROVE  /\ ctl.ops = <<>> /\ ctl.conn \in {"closed", "up"} /\ data = NoSocket /\ ctl.skip = ctl.pending
         /\ ctl.tids \in Nat /\ ctl.count \in Nat /\ ctl.tids <= 2 * ctl.count /\ ends <= ctl.tids
         /\ (ctl.pending = 0 => srv.cmds = <<>> /\ srv.replies = <<>> /\ ~srv.prelim)
         /\ (ctl.conn = "closed" => ctl.pending = 0)
<1>1. ctl \in ControlState /\ ctl.ops = <<>>
  BY DEF IInv, Inv, HasOp
<1>2. ctl.conn \in {"closed", "up"} /\ (ctl.conn = "closed" => ctl.pending = 0)
  BY <1>1 DEF IInv, Inv, Connected, ControlState
<1>3. data = NoSocket
  BY <1>1 DEF IInv, Inv, Data, IsRaw
<1>4. ctl.skip = ctl.pending /\ (ctl.pending = 0 => srv.cmds = <<>> /\ srv.replies = <<>> /\ ~srv.prelim)
  BY <1>1 DEF IInv, Inv, Outstanding, Nothing
<1>5. ctl.tids \in Nat /\ ctl.count \in Nat
  BY <1>1, FtpAssumption DEF ControlState, Transfers, MaxTransfers
<1>6. ctl.tids <= 2 * ctl.count
  BY <1>1, <1>5 DEF IInv, Inv, Remaining
<1>7. ends <= ctl.tids
  BY <1>3, <1>5 DEF IInv, Inv, Ended, NoSocket
<1> QED
  BY <1>1, <1>2, <1>3, <1>4, <1>5, <1>6, <1>7

\* A command is executed: over a new connection, at once, or when the replies
\* to be skipped have come.
LEMMA ExecuteStep ==
  ASSUME IInv, NEW op \in NewCommands, Execute(op)
  PROVE  IInv' /\ Real
<1>h. /\ Here \in Machine /\ Here.c = ctl /\ Here.d = data /\ Here.q = srv.cmds
      /\ ctl \in ControlState /\ data \in Socket /\ srv \in ServerState /\ ends \in Nat
  BY HereIs
<1>o. op \in Op /\ Parent(op, {"start", "command"})
  BY NewCommandIs
<1>i. /\ ctl.ops = <<>> /\ ctl.conn \in {"closed", "up"} /\ data = NoSocket /\ ctl.skip = ctl.pending
      /\ ctl.tids \in Nat /\ ctl.count \in Nat /\ ctl.tids <= 2 * ctl.count /\ ends <= ctl.tids
      /\ (ctl.pending = 0 => srv.cmds = <<>> /\ srv.replies = <<>> /\ ~srv.prelim)
      /\ (ctl.conn = "closed" => ctl.pending = 0)
  BY IdleIs DEF Execute
<1>l. PICK l : l = NewOp("logon", "connect")
  OBVIOUS
<1>2. l \in Op /\ Logon(l) /\ l.st = "connect" /\ l.kind = "logon"
  BY <1>l, NewOpIs DEF Logon
<1>p. PICK ops : ops = IF ctl.conn = "closed" THEN <<op, l>> ELSE <<op>>
  OBVIOUS
<1>n. PICK count : count = ctl.count + 1
  OBVIOUS
<1>k. PICK k : k = [ctl EXCEPT !.ops = ops, !.count = count]
  OBVIOUS
<1>3. /\ k \in ControlState /\ k.ops = ops /\ k.count = count
      /\ k.conn = ctl.conn /\ k.pending = ctl.pending /\ k.skip = ctl.skip /\ k.lastType = ctl.lastType
      /\ k.sentRest = ctl.sentRest /\ k.tids = ctl.tids /\ k.succeeded = ctl.succeeded /\ k.idle = ctl.idle
  <2>1. ops \in Seq(Op)
    BY <1>o, <1>2, <1>p
  <2>2. count \in 0..MaxOps
    BY <1>h, <1>n, FtpAssumption DEF Execute, ControlState
  <2> QED
    BY <1>h, <1>k, <2>1, <2>2 DEF ControlState
<1>m. PICK m : m = [Here EXCEPT !.c = k]
  OBVIOUS
<1>4. m \in Machine /\ m.c = k /\ m.d = NoSocket /\ m.q = srv.cmds
  BY <1>h, <1>i, <1>3, <1>m DEF Machine
<1>5. PICK n \in SendNextCommand(m) : Becomes(n) /\ srv' = [srv EXCEPT !.cmds = n.q]
  <2>1. Handle(SendNextCommand([Here EXCEPT !.c.ops = ops, !.c.count = @ + 1]))
    BY <1>l, <1>p DEF Execute
  <2>2. [Here EXCEPT !.c.ops = ops, !.c.count = @ + 1] = [Here EXCEPT !.c = [Here.c EXCEPT !.ops = ops, !.count = Here.c.count + 1]]
    BY <1>h, Zenon DEF Machine, ControlState
  <2>3. [Here EXCEPT !.c.ops = ops, !.c.count = @ + 1] = m
    BY <1>h, <1>n, <1>k, <1>m, <2>2
  <2> QED
    BY <2>1, <2>3 DEF Handle
<1>e. ends' = ends
  BY DEF Execute
<1>r. Remaining(k) \in 0..2
  BY DEF Remaining
<1>6. k.tids + Remaining(k) <= 2 * k.count
  BY <1>i, <1>n, <1>3, <1>r
<1>s. NoSocket.tid = 0 /\ NoSocket.reason = "none"
  BY DEF NoSocket
<1>7. CASE ctl.conn = "closed"
  <2>1. k.ops = <<op, l>>
    BY <1>3, <1>7, <1>p
  <2>2. Len(k.ops) = 2 /\ k.ops[1] = op /\ k.ops[2] = l /\ k.ops # <<>> /\ TopIn(k) = l
    BY <2>1, TopOfTwo
  <2>3. TopOf(m) = l
    BY <1>4, <2>1, TopOfIs
  <2>4. n = [m EXCEPT !.c.conn = "connecting", !.c.timer = TRUE]
    BY <1>2, <1>3, <1>4, <1>5, <1>7, <1>i, <2>3 DEF SendNextCommand, Logon
  <2>j. PICK j : j = [k EXCEPT !.conn = "connecting", !.timer = TRUE]
    OBVIOUS
  <2>5. /\ j \in ControlState /\ j.ops = k.ops /\ j.count = k.count /\ j.conn = "connecting" /\ j.pending = 0
        /\ j.skip = 0 /\ j.timer /\ j.tids = k.tids /\ j.succeeded = ctl.succeeded /\ j.idle = ctl.idle
    BY <1>i, <1>3, <1>7, <2>j DEF ControlState
  <2>6. n.c = j /\ n.d = NoSocket /\ n.q = srv.cmds
    <3>1. n = [m EXCEPT !.c = [m.c EXCEPT !.conn = "connecting", !.timer = TRUE]]
      BY <1>4, <2>4, Zenon DEF Machine, ControlState
    <3> QED
      BY <1>4, <2>j, <3>1 DEF Machine
  <2>7. ~ctl.idle
    BY <1>7 DEF IInv, Inv, Connected
  <2>8. ctl' = j /\ data' = NoSocket /\ srv' = srv
    BY <1>h, <1>5, <2>6 DEF Becomes, ServerState
  <2>9. TopIn(j) = l /\ j.ops # <<>> /\ Len(j.ops) = 2 /\ j.ops[1] = op /\ j.ops[2] = l
    BY <2>2, <2>5 DEF TopIn
  <2>10. Stacked(j) /\ ~IsRaw(j)
    BY <1>o, <1>2, <2>9 DEF Stacked, IsRaw
  <2>11. j.tids + Remaining(j) <= 2 * j.count
    BY <1>6, <2>5 DEF Remaining
  <2>12. Outstanding(j, srv)
    BY <1>i, <1>7, <2>5, <2>9 DEF Outstanding, Nothing
  <2>13. Connected(j)
    BY <1>2, <2>5, <2>7, <2>9 DEF Connected
  <2>14. Matched(j, srv)
    BY <2>5, <2>9 DEF Matched
  <2>15. Said(srv)
    BY DEF IInv, Inv
  <2>16. Believed(j, srv)
    BY <1>i, <1>7, <2>5, <2>10 DEF Believed, Known
  <2>17. Data(j, NoSocket, srv)
    BY <2>10 DEF Data, NoSocket
  <2>18. Ended(j, NoSocket, srv, ends)
    BY <1>h, <1>i, <1>3, <1>s, <2>5, <2>10 DEF Ended
  <2>19. Timed(j)
    BY <2>5 DEF Timed
  <2>20. Inv(j, NoSocket, srv, ends)
    BY <1>h, <2>5, <2>10, <2>11, <2>12, <2>13, <2>14, <2>15, <2>16, <2>17, <2>18, <2>19, NoSocketIs DEF Inv
  <2> QED
    BY <1>e, <2>5, <2>8, <2>20 DEF IInv, Real
<1>8. CASE ctl.conn = "up" /\ ctl.skip # 0
  <2>0. ctl.skip = 1 /\ ctl.pending = 1
    BY <1>8, <1>i DEF IInv, Inv, Outstanding
  <2>1. k.ops = <<op>>
    BY <1>3, <1>8, <1>p
  <2>2. Len(k.ops) = 1 /\ k.ops[1] = op /\ k.ops # <<>> /\ TopIn(k) = op
    BY <2>1, TopOfOne
  <2>3. TopOf(m) = op
    BY <1>4, <2>1, TopOfIs
  <2>4. n = [m EXCEPT !.c.timer = TRUE]
    BY <1>o, <1>3, <1>4, <1>5, <2>0, <2>3 DEF SendNextCommand, WaitToSkip, Parent
  <2>j. PICK j : j = [k EXCEPT !.timer = TRUE]
    OBVIOUS
  <2>5. /\ j \in ControlState /\ j.ops = k.ops /\ j.count = k.count /\ j.conn = "up" /\ j.pending = 1 /\ j.sentRest = ctl.sentRest
        /\ j.skip = 1 /\ j.timer /\ j.tids = k.tids /\ j.succeeded = ctl.succeeded /\ j.lastType = ctl.lastType
    BY <1>3, <1>8, <2>0, <2>j DEF ControlState
  <2>6. n.c = j /\ n.d = NoSocket /\ n.q = srv.cmds
    BY <1>4, <2>4, <2>j DEF Machine
  <2>8. ctl' = j /\ data' = NoSocket /\ srv' = srv
    BY <1>h, <1>5, <2>6 DEF Becomes, ServerState
  <2>9. TopIn(j) = op /\ j.ops # <<>> /\ Len(j.ops) = 1 /\ j.ops[1] = op
    BY <2>2, <2>5 DEF TopIn
  <2>10. Stacked(j) /\ ~IsRaw(j) /\ op.kind # "logon"
    BY <1>o, <2>9 DEF Stacked, IsRaw, Parent, Parents
  <2>11. j.tids + Remaining(j) <= 2 * j.count
    BY <1>6, <2>5 DEF Remaining
  <2>12. Outstanding(j, srv)
    BY <2>0, <2>5, <2>9 DEF IInv, Inv, Outstanding
  <2>13. Connected(j)
    BY <2>5, <2>9, <2>10 DEF Connected
  <2>14. Matched(j, srv)
    BY <2>5 DEF Matched
  <2>15. Said(srv)
    BY DEF IInv, Inv
  <2>16. Believed(j, srv)
    BY <1>8, <2>5, <2>10 DEF IInv, Inv, Believed, Known
  <2>17. Data(j, NoSocket, srv)
    BY <2>10 DEF Data, NoSocket
  <2>18. Ended(j, NoSocket, srv, ends)
    BY <1>h, <1>i, <1>3, <1>s, <2>5, <2>10 DEF Ended
  <2>19. Timed(j)
    BY <2>5 DEF Timed
  <2>20. Inv(j, NoSocket, srv, ends)
    BY <1>h, <2>5, <2>10, <2>11, <2>12, <2>13, <2>14, <2>15, <2>16, <2>17, <2>18, <2>19, NoSocketIs DEF Inv
  <2> QED
    BY <1>e, <2>5, <2>8, <2>20 DEF IInv, Real
<1>9. CASE ctl.conn = "up" /\ ctl.skip = 0
  <2>0. /\ ctl.lastType \in Types => srv.type = ctl.lastType
        /\ ~ctl.sentRest => srv.offset = 0
    BY <1>9 DEF IInv, Inv, Believed, Known
  <2>1. k.ops = <<op>>
    BY <1>3, <1>9, <1>p
  <2>2. Calm(m, srv, ends)
    BY <1>h, <1>i, <1>3, <1>4, <1>6, <1>9, <1>s, <2>0 DEF Calm
  <2>3. ParentReady(m, srv, ends, op)
    BY <1>o, <1>4, <2>1, <2>2 DEF ParentReady
  <2>4. Fine(m, n, srv, ends)
    BY <1>h, <1>4, <1>5, <2>3, ParentNext
  <2>5. Outcome(m, n, srv, ends) /\ m.c.succeeded = ctl.succeeded
    BY <1>3, <1>4, <2>4 DEF Fine, Outcome
  <2> QED
    BY <1>e, <1>h, <1>5, <2>5, OutcomeStep
<1> QED
  BY <1>i, <1>7, <1>8, <1>9

\* The login has a parent below.
LEMMA LogonStack ==
  ASSUME NEW c \in ControlState, Stacked(c), c.ops # <<>>, TopIn(c).kind = "logon"
  PROVE  \E p, o \in Op : /\ c.ops = <<p, o>> /\ Parent(p, {"start", "command"}) /\ Logon(o)
                          /\ TopIn(c) = o /\ Len(c.ops) = 2 /\ c.ops[1] = p /\ c.ops[2] = o
<1>1. ASSUME NEW q \in Op, c.ops = <<q>>, Parent(q, {"start", "command"}) PROVE FALSE
  <2>1. TopIn(c) = q
    BY <1>1, TopOfOne
  <2> QED
    BY <1>1, <2>1 DEF Parent, Parents
<1>2. ASSUME NEW q \in Op, NEW o \in Op, c.ops = <<q, o>>, Raw(o, c) PROVE FALSE
  <2>1. TopIn(c) = o
    BY <1>2, TopOfTwo
  <2> QED
    BY <1>2, <2>1 DEF Raw
<1>3. PICK p \in Op, o \in Op : c.ops = <<p, o>> /\ Parent(p, {"start", "command"}) /\ Logon(o)
  BY <1>1, <1>2, StackIs
<1>4. TopIn(c) = o /\ Len(c.ops) = 2 /\ c.ops[1] = p /\ c.ops[2] = o
  BY <1>3, TopOfTwo
<1> QED
  BY <1>3, <1>4

\* The connection is there: the welcome message is awaited.
LEMMA OnConnectStep ==
  ASSUME IInv, OnConnect
  PROVE  IInv' /\ Real
<1>h. /\ Here \in Machine /\ Here.c = ctl /\ Here.d = data /\ Here.q = srv.cmds
      /\ ctl \in ControlState /\ data \in Socket /\ srv \in ServerState /\ ends \in Nat
  BY HereIs
<1>i. /\ ctl.conn = "connecting" /\ ctl.ops # <<>> /\ TopIn(ctl).kind = "logon" /\ ctl.pending = 0 /\ ctl.skip = 0
  BY DEF IInv, Inv, Connected, Outstanding, OnConnect
<1>1. PICK p \in Op, o \in Op : /\ ctl.ops = <<p, o>> /\ Parent(p, {"start", "command"}) /\ Logon(o)
                                /\ TopIn(ctl) = o /\ Len(ctl.ops) = 2 /\ ctl.ops[1] = p /\ ctl.ops[2] = o
  BY <1>h, <1>i, LogonStack DEF IInv, Inv
<1>2. /\ srv.cmds = <<>> /\ ctl.timer /\ data = NoSocket /\ ctl.tids + Remaining(ctl) <= 2 * ctl.count
  BY <1>h, <1>i, <1>1 DEF IInv, Inv, Timed, Outstanding, Nothing, Data, IsRaw, Logon
<1>l. PICK l : l = [o EXCEPT !.st = "welcome"]
  OBVIOUS
<1>3. l \in Op /\ Logon(l) /\ l.st = "welcome" /\ l.kind = "logon" /\ l.tid = o.tid /\ l.binary = o.binary /\ l.offset = o.offset
      /\ ~l.resolving
  BY <1>1, <1>l DEF Op, Logon
<1>p. PICK ops : ops = <<p, l>>
  OBVIOUS
<1>4. ops \in Seq(Op)
  BY <1>3, <1>p
<1>5. [ctl.ops EXCEPT ![Len(ctl.ops)].st = "welcome"] = ops
  <2>1. [ctl.ops EXCEPT ![Len(ctl.ops)].st = "welcome"] = [ctl.ops EXCEPT ![2] = l]
    BY <1>1, <1>l, <1>h DEF ControlState
  <2>2. [<<p, o>> EXCEPT ![2] = l] = <<p, l>>
    BY Stacks
  <2> QED
    BY <1>1, <1>p, <2>1, <2>2, Zenon
<1>k. PICK k : k = [ctl EXCEPT !.conn = "up", !.lastType = "unknown", !.sentRest = FALSE, !.pending = 1, !.ops = ops]
  OBVIOUS
<1>6. /\ k \in ControlState /\ k.ops = ops /\ k.conn = "up" /\ k.lastType = "unknown" /\ ~k.sentRest /\ k.pending = 1
      /\ k.skip = 0 /\ k.timer /\ k.tids = ctl.tids /\ k.count = ctl.count /\ k.succeeded = ctl.succeeded
  BY <1>h, <1>i, <1>2, <1>4, <1>k, Numbers DEF ControlState
<1>7. ctl' = k
  <2>1. ctl' = [ctl EXCEPT !.conn = "up", !.lastType = "unknown", !.sentRest = FALSE, !.pending = 1,
                           !.ops = [ctl.ops EXCEPT ![Len(ctl.ops)].st = "welcome"]]
    BY Zenon DEF OnConnect
  <2> QED
    BY <1>5, <1>k, <2>1, Zenon
<1>x. PICK x \in Command : x.cmd = "welcome" /\ x.tid = o.tid /\ x.binary = o.binary /\ x.offset = o.offset
  BY CommandExists
<1>w. PICK w : w = SendCommand(Here, "welcome")
  OBVIOUS
<1>8. Only(w.q, x) /\ w \in Machine
  <2>1. Here.c.ops # <<>> /\ o = TopIn(Here.c) /\ Here.c.pending = 0 /\ Here.q = <<>> /\ Here \in Machine
    BY <1>h, <1>i, <1>1, <1>2
  <2> QED
    BY <1>w, <1>x, <2>1, SendCommandIs
<1>f. PICK f : f = Fresh(srv)
  OBVIOUS
<1>9. f \in ServerState /\ f.replies = <<>> /\ f.offset = 0 /\ ~f.prelim /\ ~f.linked
      /\ f.completed = srv.completed /\ f.received = srv.received
  <2>1. <<>> \in Seq(Command) /\ <<>> \in Seq(Command \X {1, 2, 5}) /\ "A" \in Types /\ 0 \in Offsets
    BY EmptySeq DEF Types, Offsets
  <2> QED
    BY <1>f, <1>h, <2>1, Numbers DEF Fresh, ServerState
<1>t. PICK t : t = [f EXCEPT !.cmds = w.q]
  OBVIOUS
<1>10. srv' = t /\ data' = NoSocket /\ ends' = ends
  BY <1>2, <1>f, <1>t, <1>w DEF OnConnect
<1>11. /\ t \in ServerState /\ t.cmds = <<x>> /\ t.replies = <<>> /\ t.offset = 0 /\ ~t.prelim
  BY <1>8, <1>9, <1>t, ServerIs DEF Machine, Only
<1>12. t.cmds # <<>> /\ Current(t) = x
  BY <1>11, CurrentIs
<1>s. Len(k.ops) = 2 /\ k.ops[1] = p /\ k.ops[2] = l /\ k.ops # <<>> /\ TopIn(k) = l /\ ~IsRaw(k)
  <2>1. k.ops = <<p, l>>
    BY <1>6, <1>p
  <2>2. Len(k.ops) = 2 /\ k.ops[1] = p /\ k.ops[2] = l /\ k.ops # <<>> /\ TopIn(k) = l
    BY <2>1, TopOfTwo
  <2> QED
    BY <1>3, <2>2 DEF IsRaw
<1>13. Stacked(k)
  BY <1>1, <1>3, <1>s DEF Stacked
<1>14. k.tids + Remaining(k) <= 2 * k.count
  BY <1>1, <1>2, <1>6, <1>i, <1>s DEF Remaining
<1>15. Outstanding(k, t)
  BY <1>6, <1>11, <1>12, <1>s DEF Outstanding, InFlight
<1>16. Connected(k)
  BY <1>3, <1>6, <1>s DEF Connected
<1>17. Matched(k, t)
  BY <1>3, <1>6, <1>12, <1>x, <1>s DEF Matched, SentBy, Parents
<1>18. Said(t)
  BY <1>12 DEF Said
<1>19. Believed(k, t)
  BY <1>6, <1>11, <1>12, <1>x, <1>s DEF Believed, Known, IsTransfer, Types
<1>20. Data(k, NoSocket, t)
  BY <1>s DEF Data, NoSocket
<1>21. Ended(k, NoSocket, t, ends)
  BY <1>2, <1>6, <1>s DEF IInv, Inv, Ended, NoSocket
<1>22. Timed(k)
  BY <1>6 DEF Timed
<1>23. Inv(k, NoSocket, t, ends)
  BY <1>h, <1>6, <1>11, <1>13, <1>14, <1>15, <1>16, <1>17, <1>18, <1>19, <1>20, <1>21, <1>22, NoSocketIs DEF Inv
<1> QED
  BY <1>6, <1>7, <1>10, <1>23 DEF IInv, Real

\* A keepalive command; its reply will be skipped.
LEMMA OnKeepaliveTimerStep ==
  ASSUME IInv, OnKeepaliveTimer
  PROVE  IInv' /\ Real
<1>h. ctl \in ControlState /\ data \in Socket /\ srv \in ServerState /\ ends \in Nat
  BY HereIs
<1>1. CASE ctl' = [ctl EXCEPT !.idle = FALSE] /\ UNCHANGED <<data, srv, ends>>
  <2>k. PICK k : k = [ctl EXCEPT !.idle = FALSE]
    OBVIOUS
  <2>1. /\ k \in ControlState /\ k.ops = ctl.ops /\ k.pending = ctl.pending /\ k.skip = ctl.skip /\ k.timer = ctl.timer
        /\ ~k.idle /\ Kept(ctl, k)
    BY <1>h, <2>k DEF ControlState, Kept
  <2>i. Inv(ctl, data, srv, ends)
    BY DEF IInv
  <2>2. Stacked(k)
    BY <2>1, <2>i DEF Inv, Stacked, Raw, Kept
  <2>3. k.tids + Remaining(k) <= 2 * k.count
    BY <2>1, <2>i DEF Inv, Remaining, Kept
  <2>4. Outstanding(k, srv)
    BY <2>1, <2>i DEF Inv, Outstanding
  <2>5. Connected(k)
    BY <2>1, <2>i DEF Inv, Connected, Kept, TopIn
  <2>6. Matched(k, srv)
    BY <2>1, <2>i DEF Inv, Matched, Kept, TopIn
  <2>7. Believed(k, srv)
    BY <2>1, <2>i DEF Inv, Believed, Known, Kept, TopIn, IsRaw
  <2>8. Data(k, data, srv)
    BY <2>1, <2>i DEF Inv, Data, TopIn, IsRaw
  <2>9. Ended(k, data, srv, ends)
    BY <2>1, <2>i DEF Inv, Ended, TopIn, IsRaw, Kept
  <2>10. Timed(k)
    BY <2>1, <2>i DEF Inv, Timed, TopIn
  <2>11. Inv(k, data, srv, ends)
    BY <2>1, <2>i, <2>2, <2>3, <2>4, <2>5, <2>6, <2>7, <2>8, <2>9, <2>10 DEF Inv
  <2> QED
    BY <1>1, <2>k, <2>1, <2>11 DEF IInv, Real, Kept
<1>2. CASE ~HasOp /\ ctl.pending = 0 /\ ctl.skip = 0
  <2>i. /\ ctl.ops = <<>> /\ ctl.conn = "up" /\ data = NoSocket /\ ctl.tids <= 2 * ctl.count /\ ends <= ctl.tids
        /\ ctl.tids \in Nat /\ ctl.count \in Nat
        /\ srv.cmds = <<>> /\ srv.replies = <<>> /\ ~srv.prelim
    <3>1. ctl.conn = "up"
      BY DEF IInv, Inv, Connected, OnKeepaliveTimer
    <3> QED
      BY <1>2, <3>1, IdleIs
  <2>b. PICK binary \in Types : binary = IF ctl.lastType = "A" THEN "A" ELSE "I"
    BY DEF Types
  <2>o. PICK o : o = NewOp("command", "command")
    OBVIOUS
  <2>1. o \in Op
    BY <2>o, NewOpIs DEF Parents
  <2>y. PICK y : y = [cmd |-> "keepalive", tid |-> o.tid, binary |-> o.binary, offset |-> o.offset]
    OBVIOUS
  <2>2. y \in Command /\ y.cmd = "keepalive"
    BY <2>1, <2>y DEF Command, Op
  <2>x. PICK x : x = [y EXCEPT !.binary = binary]
    OBVIOUS
  <2>3. x \in Command /\ x.cmd = "keepalive" /\ x.binary = binary
    BY <2>2, <2>x DEF Command
  <2>m. PICK m : m = SendCommand(Here, "keepalive")
    OBVIOUS
  <2>4. m = [Here EXCEPT !.c.pending = 1, !.c.timer = TRUE, !.q = <<y>>]
    <3>1. m = [Here EXCEPT !.c.pending = Here.c.pending + 1, !.c.timer = TRUE, !.q = Append(Here.q, y)]
      BY <2>i, <2>m, <2>o, <2>y, HereIs DEF SendCommand
    <3>2. Here.c = ctl /\ Here.q = srv.cmds
      BY HereIs
    <3>3. Here.c.pending + 1 = 1
      BY <1>2, <3>2
    <3>4. Append(<<>>, y) = <<y>>
      BY Stacks
    <3>5. Append(Here.q, y) = <<y>>
      BY <2>i, <3>2, <3>4, Zenon
    <3> QED
      BY <3>1, <3>3, <3>5
  <2>5. m.c = [ctl EXCEPT !.pending = 1, !.timer = TRUE] /\ m.q = <<y>>
    <3>1. m = [Here EXCEPT !.c = [Here.c EXCEPT !.pending = 1, !.timer = TRUE], !.q = <<y>>]
      BY <2>4, HereIs, Zenon DEF Machine, ControlState
    <3> QED
      BY <3>1, HereIs DEF Machine
  <2>a. PICK a : a = ctl.keepalives + 1
    OBVIOUS
  <2>k. PICK k : k = [ctl EXCEPT !.pending = 1, !.timer = TRUE, !.idle = FALSE, !.keepalives = a, !.skip = 1]
    OBVIOUS
  <2>6. /\ k \in ControlState /\ k.ops = <<>> /\ k.pending = 1 /\ k.skip = 1 /\ ~k.idle /\ Kept(ctl, k)
    <3>1. a \in 0..MaxKeepalives
      BY <1>h, <2>a, FtpAssumption DEF ControlState, OnKeepaliveTimer
    <3> QED
      BY <1>h, <2>i, <2>k, <3>1, Numbers DEF ControlState, Kept
  <2>7. /\ ctl' = [m.c EXCEPT !.idle = FALSE, !.keepalives = m.c.keepalives + 1, !.skip = m.c.skip + 1]
        /\ srv' = [srv EXCEPT !.cmds = [m.q EXCEPT ![Len(m.q)].binary = binary]]
        /\ data' = data /\ ends' = ends
    BY <1>2, <2>m, <2>b DEF OnKeepaliveTimer
  <2>8. ctl' = k
    <3>1. m.c.keepalives = ctl.keepalives /\ m.c.skip = 0
      BY <1>h, <1>2, <2>5 DEF ControlState
    <3>2. m.c.keepalives + 1 = a /\ m.c.skip + 1 = 1
      BY <2>a, <3>1
    <3>3. ctl' = [m.c EXCEPT !.idle = FALSE, !.keepalives = a, !.skip = 1]
      BY <2>7, <3>2
    <3> QED
      BY <1>h, <2>5, <2>k, <3>3 DEF ControlState
  <2>t. PICK t : t = [srv EXCEPT !.cmds = <<x>>]
    OBVIOUS
  <2>9. srv' = t
    <3>1. [<<y>> EXCEPT ![Len(<<y>>)].binary = binary] = <<x>>
      <4>1. [<<y>> EXCEPT ![1] = x] = <<x>>
        BY Stacks
      <4>2. [<<y>> EXCEPT ![Len(<<y>>)].binary = binary] = [<<y>> EXCEPT ![1] = x]
        BY <2>x
      <4> QED
        BY <4>1, <4>2, Zenon
    <3> QED
      BY <2>5, <2>7, <2>t, <3>1, Zenon
  <2>10. t \in ServerState /\ t.cmds = <<x>>
         /\ t.replies = srv.replies /\ t.type = srv.type /\ t.offset = srv.offset /\ t.port = srv.port
         /\ t.prelim = srv.prelim
    <3>q. PICK q : q = <<x>>
      OBVIOUS
    <3>1. q \in Seq(Command)
      BY <2>3, <3>q
    <3>2. t = [srv EXCEPT !.cmds = q]
      BY <2>t, <3>q
    <3>3. /\ t \in ServerState /\ t.cmds = q
          /\ t.replies = srv.replies /\ t.type = srv.type /\ t.offset = srv.offset /\ t.port = srv.port
          /\ t.prelim = srv.prelim
      BY <1>h, <3>1, <3>2, ServerIs
    <3> QED
      BY <3>q, <3>3
  <2>11. t.cmds # <<>> /\ Current(t) = x
    BY <2>10, CurrentIs
  <2>r. ~IsRaw(k) /\ Len(k.ops) = 0
    BY <2>6 DEF IsRaw
  <2>12. Stacked(k)
    BY <2>6 DEF Stacked
  <2>13. k.tids + Remaining(k) <= 2 * k.count
    BY <2>i, <2>6 DEF Remaining, Kept
  <2>14. Outstanding(k, t)
    BY <2>i, <2>6, <2>10, <2>11, <2>r DEF Outstanding, InFlight
  <2>15. Connected(k)
    BY <2>i, <2>6 DEF Connected, Kept
  <2>16. Matched(k, t)
    BY <2>6 DEF Matched
  <2>17. Said(t)
    BY <2>11 DEF Said
  <2>18. Believed(k, t)
    <3>1. /\ ctl.lastType \in Types => srv.type = ctl.lastType
          /\ ~ctl.sentRest => srv.offset = 0
      BY <2>i DEF IInv, Inv, Believed, Known
    <3>2. ctl.lastType \in Types => binary = ctl.lastType
      BY <2>b DEF Types
    <3> QED
      BY <2>3, <2>6, <2>10, <2>11, <2>r, <3>1, <3>2 DEF Believed, Known, IsTransfer, Kept
  <2>19. Data(k, NoSocket, t)
    BY <2>r DEF Data, NoSocket
  <2>20. Ended(k, NoSocket, t, ends)
    BY <1>h, <2>i, <2>6, <2>r DEF Ended, NoSocket, Kept
  <2>21. Timed(k)
    BY <2>6 DEF Timed
  <2>22. Inv(k, NoSocket, t, ends)
    BY <1>h, <2>6, <2>10, <2>12, <2>13, <2>14, <2>15, <2>16, <2>17, <2>18, <2>19, <2>20, <2>21, NoSocketIs DEF Inv
  <2> QED
    BY <2>i, <2>6, <2>7, <2>8, <2>9, <2>22 DEF IInv, Real, Kept
<1> QED
  BY <1>1, <1>2 DEF OnKeepaliveTimer

\* The resolver's answer clears the flag of every operation.
Resolved(n) == [n EXCEPT !.c.ops = [i \in DOMAIN @ |-> [@[i] EXCEPT !.resolving = FALSE]]]

\* Nothing to clear when all operations are gone.
LEMMA ResolvedNone ==
  ASSUME NEW n \in Machine, n.c.ops = <<>>
  PROVE  Resolved(n) = n
<1>1. [i \in DOMAIN n.c.ops |-> [n.c.ops[i] EXCEPT !.resolving = FALSE]] = <<>>
  OBVIOUS
<1>2. Resolved(n) = [n EXCEPT !.c.ops = <<>>]
  BY <1>1, Zenon DEF Resolved, Machine, ControlState
<1>3. Resolved(n) = [n EXCEPT !.c = [n.c EXCEPT !.ops = <<>>]]
  BY <1>2, Zenon DEF Machine, ControlState
<1>4. [n.c EXCEPT !.ops = <<>>] = n.c
  BY DEF Machine, ControlState
<1> QED
  BY <1>3, <1>4 DEF Machine

\* The map over a stack of two.
LEMMA ResolvedPair ==
  ASSUME NEW s \in Seq(Op), Len(s) = 2
  PROVE  LET f == [i \in DOMAIN s |-> [s[i] EXCEPT !.resolving = FALSE]]
         IN /\ f \in Seq(Op) /\ Len(f) = 2
            /\ f[1] = [s[1] EXCEPT !.resolving = FALSE] /\ f[2] = [s[2] EXCEPT !.resolving = FALSE]
<1> DEFINE f == [i \in DOMAIN s |-> [s[i] EXCEPT !.resolving = FALSE]]
<1>1. DOMAIN s = 1..2
  OBVIOUS
<1>2. ASSUME NEW i \in 1..2 PROVE [s[i] EXCEPT !.resolving = FALSE] \in Op
  <2>1. s[i] \in Op
    BY <1>1
  <2>o. PICK o : o = s[i]
    OBVIOUS
  <2>2. [o EXCEPT !.resolving = FALSE] \in Op
    BY <2>1, <2>o DEF Op
  <2> QED
    BY <2>2, <2>o
<1>3. f = [i \in 1..2 |-> [s[i] EXCEPT !.resolving = FALSE]]
  BY <1>1
<1>4. f \in [1..2 -> Op]
  BY <1>2, <1>3, Zenon
<1>5. f[1] = [s[1] EXCEPT !.resolving = FALSE] /\ f[2] = [s[2] EXCEPT !.resolving = FALSE]
  BY <1>3
<1>6. f \in Seq(Op) /\ Len(f) = 2
  <2>g. PICK g : g = f
    OBVIOUS
  <2>1. g \in [1..2 -> Op]
    BY <1>4, <2>g, Zenon
  <2>2. g \in Seq(Op)
    <3>1. [1..2 -> Op] \in {[1..n -> Op] : n \in Nat}
      OBVIOUS
    <3>2. g \in UNION {[1..n -> Op] : n \in Nat}
      BY <2>1, <3>1, Zenon
    <3> QED
      BY <3>2, SeqDef, Zenon
  <2>3. Len(g) = 2
    <3>1. Len(g) \in Nat /\ DOMAIN g = 1..Len(g)
      BY <2>2, LenProperties
    <3>2. DOMAIN g = 1..2
      BY <2>1
    <3>n. PICK n : n = Len(g)
      OBVIOUS
    <3>3. n \in Nat /\ 1..n = 1..2
      BY <3>1, <3>2, <3>n
    <3>4. n = 2
      <4>1. 2 \in 1..n
        BY <3>3
      <4>2. n \in 1..2
        <5>1. n \in 1..n
          BY <3>3, <4>1
        <5> QED
          BY <3>3, <5>1, Zenon
      <4> QED
        BY <3>3, <4>1, <4>2
    <3> QED
      BY <3>n, <3>4
  <2> QED
    BY <2>2, <2>3, <2>g, Zenon
<1> QED
  BY <1>5, <1>6

\* Of two operations the one on top.
LEMMA ResolvedTop ==
  ASSUME NEW n \in Machine, NEW p \in Op, NEW o \in Op, n.c.ops = <<p, o>>, ~p.resolving,
         NEW o2, o2 = [o EXCEPT !.resolving = FALSE], NEW r, r = Resolved(n)
  PROVE  /\ r \in Machine /\ r.d = n.d /\ r.q = n.q
         /\ r.c.ops = <<p, o2>> /\ r.c.pending = n.c.pending /\ r.c.skip = n.c.skip
         /\ r.c.timer = n.c.timer /\ r.c.idle = n.c.idle
         /\ Kept(n.c, r.c)
<1>1. [p EXCEPT !.resolving = FALSE] = p
  BY DEF Op
<1>q. PICK q : q = <<p, o2>>
  OBVIOUS
<1>o. o2 \in Op
  BY DEF Op
<1>2. q \in Seq(Op) /\ Len(q) = 2 /\ q[1] = p /\ q[2] = o2
  BY <1>o, <1>q
<1>f. PICK f : f = [i \in DOMAIN n.c.ops |-> [n.c.ops[i] EXCEPT !.resolving = FALSE]]
  OBVIOUS
<1>3. f = q
  <2>1. Len(n.c.ops) = 2 /\ n.c.ops[1] = p /\ n.c.ops[2] = o /\ n.c.ops \in Seq(Op)
    BY Stacks DEF Machine, ControlState
  <2>2. f \in Seq(Op) /\ Len(f) = 2 /\ f[1] = p /\ f[2] = o2
    BY <1>1, <1>f, <2>1, ResolvedPair, Zenon
  <2> QED
    BY <1>2, <2>2, ShortEqual
<1>4. r = [n EXCEPT !.c = [n.c EXCEPT !.ops = q]]
  BY <1>3, <1>f, Zenon DEF Resolved, Machine, ControlState
<1>5. [n.c EXCEPT !.ops = q] \in ControlState
  BY <1>2 DEF Machine, ControlState
<1>6. r \in Machine /\ r.c = [n.c EXCEPT !.ops = q] /\ r.d = n.d /\ r.q = n.q
  BY <1>4, <1>5 DEF Machine
<1> QED
  BY <1>6, <1>q DEF Machine, ControlState, Kept

\* The address has been resolved: PORT or PASV is sent.
LEMMA OnExternalIPAddressStep ==
  ASSUME IInv, OnExternalIPAddress
  PROVE  IInv' /\ Real
<1>h. /\ Here \in Machine /\ Here.c = ctl /\ Here.d = data /\ Here.q = srv.cmds
      /\ ctl \in ControlState /\ data \in Socket /\ srv \in ServerState /\ ends \in Nat
  BY HereIs
<1>i. Inv(ctl, data, srv, ends)
  BY DEF IInv
<1>t. ctl.ops # <<>> /\ TopIn(ctl).resolving
  BY DEF OnExternalIPAddress, HasOp, Top, TopIn, Last
<1>1. IsRaw(ctl)
  BY <1>i, <1>t DEF Inv, Stacked, Parent, Logon, Raw, IsRaw, TopIn
<1>2. PICK p \in Op, o \in Op : /\ ctl.ops = <<p, o>> /\ Parent(p, {"wait", "waittest"}) /\ Raw(o, ctl)
                                /\ TopIn(ctl) = o /\ ctl.ops # <<>> /\ ctl.ops[1] = p
  BY <1>h, <1>i, <1>1, RawStack DEF Inv
<1>3. /\ o.kind = "raw" /\ o.resolving /\ o.st = "port_pasv" /\ ~o.sent /\ ~o.asks /\ o.tid = ctl.tids /\ o.tid > 0
      /\ ~p.resolving
  BY <1>2, <1>t DEF Raw, Sent, Parent
<1>4. /\ ctl.pending = 0 /\ ctl.skip = 0 /\ ctl.conn = "up"
      /\ srv.cmds = <<>> /\ srv.replies = <<>> /\ ~srv.prelim
  <2>1. ctl.skip = 0
    <3>1. Len(ctl.ops) = 2
      BY <1>2, TopOfTwo
    <3> QED
      BY <1>i, <3>1 DEF Inv, Outstanding
  <2>2. ctl.pending = 0 /\ Nothing(srv)
    BY <1>i, <1>2, <1>3, <2>1 DEF Inv, Outstanding, Matched
  <2>3. ctl.conn = "up"
    BY <1>h, <1>i, <1>2, <1>3 DEF Inv, Connected, ControlState
  <2> QED
    BY <1>i, <2>1, <2>2, <2>3 DEF Inv, Outstanding, Nothing
<1>5. Calm(Here, srv, ends)
  BY <1>h, <1>i, <1>4 DEF Inv, Calm, Believed, Known, Ended
<1>6. RawReady(Here, srv, ends, p, o)
  <2>1. DataUnsent(data) /\ data.tid = o.tid
    BY <1>i, <1>1, <1>2, <1>3 DEF Inv, Data, DataUnsent
  <2>2. ctl.lastType = o.binary
    BY <1>i, <1>1, <1>2, <1>3 DEF Inv, Believed
  <2> QED
    BY <1>h, <1>2, <1>3, <1>5, <2>1, <2>2 DEF RawReady, Unsent
<1>7. PICK n \in SendNextCommand(Here) : Becomes(Resolved(n)) /\ srv' = [srv EXCEPT !.cmds = Resolved(n).q]
  BY ZenonT(60) DEF OnExternalIPAddress, Handle, Resolved
<1>8. n \in SendPort(Here)
  <2>1. Here.c.ops = <<p, o>>
    BY <1>h, <1>2
  <2>2. TopOf(Here) = o /\ Here.c.skip = 0
    BY <1>h, <1>4, <2>1, TopOfIs
  <2>3. n \in SendRaw(Here)
    BY <1>3, <1>7, <2>2 DEF SendNextCommand
  <2> QED
    BY <1>3, <2>2, <2>3 DEF SendRaw, SendPortPasv
<1>9. n = FailRaw(Here) \/ \E o2 \in Op : SameOp(o, o2) /\ Asked(Here, n, p, o2)
  <2>1. Here.c.ops = <<p, o>> /\ Here.c.pending = 0 /\ Here.q = <<>>
    BY <1>h, <1>2, <1>4
  <2> QED
    BY <1>h, <1>8, <2>1, SendPortIs
<1>r. PICK r : r = Resolved(n)
  OBVIOUS
<1>10. CASE n = FailRaw(Here)
  <2>1. Fine(Here, n, srv, ends)
    BY <1>h, <1>6, <1>10, RawGivesUp
  <2>2. n \in Machine /\ n.c.ops = <<>>
    <3>1. Here.c.ops = <<p, o>>
      BY <1>h, <1>2
    <3> QED
      BY <1>h, <1>10, <3>1, FailRawIs
  <2>3. r = n
    BY <1>r, <2>2, ResolvedNone
  <2>4. Outcome(Here, n, srv, ends) /\ Here.c.succeeded = ctl.succeeded
    BY <1>h, <2>1 DEF Fine, Outcome
  <2>5. Becomes(n) /\ srv' = [srv EXCEPT !.cmds = n.q] /\ ends' = ends
    BY <1>7, <1>r, <2>3 DEF OnExternalIPAddress
  <2> QED
    BY <1>h, <2>4, <2>5, OutcomeStep
<1>11. ASSUME NEW o2 \in Op, SameOp(o, o2), Asked(Here, n, p, o2) PROVE IInv' /\ Real
  <2>1. /\ n \in Machine
        /\ n.c.ops = <<p, o2>> /\ n.c.pending = 1 /\ n.c.skip = 0 /\ n.c.timer
        /\ Kept(ctl, n.c)
        /\ n.d.tid = data.tid /\ n.d.reason = data.reason /\ n.d.early = data.early /\ n.d.events = data.events
        /\ n.d.block = data.block /\ n.d.link \in {data.link, "listening"}
    BY <1>h, <1>4, <1>11 DEF Asked
  <2>2. PICK x \in Command : /\ Only(n.q, x) /\ x.cmd = (IF o2.pasv THEN "pasv" ELSE "port")
                             /\ x.tid = o2.tid /\ x.binary = o2.binary /\ x.offset = o2.offset
    BY <1>11 DEF Asked
  <2>o. PICK o3 : o3 = [o2 EXCEPT !.resolving = FALSE]
    OBVIOUS
  <2>3. /\ o3 \in Op /\ o3.kind = "raw" /\ o3.tid = o.tid /\ o3.st = "port_pasv" /\ o3.binary = o.binary
        /\ o3.offset = o.offset /\ ~o3.sent /\ ~o3.asks /\ ~o3.resolving /\ o3.pasv = o2.pasv
    BY <1>3, <1>11, <2>o DEF Op, SameOp
  <2>4. /\ r \in Machine /\ r.d = n.d /\ r.q = n.q
        /\ r.c.ops = <<p, o3>> /\ r.c.pending = n.c.pending /\ r.c.skip = n.c.skip
        /\ r.c.timer = n.c.timer /\ r.c.idle = n.c.idle
        /\ Kept(n.c, r.c)
    <3>1. n \in Machine /\ n.c.ops = <<p, o2>> /\ ~p.resolving
      BY <1>3, <2>1
    <3> QED
      BY <1>r, <2>o, <3>1, ResolvedTop
  <2>5. x.cmd = SentBy(o3) /\ x.tid = o.tid /\ x.binary = o.binary /\ x.offset = o.offset
    BY <1>11, <2>2, <2>3 DEF SentBy, SameOp
  <2>6. data.block = 1 /\ data.link \in {"idle", "listening", "reset"} /\ Parent(p, {"wait", "waittest"})
    BY <1>h, <1>6 DEF RawReady, DataUnsent
  <2>7. Holds(r, srv, ends)
    <3>1. /\ r.c.conn = "up" /\ r.c.pending = 1 /\ r.c.skip = 0 /\ r.c.timer /\ r.c.lastType = Here.c.lastType
          /\ r.c.sentRest = Here.c.sentRest /\ r.c.tids = Here.c.tids /\ r.c.count = Here.c.count
          /\ Only(r.q, x) /\ r.c.ops = <<p, o3>>
      BY <1>h, <1>4, <2>1, <2>2, <2>4 DEF Kept
    <3>2. /\ r.d.tid = Here.d.tid /\ r.d.reason = Here.d.reason /\ r.d.early = Here.d.early /\ r.d.events = Here.d.events
          /\ r.d.block = 1 /\ r.d.link \in {"idle", "listening", "reset"}
      BY <1>h, <2>1, <2>4, <2>6
    <3> QED
      BY <1>h, <1>3, <1>6, <2>3, <2>4, <2>5, <2>6, <3>1, <3>2, RawSent
  <2>8. Outcome(Here, r, srv, ends) /\ Here.c.succeeded = ctl.succeeded
    BY <1>h, <2>1, <2>4, <2>7 DEF Outcome, Kept
  <2>9. Becomes(r) /\ srv' = [srv EXCEPT !.cmds = r.q] /\ ends' = ends
    BY <1>7, <1>r DEF OnExternalIPAddress
  <2> QED
    BY <1>h, <2>8, <2>9, OutcomeStep
<1> QED
  BY <1>9, <1>10, <1>11

-----------------------------------------------------------------------------
(* Steps that change little of the control connection: those of the data   *)
(* connection, its end, and the user's answer.                             *)

\* The invariant without the data socket.
Control(c, s) ==
  /\ Stacked(c)
  /\ c.tids + Remaining(c) <= 2 * c.count
  /\ Outstanding(c, s)
  /\ Connected(c)
  /\ Matched(c, s)
  /\ Said(s)
  /\ Believed(c, s)
  /\ Timed(c)

\* It does not speak of the data connection of the server.
LEMMA ControlServer ==
  ASSUME NEW c, NEW s, NEW t, Control(c, s),
         t.cmds = s.cmds, t.replies = s.replies, t.type = s.type, t.offset = s.offset, t.port = s.port,
         t.prelim = s.prelim, t.completed = s.completed
  PROVE  Control(c, t)
<1> USE DEF Control
<1>1. Current(t) = Current(s)
  BY DEF Current
<1>2. Outstanding(c, t)
  BY <1>1 DEF Outstanding, InFlight, Nothing, IsTransfer
<1>3. Matched(c, t)
  BY <1>1 DEF Matched
<1>4. Said(t)
  BY <1>1 DEF Said
<1>5. Believed(c, t)
  BY <1>1 DEF Believed, Known, IsTransfer
<1> QED
  BY <1>2, <1>3, <1>4, <1>5

\* The raw transfer notes the end of the data connection, a question or the
\* answer to it.
Noted(o, o2) ==
  /\ o2.kind = o.kind /\ o2.tid = o.tid /\ o2.binary = o.binary /\ o2.offset = o.offset /\ o2.sent = o.sent
  /\ o2.pasv = o.pasv /\ o2.resolving = o.resolving
  /\ \/ o2.st = o.st
     \/ o.st = "transfer" /\ o2.st = "waittransferpre"
     \/ o.st = "waitfinish" /\ o2.st = "waittransfer"
  /\ o2.asks => o2.sent
\* The control connection stays in order.
LEMMA ControlTop ==
  ASSUME NEW c, NEW s, Control(c, s), NEW p, NEW o, c.ops = <<p, o>>,
         Parent(p, {"wait", "waittest"}), Raw(o, c), NEW o2, Noted(o, o2),
         NEW k, k.ops = <<p, o2>>, k.pending = c.pending, k.skip = c.skip, k.timer = c.timer,
         k.idle = c.idle, k.conn = c.conn, k.lastType = c.lastType, k.sentRest = c.sentRest,
         k.tids = c.tids, k.count = c.count
  PROVE  Control(k, s) /\ TopIn(k) = o2 /\ IsRaw(k)
<1>1. Len(c.ops) = 2 /\ c.ops[1] = p /\ c.ops[2] = o /\ c.ops # <<>> /\ TopIn(c) = o
  BY TopOfTwo
<1>2. Len(k.ops) = 2 /\ k.ops[1] = p /\ k.ops[2] = o2 /\ k.ops # <<>> /\ TopIn(k) = o2
  BY TopOfTwo
<1>3. /\ o.kind = "raw" /\ o2.kind = "raw" /\ o2.tid = o.tid /\ o2.binary = o.binary /\ o2.offset = o.offset
      /\ o2.sent = o.sent /\ o2.pasv = o.pasv /\ o2.resolving = o.resolving /\ o.tid = c.tids /\ o.tid > 0
      /\ o.st \in {"type", "port_pasv", "rest"} \cup Sent
  BY DEF Noted, Raw
<1>4. IsRaw(c) /\ IsRaw(k)
  BY <1>1, <1>2, <1>3 DEF IsRaw
<1>5. Raw(o2, k)
  BY DEF Raw, Noted, Sent
<1>6. Stacked(k)
  BY <1>2, <1>5 DEF Stacked
<1>7. k.tids + Remaining(k) <= 2 * k.count
  <2>1. Remaining(k) = Remaining(c)
    BY <1>1, <1>2 DEF Remaining
  <2> QED
    BY <2>1 DEF Control
<1>8. Outstanding(k, s)
  BY <1>1, <1>2 DEF Control, Outstanding
<1>9. Connected(k)
  BY <1>1, <1>2, <1>3 DEF Control, Connected
<1>10. Matched(k, s)
  <2>1. SentBy(o2) = SentBy(o)
    BY <1>3 DEF SentBy, Noted
  <2> QED
    BY <1>1, <1>2, <1>3, <2>1 DEF Control, Matched, Noted, Parents
<1>11. Believed(k, s)
  BY <1>1, <1>2, <1>3, <1>4 DEF Control, Believed, Known, Noted
<1>12. Timed(k)
  BY <1>1, <1>2, <1>3 DEF Control, Timed
<1> QED
  BY <1>2, <1>4, <1>6, <1>7, <1>8, <1>9, <1>10, <1>11, <1>12 DEF Control

\* The invariant with the data socket.
LEMMA ControlInv ==
  ASSUME NEW c, NEW d, NEW s, NEW e
  PROVE  Inv(c, d, s, e) <=> /\ c \in ControlState /\ d \in Socket /\ s \in ServerState /\ e \in Nat
                             /\ Control(c, s) /\ Data(c, d, s) /\ Ended(c, d, s, e)
BY DEF Inv, Control

\* The user answers whether to go on without resumption of the TLS session.
LEMMA OnReplyStep ==
  ASSUME IInv, NEW allow \in BOOLEAN, OnReply(allow)
  PROVE  IInv' /\ Real
<1>h. /\ Here \in Machine /\ Here.c = ctl /\ Here.d = data /\ Here.q = srv.cmds
      /\ ctl \in ControlState /\ data \in Socket /\ srv \in ServerState /\ ends \in Nat
  BY HereIs
<1>i. Inv(ctl, data, srv, ends) /\ Control(ctl, srv)
  BY ControlInv DEF IInv
<1>t. ctl.ops # <<>> /\ Top = TopIn(ctl) /\ TopIn(ctl).asks
  BY DEF OnReply, HasOp, Top, TopIn, Last
<1>1. IsRaw(ctl)
  BY <1>i, <1>t DEF Inv, Stacked, Parent, Logon, Raw, IsRaw, TopIn
<1>2. PICK p \in Op, o \in Op : /\ ctl.ops = <<p, o>> /\ Parent(p, {"wait", "waittest"}) /\ Raw(o, ctl)
                                /\ TopIn(ctl) = o /\ ctl.ops # <<>> /\ ctl.ops[1] = p
  BY <1>h, <1>i, <1>1, RawStack DEF Inv
<1>3. /\ o.kind = "raw" /\ o.sent /\ o.asks /\ ~o.resolving
  BY <1>2, <1>t DEF Raw, Sent
<1>o. PICK o2 : o2 = [o EXCEPT !.asks = FALSE]
  OBVIOUS
<1>4. o2 \in Op /\ Noted(o, o2) /\ ~o2.asks /\ o2.reason = o.reason /\ o2.st = o.st /\ o2.sent /\ o2.tid = o.tid
  BY <1>3, <1>o DEF Op, Noted
<1>r. PICK r \in {"unknown", "yes", "no"} : r = IF allow THEN "no" ELSE ctl.resumption
  BY <1>h DEF ControlState
<1>l. PICK l : l = [Here EXCEPT !.c = [ctl EXCEPT !.resumption = r]]
  OBVIOUS
<1>5. /\ l \in Machine /\ l.d = data /\ l.q = srv.cmds
      /\ l.c.ops = ctl.ops /\ l.c.pending = ctl.pending /\ l.c.skip = ctl.skip
      /\ l.c.timer = ctl.timer /\ l.c.idle = ctl.idle
      /\ Kept(ctl, l.c)
  <2>1. [ctl EXCEPT !.resumption = r] \in ControlState
    BY <1>h DEF ControlState
  <2>2. l \in Machine /\ l.d = data /\ l.q = srv.cmds /\ l.c = [ctl EXCEPT !.resumption = r]
    BY <1>h, <1>l, <2>1 DEF Machine
  <2> QED
    BY <1>h, <2>2 DEF ControlState, Kept
<1>m. PICK m : m = WithTop(l, o2)
  OBVIOUS
<1>6. /\ m \in Machine /\ m.d = data /\ m.q = srv.cmds
      /\ m.c.ops = <<p, o2>> /\ m.c.pending = ctl.pending /\ m.c.skip = ctl.skip
      /\ m.c.timer = ctl.timer /\ m.c.idle = ctl.idle
      /\ Kept(ctl, m.c)
  <2>1. l.c.ops = <<p, o>>
    BY <1>2, <1>5
  <2>2. /\ m \in Machine /\ m.d = l.d /\ m.q = l.q
        /\ m.c.ops = <<p, o2>> /\ m.c.pending = l.c.pending /\ m.c.skip = l.c.skip
        /\ m.c.timer = l.c.timer /\ m.c.idle = l.c.idle
        /\ Kept(l.c, m.c)
    BY <1>4, <1>5, <1>m, <2>1, WithTopIs
  <2> QED
    BY <1>5, <2>2 DEF Kept
<1>7. m = WithTop([Here EXCEPT !.c.resumption = IF allow THEN "no" ELSE @], [Top EXCEPT !.asks = FALSE])
  <2>1. [Here EXCEPT !.c.resumption = IF allow THEN "no" ELSE @] = l
    BY <1>h, <1>l, <1>r DEF Machine, ControlState
  <2> QED
    BY <1>2, <1>t, <1>m, <1>o, <2>1
<1>8. Handle({IF allow THEN [m EXCEPT !.d = SetActive(@)] ELSE EndAll(m)}) /\ ends' = ends
  BY <1>7, Zenon DEF OnReply
<1>9. CASE ~allow
  <2>1. ctl.conn = "up"
    BY <1>h, <1>i, <1>2, <1>3 DEF Inv, Connected, ControlState
  <2>2. Handle({EndAll(m)})
    BY <1>8, <1>9
  <2> QED
    BY <1>6, <1>8, <2>1, <2>2, EndAllStep
<1>10. CASE allow
  <2>f. PICK f : f = SetActive(data)
    OBVIOUS
  <2>n. PICK n : n = [m EXCEPT !.d = f]
    OBVIOUS
  <2>1. /\ f \in Socket /\ f.tid = data.tid /\ f.link = data.link /\ f.reason = data.reason /\ f.early = data.early
        /\ data.events = "none" => f.events = "none"
        /\ data.reason # "none" => f = data
        /\ data.reason = "none" => f.block = 0 /\ (data.link = "connected" => f.events # "postponed")
    <3>1. CASE data.reason # "none"
      BY <1>h, <2>f, <3>1 DEF SetActive
    <3>2. CASE data.reason = "none"
      <4>1. data.block \in {0, 1}
        BY <1>h, <1>i, <3>2 DEF Inv, Data, Socket, Few
      <4>2. /\ f \in Socket /\ f.tid = data.tid /\ f.link = data.link /\ f.reason = data.reason /\ f.early = data.early
            /\ data.events = "none" => f.events = "none"
            /\ f.block \in {0, 1} /\ (data.reason = "none" => f.block = 0)
            /\ f.events = IF data.reason = "none" /\ data.block = 1 /\ data.link = "connected" /\ data.events = "postponed"
                          THEN "flowing" ELSE data.events
        BY <1>h, <2>f, <4>1, SetActiveIs
      <4>3. data.reason = "none" /\ data.events = "postponed" => data.block > 0
        BY <1>i, <1>1 DEF Inv, Data
      <4> QED
        BY <3>2, <4>1, <4>2, <4>3
    <3> QED
      BY <3>1, <3>2
  <2>2. n \in Machine /\ n.c = m.c /\ n.d = f /\ n.q = srv.cmds
    BY <1>6, <2>1, <2>n DEF Machine
  <2>3. Handle({n})
    <3>1. n = [m EXCEPT !.d = SetActive(@)]
      BY <1>6, <2>f, <2>n
    <3> QED
      BY <1>8, <1>10, <3>1
  <2>4. ctl' = m.c /\ data' = f /\ srv' = srv
    BY <1>h, <2>2, <2>3 DEF Handle, Becomes, ServerState
  <2>k. PICK k : k = m.c
    OBVIOUS
  <2>5. /\ k \in ControlState /\ k.ops = <<p, o2>> /\ k.pending = ctl.pending /\ k.skip = ctl.skip
        /\ k.timer = ctl.timer /\ k.idle = ctl.idle /\ Kept(ctl, k)
    BY <1>6, <2>k DEF Machine
  <2>6. Control(k, srv) /\ TopIn(k) = o2 /\ IsRaw(k)
    BY <1>i, <1>2, <1>4, <2>5, ControlTop DEF Kept
  <2>7. Data(k, f, srv)
    BY <1>i, <1>1, <1>2, <1>3, <1>4, <2>1, <2>6 DEF Inv, Data, Up
  <2>8. Ended(k, f, srv, ends)
    BY <1>i, <1>1, <1>2, <1>4, <2>1, <2>5, <2>6 DEF Inv, Ended, Kept
  <2>9. Inv(k, f, srv, ends)
    BY <1>h, <2>1, <2>5, <2>6, <2>7, <2>8, ControlInv
  <2> QED
    BY <1>8, <2>4, <2>5, <2>9, <2>k DEF IInv, Real, Kept
<1> QED
  BY <1>9, <1>10

\* The end of the data connection: an event is queued.
Ends(d, f, s, t, reason, early) ==
  /\ f = [d EXCEPT !.reason = reason, !.link = IF reason = "ok" THEN d.link ELSE "reset", !.early = early]
  /\ t.cmds = s.cmds /\ t.replies = s.replies /\ t.completed = s.completed /\ (early => t.linked = s.linked)
  /\ t.received = IF reason = "ok" THEN d.tid ELSE s.received
\* So does the rest.
LEMMA DataEnds ==
  ASSUME NEW c, NEW d, NEW s, NEW e, Inv(c, d, s, e), IsRaw(c), d.reason = "none",
         NEW reason \in {"ok", "fail", "tls"}, NEW early \in BOOLEAN, early <=> ~TopIn(c).sent,
         reason = "ok" => TopIn(c).sent, NEW f, NEW t, Ends(d, f, s, t, reason, early)
  PROVE  f \in Socket /\ Data(c, f, t) /\ Ended(c, f, t, e + 1) /\ e + 1 \in Nat
<1>o. PICK o : o = TopIn(c)
  OBVIOUS
<1>1. d \in Socket /\ c \in ControlState /\ e \in Nat /\ d.block <= 1 /\ Ended(c, d, s, e)
  BY DEF Inv, Data
<1>l. PICK link \in {"idle", "listening", "connecting", "connected", "reset"} :
        link = IF reason = "ok" THEN d.link ELSE "reset"
  BY <1>1 DEF Socket
<1>2. /\ f \in Socket /\ f.reason = reason /\ f.link = link /\ f.early = early
      /\ f.tid = d.tid /\ f.block = d.block /\ f.events = d.events
  <2>1. f = [d EXCEPT !.reason = reason, !.link = link, !.early = early]
    BY <1>l DEF Ends
  <2> QED
    BY <1>1, <2>1 DEF Socket
<1>e. /\ t.cmds = s.cmds /\ t.replies = s.replies /\ t.completed = s.completed /\ (early => t.linked = s.linked)
      /\ t.received = (IF reason = "ok" THEN d.tid ELSE s.received)
      /\ (reason # "ok" => link = "reset") /\ (reason = "ok" => link = d.link)
  BY <1>l DEF Ends
<1>3. /\ o.tid = d.tid /\ o.tid > 0 /\ (~o.sent => d.block = 1 /\ d.events = "none" /\ (s.replies # <<>> => ~s.linked))
      /\ (o.asks => d.link \in {"connected", "reset"})
  BY <1>o DEF Inv, Data, Stacked, Raw, Parent, Logon, IsRaw, TopIn, Parents
<1>u. Up(f)
  BY <1>2 DEF Up
<1>4. Data(c, f, t)
  BY <1>1, <1>2, <1>3, <1>e, <1>o, <1>u DEF Data
<1>5. e + 1 <= c.tids
  <2>1. c.tids \in Nat /\ d.tid # 0
    <3>1. c.tids \in Nat
      BY <1>1, FtpAssumption DEF ControlState, Transfers, MaxTransfers
    <3>2. d.tid \in Nat
      BY <1>1, FtpAssumption DEF Socket, Transfers, MaxTransfers
    <3> QED
      BY <1>3, <3>1, <3>2
  <2> QED
    BY <1>1, <2>1 DEF Ended
<1>6. Ended(c, f, t, e + 1)
  <2>1. e + 1 > 0 /\ e + 1 \in Nat
    BY <1>1
  <2>2. \/ t.received = o.tid
        \/ t.received = s.received
    BY <1>3, <1>e
  <2>3. /\ o.st \in {"waittransferpre", "waittransfer"} /\ o.reason = "ok" => s.received = o.tid
        /\ o.st = "waitsocket" => s.completed = o.tid
    BY <1>1, <1>o DEF Ended
  <2>4. f.reason = "ok" => t.received = f.tid
    BY <1>2, <1>e
  <2> QED
    BY <1>2, <1>5, <1>e, <1>o, <2>1, <2>2, <2>3, <2>4 DEF Ended
<1> QED
  BY <1>1, <1>2, <1>4, <1>6

\* The data socket belongs to a raw transfer.
LEMMA SocketIs ==
  ASSUME IInv, data # NoSocket
  PROVE  IsRaw(ctl) /\ Top = TopIn(ctl)
         /\ \E p, o \in Op : /\ ctl.ops = <<p, o>> /\ Parent(p, {"wait", "waittest"}) /\ Raw(o, ctl)
                             /\ TopIn(ctl) = o /\ ctl.ops # <<>> /\ ctl.ops[1] = p
<1>1. IsRaw(ctl)
  BY DEF IInv, Inv, Data
<1>2. Top = TopIn(ctl)
  BY DEF Top, TopIn, Last
<1> QED
  BY <1>1, <1>2, RawStack DEF IInv, Inv

\* Only of a transfer whose command has been sent is the data connection established.
LEMMA EstablishesIs ==
  ASSUME IInv, Establishes
  PROVE  data # NoSocket /\ IsRaw(ctl) /\ TopIn(ctl).sent /\ ~TopIn(ctl).asks /\ data.link \in {"connecting", "listening"}
<1>1. data.link \in {"connecting", "listening"}
  BY DEF Establishes
<1>2. data # NoSocket
  BY <1>1 DEF NoSocket
<1>3. IsRaw(ctl)
  BY <1>2, SocketIs
<1>4. PICK p \in Op, o \in Op : /\ ctl.ops = <<p, o>> /\ Parent(p, {"wait", "waittest"}) /\ Raw(o, ctl)
                                /\ TopIn(ctl) = o /\ ctl.ops # <<>> /\ ctl.ops[1] = p
  BY <1>2, SocketIs
<1>i. Inv(ctl, data, srv, ends)
  BY DEF IInv
<1>5. CASE data.link = "connecting"
  BY <1>i, <1>1, <1>2, <1>3, <1>5 DEF Inv, Data
<1>6. CASE data.link = "listening" /\ srv.cmds # <<>> /\ Head(srv.cmds).cmd = "transfer"
  <2>1. Current(srv).cmd = "transfer"
    BY <1>6 DEF Current
  <2>2. ctl.pending = 1
    BY <1>i, <1>6 DEF Inv, Outstanding, Nothing
  <2>3. ctl.skip = 0
    <3>1. Len(ctl.ops) = 2
      BY <1>4, TopOfTwo
    <3> QED
      BY <1>i, <3>1 DEF Inv, Outstanding
  <2>4. SentBy(o) = "transfer"
    BY <1>i, <1>4, <2>1, <2>2, <2>3 DEF Inv, Matched
  <2>5. o.sent
    BY <1>4, <2>4 DEF SentBy, Raw
  <2> QED
    BY <1>i, <1>1, <1>2, <1>3, <1>4, <2>5 DEF Inv, Data
<1> QED
  BY <1>5, <1>6 DEF Establishes

\* A step that only ends the data connection.
LEMMA DataEndStep ==
  ASSUME IInv, data # NoSocket, data.reason = "none", NEW reason \in {"ok", "fail", "tls"}, DataEnd(reason),
         reason = "ok" => Top.sent, NEW t \in ServerState, srv' = t,
         t.cmds = srv.cmds, t.replies = srv.replies, t.type = srv.type, t.offset = srv.offset, t.port = srv.port,
         t.prelim = srv.prelim, t.completed = srv.completed, ~Top.sent => t.linked = srv.linked,
         t.received = IF reason = "ok" THEN data.tid ELSE srv.received,
         NEW k \in ControlState, ctl' = k, k.ops = ctl.ops, k.pending = ctl.pending, k.skip = ctl.skip,
         k.timer = ctl.timer, k.idle = ctl.idle, Kept(ctl, k)
  PROVE  IInv' /\ Real
<1>h. /\ ctl \in ControlState /\ data \in Socket /\ srv \in ServerState /\ ends \in Nat
  BY HereIs
<1>i. Inv(ctl, data, srv, ends) /\ Control(ctl, srv)
  BY ControlInv DEF IInv
<1>1. IsRaw(ctl) /\ Top = TopIn(ctl)
  BY SocketIs
<1>2. PICK p \in Op, o \in Op : /\ ctl.ops = <<p, o>> /\ Parent(p, {"wait", "waittest"}) /\ Raw(o, ctl)
                                /\ TopIn(ctl) = o /\ ctl.ops # <<>> /\ ctl.ops[1] = p
  BY SocketIs
<1>3. Noted(o, o)
  BY <1>2 DEF Noted, Raw
<1>4. k.ops = <<p, o>>
  BY <1>2
<1>5. Control(k, srv)
  BY <1>i, <1>2, <1>3, <1>4, ControlTop DEF Kept
<1>6. Control(k, t)
  BY <1>5, ControlServer
<1>b. PICK early \in BOOLEAN : early = ~o.sent
  OBVIOUS
<1>f. PICK f : f = [data EXCEPT !.reason = reason, !.link = IF reason = "ok" THEN data.link ELSE "reset", !.early = early]
  OBVIOUS
<1>7. data' = f /\ ends' = ends + 1
  BY <1>h, <1>1, <1>2, <1>b, <1>f DEF DataEnd, Socket
<1>8. f \in Socket /\ Data(ctl, f, t) /\ Ended(ctl, f, t, ends + 1) /\ ends + 1 \in Nat
  <2>1. (early <=> ~TopIn(ctl).sent) /\ (reason = "ok" => TopIn(ctl).sent)
    BY <1>1, <1>2, <1>b
  <2>2. early => t.linked = srv.linked
    BY <1>1, <2>1
  <2>3. Ends(data, f, srv, t, reason, early)
    BY <1>f, <2>2 DEF Ends
  <2> QED
    BY <1>i, <1>1, <2>1, <2>3, DataEnds
<1>9. Data(k, f, t) /\ Ended(k, f, t, ends + 1)
  BY <1>8 DEF Data, Ended, IsRaw, TopIn, Kept
<1>10. Inv(k, f, t, ends + 1)
  BY <1>6, <1>8, <1>9, ControlInv
<1> QED
  BY <1>7, <1>10 DEF IInv, Real, Kept

\* The data connection fails.
LEMMA OnDataConnectFailsStep ==
  ASSUME IInv, OnDataConnectFails
  PROVE  IInv' /\ Real
<1>1. data # NoSocket
  BY EstablishesIs DEF OnDataConnectFails
<1>2. ctl \in ControlState /\ srv \in ServerState
  BY HereIs
<1> QED
  BY <1>1, <1>2, DataEndStep DEF OnDataConnectFails, Kept

\* The listening socket fails.
LEMMA OnAcceptErrorStep ==
  ASSUME IInv, OnAcceptError
  PROVE  IInv' /\ Real
<1>1. data # NoSocket
  BY DEF OnAcceptError, NoSocket
<1>2. ctl \in ControlState /\ srv \in ServerState
  BY HereIs
<1>f. PICK f : f = ctl.faults + 1
  OBVIOUS
<1>3. f \in 0..MaxFaults
  BY <1>2, <1>f, FtpAssumption DEF OnAcceptError, ControlState
<1>k. PICK k : k = [ctl EXCEPT !.faults = f]
  OBVIOUS
<1>4. /\ k \in ControlState /\ k.ops = ctl.ops /\ k.pending = ctl.pending /\ k.skip = ctl.skip
      /\ k.timer = ctl.timer /\ k.idle = ctl.idle /\ Kept(ctl, k)
  BY <1>2, <1>3, <1>k DEF ControlState, Kept
<1>5. ctl' = k /\ srv' = srv /\ data.reason = "none" /\ DataEnd("fail")
  BY <1>f, <1>k DEF OnAcceptError
<1> QED
  BY <1>1, <1>2, <1>4, <1>5, DataEndStep

\* All data has been transferred, or the data connection breaks.
LEMMA OnDataEndStep ==
  ASSUME IInv, NEW reason \in {"ok", "fail"}, OnDataEnd(reason)
  PROVE  IInv' /\ Real
<1>1. data # NoSocket
  BY DEF OnDataEnd, NoSocket
<1>2. ctl \in ControlState /\ srv \in ServerState /\ data \in Socket
  BY HereIs
<1>3. Top.sent
  <2>1. IsRaw(ctl) /\ Top = TopIn(ctl)
    BY <1>1, SocketIs
  <2> QED
    BY <1>1, <2>1 DEF IInv, Inv, Data, OnDataEnd
<1>r. PICK r : r = IF reason = "ok" THEN data.tid ELSE srv.received
  OBVIOUS
<1>4. r \in Transfers
  BY <1>2, <1>r DEF Socket, ServerState
<1>t. PICK t : t = [srv EXCEPT !.received = r]
  OBVIOUS
<1>5. /\ t \in ServerState /\ t.cmds = srv.cmds /\ t.replies = srv.replies /\ t.type = srv.type /\ t.offset = srv.offset
      /\ t.port = srv.port /\ t.prelim = srv.prelim /\ t.completed = srv.completed /\ t.received = r
  BY <1>2, <1>4, <1>t DEF ServerState
<1>6. srv' = t /\ ctl' = ctl /\ data.reason = "none" /\ DataEnd(reason)
  BY <1>r, <1>t DEF OnDataEnd
<1>7. t.received = IF reason = "ok" THEN data.tid ELSE srv.received
  BY <1>5, <1>r
<1> QED
  BY <1>1, <1>2, <1>3, <1>5, <1>6, <1>7, DataEndStep DEF Kept

\* The first event of the data connection is handled or postponed.
LEMMA OnDataEventStep ==
  ASSUME IInv, OnDataEvent
  PROVE  IInv' /\ Real
<1>h. ctl \in ControlState /\ data \in Socket /\ srv \in ServerState /\ ends \in Nat
  BY HereIs
<1>i. Inv(ctl, data, srv, ends) /\ Control(ctl, srv)
  BY ControlInv DEF IInv
<1>e. PICK ev \in {"postponed", "flowing"} : ev = IF data.block > 0 THEN "postponed" ELSE "flowing"
  OBVIOUS
<1>f. PICK f : f = [data EXCEPT !.events = ev]
  OBVIOUS
<1>1. /\ f \in Socket /\ f.tid = data.tid /\ f.link = "connected" /\ f.block = data.block /\ f.reason = "none"
      /\ f.early = data.early /\ f.events = ev
  BY <1>h, <1>f DEF Socket, OnDataEvent
<1>2. data' = f /\ UNCHANGED <<ctl, srv, ends>>
  BY <1>e, <1>f DEF OnDataEvent
<1>3. IsRaw(ctl) /\ TopIn(ctl).sent
  <2>1. data # NoSocket
    BY DEF OnDataEvent, NoSocket
  <2>2. IsRaw(ctl)
    BY <2>1, SocketIs
  <2> QED
    BY <1>i, <2>2 DEF Inv, Data, OnDataEvent
<1>4. Data(ctl, f, srv)
  <2>1. ev = "postponed" => data.block > 0
    BY <1>e
  <2>2. data.reason = "none" /\ data.link = "connected"
    BY DEF OnDataEvent
  <2>3. Up(f)
    BY <1>1 DEF Up
  <2> QED
    BY <1>i, <1>1, <1>3, <2>1, <2>2, <2>3 DEF Inv, Data
<1>5. Ended(ctl, f, srv, ends)
  BY <1>i, <1>1 DEF Inv, Ended, OnDataEvent
<1>6. Inv(ctl, f, srv, ends)
  BY <1>h, <1>i, <1>1, <1>4, <1>5, ControlInv
<1> QED
  BY <1>2, <1>6 DEF IInv, Real

\* The data connection is there, and with TLS its session is resumed or not.
LEMMA OnDataConnectStep ==
  ASSUME IInv, OnDataConnect
  PROVE  IInv' /\ Real
<1>h. ctl \in ControlState /\ data \in Socket /\ srv \in ServerState /\ ends \in Nat
  BY HereIs
<1>i. Inv(ctl, data, srv, ends) /\ Control(ctl, srv)
  BY ControlInv DEF IInv
<1>1. data # NoSocket /\ IsRaw(ctl) /\ TopIn(ctl).sent /\ ~TopIn(ctl).asks /\ data.link \in {"connecting", "listening"}
  BY EstablishesIs DEF OnDataConnect
<1>2. Top = TopIn(ctl)
  BY <1>1, SocketIs
<1>3. PICK p \in Op, o \in Op : /\ ctl.ops = <<p, o>> /\ Parent(p, {"wait", "waittest"}) /\ Raw(o, ctl)
                                /\ TopIn(ctl) = o /\ ctl.ops # <<>> /\ ctl.ops[1] = p
  BY <1>1, SocketIs
<1>t. PICK t : t = [srv EXCEPT !.linked = TRUE]
  OBVIOUS
<1>4. /\ t \in ServerState /\ t.cmds = srv.cmds /\ t.replies = srv.replies /\ t.type = srv.type /\ t.offset = srv.offset
      /\ t.port = srv.port /\ t.prelim = srv.prelim /\ t.completed = srv.completed /\ t.received = srv.received
  BY <1>h, <1>t DEF ServerState
<1>5. srv' = t
  BY <1>t DEF OnDataConnect
<1>6. data.reason = "none" => data.block = 0
  BY <1>h, <1>i, <1>1 DEF Inv, Data, Socket, Few
<1>7. data.block <= 1 /\ data.block \in Few
  BY <1>h, <1>i, <1>1 DEF Inv, Data, Socket
\* What every outcome but the last one leads to.
<1>8. ASSUME NEW k \in ControlState, NEW o2, k.ops = <<p, o2>>, Noted(o, o2), o2.reason = o.reason, o2.st = o.st,
             k.pending = ctl.pending, k.skip = ctl.skip,
             k.timer = ctl.timer, k.idle = ctl.idle, Kept(ctl, k), ctl' = k,
             NEW f \in Socket, f.link = "connected", f.tid = data.tid, f.events = data.events, f.reason = data.reason,
             f.early = data.early, f.reason = "none" => f.block <= 1 /\ (f.block > 0 => o2.asks),
             f.reason = "none" /\ f.events = "postponed" => f.block > 0,
             data' = f, ends' = ends
      PROVE  IInv' /\ Real
  <2>1. Control(k, srv) /\ TopIn(k) = o2 /\ IsRaw(k)
    BY <1>i, <1>3, <1>8, ControlTop DEF Kept
  <2>2. Control(k, t)
    BY <1>4, <2>1, ControlServer
  <2>3. Up(f)
    BY <1>8 DEF Up
  <2>4. o2.sent /\ o2.tid = o.tid
    BY <1>1, <1>3, <1>8 DEF Noted
  <2>5. Data(k, f, t)
    BY <1>i, <1>1, <1>3, <1>8, <2>1, <2>3, <2>4 DEF Inv, Data
  <2>6. Ended(k, f, t, ends)
    BY <1>i, <1>1, <1>3, <1>4, <1>8, <2>1, <2>4 DEF Inv, Ended, Kept
  <2>7. Inv(k, f, t, ends)
    BY <1>h, <1>4, <1>8, <2>2, <2>5, <2>6, ControlInv
  <2> QED
    BY <1>5, <1>8, <2>7 DEF IInv, Real, Kept
<1>n. Noted(o, o)
  BY <1>3 DEF Noted, Raw
<1>u. PICK up : up = [data EXCEPT !.link = "connected"]
  OBVIOUS
<1>9. /\ up \in Socket /\ up.link = "connected" /\ up.tid = data.tid /\ up.events = data.events
      /\ up.reason = data.reason /\ up.early = data.early /\ up.block = data.block
  BY <1>h, <1>u DEF Socket
<1>p. data.reason = "none" => data.events # "postponed"
  BY <1>i, <1>1, <1>6 DEF Inv, Data
<1>10. CASE data' = up /\ UNCHANGED <<ctl, ends>>
  <2>1. up.reason = "none" => up.block <= 1 /\ ~(up.block > 0) /\ up.events # "postponed"
    BY <1>6, <1>9, <1>p
  <2>2. ctl' = ctl /\ ends' = ends
    BY <1>10
  <2> QED
    BY <1>h, <1>3, <1>8, <1>9, <1>10, <1>n, <2>1, <2>2 DEF Kept
<1>11. CASE data' = up /\ ctl' = [ctl EXCEPT !.resumption = "yes"] /\ ends' = ends
  <2>k. PICK k : k = [ctl EXCEPT !.resumption = "yes"]
    OBVIOUS
  <2>1. /\ k \in ControlState /\ k.ops = <<p, o>> /\ k.pending = ctl.pending /\ k.skip = ctl.skip
        /\ k.timer = ctl.timer /\ k.idle = ctl.idle /\ Kept(ctl, k)
    BY <1>h, <1>3, <2>k DEF ControlState, Kept
  <2>2. up.reason = "none" => up.block <= 1 /\ ~(up.block > 0) /\ up.events # "postponed"
    BY <1>6, <1>9, <1>p
  <2>3. ctl' = k
    BY <1>11, <2>k
  <2> QED
    BY <1>8, <1>9, <1>11, <1>n, <2>1, <2>2, <2>3
<1>12. CASE /\ data' = [up EXCEPT !.block = @ + 1]
            /\ ctl' = [ctl EXCEPT !.ops[Len(ctl.ops)].asks = TRUE]
            /\ ends' = ends
  <2>b. PICK b : b = data.block + 1
    OBVIOUS
  <2>1. b \in Few /\ (data.reason = "none" => b = 1) /\ b \in Nat
    BY <1>6, <1>7, <2>b DEF Few
  <2>f. PICK f : f = [up EXCEPT !.block = b]
    OBVIOUS
  <2>2. /\ f \in Socket /\ f.link = "connected" /\ f.tid = data.tid /\ f.events = data.events
        /\ f.reason = data.reason /\ f.early = data.early /\ f.block = b
    BY <1>9, <2>1, <2>f DEF Socket
  <2>o. PICK o2 : o2 = [o EXCEPT !.asks = TRUE]
    OBVIOUS
  <2>3. o2 \in Op /\ Noted(o, o2) /\ o2.asks /\ o2.reason = o.reason /\ o2.st = o.st
    BY <1>1, <1>3, <2>o, ZenonT(60) DEF Op, Noted
  <2>p. PICK ops : ops = <<p, o2>>
    OBVIOUS
  <2>4. ops \in Seq(Op)
    BY <2>3, <2>p
  <2>5. [ctl.ops EXCEPT ![Len(ctl.ops)].asks = TRUE] = ops
    <3>1. Len(ctl.ops) = 2 /\ ctl.ops[2] = o
      BY <1>3, TopOfTwo
    <3>2. [ctl.ops EXCEPT ![Len(ctl.ops)].asks = TRUE] = [ctl.ops EXCEPT ![2] = o2]
      BY <1>h, <2>o, <3>1 DEF ControlState
    <3>3. [<<p, o>> EXCEPT ![2] = o2] = <<p, o2>>
      BY Stacks
    <3> QED
      BY <1>3, <2>p, <3>2, <3>3, Zenon
  <2>k. PICK k : k = [ctl EXCEPT !.ops = ops]
    OBVIOUS
  <2>6. /\ k \in ControlState /\ k.ops = ops /\ k.pending = ctl.pending /\ k.skip = ctl.skip
        /\ k.timer = ctl.timer /\ k.idle = ctl.idle /\ Kept(ctl, k)
    BY <1>h, <2>4, <2>k DEF ControlState, Kept
  <2>7. ctl' = k
    <3>1. ctl' = [ctl EXCEPT !.ops = [ctl.ops EXCEPT ![Len(ctl.ops)].asks = TRUE]]
      BY <1>12, Zenon
    <3> QED
      BY <2>5, <2>k, <3>1, Zenon
  <2>8. data' = f
    BY <1>9, <1>12, <2>b, <2>f
  <2>9. f.reason = "none" => f.block <= 1 /\ f.block > 0
    BY <2>1, <2>2
  <2>10. k.ops = <<p, o2>>
    BY <2>6, <2>p
  <2> QED
    BY <1>8, <1>12, <2>2, <2>3, <2>6, <2>7, <2>8, <2>9, <2>10
<1>13. CASE DataEnd("tls") /\ UNCHANGED ctl
  <2>1. CASE data.reason = "none"
    BY <1>h, <1>1, <1>2, <1>4, <1>5, <1>13, <2>1, DataEndStep DEF Kept
  <2>2. CASE data.reason # "none"
    <3>1. data' = data /\ ends' = ends /\ ctl' = ctl
      BY <1>13, <2>2 DEF DataEnd
    <3>2. Control(ctl, t)
      BY <1>i, <1>4, ControlServer
    <3>3. Up(data)
      BY <2>2 DEF Up
    <3>4. Data(ctl, data, t)
      BY <1>i, <1>1, <3>3 DEF Inv, Data
    <3>5. Ended(ctl, data, t, ends)
      BY <1>i, <1>4 DEF Inv, Ended
    <3>6. Inv(ctl, data, t, ends)
      BY <1>h, <1>4, <3>2, <3>4, <3>5, ControlInv
    <3> QED
      BY <1>5, <3>1, <3>6 DEF IInv, Real
  <2> QED
    BY <2>1, <2>2
<1> QED
  BY <1>10, <1>11, <1>12, <1>13, <1>u DEF OnDataConnect

\* An event that nobody needs.
LEMMA FewerEnds ==
  ASSUME NEW c, NEW d, NEW s, NEW e, Inv(c, d, s, e), e > 0, ~IsRaw(c) \/ d.reason = "none"
  PROVE  Inv(c, d, s, e - 1)
<1>1. e \in Nat /\ e - 1 \in Nat /\ e - 1 <= e
  BY DEF Inv
<1>2. c.tids \in Nat
  BY FtpAssumption DEF Inv, ControlState, Transfers, MaxTransfers
<1>3. e - 1 + (IF d.tid # 0 /\ d.reason = "none" THEN 1 ELSE 0) <= c.tids
  BY <1>1, <1>2 DEF Inv, Ended
<1>4. Ended(c, d, s, e - 1)
  BY <1>3 DEF Inv, Ended
<1> QED
  BY <1>1, <1>4 DEF Inv

\* The raw transfer notes the end of the data connection.
LEMMA EndNoted ==
  ASSUME IInv, ends > 0, NEW p \in Op, NEW o \in Op, ctl.ops = <<p, o>>, Parent(p, {"wait", "waittest"}), Raw(o, ctl),
         NEW o2 \in Op, Noted(o, o2), o2.asks = o.asks, o2.st \notin {"transfer", "waitfinish", "waitsocket"},
         o2.reason = "ok" => data.reason = "ok",
         Becomes(WithTop(Here, o2)), srv' = [srv EXCEPT !.cmds = WithTop(Here, o2).q], ends' = ends - 1
  PROVE  IInv' /\ Real
<1>h. /\ Here \in Machine /\ Here.c = ctl /\ Here.d = data /\ Here.q = srv.cmds
      /\ ctl \in ControlState /\ data \in Socket /\ srv \in ServerState /\ ends \in Nat
  BY HereIs
<1>i. Inv(ctl, data, srv, ends) /\ Control(ctl, srv)
  BY ControlInv DEF IInv
<1>n. PICK n : n = WithTop(Here, o2)
  OBVIOUS
<1>1. /\ n \in Machine /\ n.d = data /\ n.q = srv.cmds
      /\ n.c.ops = <<p, o2>> /\ n.c.pending = ctl.pending /\ n.c.skip = ctl.skip
      /\ n.c.timer = ctl.timer /\ n.c.idle = ctl.idle
      /\ Kept(ctl, n.c)
  <2>1. Here.c.ops = <<p, o>>
    BY <1>h
  <2> QED
    BY <1>h, <1>n, <2>1, WithTopIs
<1>k. PICK k : k = n.c
  OBVIOUS
<1>2. /\ k \in ControlState /\ k.ops = <<p, o2>> /\ k.pending = ctl.pending /\ k.skip = ctl.skip
      /\ k.timer = ctl.timer /\ k.idle = ctl.idle /\ Kept(ctl, k)
  BY <1>1, <1>k DEF Machine
<1>3. ctl' = k /\ data' = data /\ srv' = srv
  BY <1>h, <1>1, <1>k, <1>n DEF Becomes, ServerState
<1>4. Control(k, srv) /\ TopIn(k) = o2 /\ IsRaw(k)
  BY <1>i, <1>2, ControlTop DEF Kept
<1>5. IsRaw(ctl) /\ TopIn(ctl) = o
  BY TopOfTwo DEF IsRaw, Raw
<1>6. o2.sent = o.sent /\ o2.tid = o.tid
  BY DEF Noted
<1>7. Data(k, data, srv)
  BY <1>i, <1>4, <1>5, <1>6 DEF Inv, Data
<1>8. data.reason = "ok" => srv.received = o.tid
  BY <1>i, <1>5 DEF Inv, Data, Ended
<1>9. ends - 1 \in Nat /\ ends - 1 <= ends /\ ctl.tids \in Nat
  BY <1>h, FtpAssumption DEF ControlState, Transfers, MaxTransfers
<1>10. ends - 1 + (IF data.tid # 0 /\ data.reason = "none" THEN 1 ELSE 0) <= k.tids
  BY <1>h, <1>i, <1>2, <1>9 DEF Inv, Ended, Kept
<1>11. Ended(k, data, srv, ends - 1)
  BY <1>i, <1>4, <1>6, <1>8, <1>10 DEF Inv, Ended
<1>12. Inv(k, data, srv, ends - 1)
  BY <1>h, <1>2, <1>4, <1>7, <1>9, <1>11, ControlInv
<1> QED
  BY <1>2, <1>3, <1>12 DEF IInv, Real, Kept

\* The end of the data connection is handled.
LEMMA OnTransferEndEventStep ==
  ASSUME IInv, OnTransferEndEvent
  PROVE  IInv' /\ Real
<1>h. /\ Here \in Machine /\ Here.c = ctl /\ Here.d = data /\ Here.q = srv.cmds
      /\ ctl \in ControlState /\ data \in Socket /\ srv \in ServerState /\ ends \in Nat
  BY HereIs
<1>i. Inv(ctl, data, srv, ends)
  BY DEF IInv
<1>e. ends > 0 /\ ends' = ends - 1
  BY DEF OnTransferEndEvent
<1>t. Top = TopIn(ctl)
  BY DEF Top, TopIn, Last
<1>1. CASE UNCHANGED <<ctl, data, srv>> /\ (~HasOp \/ data.tid = 0 \/ Top.kind # "raw" \/ data.reason = "none")
  <2>1. ~IsRaw(ctl) \/ data.reason = "none"
    <3>1. ASSUME IsRaw(ctl), data.tid = 0 PROVE FALSE
      <4>1. PICK p \in Op, o \in Op : /\ ctl.ops = <<p, o>> /\ Parent(p, {"wait", "waittest"}) /\ Raw(o, ctl)
                                      /\ TopIn(ctl) = o /\ ctl.ops # <<>> /\ ctl.ops[1] = p
        BY <1>h, <1>i, <3>1, RawStack DEF Inv
      <4> QED
        BY <1>i, <3>1, <4>1 DEF Inv, Data, Raw
    <3> QED
      BY <1>1, <1>t, <3>1 DEF IsRaw, HasOp
  <2>2. Inv(ctl, data, srv, ends - 1)
    BY <1>i, <1>e, <2>1, FewerEnds
  <2> QED
    BY <1>1, <1>e, <2>2 DEF IInv, Real
<1>2. CASE ctl' = Closed(ctl) /\ DoClose
  <2>k. PICK k : k = Closed(ctl)
    OBVIOUS
  <2>1. /\ k \in ControlState /\ k.ops = <<>> /\ k.conn = "closed" /\ k.pending = 0 /\ k.skip = 0 /\ ~k.idle
        /\ k.tids = ctl.tids /\ k.count = ctl.count /\ k.succeeded = ctl.succeeded
    BY <1>h, <2>k, Numbers, EmptySeq DEF Closed, ControlState
  <2>2. Inv(k, NoSocket, Fresh(srv), ends)
    BY <1>i, <2>1, ClosedInv
  <2>3. ~IsRaw(k)
    BY <2>1 DEF IsRaw
  <2>4. Inv(k, NoSocket, Fresh(srv), ends - 1)
    BY <1>e, <2>2, <2>3, FewerEnds
  <2> QED
    BY <1>2, <1>e, <2>1, <2>4, <2>k DEF IInv, Real, DoClose
<1>3. CASE HasOp /\ data.tid # 0 /\ Top.kind = "raw" /\ data.reason \notin {"none", "tls"} /\ Handle(TransferEnd(Here))
  <2>1. IsRaw(ctl) /\ data.reason \in {"ok", "fail"}
    BY <1>h, <1>3, <1>t DEF IsRaw, HasOp, Socket
  <2>2. PICK p \in Op, o \in Op : /\ ctl.ops = <<p, o>> /\ Parent(p, {"wait", "waittest"}) /\ Raw(o, ctl)
                                  /\ TopIn(ctl) = o /\ ctl.ops # <<>> /\ ctl.ops[1] = p
    BY <1>h, <1>i, <2>1, RawStack DEF Inv
  <2>3. Here.c.ops = <<p, o>> /\ TopOf(Here) = o
    <3>1. Here.c.ops = <<p, o>>
      BY <1>h, <2>2
    <3> QED
      BY <3>1, TopOfIs
  <2>f. PICK op : op = Failure(o, IF data.reason = "ok" THEN "ok" ELSE "fail")
    OBVIOUS
  <2>4. /\ op \in Op /\ Noted(o, op) /\ op.st = o.st /\ op.asks = o.asks /\ op.tid = o.tid
        /\ op.reason = "ok" => data.reason = "ok"
    BY <2>1, <2>2, <2>f DEF Failure, Op, Noted, Raw
  <2>5. PICK n \in TransferEnd(Here) : Becomes(n) /\ srv' = [srv EXCEPT !.cmds = n.q]
    BY <1>3 DEF Handle
  <2>6. CASE o.st \in {"transfer", "waitfinish"}
    <3>s. PICK st : st = IF o.st = "transfer" THEN "waittransferpre" ELSE "waittransfer"
      OBVIOUS
    <3>o. PICK o2 : o2 = [op EXCEPT !.st = st]
      OBVIOUS
    <3>1. /\ o2 \in Op /\ Noted(o, o2) /\ o2.asks = o.asks /\ o2.st = st
          /\ o2.reason = "ok" => data.reason = "ok"
      BY <2>4, <2>6, <3>s, <3>o DEF Op, Noted
    <3>2. n = WithTop(Here, o2)
      BY <1>h, <2>3, <2>4, <2>5, <2>6, <2>f, <3>s, <3>o DEF TransferEnd
    <3>3. o2.st \notin {"transfer", "waitfinish", "waitsocket"}
      BY <3>1, <3>s
    <3> QED
      BY <1>e, <2>2, <2>5, <3>1, <3>2, <3>3, EndNoted
  <2>7. CASE o.st \notin {"transfer", "waitfinish", "waitsocket"}
    <3>1. n = WithTop(Here, op)
      BY <1>h, <2>3, <2>4, <2>5, <2>7, <2>f DEF TransferEnd
    <3> QED
      BY <1>e, <2>2, <2>4, <2>5, <2>7, <3>1, EndNoted
  <2>8. CASE o.st = "waitsocket"
    <3>1. /\ ctl.pending = 0 /\ ctl.skip = 0 /\ ctl.conn = "up"
          /\ srv.cmds = <<>> /\ srv.replies = <<>> /\ ~srv.prelim
      <4>1. ctl.skip = 0
        <5>1. Len(ctl.ops) = 2
          BY <2>2, TopOfTwo
        <5> QED
          BY <1>i, <5>1 DEF Inv, Outstanding
      <4>2. ctl.pending = 0 /\ Nothing(srv)
        BY <1>i, <2>2, <2>8, <4>1 DEF Inv, Outstanding, Matched
      <4>3. ctl.conn = "up"
        BY <1>h, <1>i, <2>2, <2>8 DEF Inv, Connected, ControlState, Raw
      <4> QED
        BY <1>i, <4>1, <4>2, <4>3 DEF Inv, Outstanding, Nothing
    <3>e. PICK e : e = ends - 1
      OBVIOUS
    <3>2. e \in Nat /\ e <= ends /\ ctl.tids \in Nat
      BY <1>h, <1>e, <3>e, FtpAssumption DEF ControlState, Transfers, MaxTransfers
    <3>m. PICK m : m = WithTop(Here, op)
      OBVIOUS
    <3>3. /\ m \in Machine /\ m.d = data /\ m.q = srv.cmds
          /\ m.c.ops = <<p, op>> /\ m.c.pending = ctl.pending /\ m.c.skip = ctl.skip
          /\ m.c.timer = ctl.timer /\ m.c.idle = ctl.idle
          /\ Kept(ctl, m.c)
      BY <1>h, <2>3, <2>4, <3>m, WithTopIs
    <3>4. Remaining(m.c) = Remaining(ctl)
      <4>1. m.c.ops[1] = p /\ m.c.ops # <<>>
        BY <3>3, TopOfTwo
      <4> QED
        BY <2>2, <4>1 DEF Remaining
    <3>5. Calm(m, srv, e)
      <4>1. e + (IF data.tid # 0 /\ data.reason = "none" THEN 1 ELSE 0) <= ctl.tids
        BY <1>h, <1>i, <2>1, <3>2 DEF Inv, Ended
      <4> QED
        BY <1>i, <3>1, <3>3, <3>4, <4>1 DEF Inv, Calm, Believed, Known, Ended, Kept
    <3>6. Resting(m, srv, e, p, op)
      BY <2>2, <2>4, <3>3, <3>5 DEF Resting
    <3>7. (data.reason = "ok" /\ n \in RawOK(m)) \/ n \in RawFailed(m)
      BY <1>h, <2>3, <2>4, <2>5, <2>8, <2>f, <3>m DEF TransferEnd
    <3>8. data.reason = "ok" => srv.completed = o.tid /\ srv.received = o.tid
      BY <1>i, <2>1, <2>2, <2>8 DEF Inv, Data, Ended
    <3>9. n \in RawOK(m) => n \in Machine /\ Holds(n, srv, e) /\ n.c.succeeded = op.tid
      BY <1>h, <3>2, <3>3, <3>6, RawOKFine
    <3>10. n \in RawFailed(m) => Fine(m, n, srv, e)
      BY <1>h, <3>2, <3>3, <3>6, RawFailedFine
    <3>11. Outcome(m, n, srv, e)
      BY <2>4, <3>7, <3>8, <3>9, <3>10 DEF Outcome, Fine
    <3>12. m.c.succeeded = ctl.succeeded /\ ends' = e
      BY <1>e, <3>3, <3>e DEF Kept
    <3> QED
      BY <1>h, <2>5, <3>11, <3>12, OutcomeStep
  <2> QED
    BY <2>6, <2>7, <2>8
<1> QED
  BY <1>1, <1>2, <1>3 DEF OnTransferEndEvent

-----------------------------------------------------------------------------
(* The server.                                                             *)

\* The command the server has is outstanding, and that of the raw transfer
\* on top, if there is one.
LEMMA ServerHas ==
  ASSUME IInv, srv.cmds # <<>>
  PROVE  \E x \in Command :
           /\ srv.cmds = <<x>> /\ Head(srv.cmds) = x /\ Tail(srv.cmds) = <<>> /\ Current(srv) = x /\ ctl.pending = 1
           /\ srv.replies = <<>> \/ (srv.replies = <<<<x, 1>>>> /\ srv.prelim /\ x.cmd = "transfer")
           /\ IsRaw(ctl) =>
                /\ ctl.skip = 0 /\ x.cmd = SentBy(TopIn(ctl)) /\ TopIn(ctl).st # "waitsocket"
                /\ TopIn(ctl).sent <=> x.cmd = "transfer"
                /\ TopIn(ctl).st = "rest" => x.cmd = "rest"
<1>i. Inv(ctl, data, srv, ends) /\ srv \in ServerState /\ ctl \in ControlState
  BY DEF IInv, Inv
<1>x. PICK x : x = Current(srv)
  OBVIOUS
<1>1. ctl.pending = 1 /\ InFlight(srv)
  BY <1>i DEF Inv, Outstanding, Nothing
<1>2. /\ srv.cmds = <<x>>
      /\ srv.replies = <<>> \/ (srv.replies = <<<<x, 1>>>> /\ srv.prelim)
  BY <1>1, <1>x DEF InFlight
<1>3. Head(srv.cmds) = x /\ Tail(srv.cmds) = <<>>
  BY <1>2, Stacks
<1>4. x \in Command
  <2>1. srv.cmds \in Seq(Command)
    BY <1>i DEF ServerState
  <2> QED
    BY <1>3, <2>1
<1>5. srv.prelim => x.cmd = "transfer"
  BY <1>i, <1>x DEF Inv, Outstanding, IsTransfer
<1>6. ASSUME IsRaw(ctl)
      PROVE  /\ ctl.skip = 0 /\ x.cmd = SentBy(TopIn(ctl)) /\ TopIn(ctl).st # "waitsocket"
             /\ TopIn(ctl).sent <=> x.cmd = "transfer"
             /\ TopIn(ctl).st = "rest" => x.cmd = "rest"
  <2>1. PICK p \in Op, o \in Op : /\ ctl.ops = <<p, o>> /\ Parent(p, {"wait", "waittest"}) /\ Raw(o, ctl)
                                  /\ TopIn(ctl) = o /\ ctl.ops # <<>> /\ ctl.ops[1] = p
    BY <1>i, <1>6, RawStack DEF Inv
  <2>2. ctl.skip = 0
    <3>1. Len(ctl.ops) = 2
      BY <2>1, TopOfTwo
    <3> QED
      BY <1>i, <3>1 DEF Inv, Outstanding
  <2>3. x.cmd = SentBy(o) /\ o.st # "waitsocket"
    BY <1>i, <1>1, <1>x, <2>1, <2>2 DEF Inv, Matched
  <2>4. o.sent <=> x.cmd = "transfer"
    BY <2>1, <2>3 DEF SentBy, Raw, Sent
  <2>5. o.st = "rest" => x.cmd = "rest"
    BY <2>1, <2>3 DEF SentBy, Raw
  <2> QED
    BY <2>1, <2>2, <2>3, <2>4, <2>5
<1> QED
  BY <1>1, <1>2, <1>3, <1>4, <1>5, <1>6, <1>x

\* A preliminary reply is sent.
LEMMA PrelimSent ==
  ASSUME IInv, srv.cmds # <<>>, Head(srv.cmds).cmd = "transfer", ~srv.prelim,
         srv' = [srv EXCEPT !.replies = Append(@, <<Head(srv.cmds), 1>>), !.prelim = TRUE],
         UNCHANGED <<ctl, data, ends>>
  PROVE  IInv' /\ Real
<1>h. ctl \in ControlState /\ data \in Socket /\ srv \in ServerState /\ ends \in Nat
  BY HereIs
<1>i. Inv(ctl, data, srv, ends) /\ Control(ctl, srv)
  BY ControlInv DEF IInv
<1>x. PICK x \in Command :
           /\ srv.cmds = <<x>> /\ Head(srv.cmds) = x /\ Tail(srv.cmds) = <<>> /\ Current(srv) = x /\ ctl.pending = 1
           /\ srv.replies = <<>> \/ (srv.replies = <<<<x, 1>>>> /\ srv.prelim /\ x.cmd = "transfer")
           /\ IsRaw(ctl) =>
                /\ ctl.skip = 0 /\ x.cmd = SentBy(TopIn(ctl)) /\ TopIn(ctl).st # "waitsocket"
                /\ TopIn(ctl).sent <=> x.cmd = "transfer"
                /\ TopIn(ctl).st = "rest" => x.cmd = "rest"
  BY ServerHas
<1>y. PICK y : y = <<x, 1>>
  OBVIOUS
<1>r. PICK r : r = <<y>>
  OBVIOUS
<1>1. r \in Seq(Command \X {1, 2, 5}) /\ r # <<>>
  BY <1>y, <1>r
<1>2. srv' = [srv EXCEPT !.replies = r, !.prelim = TRUE]
  <2>1. Append(<<>>, y) = <<y>>
    BY Stacks
  <2>2. srv.replies = <<>>
    BY <1>x
  <2>3. srv' = [srv EXCEPT !.replies = Append(srv.replies, y), !.prelim = TRUE]
    BY <1>x, <1>y
  <2> QED
    BY <1>r, <2>1, <2>2, <2>3, Zenon
<1>t. PICK t : t = [srv EXCEPT !.replies = r, !.prelim = TRUE]
  OBVIOUS
<1>3. /\ t \in ServerState /\ t.cmds = srv.cmds /\ t.replies = r /\ t.prelim /\ t.type = srv.type
      /\ t.offset = srv.offset /\ t.port = srv.port /\ t.linked = srv.linked
      /\ t.completed = srv.completed /\ t.received = srv.received
  BY <1>h, <1>1, <1>t DEF ServerState
<1>4. t.cmds # <<>> /\ Current(t) = x /\ IsTransfer(t) /\ x.cmd = "transfer"
  <2>1. t.cmds = <<x>>
    BY <1>3, <1>x
  <2>2. t.cmds # <<>> /\ Current(t) = x
    BY <2>1, CurrentIs
  <2> QED
    BY <1>x, <2>2 DEF IsTransfer
<1>5. Outstanding(ctl, t)
  <2>1. InFlight(t)
    BY <1>3, <1>4, <1>x, <1>y, <1>r DEF InFlight
  <2> QED
    BY <1>i, <1>4, <1>x, <2>1 DEF Inv, Outstanding
<1>6. Matched(ctl, t)
  BY <1>i, <1>1, <1>3, <1>4, <1>x DEF Inv, Matched
<1>7. Said(t)
  BY <1>4 DEF Said
<1>8. Believed(ctl, t)
  BY <1>i, <1>3, <1>4, <1>x DEF Inv, Believed, Known, IsTransfer
<1>9. Data(ctl, data, t)
  BY <1>i, <1>3, <1>4, <1>x DEF Inv, Data, IsTransfer
<1>10. Ended(ctl, data, t, ends)
  BY <1>i, <1>3 DEF Inv, Ended
<1>11. Inv(ctl, data, t, ends)
  BY <1>i, <1>3, <1>5, <1>6, <1>7, <1>8, <1>9, <1>10 DEF Inv
<1> QED
  BY <1>2, <1>11, <1>t DEF IInv, Real

\* What the server looks like after a final reply to x.
Replied(s, u, x, code) ==
  /\ u \in ServerState /\ u.cmds = <<>> /\ ~u.prelim /\ ~u.linked /\ u.received = s.received
  /\ code \in {2, 5}
  /\ u.replies = Append(s.replies, <<x, code>>)
  /\ u.type = s.type \/ x.cmd \in {"type", "command"} \/ (x.cmd = "keepalive" /\ u.type = x.binary)
  /\ u.offset = s.offset \/ u.offset = 0 \/ (x.cmd = "rest" /\ u.offset = x.offset)
  /\ u.port = s.port \/ x.cmd \in {"port", "pasv"}
  /\ u.completed = s.completed \/ x.cmd = "transfer"
  /\ code = 2 => /\ x.cmd = "type" => u.type = x.binary
                 /\ x.cmd \in {"port", "pasv"} => u.port = x.tid
                 /\ x.cmd = "rest" => u.offset = x.offset
                 /\ x.cmd = "transfer" => u.completed = x.tid /\ s.linked
  /\ x.cmd = "rest" /\ x.offset = 0 => u.offset = 0

\* The final reply to x is on its way.
Answering(s, t, x, code) ==
  t = [s EXCEPT !.replies = Append(s.replies, <<x, code>>), !.cmds = <<>>, !.prelim = FALSE, !.linked = FALSE]

\* What the server has done when it replies with success.
LEMMA ExecutedIs ==
  ASSUME NEW t, NEW x, NEW u, u \in Executed(t, x)
  PROVE  /\ x.cmd = "type" => u = [t EXCEPT !.type = x.binary]
         /\ x.cmd \in {"port", "pasv"} => u = [t EXCEPT !.port = x.tid]
         /\ x.cmd = "rest" => u = [t EXCEPT !.offset = x.offset]
         /\ x.cmd = "transfer" => u = [t EXCEPT !.completed = x.tid, !.offset = 0]
BY DEF Executed

\* Every final reply leads there.
LEMMA RepliedIs ==
  ASSUME NEW s \in ServerState, NEW x \in Command, Tail(s.cmds) = <<>>, NEW code \in {2, 5},
         NEW t, Answering(s, t, x, code), NEW u,
         \/ code = 2 /\ (x.cmd = "transfer" => s.linked) /\ u \in Executed(t, x)
         \/ code = 5 /\ (x.cmd = "rest" /\ x.offset = 0 => s.offset = 0) /\ u \in Rejected(t, x)
  PROVE  Replied(s, u, x, code)
<1>y. PICK y : y = <<x, code>>
  OBVIOUS
<1>r. PICK r : r = Append(s.replies, y)
  OBVIOUS
<1>1. r \in Seq(Command \X {1, 2, 5})
  <2>1. y \in Command \X {1, 2, 5}
    BY <1>y
  <2>2. s.replies \in Seq(Command \X {1, 2, 5})
    BY DEF ServerState
  <2> QED
    BY <1>r, <2>1, <2>2, AppendProperties
<1>2. /\ t \in ServerState /\ t.cmds = <<>> /\ t.replies = r /\ ~t.prelim /\ ~t.linked /\ t.type = s.type
      /\ t.offset = s.offset /\ t.port = s.port /\ t.completed = s.completed /\ t.received = s.received
  <2>1. t = [s EXCEPT !.replies = r, !.cmds = <<>>, !.prelim = FALSE, !.linked = FALSE]
    BY <1>y, <1>r DEF Answering
  <2>2. <<>> \in Seq(Command)
    BY EmptySeq
  <2> QED
    BY <1>1, <2>1, <2>2 DEF ServerState
<1>x. /\ x.tid \in Transfers /\ x.binary \in Types /\ x.offset \in Offsets /\ 0 \in Offsets
  BY DEF Command, Offsets
<1>3. \/ u = t
      \/ x.cmd \in {"type", "keepalive"} /\ u = [t EXCEPT !.type = x.binary]
      \/ x.cmd = "command" /\ \E ty \in Types : u = [t EXCEPT !.type = ty]
      \/ x.cmd \in {"port", "pasv"} /\ u = [t EXCEPT !.port = x.tid]
      \/ x.cmd = "rest" /\ u = [t EXCEPT !.offset = x.offset]
      \/ x.cmd = "transfer" /\ u = [t EXCEPT !.completed = x.tid, !.offset = 0]
      \/ x.cmd = "transfer" /\ u = [t EXCEPT !.offset = 0]
  BY DEF Executed, Rejected
<1>4. code = 2 => /\ x.cmd = "type" => u = [t EXCEPT !.type = x.binary]
                  /\ x.cmd \in {"port", "pasv"} => u = [t EXCEPT !.port = x.tid]
                  /\ x.cmd = "rest" => u = [t EXCEPT !.offset = x.offset]
                  /\ x.cmd = "transfer" => u = [t EXCEPT !.completed = x.tid, !.offset = 0] /\ s.linked
  <2>1. ASSUME code = 2 PROVE u \in Executed(t, x) /\ (x.cmd = "transfer" => s.linked)
    BY <2>1
  <2>2. ASSUME code = 2
        PROVE  /\ x.cmd = "type" => u = [t EXCEPT !.type = x.binary]
               /\ x.cmd \in {"port", "pasv"} => u = [t EXCEPT !.port = x.tid]
               /\ x.cmd = "rest" => u = [t EXCEPT !.offset = x.offset]
               /\ x.cmd = "transfer" => u = [t EXCEPT !.completed = x.tid, !.offset = 0]
    BY <2>1, <2>2, ExecutedIs
  <2> QED
    BY <2>1, <2>2
<1>5. u \in ServerState
  BY <1>2, <1>3, <1>x, ZenonT(60) DEF ServerState
<1>6. /\ u.cmds = <<>> /\ ~u.prelim /\ ~u.linked /\ u.received = s.received /\ u.replies = r
  BY <1>2, <1>3 DEF ServerState
<1>7. /\ u.type = s.type \/ x.cmd \in {"type", "command"} \/ (x.cmd = "keepalive" /\ u.type = x.binary)
      /\ u.offset = s.offset \/ u.offset = 0 \/ (x.cmd = "rest" /\ u.offset = x.offset)
      /\ u.port = s.port \/ x.cmd \in {"port", "pasv"}
      /\ u.completed = s.completed \/ x.cmd = "transfer"
  BY <1>2, <1>3 DEF ServerState
<1>8. code = 2 => /\ x.cmd = "type" => u.type = x.binary
                  /\ x.cmd \in {"port", "pasv"} => u.port = x.tid
                  /\ x.cmd = "rest" => u.offset = x.offset
                  /\ x.cmd = "transfer" => u.completed = x.tid /\ s.linked
  BY <1>2, <1>4 DEF ServerState
<1>9. ASSUME x.cmd = "rest", x.offset = 0 PROVE u.offset = 0
  <2>1. CASE code = 2
    BY <1>8, <1>9, <2>1
  <2>2. CASE code = 5
    <3>1. s.offset = 0 /\ u \in Rejected(t, x)
      BY <1>9, <2>2
    <3>2. u = t
      BY <1>9, <3>1 DEF Rejected
    <3> QED
      BY <1>2, <3>1, <3>2
  <2> QED
    BY <2>1, <2>2
<1> QED
  BY <1>5, <1>6, <1>7, <1>8, <1>9, <1>y, <1>r DEF Replied

\* A reply alone, and one after another.
LEMMA Appended == \A p, o : Append(<<p>>, o) = <<p, o>> /\ Append(<<>>, o) = <<o>>
<1> TAKE p, o
<1> QED
  BY Stacks, ZenonT(60)

\* The replies under way, once the final one has been sent.
LEMMA RepliesIs ==
  ASSUME NEW x, NEW code, NEW r,
         r = Append(<<>>, <<x, code>>) \/ (x.cmd = "transfer" /\ r = Append(<<<<x, 1>>>>, <<x, code>>))
  PROVE  /\ r = <<<<x, code>>>> \/ (x.cmd = "transfer" /\ r = <<<<x, 1>>, <<x, code>>>>)
         /\ r # <<>> /\ r[1][1] = x /\ r[Len(r)][2] = code
<1>y. PICK y : y = <<x, code>>
  OBVIOUS
<1>z. PICK z : z = <<x, 1>>
  OBVIOUS
<1>1. Append(<<>>, y) = <<y>> /\ Append(<<z>>, y) = <<z, y>>
  BY Appended, Zenon
<1>2. r = <<y>> \/ (x.cmd = "transfer" /\ r = <<z, y>>)
  BY <1>1, <1>y, <1>z, Zenon
<1>3. y[1] = x /\ y[2] = code /\ z[1] = x
  BY <1>y, <1>z
<1>4. r # <<>> /\ r[1][1] = x /\ r[Len(r)][2] = code
  BY <1>2, <1>3
<1> QED
  BY <1>2, <1>4, <1>y, <1>z

\* A final reply is sent.
LEMMA FinalSent ==
  ASSUME IInv, srv.cmds # <<>>, NEW x, x = Head(srv.cmds), NEW code, NEW u, Replied(srv, u, x, code),
         srv' = u, UNCHANGED <<ctl, data, ends>>
  PROVE  IInv' /\ Real
<1>h. ctl \in ControlState /\ data \in Socket /\ srv \in ServerState /\ ends \in Nat
  BY HereIs
<1>i. Inv(ctl, data, srv, ends)
  BY DEF IInv
<1>x. PICK z \in Command :
           /\ srv.cmds = <<z>> /\ Head(srv.cmds) = z /\ Tail(srv.cmds) = <<>> /\ Current(srv) = z /\ ctl.pending = 1
           /\ srv.replies = <<>> \/ (srv.replies = <<<<z, 1>>>> /\ srv.prelim /\ z.cmd = "transfer")
           /\ IsRaw(ctl) =>
                /\ ctl.skip = 0 /\ z.cmd = SentBy(TopIn(ctl)) /\ TopIn(ctl).st # "waitsocket"
                /\ TopIn(ctl).sent <=> z.cmd = "transfer"
                /\ TopIn(ctl).st = "rest" => z.cmd = "rest"
  BY ServerHas
<1>z. z = x
  BY <1>x
<1>1. /\ u \in ServerState /\ u.cmds = <<>> /\ ~u.prelim /\ ~u.linked /\ u.received = srv.received /\ code \in {2, 5}
  BY DEF Replied
<1>r. PICK r : r = u.replies
  OBVIOUS
<1>2. /\ r = <<<<x, code>>>> \/ (x.cmd = "transfer" /\ r = <<<<x, 1>>, <<x, code>>>>)
      /\ r # <<>> /\ r[1][1] = x /\ r[Len(r)][2] = code
  <2>1. r = Append(<<>>, <<x, code>>) \/ (x.cmd = "transfer" /\ r = Append(<<<<x, 1>>>>, <<x, code>>))
    BY <1>x, <1>z, <1>r DEF Replied
  <2> QED
    BY <2>1, RepliesIs
<1>3. Current(u) = x /\ u.replies # <<>> /\ u.replies[Len(u.replies)][2] = code
  BY <1>1, <1>2, <1>r DEF Current
<1>4. Outstanding(ctl, u)
  <2>1. InFlight(u)
    BY <1>1, <1>2, <1>3, <1>r DEF InFlight
  <2> QED
    BY <1>i, <1>1, <1>x, <2>1 DEF Inv, Outstanding
<1>5. srv.replies = <<>> => u.replies[1][2] = code
  <2>1. ASSUME srv.replies = <<>> PROVE r = <<<<x, code>>>>
    <3>y. PICK y : y = <<x, code>>
      OBVIOUS
    <3>1. Append(<<>>, y) = <<y>>
      BY Stacks
    <3>2. r = Append(<<>>, y)
      BY <1>r, <2>1, <3>y DEF Replied
    <3> QED
      BY <3>1, <3>2, <3>y
  <2> QED
    BY <1>r, <2>1
<1>6. Matched(ctl, u)
  <2>1. /\ u.cmds = <<>> /\ ~u.prelim /\ Current(u) = Current(srv) /\ code # 1
    BY <1>1, <1>3, <1>x, <1>z
  <2>2. ctl.ops # <<>> /\ ctl.skip = 0 /\ TopIn(ctl).st \in {"waitfinish", "waittransfer"} => srv.replies = <<>>
    BY <1>i, <1>x DEF Inv, Matched
  <2> QED
    BY <1>i, <1>5, <1>x, <2>1, <2>2 DEF Inv, Matched
<1>7. Said(u)
  BY <1>1, <1>3 DEF Said, Replied
<1>8. Known(ctl, u)
  <2>1. ASSUME ctl.conn = "up", ctl.lastType \in Types PROVE u.type = ctl.lastType
    <3>1. srv.type = ctl.lastType /\ x.cmd \notin {"type", "command"} /\ (x.cmd = "keepalive" => x.binary = ctl.lastType)
      BY <1>i, <1>x, <1>z, <2>1 DEF Inv, Believed, Known
    <3> QED
      BY <3>1 DEF Replied
  <2>2. ASSUME ctl.conn = "up", ~ctl.sentRest PROVE u.offset = 0
    <3>1. srv.offset = 0 /\ (x.cmd = "rest" => x.offset = 0)
      BY <1>i, <1>x, <1>z, <2>2 DEF Inv, Believed, Known
    <3> QED
      BY <3>1 DEF Replied
  <2> QED
    BY <1>1, <2>1, <2>2 DEF Known
<1>9. Believed(ctl, u)
  <2>1. IsRaw(ctl) /\ TopIn(ctl).st = "rest" => u.port = TopIn(ctl).tid
    BY <1>i, <1>x, <1>z DEF Inv, Believed, Replied
  <2> QED
    BY <1>i, <1>8, <2>1 DEF Inv, Believed
<1>10. Data(ctl, data, u)
  <2>1. code = 2 /\ x.cmd = "transfer" => srv.linked
    BY DEF Replied
  <2>2. IsRaw(ctl) /\ code = 2 /\ x.cmd = "transfer" => Up(data)
    BY <1>i, <1>x, <1>z, <2>1 DEF Inv, Data, IsTransfer
  <2> QED
    BY <1>i, <1>1, <1>3, <2>2 DEF Inv, Data, IsTransfer
<1>11. Ended(ctl, data, u, ends)
  BY <1>i, <1>1, <1>x DEF Inv, Ended
<1>12. Inv(ctl, data, u, ends)
  BY <1>i, <1>1, <1>4, <1>6, <1>7, <1>9, <1>10, <1>11 DEF Inv
<1> QED
  BY <1>12 DEF IInv, Real

\* The server replies.
LEMMA ServerRepliesStep ==
  ASSUME IInv, NEW code \in {1, 2, 5}, ServerReplies(code)
  PROVE  IInv' /\ Real
<1>h. srv \in ServerState
  BY HereIs
<1>0. srv.cmds # <<>> /\ UNCHANGED <<ctl, data, ends>>
  BY DEF ServerReplies
<1>x. PICK x \in Command :
           /\ srv.cmds = <<x>> /\ Head(srv.cmds) = x /\ Tail(srv.cmds) = <<>> /\ Current(srv) = x /\ ctl.pending = 1
           /\ srv.replies = <<>> \/ (srv.replies = <<<<x, 1>>>> /\ srv.prelim /\ x.cmd = "transfer")
           /\ IsRaw(ctl) =>
                /\ ctl.skip = 0 /\ x.cmd = SentBy(TopIn(ctl)) /\ TopIn(ctl).st # "waitsocket"
                /\ TopIn(ctl).sent <=> x.cmd = "transfer"
                /\ TopIn(ctl).st = "rest" => x.cmd = "rest"
  BY <1>0, ServerHas
<1>z. x = Head(srv.cmds) /\ Tail(srv.cmds) = <<>>
  BY <1>x
<1>s. PICK s : s = [srv EXCEPT !.replies = Append(srv.replies, <<x, code>>)]
  OBVIOUS
<1>t. PICK t : t = [s EXCEPT !.cmds = Tail(s.cmds), !.prelim = FALSE, !.linked = FALSE]
  OBVIOUS
<1>1. \/ code = 1 /\ x.cmd = "transfer" /\ ~srv.prelim /\ srv' = [s EXCEPT !.prelim = TRUE]
      \/ code = 2 /\ (x.cmd = "transfer" => srv.linked) /\ srv' \in Executed(t, x)
      \/ code = 5 /\ (x.cmd = "rest" /\ x.offset = 0 => srv.offset = 0) /\ srv' \in Rejected(t, x)
  BY <1>z, <1>s, <1>t DEF ServerReplies
<1>2. CASE code = 1 /\ x.cmd = "transfer" /\ ~srv.prelim /\ srv' = [s EXCEPT !.prelim = TRUE]
  <2>1. srv' = [srv EXCEPT !.replies = Append(@, <<Head(srv.cmds), 1>>), !.prelim = TRUE]
    BY <1>h, <1>2, <1>s, <1>z DEF ServerState
  <2> QED
    BY <1>0, <1>2, <1>z, <2>1, PrelimSent
<1>3. CASE \/ code = 2 /\ (x.cmd = "transfer" => srv.linked) /\ srv' \in Executed(t, x)
           \/ code = 5 /\ (x.cmd = "rest" /\ x.offset = 0 => srv.offset = 0) /\ srv' \in Rejected(t, x)
  <2>1. Answering(srv, t, x, code)
    BY <1>h, <1>s, <1>t, <1>z DEF ServerState, Answering
  <2>u. PICK u : u = srv'
    OBVIOUS
  <2>2. code \in {2, 5}
    BY <1>3
  <2>3. Replied(srv, u, x, code)
    BY <1>h, <1>3, <1>z, <2>1, <2>2, <2>u, RepliedIs
  <2> QED
    BY <1>0, <1>z, <2>3, <2>u, FinalSent
<1> QED
  BY <1>1, <1>2, <1>3

-----------------------------------------------------------------------------
(* The theorems. *)

\* Nothing happens.
LEMMA StutterStep ==
  ASSUME IInv, UNCHANGED vars
  PROVE  IInv' /\ Real
BY DEF IInv, Real, vars

\* A new connection satisfies the invariant.
LEMMA InitInv ==
  ASSUME Init
  PROVE  IInv
<1>1. ctl \in ControlState
  <2>1. <<>> \in Seq(Op)
    BY EmptySeq
  <2>2. 0 \in 0..MaxOps /\ 0 \in 0..MaxKeepalives /\ 0 \in 0..MaxFaults
    BY FtpAssumption
  <2> QED
    BY <2>1, <2>2, Numbers DEF Init, ControlState
<1>2. data \in Socket
  BY NoSocketIs DEF Init
<1>3. srv \in ServerState
  <2>1. <<>> \in Seq(Command) /\ <<>> \in Seq(Command \X {1, 2, 5})
    BY EmptySeq
  <2> QED
    BY <2>1, Numbers DEF Init, ServerState, Types, Offsets
<1>4. /\ ctl.ops = <<>> /\ ctl.pending = 0 /\ ctl.skip = 0 /\ ctl.conn = "closed" /\ ~ctl.idle
      /\ ctl.tids = 0 /\ ctl.count = 0 /\ ends = 0
      /\ srv.cmds = <<>> /\ srv.replies = <<>> /\ ~srv.prelim
      /\ data = NoSocket /\ data.tid = 0 /\ data.reason = "none" /\ data.link = "idle" /\ data.block = 0
  BY DEF Init, NoSocket
<1>5. ~IsRaw(ctl)
  BY <1>4 DEF IsRaw
<1>6. Stacked(ctl) /\ ctl.tids + Remaining(ctl) <= 2 * ctl.count
  BY <1>4 DEF Stacked, Remaining
<1>7. Outstanding(ctl, srv) /\ Connected(ctl) /\ Matched(ctl, srv) /\ Said(srv) /\ Timed(ctl)
  BY <1>4 DEF Outstanding, Nothing, Connected, Matched, Said, Timed
<1>8. Believed(ctl, srv)
  BY <1>4, <1>5 DEF Believed, Known
<1>9. Data(ctl, data, srv) /\ Ended(ctl, data, srv, ends)
  BY <1>4, <1>5 DEF Data, Ended
<1> QED
  BY <1>1, <1>2, <1>3, <1>4, <1>6, <1>7, <1>8, <1>9 DEF IInv, Inv

\* Every step keeps the invariant, and what it takes for a success is one.
LEMMA Step ==
  ASSUME IInv, [Next]_vars
  PROVE  IInv' /\ Real
<1>1. CASE DataNext
  BY <1>1, OnDataConnectStep, OnDataConnectFailsStep, OnDataEventStep, OnDataEndStep DEF DataNext
<1>2. CASE ControlNext
  BY <1>2, ParseResponseStep, LoginRefusedStep, OnConnectStep, OnExternalIPAddressStep,
     OnTransferEndEventStep, OnReplyStep DEF ControlNext
<1>3. CASE ServerNext
  BY <1>3, ServerRepliesStep DEF ServerNext
<1>4. CASE OnKeepaliveTimer
  BY <1>4, OnKeepaliveTimerStep
<1>5. CASE Cancel
  BY <1>5, CancelStep
<1>6. CASE ConnectionLost
  BY <1>6, ConnectionLostStep
<1>7. CASE OnAcceptError
  BY <1>7, OnAcceptErrorStep
<1>8. CASE \E op \in NewCommands : Execute(op)
  BY <1>8, ExecuteStep
<1>9. CASE UNCHANGED vars
  BY <1>9, StutterStep
<1> QED
  BY <1>1, <1>2, <1>3, <1>4, <1>5, <1>6, <1>7, <1>8, <1>9 DEF Next

\* The inductive invariant holds: at most one command is outstanding, the
\* operation on top of the stack is the one that waits for it, and what the
\* client believes of the server is so (FtpTransfer's handlers, together).
THEOREM Invariance == Spec => []IInv
<1>1. Init => IInv
  BY InitInv
<1>2. IInv /\ [Next]_vars => IInv'
  BY Step
<1> QED
  BY <1>1, <1>2, PTL DEF Spec

\* ctl, data, srv and ends have their types; no more events are queued than
\* there were transfers.
THEOREM TypeCorrect == Spec => []TypeOK
<1>1. IInv => TypeOK
  <2> SUFFICES ASSUME IInv PROVE TypeOK
    OBVIOUS
  <2>1. ctl \in ControlState /\ data \in Socket /\ srv \in ServerState /\ ends \in Nat
    BY HereIs
  <2>2. MaxTransfers \in Nat
    BY FtpAssumption DEF MaxTransfers
  <2>3. ctl.tids \in Nat /\ ctl.tids <= MaxTransfers
    BY <2>1, <2>2 DEF ControlState, Transfers
  <2>4. ends <= ctl.tids
    BY <2>1, <2>3 DEF IInv, Inv, Ended
  <2>5. ends \in Transfers
    BY <2>1, <2>2, <2>3, <2>4 DEF Transfers
  <2> QED
    BY <2>1, <2>5 DEF TypeOK
<1> QED
  BY <1>1, Invariance, PTL

\* A reply that an operation parses is to the command that this operation
\* sent last and waits for (ParseResponse, m_repliesToSkip).
THEOREM RepliesMatch == Spec => []ReplyMatches
<1>1. IInv => ReplyMatches
  <2> SUFFICES ASSUME IInv, srv.replies # <<>>, IsParsed PROVE ReplyMatches
    BY DEF ReplyMatches
  <2>i. Inv(ctl, data, srv, ends)
    BY DEF IInv
  <2>o. PICK o : o = Top
    OBVIOUS
  <2>1. ctl.ops # <<>> /\ ctl.skip = 0 /\ o = TopIn(ctl)
    BY <2>o DEF IsParsed, HasOp, Top, TopIn, Last
  <2>2. ctl.pending = 1 /\ InFlight(srv)
    BY <2>i DEF Inv, Outstanding, Nothing
  <2>x. PICK x : x = Current(srv)
    OBVIOUS
  <2>3. Reply[1] = x
    BY <2>2, <2>x DEF InFlight, Reply
  <2>4. x.cmd = SentBy(o) /\ x.tid = o.tid /\ (o.kind \in Parents => o.st = "command") /\ o.st # "waitsocket"
    BY <2>i, <2>1, <2>2, <2>x DEF Inv, Matched
  <2>5. /\ o.kind = "raw" => o.st \in {"type", "port_pasv", "rest"} \cup Sent
        /\ o.kind = "logon" => o.st \in {"welcome", "login"}
        /\ o.kind \in {"raw", "logon"} \cup Parents
    <3>1. Parent(o, {"start", "command"}) \/ Logon(o) \/ Raw(o, ctl)
      BY <2>i, <2>1, TopIs DEF Inv
    <3>2. o.kind = "logon" => o.st # "connect"
      BY <2>i, <2>1, <2>2 DEF Inv, Connected
    <3> QED
      BY <3>1, <3>2 DEF Parent, Parents, Logon, Raw
  <2>6. o.pasv \in BOOLEAN
    <3>1. o \in Op
      BY <2>i, <2>1, TopIs DEF Inv
    <3> QED
      BY <3>1 DEF Op
  <2>7. o.kind = "raw" => CASE x.cmd = "type" -> o.st = "type"
                            [] x.cmd \in {"port", "pasv"} -> o.st = "port_pasv" /\ o.pasv = (x.cmd = "pasv")
                            [] x.cmd = "rest" -> o.st = "rest"
                            [] OTHER -> o.st \notin {"type", "port_pasv", "rest"}
    BY <2>4, <2>5, <2>6 DEF SentBy, Sent
  <2>8. o.kind # "raw" => x.cmd \in {"welcome", "login", "command", "extra"}
    BY <2>4, <2>5 DEF SentBy, Parents
  <2> QED
    BY <2>3, <2>4, <2>7, <2>8, <2>o DEF ReplyMatches
<1> QED
  BY <1>1, Invariance, PTL

\* The number of final replies among those under way.
Finals(r) == Cardinality({i \in DOMAIN r : r[i][2] # 1})

\* Without a final reply.
LEMMA FinalsNone ==
  ASSUME NEW x, NEW r, r = <<>> \/ r = <<<<x, 1>>>>
  PROVE  Finals(r) = 0
<1>1. {i \in DOMAIN r : r[i][2] # 1} = {}
  OBVIOUS
<1> QED
  BY <1>1, FS_EmptySet DEF Finals

\* With the only one there is.
LEMMA FinalsOne ==
  ASSUME NEW x, NEW code, code # 1, NEW r, r = <<<<x, code>>>> \/ r = <<<<x, 1>>, <<x, code>>>>
  PROVE  Finals(r) = 1
<1>1. {i \in DOMAIN r : r[i][2] # 1} = {1} \/ {i \in DOMAIN r : r[i][2] # 1} = {2}
  <2>1. CASE r = <<<<x, code>>>>
    BY <2>1
  <2>2. CASE r = <<<<x, 1>>, <<x, code>>>>
    BY <2>2
  <2> QED
    BY <2>1, <2>2
<1> QED
  BY <1>1, FS_Singleton DEF Finals

\* m_pendingReplies is exact (SendCommand, ParseResponse, DoClose).
THEOREM PendingCorrect == Spec => []PendingExact
<1>1. IInv => PendingExact
  <2> SUFFICES ASSUME IInv PROVE PendingExact
    OBVIOUS
  <2>i. Outstanding(ctl, srv)
    BY DEF IInv, Inv
  <2>n. PICK n : n = Finals(srv.replies)
    OBVIOUS
  <2>1. CASE ctl.pending = 0 /\ Nothing(srv)
    <3>1. srv.cmds = <<>> /\ srv.replies = <<>>
      BY <2>1 DEF Nothing
    <3>2. n = 0
      BY <2>n, <3>1, FinalsNone
    <3>3. Len(srv.cmds) = 0
      BY <3>1
    <3> QED
      BY <2>1, <2>n, <3>2, <3>3 DEF PendingExact, Finals
  <2>2. CASE ctl.pending = 1 /\ InFlight(srv)
    <3>x. PICK x : x = Current(srv)
      OBVIOUS
    <3>1. CASE srv.cmds = <<x>> /\ (srv.replies = <<>> \/ srv.replies = <<<<x, 1>>>>)
      <4>1. n = 0
        BY <2>n, <3>1, FinalsNone
      <4>2. Len(srv.cmds) = 1
        BY <3>1
      <4> QED
        BY <2>2, <2>n, <4>1, <4>2 DEF PendingExact, Finals
    <3>2. CASE srv.cmds = <<>> /\ \E code \in {2, 5} : srv.replies = <<<<x, code>>>> \/ srv.replies = <<<<x, 1>>, <<x, code>>>>
      <4>x. PICK code \in {2, 5} : srv.replies = <<<<x, code>>>> \/ srv.replies = <<<<x, 1>>, <<x, code>>>>
        BY <3>2
      <4>1. n = 1
        BY <2>n, <4>x, FinalsOne
      <4>2. Len(srv.cmds) = 0
        BY <3>2
      <4> QED
        BY <2>2, <2>n, <4>1, <4>2 DEF PendingExact, Finals
    <3> QED
      BY <2>2, <3>x, <3>1, <3>2 DEF InFlight
  <2> QED
    BY <2>i, <2>1, <2>2 DEF Outstanding
<1> QED
  BY <1>1, Invariance, PTL

\* When a transfer command reaches the server, the server's representation
\* type, restart marker and data port are those of its transfer
\* (m_lastTypeBinary, m_sentRestartOffset).
THEOREM ServerPrepared == Spec => []ServerAgrees
<1>1. IInv => ServerAgrees
  <2> SUFFICES ASSUME IInv, srv.cmds # <<>>, Head(srv.cmds).cmd = "transfer", ~srv.prelim
               PROVE  LET c == Head(srv.cmds)
                      IN c.binary = srv.type /\ c.offset = srv.offset /\ c.tid = srv.port
    BY DEF ServerAgrees
  <2>1. PICK x \in Command : Head(srv.cmds) = x /\ Current(srv) = x
    BY ServerHas
  <2>2. Known(ctl, srv)
    BY DEF IInv, Inv, Believed
  <2> QED
    BY <2>1, <2>2 DEF Known, IsTransfer
<1> QED
  BY <1>1, Invariance, PTL

\* While an operation waits, its timer runs (SendCommand, ResetOperation,
\* CanSendNextCommand).
THEOREM TimersRun == Spec => []TimerRuns
<1>1. IInv => TimerRuns
  <2> SUFFICES ASSUME IInv, HasOp, ~Top.resolving PROVE ctl.timer
    BY DEF TimerRuns
  <2>1. ctl.ops # <<>> /\ Top = TopIn(ctl)
    BY DEF HasOp, Top, TopIn, Last
  <2> QED
    BY <2>1 DEF IInv, Inv, Timed
<1> QED
  BY <1>1, Invariance, PTL

\* Something other than the timeout always brings an operation further,
\* unless its listening socket failed too early.
THEOREM Progresses == Spec => []NeverStuck
<1>1. IInv => NeverStuck
  <2> SUFFICES ASSUME IInv, HasOp, ~data.early PROVE SomethingDue
    BY DEF NeverStuck
  <2>i. Inv(ctl, data, srv, ends) /\ ctl \in ControlState /\ data \in Socket
    BY DEF IInv, Inv
  <2>o. PICK o : o = Top
    OBVIOUS
  <2>1. ctl.ops # <<>> /\ o = TopIn(ctl)
    BY <2>o DEF HasOp, Top, TopIn, Last
  <2>2. CASE ctl.pending = 1
    <3>1. srv.cmds # <<>> \/ srv.replies # <<>>
      BY <2>i, <2>2, SMTT(30) DEF Inv, Outstanding, InFlight
    <3> QED
      BY <3>1 DEF SomethingDue
  <2>3. CASE ctl.pending = 0 /\ ~o.resolving /\ ctl.conn # "connecting"
    <3>1. ctl.skip = 0
      BY <2>i, <2>3 DEF Inv, Outstanding
    <3>2. o.st = "waitsocket"
      BY <2>i, <2>1, <2>3, <3>1 DEF Inv, Matched
    <3>3. IsRaw(ctl) /\ Raw(o, ctl)
      <4>1. Parent(o, {"start", "command"}) \/ Logon(o) \/ (IsRaw(ctl) /\ Raw(o, ctl))
        BY <2>i, <2>1, TopIs DEF Inv
      <4> QED
        BY <3>2, <4>1 DEF Parent, Logon
    <3>4. Up(data) /\ (data.reason = "none" /\ data.block > 0 => o.asks)
          /\ (data.reason = "none" /\ data.events = "postponed" => data.block > 0)
      BY <2>i, <2>1, <3>2, <3>3 DEF Inv, Data, Raw, Sent
    <3>5. data.reason # "none" => ends > 0
      BY <2>i, <2>1, <3>2, <3>3 DEF Inv, Ended
    <3>6. o.asks \/ ends > 0 \/ (data.reason = "none" /\ data.link = "connected" /\ data.events # "postponed")
      BY <3>4, <3>5 DEF Up
    <3> QED
      BY <2>o, <3>6 DEF SomethingDue
  <2>4. CASE o.resolving \/ ctl.conn = "connecting"
    BY <2>4, <2>o DEF SomethingDue
  <2>5. ctl.pending \in {0, 1}
    BY <2>i DEF Inv, Outstanding
  <2> QED
    BY <2>2, <2>3, <2>4, <2>5
<1> QED
  BY <1>1, Invariance, PTL

\* A transfer that is reported as successful had its data connection end well
\* and its command accepted (TransferEnd, rawtransfer's ParseResponse).
THEOREM SuccessesReal == Spec => SuccessIsReal
<1>1. IInv /\ [Next]_vars =>
        [ctl'.succeeded # ctl.succeeded =>
           srv'.completed = ctl'.succeeded /\ srv'.received = ctl'.succeeded]_vars
  BY Step DEF Real
<1> QED
  BY <1>1, Invariance, PTL DEF Spec, SuccessIsReal
=============================================================================
