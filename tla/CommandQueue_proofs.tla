------------------------- MODULE CommandQueue_proofs -------------------------
(***************************************************************************)
(* Proofs about an engine, its control socket and the command queue of a   *)
(* browsing context, for any number of reconnection attempts, requests,    *)
(* lost connections and user actions.                                      *)
(***************************************************************************)
EXTENDS CommandQueue, FiniteSetTheorems, SequenceTheorems, TLAPS

-----------------------------------------------------------------------------
(* The inductive invariant, in terms of an engine e, a socket s and whether *)
(* the main thread is taking notifications.                                 *)

\* The callback may be called only when there is nothing to take and nobody
\* is about to look; otherwise the main thread either looks or will.
Woken(e, draining) ==
  IF e.maySend THEN e.notes = <<>> /\ ~e.wake /\ ~draining ELSE e.wake <=> ~draining

\* Only a connect command waits for the timer, every failed attempt counted in
\* retryCount was made, and one that has a socket has begun another.
Retrying(e, s) ==
  /\ e.retryTimer => /\ e.cmd = "connect"
                     /\ e.retryCount < Attempts
                     /\ e.retryCount <= e.attempts
  /\ e.cmd = "connect" /\ ~e.retryTimer /\ s.conn # "none" => e.retryCount < e.attempts

\* An operation below another does not wait for the user, unless a command was
\* dispatched on top of it.
Asking(s) ==
  /\ \A i \in DOMAIN s.ops :
        i + 1 \in DOMAIN s.ops /\ s.ops[i].req # 0 => s.ops[i + 1].kind = "work"
  /\ s.conn = "none" => s.ops = <<>>

HasCommandEvent(e) == \E i \in DOMAIN e.loop : e.loop[i].ev = "command"
Owned(e, s) ==
  e.cmd # NoCommand => HasCommandEvent(e) \/ e.retryTimer \/ s.ops # <<>>

\* The client answers requests that were made only.
Answering(e) == \A i \in DOMAIN e.loop : e.loop[i].ev = "reply" => e.loop[i].req # 0

EngineInv(e, s, draining) ==
  /\ e \in EngineState
  /\ s \in SocketState
  /\ Woken(e, draining)
  /\ Retrying(e, s)
  /\ Asking(s)
  /\ Owned(e, s)
  /\ Answering(e)

IInv ==
  /\ EngineInv(eng, sock, ui.draining)
  /\ list \in Seq(CommandInfo)
  /\ ui \in MainState
  /\ actions \in 0..MaxActions

-----------------------------------------------------------------------------
(* Notifications and the end of a command.                                  *)

\* The attempts a connect command is due are at least one, and at least what
\* the option says.
LEMMA AttemptsFacts ==
  /\ ReconnectCount \in Nat /\ MaxRequests \in Nat /\ MaxDrops \in Nat
  /\ Attempts \in Nat /\ Attempts >= 1
  /\ ReconnectCount <= Attempts
  /\ \A n \in 0..Attempts : n >= 1 /\ n >= ReconnectCount => n = Attempts
<1>1. ReconnectCount \in Nat /\ MaxRequests \in Nat /\ MaxDrops \in Nat BY EngineAssumption
<1> QED BY <1>1 DEF Attempts

\* A notification is added at the end, and whoever may be called is.
LEMMA AddNotificationFacts ==
  ASSUME NEW e \in EngineState, NEW n \in Notification,
         NEW f, f = AddNotification(e, n)
  PROVE  /\ f \in EngineState
         /\ f.cmd = e.cmd /\ f.loop = e.loop
         /\ f.retryTimer = e.retryTimer /\ f.retryCount = e.retryCount
         /\ f.attempts = e.attempts /\ f.delayed = e.delayed
         /\ f.notes = Append(e.notes, n)
         /\ f.notes[Len(f.notes)] = n
         /\ \A d \in BOOLEAN : Woken(e, d) => Woken(f, d)
<1>1. e.notes \in Seq(Notification) BY DEF EngineState
<1>2. /\ Append(e.notes, n) \in Seq(Notification)
      /\ Len(Append(e.notes, n)) = Len(e.notes) + 1
      /\ Append(e.notes, n)[Len(e.notes) + 1] = n
      /\ Append(e.notes, n) # <<>>
  BY <1>1, AppendProperties
<1>3. /\ f.cmd = e.cmd /\ f.loop = e.loop
      /\ f.retryTimer = e.retryTimer /\ f.retryCount = e.retryCount
      /\ f.attempts = e.attempts /\ f.delayed = e.delayed
      /\ f.notes = Append(e.notes, n)
      /\ f.maySend = FALSE
      /\ f.wake = (e.wake \/ e.maySend)
  BY DEF AddNotification, EngineState
<1>4. f \in EngineState BY <1>2 DEF AddNotification, EngineState
<1>5. ASSUME NEW d \in BOOLEAN, Woken(e, d) PROVE Woken(f, d)
  BY <1>3, <1>5 DEF Woken
<1> QED BY <1>2, <1>3, <1>4, <1>5

\* What the end of a command's work does to the engine: afterwards there is no
\* command, or a connect command waits for its timer.
Reset(e, f) ==
  /\ f \in EngineState
  /\ f.loop = e.loop
  /\ f.cmd = NoCommand \/ f.retryTimer
  /\ f.retryTimer => f.cmd = "connect" /\ f.retryCount < Attempts /\ f.retryCount <= f.attempts
  /\ f.cmd # NoCommand => f.cmd = e.cmd
  /\ \A d \in BOOLEAN : Woken(e, d) => Woken(f, d)

\* CFileZillaEnginePrivate::SendOperationNotification ends the command.
LEMMA SendNotificationFacts ==
  ASSUME NEW e \in EngineState, ~e.retryTimer, NEW code \in SUBSET Flags,
         NEW f, f = SendOperationNotification(e, code)
  PROVE  /\ Reset(e, f)
         /\ f.cmd = NoCommand
         /\ f.attempts = e.attempts
         /\ f.notes[Len(f.notes)].code = code
<1> DEFINE g == [e EXCEPT !.cmd = NoCommand]
           n == [note |-> "operation", kind |-> e.cmd, code |-> code, req |-> 0]
<1>1. /\ g \in EngineState
      /\ g.cmd = NoCommand /\ g.loop = e.loop /\ g.retryTimer = e.retryTimer
      /\ g.attempts = e.attempts
      /\ g.notes = e.notes /\ g.maySend = e.maySend /\ g.wake = e.wake
  BY DEF EngineState
<1>2. n \in Notification /\ n.code = code BY AttemptsFacts DEF EngineState, Notification
<1>3. f = AddNotification(g, n) BY DEF SendOperationNotification
<1> HIDE DEF g, n
<1>4. /\ f \in EngineState /\ f.cmd = g.cmd /\ f.loop = g.loop /\ f.retryTimer = g.retryTimer
      /\ f.attempts = g.attempts
      /\ f.notes[Len(f.notes)] = n
      /\ \A d \in BOOLEAN : Woken(g, d) => Woken(f, d)
  BY <1>1, <1>2, <1>3, AddNotificationFacts
<1>5. \A d \in BOOLEAN : Woken(e, d) => Woken(f, d) BY <1>1, <1>4 DEF Woken
<1> QED BY <1>1, <1>2, <1>4, <1>5 DEF Reset

\* CFileZillaEnginePrivate::ResetOperation ends the command or sets the timer,
\* and a connect command that ends for lack of a connection has made all its
\* attempts.
LEMMA ResetOperationFacts ==
  ASSUME NEW e \in EngineState, NEW code \in SUBSET Flags,
         e.retryTimer => e.cmd = "connect" /\ e.retryCount < Attempts /\ e.retryCount <= e.attempts,
         e.cmd = "connect" /\ ~e.retryTimer /\ FailedLogin(code) => e.retryCount < e.attempts,
         NEW f, f = ResetOperation(e, code)
  PROVE  /\ Reset(e, f)
         /\ /\ e.cmd = "connect" /\ f.cmd = NoCommand
            /\ f.notes[Len(f.notes)].code = Error \cup Disconnected
            => f.attempts = Attempts
<1>1. /\ e.retryCount \in 0..Attempts /\ e.attempts \in 0..Attempts
      /\ e.retryTimer \in BOOLEAN
  BY DEF EngineState
<1>2. CASE e.cmd = NoCommand \/ (e.cmd = "connect" /\ e.retryTimer)
  <2>1. f = e BY <1>2 DEF ResetOperation
  <2>2. e.cmd = NoCommand => ~e.retryTimer BY DEF NoCommand
  <2>3. e.cmd = NoCommand => e.cmd # "connect" BY DEF NoCommand
  <2> QED BY <1>2, <2>1, <2>2, <2>3 DEF Reset
<1>3. CASE ~(e.cmd = NoCommand \/ (e.cmd = "connect" /\ e.retryTimer))
  <2>1. ~e.retryTimer BY <1>3
  <2>2. CASE e.cmd # "connect" \/ ~FailedLogin(code)
    <3>1. f = SendOperationNotification(e, code) BY <1>3, <2>2 DEF ResetOperation
    <3>2. Reset(e, f) /\ f.notes[Len(f.notes)].code = code
      BY <3>1, <2>1, SendNotificationFacts
    <3>3. FailedLogin(Error \cup Disconnected) BY DEF FailedLogin, Error, Disconnected
    <3> QED BY <2>2, <3>2, <3>3
  <2>3. CASE e.cmd = "connect" /\ FailedLogin(code)
    <3> DEFINE g == [e EXCEPT !.delayed = TRUE,
                              !.retryCount = IF "critical" \in code THEN @ ELSE @ + 1]
    <3>1. e.retryCount < e.attempts BY <2>1, <2>3
    <3>2. /\ g.cmd = e.cmd /\ g.loop = e.loop /\ g.retryTimer = e.retryTimer
          /\ g.attempts = e.attempts
          /\ g.notes = e.notes /\ g.maySend = e.maySend /\ g.wake = e.wake
          /\ g.retryCount = IF "critical" \in code THEN e.retryCount ELSE e.retryCount + 1
      BY DEF EngineState
    <3>3. g.retryCount \in 0..Attempts /\ g.retryCount <= g.attempts
      BY <3>1, <3>2, <1>1, AttemptsFacts
    <3>4. g \in EngineState BY <3>2, <3>3 DEF EngineState
    <3>5. f = IF "critical" \notin code /\ g.retryCount < ReconnectCount
              THEN [g EXCEPT !.retryTimer = TRUE]
              ELSE SendOperationNotification(g, code)
      BY <1>3, <2>3 DEF ResetOperation
    <3> HIDE DEF g
    <3>6. CASE "critical" \notin code /\ g.retryCount < ReconnectCount
      <4>1. /\ f \in EngineState
            /\ f.cmd = g.cmd /\ f.loop = g.loop /\ f.retryTimer = TRUE
            /\ f.retryCount = g.retryCount /\ f.attempts = g.attempts
            /\ f.notes = g.notes /\ f.maySend = g.maySend /\ f.wake = g.wake
        BY <3>4, <3>5, <3>6 DEF EngineState
      <4>2. \A d \in BOOLEAN : Woken(e, d) => Woken(f, d) BY <4>1, <3>2 DEF Woken
      <4>3. f.retryCount < Attempts BY <4>1, <3>3, <3>6, AttemptsFacts
      <4> QED BY <4>1, <4>2, <4>3, <3>2, <3>3, <2>3 DEF Reset, NoCommand
    <3>7. CASE ~("critical" \notin code /\ g.retryCount < ReconnectCount)
      <4>1. /\ Reset(g, f) /\ f.cmd = NoCommand /\ f.attempts = g.attempts
            /\ f.notes[Len(f.notes)].code = code
        BY <3>2, <3>4, <3>5, <3>7, <2>1, SendNotificationFacts
      <4>2. \A d \in BOOLEAN : Woken(e, d) => Woken(g, d) BY <3>2 DEF Woken
      <4>3. Reset(e, f) BY <4>1, <4>2, <3>2 DEF Reset
      <4>4. ASSUME code = Error \cup Disconnected PROVE f.attempts = Attempts
        <5>1. "critical" \notin code BY <4>4 DEF Error, Disconnected
        <5>2. e.retryCount + 1 >= ReconnectCount BY <5>1, <3>2, <3>7, <1>1, AttemptsFacts
        <5>3. e.attempts >= 1 /\ e.attempts >= ReconnectCount
          BY <5>2, <3>1, <1>1, AttemptsFacts
        <5> QED BY <5>3, <4>1, <3>2, <1>1, AttemptsFacts
      <4> QED BY <4>1, <4>3, <4>4
    <3> QED BY <3>6, <3>7
  <2> QED BY <2>2, <2>3
<1> QED BY <1>2, <1>3

-----------------------------------------------------------------------------
(* The operation stack of the control socket.                               *)

\* The stack without its top.
LEMMA FrontFacts ==
  ASSUME NEW q \in Seq(Op), q # <<>>, NEW r, r = SubSeq(q, 1, Len(q) - 1)
  PROVE  /\ r \in Seq(Op)
         /\ DOMAIN r = 1..Len(q) - 1
         /\ \A i \in DOMAIN r : i \in DOMAIN q /\ r[i] = q[i]
<1>1. Len(q) \in Nat /\ Len(q) # 0 /\ DOMAIN q = 1..Len(q) BY EmptySeq, LenProperties
<1>2. 1 \in Int /\ Len(q) - 1 \in Int /\ \A k \in 1..Len(q) - 1 : q[k] \in Op BY <1>1
<1>3. /\ r \in Seq(Op)
      /\ Len(r) = IF 1 <= Len(q) - 1 THEN (Len(q) - 1) - 1 + 1 ELSE 0
      /\ \A k \in 1..(Len(q) - 1) - 1 + 1 : r[k] = q[1 + k - 1]
  BY ONLY <1>2, SubSeqProperties, r = SubSeq(q, 1, Len(q) - 1)
<1>4. Len(r) = Len(q) - 1 BY <1>1, <1>3
<1>5. DOMAIN r = 1..Len(q) - 1 BY <1>3, <1>4
<1>6. ASSUME NEW k \in 1..Len(q) - 1 PROVE k \in DOMAIN q /\ r[k] = q[k]
  <2>1. k \in 1..(Len(q) - 1) - 1 + 1 /\ 1 + k - 1 = k /\ k \in 1..Len(q) BY <1>1
  <2>2. r[k] = q[1 + k - 1] BY <1>3, <2>1
  <2> QED BY <1>1, <2>1, <2>2
<1> QED BY <1>3, <1>5, <1>6

\* What an outcome of the socket must be like for the engine to go on: the
\* socket exists, and one that has not ended has an operation.
Sound(o) ==
  /\ o.s \in SocketState /\ Asking(o.s) /\ o.s.conn # "none"
  /\ o.done \in BOOLEAN
  /\ o.code \in SUBSET Flags
  /\ ~o.done => o.s.ops # <<>>

\* Every reply code is a set of flags.
LEMMA CodeFacts ==
  /\ OK \in SUBSET Flags /\ Error \in SUBSET Flags /\ Critical \in SUBSET Flags
  /\ Canceled \in SUBSET Flags /\ Timeout \in SUBSET Flags /\ Disconnected \in SUBSET Flags
  /\ NotConnected \in SUBSET Flags /\ AlreadyConnected \in SUBSET Flags
  /\ PlainCodes \subseteq SUBSET Flags /\ EndCodes \subseteq SUBSET Flags
BY DEF OK, Error, Critical, Canceled, Timeout, Disconnected, NotConnected, AlreadyConnected,
       PlainCodes, EndCodes, Flags

\* CControlSocket::DoClose
LEMMA DoCloseFacts ==
  ASSUME NEW s, NEW code \in SUBSET Flags
  PROVE  /\ Sound(DoClose(s, code))
         /\ DoClose(s, code).done
<1> DEFINE t == [conn |-> "closed", ops |-> <<>>, greq |-> 0]
           c == Error \cup Disconnected \cup code
<1>1. t \in SocketState /\ t.conn = "closed" /\ t.ops = <<>> BY AttemptsFacts DEF SocketState
<1>2. Asking(t) BY <1>1 DEF Asking
<1>3. c \in SUBSET Flags BY CodeFacts
<1>4. DoClose(s, code) = [s |-> t, done |-> TRUE, code |-> c] BY DEF DoClose, Done
<1> HIDE DEF t, c
<1> QED BY <1>1, <1>2, <1>3, <1>4 DEF Sound

\* CControlSocket::ResetOperation: the stack below the top stays as it was.
LEMMA SocketResetFacts ==
  ASSUME NEW s \in SocketState, Asking(s), s.conn # "none", NEW code \in SUBSET Flags,
         NEW o \in SocketReset(s, code)
  PROVE  Sound(o)
<1> DEFINE rest == SubSeq(s.ops, 1, Len(s.ops) - 1)
           below == [s EXCEPT !.ops = rest]
           empty == [s EXCEPT !.ops = <<>>]
<1>1. s.ops \in Seq(Op) BY DEF SocketState
<1>2. empty \in SocketState /\ empty.ops = <<>> /\ empty.conn = s.conn
  <2>1. <<>> \in Seq(Op) BY EmptySeq
  <2>2. s = [conn |-> s.conn, ops |-> s.ops, greq |-> s.greq] BY DEF SocketState
  <2>3. empty = [conn |-> s.conn, ops |-> <<>>, greq |-> s.greq] BY <2>2
  <2> QED BY <2>1, <2>3 DEF SocketState
<1>3. Asking(empty) BY <1>2 DEF Asking
<1>4. ASSUME NEW c \in SUBSET Flags, o = Done(empty, c) PROVE Sound(o)
  <2>1. o = [s |-> empty, done |-> TRUE, code |-> c] BY <1>4 DEF Done
  <2> HIDE DEF empty
  <2>2. o.s = empty /\ o.done = TRUE /\ o.code = c BY <2>1
  <2> QED BY <2>2, <1>2, <1>3 DEF Sound
<1>5. ASSUME s.ops # <<>>, rest # <<>>, o = Running(below) PROVE Sound(o)
  <2>1. /\ rest \in Seq(Op) /\ DOMAIN rest = 1..Len(s.ops) - 1
        /\ \A i \in DOMAIN rest : i \in DOMAIN s.ops /\ rest[i] = s.ops[i]
    BY <1>1, <1>5, FrontFacts
  <2> HIDE DEF rest
  <2>2. below \in SocketState /\ below.ops = rest /\ below.conn = s.conn
    BY <2>1 DEF SocketState
  <2> HIDE DEF below
  <2>3. Asking(below) BY <2>1, <2>2 DEF Asking
  <2>4. o.s = below /\ o.done = FALSE /\ o.code = OK BY <1>5 DEF Running
  <2> QED BY <2>2, <2>3, <2>4, <1>5, CodeFacts DEF Sound
<1> HIDE DEF empty, below
<1>6. CASE s.ops = <<>> \/ rest = <<>> \/ code \notin PlainCodes
  <2>1. o = Done(empty, code) BY <1>6 DEF SocketReset, empty
  <2> QED BY <2>1, <1>4
<1>7. CASE ~(s.ops = <<>> \/ rest = <<>> \/ code \notin PlainCodes)
  <2>1. o = Running(below) \/ \E c \in EndCodes : o = Done(empty, c)
    BY <1>7 DEF SocketReset, empty, below
  <2> QED BY <2>1, <1>4, <1>5, <1>7, CodeFacts
<1> QED BY <1>6, <1>7

\* A new operation may be pushed on an empty stack, on a top that does not wait
\* for the user, or, by a command that is dispatched, on any.
LEMMA PushFacts ==
  ASSUME NEW s \in SocketState, Asking(s), s.conn # "none",
         NEW kind \in {"connect", "work", "sub"},
         s.ops = <<>> \/ kind = "work" \/ s.ops[Len(s.ops)].req = 0,
         NEW t, t = Push(s, kind)
  PROVE  /\ t \in SocketState /\ Asking(t) /\ t.conn = s.conn
         /\ t.ops # <<>>
<1> DEFINE n == NewOp(kind)
           q == Append(s.ops, n)
           c == NewOp("connect")
<1>1. s.ops \in Seq(Op) BY DEF SocketState
<1>2. n \in Op /\ n.kind = kind /\ n.req = 0 /\ c \in Op BY AttemptsFacts DEF NewOp, Op
<1>3. t = [s EXCEPT !.ops = q \o IF s.ops = <<>> /\ kind # "connect" /\ s.conn = "closed"
                                 THEN <<c>> ELSE <<>>]
  BY DEF Push, SocketState
<1> HIDE DEF n, c
<1>4. /\ q \in Seq(Op) /\ Len(q) = Len(s.ops) + 1 /\ DOMAIN q = 1..Len(s.ops) + 1
      /\ q[Len(s.ops) + 1] = n
      /\ \A i \in 1..Len(s.ops) : q[i] = s.ops[i]
      /\ DOMAIN s.ops = 1..Len(s.ops) /\ Len(s.ops) \in Nat
  BY <1>1, <1>2, AppendProperties
<1> HIDE DEF q
<1>5. CASE s.ops = <<>> /\ kind # "connect" /\ s.conn = "closed"
  <2>1. t = [s EXCEPT !.ops = q \o <<c>>] BY <1>3, <1>5
  <2>2. q \o <<c>> = Append(q, c) BY <1>2, <1>4, AppendIsConcat
  <2>3. Len(s.ops) = 0 BY <1>5
  <2>4. /\ Append(q, c) \in Seq(Op) /\ DOMAIN Append(q, c) = 1..2
        /\ Append(q, c)[1] = n
    <3>1. Len(q) = 1 /\ q[1] = n BY <2>3, <1>4
    <3>2. /\ Append(q, c) \in Seq(Op) /\ Len(Append(q, c)) = Len(q) + 1
          /\ \A i \in 1..Len(q) : Append(q, c)[i] = q[i]
      BY <1>2, <1>4, AppendProperties
    <3>3. Len(Append(q, c)) = 2 BY <3>1, <3>2
    <3> QED BY <3>1, <3>2, <3>3
  <2>5. t \in SocketState /\ t.ops = Append(q, c) /\ t.conn = s.conn
    BY <2>1, <2>2, <2>4 DEF SocketState
  <2>6. Asking(t) BY <2>4, <2>5, <1>2, <1>5 DEF Asking
  <2>7. t.ops # <<>> BY <2>4, <2>5
  <2> QED BY <2>5, <2>6, <2>7
<1>6. CASE ~(s.ops = <<>> /\ kind # "connect" /\ s.conn = "closed")
  <2>1. t = [s EXCEPT !.ops = q \o <<>>] BY <1>3, <1>6
  <2>2. q \o <<>> = q BY <1>4, ConcatEmptySeq
  <2>3. t \in SocketState /\ t.ops = q /\ t.conn = s.conn
    BY <2>1, <2>2, <1>4 DEF SocketState
  <2>4. ASSUME NEW i \in DOMAIN q, i + 1 \in DOMAIN q, q[i].req # 0
        PROVE  q[i + 1].kind = "work"
    <3>1. i \in 1..Len(s.ops) BY <2>4, <1>4
    <3>2. q[i] = s.ops[i] /\ s.ops # <<>> BY <3>1, <1>4
    <3>3. CASE i = Len(s.ops) BY <3>2, <3>3, <2>4, <1>2, <1>4
    <3>4. CASE i # Len(s.ops)
      <4>1. i + 1 \in 1..Len(s.ops) BY <3>1, <3>4, <1>4
      <4> QED BY <4>1, <3>1, <3>2, <2>4, <1>4 DEF Asking
    <3> QED BY <3>3, <3>4
  <2>5. Asking(t) BY <2>3, <2>4 DEF Asking
  <2>6. t.ops # <<>> BY <2>3, <1>4
  <2> QED BY <2>3, <2>5, <2>6
<1> QED BY <1>5, <1>6

\* CControlSocket::SendNextCommand of a stack with an operation.
LEMMA SendNextCommandFacts ==
  ASSUME NEW s \in SocketState, Asking(s), s.conn # "none", s.ops # <<>>,
         NEW o \in SendNextCommand(s)
  PROVE  Sound(o)
<1> DEFINE up == [s EXCEPT !.conn = "up"]
<1>1. up \in SocketState /\ up.ops = s.ops /\ up.conn = "up" BY DEF SocketState
<1>2. Asking(up) BY <1>1 DEF Asking
<1>3. \/ o = Running(up) \/ o = Running(s)
      \/ \E c \in {OK, Critical} : o = DoClose(s, c)
      \/ o \in SocketReset(s, Error)
  BY DEF SendNextCommand
<1> HIDE DEF up
<1>4. ASSUME NEW t \in {up, s}, o = Running(t) PROVE Sound(o)
  <2>1. o.s = t /\ o.done = FALSE /\ o.code = OK BY <1>4 DEF Running
  <2> QED BY <2>1, <1>1, <1>2, CodeFacts DEF Sound
<1> QED BY <1>3, <1>4, DoCloseFacts, SocketResetFacts, CodeFacts

-----------------------------------------------------------------------------
(* Handlers of the event loop.                                              *)

\* A connect command that ended for lack of a connection was given all its
\* attempts.
GaveUp(e, f) ==
  /\ e.cmd = "connect" /\ f.cmd = NoCommand
  /\ f.notes[Len(f.notes)].code = Error \cup Disconnected
  => f.attempts = Attempts

\* The engine's part of the invariant, whatever its socket is like.
EngineSound(e, d) ==
  /\ e \in EngineState /\ Woken(e, d) /\ Answering(e)
  /\ e.retryTimer => e.cmd = "connect" /\ e.retryCount < Attempts /\ e.retryCount <= e.attempts

\* A handler that ends with a sound outcome preserves the invariant.
LEMMA SettleFacts ==
  ASSUME NEW d \in BOOLEAN, NEW e, EngineSound(e, d), NEW o, Sound(o),
         e.cmd = "connect" /\ ~e.retryTimer => e.retryCount < e.attempts,
         NEW f, f = IF o.done THEN ResetOperation(e, o.code) ELSE e
  PROVE  EngineInv(f, o.s, d) /\ GaveUp(e, f)
<1>1. e \in EngineState /\ o.done \in BOOLEAN BY DEF EngineSound, Sound
<1>2. CASE o.done
  <2>1. /\ Reset(e, f) /\ GaveUp(e, f)
    <3>1. f = ResetOperation(e, o.code) BY <1>2
    <3> QED BY <3>1, <1>1, ResetOperationFacts DEF EngineSound, Sound, GaveUp
  <2>2. Woken(f, d) BY <2>1 DEF Reset, EngineSound
  <2>3. Answering(f) BY <2>1 DEF Reset, EngineSound, Answering
  <2>4. Retrying(f, o.s) BY <2>1 DEF Reset, Retrying, NoCommand
  <2>5. Owned(f, o.s) BY <2>1 DEF Reset, Owned
  <2> QED BY <2>1, <2>2, <2>3, <2>4, <2>5 DEF EngineInv, Reset, Sound
<1>3. CASE ~o.done
  <2>1. f = e BY <1>3
  <2>2. Retrying(f, o.s) BY <2>1 DEF EngineSound, Retrying
  <2>3. Owned(f, o.s) BY <1>3 DEF Sound, Owned
  <2>4. GaveUp(e, f) BY <2>1 DEF GaveUp, NoCommand
  <2> QED BY <2>1, <2>2, <2>3, <2>4 DEF EngineInv, EngineSound, Sound
<1> QED BY <1>2, <1>3

\* The same of a handler that leaves the socket alone and ends the command with
\* a result that is not a failed login, whether or not there is a socket.
LEMMA AnswerFacts ==
  ASSUME NEW d \in BOOLEAN, NEW e, EngineSound(e, d), NEW s \in SocketState, Asking(s),
         NEW code \in SUBSET Flags, ~FailedLogin(code),
         NEW f, f = ResetOperation(e, code)
  PROVE  EngineInv(f, s, d) /\ GaveUp(e, f) /\ Reset(e, f)
<1>1. Reset(e, f) /\ GaveUp(e, f) BY ResetOperationFacts DEF EngineSound, GaveUp
<1>2. Woken(f, d) BY <1>1 DEF Reset, EngineSound
<1>3. Answering(f) BY <1>1 DEF Reset, EngineSound, Answering
<1>4. Retrying(f, s) BY <1>1 DEF Reset, Retrying, NoCommand
<1>5. Owned(f, s) BY <1>1 DEF Reset, Owned
<1> QED BY <1>1, <1>2, <1>3, <1>4, <1>5 DEF EngineInv, Reset

\* Taking an event from the loop.
LEMMA PoppedFacts ==
  ASSUME NEW d \in BOOLEAN, EngineInv(eng, sock, d), NEW ev, NextEvent(ev)
  PROVE  /\ EngineSound(Popped, d)
         /\ Popped.cmd = eng.cmd /\ Popped.retryTimer = eng.retryTimer
         /\ Popped.retryCount = eng.retryCount /\ Popped.attempts = eng.attempts
         /\ Popped.delayed = eng.delayed
         /\ Popped = [eng EXCEPT !.loop = Tail(eng.loop)]
         /\ ev # "command" /\ HasCommandEvent(eng) => HasCommandEvent(Popped)
<1>1. eng \in EngineState /\ Woken(eng, d) /\ Answering(eng) /\ Retrying(eng, sock)
  BY DEF EngineInv
<1>2. eng.loop \in Seq(Event) /\ eng.loop # <<>> /\ Head(eng.loop).ev = ev
  BY <1>1 DEF EngineState, NextEvent
<1>3. /\ Tail(eng.loop) \in Seq(Event)
      /\ Len(Tail(eng.loop)) = Len(eng.loop) - 1
      /\ \A i \in 1..Len(Tail(eng.loop)) : Tail(eng.loop)[i] = eng.loop[i + 1]
      /\ Head(eng.loop) = eng.loop[1]
      /\ DOMAIN eng.loop = 1..Len(eng.loop) /\ Len(eng.loop) \in Nat
      /\ DOMAIN Tail(eng.loop) = 1..Len(eng.loop) - 1
  BY <1>2, HeadTailProperties
<1>4. /\ Popped \in EngineState
      /\ Popped.loop = Tail(eng.loop)
      /\ Popped.cmd = eng.cmd /\ Popped.retryTimer = eng.retryTimer
      /\ Popped.retryCount = eng.retryCount /\ Popped.attempts = eng.attempts
      /\ Popped.delayed = eng.delayed
      /\ Popped.notes = eng.notes /\ Popped.maySend = eng.maySend /\ Popped.wake = eng.wake
      /\ Popped = [eng EXCEPT !.loop = Tail(eng.loop)]
  BY <1>1, <1>3 DEF Popped, EngineState
<1>5. Woken(Popped, d) BY <1>1, <1>4 DEF Woken
<1>6. Answering(Popped)
  <2> SUFFICES ASSUME NEW i \in DOMAIN Tail(eng.loop), Tail(eng.loop)[i].ev = "reply"
               PROVE  Tail(eng.loop)[i].req # 0
    BY <1>4 DEF Answering
  <2>1. i + 1 \in DOMAIN eng.loop /\ Tail(eng.loop)[i] = eng.loop[i + 1] BY <1>3
  <2> QED BY <2>1, <1>1 DEF Answering
<1>7. ASSUME ev # "command", HasCommandEvent(eng) PROVE HasCommandEvent(Popped)
  <2>1. PICK i \in DOMAIN eng.loop : eng.loop[i].ev = "command" BY <1>7 DEF HasCommandEvent
  <2>2. i # 1 BY <2>1, <1>2, <1>3, <1>7
  <2>3. i - 1 \in DOMAIN Tail(eng.loop) /\ (i - 1) + 1 = i BY <2>1, <2>2, <1>3
  <2>4. Tail(eng.loop)[i - 1] = eng.loop[i] BY <2>3, <1>3
  <2> QED BY <2>1, <2>3, <2>4, <1>4 DEF HasCommandEvent
<1> QED BY <1>1, <1>4, <1>5, <1>6, <1>7 DEF EngineSound, Retrying

\* There is no socket, so nothing is on its stack.
LEMMA NoSockFacts ==
  NoSock \in SocketState /\ Asking(NoSock) /\ NoSock.conn = "none" /\ NoSock.ops = <<>>
<1>1. NoSock \in SocketState /\ NoSock.conn = "none" /\ NoSock.ops = <<>>
  BY AttemptsFacts DEF NoSock, SocketState
<1> QED BY <1>1 DEF Asking

\* ContinueConnect waits for the timer or makes another attempt.
LEMMA ContinueConnectFacts ==
  ASSUME NEW d \in BOOLEAN, NEW e, EngineSound(e, d), e.cmd = "connect",
         e.retryCount < Attempts, e.retryCount <= e.attempts,
         ContinueConnect(e)
  PROVE  EngineInv(eng', sock', d) /\ GaveUp(e, eng')
<1>1. e \in EngineState /\ Woken(e, d) /\ Answering(e) BY DEF EngineSound
<1>2. CASE e.delayed /\ eng' = [e EXCEPT !.retryTimer = TRUE] /\ sock' = NoSock
  <2>1. /\ eng' \in EngineState
        /\ eng'.cmd = e.cmd /\ eng'.loop = e.loop /\ eng'.retryTimer = TRUE
        /\ eng'.retryCount = e.retryCount /\ eng'.attempts = e.attempts
        /\ eng'.notes = e.notes /\ eng'.maySend = e.maySend /\ eng'.wake = e.wake
    BY <1>1, <1>2 DEF EngineState
  <2>2. Woken(eng', d) BY <2>1, <1>1 DEF Woken
  <2>3. Answering(eng') BY <2>1, <1>1 DEF Answering
  <2>4. Retrying(eng', sock') BY <2>1 DEF Retrying
  <2>5. Owned(eng', sock') BY <2>1 DEF Owned
  <2>6. GaveUp(e, eng') BY <2>1 DEF GaveUp, NoCommand
  <2>7. sock' \in SocketState /\ Asking(sock') BY <1>2, NoSockFacts
  <2> QED BY <2>1, <2>2, <2>3, <2>4, <2>5, <2>6, <2>7 DEF EngineInv
<1>3. ASSUME NEW o \in SendNextCommand(Push([NoSock EXCEPT !.conn = "closed"], "connect")),
             Settle([e EXCEPT !.attempts = IF @ < Attempts THEN @ + 1 ELSE @], o)
      PROVE  EngineInv(eng', sock', d) /\ GaveUp(e, eng')
  <2> DEFINE s == [NoSock EXCEPT !.conn = "closed"]
             t == Push(s, "connect")
             g == [e EXCEPT !.attempts = IF @ < Attempts THEN @ + 1 ELSE @]
  <2>1. s \in SocketState /\ s.conn = "closed" /\ s.ops = <<>>
    <3>1. s = [conn |-> "closed", ops |-> <<>>, greq |-> 0] BY DEF NoSock
    <3> HIDE DEF s
    <3> QED BY <3>1, AttemptsFacts DEF SocketState
  <2>2. Asking(s) BY <2>1 DEF Asking
  <2> HIDE DEF s
  <2>3. t \in SocketState /\ Asking(t) /\ t.conn # "none" /\ t.ops # <<>>
    BY <2>1, <2>2, PushFacts
  <2>4. Sound(o) BY <2>3, <1>3, SendNextCommandFacts DEF s
  <2>5. e.attempts \in 0..Attempts /\ e.retryCount \in 0..Attempts BY <1>1 DEF EngineState
  <2>6. /\ g.cmd = e.cmd /\ g.loop = e.loop /\ g.retryTimer = e.retryTimer
        /\ g.retryCount = e.retryCount
        /\ g.attempts = IF e.attempts < Attempts THEN e.attempts + 1 ELSE e.attempts
        /\ g.notes = e.notes /\ g.maySend = e.maySend /\ g.wake = e.wake
    BY <1>1 DEF EngineState
  <2>7. g.attempts \in 0..Attempts /\ g.retryCount < g.attempts BY <2>5, <2>6, AttemptsFacts
  <2>8. g \in EngineState BY <1>1, <2>6, <2>7 DEF EngineState
  <2>9. EngineSound(g, d)
    <3>1. Woken(g, d) BY <1>1, <2>6 DEF Woken
    <3>2. Answering(g) BY <1>1, <2>6 DEF Answering
    <3>3. g.retryTimer => g.cmd = "connect" /\ g.retryCount < Attempts /\ g.retryCount <= g.attempts
      BY <2>5, <2>6, <2>7
    <3> QED BY <2>8, <3>1, <3>2, <3>3 DEF EngineSound
  <2>10. sock' = o.s /\ eng' = IF o.done THEN ResetOperation(g, o.code) ELSE g
    BY <1>3 DEF Settle
  <2> HIDE DEF g
  <2>11. EngineInv(eng', o.s, d) /\ GaveUp(g, eng')
    BY <2>4, <2>7, <2>9, <2>10, SettleFacts
  <2> QED BY <2>6, <2>10, <2>11 DEF GaveUp
<1> QED BY <1>2, <1>3 DEF ContinueConnect

\* What a handler of the loop must preserve.
Handled(d) == EngineInv(eng', sock', d) /\ GaveUp(eng, eng')

\* A handler that settles an engine which differs from eng in its event or its
\* counters only.
LEMMA SettledFacts ==
  ASSUME NEW d \in BOOLEAN, EngineInv(eng, sock, d), sock.conn # "none",
         NEW e, EngineSound(e, d),
         e.cmd = eng.cmd, e.retryTimer = eng.retryTimer,
         e.retryCount = eng.retryCount, e.attempts = eng.attempts,
         NEW o, Sound(o), Settle(e, o)
  PROVE  Handled(d)
<1>1. sock' = o.s /\ eng' = IF o.done THEN ResetOperation(e, o.code) ELSE e BY DEF Settle
<1>2. e.cmd = "connect" /\ ~e.retryTimer => e.retryCount < e.attempts
  BY DEF EngineInv, Retrying
<1>3. EngineInv(eng', o.s, d) /\ GaveUp(e, eng') BY <1>1, <1>2, SettleFacts
<1> QED BY <1>1, <1>3 DEF Handled, GaveUp

\* The engine as it is satisfies its part of the invariant.
LEMMA EngineIsSound ==
  ASSUME NEW d \in BOOLEAN, EngineInv(eng, sock, d)
  PROVE  EngineSound(eng, d) /\ sock \in SocketState /\ Asking(sock)
BY DEF EngineInv, EngineSound, Retrying

\* OnCommandEvent dispatches the current command, if there still is one.
LEMMA CommandEventHandled ==
  ASSUME NEW d \in BOOLEAN, EngineInv(eng, sock, d), OnCommandEvent
  PROVE  Handled(d)
<1> DEFINE res == CheckCommandPreconditions(eng.cmd)
<1>1. NextEvent("command") BY DEF OnCommandEvent
<1>2. /\ EngineSound(Popped, d)
      /\ Popped.cmd = eng.cmd /\ Popped.retryTimer = eng.retryTimer
      /\ Popped.retryCount = eng.retryCount /\ Popped.attempts = eng.attempts
  BY <1>1, PoppedFacts
<1>3. sock \in SocketState /\ Asking(sock) /\ eng \in EngineState BY DEF EngineInv
<1>4. CASE eng.cmd = NoCommand /\ eng' = Popped /\ UNCHANGED sock
  <2>1. Retrying(Popped, sock) BY <1>2, <1>4 DEF Retrying, EngineSound, NoCommand
  <2>2. Owned(Popped, sock) BY <1>2, <1>4 DEF Owned
  <2>3. GaveUp(eng, Popped) BY <1>4 DEF GaveUp, NoCommand
  <2> QED BY <2>1, <2>2, <2>3, <1>2, <1>3, <1>4 DEF Handled, EngineInv, EngineSound
<1>5. CASE res # OK /\ Settle(Popped, Done(sock, res))
  <2>1. res \in {NotConnected, AlreadyConnected}
    BY <1>5 DEF CheckCommandPreconditions
  <2>2. res \in SUBSET Flags /\ ~FailedLogin(res)
    BY <2>1 DEF NotConnected, AlreadyConnected, Error, Flags, FailedLogin
  <2>3. sock' = sock /\ eng' = ResetOperation(Popped, res) BY <1>5 DEF Settle, Done
  <2> HIDE DEF res
  <2>4. EngineInv(eng', sock, d) /\ GaveUp(Popped, eng')
    BY <2>2, <2>3, <1>2, <1>3, AnswerFacts
  <2> QED BY <2>3, <2>4, <1>2 DEF Handled, GaveUp
<1>6. CASE eng.cmd = "connect" /\ res = OK /\ Connect
  <2> DEFINE e == [Popped EXCEPT !.retryCount = 0]
  <2>1. Popped \in EngineState /\ Woken(Popped, d) /\ Answering(Popped) BY <1>2 DEF EngineSound
  <2>2. /\ e \in EngineState
        /\ e.cmd = Popped.cmd /\ e.loop = Popped.loop /\ e.retryTimer = Popped.retryTimer
        /\ e.retryCount = 0 /\ e.attempts = Popped.attempts
        /\ e.notes = Popped.notes /\ e.maySend = Popped.maySend /\ e.wake = Popped.wake
    <3>1. 0 \in 0..Attempts BY AttemptsFacts
    <3> QED BY <2>1, <3>1 DEF EngineState
  <2>3. e.retryCount < Attempts /\ e.retryCount <= e.attempts
    BY <2>2, AttemptsFacts DEF EngineState
  <2>4. Woken(e, d) BY <2>1, <2>2 DEF Woken
  <2>5. Answering(e) BY <2>1, <2>2 DEF Answering
  <2>6. ContinueConnect(e) BY <1>6 DEF Connect
  <2> HIDE DEF e
  <2>7. EngineSound(e, d) BY <1>2, <1>6, <2>2, <2>3, <2>4, <2>5 DEF EngineSound
  <2>8. EngineInv(eng', sock', d) /\ GaveUp(e, eng')
    BY <2>2, <2>3, <2>6, <2>7, <1>2, <1>6, ContinueConnectFacts
  <2> QED BY <2>2, <2>8, <1>2 DEF Handled, GaveUp
<1>7. CASE eng.cmd = "disconnect" /\ Disconnect
  <2> DEFINE g == IF sock.conn = "none" THEN Popped
                  ELSE ResetOperation(Popped, Error \cup Disconnected)
  <2>1. sock' = NoSock /\ eng' = ResetOperation(g, OK) BY <1>7 DEF Disconnect
  <2>2. EngineSound(g, d)
    <3>1. CASE sock.conn = "none" BY <3>1, <1>2
    <3>2. CASE sock.conn # "none"
      <4>1. g = ResetOperation(Popped, Error \cup Disconnected) BY <3>2
      <4>2. Error \cup Disconnected \in SUBSET Flags BY CodeFacts
      <4> HIDE DEF g
      <4>3. Popped \in EngineState /\ Popped.cmd # "connect" BY <1>2, <1>7 DEF EngineSound
      <4>4. Reset(Popped, g)
        BY <4>1, <4>2, <4>3, <1>2, ResetOperationFacts DEF EngineSound
      <4>5. Woken(g, d) BY <4>4, <1>2 DEF Reset, EngineSound
      <4>6. Answering(g) BY <4>4, <1>2 DEF Reset, EngineSound, Answering
      <4> QED BY <4>4, <4>5, <4>6 DEF EngineSound, Reset
    <3> QED BY <3>1, <3>2
  <2> HIDE DEF g
  <2>3. OK \in SUBSET Flags /\ ~FailedLogin(OK) BY DEF OK, FailedLogin
  <2>4. EngineInv(eng', sock', d) BY <2>1, <2>2, <2>3, NoSockFacts, AnswerFacts
  <2>5. GaveUp(eng, eng') BY <1>7 DEF GaveUp
  <2> QED BY <2>4, <2>5 DEF Handled
<1>8. CASE eng.cmd = "work" /\ res = OK /\ Work
  <2>1. sock.conn # "none"
    BY <1>8 DEF CheckCommandPreconditions, OK, NotConnected, Error
  <2>2. CASE Settle(Popped, Done(sock, OK))
    <3>1. sock' = sock /\ eng' = ResetOperation(Popped, OK) BY <2>2 DEF Settle, Done
    <3>2. OK \in SUBSET Flags /\ ~FailedLogin(OK) BY DEF OK, FailedLogin
    <3>3. EngineInv(eng', sock, d) BY <3>1, <3>2, <1>2, <1>3, AnswerFacts
    <3> QED BY <3>1, <3>3, <1>8 DEF Handled, GaveUp
  <2>3. ASSUME NEW o \in SendNextCommand(Push(sock, "work")), Settle(Popped, o)
        PROVE  Handled(d)
    <3> DEFINE t == Push(sock, "work")
    <3>1. t \in SocketState /\ Asking(t) /\ t.conn = sock.conn /\ t.ops # <<>>
      BY <2>1, <1>3, PushFacts
    <3>2. Sound(o) BY <3>1, <2>1, <2>3, SendNextCommandFacts
    <3> QED BY <3>2, <2>1, <2>3, <1>2, SettledFacts
  <2> QED BY <2>2, <2>3, <1>8 DEF Work
<1> QED BY <1>4, <1>5, <1>6, <1>7, <1>8 DEF OnCommandEvent

\* DoCancel ends the operations, or the wait for the timer.
LEMMA CancelHandled ==
  ASSUME NEW d \in BOOLEAN, EngineInv(eng, sock, d), DoCancel
  PROVE  Handled(d)
<1>1. NextEvent("cancel") BY DEF DoCancel
<1>2. /\ EngineSound(Popped, d)
      /\ Popped.cmd = eng.cmd /\ Popped.retryTimer = eng.retryTimer
      /\ Popped.retryCount = eng.retryCount /\ Popped.attempts = eng.attempts
      /\ HasCommandEvent(eng) => HasCommandEvent(Popped)
  BY <1>1, PoppedFacts
<1>3. /\ sock \in SocketState /\ Asking(sock) /\ Owned(eng, sock) /\ Retrying(eng, sock)
      /\ Popped \in EngineState
  BY <1>2 DEF EngineInv, EngineSound
<1>4. CASE eng.cmd = NoCommand /\ eng' = Popped /\ UNCHANGED sock
  <2>1. Retrying(Popped, sock) BY <1>2, <1>4 DEF Retrying, EngineSound, NoCommand
  <2>2. Owned(Popped, sock) BY <1>2, <1>4 DEF Owned
  <2>3. GaveUp(eng, Popped) BY <1>4 DEF GaveUp, NoCommand
  <2> QED BY <2>1, <2>2, <2>3, <1>2, <1>3, <1>4 DEF Handled, EngineInv, EngineSound
<1>5. CASE /\ eng.cmd # NoCommand /\ eng.retryTimer
           /\ sock' = NoSock
           /\ eng' = SendOperationNotification([Popped EXCEPT !.retryTimer = FALSE],
                                               Disconnected \cup Canceled)
  <2> DEFINE e == [Popped EXCEPT !.retryTimer = FALSE]
             code == Disconnected \cup Canceled
  <2>1. /\ e \in EngineState
        /\ e.cmd = Popped.cmd /\ e.loop = Popped.loop /\ e.retryTimer = FALSE
        /\ e.notes = Popped.notes /\ e.maySend = Popped.maySend /\ e.wake = Popped.wake
    BY <1>3 DEF EngineState
  <2>2. code \in SUBSET Flags BY CodeFacts
  <2>3. code # Error \cup Disconnected
    <3>1. "canceled" \in code /\ "canceled" \notin Error \cup Disconnected
      BY DEF Disconnected, Canceled, Error
    <3> HIDE DEF code
    <3> QED BY <3>1
  <2>4. eng' = SendOperationNotification(e, code) BY <1>5
  <2> HIDE DEF e, code
  <2>5. Reset(e, eng') /\ eng'.cmd = NoCommand /\ eng'.notes[Len(eng'.notes)].code = code
    BY <2>1, <2>2, <2>4, SendNotificationFacts
  <2>6. Woken(e, d) BY <1>2, <2>1 DEF EngineSound, Woken
  <2>7. Woken(eng', d) BY <2>5, <2>6 DEF Reset
  <2>8. Answering(eng') BY <1>2, <2>1, <2>5 DEF Reset, EngineSound, Answering
  <2>9. Retrying(eng', sock') BY <2>5 DEF Retrying, Reset, NoCommand
  <2>10. Owned(eng', sock') BY <2>5 DEF Owned
  <2>11. GaveUp(eng, eng') BY <2>3, <2>5 DEF GaveUp
  <2>12. sock' \in SocketState /\ Asking(sock') BY <1>5, NoSockFacts
  <2> QED BY <2>5, <2>7, <2>8, <2>9, <2>10, <2>11, <2>12 DEF Handled, EngineInv, Reset
<1>6. CASE eng.cmd # NoCommand /\ ~eng.retryTimer /\ sock.conn = "none"
           /\ Settle(Popped, Done(sock, Canceled))
  <2>1. sock' = sock /\ eng' = ResetOperation(Popped, Canceled) BY <1>6 DEF Settle, Done
  <2>2. Canceled \in SUBSET Flags /\ ~FailedLogin(Canceled)
    BY CodeFacts DEF Canceled, FailedLogin
  <2>3. EngineInv(eng', sock, d) /\ GaveUp(Popped, eng')
    BY <2>1, <2>2, <1>2, <1>3, AnswerFacts
  <2> QED BY <2>1, <2>3, <1>2 DEF Handled, GaveUp
<1>7. ASSUME eng.cmd # NoCommand, ~eng.retryTimer, sock.conn # "none",
             NEW o \in SocketCancel(sock), Settle(Popped, o)
      PROVE  Handled(d)
  <2>1. CASE sock.ops # <<>>
    <3>1. \/ \E c \in {Canceled} : o = DoClose(sock, c)
          \/ o \in SocketReset(sock, Canceled)
      BY <1>7, <2>1 DEF SocketCancel
    <3>2. Sound(o) BY <3>1, <1>3, <1>7, CodeFacts, DoCloseFacts, SocketResetFacts
    <3> QED BY <3>2, <1>2, <1>7, SettledFacts
  <2>2. CASE sock.ops = <<>>
    <3>1. o = Running(sock) BY <1>7, <2>2 DEF SocketCancel
    <3>2. eng' = Popped /\ sock' = sock BY <3>1, <1>7 DEF Settle, Running
    <3>3. HasCommandEvent(eng) BY <1>3, <1>7, <2>2 DEF Owned
    <3>4. Owned(Popped, sock) BY <3>3, <1>2 DEF Owned
    <3>5. Retrying(Popped, sock) BY <1>2, <1>3 DEF Retrying
    <3>6. GaveUp(eng, Popped) BY <1>2, <1>7 DEF GaveUp
    <3> QED BY <3>2, <3>4, <3>5, <3>6, <1>2, <1>3 DEF Handled, EngineInv, EngineSound
  <2> QED BY <2>1, <2>2
<1> QED BY <1>4, <1>5, <1>6, <1>7 DEF DoCancel

\* OnTimer makes the next attempt: the end of the old socket, while the timer is
\* still set, does not count as another failure.
LEMMA TimerHandled ==
  ASSUME NEW d \in BOOLEAN, EngineInv(eng, sock, d), OnTimer
  PROVE  Handled(d)
<1>1. eng \in EngineState /\ Woken(eng, d) /\ Answering(eng) /\ Retrying(eng, sock)
  BY DEF EngineInv
<1>2. eng.retryTimer /\ eng.cmd = "connect" /\ eng.retryCount < Attempts
      /\ eng.retryCount <= eng.attempts
  BY <1>1 DEF OnTimer, Retrying
<1> DEFINE e == [eng EXCEPT !.retryTimer = FALSE]
<1>3. ResetOperation(eng, Error \cup Disconnected) = eng BY <1>2 DEF ResetOperation
<1>4. ContinueConnect(e) BY <1>3 DEF OnTimer
<1>5. /\ e \in EngineState
      /\ e.cmd = eng.cmd /\ e.loop = eng.loop /\ e.retryTimer = FALSE
      /\ e.retryCount = eng.retryCount /\ e.attempts = eng.attempts
      /\ e.notes = eng.notes /\ e.maySend = eng.maySend /\ e.wake = eng.wake
  BY <1>1 DEF EngineState
<1> HIDE DEF e
<1>6. Woken(e, d) BY <1>1, <1>5 DEF Woken
<1>7. Answering(e) BY <1>1, <1>5 DEF Answering
<1>8. EngineSound(e, d) BY <1>5, <1>6, <1>7 DEF EngineSound
<1>9. EngineInv(eng', sock', d) /\ GaveUp(e, eng')
  BY <1>2, <1>4, <1>5, <1>8, ContinueConnectFacts
<1> QED BY <1>5, <1>9 DEF Handled, GaveUp

\* The delay after a failed login passes.
LEMMA DelayHandled ==
  ASSUME NEW d \in BOOLEAN, EngineInv(eng, sock, d), DelayElapses
  PROVE  Handled(d)
<1>1. /\ eng \in EngineState /\ Woken(eng, d) /\ Answering(eng) /\ Retrying(eng, sock)
      /\ Owned(eng, sock) /\ sock \in SocketState /\ Asking(sock)
  BY DEF EngineInv
<1>2. /\ eng' \in EngineState /\ sock' = sock
      /\ eng'.cmd = eng.cmd /\ eng'.loop = eng.loop /\ eng'.retryTimer = eng.retryTimer
      /\ eng'.retryCount = eng.retryCount /\ eng'.attempts = eng.attempts
      /\ eng'.notes = eng.notes /\ eng'.maySend = eng.maySend /\ eng'.wake = eng.wake
  BY <1>1 DEF DelayElapses, EngineState
<1>3. Woken(eng', d) BY <1>1, <1>2 DEF Woken
<1>4. Answering(eng') BY <1>1, <1>2 DEF Answering
<1>5. Retrying(eng', sock') BY <1>1, <1>2 DEF Retrying
<1>6. Owned(eng', sock') BY <1>1, <1>2 DEF Owned, HasCommandEvent
<1>7. GaveUp(eng, eng') BY <1>2 DEF GaveUp, NoCommand
<1> QED BY <1>1, <1>2, <1>3, <1>4, <1>5, <1>6, <1>7 DEF Handled, EngineInv

\* The operation on top of the stack is changed, but not its kind.
LEMMA TopUpdate ==
  ASSUME NEW s \in SocketState, Asking(s), s.conn # "none", s.ops # <<>>,
         NEW x \in Op, x.kind = s.ops[Len(s.ops)].kind,
         NEW t, t = [s EXCEPT !.ops[Len(s.ops)] = x]
  PROVE  /\ t \in SocketState /\ Asking(t) /\ t.conn = s.conn
         /\ Len(t.ops) = Len(s.ops) /\ t.ops # <<>> /\ t.ops[Len(t.ops)] = x
<1> DEFINE n == Len(s.ops)
           q == [s.ops EXCEPT ![n] = x]
<1>1. s.ops \in Seq(Op) BY DEF SocketState
<1>2. n \in Nat \ {0} /\ DOMAIN s.ops = 1..n /\ n \in DOMAIN s.ops BY <1>1, EmptySeq
<1>3. t = [s EXCEPT !.ops = q] BY DEF SocketState
<1>4. q \in Seq(Op) /\ DOMAIN q = 1..n /\ q[n] = x /\ \A i \in 1..n - 1 : q[i] = s.ops[i]
      /\ Len(q) = n
  BY <1>1, <1>2
<1> HIDE DEF q
<1>5. t \in SocketState /\ t.ops = q /\ t.conn = s.conn BY <1>3, <1>4 DEF SocketState
<1>6. ASSUME NEW i \in DOMAIN q, i + 1 \in DOMAIN q, q[i].req # 0
      PROVE  q[i + 1].kind = "work"
  <2>1. i \in 1..n - 1 /\ i \in DOMAIN s.ops /\ i + 1 \in DOMAIN s.ops BY <1>6, <1>2, <1>4
  <2>2. s.ops[i + 1].kind = "work" BY <2>1, <1>4, <1>6 DEF Asking
  <2>3. q[i + 1].kind = s.ops[i + 1].kind
    <3>1. CASE i + 1 = n BY <3>1, <1>4
    <3>2. CASE i + 1 # n
      <4>1. i + 1 \in 1..n - 1 BY <3>2, <2>1, <1>2
      <4> QED BY <4>1, <1>4
    <3> QED BY <3>1, <3>2
  <2> QED BY <2>2, <2>3
<1>7. Asking(t) BY <1>5, <1>6 DEF Asking
<1>8. q # <<>> BY <1>2, <1>4
<1> QED BY <1>4, <1>5, <1>7, <1>8

\* A request of the top operation is made or answered.
LEMMA TopRequest ==
  ASSUME NEW s \in SocketState, Asking(s), s.conn # "none", s.ops # <<>>,
         NEW n \in 0..MaxRequests,
         NEW t, t = [s EXCEPT !.ops[Len(s.ops)].req = n]
  PROVE  t \in SocketState /\ Asking(t) /\ t.conn = s.conn /\ t.ops # <<>>
<1> DEFINE x == [s.ops[Len(s.ops)] EXCEPT !.req = n]
<1>1. s.ops \in Seq(Op) BY DEF SocketState
<1>2. s.ops[Len(s.ops)] \in Op
  <2>1. Len(s.ops) \in DOMAIN s.ops BY <1>1, EmptySeq
  <2> QED BY <1>1, <2>1
<1>3. x \in Op /\ x.kind = s.ops[Len(s.ops)].kind BY <1>2 DEF Op
<1>4. t = [s EXCEPT !.ops[Len(s.ops)] = x] OBVIOUS
<1> HIDE DEF x
<1> QED BY <1>3, <1>4, TopUpdate

\* A suboperation is pushed on an operation that does not wait for the user.
LEMMA CallHandled ==
  ASSUME NEW d \in BOOLEAN, EngineInv(eng, sock, d), CallSuboperation
  PROVE  Handled(d)
<1>1. /\ eng \in EngineState /\ Woken(eng, d) /\ Answering(eng) /\ Retrying(eng, sock)
      /\ Owned(eng, sock) /\ sock \in SocketState /\ Asking(sock)
  BY DEF EngineInv
<1>2. sock.ops # <<>> /\ sock.ops[Len(sock.ops)].req = 0 /\ eng' = eng
  BY DEF CallSuboperation, HasOp, Top
<1> DEFINE x == [sock.ops[Len(sock.ops)] EXCEPT !.called = TRUE]
           t == [sock EXCEPT !.ops[Len(sock.ops)].called = TRUE]
<1>3. sock.conn # "none" BY <1>1, <1>2 DEF Asking
<1>4. sock.ops \in Seq(Op) BY <1>1 DEF SocketState
<1>5. sock.ops[Len(sock.ops)] \in Op
  <2>1. Len(sock.ops) \in DOMAIN sock.ops BY <1>2, <1>4, EmptySeq
  <2> QED BY <1>4, <2>1
<1>6. x \in Op /\ x.kind = sock.ops[Len(sock.ops)].kind /\ x.req = 0 BY <1>2, <1>5 DEF Op
<1>7. t = [sock EXCEPT !.ops[Len(sock.ops)] = x] OBVIOUS
<1>8. sock' = Push(t, "sub") BY DEF CallSuboperation
<1> HIDE DEF x, t
<1>9. /\ t \in SocketState /\ Asking(t) /\ t.conn = sock.conn /\ t.ops # <<>>
      /\ t.ops[Len(t.ops)].req = 0
  BY <1>1, <1>2, <1>3, <1>6, <1>7, TopUpdate
<1>10. sock' \in SocketState /\ Asking(sock') /\ sock'.conn = sock.conn /\ sock'.ops # <<>>
  BY <1>3, <1>8, <1>9, PushFacts
<1>11. Retrying(eng', sock') BY <1>1, <1>2, <1>10 DEF Retrying
<1>12. Owned(eng', sock') BY <1>10 DEF Owned
<1>13. GaveUp(eng, eng') BY <1>2 DEF GaveUp, NoCommand
<1> QED BY <1>1, <1>2, <1>10, <1>11, <1>12, <1>13 DEF Handled, EngineInv

\* An operation ends.
LEMMA EndHandled ==
  ASSUME NEW d \in BOOLEAN, EngineInv(eng, sock, d),
         NEW code \in PlainCodes, OperationEnds(code)
  PROVE  Handled(d)
<1>1. EngineSound(eng, d) /\ sock \in SocketState /\ Asking(sock) BY EngineIsSound
<1>2. sock.conn # "none" BY DEF OperationEnds
<1>3. PICK o \in IF Top.kind = "connect" /\ code # OK
                 THEN {DoClose(sock, code)} ELSE SocketReset(sock, code) : Settle(eng, o)
  BY DEF OperationEnds
<1>4. code \in SUBSET Flags BY CodeFacts
<1>5. o = DoClose(sock, code) \/ o \in SocketReset(sock, code) BY <1>3
<1>6. Sound(o) BY <1>1, <1>2, <1>4, <1>5, DoCloseFacts, SocketResetFacts
<1> QED BY <1>1, <1>2, <1>3, <1>6, SettledFacts

\* The connection is lost or the operation times out.
LEMMA DropHandled ==
  ASSUME NEW d \in BOOLEAN, EngineInv(eng, sock, d), ConnectionLost \/ OperationTimesOut
  PROVE  Handled(d)
<1> DEFINE e == [eng EXCEPT !.drops = @ + 1]
<1>1. EngineSound(eng, d) /\ sock \in SocketState /\ Asking(sock) BY EngineIsSound
<1>2. PICK code \in {OK, Timeout} : Settle(e, DoClose(sock, code))
  BY DEF ConnectionLost, OperationTimesOut
<1>3. sock.conn # "none" BY <1>1 DEF ConnectionLost, OperationTimesOut, HasOp, Asking
<1>4. eng.drops < MaxDrops BY DEF ConnectionLost, OperationTimesOut
<1>5. eng \in EngineState /\ Woken(eng, d) /\ Answering(eng) BY <1>1 DEF EngineSound
<1>6. eng.drops + 1 \in 0..MaxDrops BY <1>4, <1>5, AttemptsFacts DEF EngineState
<1>7. /\ e \in EngineState
      /\ e.cmd = eng.cmd /\ e.loop = eng.loop /\ e.retryTimer = eng.retryTimer
      /\ e.retryCount = eng.retryCount /\ e.attempts = eng.attempts
      /\ e.notes = eng.notes /\ e.maySend = eng.maySend /\ e.wake = eng.wake
  BY <1>5, <1>6 DEF EngineState
<1> HIDE DEF e
<1>8. Woken(e, d) BY <1>5, <1>7 DEF Woken
<1>9. Answering(e) BY <1>5, <1>7 DEF Answering
<1>10. EngineSound(e, d) BY <1>1, <1>7, <1>8, <1>9 DEF EngineSound
<1>11. Sound(DoClose(sock, code)) BY CodeFacts, DoCloseFacts
<1> QED BY <1>2, <1>3, <1>7, <1>10, <1>11, SettledFacts

\* A request is sent to the user, and the operation waits for the reply.
LEMMA RequestHandled ==
  ASSUME NEW d \in BOOLEAN, EngineInv(eng, sock, d),
         NEW global \in BOOLEAN, SendAsyncRequest(global)
  PROVE  Handled(d)
<1>1. /\ eng \in EngineState /\ Woken(eng, d) /\ Answering(eng) /\ Retrying(eng, sock)
      /\ sock \in SocketState /\ Asking(sock)
  BY DEF EngineInv
<1> DEFINE n == eng.requests + 1
           e == [eng EXCEPT !.requests = n]
<1>2. /\ sock.conn # "none" /\ sock.ops # <<>> /\ eng.requests < MaxRequests
      /\ eng' = AddNotification(e, RequestNote(n))
      /\ sock' = IF global THEN [sock EXCEPT !.greq = n]
                 ELSE [sock EXCEPT !.ops[Len(sock.ops)].req = n]
  BY DEF SendAsyncRequest, HasOp
<1>3. n \in 0..MaxRequests BY <1>1, <1>2, AttemptsFacts DEF EngineState
<1> HIDE DEF n
<1>4. /\ e \in EngineState
      /\ e.cmd = eng.cmd /\ e.loop = eng.loop /\ e.retryTimer = eng.retryTimer
      /\ e.retryCount = eng.retryCount /\ e.attempts = eng.attempts
      /\ e.notes = eng.notes /\ e.maySend = eng.maySend /\ e.wake = eng.wake
  BY <1>1, <1>3 DEF EngineState
<1> HIDE DEF e
<1>5. RequestNote(n) \in Notification BY <1>3, CodeFacts DEF RequestNote, Notification
<1>6. /\ eng' \in EngineState
      /\ eng'.cmd = e.cmd /\ eng'.loop = e.loop /\ eng'.retryTimer = e.retryTimer
      /\ eng'.retryCount = e.retryCount /\ eng'.attempts = e.attempts
      /\ Woken(e, d) => Woken(eng', d)
  BY <1>2, <1>4, <1>5, AddNotificationFacts
<1>7. Woken(eng', d) BY <1>1, <1>4, <1>6 DEF Woken
<1>8. Answering(eng') BY <1>1, <1>4, <1>6 DEF Answering
<1>9. sock' \in SocketState /\ Asking(sock') /\ sock'.conn = sock.conn /\ sock'.ops # <<>>
  <2>1. CASE global
    <3>1. sock' \in SocketState /\ sock'.conn = sock.conn /\ sock'.ops = sock.ops
      BY <2>1, <1>1, <1>2, <1>3 DEF SocketState
    <3> QED BY <3>1, <1>1, <1>2 DEF Asking
  <2>2. CASE ~global
    <3>1. sock' = [sock EXCEPT !.ops[Len(sock.ops)].req = n] BY <2>2, <1>2
    <3> QED BY <3>1, <1>1, <1>2, <1>3, TopRequest
  <2> QED BY <2>1, <2>2
<1>10. Retrying(eng', sock') BY <1>1, <1>4, <1>6, <1>9 DEF Retrying
<1>11. Owned(eng', sock') BY <1>9 DEF Owned
<1>12. GaveUp(eng, eng') BY <1>4, <1>6 DEF GaveUp, NoCommand
<1> QED BY <1>6, <1>7, <1>8, <1>9, <1>10, <1>11, <1>12 DEF Handled, EngineInv

\* A reply is passed to the socket, which goes on or gives up.
LEMMA ReplyHandled ==
  ASSUME NEW d \in BOOLEAN, EngineInv(eng, sock, d), OnSetAsyncRequestReplyEvent
  PROVE  Handled(d)
<1> DEFINE r == Head(eng.loop)
           to == ReplyTo(sock, r.req)
           s == CASE to = "global" -> [sock EXCEPT !.greq = 0]
                  [] to = "operation" -> [sock EXCEPT !.ops[Len(sock.ops)].req = 0]
                  [] OTHER -> sock
<1>1. NextEvent("reply") BY DEF OnSetAsyncRequestReplyEvent
<1>2. /\ EngineSound(Popped, d)
      /\ Popped.cmd = eng.cmd /\ Popped.retryTimer = eng.retryTimer
      /\ Popped.retryCount = eng.retryCount /\ Popped.attempts = eng.attempts
      /\ HasCommandEvent(eng) => HasCommandEvent(Popped)
  BY <1>1, PoppedFacts
<1>3. sock \in SocketState /\ Asking(sock) /\ Owned(eng, sock) /\ Retrying(eng, sock)
  BY DEF EngineInv
<1>4. PICK o \in IF to = "ignored" \/ r.accept THEN {Running(s)}
                 ELSE {DoClose(s, Critical)} \cup
                      (IF to = "operation" THEN SocketReset(s, Canceled) ELSE {})
               : Settle(Popped, o)
  BY DEF OnSetAsyncRequestReplyEvent
<1>5. to \in {"global", "operation", "ignored"} BY DEF ReplyTo
<1>6. /\ to # "ignored" => sock.conn # "none"
      /\ to = "operation" => sock.ops # <<>>
  BY DEF ReplyTo
<1>7. /\ s \in SocketState /\ Asking(s) /\ s.conn = sock.conn
      /\ sock.ops # <<>> <=> s.ops # <<>>
      /\ to = "ignored" => s = sock
  <2>1. CASE to = "global"
    <3>1. s = [sock EXCEPT !.greq = 0] BY <2>1
    <3>2. 0 \in 0..MaxRequests BY AttemptsFacts
    <3> HIDE DEF s, to
    <3>3. s \in SocketState /\ s.conn = sock.conn /\ s.ops = sock.ops
      BY <3>1, <3>2, <1>3 DEF SocketState
    <3> QED BY <3>3, <2>1, <1>3 DEF Asking
  <2>2. CASE to = "operation"
    <3>1. s = [sock EXCEPT !.ops[Len(sock.ops)].req = 0] BY <2>2
    <3>2. 0 \in 0..MaxRequests BY AttemptsFacts
    <3> HIDE DEF s, to
    <3> QED BY <3>1, <3>2, <2>2, <1>3, <1>6, TopRequest
  <2>3. CASE to = "ignored"
    <3>1. s = sock BY <2>3
    <3> QED BY <3>1, <1>3
  <2> QED BY <2>1, <2>2, <2>3, <1>5
<1> HIDE DEF s, to, r
<1>8. CASE to = "ignored" \/ r.accept
  <2>1. o = Running(s) BY <1>4, <1>8
  <2>2. eng' = Popped /\ sock' = s BY <2>1, <1>4 DEF Settle, Running
  <2>3. Owned(Popped, s) BY <1>2, <1>3, <1>7 DEF Owned
  <2>4. Retrying(Popped, s) BY <1>2, <1>3, <1>7 DEF Retrying
  <2>5. GaveUp(eng, Popped) BY <1>2 DEF GaveUp, NoCommand
  <2> QED BY <2>2, <2>3, <2>4, <2>5, <1>2, <1>7 DEF Handled, EngineInv, EngineSound
<1>9. CASE ~(to = "ignored" \/ r.accept)
  <2>1. o = DoClose(s, Critical) \/ o \in SocketReset(s, Canceled) BY <1>4, <1>9
  <2>2. sock.conn # "none" BY <1>6, <1>9
  <2>3. Sound(o) BY <2>1, <2>2, <1>7, CodeFacts, DoCloseFacts, SocketResetFacts
  <2> QED BY <2>2, <2>3, <1>2, <1>4, SettledFacts
<1> QED BY <1>8, <1>9

\* Every step of the event loop preserves the engine's invariant and gives up a
\* connect command only after all its attempts.
LEMMA LoopHandled ==
  ASSUME NEW d \in BOOLEAN, EngineInv(eng, sock, d), LoopNext
  PROVE  Handled(d)
BY CommandEventHandled, CancelHandled, TimerHandled, DelayHandled, ReplyHandled, CallHandled,
   DropHandled, EndHandled, RequestHandled
   DEF LoopNext

-----------------------------------------------------------------------------
(* Calls of the client.                                                     *)

\* What the client's calls do to engine e: it may have become busy, and events
\* may have been added.
Called(e, f) ==
  /\ f \in EngineState
  /\ f.notes = e.notes /\ f.maySend = e.maySend /\ f.wake = e.wake
  /\ f.retryTimer = e.retryTimer /\ f.retryCount = e.retryCount
  /\ \A i \in DOMAIN e.loop : i \in DOMAIN f.loop /\ f.loop[i] = e.loop[i]
  /\ Answering(e) => Answering(f)
  /\ \/ f.cmd = e.cmd /\ f.attempts = e.attempts
     \/ /\ e.cmd = NoCommand /\ f.cmd \in Kinds /\ HasCommandEvent(f)
        /\ f.cmd = "connect" => sock.conn = "none"

\* Several calls in one handler.
LEMMA CalledTransitive ==
  ASSUME NEW e, NEW f, NEW g, Called(e, f), Called(f, g)
  PROVE  Called(e, g)
<1>1. NoCommand \notin Kinds BY DEF NoCommand, Kinds
<1>2. HasCommandEvent(f) => HasCommandEvent(g) BY DEF Called, HasCommandEvent
<1>3. \A i \in DOMAIN e.loop : i \in DOMAIN g.loop /\ g.loop[i] = e.loop[i] BY DEF Called
<1>4. \/ g.cmd = e.cmd /\ g.attempts = e.attempts
      \/ /\ e.cmd = NoCommand /\ g.cmd \in Kinds /\ HasCommandEvent(g)
         /\ g.cmd = "connect" => sock.conn = "none"
  BY <1>1, <1>2 DEF Called
<1> QED BY <1>3, <1>4 DEF Called

\* No call.
LEMMA CalledReflexive ==
  ASSUME NEW e \in EngineState
  PROVE  Called(e, e)
BY DEF Called

\* The client's calls preserve the engine's invariant.
LEMMA CalledInvariant ==
  ASSUME NEW d \in BOOLEAN, NEW e, EngineInv(e, sock, d), NEW f, Called(e, f)
  PROVE  EngineInv(f, sock, d)
<1>1. Woken(f, d) BY DEF EngineInv, Called, Woken
<1>2. Retrying(f, sock) BY DEF EngineInv, Called, Retrying, NoCommand
<1>3. HasCommandEvent(e) => HasCommandEvent(f) BY DEF Called, HasCommandEvent
<1>4. Owned(f, sock) BY <1>3 DEF EngineInv, Called, Owned
<1>5. Answering(f) BY DEF EngineInv, Called
<1> QED BY <1>1, <1>2, <1>4, <1>5 DEF EngineInv, Called

\* An event is sent.
LEMMA EnqueueFacts ==
  ASSUME NEW e \in EngineState, NEW ev \in {"command", "cancel", "reply"},
         NEW n \in 0..MaxRequests, NEW accept \in BOOLEAN, ev = "reply" => n # 0,
         NEW f, f = Enqueue(e, ev, n, accept)
  PROVE  /\ Called(e, f)
         /\ f.cmd = e.cmd /\ f.attempts = e.attempts
         /\ ev = "command" => HasCommandEvent(f)
<1> DEFINE x == [ev |-> ev, req |-> n, accept |-> accept]
<1>1. e.loop \in Seq(Event) BY DEF EngineState
<1>2. x \in Event /\ x.ev = ev /\ x.req = n BY DEF Event
<1> HIDE DEF x
<1>3. /\ Append(e.loop, x) \in Seq(Event)
      /\ DOMAIN e.loop = 1..Len(e.loop) /\ Len(e.loop) \in Nat
      /\ DOMAIN Append(e.loop, x) = 1..Len(e.loop) + 1
      /\ \A i \in 1..Len(e.loop) : Append(e.loop, x)[i] = e.loop[i]
      /\ Append(e.loop, x)[Len(e.loop) + 1] = x
  BY <1>1, <1>2, AppendProperties
<1>4. f = [e EXCEPT !.loop = Append(e.loop, x)] BY DEF Enqueue, x
<1>5. /\ f \in EngineState
      /\ f.loop = Append(e.loop, x) /\ f.cmd = e.cmd /\ f.attempts = e.attempts
      /\ f.notes = e.notes /\ f.maySend = e.maySend /\ f.wake = e.wake
      /\ f.retryTimer = e.retryTimer /\ f.retryCount = e.retryCount
  BY <1>3, <1>4 DEF EngineState
<1>6. \A i \in DOMAIN e.loop : i \in DOMAIN f.loop /\ f.loop[i] = e.loop[i] BY <1>3, <1>5
<1>7. ASSUME Answering(e) PROVE Answering(f)
  <2> SUFFICES ASSUME NEW i \in DOMAIN f.loop, f.loop[i].ev = "reply" PROVE f.loop[i].req # 0
    BY DEF Answering
  <2>1. CASE i = Len(e.loop) + 1 BY <2>1, <1>2, <1>3, <1>5
  <2>2. CASE i # Len(e.loop) + 1
    <3>1. i \in DOMAIN e.loop BY <2>2, <1>3, <1>5
    <3> QED BY <3>1, <1>6, <1>7 DEF Answering
  <2> QED BY <2>1, <2>2
<1>8. ASSUME ev = "command" PROVE HasCommandEvent(f)
  <2>1. Len(e.loop) + 1 \in DOMAIN f.loop BY <1>3, <1>5
  <2> QED BY <2>1, <1>2, <1>3, <1>5, <1>8 DEF HasCommandEvent
<1> QED BY <1>5, <1>6, <1>7, <1>8 DEF Called

\* CFileZillaEnginePrivate::Execute of an idle engine, Cancel.
LEMMA ExecuteFacts ==
  ASSUME NEW e \in EngineState, e.cmd = NoCommand, NEW kind \in Kinds,
         kind = "connect" => sock.conn = "none"
  PROVE  Called(e, Execute(e, kind))
<1> DEFINE g == [e EXCEPT !.cmd = kind, !.attempts = 0]
<1>0. 0 \in 0..Attempts /\ 0 \in 0..MaxRequests BY AttemptsFacts
<1>1. /\ g \in EngineState
      /\ g.cmd = kind /\ g.loop = e.loop
      /\ g.notes = e.notes /\ g.maySend = e.maySend /\ g.wake = e.wake
      /\ g.retryTimer = e.retryTimer /\ g.retryCount = e.retryCount
  BY <1>0 DEF EngineState
<1> DEFINE f == Execute(e, kind)
<1>2. f = Enqueue(g, "command", 0, FALSE) BY DEF Execute
<1> HIDE DEF g, f
<1>3. Called(g, f) /\ f.cmd = g.cmd /\ HasCommandEvent(f)
  <2>1. "command" \in {"command", "cancel", "reply"} /\ FALSE \in BOOLEAN /\ "command" # "reply"
    OBVIOUS
  <2>2. g \in EngineState /\ 0 \in 0..MaxRequests BY <1>0, <1>1
  <2>3. Called(g, f) BY ONLY <1>2, <2>1, <2>2, EnqueueFacts, Zenon
  <2>4. HasCommandEvent(f) BY ONLY <1>2, <2>1, <2>2, EnqueueFacts, Zenon
  <2>5. f.cmd = g.cmd BY DEF f, g, Execute, Enqueue, EngineState
  <2> QED BY <2>3, <2>4, <2>5
<1>4. Answering(e) => Answering(g) BY <1>1 DEF Answering
<1>5. Called(e, f) BY <1>1, <1>3, <1>4 DEF Called
<1> QED BY <1>5 DEF f

\* CFileZillaEnginePrivate::Cancel
LEMMA CancelFacts ==
  ASSUME NEW e \in EngineState
  PROVE  Called(e, Cancel(e)) /\ Cancel(e).cmd = e.cmd
<1>1. CASE e.cmd = NoCommand BY <1>1, CalledReflexive DEF Cancel
<1>2. CASE e.cmd # NoCommand
  <2>1. Cancel(e) = Enqueue(e, "cancel", 0, FALSE) BY <1>2 DEF Cancel
  <2>2. 0 \in 0..MaxRequests BY AttemptsFacts
  <2> QED BY <2>1, <2>2, EnqueueFacts, ZenonT(60)
<1> QED BY <1>1, <1>2

-----------------------------------------------------------------------------
(* The command list.                                                        *)

\* A nonempty set of naturals has a least element.
LEMMA LeastIndex ==
  ASSUME NEW K \in SUBSET Nat, K # {}
  PROVE  Min(K) \in K
<1> DEFINE T == {0..k : k \in K}
           R == StrictSubsetOrdering(Nat)
           S == FiniteSubsetsOf(Nat)
<1>1. ASSUME NEW k \in K PROVE 0..k \in S
  BY FS_Interval DEF FiniteSubsetsOf
<1>2. PICK x \in T : \A y \in T : <<y, x>> \notin R
  <2>1. T \subseteq S /\ T # {} BY <1>1
  <2>2. IsWellFoundedOn(R, S) BY FS_StrictSubsetOrderingWellFounded
  <2> HIDE DEF T, R, S
  <2> QED BY <2>1, <2>2, WFMin
<1>3. PICK m \in K : x = 0..m OBVIOUS
<1>4. ASSUME NEW k \in K PROVE m <= k
  <2> SUFFICES ASSUME k < m PROVE FALSE OBVIOUS
  <2>1. m \in 0..m /\ m \notin 0..k /\ 0..k \subseteq 0..m OBVIOUS
  <2>2. <<0..k, 0..m>> \in R BY <2>1 DEF StrictSubsetOrdering
  <2> QED BY <2>2, <1>2, <1>3
<1> QED BY <1>4 DEF Min

\* A command list from an index on.
LEMMA FromIndex ==
  ASSUME NEW l \in Seq(CommandInfo), NEW n \in 1..Len(l)
  PROVE  SubSeq(l, n, Len(l)) \in Seq(CommandInfo)
<1>1. n \in Int /\ Len(l) \in Int /\ \A k \in n..Len(l) : l[k] \in CommandInfo
  <2>1. Len(l) \in Nat /\ n \in Nat /\ n >= 1 OBVIOUS
  <2>2. ASSUME NEW k \in n..Len(l) PROVE l[k] \in CommandInfo
    <3>1. k \in 1..Len(l) BY <2>1
    <3> QED BY <3>1
  <2> QED BY <2>1, <2>2
<1> QED BY ONLY <1>1, SubSeqProperties

\* The least of a set of indices, or 0.
LEMMA LeastOrZero ==
  ASSUME NEW n \in Nat, NEW K \in SUBSET (1..n)
  PROVE  (IF K # {} THEN Min(K) ELSE 0) \in 0..n
<1>1. CASE K = {} BY <1>1
<1>2. CASE K # {}
  <2>1. K \in SUBSET Nat OBVIOUS
  <2>2. Min(K) \in K BY <1>2, <2>1, LeastIndex
  <2>3. PICK k \in K : k = Min(K) BY <2>2
  <2>4. k \in 0..n OBVIOUS
  <2> QED BY <1>2, <2>3, <2>4
<1> QED BY <1>1, <1>2

\* The first command of a kind, or of another kind.
LEMMA SelectIndex ==
  ASSUME NEW l \in Seq(CommandInfo)
  PROVE  /\ SelectInSeq(l, LAMBDA c : c.kind # "work") \in 0..Len(l)
         /\ SelectInSeq(l, LAMBDA c : c.kind = "connect") \in 0..Len(l)
<1> DEFINE I == {i \in 1..Len(l) : l[i].kind # "work"}
           J == {i \in 1..Len(l) : l[i].kind = "connect"}
<1>1. I \in SUBSET (1..Len(l)) /\ J \in SUBSET (1..Len(l)) /\ Len(l) \in Nat
  OBVIOUS
<1>2. SelectInSeq(l, LAMBDA c : c.kind # "work") = IF I # {} THEN Min(I) ELSE 0
  BY DEF SelectInSeq
<1>3. SelectInSeq(l, LAMBDA c : c.kind = "connect") = IF J # {} THEN Min(J) ELSE 0
  BY DEF SelectInSeq
<1> HIDE DEF I, J
<1>4. (IF I # {} THEN Min(I) ELSE 0) \in 0..Len(l) BY <1>1, LeastOrZero
<1>5. (IF J # {} THEN Min(J) ELSE 0) \in 0..Len(l) BY <1>1, LeastOrZero
<1> QED BY <1>2, <1>3, <1>4, <1>5

\* An entry of the list.
LEMMA EntryType ==
  ASSUME NEW kind \in Kinds
  PROVE  Entry(kind) \in CommandInfo /\ Entry(kind).kind = kind
BY DEF Entry, CommandInfo

\* A command is put in front of the list.
LEMMA PrecededBy ==
  ASSUME NEW l \in Seq(CommandInfo), NEW kind \in Kinds
  PROVE  /\ <<Entry(kind)>> \o l \in Seq(CommandInfo)
         /\ <<Entry(kind)>> \o l # <<>>
         /\ (<<Entry(kind)>> \o l)[1].kind = kind
<1> DEFINE x == Entry(kind)
<1>1. x \in CommandInfo /\ x.kind = kind BY EntryType
<1> HIDE DEF x
<1>2. /\ <<x>> \o l \in Seq(CommandInfo) /\ Len(<<x>> \o l) = 1 + Len(l)
      /\ (<<x>> \o l)[1] = x
  BY <1>1, ConcatProperties
<1>3. <<x>> \o l # <<>> BY <1>2
<1> QED BY <1>1, <1>2, <1>3 DEF x

\* The list that ProcessNextCommand works on.
LEMMA ExecutableFacts ==
  ASSUME NEW l \in Seq(CommandInfo), NEW q, q = WithDisconnect(Executable(l))
  PROVE  /\ q \in Seq(CommandInfo)
         /\ q # <<>> => /\ q[1].kind \in Kinds
                        /\ q[1].kind = "connect" => sock.conn = "none"
<1> DEFINE p == Executable(l)
           n == SelectInSeq(l, LAMBDA c : c.kind # "work")
<1>1. p \in Seq(CommandInfo)
  <2>1. CASE sock.conn # "none" BY <2>1 DEF Executable
  <2>2. CASE sock.conn = "none"
    <3>1. p = IF n = 0 THEN <<>> ELSE SubSeq(l, n, Len(l)) BY <2>2 DEF Executable
    <3>2. n \in 0..Len(l) BY SelectIndex
    <3> HIDE DEF n, p
    <3>3. CASE n = 0 BY <3>1, <3>3
    <3>4. CASE n # 0
      <4>1. n \in 1..Len(l) BY <3>2, <3>4
      <4> QED BY <3>1, <3>4, <4>1, FromIndex
    <3> QED BY <3>3, <3>4
  <2> QED BY <2>1, <2>2
<1> HIDE DEF p
<1>2. q = IF p # <<>> /\ p[1].kind = "connect" /\ sock.conn # "none"
          THEN <<Entry("disconnect")>> \o p ELSE p
  BY DEF WithDisconnect, p
<1>3. CASE p # <<>> /\ p[1].kind = "connect" /\ sock.conn # "none"
  <2>1. "disconnect" \in Kinds BY DEF Kinds
  <2> QED BY <1>1, <1>2, <1>3, <2>1, PrecededBy
<1>4. CASE ~(p # <<>> /\ p[1].kind = "connect" /\ sock.conn # "none")
  <2>1. q = p BY <1>2, <1>4
  <2>2. ASSUME p # <<>> PROVE p[1].kind \in Kinds
    <3>1. Len(p) \in Nat \ {0} BY <1>1, <2>2, EmptySeq
    <3>2. p[1] \in CommandInfo BY <1>1, <3>1
    <3> QED BY <3>2 DEF CommandInfo
  <2> QED BY <1>1, <1>4, <2>1, <2>2
<1> QED BY <1>3, <1>4

\* The commands left after a failed connect command.
LEMMA AfterFailedFacts ==
  ASSUME NEW l \in Seq(CommandInfo), l # <<>>
  PROVE  /\ Tail(l) \in Seq(CommandInfo)
         /\ AfterFailedConnect(l) \in Seq(CommandInfo)
<1> DEFINE r == Tail(l)
           n == SelectInSeq(r, LAMBDA c : c.kind = "connect")
<1>1. r \in Seq(CommandInfo) BY HeadTailProperties
<1>2. AfterFailedConnect(l) = IF n = 0 THEN <<>> ELSE SubSeq(r, n, Len(r))
  BY DEF AfterFailedConnect
<1> HIDE DEF r
<1>3. n \in 0..Len(r) BY <1>1, SelectIndex
<1> HIDE DEF n
<1>4. CASE n = 0 BY <1>1, <1>2, <1>4 DEF r
<1>5. CASE n # 0
  <2>1. n \in 1..Len(r) BY <1>1, <1>3, <1>5
  <2> QED BY <1>1, <1>2, <1>5, <2>1, FromIndex DEF r
<1> QED BY <1>4, <1>5

-----------------------------------------------------------------------------
(* The handlers of the main thread.                                         *)

\* What a handler works on.
Held == [e : EngineState, l : Seq(CommandInfo), u : MainState]

\* A handler has gone from m to r by calls of the client.
Carried(m, r) ==
  /\ r \in Held
  /\ Called(m.e, r.e)
  /\ r.u.draining = m.u.draining

\* Commands are replaced, and what is known of the site changes.
LEMMA HeldFacts ==
  ASSUME NEW m \in Held
  PROVE  /\ m.e \in EngineState /\ m.l \in Seq(CommandInfo) /\ m.u \in MainState
         /\ Called(m.e, m.e)
BY CalledReflexive DEF Held

\* CCommandQueue::ProcessNextCommand
LEMMA NextCommandFacts ==
  ASSUME NEW m \in Held, NEW r, r = ProcessNextCommand(m)
  PROVE  Carried(m, r)
<1>1. CASE m.e.cmd # NoCommand
  <2>1. r = m BY <1>1 DEF ProcessNextCommand
  <2> QED BY <2>1, HeldFacts DEF Carried
<1>2. CASE m.e.cmd = NoCommand
  <2> DEFINE l == WithDisconnect(Executable(m.l))
  <2>1. /\ l \in Seq(CommandInfo)
        /\ l # <<>> => l[1].kind \in Kinds /\ (l[1].kind = "connect" => sock.conn = "none")
    BY HeldFacts, ExecutableFacts
  <2>2. r = IF l = <<>> THEN [m EXCEPT !.l = <<>>, !.u.site = @ /\ m.u.success]
            ELSE [m EXCEPT !.e = Execute(@, l[1].kind), !.l = l]
    BY <1>2 DEF ProcessNextCommand
  <2> HIDE DEF l
  <2>3. CASE l = <<>>
    <3> DEFINE v == [m.u EXCEPT !.site = @ /\ m.u.success]
    <3>1. r = [m EXCEPT !.l = l, !.u.site = @ /\ m.u.success] BY <2>2, <2>3
    <3>2. r.l = l /\ r.e = m.e /\ r = [e |-> m.e, l |-> l, u |-> v] BY <3>1 DEF Held
    <3>3. v \in MainState /\ v.draining = m.u.draining
      <4>1. PICK b \in BOOLEAN : b = (m.u.site /\ m.u.success) OBVIOUS
      <4>2. v = [m.u EXCEPT !.site = b] BY <4>1
      <4> QED BY <4>2, HeldFacts DEF MainState
    <3> HIDE DEF v
    <3>4. r \in Held /\ r.e = m.e /\ r.u.draining = m.u.draining
      BY <3>2, <3>3, <2>1, HeldFacts DEF Held
    <3> QED BY <3>4, HeldFacts DEF Carried
  <2>4. CASE l # <<>>
    <3>1. r = [m EXCEPT !.e = Execute(m.e, l[1].kind), !.l = l] BY <2>2, <2>4
    <3>2. Called(m.e, Execute(m.e, l[1].kind)) BY <1>2, <2>1, <2>4, HeldFacts, ExecuteFacts
    <3>3. Execute(m.e, l[1].kind) \in EngineState BY <3>2 DEF Called
    <3>4. r \in Held /\ r.e = Execute(m.e, l[1].kind) /\ r.u = m.u
      BY <3>1, <3>3, <2>1 DEF Held
    <3> QED BY <3>2, <3>4 DEF Carried
  <2> QED BY <2>3, <2>4
<1> QED BY <1>1, <1>2

\* A handler changes its list, then processes the next command.
LEMMA CarriedOn ==
  ASSUME NEW m \in Held, NEW n, Carried(m, n), NEW r, Carried(n, r)
  PROVE  Carried(m, r)
BY CalledTransitive DEF Carried

\* CCommandQueue::ProcessCommand
LEMMA CommandsFacts ==
  ASSUME NEW m \in Held, NEW kinds \in Seq(Kinds), NEW r, r = ProcessCommands(m, kinds)
  PROVE  Carried(m, r)
<1> DEFINE q == [i \in DOMAIN kinds |-> Entry(kinds[i])]
           l == m.l \o q
           n == [m EXCEPT !.l = l]
<1>1. q \in Seq(CommandInfo)
  <2>1. \A i \in 1..Len(kinds) : Entry(kinds[i]) \in CommandInfo BY EntryType
  <2>2. q = [i \in 1..Len(kinds) |-> Entry(kinds[i])] /\ Len(kinds) \in Nat OBVIOUS
  <2> QED BY <2>1, <2>2
<1>2. m.l \in Seq(CommandInfo) BY HeldFacts
<1> HIDE DEF q
<1>3. l \in Seq(CommandInfo) BY <1>1, <1>2, ConcatProperties
<1>4. r = IF m.l = <<>> THEN ProcessNextCommand(n) ELSE n BY DEF ProcessCommands, q
<1> HIDE DEF l
<1>5. n \in Held /\ n.e = m.e /\ n.u = m.u BY <1>3 DEF Held
<1>6. Carried(m, n) BY <1>5, HeldFacts DEF Carried
<1> HIDE DEF n
<1>7. CASE m.l = <<>>
  <2>1. Carried(n, r) BY <1>4, <1>5, <1>7, NextCommandFacts
  <2> QED BY <2>1, <1>6, CarriedOn
<1>8. CASE m.l # <<>> BY <1>4, <1>6, <1>8
<1> QED BY <1>7, <1>8

\* CCommandQueue::Cancel
LEMMA CancelAllFacts ==
  ASSUME NEW m \in Held, NEW r, r = CancelAll(m)
  PROVE  Carried(m, r)
<1>1. CASE m.l = <<>>
  <2>1. r = m BY <1>1 DEF CancelAll
  <2> QED BY <2>1, HeldFacts DEF Carried
<1>2. CASE m.l # <<>>
  <2> DEFINE c == Cancel(m.e)
             l == IF m.e.cmd = NoCommand THEN <<>> ELSE <<m.l[1]>>
  <2>1. Called(m.e, c) BY HeldFacts, CancelFacts
  <2>2. c \in EngineState BY <2>1 DEF Called
  <2>3. l \in Seq(CommandInfo)
    <3>1. m.l[1] \in CommandInfo
      <4>1. m.l \in Seq(CommandInfo) BY HeldFacts
      <4> QED BY <4>1, <1>2, EmptySeq, LenProperties
    <3> QED BY <3>1
  <2>4. r = [m EXCEPT !.e = c, !.l = l] BY <1>2 DEF CancelAll, Held
  <2> HIDE DEF c, l
  <2>5. r \in Held /\ r.e = c /\ r.u = m.u BY <2>2, <2>3, <2>4 DEF Held
  <2> QED BY <2>1, <2>5 DEF Carried
<1> QED BY <1>1, <1>2

\* Only the list of commands changes.
LEMMA ListChanges ==
  ASSUME NEW m \in Held, NEW q \in Seq(CommandInfo), NEW n, n = [m EXCEPT !.l = q]
  PROVE  n \in Held /\ Carried(m, n)
<1>1. n \in Held /\ n.e = m.e /\ n.u = m.u BY DEF Held
<1> QED BY <1>1, HeldFacts DEF Carried

\* The reply to a command that may have been a lost connection is noted.
LEMMA TriedFacts ==
  ASSUME NEW l \in Seq(CommandInfo), l # <<>>, NEW b \in BOOLEAN,
         NEW q, q = [l EXCEPT ![1].didReconnect = @ \/ b]
  PROVE  q \in Seq(CommandInfo) /\ q # <<>>
<1>1. Len(l) \in Nat \ {0} BY EmptySeq
<1>2. 1 \in 1..Len(l) /\ l[1] \in CommandInfo BY <1>1
<1>3. PICK c \in BOOLEAN : c = (l[1].didReconnect \/ b) OBVIOUS
<1> DEFINE x == [l[1] EXCEPT !.didReconnect = c]
<1>4. x \in CommandInfo BY <1>2 DEF CommandInfo
<1>5. q = [l EXCEPT ![1] = x] BY <1>3
<1> HIDE DEF x
<1>6. q \in Seq(CommandInfo) /\ Len(q) = Len(l) BY <1>2, <1>4, <1>5, ExceptSeq
<1> QED BY <1>1, <1>6

\* CCommandQueue::ProcessReply
LEMMA ProcessReplyFacts ==
  ASSUME NEW m \in Held, NEW kind, NEW code, NEW r, r = ProcessReply(m, kind, code)
  PROVE  Carried(m, r)
<1>1. CASE m.l = <<>>
  <2>1. r = m BY <1>1 DEF ProcessReply
  <2> QED BY <2>1, HeldFacts DEF Carried
<1>2. CASE m.l # <<>>
  <2>1. PICK b \in BOOLEAN :
          b = (kind = "work" /\ {"disconnected", "canceled"} \cap code = {"disconnected"})
    OBVIOUS
  <2>2. PICK tried : tried = [m.l EXCEPT ![1].didReconnect = @ \/ b] OBVIOUS
  <2>3. m.l \in Seq(CommandInfo) BY HeldFacts
  <2>4. tried \in Seq(CommandInfo) /\ tried # <<>> BY <1>2, <2>1, <2>2, <2>3, TriedFacts
  <2>5. /\ "connect" \in Kinds /\ "disconnect" \in Kinds
        /\ <<Entry("connect")>> \o tried \in Seq(CommandInfo)
        /\ <<Entry("disconnect")>> \o m.l \in Seq(CommandInfo)
    <3>1. "connect" \in Kinds /\ "disconnect" \in Kinds BY DEF Kinds
    <3> QED BY <3>1, <2>3, <2>4, PrecededBy
  <2>6. /\ Tail(tried) \in Seq(CommandInfo) /\ Tail(m.l) \in Seq(CommandInfo)
        /\ AfterFailedConnect(m.l) \in Seq(CommandInfo)
    BY <1>2, <2>3, <2>4, AfterFailedFacts
  <2> DEFINE first == m.l[1]
             con == [m EXCEPT !.l = <<Entry("connect")>> \o tried]
             again == [m EXCEPT !.l = <<Entry("disconnect")>> \o m.l]
             dead == [m EXCEPT !.l = AfterFailedConnect(m.l)]
             up == [m EXCEPT !.l = Tail(m.l), !.u.success = TRUE]
             rest == [m EXCEPT !.l = Tail(tried)]
  <2>7. \E n \in {con, again, dead, up, rest} : r = ProcessNextCommand(n)
    <3>1. tried = [m.l EXCEPT ![1].didReconnect =
             @ \/ (kind = "work" /\ {"disconnected", "canceled"} \cap code = {"disconnected"})]
      BY <2>1, <2>2
    <3>2. r = IF Reconnects(m, kind, code) THEN ProcessNextCommand(con)
              ELSE ProcessNextCommand(
                 CASE first.kind = "connect" /\ code = AlreadyConnected -> again
                   [] first.kind = "connect" /\ code \notin {OK, AlreadyConnected} -> dead
                   [] first.kind = "connect" /\ code = OK -> up
                   [] first.kind # "connect" -> rest)
      BY <1>2, <3>1 DEF ProcessReply
    <3>3. \/ first.kind = "connect" /\ code = AlreadyConnected
          \/ first.kind = "connect" /\ code \notin {OK, AlreadyConnected}
          \/ first.kind = "connect" /\ code = OK
          \/ first.kind # "connect"
      OBVIOUS
    <3> HIDE DEF con, again, dead, up, rest, first
    <3>4. PICK n : n = CASE first.kind = "connect" /\ code = AlreadyConnected -> again
                   [] first.kind = "connect" /\ code \notin {OK, AlreadyConnected} -> dead
                   [] first.kind = "connect" /\ code = OK -> up
                   [] first.kind # "connect" -> rest
      OBVIOUS
    <3>5. n \in {again, dead, up, rest}
      <4>1. OK # AlreadyConnected BY DEF OK, AlreadyConnected
      <4> QED BY <3>3, <3>4, <4>1
    <3> QED BY <3>2, <3>4, <3>5
  <2>8. \A n \in {con, again, dead, rest} : n \in Held /\ Carried(m, n)
    BY <2>5, <2>6, ListChanges
  <2>9. up \in Held /\ Carried(m, up)
    <3>1. [m.u EXCEPT !.success = TRUE] \in MainState BY HeldFacts DEF MainState
    <3>2. /\ up \in Held /\ up.e = m.e /\ up.u.draining = m.u.draining
      BY <2>6, <3>1 DEF Held, MainState
    <3> QED BY <3>2, HeldFacts DEF Carried
  <2> HIDE DEF con, again, dead, up, rest
  <2>10. PICK n : n \in Held /\ Carried(m, n) /\ r = ProcessNextCommand(n)
    BY <2>7, <2>8, <2>9
  <2> QED BY <2>10, NextCommandFacts, CarriedOn
<1> QED BY <1>1, <1>2

\* A step of the main thread that preserves the invariant and does not end a
\* connect command.
MainStep == IInv' /\ GaveUp(eng, eng')

\* A handler that went from h to m is a step of the main thread.
LEMMA BecomesFacts ==
  ASSUME NEW h \in Held, EngineInv(h.e, sock, h.u.draining), h.e.cmd = eng.cmd,
         NEW m, Carried(h, m), Becomes(m), actions' \in 0..MaxActions
  PROVE  MainStep
<1>1. eng' = m.e /\ list' = m.l /\ ui' = m.u /\ sock' = sock BY DEF Becomes
<1>2. h.u.draining \in BOOLEAN /\ m.u.draining = h.u.draining /\ Called(h.e, m.e)
  BY HeldFacts DEF Carried, MainState
<1>3. EngineInv(m.e, sock, m.u.draining) BY <1>2, CalledInvariant
<1>4. EngineInv(eng', sock', ui'.draining) BY <1>1, <1>3
<1>5. list' \in Seq(CommandInfo) /\ ui' \in MainState BY <1>1, HeldFacts DEF Carried
<1>6. GaveUp(eng, eng') BY <1>1, <1>2 DEF GaveUp, Called, NoCommand
<1> QED BY <1>4, <1>5, <1>6 DEF MainStep, IInv

\* The state the main thread's handlers start from.
LEMMA HereFacts ==
  ASSUME IInv
  PROVE  /\ Here \in Held /\ Here.e = eng /\ Here.l = list /\ Here.u = ui
         /\ EngineInv(Here.e, sock, Here.u.draining)
         /\ eng \in EngineState /\ ui \in MainState
<1>1. eng \in EngineState BY DEF IInv, EngineInv
<1> QED BY <1>1 DEF IInv, Here, Held

\* The actions of the user are counted.
LEMMA UserActsFacts ==
  ASSUME IInv, UserActs
  PROVE  actions' \in 0..MaxActions
BY QueueAssumption DEF IInv, UserActs

\* What is known of the site changes.
LEMMA SiteChanges ==
  ASSUME NEW m \in Held, NEW a \in BOOLEAN, NEW b \in BOOLEAN,
         NEW n, n = [m EXCEPT !.u.site = a, !.u.success = b]
  PROVE  n \in Held /\ Carried(m, n)
<1>1. [m.u EXCEPT !.site = a, !.success = b] \in MainState BY HeldFacts DEF MainState
<1>2. n \in Held /\ n.e = m.e /\ n.u.draining = m.u.draining BY <1>1 DEF Held, MainState
<1> QED BY <1>2, HeldFacts DEF Carried

\* CState::Connect
LEMMA ConnectHandled ==
  ASSUME IInv, UserConnects
  PROVE  MainStep
<1>1. PICK m : m = IF sock.conn # "none" \/ eng.cmd # NoCommand \/ list # <<>>
                   THEN CancelAll(Here) ELSE Here
  OBVIOUS
<1>2. Carried(Here, m) BY <1>1, HereFacts, HeldFacts, CancelAllFacts DEF Carried
<1>3. m \in Held BY <1>2 DEF Carried
<1>4. PICK b \in BOOLEAN : b = (m.u.success /\ m.u.site) OBVIOUS
<1>5. PICK n : n = [m EXCEPT !.u.site = TRUE, !.u.success = b] OBVIOUS
<1>6. n \in Held /\ Carried(m, n) BY <1>3, <1>5, SiteChanges
<1>7. PICK r : r = ProcessCommands(n, <<"connect", "work">>) OBVIOUS
<1>8. <<"connect", "work">> \in Seq(Kinds)
  <2>1. "connect" \in Kinds /\ "work" \in Kinds BY DEF Kinds
  <2> QED BY <2>1
<1>9. Carried(n, r) BY <1>6, <1>7, <1>8, CommandsFacts
<1>10. Carried(Here, r) BY <1>2, <1>3, <1>6, <1>9, HereFacts, CarriedOn
<1>11. Becomes(r)
  <2>1. Becomes(ProcessCommands([m EXCEPT !.u.site = TRUE,
                                          !.u.success = @ /\ m.u.site], <<"connect", "work">>))
    BY <1>1 DEF UserConnects
  <2>2. n = [m EXCEPT !.u.site = TRUE, !.u.success = @ /\ m.u.site] BY <1>4, <1>5
  <2>3. r = ProcessCommands([m EXCEPT !.u.site = TRUE,
                                      !.u.success = @ /\ m.u.site], <<"connect", "work">>)
    BY <1>7, <2>2
  <2> QED BY <2>1, <2>3 DEF Becomes
<1>12. actions' \in 0..MaxActions BY UserActsFacts DEF UserConnects
<1> QED BY <1>10, <1>11, <1>12, HereFacts, BecomesFacts

\* CState::Disconnect
LEMMA DisconnectHandled ==
  ASSUME IInv, UserDisconnects
  PROVE  MainStep
<1>1. PICK n : n = [Here EXCEPT !.u.site = FALSE, !.u.success = FALSE] OBVIOUS
<1>2. n \in Held /\ Carried(Here, n) BY <1>1, HereFacts, SiteChanges
<1>3. PICK r : r = ProcessCommands(n, <<"disconnect">>) OBVIOUS
<1>4. <<"disconnect">> \in Seq(Kinds)
  <2>1. "disconnect" \in Kinds BY DEF Kinds
  <2> QED BY <2>1
<1>5. Carried(Here, r) BY <1>2, <1>3, <1>4, HereFacts, CommandsFacts, CarriedOn
<1>6. Becomes(r) BY <1>1, <1>3 DEF UserDisconnects, Becomes
<1>7. actions' \in 0..MaxActions BY UserActsFacts DEF UserDisconnects
<1> QED BY <1>5, <1>6, <1>7, HereFacts, BecomesFacts

\* A command of the user is put into the list.
LEMMA WorkHandled ==
  ASSUME IInv, UserWorks
  PROVE  MainStep
<1>1. PICK r : r = ProcessCommands(Here, <<"work">>) OBVIOUS
<1>2. <<"work">> \in Seq(Kinds)
  <2>1. "work" \in Kinds BY DEF Kinds
  <2> QED BY <2>1
<1>3. Carried(Here, r) BY <1>1, <1>2, HereFacts, CommandsFacts
<1>4. Becomes(r) BY <1>1 DEF UserWorks, Becomes
<1>5. actions' \in 0..MaxActions BY UserActsFacts DEF UserWorks
<1> QED BY <1>3, <1>4, <1>5, HereFacts, BecomesFacts

\* CMainFrame::OnCancel
LEMMA UserCancelHandled ==
  ASSUME IInv, UserCancels
  PROVE  MainStep
<1>1. PICK r : r = CancelAll(Here) OBVIOUS
<1>2. Carried(Here, r) BY <1>1, HereFacts, CancelAllFacts
<1>3. Becomes(r) BY <1>1 DEF UserCancels, Becomes
<1>4. actions' \in 0..MaxActions BY UserActsFacts DEF UserCancels
<1> QED BY <1>2, <1>3, <1>4, HereFacts, BecomesFacts

\* CAsyncRequestQueue::ProcessNextRequest
LEMMA AnswerHandled ==
  ASSUME IInv, NEW accept \in BOOLEAN, UserAnswers(accept)
  PROVE  MainStep
<1>1. /\ eng' = Enqueue(eng, "reply", ui.asked, accept) /\ ui' = [ui EXCEPT !.asked = 0]
      /\ ui.asked # 0 /\ sock' = sock /\ list' = list /\ actions' = actions
  BY DEF UserAnswers
<1>2. ui.asked \in 0..MaxRequests BY HereFacts DEF MainState
<1>3. PICK f : f = Enqueue(eng, "reply", ui.asked, accept) OBVIOUS
<1>4. "reply" \in {"command", "cancel", "reply"} /\ eng \in EngineState
  BY HereFacts
<1>5. Called(eng, f) BY <1>1, <1>2, <1>3, <1>4, EnqueueFacts
<1>6. ui.draining \in BOOLEAN /\ EngineInv(eng, sock, ui.draining)
  BY DEF IInv, MainState
<1>7. EngineInv(f, sock, ui.draining) BY <1>5, <1>6, CalledInvariant
<1>8. ui' \in MainState /\ ui'.draining = ui.draining
  BY <1>1, HereFacts, AttemptsFacts DEF MainState
<1>9. GaveUp(eng, f) BY <1>5 DEF GaveUp, Called, NoCommand
<1>10. eng' = f BY <1>1, <1>3
<1> QED BY <1>1, <1>7, <1>8, <1>9, <1>10 DEF MainStep, IInv

\* CMainFrame::OnEngineEvent begins to take notifications.
LEMMA EngineEventHandled ==
  ASSUME IInv, OnEngineEvent
  PROVE  MainStep
<1>1. /\ eng.wake /\ eng' = [eng EXCEPT !.wake = FALSE]
      /\ ~ui.draining /\ ui' = [ui EXCEPT !.draining = TRUE]
      /\ sock' = sock /\ list' = list /\ actions' = actions
  BY DEF OnEngineEvent
<1>2. EngineInv(eng, sock, FALSE) /\ eng \in EngineState
  <2>1. ui.draining = FALSE BY <1>1, HereFacts DEF MainState
  <2> QED BY <2>1, HereFacts DEF IInv
<1>3. /\ eng' \in EngineState /\ eng'.cmd = eng.cmd /\ eng'.loop = eng.loop
      /\ eng'.retryTimer = eng.retryTimer /\ eng'.retryCount = eng.retryCount
      /\ eng'.attempts = eng.attempts
      /\ eng'.notes = eng.notes /\ eng'.maySend = eng.maySend /\ eng'.wake = FALSE
  BY <1>1, <1>2 DEF EngineState
<1>4. ui' \in MainState /\ ui'.draining = TRUE BY <1>1, HereFacts DEF MainState
<1>5. Woken(eng', TRUE) BY <1>1, <1>2, <1>3 DEF Woken, EngineInv
<1>6. Retrying(eng', sock') BY <1>1, <1>2, <1>3 DEF Retrying, EngineInv
<1>7. Owned(eng', sock') BY <1>1, <1>2, <1>3 DEF Owned, EngineInv, HasCommandEvent
<1>8. Answering(eng') BY <1>2, <1>3 DEF Answering, EngineInv
<1>9. EngineInv(eng', sock', ui'.draining)
  BY <1>1, <1>2, <1>3, <1>4, <1>5, <1>6, <1>7, <1>8 DEF EngineInv
<1>10. GaveUp(eng, eng') BY <1>3 DEF GaveUp, NoCommand
<1> QED BY <1>1, <1>4, <1>9, <1>10 DEF MainStep, IInv

\* CMainFrame::OnEngineEvent takes a notification.
LEMMA NotificationHandled ==
  ASSUME IInv, TakeNotification
  PROVE  MainStep
<1> DEFINE f == [eng EXCEPT !.notes = Tail(@)]
           n == Head(eng.notes)
<1>1. ui.draining /\ eng.notes # <<>> /\ actions' = actions BY DEF TakeNotification
<1>2. EngineInv(eng, sock, TRUE) /\ eng \in EngineState
  <2>1. ui.draining = TRUE BY <1>1, HereFacts DEF MainState
  <2> QED BY <2>1, HereFacts DEF IInv
<1>3. eng.notes \in Seq(Notification) BY <1>2 DEF EngineState
<1>4. Tail(eng.notes) \in Seq(Notification) /\ n \in Notification
  BY <1>1, <1>3, HeadTailProperties
<1>5. /\ f \in EngineState /\ f.cmd = eng.cmd /\ f.loop = eng.loop
      /\ f.retryTimer = eng.retryTimer /\ f.retryCount = eng.retryCount
      /\ f.attempts = eng.attempts
      /\ f.maySend = eng.maySend /\ f.wake = eng.wake
  BY <1>2, <1>4 DEF EngineState
<1> HIDE DEF f
<1>6. EngineInv(f, sock, TRUE)
  <2>1. Woken(f, TRUE) BY <1>2, <1>5 DEF Woken, EngineInv
  <2>2. Retrying(f, sock) BY <1>2, <1>5 DEF Retrying, EngineInv
  <2>3. Owned(f, sock) BY <1>2, <1>5 DEF Owned, EngineInv, HasCommandEvent
  <2>4. Answering(f) BY <1>2, <1>5 DEF Answering, EngineInv
  <2> QED BY <1>2, <1>5, <2>1, <2>2, <2>3, <2>4 DEF EngineInv
<1>7. PICK h : h = [Here EXCEPT !.e.notes = Tail(@)] OBVIOUS
<1>8. h \in Held /\ h.e = f /\ h.u = ui
  <2>1. h = [Here EXCEPT !.e = f] BY <1>7, HereFacts DEF f, Held
  <2> QED BY <2>1, <1>5, HereFacts DEF Held
<1>9. EngineInv(h.e, sock, h.u.draining) /\ h.e.cmd = eng.cmd
  BY <1>1, <1>5, <1>6, <1>8, HereFacts DEF MainState
<1>10. PICK r : r = IF n.note = "operation" THEN ProcessReply(h, n.kind, n.code)
                    ELSE [h EXCEPT !.u.asked = n.req]
  OBVIOUS
<1>11. Becomes(r) BY <1>7, <1>10 DEF TakeNotification, Becomes
<1>12. Carried(h, r)
  <2>1. CASE n.note = "operation"
    <3>1. r = ProcessReply(h, n.kind, n.code) BY <1>10, <2>1
    <3> QED BY <3>1, <1>8, ProcessReplyFacts
  <2>2. CASE n.note # "operation"
    <3>1. r = [h EXCEPT !.u.asked = n.req] BY <1>10, <2>2
    <3>2. n.req \in 0..MaxRequests BY <1>4 DEF Notification
    <3>3. [h.u EXCEPT !.asked = n.req] \in MainState BY <3>2, <1>8, HeldFacts DEF MainState
    <3> HIDE DEF n
    <3>4. r \in Held /\ r.e = h.e /\ r.u.draining = h.u.draining
      BY <3>1, <3>3, <1>8 DEF Held, MainState
    <3> QED BY <3>4, <1>8, HeldFacts DEF Carried
  <2> QED BY <2>1, <2>2
<1>13. actions' \in 0..MaxActions BY <1>1 DEF IInv
<1> QED BY <1>8, <1>9, <1>11, <1>12, <1>13, BecomesFacts

\* CMainFrame::OnEngineEvent finds no notification.
LEMMA NoNotificationHandled ==
  ASSUME IInv, NoMoreNotifications
  PROVE  MainStep
<1>1. /\ eng.notes = <<>> /\ eng' = [eng EXCEPT !.maySend = TRUE]
      /\ ui.draining /\ ui' = [ui EXCEPT !.draining = FALSE]
      /\ sock' = sock /\ list' = list /\ actions' = actions
  BY DEF NoMoreNotifications, NoNotification
<1>2. EngineInv(eng, sock, TRUE) /\ eng \in EngineState
  <2>1. ui.draining = TRUE BY <1>1, HereFacts DEF MainState
  <2> QED BY <2>1, HereFacts DEF IInv
<1>3. /\ eng' \in EngineState /\ eng'.cmd = eng.cmd /\ eng'.loop = eng.loop
      /\ eng'.retryTimer = eng.retryTimer /\ eng'.retryCount = eng.retryCount
      /\ eng'.attempts = eng.attempts
      /\ eng'.notes = eng.notes /\ eng'.maySend = TRUE /\ eng'.wake = eng.wake
  BY <1>1, <1>2 DEF EngineState
<1>4. ui' \in MainState /\ ui'.draining = FALSE BY <1>1, HereFacts DEF MainState
<1>5. Woken(eng', FALSE) BY <1>1, <1>2, <1>3 DEF Woken, EngineInv
<1>6. Retrying(eng', sock') BY <1>1, <1>2, <1>3 DEF Retrying, EngineInv
<1>7. Owned(eng', sock') BY <1>1, <1>2, <1>3 DEF Owned, EngineInv, HasCommandEvent
<1>8. Answering(eng') BY <1>2, <1>3 DEF Answering, EngineInv
<1>9. EngineInv(eng', sock', ui'.draining)
  BY <1>1, <1>2, <1>3, <1>4, <1>5, <1>6, <1>7, <1>8 DEF EngineInv
<1>10. GaveUp(eng, eng') BY <1>3 DEF GaveUp, NoCommand
<1> QED BY <1>1, <1>4, <1>9, <1>10 DEF MainStep, IInv

-----------------------------------------------------------------------------
(* Theorems.                                                                *)

\* The initial state satisfies the invariant.
LEMMA InitFacts ==
  ASSUME Init
  PROVE  IInv
<1>1. /\ 0 \in 0..MaxRequests /\ 0 \in 0..MaxDrops /\ 0 \in 0..Attempts
      /\ 0 \in 0..MaxActions
  BY AttemptsFacts, QueueAssumption
<1>2. <<>> \in Seq(Event) /\ <<>> \in Seq(Notification) /\ <<>> \in Seq(CommandInfo)
      /\ <<>> \in Seq(Op)
  BY EmptySeq
<1>3. /\ eng \in EngineState /\ eng.cmd = NoCommand /\ eng.loop = <<>>
      /\ eng.retryTimer = FALSE /\ eng.maySend = TRUE /\ eng.notes = <<>> /\ eng.wake = FALSE
  BY <1>1, <1>2 DEF Init, EngineInit, EngineState
<1>4. sock \in SocketState /\ sock.ops = <<>>
  BY <1>1, <1>2 DEF Init, EngineInit, NoSock, SocketState
<1>5. ui \in MainState /\ ui.draining = FALSE BY <1>1 DEF Init, MainState
<1>6. Woken(eng, ui.draining) BY <1>3, <1>5 DEF Woken
<1>7. Retrying(eng, sock) BY <1>3 DEF Retrying, NoCommand
<1>8. Asking(sock) /\ Owned(eng, sock) /\ Answering(eng)
  BY <1>3, <1>4 DEF Asking, Owned, Answering
<1> QED BY <1>1, <1>2, <1>3, <1>4, <1>5, <1>6, <1>7, <1>8 DEF IInv, EngineInv, Init

\* Every step preserves the invariant, and gives up a connect command only
\* after all its attempts.
LEMMA NextFacts ==
  ASSUME IInv, [Next]_vars
  PROVE  MainStep
<1>1. CASE LoopStep
  <2>1. LoopNext /\ list' = list /\ ui' = ui /\ actions' = actions BY <1>1 DEF LoopStep
  <2>2. PICK d \in BOOLEAN : d = ui.draining BY HereFacts DEF MainState
  <2>3. EngineInv(eng, sock, d) BY <2>2 DEF IInv
  <2>4. Handled(d) BY <2>1, <2>3, LoopHandled
  <2>5. ui'.draining = d BY <2>1, <2>2
  <2> QED BY <2>1, <2>4, <2>5 DEF Handled, MainStep, IInv
<1>2. CASE MainThreadNext
  BY <1>2, EngineEventHandled, NotificationHandled, NoNotificationHandled, AnswerHandled
     DEF MainThreadNext
<1>3. CASE UserNext
  BY <1>3, ConnectHandled, DisconnectHandled, WorkHandled, UserCancelHandled DEF UserNext
<1>4. CASE UNCHANGED vars
  <2>1. eng' = eng /\ sock' = sock /\ list' = list /\ ui' = ui /\ actions' = actions
    BY <1>4 DEF vars
  <2>2. GaveUp(eng, eng') BY <2>1 DEF GaveUp, NoCommand
  <2>3. EngineInv(eng', sock', ui'.draining) BY <2>1 DEF IInv
  <2> QED BY <2>1, <2>2, <2>3 DEF MainStep, IInv
<1> QED BY <1>1, <1>2, <1>3, <1>4 DEF Next

\* The inductive invariant.
THEOREM Invariance == Spec => []IInv
<1>1. Init => IInv BY InitFacts
<1>2. IInv /\ [Next]_vars => IInv' BY NextFacts DEF MainStep
<1> QED BY <1>1, <1>2, PTL DEF Spec

\* All variables keep their types, whatever the client and the server do.
THEOREM TypeCorrect == Spec => []TypeOK
<1>1. IInv => TypeOK BY DEF IInv, EngineInv, TypeOK, EngineTypeOK
<1> QED BY <1>1, Invariance, PTL

\* A command that the engine is busy with is being worked on: IsBusy does not
\* stay true for lack of anything that could end it.
THEOREM BusyIsOwned == Spec => []BusyHasOwner
<1>1. IInv => BusyHasOwner
  BY DEF IInv, EngineInv, Owned, HasCommandEvent, BusyHasOwner, HasOp
<1> QED BY <1>1, Invariance, PTL

\* While there are notifications, OnEngineEvent is taking them or has been
\* posted: m_maySendNotificationEvent loses no wake-up.
THEOREM WakeupNotLost == Spec => []NoLostWakeup
<1>1. ASSUME IInv PROVE NoLostWakeup
  BY <1>1 DEF IInv, EngineInv, Woken, NoLostWakeup
<1> QED BY <1>1, Invariance, PTL

\* A reply that CallSetAsyncRequestReply takes for the operation on top of the
\* stack answers that operation's request.
THEOREM RepliesMatch == Spec => []RepliesMatchRequests
<1>1. ASSUME IInv PROVE RepliesMatchRequests
  <2> SUFFICES ASSUME NextEvent("reply"), ReplyTo(sock, Head(eng.loop).req) = "operation",
                      ~DispatchedTwice
               PROVE  Top.req = Head(eng.loop).req
    BY DEF RepliesMatchRequests
  <2> DEFINE n == Head(eng.loop).req
  <2>1. eng.loop \in Seq(Event) /\ eng.loop # <<>> /\ Head(eng.loop).ev = "reply"
    BY <1>1, HereFacts DEF NextEvent, EngineState
  <2>2. n # 0
    <3>1. Head(eng.loop) = eng.loop[1] /\ 1 \in DOMAIN eng.loop
      BY <2>1, EmptySeq, LenProperties
    <3>2. Answering(eng) BY <1>1 DEF IInv, EngineInv
    <3> QED BY <2>1, <3>1, <3>2 DEF Answering
  <2> HIDE DEF n
  <2>3. /\ Pending(sock, n) /\ ~(sock.greq # 0 /\ sock.greq = n)
        /\ sock.ops # <<>> /\ Top.req # 0
    BY DEF ReplyTo, n, Top
  <2>4. PICK i \in DOMAIN sock.ops : sock.ops[i].req = n BY <2>2, <2>3 DEF Pending
  <2>5. sock.ops \in Seq(Op) /\ Asking(sock) BY <1>1 DEF IInv, EngineInv, SocketState
  <2>6. DOMAIN sock.ops = 1..Len(sock.ops) /\ Len(sock.ops) \in Nat BY <2>5
  <2>7. ASSUME i # Len(sock.ops) PROVE FALSE
    <3>1. i + 1 \in DOMAIN sock.ops /\ i + 1 > 1 BY <2>6, <2>7
    <3>2. sock.ops[i + 1].kind = "work" BY <3>1, <2>2, <2>4, <2>5 DEF Asking
    <3> QED BY <3>1, <3>2 DEF DispatchedTwice
  <2> QED BY <2>4, <2>7 DEF Top, n
<1> QED BY <1>1, Invariance, PTL

\* A connect command fails for lack of a connection only after the attempts
\* that OPTION_RECONNECTCOUNT allows.
THEOREM GivesUpLate == Spec => GivesUpAfterAllAttempts
<1> DEFINE A == /\ eng.cmd = "connect" /\ eng'.cmd = NoCommand
                /\ eng'.notes[Len(eng'.notes)].code = Error \cup Disconnected
                => eng'.attempts = Attempts
<1>1. IInv /\ [Next]_vars => [A]_<<eng, sock>>
  BY NextFacts DEF MainStep, GaveUp
<1> QED BY <1>1, Invariance, PTL DEF Spec, GivesUpAfterAllAttempts
=============================================================================
