------------------------------- MODULE Engine -------------------------------
(***************************************************************************)
(* An engine and its control socket: engine/engineprivate.cpp and the      *)
(* operation stack of engine/controlsocket.cpp.                            *)
(*                                                                         *)
(* A client on another thread executes and cancels commands, takes         *)
(* notifications and answers asynchronous requests; each of these calls is *)
(* atomic under mutex_ or notification_mutex_, and those with work to do   *)
(* send an event.  The engine, its control socket and their timers share   *)
(* one event loop, which handles one event at a time, in order.            *)
(*                                                                         *)
(* What a protocol does is left open: its operations ask the user, call    *)
(* suboperations, end with any result, lose the connection or time out.    *)
(* Reply codes are sets of their bits.  Logging is left out.               *)
(***************************************************************************)
EXTENDS Integers, Sequences, FiniteSets

CONSTANTS
  ReconnectCount,  \* OPTION_RECONNECTCOUNT
  MaxRequests,     \* bound: asynchronous requests sent
  MaxDrops         \* bound: connections lost and operations timed out

ASSUME EngineAssumption == {ReconnectCount, MaxRequests, MaxDrops} \subseteq Nat

VARIABLES
  eng,       \* the engine
  sock       \* its control socket

Kinds == {"connect", "disconnect", "work"}
NoCommand == "none"

Flags == {"error", "critical", "canceled", "notconnected", "disconnected",
          "alreadyconnected", "timeout"}
OK == {}
Error == {"error"}
Critical == Error \cup {"critical"}
Canceled == Error \cup {"canceled"}
Timeout == Error \cup {"timeout"}
Disconnected == {"disconnected"}
NotConnected == Error \cup {"notconnected"}
AlreadyConnected == Error \cup {"alreadyconnected"}

\* The attempts a connect command is due.
Attempts == IF ReconnectCount = 0 THEN 1 ELSE ReconnectCount

Op == [kind : {"connect", "work", "sub"},
       called : BOOLEAN,            \* bound: it has called its one suboperation
       req : 0..MaxRequests]        \* pending_async_request_
Event == [ev : {"command", "cancel", "reply"}, req : 0..MaxRequests, accept : BOOLEAN]
Notification == [note : {"operation", "request"}, kind : Kinds \cup {NoCommand},
                 code : SUBSET Flags, req : 0..MaxRequests]

EngineState ==
  [cmd : Kinds \cup {NoCommand},   \* currentCommand_
   loop : Seq(Event),              \* events sent and not yet handled
   retryTimer : BOOLEAN,           \* m_retryTimer
   retryCount : 0..Attempts,
   delayed : BOOLEAN,              \* m_failedLogins has a recent entry
   notes : Seq(Notification),      \* m_NotificationList
   maySend : BOOLEAN,              \* m_maySendNotificationEvent
   wake : BOOLEAN,                 \* the callback's message is under way
   requests : 0..MaxRequests,      \* asyncRequestCounter_
   drops : 0..MaxDrops,
   attempts : 0..Attempts]         \* history: of the current command, up to
                                   \* those it is due
SocketState ==
  [conn : {"none", "closed", "up"},   \* controlSocket_, active_layer_
   ops : Seq(Op),                     \* operations_
   greq : 0..MaxRequests]             \* pending_global_async_request_

EngineTypeOK == eng \in EngineState /\ sock \in SocketState

NoSock == [conn |-> "none", ops |-> <<>>, greq |-> 0]

EngineInit ==
  /\ eng = [cmd |-> NoCommand, loop |-> <<>>, retryTimer |-> FALSE, retryCount |-> 0,
            delayed |-> FALSE, notes |-> <<>>, maySend |-> TRUE, wake |-> FALSE,
            requests |-> 0, drops |-> 0, attempts |-> 0]
  /\ sock = NoSock

-----------------------------------------------------------------------------
(* Notifications and replies. *)

AddNotification(e, n) ==
  [e EXCEPT !.notes = Append(@, n), !.maySend = FALSE, !.wake = @ \/ e.maySend]

SendOperationNotification(e, code) ==
  AddNotification([e EXCEPT !.cmd = NoCommand],
                  [note |-> "operation", kind |-> e.cmd,
                   code |-> code, req |-> 0])

FailedLogin(code) ==
  /\ code \cap {"error", "disconnected"} # {}
  /\ code \subseteq {"error", "disconnected", "timeout", "critical"}

\* Fault: the timer for the next attempt is not set.
ResetOperationTimerless(e, code) ==
  IF e.cmd = NoCommand \/ (e.cmd = "connect" /\ e.retryTimer) THEN e
  ELSE IF e.cmd # "connect" \/ ~FailedLogin(code) THEN SendOperationNotification(e, code)
  ELSE LET f == [e EXCEPT !.delayed = TRUE,
                          !.retryCount = IF "critical" \in code THEN @ ELSE @ + 1]
       IN IF "critical" \notin code /\ f.retryCount < ReconnectCount
          THEN f ELSE SendOperationNotification(f, code)
\* Fault: one attempt more than OPTION_RECONNECTCOUNT.
ResetOperationOneMore(e, code) ==
  IF e.cmd = NoCommand \/ (e.cmd = "connect" /\ e.retryTimer) THEN e
  ELSE IF e.cmd # "connect" \/ ~FailedLogin(code) THEN SendOperationNotification(e, code)
  ELSE LET f == [e EXCEPT !.delayed = TRUE,
                          !.retryCount = IF "critical" \in code THEN @ ELSE @ + 1]
       IN IF "critical" \notin code /\ f.retryCount <= ReconnectCount
          THEN [f EXCEPT !.retryTimer = TRUE] ELSE SendOperationNotification(f, code)
\* CFileZillaEnginePrivate::ResetOperation.  A connect command that waits for
\* its retry timer is not ended by the end of the failed attempt's socket.
ResetOperation(e, code) ==
  IF e.cmd = NoCommand \/ (e.cmd = "connect" /\ e.retryTimer) THEN e
  ELSE IF e.cmd # "connect" \/ ~FailedLogin(code) THEN SendOperationNotification(e, code)
  ELSE LET f == [e EXCEPT !.delayed = TRUE,
                          !.retryCount = IF "critical" \in code THEN @ ELSE @ + 1]
       IN IF "critical" \notin code /\ f.retryCount < ReconnectCount
          THEN [f EXCEPT !.retryTimer = TRUE]
          ELSE SendOperationNotification(f, code)

-----------------------------------------------------------------------------
(* The control socket.  An outcome is the socket and, when an operation's  *)
(* end has reached the bottom of the stack, the code for the engine.       *)

Running(s) == [s |-> s, done |-> FALSE, code |-> OK]
Done(s, code) == [s |-> s, done |-> TRUE, code |-> code]

PlainCodes == {OK, Error, Critical}
\* The ends of an operation that make a difference here: that an error is
\* critical does for a login only.
EndCodes == {OK, Error}

\* CControlSocket::DoClose and its overrides: every operation ends.
DoClose(s, code) ==
  Done([conn |-> "closed", ops |-> <<>>, greq |-> 0], Error \cup Disconnected \cup code)

\* CControlSocket::ResetOperation: a plain result goes to the operation below,
\* which carries on or ends itself, any other ends all of them.
SocketReset(s, code) ==
  LET rest == SubSeq(s.ops, 1, Len(s.ops) - 1)
      below == [s EXCEPT !.ops = rest]
  IN IF s.ops = <<>> \/ rest = <<>> \/ code \notin PlainCodes
     THEN {Done([s EXCEPT !.ops = <<>>], code)}
     ELSE {Running(below)} \cup {Done([s EXCEPT !.ops = <<>>], c) : c \in EndCodes}

\* SendNextCommand after an operation has been pushed: it sends something or
\* ends at once.
SendNextCommand(s) ==
  LET connecting == s.ops[Len(s.ops)].kind = "connect"
  IN {Running(IF connecting THEN [s EXCEPT !.conn = "up"] ELSE s)}
     \cup (IF connecting THEN {DoClose(s, c) : c \in {OK, Critical}}
                         ELSE SocketReset(s, Error))

NewOp(kind) == [kind |-> kind, called |-> FALSE, req |-> 0]

\* CFtpControlSocket::Push and CSftpControlSocket::Push: an operation that
\* finds the connection closed is preceded by a new login.
Push(s, kind) ==
  [s EXCEPT !.ops = Append(@, NewOp(kind))
                    \o IF @ = <<>> /\ kind # "connect" /\ s.conn = "closed"
                       THEN <<NewOp("connect")>> ELSE <<>>]

\* A handler of the loop ends with outcome o.
Settle(e, o) ==
  /\ sock' = o.s
  /\ eng' = IF o.done THEN ResetOperation(e, o.code) ELSE e

-----------------------------------------------------------------------------
(* Events of the engine. *)

NextEvent(ev) == eng.loop # <<>> /\ Head(eng.loop).ev = ev
Popped == [eng EXCEPT !.loop = Tail(@)]

\* ContinueConnect: wait out the delay after a failed login, or connect.
ContinueConnect(e) ==
  \/ /\ e.delayed
     /\ eng' = [e EXCEPT !.retryTimer = TRUE]
     /\ sock' = NoSock
  \/ /\ ~e.delayed
     /\ \E o \in SendNextCommand(Push([NoSock EXCEPT !.conn = "closed"], "connect")) :
          Settle([e EXCEPT !.attempts = IF @ < Attempts THEN @ + 1 ELSE @], o)

CheckCommandPreconditions(cmd) ==
  IF cmd = "work" /\ sock.conn = "none" THEN NotConnected
  ELSE IF cmd = "connect" /\ sock.conn # "none" THEN AlreadyConnected ELSE OK

Connect == ContinueConnect([Popped EXCEPT !.retryCount = 0])

\* Closing the socket answers the command; the OK that OnCommandEvent has for
\* it afterwards finds no command.
Disconnect ==
  /\ sock' = NoSock
  /\ eng' = ResetOperation(IF sock.conn = "none" THEN Popped
                           ELSE ResetOperation(Popped, Error \cup Disconnected), OK)

\* A listing found in the cache answers at once.
Work ==
  \/ Settle(Popped, Done(sock, OK))
  \/ \E o \in SendNextCommand(Push(sock, "work")) : Settle(Popped, o)

OnCommandEvent ==
  /\ NextEvent("command")
  /\ LET res == CheckCommandPreconditions(eng.cmd)
     IN \/ eng.cmd = NoCommand /\ eng' = Popped /\ UNCHANGED sock
        \/ res # OK /\ Settle(Popped, Done(sock, res))
        \/ eng.cmd = "connect" /\ res = OK /\ Connect
        \/ eng.cmd = "disconnect" /\ Disconnect
        \/ eng.cmd = "work" /\ res = OK /\ Work

\* CControlSocket::Cancel.
SocketCancel(s) ==
  IF s.ops = <<>> THEN {Running(s)}
  ELSE IF s.ops[Len(s.ops)].kind = "connect" THEN {DoClose(s, Canceled)}
  ELSE SocketReset(s, Canceled)

DoCancel ==
  /\ NextEvent("cancel")
  /\ \/ eng.cmd = NoCommand /\ eng' = Popped /\ UNCHANGED sock
     \/ /\ eng.cmd # NoCommand /\ eng.retryTimer
        /\ sock' = NoSock
        /\ eng' = SendOperationNotification([Popped EXCEPT !.retryTimer = FALSE],
                                            Disconnected \cup Canceled)
     \/ /\ eng.cmd # NoCommand /\ ~eng.retryTimer
        /\ IF sock.conn = "none" THEN Settle(Popped, Done(sock, Canceled))
           ELSE \E o \in SocketCancel(sock) : Settle(Popped, o)

\* Fault: the timer is cleared before the old socket is destroyed.
OnTimerCleared ==
  /\ eng.retryTimer /\ ~eng.delayed
  /\ ContinueConnect(ResetOperation([eng EXCEPT !.retryTimer = FALSE], Error \cup Disconnected))
\* The timer was set to what was left of the delay.  The old socket is
\* destroyed while m_retryTimer is still set, so that its end is not taken for
\* the command's.
OnTimer ==
  /\ eng.retryTimer /\ ~eng.delayed
  /\ ContinueConnect([ResetOperation(eng, Error \cup Disconnected) EXCEPT !.retryTimer = FALSE])

\* The entry of m_failedLogins is older than OPTION_RECONNECTDELAY.
DelayElapses ==
  /\ eng.delayed
  /\ eng' = [eng EXCEPT !.delayed = FALSE]
  /\ UNCHANGED sock

-----------------------------------------------------------------------------
(* Progress of the operation on top of the stack. *)

Top == sock.ops[Len(sock.ops)]
HasOp == sock.ops # <<>>

CallSuboperation ==
  /\ HasOp /\ Top.req = 0 /\ Top.kind = "work" /\ ~Top.called
  /\ sock' = Push([sock EXCEPT !.ops[Len(sock.ops)].called = TRUE], "sub")
  /\ UNCHANGED eng

\* The server may also end an operation that waits for the user.
OperationEnds(code) ==
  /\ HasOp /\ sock.conn = "up"
  /\ Top.req # 0 => code # OK
  /\ code = Critical => Top.kind = "connect"
  /\ \E o \in IF Top.kind = "connect" /\ code # OK
              THEN {DoClose(sock, code)} ELSE SocketReset(sock, code) : Settle(eng, o)

\* OnSocketError and the like, with or without an operation.
ConnectionLost ==
  /\ sock.conn = "up" /\ eng.drops < MaxDrops
  /\ Settle([eng EXCEPT !.drops = @ + 1], DoClose(sock, OK))

\* CControlSocket::OnTimer: no timeout while the user is being asked.
OperationTimesOut ==
  /\ HasOp /\ sock.greq = 0 /\ Top.req = 0 /\ eng.drops < MaxDrops
  /\ Settle([eng EXCEPT !.drops = @ + 1], DoClose(sock, Timeout))

RequestNote(n) == [note |-> "request", kind |-> NoCommand, code |-> OK, req |-> n]

\* The request of the connection itself, to trust the host key of an SFTP
\* server, comes with the key exchange that starts the login.
SendAsyncRequest(global) ==
  /\ sock.conn = "up" /\ HasOp /\ sock.greq = 0 /\ Top.req = 0
  /\ global => Top.kind = "connect"
  /\ eng.requests < MaxRequests
  /\ LET n == eng.requests + 1
     IN /\ eng' = AddNotification([eng EXCEPT !.requests = n], RequestNote(n))
        /\ sock' = IF global THEN [sock EXCEPT !.greq = n]
                   ELSE [sock EXCEPT !.ops[Len(sock.ops)].req = n]

\* requestNumber_ is a weak pointer: it is empty unless the request is pending.
Pending(s, n) == n = s.greq \/ \E i \in DOMAIN s.ops : s.ops[i].req = n

\* CallSetAsyncRequestReply: whose request the reply is taken for.
\* Fault: a reply is not checked to be to a pending request.
ReplyToAny(s, n) ==
  IF s.conn = "none" THEN "ignored"
  ELSE IF s.greq # 0 /\ s.greq = n THEN "global"
  ELSE IF s.ops # <<>> /\ s.ops[Len(s.ops)].req # 0 THEN "operation" ELSE "ignored"
ReplyTo(s, n) ==
  IF s.conn = "none" \/ ~Pending(s, n) THEN "ignored"
  ELSE IF s.greq # 0 /\ s.greq = n THEN "global"
  ELSE IF s.ops # <<>> /\ s.ops[Len(s.ops)].req # 0 THEN "operation" ELSE "ignored"

OnSetAsyncRequestReplyEvent ==
  /\ NextEvent("reply")
  /\ LET r == Head(eng.loop)
         s == CASE ReplyTo(sock, r.req) = "global" -> [sock EXCEPT !.greq = 0]
                [] ReplyTo(sock, r.req) = "operation" -> [sock EXCEPT !.ops[Len(sock.ops)].req = 0]
                [] OTHER -> sock
     IN \E o \in IF ReplyTo(sock, r.req) = "ignored" \/ r.accept THEN {Running(s)}
                 ELSE {DoClose(s, Critical)} \cup
                      (IF ReplyTo(sock, r.req) = "operation" THEN SocketReset(s, Canceled) ELSE {})
          : Settle(Popped, o)

LoopNext ==
  \/ OnCommandEvent \/ DoCancel \/ OnTimer \/ DelayElapses \/ OnSetAsyncRequestReplyEvent
  \/ CallSuboperation \/ ConnectionLost \/ OperationTimesOut
  \/ \E code \in PlainCodes : OperationEnds(code)
  \/ \E global \in BOOLEAN : SendAsyncRequest(global)

-----------------------------------------------------------------------------
(* Calls of the client. *)

Enqueue(e, ev, n, accept) ==
  [e EXCEPT !.loop = Append(@, [ev |-> ev, req |-> n, accept |-> accept])]

\* Execute, when CheckCommandPreconditions has no objection.
Execute(e, kind) ==
  Enqueue([e EXCEPT !.cmd = kind, !.attempts = 0], "command", 0, FALSE)

\* CFileZillaEnginePrivate::Cancel
Cancel(e) == IF e.cmd = NoCommand THEN e ELSE Enqueue(e, "cancel", 0, FALSE)

\* GetNextNotification of an empty list: from now on the callback may be called.
NoNotification(e) == [e EXCEPT !.maySend = TRUE]

-----------------------------------------------------------------------------
(* Properties. *)

\* A command the engine is busy with is being worked on: its event is queued,
\* the retry timer runs, or the control socket has an operation.  Otherwise
\* IsBusy stays true and no command can be executed any more.
BusyHasOwner ==
  eng.cmd # NoCommand =>
    \/ \E i \in DOMAIN eng.loop : eng.loop[i].ev = "command"
    \/ eng.retryTimer
    \/ HasOp

\* A connect command fails for lack of a connection only after the attempts
\* OPTION_RECONNECTCOUNT allows: a failed attempt is not counted a second time
\* when its socket is destroyed.
GivesUpAfterAllAttempts ==
  [][/\ eng.cmd = "connect" /\ eng'.cmd = NoCommand
     /\ eng'.notes[Len(eng'.notes)].code = Error \cup Disconnected
     => eng'.attempts = Attempts]_<<eng, sock>>

\* A command has been dispatched while the operations of another were on the
\* stack, see NotifiedMeansEnded.
DispatchedTwice == \E i \in DOMAIN sock.ops : i > 1 /\ sock.ops[i].kind = "work"

\* An asynchronous reply is taken only for the request it answers: not for a
\* later request of the same operation, nor for one of another operation,
\* although CallSetAsyncRequestReply does not compare the number of an
\* operation's request.
RepliesMatchRequests ==
  NextEvent("reply") /\ ReplyTo(sock, Head(eng.loop).req) = "operation" /\ ~DispatchedTwice
    => Top.req = Head(eng.loop).req

\* notification.h: the client receives the notification "once the operation
\* ends": with no command pending, the control socket has no operation.
NotifiedMeansEnded == eng.cmd = NoCommand => sock.ops = <<>>
=============================================================================
