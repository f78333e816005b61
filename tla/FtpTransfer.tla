---------------------------- MODULE FtpTransfer ----------------------------
(***************************************************************************)
(* An FTP control connection and the data connections of its transfers:    *)
(* engine/ftp/ftpcontrolsocket.cpp, rawtransfer.cpp and transfersocket.cpp *)
(* with list.cpp, filetransfer.cpp and rawcommand.cpp as far as they start *)
(* transfers and commands.                                                 *)
(*                                                                         *)
(* All handlers run on one event loop.  The replies of the server, the     *)
(* events of the data connection, the TransferEndEvent it sends, the       *)
(* user's answers and cancellation, and the timers come in any order.      *)
(*                                                                         *)
(* The server is external.  It handles commands in order and gives each    *)
(* one final reply, after a 1yz reply or not ("a few broken servers omit   *)
(* the 1yz reply") for a transfer.  The login is one command after the     *)
(* welcome message.  The current directory is right and the lock of a      *)
(* listing is free, see OpLockManager.  Names and data are left out.       *)
(***************************************************************************)
EXTENDS Integers, Sequences, FiniteSets, SequencesExt

CONSTANTS
  Fallback,       \* OPTION_ALLOW_TRANSFERMODEFALLBACK
  PassiveFirst,   \* OPTION_USEPASV
  Protect,        \* m_protectDataChannel: data connections use TLS
  MaxOps,         \* bound: commands executed
  MaxKeepalives,  \* bound: keepalive commands
  MaxFaults       \* bound: control connections lost, timeouts, failed accepts

ASSUME FtpAssumption ==
  /\ {Fallback, PassiveFirst, Protect} \subseteq BOOLEAN
  /\ {MaxOps, MaxKeepalives, MaxFaults} \subseteq Nat

VARIABLES
  ctl,    \* CFtpControlSocket
  data,   \* m_pTransferSocket
  srv,    \* the server, and what is under way to and from it
  ends    \* TransferEndEvents in the queue

vars == <<ctl, data, srv, ends>>

MaxTransfers == 2 * MaxOps
Transfers == 0..MaxTransfers
Few == 0..2
Types == {"A", "I"}
Offsets == 0..2                 \* none, that of a resumed file, that of its test
Parents == {"list", "file", "command"}

\* operations_: a parent, above it the login or a raw transfer.
Op == [kind : Parents \cup {"logon", "raw"},
       st : {"connect", "welcome", "login", "start", "wait", "waittest", "command",
             "type", "port_pasv", "rest", "transfer", "waitfinish",
             "waittransferpre", "waittransfer", "waitsocket"},
       tid : Transfers,            \* of a raw transfer: its number
       binary : Types,
       offset : Offsets,           \* resumeOffset
       again : BOOLEAN,            \* list: viewHiddenCheck_ with a second transfer to
                                   \* come; file: there is a resume test
       pasv : BOOLEAN, triedPasv : BOOLEAN, triedActive : BOOLEAN,
       resolving : BOOLEAN,        \* m_pIPResolver
       sent : BOOLEAN,             \* tranferCommandSent
       reason : {"ok", "fail", "immediate"},   \* transferEndReason
       asks : BOOLEAN]             \* pending_async_request_

Command == [cmd : {"welcome", "login", "command", "extra", "keepalive", "type", "port", "pasv",
                   "rest", "transfer"},
            tid : Transfers, binary : Types, offset : Offsets]

Socket == [tid : Transfers,
           link : {"idle", "listening", "connecting", "connected", "reset"},
           block : Few,                                \* activity_block_
           events : {"none", "postponed", "flowing"},  \* m_postponedReceive, m_postponedSend
           reason : {"none", "ok", "fail", "tls"},     \* m_transferEndReason
           early : BOOLEAN]     \* history: it ended before the transfer command was sent
NoSocket == [tid |-> 0, link |-> "idle", block |-> 0, events |-> "none", reason |-> "none",
             early |-> FALSE]

ControlState == [ops : Seq(Op),
                 conn : {"closed", "connecting", "up"},
                 pending : Few,                         \* m_pendingReplies
                 skip : Few,                            \* m_repliesToSkip
                 lastType : Types \cup {"unknown"},     \* m_lastTypeBinary
                 sentRest : BOOLEAN,                    \* m_sentRestartOffset
                 timer : BOOLEAN,                       \* m_timer
                 idle : BOOLEAN,                        \* m_idleTimer
                 resumption : {"unknown", "yes", "no"}, \* capability tls_resumption
                 succeeded : Transfers,                 \* history: the last transfer that did
                 count : 0..MaxOps, tids : Transfers,
                 keepalives : 0..MaxKeepalives, faults : 0..MaxFaults]
ServerState == [cmds : Seq(Command), replies : Seq(Command \X {1, 2, 5}),
                type : Types, offset : Offsets, port : Transfers,
                prelim : BOOLEAN, linked : BOOLEAN,
                completed : Transfers,         \* history: the last transfer replied to with 2yz
                received : Transfers]          \* history: the last data socket that ended well

TypeOK ==
  /\ ctl \in ControlState
  /\ data \in Socket
  /\ srv \in ServerState
  /\ ends \in Transfers

Fresh(s) == [s EXCEPT !.cmds = <<>>, !.replies = <<>>, !.type = "A", !.offset = 0, !.port = 0,
                      !.prelim = FALSE, !.linked = FALSE]

Init ==
  /\ ctl = [ops |-> <<>>, conn |-> "closed", pending |-> 0, skip |-> 0, lastType |-> "unknown",
            sentRest |-> FALSE, timer |-> FALSE, idle |-> FALSE, resumption |-> "unknown",
            succeeded |-> 0, count |-> 0, tids |-> 0, keepalives |-> 0, faults |-> 0]
  /\ data = NoSocket
  /\ srv = [cmds |-> <<>>, replies |-> <<>>, type |-> "A", offset |-> 0, port |-> 0,
            prelim |-> FALSE, linked |-> FALSE, completed |-> 0, received |-> 0]
  /\ ends = 0

NewOp(kind, st) ==
  [kind |-> kind, st |-> st, tid |-> 0, binary |-> "I", offset |-> 0, again |-> FALSE,
   pasv |-> PassiveFirst, triedPasv |-> FALSE, triedActive |-> FALSE, resolving |-> FALSE,
   sent |-> FALSE, reason |-> "ok", asks |-> FALSE]

HasOp == ctl.ops # <<>>
Top == Last(ctl.ops)

-----------------------------------------------------------------------------
(* A handler works on m = [c : ctl, d : data, q : the commands sent].      *)

Here == [c |-> ctl, d |-> data, q |-> srv.cmds]
TopOf(m) == Last(m.c.ops)
WithTop(m, op) == [m EXCEPT !.c.ops[Len(m.c.ops)] = op]

Becomes(m) ==
  /\ ctl' = m.c /\ data' = m.d

SendCommand(m, cmd) ==
  LET op == IF m.c.ops = <<>> THEN NewOp("command", "command") ELSE TopOf(m)
  IN [m EXCEPT !.c.pending = @ + 1, !.c.timer = TRUE,
               !.q = Append(@, [cmd |-> cmd, tid |-> op.tid, binary |-> op.binary,
                                offset |-> op.offset])]

StartKeepaliveTimer(c) ==
  [c EXCEPT !.idle = IF c.skip # 0 \/ c.pending # 0 THEN @ ELSE TRUE]

\* CFtpControlSocket::ResetOperation of the topmost operation.
PopOp(m) ==
  LET rest == Front(m.c.ops)
      c == [m.c EXCEPT !.skip = m.c.pending, !.ops = rest, !.timer = @ /\ rest # <<>>]
  IN [m EXCEPT !.c = StartKeepaliveTimer(c), !.d = NoSocket]

\* An end that is neither success nor a plain error ends every operation.
EndAll(m) ==
  LET c == [m.c EXCEPT !.skip = m.c.pending, !.ops = <<>>, !.timer = FALSE]
  IN [m EXCEPT !.c = StartKeepaliveTimer(c), !.d = NoSocket]

\* CFtpControlSocket::DoClose with ResetSocket
Closed(c) ==
  [c EXCEPT !.ops = <<>>, !.conn = "closed", !.pending = 0, !.skip = 0,
            !.timer = FALSE, !.idle = FALSE]

DoClose ==
  /\ data' = NoSocket
  /\ srv' = Fresh(srv)

-----------------------------------------------------------------------------
(* CFtpRawTransferOpData::Send.  Sets of outcomes, since the listening     *)
(* socket or the data connection may fail to be created.                   *)

GetPassiveCommand(m) == SendCommand(WithTop(m, [TopOf(m) EXCEPT !.triedPasv = TRUE]), "pasv")

\* The raw transfer and its parent fail before the transfer command is sent.
FailRaw(m) == PopOp(PopOp(m))

SendPort(m) ==
  LET op == TopOf(m)
      failed == [op EXCEPT !.triedActive = TRUE, !.pasv = TRUE]
  IN IF op.pasv THEN {GetPassiveCommand(m)}
     ELSE {SendCommand(WithTop([m EXCEPT !.d.link = "listening"],
                               [op EXCEPT !.triedActive = TRUE]), "port"),
           IF ~Fallback \/ op.triedPasv THEN FailRaw(m) ELSE GetPassiveCommand(WithTop(m, failed))}

\* GetExternalIPAddress may have to wait for the resolver.
SendPortPasv(m) ==
  SendPort(m) \cup (IF TopOf(m).pasv \/ TopOf(m).resolving THEN {}
                    ELSE {WithTop(m, [TopOf(m) EXCEPT !.resolving = TRUE])})

\* Fault: what was postponed is not looked at again.
SetActiveQuiet(d) ==
  IF d.reason # "none" \/ d.block = 0 THEN d ELSE [d EXCEPT !.block = @ - 1]
\* SetActive and ContinueWithoutSesssionResumption: once nothing blocks any
\* more, the postponed events are handled.
SetActive(d) ==
  IF d.reason # "none" \/ d.block = 0 THEN d
  ELSE [d EXCEPT !.block = @ - 1,
                 !.events = IF d.block = 1 /\ d.link = "connected" /\ @ = "postponed"
                            THEN "flowing" ELSE @]

SendTransfer(m) ==
  LET d == IF TopOf(m).pasv THEN [m.d EXCEPT !.link = "connecting"] ELSE m.d
  IN {SendCommand(WithTop([m EXCEPT !.d = SetActive(d)], [TopOf(m) EXCEPT !.sent = TRUE]), "transfer")}
     \cup (IF TopOf(m).pasv THEN {FailRaw(m)} ELSE {})

\* Fault: the type is taken for set when TYPE is sent.
SendRawTypeAssumed(m) ==
  CASE TopOf(m).st = "type" -> {SendCommand([m EXCEPT !.c.lastType = TopOf(m).binary], "type")}
    [] TopOf(m).st = "port_pasv" -> SendPortPasv(m)
    [] TopOf(m).st = "rest" -> {SendCommand([m EXCEPT !.c.sentRest = @ \/ TopOf(m).offset > 0], "rest")}
    [] TopOf(m).st = "transfer" -> SendTransfer(m)
    [] OTHER -> {m}
SendRaw(m) ==
  CASE TopOf(m).st = "type" -> {SendCommand([m EXCEPT !.c.lastType = "unknown"], "type")}
    [] TopOf(m).st = "port_pasv" -> SendPortPasv(m)
    [] TopOf(m).st = "rest" -> {SendCommand([m EXCEPT !.c.sentRest = @ \/ TopOf(m).offset > 0], "rest")}
    [] TopOf(m).st = "transfer" -> SendTransfer(m)
    [] OTHER -> {m}

\* CFtpControlSocket::Transfer after the parent has created the socket, and
\* rawtransfer_init.
Transfer(m, offset) ==
  LET p == TopOf(m)
      t == m.c.tids + 1
      raw == [NewOp("raw", IF p.binary = m.c.lastType THEN "port_pasv" ELSE "type")
                EXCEPT !.tid = t, !.binary = p.binary, !.offset = offset]
  IN SendRaw([m EXCEPT !.c.tids = t, !.c.ops = Append(@, raw),
                       !.d = [NoSocket EXCEPT !.tid = t, !.block = 1]])

\* Fault: nothing watches over the replies to come.
WaitToSkipUntimed(m) == m
\* CanSendNextCommand: replies have to be skipped first.
WaitToSkip(m) == [m EXCEPT !.c.timer = TRUE]

\* SendNextCommand for each kind of operation on top.
SendNextCommand(m) ==
  LET op == TopOf(m)
      to(st) == WithTop(m, [op EXCEPT !.st = st])
  IN CASE op.asks -> {m}
       [] ~op.asks /\ m.c.skip # 0 -> {WaitToSkip(m)}
       [] ~op.asks /\ m.c.skip = 0 ->
            CASE op.kind = "raw" -> SendRaw(m)
              [] op.kind = "logon" /\ op.st = "connect" ->
                   {[m EXCEPT !.c.conn = "connecting", !.c.timer = TRUE]}
              [] op.kind = "logon" /\ op.st = "login" -> {SendCommand(m, "login")}
              [] op.kind = "command" -> {SendCommand([m EXCEPT !.c.lastType = "unknown"], "command")}
              [] op.kind = "list" /\ op.st = "start" -> Transfer(to("wait"), 0)
              [] op.kind = "file" /\ op.st = "start" ->
                   IF op.again THEN Transfer(to("waittest"), 2) ELSE Transfer(to("wait"), op.offset)
              [] op.kind \in {"list", "file"} /\ op.st = "command" -> {SendCommand(m, "extra")}
              [] OTHER -> {m}

-----------------------------------------------------------------------------
(* The end of a raw transfer, and SubcommandResult of its parent.          *)

\* MDTM after a listing or MFMT after an upload, or the end.
Finish(m) ==
  {PopOp(m)} \cup SendNextCommand(WithTop(m, [TopOf(m) EXCEPT !.st = "command"]))

\* Fault: the transfer is repeated again and again.
RepeatForever(m) == SendNextCommand(WithTop(m, [TopOf(m) EXCEPT !.st = "start"]))
Repeat(m) == SendNextCommand(WithTop(m, [TopOf(m) EXCEPT !.st = "start", !.again = FALSE]))

RawOK(m) ==
  LET n == [PopOp(m) EXCEPT !.c.succeeded = TopOf(m).tid]
      p == TopOf(n)
  IN IF p.again THEN Repeat(n) ELSE Finish(n)

\* A listing that failed may have been empty, or be repeated without -a.
RawFailed(m) ==
  LET raw == TopOf(m)
      n == PopOp(m)
      p == TopOf(n)
  IN {PopOp(n)} \cup (IF p.kind = "list" /\ raw.sent
                      THEN IF p.again THEN Repeat(n) ELSE Finish(n) ELSE {})

Failure(op, reason) == IF op.reason = "ok" THEN [op EXCEPT !.reason = reason] ELSE op

\* Fault: a transfer is over with its data connection.
TransferEndHasty(m) ==
  LET op == Failure(TopOf(m), IF m.d.reason = "ok" THEN "ok" ELSE "fail")
  IN CASE op.st \in {"transfer", "waitfinish", "waitsocket"} ->
            IF m.d.reason = "ok" THEN RawOK(WithTop(m, op)) ELSE RawFailed(WithTop(m, op))
       [] OTHER -> {WithTop(m, op)}
\* CFtpControlSocket::TransferEnd, when it is not ignored.
TransferEnd(m) ==
  LET op == Failure(TopOf(m), IF m.d.reason = "ok" THEN "ok" ELSE "fail")
  IN CASE op.st = "transfer" -> {WithTop(m, [op EXCEPT !.st = "waittransferpre"])}
       [] op.st = "waitfinish" -> {WithTop(m, [op EXCEPT !.st = "waittransfer"])}
       [] op.st = "waitsocket" ->
            IF m.d.reason = "ok" THEN RawOK(WithTop(m, op)) ELSE RawFailed(WithTop(m, op))
       [] OTHER -> {WithTop(m, op)}

-----------------------------------------------------------------------------
(* Replies. *)

Good(code) == code = 2

\* rawtransfer_port_pasv.  A reply to PASV that cannot be parsed is a bad one.
ParsePortPasv(m, code) ==
  LET op == TopOf(m)
  IN IF Good(code)
     THEN SendNextCommand(WithTop(m, [op EXCEPT !.st =
            IF op.offset > 0 \/ m.c.sentRest THEN "rest" ELSE "transfer"]))
     ELSE IF ~Fallback \/ (op.triedPasv /\ op.triedActive) THEN RawFailed(m)
     ELSE SendNextCommand(WithTop(m, [op EXCEPT !.pasv = ~op.triedPasv]))

\* CFtpRawTransferOpData::ParseResponse
ParseRaw(m, code) ==
  LET op == TopOf(m)
      to(st) == SendNextCommand(WithTop(m, [op EXCEPT !.st = st]))
      fail(reason) == RawFailed(WithTop(m, Failure(op, reason)))
      succeed == IF op.reason = "ok" THEN RawOK(m) ELSE RawFailed(m)
  IN CASE op.st = "type" ->
            IF Good(code)
            THEN SendNextCommand(WithTop([m EXCEPT !.c.lastType = op.binary], [op EXCEPT !.st = "port_pasv"]))
            ELSE RawFailed(m)
       [] op.st = "port_pasv" -> ParsePortPasv(m, code)
       [] op.st = "rest" ->
            IF op.offset > 0 /\ ~Good(code) THEN RawFailed(m)
            ELSE SendNextCommand(WithTop([m EXCEPT !.c.sentRest = @ /\ op.offset > 0],
                                         [op EXCEPT !.st = "transfer"]))
       [] op.st = "transfer" ->
            IF code = 1 THEN to("waitfinish") ELSE IF Good(code) THEN to("waitsocket") ELSE fail("immediate")
       [] op.st = "waittransferpre" ->
            IF code = 1 THEN to("waittransfer") ELSE IF Good(code) THEN succeed ELSE fail("immediate")
       [] op.st = "waitfinish" -> IF Good(code) THEN to("waitsocket") ELSE fail("fail")
       [] op.st = "waittransfer" -> IF Good(code) THEN succeed ELSE fail("fail")
       [] OTHER -> RawFailed(m)

\* ParseResponse of the other operations.
ParseOther(m, code) ==
  LET op == TopOf(m)
  IN CASE op.kind = "logon" /\ op.st = "welcome" -> SendNextCommand(WithTop(m, [op EXCEPT !.st = "login"]))
       [] op.kind = "logon" /\ op.st = "login" -> SendNextCommand(PopOp(m))
       [] OTHER -> {PopOp(m)}

\* CFtpControlSocket::ParseResponse with a reply that is to be skipped.
Skip(m) ==
  LET c == [m.c EXCEPT !.skip = @ - 1]
      n == [m EXCEPT !.c = [c EXCEPT !.timer = FALSE]]
  IN IF c.skip # 0 THEN {[m EXCEPT !.c = c]}
     ELSE IF c.ops = <<>> THEN {[n EXCEPT !.c = StartKeepaliveTimer(n.c)]}
     ELSE IF c.pending = 0 THEN SendNextCommand(n) ELSE {n}

Reply == Head(srv.replies)
Code == Reply[2]

\* Fault: a preliminary reply is counted as well.
CountedAny(m) == IF m.c.pending = 0 THEN m ELSE [m EXCEPT !.c.pending = @ - 1]
\* A final reply is one less to wait for.
Counted(m) == IF Code = 1 \/ m.c.pending = 0 THEN m ELSE [m EXCEPT !.c.pending = @ - 1]

\* The reply is for the operation on top.
IsParsed == ctl.skip = 0 /\ HasOp /\ (Code = 1 \/ ctl.pending > 0)

\* A bad welcome or login closes the connection.
Refused == IsParsed /\ Top.kind = "logon" /\ ~Good(Code)

ParseResponse ==
  /\ srv.replies # <<>> /\ ~Refused
  /\ LET m == Counted(Here)
     IN \E n \in IF Code # 1 /\ ctl.pending = 0 THEN {Here}
                 ELSE IF ctl.skip # 0 THEN IF Code = 1 THEN {m} ELSE Skip(m)
                 ELSE IF ~HasOp THEN {m}
                 ELSE IF Top.kind = "raw" THEN ParseRaw(m, Code) ELSE ParseOther(m, Code) :
          /\ Becomes(n)
          /\ srv' = [srv EXCEPT !.replies = Tail(@), !.cmds = n.q]
  /\ UNCHANGED ends

LoginRefused ==
  /\ srv.replies # <<>> /\ Refused
  /\ ctl' = Closed(ctl) /\ DoClose /\ UNCHANGED ends

-----------------------------------------------------------------------------
(* Other events of the control socket. *)

Handle(outcomes) ==
  /\ \E n \in outcomes : Becomes(n) /\ srv' = [srv EXCEPT !.cmds = n.q]

\* Push of a new command's operation, by the engine, and its first
\* SendNextCommand.  A closed connection is opened again.
Execute(op) ==
  /\ ~HasOp /\ ctl.count < MaxOps
  /\ LET ops == IF ctl.conn = "closed" THEN <<op, NewOp("logon", "connect")>> ELSE <<op>>
     IN Handle(SendNextCommand([Here EXCEPT !.c.ops = ops, !.c.count = @ + 1]))
  /\ UNCHANGED ends

NewCommands ==
  {NewOp("command", "command"), [NewOp("list", "start") EXCEPT !.again = TRUE],
   [NewOp("file", "start") EXCEPT !.binary = "A"]}
  \cup {[NewOp("file", "start") EXCEPT !.again = b, !.offset = 1] : b \in BOOLEAN}

OnConnect ==
  /\ ctl.conn = "connecting"
  /\ ctl' = [ctl EXCEPT !.conn = "up", !.lastType = "unknown", !.sentRest = FALSE, !.pending = 1,
                        !.ops[Len(ctl.ops)].st = "welcome"]
  /\ srv' = [Fresh(srv) EXCEPT !.cmds = SendCommand(Here, "welcome").q]
  /\ UNCHANGED <<data, ends>>

\* Fault: replies are not skipped after a cancelled operation.
CancelUnskipped ==
  /\ HasOp
  /\ IF Top.kind = "logon" THEN ctl' = Closed(ctl) /\ DoClose
     ELSE Handle({[EndAll(Here) EXCEPT !.c.skip = 0]})
  /\ UNCHANGED ends
\* CControlSocket::Cancel
Cancel ==
  /\ HasOp
  /\ IF Top.kind = "logon" THEN ctl' = Closed(ctl) /\ DoClose
     ELSE Handle({EndAll(Here)})
  /\ UNCHANGED ends

\* OnSocketError and the like; CControlSocket::OnTimer.
ConnectionLost ==
  /\ ctl.faults < MaxFaults
  /\ ctl.conn # "closed"
  /\ ctl' = [Closed(ctl) EXCEPT !.faults = @ + 1] /\ DoClose /\ UNCHANGED ends

OnExternalIPAddress ==
  /\ HasOp /\ Top.resolving
  /\ Handle({[n EXCEPT !.c.ops = [i \in DOMAIN @ |-> [@[i] EXCEPT !.resolving = FALSE]]] :
               n \in SendNextCommand(Here)})
  /\ UNCHANGED ends

\* CFtpControlSocket::OnTimer with m_idleTimer: NOOP, PWD or TYPE.
OnKeepaliveTimer ==
  /\ ctl.idle /\ ctl.keepalives < MaxKeepalives
  /\ IF HasOp \/ ctl.pending # 0 \/ ctl.skip # 0
     THEN ctl' = [ctl EXCEPT !.idle = FALSE] /\ UNCHANGED srv
     ELSE LET m == SendCommand(Here, "keepalive")
          IN /\ ctl' = [m.c EXCEPT !.idle = FALSE, !.keepalives = @ + 1, !.skip = @ + 1]
             /\ srv' = [srv EXCEPT !.cmds = [m.q EXCEPT ![Len(m.q)].binary =
                                               IF ctl.lastType = "A" THEN "A" ELSE "I"]]
  /\ UNCHANGED <<data, ends>>

OnTransferEndEvent ==
  /\ ends > 0
  /\ ends' = ends - 1
  /\ IF ~HasOp \/ data.tid = 0 \/ Top.kind # "raw" \/ data.reason = "none"
     THEN UNCHANGED <<ctl, data, srv>>
     ELSE IF data.reason = "tls" THEN ctl' = Closed(ctl) /\ DoClose
     ELSE Handle(TransferEnd(Here))

\* SetAsyncRequestReply to the question whether to go on without resumption
\* of the TLS session.
OnReply(allow) ==
  /\ HasOp /\ Top.asks
  /\ LET m == WithTop([Here EXCEPT !.c.resumption = IF allow THEN "no" ELSE @],
                      [Top EXCEPT !.asks = FALSE])
     IN Handle({IF allow THEN [m EXCEPT !.d = SetActive(@)] ELSE EndAll(m)})
  /\ UNCHANGED ends

-----------------------------------------------------------------------------
(* Events of the data connection. *)

\* CTransferSocket::TransferEnd
DataEnd(reason) ==
  IF data.reason # "none" THEN UNCHANGED <<data, ends>>
  ELSE /\ data' = [data EXCEPT !.reason = reason, !.link = IF reason = "ok" THEN @ ELSE "reset",
                               !.early = ~Top.sent]
       /\ ends' = ends + 1

\* OnAccept and OnConnect: the server connects to the address it was told, or
\* accepts.  A connection that fails ends the transfer.
Establishes ==
  \/ data.link = "connecting"
  \/ data.link = "listening" /\ srv.cmds # <<>> /\ Head(srv.cmds).cmd = "transfer"
     /\ srv.port = data.tid
OnDataConnect ==
  /\ Establishes
  /\ LET up == [data EXCEPT !.link = "connected"]
     IN \/ /\ ~Protect \/ ctl.resumption = "no"
           /\ data' = up /\ UNCHANGED <<ctl, ends>>
        \/ /\ Protect                               \* the session is resumed
           /\ data' = up /\ ctl' = [ctl EXCEPT !.resumption = "yes"] /\ UNCHANGED ends
        \/ /\ Protect /\ ctl.resumption = "unknown"
           /\ data' = [up EXCEPT !.block = @ + 1]
           /\ ctl' = [ctl EXCEPT !.ops[Len(ctl.ops)].asks = TRUE]
           /\ UNCHANGED ends
        \/ /\ Protect /\ ctl.resumption = "yes"
           /\ DataEnd("tls") /\ UNCHANGED ctl
  /\ srv' = [srv EXCEPT !.linked = TRUE]

OnDataConnectFails ==
  /\ Establishes /\ data.reason = "none"
  /\ DataEnd("fail")
  /\ UNCHANGED <<ctl, srv>>

\* OnAccept with an error, of somebody else's connection.
OnAcceptError ==
  /\ data.link = "listening" /\ data.reason = "none" /\ ctl.faults < MaxFaults
  /\ DataEnd("fail")
  /\ ctl' = [ctl EXCEPT !.faults = @ + 1]
  /\ UNCHANGED srv

\* The first event of the connected socket, which does not come again.
OnDataEvent ==
  /\ data.link = "connected" /\ data.reason = "none" /\ data.events = "none"
  /\ data' = [data EXCEPT !.events = IF data.block > 0 THEN "postponed" ELSE "flowing"]
  /\ UNCHANGED <<ctl, srv, ends>>

OnDataEnd(reason) ==
  /\ data.reason = "none" /\ data.events = "flowing"
  /\ DataEnd(reason)
  /\ srv' = [srv EXCEPT !.received = IF reason = "ok" THEN data.tid ELSE @]
  /\ UNCHANGED ctl

-----------------------------------------------------------------------------
(* The server. *)

Executed(s, c) ==
  CASE c.cmd = "type" -> {[s EXCEPT !.type = c.binary]}
    [] c.cmd = "keepalive" -> {s, [s EXCEPT !.type = c.binary]}
    [] c.cmd = "command" -> {[s EXCEPT !.type = t] : t \in Types}
    [] c.cmd \in {"port", "pasv"} -> {[s EXCEPT !.port = c.tid]}
    [] c.cmd = "rest" -> {[s EXCEPT !.offset = c.offset]}
    [] c.cmd = "transfer" -> {[s EXCEPT !.completed = c.tid, !.offset = 0]}
    [] OTHER -> {s}

\* The restart marker may or may not survive a transfer that fails.
Rejected(s, c) == {s} \cup (IF c.cmd = "transfer" THEN {[s EXCEPT !.offset = 0]} ELSE {})

\* The server replies to a command.  It rejects REST 0, after which the client
\* goes on, only if there is no restart offset to forget.
ServerReplies(code) ==
  /\ srv.cmds # <<>>
  /\ LET c == Head(srv.cmds)
         s == [srv EXCEPT !.replies = Append(@, <<c, code>>)]
         t == [s EXCEPT !.cmds = Tail(@), !.prelim = FALSE, !.linked = FALSE]
     IN \/ /\ code = 1 /\ c.cmd = "transfer" /\ ~srv.prelim
           /\ srv' = [s EXCEPT !.prelim = TRUE]
        \/ /\ code = 2 /\ (c.cmd = "transfer" => srv.linked)
           /\ srv' \in Executed(t, c)
        \/ /\ code = 5 /\ (c.cmd = "rest" /\ c.offset = 0 => srv.offset = 0)
           /\ srv' \in Rejected(t, c)
  /\ UNCHANGED <<ctl, data, ends>>

-----------------------------------------------------------------------------
DataNext ==
  \/ OnDataConnect \/ OnDataConnectFails \/ OnDataEvent
  \/ \E reason \in {"ok", "fail"} : OnDataEnd(reason)

ControlNext ==
  \/ ParseResponse \/ LoginRefused \/ OnConnect \/ OnExternalIPAddress \/ OnTransferEndEvent
  \/ \E allow \in BOOLEAN : OnReply(allow)

ServerNext == \E code \in {1, 2, 5} : ServerReplies(code)

Next ==
  \/ DataNext \/ ControlNext \/ ServerNext
  \/ OnKeepaliveTimer \/ Cancel \/ ConnectionLost \/ OnAcceptError
  \/ \E op \in NewCommands : Execute(op)

Spec == Init /\ [][Next]_vars

-----------------------------------------------------------------------------
(* Properties. *)

\* A reply that an operation parses is one to a command of that operation, in
\* the state that waits for it: never one to a cancelled operation's command,
\* to a keepalive or to an earlier transfer of the same operation.
ReplyMatches ==
  srv.replies # <<>> /\ IsParsed =>
    LET c == Reply[1]
    IN /\ c.tid = Top.tid
       /\ Top.kind = "raw" =>
            CASE c.cmd = "type" -> Top.st = "type"
              [] c.cmd \in {"port", "pasv"} -> Top.st = "port_pasv" /\ Top.pasv = (c.cmd = "pasv")
              [] c.cmd = "rest" -> Top.st = "rest"
              [] OTHER -> Top.st \notin {"type", "port_pasv", "rest"}
       /\ Top.kind # "raw" => c.cmd \in {"welcome", "login", "command", "extra"}

\* m_pendingReplies is the number of commands whose final reply has not been
\* read, through cancellations, keepalives and reconnects.
PendingExact ==
  ctl.pending = Len(srv.cmds) + Cardinality({i \in DOMAIN srv.replies : srv.replies[i][2] # 1})

\* A transfer command finds the server in the state the client set up for it:
\* representation type, restart offset and data port.  m_lastTypeBinary and
\* m_sentRestartOffset, which save commands, are never wrong, whatever was
\* cancelled, rejected or sent as a keepalive before.
ServerAgrees ==
  srv.cmds # <<>> /\ Head(srv.cmds).cmd = "transfer" /\ ~srv.prelim =>
    LET c == Head(srv.cmds)
    IN c.binary = srv.type /\ c.offset = srv.offset /\ c.tid = srv.port

\* A transfer succeeds only if its own data connection ended well and the
\* server said so for this very command.
SuccessIsReal ==
  [][ctl'.succeeded # ctl.succeeded =>
       srv'.completed = ctl'.succeeded /\ srv'.received = ctl'.succeeded]_vars

\* While an operation waits for the server, its timer runs.
TimerRuns == HasOp /\ ~Top.resolving => ctl.timer

\* The server, the data connection, the event loop or the user has something
\* to do.
SomethingDue ==
  \/ srv.cmds # <<>> \/ srv.replies # <<>> \/ ends > 0 \/ ctl.conn = "connecting"
  \/ HasOp /\ (Top.resolving \/ Top.asks)
  \/ data.reason = "none" /\ \/ data.link \in {"connecting"}
                             \/ data.link = "connected" /\ data.events # "postponed"

\* An operation never depends on the timeout to end, however the replies, the
\* data connection's events and the user's answers are ordered: there is
\* always something due that brings it further.  The one exception is a
\* listening socket that fails before the transfer command is sent: its
\* TransferEndEvent is ignored, and it sends no other.
NeverStuck == HasOp /\ ~data.early => SomethingDue
=============================================================================
