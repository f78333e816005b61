---------------------------- MODULE CommandQueue ----------------------------
(***************************************************************************)
(* The commands of a browsing context, interface/commandqueue.cpp and the  *)
(* parts of interface/state.cpp and interface/Mainfrm.cpp that feed it, as *)
(* the client of the engine of module Engine.                              *)
(*                                                                         *)
(* The queue is used by the main thread only, whose handlers run one after *)
(* the other: those of the user's actions and CMainFrame::OnEngineEvent,   *)
(* which the engine's callback has posted.  The latter takes one           *)
(* notification after the other, while the engine's thread goes on.        *)
(* Requests for exclusive use of the engine, recursive operations and the  *)
(* end of the program are left out.                                        *)
(***************************************************************************)
EXTENDS Engine, SequencesExt

CONSTANT MaxActions   \* bound: actions of the user

ASSUME QueueAssumption == MaxActions \in Nat

VARIABLES
  list,          \* m_CommandList
  ui,            \* the rest of the main thread's state
  actions        \* number of actions of the user so far

vars == <<eng, sock, list, ui, actions>>

CommandInfo == [kind : Kinds, didReconnect : BOOLEAN]
MainState == [draining : BOOLEAN,         \* inside OnEngineEvent
              site : BOOLEAN,             \* m_site is set
              success : BOOLEAN,          \* m_successful_connect
              asked : 0..MaxRequests]     \* the request shown to the user

TypeOK ==
  /\ EngineTypeOK
  /\ list \in Seq(CommandInfo)
  /\ ui \in MainState
  /\ actions \in 0..MaxActions

Init ==
  /\ EngineInit
  /\ list = <<>>
  /\ ui = [draining |-> FALSE, site |-> FALSE, success |-> FALSE, asked |-> 0]
  /\ actions = 0

Entry(kind) == [kind |-> kind, didReconnect |-> FALSE]

-----------------------------------------------------------------------------
(* A handler works on m = [e : the engine, l : the list, u : the rest].    *)

Here == [e |-> eng, l |-> list, u |-> ui]

\* The commands that Execute refuses for lack of a control socket are dropped.
Executable(l) ==
  IF sock.conn # "none" THEN l
  ELSE LET n == SelectInSeq(l, LAMBDA c : c.kind # "work")
       IN IF n = 0 THEN <<>> ELSE SubSeq(l, n, Len(l))

\* A connect command while there is a control socket, even a closed one, is
\* refused with ALREADYCONNECTED and preceded by a disconnect command.
WithDisconnect(l) ==
  IF l # <<>> /\ l[1].kind = "connect" /\ sock.conn # "none"
  THEN <<Entry("disconnect")>> \o l ELSE l

\* ProcessNextCommand: execute the first command that the engine accepts.
ProcessNextCommand(m) ==
  IF m.e.cmd # NoCommand THEN m
  ELSE LET l == WithDisconnect(Executable(m.l))
       IN IF l = <<>>
          THEN [m EXCEPT !.l = <<>>, !.u.site = @ /\ m.u.success]
          ELSE [m EXCEPT !.e = Execute(@, l[1].kind), !.l = l]

\* ProcessCommand of commands that come in one handler.
ProcessCommands(m, kinds) ==
  LET l == m.l \o [i \in DOMAIN kinds |-> Entry(kinds[i])]
  IN IF m.l = <<>> THEN ProcessNextCommand([m EXCEPT !.l = l]) ELSE [m EXCEPT !.l = l]

CancelAll(m) ==
  IF m.l = <<>> THEN m
  ELSE [m EXCEPT !.e = Cancel(@), !.l = IF m.e.cmd = NoCommand THEN <<>> ELSE <<@[1]>>]

\* Fault: the failed connect command stays in the list.
AfterFailedConnectKept(l) == l
\* The command list without the connect command at its front that failed and
\* the commands that were waiting for it.
AfterFailedConnect(l) ==
  LET rest == Tail(l)
      n == SelectInSeq(rest, LAMBDA c : c.kind = "connect")
  IN IF n = 0 THEN <<>> ELSE SubSeq(rest, n, Len(rest))

\* ProcessReply reconnects once for a command that lost its connection.
Reconnects(m, kind, code) ==
  /\ kind = "work" /\ "canceled" \notin code /\ "disconnected" \in code
  /\ ~m.l[1].didReconnect /\ m.u.site

ProcessReply(m, kind, code) ==
  IF m.l = <<>> THEN m
  ELSE LET first == m.l[1]
           tried == [m.l EXCEPT ![1].didReconnect =
                       @ \/ (kind = "work" /\ {"disconnected", "canceled"} \cap code = {"disconnected"})]
       IN IF Reconnects(m, kind, code)
          THEN ProcessNextCommand([m EXCEPT !.l = <<Entry("connect")>> \o tried])
          ELSE ProcessNextCommand(
                 CASE first.kind = "connect" /\ code = AlreadyConnected ->
                        [m EXCEPT !.l = <<Entry("disconnect")>> \o m.l]
                   [] first.kind = "connect" /\ code \notin {OK, AlreadyConnected} ->
                        [m EXCEPT !.l = AfterFailedConnect(m.l)]
                   [] first.kind = "connect" /\ code = OK ->
                        [m EXCEPT !.l = Tail(m.l), !.u.success = TRUE]
                   [] first.kind # "connect" ->
                        [m EXCEPT !.l = Tail(tried)])

Becomes(m) ==
  /\ eng' = m.e /\ list' = m.l /\ ui' = m.u
  /\ UNCHANGED sock

-----------------------------------------------------------------------------
(* The user. *)

UserActs ==
  /\ ~ui.draining /\ actions < MaxActions
  /\ actions' = actions + 1

\* CState::Connect
UserConnects ==
  /\ UserActs
  /\ LET m == IF sock.conn # "none" \/ eng.cmd # NoCommand \/ list # <<>>
              THEN CancelAll(Here) ELSE Here
     IN Becomes(ProcessCommands([m EXCEPT !.u.site = TRUE,
                                          !.u.success = @ /\ m.u.site], <<"connect", "work">>))

\* CState::Disconnect
UserDisconnects ==
  /\ UserActs
  /\ ui.site /\ list = <<>>
  /\ Becomes(ProcessCommands([Here EXCEPT !.u.site = FALSE, !.u.success = FALSE], <<"disconnect">>))

UserWorks ==
  /\ UserActs
  /\ ui.site
  /\ Becomes(ProcessCommands(Here, <<"work">>))

\* CMainFrame::OnCancel
UserCancels ==
  /\ UserActs
  /\ list # <<>>
  /\ Becomes(CancelAll(Here))

\* CAsyncRequestQueue::ProcessNextRequest
UserAnswers(accept) ==
  /\ ~ui.draining /\ ui.asked # 0
  /\ eng' = Enqueue(eng, "reply", ui.asked, accept)
  /\ ui' = [ui EXCEPT !.asked = 0]
  /\ UNCHANGED <<sock, list, actions>>

-----------------------------------------------------------------------------
(* CMainFrame::OnEngineEvent *)

OnEngineEvent ==
  /\ eng.wake /\ ~ui.draining
  /\ eng' = [eng EXCEPT !.wake = FALSE]
  /\ ui' = [ui EXCEPT !.draining = TRUE]
  /\ UNCHANGED <<sock, list, actions>>

TakeNotification ==
  /\ ui.draining /\ eng.notes # <<>>
  /\ LET n == Head(eng.notes)
         m == [Here EXCEPT !.e.notes = Tail(@)]
     IN Becomes(IF n.note = "operation" THEN ProcessReply(m, n.kind, n.code)
                ELSE [m EXCEPT !.u.asked = n.req])
  /\ UNCHANGED actions

\* Fault: the callback stays disabled after the last notification.
NoMoreNotificationsSilent ==
  /\ ui.draining /\ eng.notes = <<>>
  /\ ui' = [ui EXCEPT !.draining = FALSE]
  /\ UNCHANGED <<eng, sock, list, actions>>
NoMoreNotifications ==
  /\ ui.draining /\ eng.notes = <<>>
  /\ eng' = NoNotification(eng)
  /\ ui' = [ui EXCEPT !.draining = FALSE]
  /\ UNCHANGED <<sock, list, actions>>

UserNext == UserConnects \/ UserDisconnects \/ UserWorks \/ UserCancels

MainThreadNext ==
  \/ OnEngineEvent \/ TakeNotification \/ NoMoreNotifications
  \/ \E accept \in BOOLEAN : UserAnswers(accept)

LoopStep == LoopNext /\ UNCHANGED <<list, ui, actions>>

Next == LoopStep \/ MainThreadNext \/ UserNext

\* Both threads keep handling what is due: the events and timers of the loop,
\* the messages of the main thread.  A prompt is answered in the end, and an
\* operation that does not wait for the user ends, at the latest when
\* CControlSocket::OnTimer finds that the server is silent.
LoopProgress ==
  /\ \/ OnCommandEvent \/ DoCancel \/ OnSetAsyncRequestReplyEvent \/ OnTimer \/ DelayElapses
     \/ HasOp /\ Top.req = 0 /\ sock.greq = 0 /\ \E code \in PlainCodes : OperationEnds(code)
  /\ UNCHANGED <<list, ui, actions>>

Fairness == WF_vars(LoopProgress) /\ WF_vars(MainThreadNext)

Spec == Init /\ [][Next]_vars /\ Fairness

-----------------------------------------------------------------------------
(* Properties. *)

\* No notification is left lying: while there are any, OnEngineEvent is taking
\* them or has been posted.
NoLostWakeup == eng.notes # <<>> => ui.draining \/ eng.wake

\* A command was answered before the event sent for it was handled, by a
\* connection lost just then: the event will be taken for a later command.
EventOutlivesCommand ==
  eng.cmd = NoCommand /\ \E i \in DOMAIN eng.loop : eng.loop[i].ev = "command"

\* The queue gets empty: the interface does not stay busy, with the user's
\* commands shut out, after the engine has become idle.  Only a command event
\* that outlives its command can keep it going: every command may then be
\* dispatched by the event of the one before and answered by its end.
QueueDrains == []~EventOutlivesCommand => (list # <<>> ~> list = <<>>)
=============================================================================
