---------------------------- MODULE DebuggerSession ----------------------------
(***************************************************************************)
(* The websocket debugger of v8toolkit (src/src/debugger.cpp and           *)
(* src/include/v8toolkit/debugger.h): a DebugContext, its inspector        *)
(* session and the WebSocketService that feeds it.                         *)
(*                                                                         *)
(* Everything runs on one thread.  Handlers run only when the program      *)
(* calls one of the loops of the service (wait_for_connection, poll,       *)
(* poll_until_idle) or when V8 has called runMessageLoopOnPause.  A        *)
(* handler may run JavaScript, that JavaScript may hit a breakpoint, and   *)
(* the pause loop then runs further handlers on top of it: `stack' is the  *)
(* part of the call stack that matters, innermost call first.              *)
(*                                                                         *)
(* The websocketpp server and the V8 inspector are not in this repository; *)
(* their part is modelled from how debugger.cpp uses them.                 *)
(***************************************************************************)
EXTENDS Naturals, Sequences, FiniteSets

CONSTANTS Handles,     \* the connections clients make, each used once
          NoHandle,    \* "no connection"
          MaxMessages  \* bound: messages a client sends over one connection

ASSUME DebuggerAssumption ==
  /\ NoHandle \notin Handles
  /\ MaxMessages \in Nat

VARIABLES
  net,         \* how far websocketpp has taken each connection
  hungUp,      \* connections whose client has gone away
  inbox,       \* messages of each connection not delivered yet
  sent,        \* number of messages each client has sent
  connections, \* WebSocketService::connections
  session,     \* connection of DebugContext::session, or NoHandle when reset
  paused,      \* DebugContext::paused
  stack,       \* the nested calls, innermost first
  crashed      \* how the process died, or "no"

clientVars == <<hungUp, sent>>
sessionVars == <<connections, session, paused>>
vars == <<net, hungUp, inbox, sent, connections, session, paused, stack, crashed>>

-------------------------------------------------------------------------------
NetStates == {"idle", "handshake", "accepted", "open", "gone"}
Messages == {"evaluate", "resume"}
LoopKinds == {"wait", "poll", "idle", "pause"}
AppKinds == {"wait", "poll", "idle", "script"}
Frames == [kind : LoopKinds \cup {"script"}, handle : {NoHandle}]
            \cup [kind : {"dispatch"}, handle : Handles]

Frame(k, h) == [kind |-> k, handle |-> h]
OnTop(k) == stack # <<>> /\ Head(stack).kind = k
Running(k) == \E i \in DOMAIN stack : stack[i].kind = k

\* The DebugContext constructor: no session, no connection, listening.
Init ==
  /\ net = [h \in Handles |-> "idle"]
  /\ hungUp = {}
  /\ inbox = [h \in Handles |-> <<>>]
  /\ sent = [h \in Handles |-> 0]
  /\ connections = {}
  /\ session = NoHandle
  /\ paused = FALSE
  /\ stack = <<>>
  /\ crashed = "no"

-------------------------------------------------------------------------------
(* The clients.                                                            *)

Connect(h) ==
  /\ net[h] = "idle"
  /\ net' = [net EXCEPT ![h] = "handshake"]
  /\ UNCHANGED <<clientVars, inbox, sessionVars, stack, crashed>>

SendMessage(h, m) ==
  /\ net[h] = "open"
  /\ h \notin hungUp
  /\ sent[h] < MaxMessages
  /\ sent' = [sent EXCEPT ![h] = @ + 1]
  /\ inbox' = [inbox EXCEPT ![h] = Append(@, m)]
  /\ UNCHANGED <<net, hungUp, sessionVars, stack, crashed>>

HangUp(h) ==
  /\ net[h] \in {"handshake", "accepted", "open"}
  /\ h \notin hungUp
  /\ hungUp' = hungUp \cup {h}
  /\ UNCHANGED <<net, inbox, sent, sessionVars, stack, crashed>>

-------------------------------------------------------------------------------
(* The program: what it calls, and its own JavaScript.                     *)

\* The program runs a script, or calls wait_for_connection, poll or
\* poll_until_idle.
AppCall(k) ==
  /\ stack = <<>>
  /\ stack' = <<Frame(k, NoHandle)>>
  /\ UNCHANGED <<net, clientVars, inbox, sessionVars, crashed>>

\* When the innermost call may return.  poll and poll_until_idle return when the
\* network, respectively the clock, lets them: after any of their rounds.
MayReturn ==
  \/ OnTop("script")
  \/ OnTop("idle")
  \/ OnTop("poll")
  \/ OnTop("wait") /\ connections # {}
  \/ OnTop("pause") /\ ~paused

Return ==
  /\ MayReturn
  /\ stack' = Tail(stack)
  /\ UNCHANGED <<net, clientVars, inbox, sessionVars, crashed>>

\* JavaScript of the program, or of an evaluate message, hits a breakpoint.
\* V8 breaks only for an attached session and never inside another break; it
\* calls runMessageLoopOnPause.
RunMessageLoopOnPause ==
  /\ OnTop("script") \/ OnTop("dispatch")
  /\ session # NoHandle
  /\ ~Running("pause")
  /\ paused' = TRUE
  /\ stack' = <<Frame("pause", NoHandle)>> \o stack
  /\ UNCHANGED <<net, clientVars, inbox, connections, session, crashed>>

-------------------------------------------------------------------------------
(* The handlers websocketpp calls from inside a loop.                      *)

\* Mutant: wait_for_connection runs several handlers between two looks.
LoopContinuesUnchecked ==
  /\ \E k \in LoopKinds : OnTop(k)
  /\ OnTop("pause") => paused

\* A loop is about to run a handler: wait_for_connection looks at connections,
\* and the pause loop at paused, before each one.
LoopContinues ==
  /\ \E k \in LoopKinds : OnTop(k)
  /\ OnTop("wait") => connections = {}
  /\ OnTop("pause") => paused

\* The client's handshake arrives: refused when a client is connected.
WebsocketValidationHandler(h) ==
  /\ LoopContinues
  /\ net[h] = "handshake"
  /\ net' = [net EXCEPT ![h] = IF connections = {} THEN "accepted" ELSE "gone"]
  /\ UNCHANGED <<clientVars, inbox, sessionVars, stack, crashed>>

\* The response to the handshake could not be written: no handler is called.
HandshakeFails(h) ==
  /\ LoopContinues
  /\ net[h] = "accepted"
  /\ h \in hungUp
  /\ net' = [net EXCEPT ![h] = "gone"]
  /\ UNCHANGED <<clientVars, inbox, sessionVars, stack, crashed>>

\* A failed assert(): the process is gone.
Abort == crashed' = "assert" /\ UNCHANGED sessionVars

\* Mutants: no session for the connection; no assertion.
AttachClientWithoutSession(h) ==
  IF connections = {}
  THEN connections' = {h} /\ UNCHANGED <<session, paused, crashed>>
  ELSE Abort
AttachClientUnchecked(h) ==
  connections' = connections \cup {h} /\ session' = h /\ UNCHANGED <<paused, crashed>>

\* The body of on_open: the assertion, the connection and its session.
AttachClient(h) ==
  IF connections = {}
  THEN connections' = {h} /\ session' = h /\ UNCHANGED <<paused, crashed>>
  ELSE Abort

OnOpen(h) ==
  /\ LoopContinues
  /\ net[h] = "accepted"
  /\ net' = [net EXCEPT ![h] = "open"]
  /\ AttachClient(h)
  /\ UNCHANGED <<clientVars, inbox, stack>>

\* Mutants: the session survives; the pause loop goes on.
DetachClientKeepsSession(h) ==
  IF connections = {h}
  THEN connections' = {} /\ paused' = FALSE /\ UNCHANGED <<session, crashed>>
  ELSE Abort
DetachClientStaysPaused(h) ==
  IF connections = {h}
  THEN connections' = {} /\ session' = NoHandle /\ UNCHANGED <<paused, crashed>>
  ELSE Abort

\* The body of on_close: the assertions, the connection erased, the session
\* reset, the pause loop told to end.
DetachClient(h) ==
  IF connections = {h}
  THEN /\ connections' = {}
       /\ session' = NoHandle
       /\ paused' = FALSE
       /\ UNCHANGED crashed
  ELSE Abort

\* The close of a connection is seen after the messages sent before it.
OnClose(h) ==
  /\ LoopContinues
  /\ net[h] = "open"
  /\ h \in hungUp
  /\ inbox[h] = <<>>
  /\ net' = [net EXCEPT ![h] = "gone"]
  /\ DetachClient(h)
  /\ UNCHANGED <<clientVars, inbox, stack>>

\* Mutant: the call is made on no session.
DispatchToNothing(m) ==
  /\ stack' = <<Frame("dispatch", NoHandle)>> \o stack
  /\ paused' = (paused /\ m # "resume")
  /\ UNCHANGED crashed

\* get_session().dispatchProtocolMessage(m).  A resume request makes V8 call
\* quitMessageLoopOnPause; an evaluate request runs JavaScript.
DispatchProtocolMessage(m) ==
  IF session = NoHandle
  THEN crashed' = "null session" /\ UNCHANGED <<paused, stack>>
  ELSE /\ stack' = <<Frame("dispatch", session)>> \o stack
       /\ paused' = (paused /\ m # "resume")
       /\ UNCHANGED crashed

OnMessage(h) ==
  /\ LoopContinues
  /\ net[h] = "open"
  /\ inbox[h] # <<>>
  /\ inbox' = [inbox EXCEPT ![h] = Tail(@)]
  /\ DispatchProtocolMessage(Head(inbox[h]))
  /\ UNCHANGED <<net, clientVars, connections, session>>

\* dispatchProtocolMessage returns to on_message.
DispatchReturns ==
  /\ OnTop("dispatch")
  /\ stack' = Tail(stack)
  /\ UNCHANGED <<net, clientVars, inbox, sessionVars, crashed>>

-------------------------------------------------------------------------------
Client(h) == Connect(h) \/ HangUp(h) \/ \E m \in Messages : SendMessage(h, m)

Handler(h) ==
  \/ WebsocketValidationHandler(h)
  \/ HandshakeFails(h)
  \/ OnOpen(h)
  \/ OnClose(h)
  \/ OnMessage(h)

Program ==
  \/ \E k \in AppKinds : AppCall(k)
  \/ Return
  \/ RunMessageLoopOnPause
  \/ DispatchReturns

Next ==
  /\ crashed = "no"
  /\ \/ \E h \in Handles : Client(h) \/ Handler(h)
     \/ Program

Spec == Init /\ [][Next]_vars

\* A pause loop keeps running handlers and notices that paused was cleared, a
\* dispatch returns, and a client looking at a halted program resumes it or
\* goes away.
Fairness ==
  /\ \A h \in Handles : WF_vars(crashed = "no" /\ OnTop("pause") /\ Handler(h))
  /\ WF_vars(crashed = "no" /\ OnTop("pause") /\ Return)
  /\ WF_vars(crashed = "no" /\ DispatchReturns)
  /\ \A h \in Handles :
       WF_vars(/\ crashed = "no"
               /\ paused
               /\ SendMessage(h, "resume") \/ HangUp(h))

FairSpec == Spec /\ Fairness

-------------------------------------------------------------------------------
TypeOK ==
  /\ net \in [Handles -> NetStates]
  /\ hungUp \subseteq Handles
  /\ inbox \in [Handles -> Seq(Messages)]
  /\ sent \in [Handles -> Nat]
  /\ connections \subseteq Handles
  /\ session \in Handles \cup {NoHandle}
  /\ paused \in BOOLEAN
  /\ stack \in Seq(Frames)
  /\ crashed \in {"no", "assert", "null session"}

\* The inspector session exists exactly while a connection does, and its
\* channel is the map entry of that connection: on_open and on_close change the
\* map and the session together whatever calls they interrupt.
SessionMatchesConnections ==
  IF session = NoHandle THEN connections = {} ELSE connections = {session}

\* The program is never held in the pause loop with nobody left who could
\* resume it: on_close clears paused when the client goes away.
HaltedOnlyWhileAttached == paused => session # NoHandle

\* on_message never reaches dispatchProtocolMessage through an empty session
\* pointer, in whatever order opens, messages and closes are delivered.
NeverDispatchWithoutSession == crashed # "null session"

\* wait_for_connection sees every connection: no client comes and goes between
\* two of its looks at the connections.
ConnectionNotMissed ==
  [][Running("wait") /\ connections # {} => connections' = connections]_vars

\* A program halted in runMessageLoopOnPause gets out of it, because its client
\* resumes it or leaves.
PauseEnds == Running("pause") ~> (~Running("pause") \/ crashed # "no")

\* "only allow one connection": the assertions at the head of on_open and
\* on_close hold, because the validation handler has refused a second client.
OneConnectionAssertions == crashed # "assert"

\* The service implements the promise of DebuggerAttachment.
Attachment == INSTANCE DebuggerAttachment
                WITH attached <- session, halted <- paused
AttachmentSpec == Attachment!Spec
===============================================================================
