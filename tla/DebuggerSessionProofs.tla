------------------------ MODULE DebuggerSessionProofs ------------------------
(***************************************************************************)
(* Proofs about DebuggerSession, for any number of connections and         *)
(* messages: its types, its safety invariants, that no connection is       *)
(* missed, and that it implements DebuggerAttachment.                      *)
(*                                                                         *)
(* SessionMatchesConnections is not inductive: that a close or a message   *)
(* of an open connection finds its session also takes that the open        *)
(* connections are exactly those in the map (OpenAreConnected).            *)
(***************************************************************************)
EXTENDS DebuggerSession, SequenceTheorems, TLAPS

-------------------------------------------------------------------------------
(* Types.                                                                  *)

\* Appending to a sequence, and dropping the head of one that is not empty, give
\* sequences.
LEMMA AppendLemma ==
  ASSUME NEW S, NEW s \in Seq(S), NEW e \in S
  PROVE  Append(s, e) \in Seq(S)
  OBVIOUS

LEMMA TailLemma ==
  ASSUME NEW S, NEW s \in Seq(S), s # <<>>
  PROVE  Tail(s) \in Seq(S)
  OBVIOUS

\* A call pushes a frame.
LEMMA PushLemma ==
  ASSUME NEW S, NEW s \in Seq(S), NEW e \in S
  PROVE  <<e>> \o s \in Seq(S) /\ <<e>> \in Seq(S)
  OBVIOUS

\* Every step keeps the types.
LEMMA TypeStep == TypeOK /\ [Next]_vars => TypeOK'
<1> SUFFICES ASSUME TypeOK, [Next]_vars PROVE TypeOK'
  OBVIOUS
<1> USE DebuggerAssumption DEF TypeOK, clientVars, sessionVars
<1>1. ASSUME NEW h \in Handles, Connect(h) PROVE TypeOK'
  BY <1>1 DEF Connect, NetStates
<1>2. ASSUME NEW h \in Handles, HangUp(h) PROVE TypeOK'
  BY <1>2 DEF HangUp
<1>3. ASSUME NEW h \in Handles, NEW m \in Messages, SendMessage(h, m) PROVE TypeOK'
  <2>1. inbox[h] \in Seq(Messages) /\ sent[h] \in Nat
    OBVIOUS
  <2>2. Append(inbox[h], m) \in Seq(Messages)
    BY <2>1, AppendLemma, Zenon
  <2>3. sent[h] + 1 \in Nat
    BY ONLY <2>1
  <2> QED BY <1>3, <2>2, <2>3 DEF SendMessage
<1>4. ASSUME NEW k \in AppKinds, AppCall(k) PROVE TypeOK'
  <2>1. Frame(k, NoHandle) \in Frames
    BY DEF Frame, Frames, AppKinds, LoopKinds
  <2>2. <<Frame(k, NoHandle)>> \in Seq(Frames)
    BY <2>1, PushLemma
  <2> QED BY <1>4, <2>2 DEF AppCall
<1>5. CASE Return
  <2>1. stack # <<>>
    BY <1>5 DEF Return, MayReturn, OnTop
  <2> QED BY <1>5, <2>1, TailLemma DEF Return
<1>6. CASE RunMessageLoopOnPause
  <2>1. Frame("pause", NoHandle) \in Frames
    BY DEF Frame, Frames, LoopKinds
  <2>2. stack' \in Seq(Frames)
    BY <1>6, <2>1, PushLemma DEF RunMessageLoopOnPause
  <2> QED BY <1>6, <2>2 DEF RunMessageLoopOnPause
<1>7. ASSUME NEW h \in Handles, WebsocketValidationHandler(h) PROVE TypeOK'
  BY <1>7 DEF WebsocketValidationHandler, NetStates
<1>8. ASSUME NEW h \in Handles, HandshakeFails(h) PROVE TypeOK'
  BY <1>8 DEF HandshakeFails, NetStates
<1>9. ASSUME NEW h \in Handles, OnOpen(h) PROVE TypeOK'
  BY <1>9 DEF OnOpen, AttachClient, Abort, NetStates
<1>10. ASSUME NEW h \in Handles, OnClose(h) PROVE TypeOK'
  BY <1>10 DEF OnClose, DetachClient, Abort, NetStates
<1>11. ASSUME NEW h \in Handles, OnMessage(h) PROVE TypeOK'
  <2>1. inbox' \in [Handles -> Seq(Messages)]
    <3>1. Tail(inbox[h]) \in Seq(Messages)
      <4>1. inbox[h] \in Seq(Messages) /\ inbox[h] # <<>>
        BY <1>11 DEF OnMessage
      <4> QED BY <4>1, TailLemma, Zenon
    <3> QED BY <1>11, <3>1 DEF OnMessage
  <2>2. CASE session = NoHandle
    BY <1>11, <2>1, <2>2 DEF OnMessage, DispatchProtocolMessage
  <2>3. CASE session # NoHandle
    <3>1. Frame("dispatch", session) \in Frames
      BY <2>3 DEF Frame, Frames
    <3>2. stack' \in Seq(Frames)
      <4>1. stack' = <<Frame("dispatch", session)>> \o stack
        BY <1>11, <2>3 DEF OnMessage, DispatchProtocolMessage
      <4>2. stack \in Seq(Frames)
        OBVIOUS
      <4> QED BY <3>1, <4>1, <4>2, PushLemma, Zenon
    <3> QED BY <1>11, <2>1, <2>3, <3>2 DEF OnMessage, DispatchProtocolMessage
  <2> QED BY <2>2, <2>3
<1>12. CASE DispatchReturns
  <2>1. stack # <<>>
    BY <1>12 DEF DispatchReturns, OnTop
  <2> QED BY <1>12, <2>1, TailLemma DEF DispatchReturns
<1>13. CASE UNCHANGED vars
  BY <1>13 DEF vars
<1> QED
  BY <1>1, <1>2, <1>3, <1>4, <1>5, <1>6, <1>7, <1>8, <1>9, <1>10, <1>11, <1>12, <1>13
     DEF Next, Client, Handler, Program

\* The constructor leaves every variable well typed: two empty sequences, and
\* nothing else that takes more than a look.
LEMMA TypeInit == Init => TypeOK
<1> SUFFICES ASSUME Init PROVE TypeOK
  OBVIOUS
<1>1. inbox \in [Handles -> Seq(Messages)]
  <2>1. <<>> \in Seq(Messages)
    OBVIOUS
  <2> QED BY <2>1 DEF Init
<1>2. stack \in Seq(Frames)
  BY DEF Init
<1> QED
  BY <1>1, <1>2 DEF Init, TypeOK, NetStates

\* Every variable keeps its type.
THEOREM Typing == Spec => []TypeOK
BY TypeInit, TypeStep, PTL DEF Spec

-------------------------------------------------------------------------------
(* Safety.                                                                 *)

\* The connections in the map are the open ones, until an assertion fails.
OpenAreConnected ==
  crashed = "no" => connections = {h \in Handles : net[h] = "open"}

SafetyInv ==
  /\ TypeOK
  /\ OpenAreConnected
  /\ SessionMatchesConnections
  /\ HaltedOnlyWhileAttached
  /\ NeverDispatchWithoutSession

\* A step leaves the map, the session and the pause flag in agreement, and no
\* message is dispatched to a session that is not there.
LEMMA SafetyStep == SafetyInv /\ [Next]_vars => SafetyInv'
<1> SUFFICES ASSUME SafetyInv, [Next]_vars PROVE SafetyInv'
  OBVIOUS
<1>0. TypeOK'
  BY TypeStep DEF SafetyInv
<1> USE <1>0, DebuggerAssumption
    DEF SafetyInv, TypeOK, OpenAreConnected, SessionMatchesConnections,
        HaltedOnlyWhileAttached, NeverDispatchWithoutSession, clientVars, sessionVars
<1>1. ASSUME NEW h \in Handles, Client(h) PROVE SafetyInv'
  BY <1>1 DEF Client, Connect, HangUp, SendMessage
<1>2. CASE Program
  BY <1>2 DEF Program, AppCall, Return, RunMessageLoopOnPause, DispatchReturns
<1>3. ASSUME NEW h \in Handles, WebsocketValidationHandler(h) PROVE SafetyInv'
  BY <1>3 DEF WebsocketValidationHandler
<1>4. ASSUME NEW h \in Handles, HandshakeFails(h) PROVE SafetyInv'
  BY <1>4 DEF HandshakeFails
<1>5. ASSUME NEW h \in Handles, crashed = "no", OnOpen(h) PROVE SafetyInv'
  <2>1. CASE connections = {}
    <3>1. connections' = {g \in Handles : net'[g] = "open"}
      BY <1>5, <2>1 DEF OnOpen, AttachClient
    <3> QED BY <1>5, <2>1, <3>1 DEF OnOpen, AttachClient
  <2>2. CASE connections # {}
    BY <1>5, <2>2 DEF OnOpen, AttachClient, Abort
  <2> QED BY <2>1, <2>2
<1>6. ASSUME NEW h \in Handles, crashed = "no", OnClose(h) PROVE SafetyInv'
  <2>1. CASE connections = {h}
    <3>1. connections' = {g \in Handles : net'[g] = "open"}
      BY <1>6, <2>1 DEF OnClose, DetachClient
    <3> QED BY <1>6, <2>1, <3>1 DEF OnClose, DetachClient
  <2>2. CASE connections # {h}
    BY <1>6, <2>2 DEF OnClose, DetachClient, Abort
  <2> QED BY <2>1, <2>2
<1>7. ASSUME NEW h \in Handles, crashed = "no", OnMessage(h) PROVE SafetyInv'
  <2>1. session # NoHandle
    BY <1>7 DEF OnMessage
  <2> QED BY <1>7, <2>1 DEF OnMessage, DispatchProtocolMessage
<1>8. CASE UNCHANGED vars
  BY <1>8 DEF vars
<1> QED
  BY <1>1, <1>2, <1>3, <1>4, <1>5, <1>6, <1>7, <1>8 DEF Next, Handler

\* The invariant, from which the parts follow.
LEMMA Safety == Spec => []SafetyInv
<1>1. Init => SafetyInv
  <2> SUFFICES ASSUME Init PROVE SafetyInv
    OBVIOUS
  <2>1. TypeOK
    BY TypeInit
  <2>2. OpenAreConnected
    BY DEF Init, OpenAreConnected
  <2> QED
    BY <2>1, <2>2 DEF Init, SafetyInv, SessionMatchesConnections,
                      HaltedOnlyWhileAttached, NeverDispatchWithoutSession
<1> QED
  BY <1>1, SafetyStep, PTL DEF Spec

\* There is a session exactly while there is a connection, and it is its session,
\* whatever calls the handlers of the service interrupt.
THEOREM SessionSafety == Spec => []SessionMatchesConnections
<1>1. SafetyInv => SessionMatchesConnections
  BY DEF SafetyInv
<1> QED
  BY <1>1, Safety, PTL

\* The program is in the pause loop only while a client is there to resume it.
THEOREM HaltSafety == Spec => []HaltedOnlyWhileAttached
<1>1. SafetyInv => HaltedOnlyWhileAttached
  BY DEF SafetyInv
<1> QED
  BY <1>1, Safety, PTL

\* on_message finds a session.
THEOREM DispatchSafety == Spec => []NeverDispatchWithoutSession
<1>1. SafetyInv => NeverDispatchWithoutSession
  BY DEF SafetyInv
<1> QED
  BY <1>1, Safety, PTL

-------------------------------------------------------------------------------
(* Waiting for a connection.                                               *)

\* wait_for_connection has called nothing: what it would let in, it waits for.
WaitsAlone == \A i \in 1..Len(stack) : stack[i].kind = "wait" => Len(stack) = 1

LEMMA PushedWaitsAlone ==
  ASSUME TypeOK, WaitsAlone, ~OnTop("wait"), NEW f \in Frames, f.kind # "wait",
         stack' = <<f>> \o stack
  PROVE  WaitsAlone'
<1>1. stack \in Seq(Frames) /\ Len(stack) \in Nat /\ <<f>> \in Seq(Frames) /\ Len(<<f>>) = 1
      /\ <<f>>[1] = f
  <2>1. stack \in Seq(Frames)
    BY DEF TypeOK
  <2>2. Len(stack) \in Nat
    BY <2>1, LenProperties
  <2>3. <<f>> \in Seq(Frames)
    BY <2>1, PushLemma
  <2> QED BY <2>1, <2>2, <2>3
<1>2. /\ Len(stack') = 1 + Len(stack)
      /\ \A i \in 1..(1 + Len(stack)) : stack'[i] = IF i <= 1 THEN f ELSE stack[i - 1]
  BY <1>1, ConcatProperties
<1>3. ASSUME NEW i \in 1..Len(stack), stack[i].kind = "wait"
      PROVE  FALSE
  <2>1. Len(stack) = 1 /\ i = 1 /\ stack # <<>>
    BY <1>1, <1>3 DEF WaitsAlone
  <2> QED BY <1>3, <2>1 DEF OnTop
<1>4. ASSUME NEW i \in 1..Len(stack'), stack'[i].kind = "wait"
      PROVE  FALSE
  <2>1. i \in 1..(1 + Len(stack)) /\ ~(i <= 1)
    BY <1>1, <1>2, <1>4
  <2>2. i - 1 \in 1..Len(stack) /\ stack[i - 1].kind = "wait"
    BY <1>1, <1>2, <1>4, <2>1
  <2> QED BY <1>3, <2>2
<1> QED BY <1>4 DEF WaitsAlone

LEMMA PoppedWaitsAlone ==
  ASSUME TypeOK, WaitsAlone, stack # <<>>, stack' = Tail(stack)
  PROVE  WaitsAlone'
<1>1. stack \in Seq(Frames) /\ Len(stack) \in Nat \ {0}
  BY EmptySeq DEF TypeOK
<1>2. /\ Len(stack') = Len(stack) - 1
      /\ \A i \in 1..(Len(stack) - 1) : stack'[i] = stack[i + 1]
  BY <1>1, HeadTailProperties
<1>3. ASSUME NEW i \in 1..Len(stack'), stack'[i].kind = "wait"
      PROVE  FALSE
  <2>1. i \in 1..(Len(stack) - 1) /\ i + 1 \in 1..Len(stack) /\ Len(stack) # 1
    BY <1>1, <1>2, <1>3
  <2> QED BY <1>2, <1>3, <2>1 DEF WaitsAlone
<1> QED BY <1>3 DEF WaitsAlone

LEMMA WaitsAloneStep == SafetyInv /\ WaitsAlone /\ [Next]_vars => WaitsAlone'
<1> SUFFICES ASSUME SafetyInv, WaitsAlone, [Next]_vars PROVE WaitsAlone'
  OBVIOUS
<1>0. TypeOK
  BY DEF SafetyInv
<1>1. CASE UNCHANGED stack
  BY <1>1 DEF WaitsAlone
<1>2. ASSUME NEW k \in AppKinds, AppCall(k) PROVE WaitsAlone'
  <2>1. Len(stack') = 1
    BY <1>2 DEF AppCall
  <2> QED BY <2>1 DEF WaitsAlone
<1>3. CASE Return \/ DispatchReturns
  <2>1. stack # <<>> /\ stack' = Tail(stack)
    BY <1>3 DEF Return, MayReturn, DispatchReturns, OnTop
  <2> QED BY <1>0, <2>1, PoppedWaitsAlone
<1>4. CASE RunMessageLoopOnPause
  <2>1. /\ ~OnTop("wait") /\ stack' = <<Frame("pause", NoHandle)>> \o stack
        /\ Frame("pause", NoHandle) \in Frames /\ Frame("pause", NoHandle).kind # "wait"
    BY <1>4 DEF RunMessageLoopOnPause, OnTop, Frame, Frames, LoopKinds
  <2> QED BY <1>0, <2>1, PushedWaitsAlone
<1>5. ASSUME NEW h \in Handles, crashed = "no", OnMessage(h) PROVE WaitsAlone'
  <2>1. h \in connections
    BY <1>5 DEF SafetyInv, OpenAreConnected, OnMessage
  <2>2. ~OnTop("wait")
    BY <1>5, <2>1 DEF OnMessage, LoopContinues
  <2>3. CASE session = NoHandle
    BY <1>1, <1>5, <2>3 DEF OnMessage, DispatchProtocolMessage
  <2>4. CASE session # NoHandle
    <3>1. /\ stack' = <<Frame("dispatch", session)>> \o stack
          /\ Frame("dispatch", session) \in Frames /\ Frame("dispatch", session).kind # "wait"
      BY <1>0, <1>5, <2>4 DEF OnMessage, DispatchProtocolMessage, TypeOK, Frame, Frames
    <3> QED BY <1>0, <2>2, <3>1, PushedWaitsAlone
  <2> QED BY <2>3, <2>4
<1>6. ASSUME NEW h \in Handles,
             \/ Client(h) \/ WebsocketValidationHandler(h) \/ HandshakeFails(h)
             \/ OnOpen(h) \/ OnClose(h)
      PROVE  UNCHANGED stack
  BY <1>6 DEF Client, Connect, HangUp, SendMessage, WebsocketValidationHandler,
              HandshakeFails, OnOpen, OnClose
<1>7. CASE UNCHANGED vars
  BY <1>1, <1>7 DEF vars
<1> QED
  BY <1>1, <1>2, <1>3, <1>4, <1>5, <1>6, <1>7 DEF Next, Handler, Program

\* While wait_for_connection runs and there is a connection, no handler of the
\* service is called.
LEMMA NotMissedStep ==
  ASSUME SafetyInv, WaitsAlone, [Next]_vars, Running("wait"), connections # {}
  PROVE  connections' = connections
<1>1. PICK i \in DOMAIN stack : stack[i].kind = "wait"
  BY DEF Running
<1>2. OnTop("wait")
  <2>1. stack \in Seq(Frames) /\ DOMAIN stack = 1..Len(stack) /\ Len(stack) \in Nat
    BY LenProperties DEF SafetyInv, TypeOK
  <2>2. Len(stack) = 1 /\ i = 1 /\ stack # <<>>
    BY <1>1, <2>1 DEF WaitsAlone
  <2> QED BY <1>1, <2>2 DEF OnTop
<1>3. ~LoopContinues
  BY <1>2 DEF LoopContinues
<1>4. ASSUME NEW h \in Handles, Handler(h) PROVE FALSE
  BY <1>3, <1>4 DEF Handler, WebsocketValidationHandler, HandshakeFails, OnOpen, OnClose, OnMessage
<1>5. ASSUME NEW h \in Handles, Client(h) PROVE UNCHANGED connections
  BY <1>5 DEF Client, Connect, HangUp, SendMessage, sessionVars
<1>6. CASE Program
  BY <1>6 DEF Program, AppCall, Return, RunMessageLoopOnPause, DispatchReturns, sessionVars
<1>7. CASE UNCHANGED vars
  BY <1>7 DEF vars
<1> QED BY <1>4, <1>5, <1>6, <1>7 DEF Next

\* wait_for_connection sees every connection, for any number of clients: it is never
\* under another loop, and looks at the connections before each handler.
THEOREM NoConnectionMissed == Spec => ConnectionNotMissed
<1>1. Init => WaitsAlone
  BY DEF Init, WaitsAlone
<1>2. SafetyInv /\ WaitsAlone /\ [Next]_vars =>
        [Running("wait") /\ connections # {} => connections' = connections]_vars
  BY NotMissedStep
<1> QED
  BY <1>1, <1>2, WaitsAloneStep, Safety, PTL DEF Spec, ConnectionNotMissed

-------------------------------------------------------------------------------
(* Refinement.                                                             *)

\* A step of the service is a step of DebuggerAttachment, or changes nothing that
\* it sees.
LEMMA AttachmentStep ==
  SafetyInv /\ [Next]_vars => [Attachment!Next]_(Attachment!vars)
<1> SUFFICES ASSUME SafetyInv, [Next]_vars
             PROVE  [Attachment!Next]_(Attachment!vars)
  OBVIOUS
<1> USE DEF Attachment!vars, clientVars, sessionVars
<1>1. ASSUME NEW h \in Handles, Client(h) PROVE UNCHANGED Attachment!vars
  BY <1>1 DEF Client, Connect, HangUp, SendMessage
<1>2. CASE RunMessageLoopOnPause
  BY <1>2 DEF RunMessageLoopOnPause, Attachment!Next, Attachment!Halt, SafetyInv, TypeOK
<1>3. ASSUME NEW k \in AppKinds, AppCall(k) PROVE UNCHANGED Attachment!vars
  BY <1>3 DEF AppCall
<1>4. CASE Return \/ DispatchReturns
  BY <1>4 DEF Return, DispatchReturns
<1>5. ASSUME NEW h \in Handles, WebsocketValidationHandler(h) \/ HandshakeFails(h)
      PROVE UNCHANGED Attachment!vars
  BY <1>5 DEF WebsocketValidationHandler, HandshakeFails
<1>6. ASSUME NEW h \in Handles, OnOpen(h) PROVE [Attachment!Next]_(Attachment!vars)
  <2>1. CASE connections = {}
    <3>1. session = NoHandle
      BY <2>1 DEF SafetyInv, SessionMatchesConnections
    <3>2. Attachment!Attach(h)
      BY <1>6, <2>1, <3>1 DEF OnOpen, AttachClient, Attachment!Attach
    <3> QED BY <3>2 DEF Attachment!Next
  <2>2. CASE connections # {}
    BY <1>6, <2>2 DEF OnOpen, AttachClient, Abort
  <2> QED BY <2>1, <2>2
<1>7. ASSUME NEW h \in Handles, OnClose(h) PROVE [Attachment!Next]_(Attachment!vars)
  <2>1. CASE connections = {h}
    <3>1. session # NoHandle
      BY <2>1 DEF SafetyInv, SessionMatchesConnections
    <3>2. Attachment!Detach
      BY <1>7, <2>1, <3>1 DEF OnClose, DetachClient, Attachment!Detach
    <3> QED BY <3>2 DEF Attachment!Next
  <2>2. CASE connections # {h}
    BY <1>7, <2>2 DEF OnClose, DetachClient, Abort
  <2> QED BY <2>1, <2>2
<1>8. ASSUME NEW h \in Handles, OnMessage(h) PROVE [Attachment!Next]_(Attachment!vars)
  <2>1. UNCHANGED session /\ (paused' = paused \/ (paused /\ ~paused'))
    BY <1>8 DEF OnMessage, DispatchProtocolMessage, SafetyInv, TypeOK
  <2>2. paused' \in BOOLEAN
    BY TypeStep DEF SafetyInv, TypeOK
  <2> QED BY <2>1, <2>2 DEF Attachment!Next, Attachment!Resume
<1>9. CASE UNCHANGED vars
  BY <1>9 DEF vars
<1> QED
  BY <1>1, <1>2, <1>3, <1>4, <1>5, <1>6, <1>7, <1>8, <1>9 DEF Next, Handler, Program

\* The service implements DebuggerAttachment: one client at a time, halted only
\* while it is attached, and free when it leaves.
THEOREM Refinement == Spec => AttachmentSpec
<1>1. Init => Attachment!Init
  BY DEF Init, Attachment!Init
<1> QED
  BY <1>1, AttachmentStep, Safety, PTL DEF Spec, AttachmentSpec, Attachment!Spec
===============================================================================
