-------------------------- MODULE DebuggerAttachment --------------------------
(***************************************************************************)
(* What the debugger support of v8toolkit promises its user, without the   *)
(* websocket, the inspector or the call stack: at most one client is       *)
(* attached at a time, the program can be halted only while a client is    *)
(* attached, and a client that leaves sets the program free.               *)
(***************************************************************************)
CONSTANTS Handles,  \* the connections clients may make, each used once
          NoHandle  \* no connection

VARIABLES attached, \* the connection whose client is attached, or NoHandle
          halted    \* the program is held in the pause loop

vars == <<attached, halted>>

TypeOK ==
  /\ attached \in Handles \cup {NoHandle}
  /\ halted \in BOOLEAN

Init ==
  /\ attached = NoHandle
  /\ halted = FALSE

\* A client attaches only when no other client is attached.
Attach(h) ==
  /\ attached = NoHandle
  /\ attached' = h
  /\ UNCHANGED halted

\* The client leaves: nobody is left who could resume the program.
Detach ==
  /\ attached # NoHandle
  /\ attached' = NoHandle
  /\ halted' = FALSE

Halt ==
  /\ attached # NoHandle
  /\ ~halted
  /\ halted' = TRUE
  /\ UNCHANGED attached

Resume ==
  /\ halted
  /\ halted' = FALSE
  /\ UNCHANGED attached

Next == (\E h \in Handles : Attach(h)) \/ Detach \/ Halt \/ Resume

Spec == Init /\ [][Next]_vars
===============================================================================
