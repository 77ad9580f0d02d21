------------------------------ MODULE Workflow ------------------------------
(***************************************************************************)
(* What connection.ts may expect of the HandshakeWorkflow it starts on a   *)
(* socket: one call of success or failure, success only while the socket   *)
(* is not known to be closed, failure at the latest when it is.  Session   *)
(* implements this; ClientConnection builds on it.                         *)
(***************************************************************************)
VARIABLES
    connectionState,    \* of the socket wrapper
    result              \* which callback was called

workflowVars == <<connectionState, result>>

WorkflowInit == connectionState = "pending" /\ result = "none"

Open ==
    /\ connectionState = "pending"
    /\ connectionState' = "connected"
    /\ UNCHANGED result

Succeed ==
    /\ connectionState = "connected" /\ result = "none"
    /\ result' = "success"
    /\ UNCHANGED connectionState

\* A verification that does not decrypt fails the handshake on an open socket.
Fail ==
    /\ connectionState = "connected" /\ result = "none"
    /\ result' = "failure"
    /\ UNCHANGED connectionState

Disconnect ==
    /\ connectionState' = "disconnected"
    /\ result' = IF result = "none" THEN "failure" ELSE result

WorkflowSpec ==
    WorkflowInit /\ [][Open \/ Succeed \/ Fail \/ Disconnect]_workflowVars
=============================================================================
