---------------------------- MODULE PoliteClient ----------------------------
(***************************************************************************)
(* ServerConnection with a client that does what hub_test.go's client      *)
(* does: it waits for Ready, sends one request at a time and waits for its *)
(* answer, sends verify once, waits for AvailableActions, sends connect,   *)
(* and does not leave.                                                     *)
(***************************************************************************)
EXTENDS ServerConnection

Sent(kind) == \E n \in 1..Len(kinds) : kinds[n] = kind

\* Ready, and the answer to the last request, have been written.
Ask(kind) ==
    /\ kind \in Plain
    /\ keyExchange = "select" /\ Len(handled) = Len(kinds)
    /\ kind = "request" => Len(kinds) < MaxMessages - 2
    /\ Send(kind)

\* AvailableActions has been written.
Connect ==
    /\ registration = "select" /\ ~Sent("connect")
    /\ Send("connect")

PoliteNext == (\E kind \in Plain : Ask(kind)) \/ Connect \/ ServerNext

\* The client need not ask, but having been told of connect it connects.
PoliteSpec == Init /\ [][PoliteNext]_vars /\ ServerFairness /\ WF_vars(Connect)

-----------------------------------------------------------------------------
(***************************************************************************)
(* "fromClient <- Connect [...] waitForResponse": a connect sent upon      *)
(* AvailableActions is answered (hub_test.go:98-108).                      *)
(***************************************************************************)
ConnectAnswered ==
    Sent("connect") ~> (member = "select" \/ crashed)
=============================================================================
