----------------------------- MODULE MCInvoker -----------------------------
(***************************************************************************)
(* Instances of Invoker for TLC: a session with its internal port and the  *)
(* user's port, and another terminal that changes the visibility of the    *)
(* user's port.                                                            *)
(***************************************************************************)
EXTENDS Invoker, TLC

CONSTANTS inner, forward, change, internal, user, noport

SessionCalls == {inner, forward, change}
SessionConns == {"ssh", "ports"}
SessionConnOf == (inner :> "ssh") @@ (forward :> "ssh") @@ (change :> "ports")
SessionPorts == {internal, user}
SessionPortOf == (inner :> internal) @@ (forward :> user) @@ (change :> user)
SessionInitial == {(internal :> noport) @@ (user :> "private")}
Listening == {inner, forward}
Changing == {change}
Unreliable == {inner, change}
TwoPrivacies == {"private", "public"}

=============================================================================
