--------------------------- MODULE PortForwarding ---------------------------
(***************************************************************************)
(* The ports of one codespace's tunnel, and the calls that forward them    *)
(* (ForwardPort, ForwardPortToListener) or change their visibility         *)
(* (UpdatePortVisibility: delete the port, forward it again).  Calls of    *)
(* one command share a connection and its ManagerMu; commands in several   *)
(* terminals share the ports only.                                         *)
(*                                                                         *)
(* One action is one request, or one step between two requests.  A request *)
(* fails once the context of its call has ended, though what it asked for  *)
(* may have been done by then.                                             *)
(***************************************************************************)
EXTENDS Naturals

CONSTANTS
    Calls, NoCall,
    Conns, ConnOf,      \* the connection each call uses
    Ports, PortOf,      \* the port each call is about
    InitialPorts,       \* what the ports may be at first
    Listeners,          \* calls of ForwardPortToListener
    Changers,           \* calls of UpdatePortVisibility; the rest is ForwardPort
    Visibilities,
    Default,            \* what a port gets if nothing is asked: private
    Allowed,            \* AllowedPortPrivacySettings
    NoPort,
    Faults              \* calls whose requests may fail of themselves

ASSUME NoCallAssumption == NoCall \notin Calls
ASSUME ConnOfAssumption == ConnOf \in [Calls -> Conns]
ASSUME PortOfAssumption == PortOf \in [Calls -> Ports]
ASSUME KindsAssumption == /\ Listeners \subseteq Calls /\ Changers \subseteq Calls
                          /\ Listeners \cap Changers = {}
ASSUME VisibilitiesAssumption == /\ Default \in Visibilities /\ NoPort \notin Visibilities
                                 /\ Allowed \subseteq Visibilities
ASSUME InitialAssumption == InitialPorts \subseteq [Ports -> Visibilities \cup {NoPort}]
ASSUME FaultsAssumption == Faults \subseteq Calls

Guarded == {"getOld", "delete", "get", "create"}     \* under ManagerMu
Steps == {"idle", "lockOld", "reconnect", "reload", "lock", "connect", "refresh",
          "listen", "ended"} \cup Guarded
Phases == {"change", "forward", "restore"}

VARIABLES
    ports,       \* the tunnel service: the visibility of each port
    managerMu,   \* who holds a connection's ManagerMu
    connected,   \* TunnelClient.connected
    step,        \* where the goroutine at work for a call is
    phase,       \* which ForwardPort of a visibility change it is in
    ctx,         \* is the call's context live?
    result,      \* what the caller has been told
    wanted,      \* the visibility asked for
    original,    \* the one a change has found (before: the one asked for)
    meddled,     \* history: changes after whose own last action on the port
                 \* another call has acted on it
    slipped      \* history: changes whose deletion went unanswered, or that
                 \* failed to forward the port again

service == <<ports, managerMu, connected>>
call == <<step, phase, ctx, result, wanted, original>>
history == <<meddled, slipped>>
pfvars == <<service, call, history>>

PortsTypeOK ==
    /\ ports \in [Ports -> Visibilities \cup {NoPort}]
    /\ managerMu \in [Conns -> Calls \cup {NoCall}]
    /\ connected \in [Conns -> BOOLEAN]
    /\ step \in [Calls -> Steps]
    /\ phase \in [Calls -> Phases]
    /\ ctx \in [Calls -> {"live", "ended"}]
    /\ result \in [Calls -> {"none", "ok", "error"}]
    /\ wanted \in [Calls -> Visibilities]
    /\ original \in [Calls -> Visibilities]
    /\ meddled \subseteq Changers /\ slipped \subseteq Calls

PortsInit ==
    /\ ports \in InitialPorts
    /\ managerMu = [c \in Conns |-> NoCall]
    /\ connected = [c \in Conns |-> FALSE]
    /\ step = [k \in Calls |-> "idle"]
    /\ phase = [k \in Calls |-> "forward"]
    /\ ctx = [k \in Calls |-> "live"]
    /\ result = [k \in Calls |-> "none"]
    /\ wanted = [k \in Calls |-> Default]
    /\ original = [k \in Calls |-> Default]
    /\ meddled = {} /\ slipped = {}

-----------------------------------------------------------------------------
(* Helpers.                                                                *)

Goto(k, to) == step' = [step EXCEPT ![k] = to]
Move(k, from, to) == step[k] = from /\ Goto(k, to)
Running(k) == step[k] \notin {"idle", "ended"}

Live(k) == ctx[k] = "live"
MayFail(k) == k \in Faults \/ ~Live(k)
Unlock(k) == managerMu' = [managerMu EXCEPT ![ConnOf[k]] = NoCall]

SetPort(k, v) ==
    /\ ports' = [ports EXCEPT ![PortOf[k]] = v]
    /\ meddled' = (meddled \ {k}) \cup
           {j \in Changers \ {k} : step[j] # "idle" /\ PortOf[j] = PortOf[k]}

Return(k, r) == Goto(k, "ended") /\ result' = [result EXCEPT ![k] = r]

(* Mutant of Fails: a change that fails leaves the port as it is.          *)
FailsAtOnce(k) ==
    /\ Goto(k, "ended")
    /\ result' = [result EXCEPT ![k] = IF @ = "none" THEN "error" ELSE @]
    /\ UNCHANGED <<phase, slipped>>

(* The error of a step ends the call; within a change it makes the caller, *)
(* if it still waits, forward the port with its original visibility.       *)
Fails(k) ==
    CASE phase[k] = "forward" ->
            Return(k, "error") /\ UNCHANGED <<phase, slipped>>
      [] phase[k] = "restore" ->
            Return(k, "error") /\ slipped' = slipped \cup {k} /\ UNCHANGED phase
      [] phase[k] = "change" /\ result[k] = "none" ->
            /\ Goto(k, "lock") /\ phase' = [phase EXCEPT ![k] = "restore"]
            /\ UNCHANGED <<result, slipped>>
      [] OTHER -> Goto(k, "ended") /\ UNCHANGED <<result, phase, slipped>>

(* The visibility that the current ForwardPort asks for.                   *)
Asked(k) == IF phase[k] = "restore" THEN original[k] ELSE wanted[k]

-----------------------------------------------------------------------------
(* A call starts; its context may end at any time.                         *)

Begin(k, v) ==
    /\ step[k] = "idle"
    /\ k \notin Changers => v = Default
    /\ Goto(k, IF k \in Changers THEN "lockOld" ELSE "lock")
    /\ wanted' = [wanted EXCEPT ![k] = v]
    /\ original' = [original EXCEPT ![k] = v]
    /\ UNCHANGED <<service, phase, ctx, result, history>>

EndContext(k) ==
    /\ step[k] # "idle" /\ Live(k)
    /\ ctx' = [ctx EXCEPT ![k] = "ended"]
    /\ UNCHANGED <<service, step, phase, result, wanted, original, history>>

-----------------------------------------------------------------------------
(* UpdatePortVisibility: look at the port and delete it, under ManagerMu.  *)

Lock(k) ==
    /\ managerMu[ConnOf[k]] = NoCall
    /\ managerMu' = [managerMu EXCEPT ![ConnOf[k]] = k]
    /\ \/ Move(k, "lockOld", "getOld")
       \/ Move(k, "lock", "get")
    /\ UNCHANGED <<ports, connected, phase, ctx, result, wanted, original, history>>

GetOld(k) ==
    LET v == ports[PortOf[k]] IN
    /\ step[k] = "getOld" /\ Live(k) /\ v # NoPort
    /\ IF v = wanted[k]
       THEN Return(k, "ok") /\ Unlock(k) /\ UNCHANGED original
       ELSE /\ Goto(k, "delete") /\ original' = [original EXCEPT ![k] = v]
            /\ UNCHANGED <<managerMu, result>>
    /\ UNCHANGED <<ports, connected, phase, ctx, wanted, history>>

GetOldFails(k) ==
    /\ step[k] = "getOld" /\ (MayFail(k) \/ ports[PortOf[k]] = NoPort)
    /\ Return(k, "error") /\ Unlock(k)
    /\ UNCHANGED <<ports, connected, phase, ctx, wanted, original, history>>

(* Mutant of Delete: the port is not deleted, only forwarded again.        *)
NoDelete(k) ==
    /\ Move(k, "delete", "reconnect") /\ Unlock(k)
    /\ phase' = [phase EXCEPT ![k] = "change"]
    /\ UNCHANGED <<ports, connected, ctx, result, wanted, original, history>>

(* Mutant of Delete: the mutex is kept until the function returns.         *)
DeleteHolding(k) ==
    /\ Move(k, "delete", "reconnect") /\ Live(k)
    /\ SetPort(k, NoPort)
    /\ phase' = [phase EXCEPT ![k] = "change"]
    /\ UNCHANGED <<managerMu, connected, ctx, result, wanted, original, slipped>>

Delete(k) ==
    /\ step[k] = "delete" /\ Unlock(k)
    /\ SetPort(k, NoPort)
    /\ \/ /\ Live(k) /\ Goto(k, "reconnect")
          /\ phase' = [phase EXCEPT ![k] = "change"]
          /\ UNCHANGED <<result, slipped>>
       \/ /\ MayFail(k) /\ Return(k, "error")
          /\ slipped' = slipped \cup {k}
          /\ UNCHANGED phase
    /\ UNCHANGED <<connected, ctx, wanted, original>>

DeleteFails(k) ==
    /\ step[k] = "delete" /\ MayFail(k)
    /\ Return(k, "error") /\ Unlock(k)
    /\ UNCHANGED <<ports, connected, phase, ctx, wanted, original, history>>

(* The caller of a change waits for the goroutine or for its context.      *)
ChangeGivenUp(k) ==
    /\ phase[k] = "change" /\ Running(k)
    /\ ~Live(k) /\ result[k] = "none"
    /\ result' = [result EXCEPT ![k] = "ok"]
    /\ UNCHANGED <<service, step, phase, ctx, wanted, original, history>>

-----------------------------------------------------------------------------
(* ForwardPort.  createTunnelPort runs under ManagerMu: whether the port   *)
(* exists is asked first, and a port that exists (409) will do.            *)

Get(k) ==
    /\ \/ /\ Move(k, "get", "create") /\ Live(k)
          /\ UNCHANGED <<managerMu, phase, result, slipped>>
       \/ /\ step[k] = "get" /\ MayFail(k)
          /\ Fails(k) /\ Unlock(k)
    /\ UNCHANGED <<ports, connected, ctx, wanted, original, meddled>>

(* A call that asks for no visibility is not checked.                      *)
MayCreate(k) == k \in Changers => Asked(k) \in Allowed

Create(k) ==
    /\ step[k] = "create" /\ MayCreate(k) /\ Unlock(k)
    /\ IF ports[PortOf[k]] = NoPort
       THEN SetPort(k, Asked(k))
       ELSE UNCHANGED <<ports, meddled>>
    /\ \/ Live(k) /\ Goto(k, "connect") /\ UNCHANGED <<phase, result, slipped>>
       \/ MayFail(k) /\ Fails(k)
    /\ UNCHANGED <<connected, ctx, wanted, original>>

CreateFails(k) ==
    /\ step[k] = "create" /\ (MayFail(k) \/ ~MayCreate(k))
    /\ Fails(k) /\ Unlock(k)
    /\ UNCHANGED <<ports, connected, ctx, wanted, original, meddled>>

(* CodespaceConnection.Connect: once connected there is nothing to do.     *)
Connect(k) ==
    /\ step[k] \in {"reconnect", "connect"}
    /\ \/ /\ Live(k) \/ connected[ConnOf[k]]
          /\ connected' = [connected EXCEPT ![ConnOf[k]] = TRUE]
          /\ Goto(k, IF step[k] = "connect" THEN "refresh" ELSE "reload")
          /\ UNCHANGED <<phase, result, slipped>>
       \/ /\ ~connected[ConnOf[k]] /\ MayFail(k) /\ Fails(k)
          /\ UNCHANGED connected
    /\ UNCHANGED <<ports, managerMu, ctx, wanted, original, meddled>>

(* The last refresh ends the call, unless it goes on listening.  A caller  *)
(* that has left a change no longer takes its result.                      *)
Forwarded(k) ==
    IF k \in Listeners THEN Goto(k, "listen") /\ UNCHANGED result
    ELSE /\ Goto(k, "ended")
         /\ result' = [result EXCEPT ![k] =
               CASE phase[k] = "restore"                       -> "error"
                 [] phase[k] # "restore" /\ result[k] # "none" -> @
                 [] phase[k] # "restore" /\ result[k] = "none" -> "ok"]

Refresh(k) ==
    /\ \/ /\ Move(k, "reload", "lock")
          /\ Live(k) /\ connected[ConnOf[k]]
          /\ UNCHANGED <<phase, result, slipped>>
       \/ /\ step[k] = "refresh" /\ Forwarded(k)
          /\ Live(k) /\ connected[ConnOf[k]]
          /\ UNCHANGED <<phase, slipped>>
       \/ /\ step[k] \in {"reload", "refresh"}
          /\ MayFail(k) \/ ~connected[ConnOf[k]]
          /\ Fails(k)
    /\ UNCHANGED <<service, ctx, wanted, original, meddled>>

(* CodespaceConnection.Close: a command that is done closes its connection *)
(* whatever calls still use it.                                            *)
Close(c) ==
    /\ connected[c]
    /\ connected' = [connected EXCEPT ![c] = FALSE]
    /\ UNCHANGED <<ports, managerMu, call, history>>

(* Mutant of StopListening: success is reported as soon as it listens.     *)
ListenReturnsEarly(k) ==
    /\ step[k] = "listen" /\ Return(k, "ok")
    /\ UNCHANGED <<service, phase, ctx, wanted, original, history>>

(* ForwardPortToListener returns nil when its context ends, or an error,   *)
(* also when the connection is closed under it.                            *)
StopListening(k) ==
    /\ step[k] = "listen"
    /\ \/ ctx[k] = "ended" /\ Return(k, "ok")
       \/ (MayFail(k) \/ ~connected[ConnOf[k]]) /\ Return(k, "error")
    /\ UNCHANGED <<service, phase, ctx, wanted, original, history>>

-----------------------------------------------------------------------------
Work(k) ==
    \/ Lock(k) \/ GetOld(k) \/ GetOldFails(k) \/ Delete(k) \/ DeleteFails(k)
    \/ ChangeGivenUp(k)
    \/ Get(k) \/ Create(k) \/ CreateFails(k) \/ Connect(k) \/ Refresh(k)
    \/ StopListening(k)

PortsNext ==
    \/ \E k \in Calls :
        \/ \E v \in Visibilities : Begin(k, v)
        \/ EndContext(k) \/ Work(k)
    \/ \E c \in Conns : Close(c)

PortsSafety == PortsInit /\ [][PortsNext]_pfvars

(* A request may go unanswered as long as its context lives, no longer; a  *)
(* mutex that is free is handed on.                                        *)
PortsSpec ==
    /\ PortsSafety
    /\ \A k \in Calls : WF_pfvars(~Live(k) /\ Work(k))

-----------------------------------------------------------------------------
(* Properties.                                                             *)

(* UpdatePortVisibility: a change that reports success while its context   *)
(* lives has been made, unless another call acted on the port meanwhile.   *)
VisibilityApplied(k) == ports'[PortOf[k]] = wanted[k]

ChangeIsMade ==
    [][\A k \in Changers :
          /\ result[k] = "none" /\ result'[k] = "ok"
          /\ Live(k) /\ k \notin meddled'
          => VisibilityApplied(k)]_pfvars

(* ports.go: "wait for success or failure" before a port is reported as    *)
(* updated, within 30 seconds.                                             *)
SuccessIsChange ==
    [][\A k \in Changers :
          result[k] = "none" /\ result'[k] = "ok" => VisibilityApplied(k)]_pfvars

(* UpdatePortVisibility: "so the port is still accessible".  However a     *)
(* change that has begun ends, the port is as it was or as it was to be if *)
(* nobody else has acted on it since; it is gone only if the change's      *)
(* context has ended, its deletion went unanswered, or the port could not  *)
(* be forwarded again either.                                              *)
MayLose(k) == ~Live(k) \/ k \in slipped

PortIsKept ==
    \A k \in Changers \ meddled :
        step[k] = "ended" /\ original[k] # wanted[k] =>
            \/ ports[PortOf[k]] \in {original[k], wanted[k]}
            \/ ports[PortOf[k]] = NoPort /\ MayLose(k)

(* ManagerMu: a call has that of its connection exactly from its Lock to   *)
(* the end of the requests about its port.  So every early return gives it *)
(* up, and ForwardPort, which a change calls, does not wait for itself.    *)
HeldInside ==
    \A c \in Conns, k \in Calls :
        managerMu[c] = k <=> ConnOf[k] = c /\ step[k] \in Guarded

(* How far a call is from its end.  A change forwards the port twice at    *)
(* most, and each return is told once.                                     *)
StepsLeft(s) ==
    CASE s = "idle" -> 12     [] s = "lockOld" -> 11 [] s = "getOld" -> 10
      [] s = "delete" -> 9    [] s = "reconnect" -> 8 [] s = "reload" -> 7
      [] s = "lock" -> 6      [] s = "get" -> 5      [] s = "create" -> 4
      [] s = "connect" -> 3   [] s = "refresh" -> 2  [] s = "listen" -> 1
      [] s = "ended" -> 0

Distance(k) ==
    2 * (StepsLeft(step[k]) + IF phase[k] = "restore" THEN 0 ELSE 6)
        + IF result[k] = "none" THEN 1 ELSE 0

(* No failure, retry or restoration makes a call go round in a circle: its *)
(* work brings it nearer to its end, and nothing takes it back.            *)
CallsAdvance ==
    [][\A k \in Calls : /\ Distance(k)' <= Distance(k)
                        /\ Work(k) => Distance(k)' < Distance(k)]_pfvars

(* ManagerMu is handed on: when the contexts of all calls under way on a   *)
(* connection have ended, these calls return, or others come.              *)
Underway(c) == {k \in Calls : ConnOf[k] = c /\ Running(k)}
Interrupted(c) == \A k \in Underway(c) : ~Live(k)

InterruptedCallsReturn ==
    \A c \in Conns : []<>(~Interrupted(c) \/ Underway(c) = {})

=============================================================================
