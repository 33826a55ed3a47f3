------------------------------ MODULE Invoker ------------------------------
(***************************************************************************)
(* A command's session with a codespace: the RPC invoker (rpc/invoker.go)  *)
(* on top of the port forwarder.  connect starts two goroutines: one runs  *)
(* ForwardPortToListener for the internal port (the call Inner of          *)
(* PortForwarding, under a context of its own), one dials.  Both send      *)
(* their outcome on ch; connect takes the first, or times out.  Once it    *)
(* has returned, the command makes its own calls on the same connection,   *)
(* their traffic leaves keep-alive reasons, and a heartbeat reports them.  *)
(* Commands in other terminals share only the ports.                       *)
(***************************************************************************)
EXTENDS PortForwarding, Sequences

CONSTANT Inner
ASSUME InnerAssumption == Inner \in Listeners

VARIABLES
    inv,        \* where CreateInvoker, or its invoker, is
    dial,       \* the outcome of grpc.NewClient, which also sets conn and err
    ch,         \* while connect waits: the outcomes it has been sent
    heartbeat,  \* where the heartbeat is: it waits for a tick, is blocked in
                \* GetKeepAliveReason, or in its RPC
    reason,     \* does the channel (of capacity 1) hold a reason?
    override    \* keepAliveOverride

session == <<inv, dial, ch>>
beat == <<heartbeat, reason, override>>
vars == <<pfvars, session, beat>>

Session == {k \in Calls : ConnOf[k] = ConnOf[Inner]} \ {Inner}

Outcomes == {"dial", "forwarder"} \X {"ok", "error"}

(* Also that ch, of capacity 2, never makes a goroutine block.             *)
TypeOK ==
    /\ PortsTypeOK
    /\ inv \in {"none", "connecting", "greeting", "ready", "closed", "failed", "timedOut"}
    /\ dial \in {"none", "ok", "error"}
    /\ ch \in Seq(Outcomes) /\ Len(ch) <= 2
    /\ heartbeat \in {"none", "wait", "ask", "notify", "ended"}
    /\ reason \in BOOLEAN /\ override \in BOOLEAN

Init ==
    /\ PortsInit
    /\ inv = "none" /\ dial = "none" /\ ch = <<>>
    /\ heartbeat = "none" /\ reason = FALSE /\ override = FALSE

-----------------------------------------------------------------------------
(* CreateInvoker.                                                          *)

CallConnect ==
    /\ inv = "none" /\ inv' = "connecting"
    /\ Begin(Inner, Default)
    /\ UNCHANGED <<dial, ch, beat>>

(* Mutant of Dial: an error is sent, and the dial tried again.             *)
DialAgain(r) ==
    /\ inv = "connecting" /\ dial # "ok"
    /\ r = "ok" \/ Inner \in Faults
    /\ dial' = r /\ ch' = Append(ch, <<"dial", r>>)
    /\ UNCHANGED <<pfvars, inv, beat>>

Dial(r) ==
    /\ inv = "connecting" /\ dial = "none"
    /\ r = "ok" \/ Inner \in Faults
    /\ dial' = r /\ ch' = Append(ch, <<"dial", r>>)
    /\ UNCHANGED <<pfvars, inv, beat>>

ForwarderReturns ==
    /\ inv = "connecting" /\ step[Inner] = "ended"
    /\ \A i \in DOMAIN ch : ch[i][1] # "forwarder"
    /\ ch' = Append(ch, <<"forwarder", result[Inner]>>)
    /\ UNCHANGED <<pfvars, inv, dial, beat>>

(* A failure of connect.  The deferred cancel looks at the err that the    *)
(* dialing goroutine sets, not at the one returned; what it sees of a dial *)
(* whose outcome has not come through ch is undefined.                     *)
Cancel == ctx' = [ctx EXCEPT ![Inner] = "ended"]

CancelsIf(seen) ==
    /\ \/ dial = "error" /\ Cancel
       \/ ~seen /\ UNCHANGED ctx
    /\ UNCHANGED <<service, step, phase, result, wanted, original, history>>

TimesOut ==
    /\ inv = "connecting" /\ inv' = "timedOut"
    /\ CancelsIf(FALSE) /\ ch' = <<>>
    /\ UNCHANGED <<dial, beat>>

(* Mutant of TakesOutcome: the deferred function never sees the error.     *)
TakesOutcomeOnly ==
    /\ inv = "connecting" /\ ch # <<>> /\ ch' = <<>>
    /\ inv' = IF ch[1][2] = "error" THEN "failed" ELSE "greeting"
    /\ UNCHANGED <<pfvars, dial, beat>>

TakesOutcome ==
    /\ inv = "connecting" /\ ch # <<>> /\ ch' = <<>>
    /\ IF ch[1][2] = "error"
       THEN inv' = "failed" /\ CancelsIf(ch[1][1] = "dial")
       ELSE inv' = "greeting" /\ UNCHANGED pfvars
    /\ UNCHANGED <<dial, beat>>

(* The first notification, whatever comes of it, and the first heartbeat.  *)
Greet ==
    /\ inv = "greeting" /\ inv' = "ready"
    /\ heartbeat' = "wait"
    /\ UNCHANGED <<pfvars, dial, ch, reason, override>>

(* Close cancels the forwarder of the internal port and the heartbeat.     *)
CloseInvoker ==
    /\ inv = "ready" /\ inv' = "closed"
    /\ Cancel
    /\ UNCHANGED <<service, step, phase, result, wanted, original, history, dial, ch, beat>>

-----------------------------------------------------------------------------
(* Keep-alive.  KeepAlive is called for traffic on a port the command      *)
(* forwards; a reason that finds another one waiting is dropped.           *)

KeepAlive ==
    /\ \E k \in Session : step[k] = "listen"
    /\ reason' = TRUE
    /\ UNCHANGED <<pfvars, session, heartbeat, override>>

Override ==
    /\ inv = "ready" /\ override' = TRUE
    /\ UNCHANGED <<pfvars, session, heartbeat, reason>>

Tick ==
    /\ heartbeat = "wait"
    /\ heartbeat' = IF override THEN "notify" ELSE "ask"
    /\ UNCHANGED <<pfvars, session, reason, override>>

GetKeepAliveReason ==
    /\ heartbeat = "ask" /\ reason
    /\ heartbeat' = "notify" /\ reason' = FALSE
    /\ UNCHANGED <<pfvars, session, override>>

Notified ==
    /\ heartbeat = "notify" /\ heartbeat' = "wait"
    /\ UNCHANGED <<pfvars, session, reason, override>>

(* Mutant of HeartbeatEnds: the heartbeat has connectctx, which only a     *)
(* failed connect cancels.                                                 *)
HeartbeatEndsLate ==
    /\ heartbeat = "wait" /\ inv = "failed"
    /\ heartbeat' = "ended"
    /\ UNCHANGED <<pfvars, session, reason, override>>

HeartbeatEnds ==
    /\ heartbeat = "wait" /\ ~Live(Inner)
    /\ heartbeat' = "ended"
    /\ UNCHANGED <<pfvars, session, reason, override>>

-----------------------------------------------------------------------------
(* The command's own calls start when CreateInvoker has returned; the      *)
(* context of Inner ends by a cancellation only.  Every command defers the *)
(* close of its connection before it creates the invoker, so the invoker   *)
(* is closed first.                                                        *)
Forwarding ==
    /\ \/ \E k \in Calls \ {Inner} :
            \/ /\ k \in Session => inv = "ready"
               /\ \E v \in Visibilities : Begin(k, v)
            \/ EndContext(k)
       \/ \E k \in Calls : Work(k)
       \/ \E c \in Conns :
            /\ c = ConnOf[Inner] => inv \in {"closed", "failed", "timedOut"}
            /\ Close(c)
    /\ UNCHANGED <<session, beat>>

AbandonedWork(k) == ~Live(k) /\ Work(k) /\ UNCHANGED <<session, beat>>

Next ==
    \/ CallConnect \/ (\E r \in {"ok", "error"} : Dial(r)) \/ ForwarderReturns
    \/ TimesOut \/ TakesOutcome \/ Greet \/ CloseInvoker
    \/ KeepAlive \/ Override \/ Tick \/ GetKeepAliveReason \/ Notified \/ HeartbeatEnds
    \/ Forwarding

(* Interrupted requests and RPCs (which have a timeout) end, and a select  *)
(* does not ignore one of its ready cases for ever.                        *)
Spec ==
    /\ Init /\ [][Next]_vars
    /\ \A k \in Calls : WF_vars(AbandonedWork(k))
    /\ WF_vars(Notified) /\ SF_vars(HeartbeatEnds)

-----------------------------------------------------------------------------
(* Properties.                                                             *)

(* connect: success comes from the dial, so conn is set, although ch also  *)
(* carries what the forwarder returns.                                     *)
ConnIsSet == inv \in {"greeting", "ready", "closed"} => dial = "ok"

(* connect: "cancel background tasks if we encounter an error".  A failed  *)
(* connect leaves the forwarder running only after a timeout.              *)
LeftOnlyByTimeout ==
    inv = "failed" => ~Running(Inner) \/ ~Live(Inner)

(* Close, which is final: the heartbeat ends, or is blocked for want of a  *)
(* reason; it sends nothing more.                                          *)
HeartbeatStops == <>[](inv = "closed" => heartbeat \in {"ended", "ask"})

=============================================================================
