---------------------------- MODULE InvokerProofs ----------------------------
(***************************************************************************)
(* Proofs about Invoker.  A session is one of the ways to use a connection *)
(* that PortForwarding allows: it implements the safety part of that       *)
(* specification, so what is proved there holds of every session.          *)
(***************************************************************************)
EXTENDS Invoker, PortForwardingProofs

(* The parts of the inductive invariant.                                   *)

(* The call for the internal port only forwards, and returns without an    *)
(* error only when it is cancelled.                                        *)
InnerInv ==
    /\ phase[Inner] = "forward"
    /\ step[Inner] \in {"idle", "lock", "get", "create", "connect", "refresh", "listen", "ended"}
    /\ result[Inner] = "ok" => ~Live(Inner)
    /\ step[Inner] = "ended" => result[Inner] # "none"

(* What connect has been sent says what has happened.                      *)
ConnectInv ==
    /\ inv = "none" => step[Inner] = "idle" /\ ch = <<>> /\ dial = "none"
    /\ inv # "none" => step[Inner] # "idle"
    /\ inv \in {"none", "connecting"} => Live(Inner)
    /\ \A i \in 1..Len(ch) :
          /\ ch[i][1] = "dial" => dial = ch[i][2]
          /\ ch[i][1] = "forwarder" => step[Inner] = "ended" /\ result[Inner] = ch[i][2]
    /\ \A i, j \in 1..Len(ch) : ch[i][1] = ch[j][1] => i = j
    /\ ConnIsSet /\ LeftOnlyByTimeout

(* The types of the session alone.                                         *)
SessionTypeOK ==
    /\ inv \in {"none", "connecting", "greeting", "ready", "closed", "failed", "timedOut"}
    /\ dial \in {"none", "ok", "error"}
    /\ ch \in Seq(Outcomes) /\ Len(ch) <= 2
    /\ heartbeat \in {"none", "wait", "ask", "notify", "ended"}
    /\ reason \in BOOLEAN /\ override \in BOOLEAN

Inv == PortsInv /\ SessionTypeOK /\ InnerInv /\ ConnectInv

-----------------------------------------------------------------------------
(* A step of a call keeps what is known of that for the internal port.     *)
LEMMA InnerStep ==
    ASSUME PortsTypeOK, InnerInv, NEW k \in Calls, Act(k)
    PROVE  /\ InnerInv'
           /\ step[Inner] = "ended" => step'[Inner] = "ended" /\ result'[Inner] = result[Inner]
           /\ ~Live(Inner) => ~Live(Inner)'
           /\ ~EndContext(Inner) => ctx'[Inner] = ctx[Inner]
           /\ (\A v \in Visibilities : ~Begin(Inner, v)) /\ step[Inner] = "idle"
                => step'[Inner] = "idle"
           /\ step[Inner] # "idle" => step'[Inner] # "idle"
<1>i. Inner \in Calls /\ Inner \notin Changers /\ Inner \in Listeners
  BY InnerAssumption, KindsAssumption
<1>1. CASE k # Inner
  <2>1. Frame(k, Inner)
    BY <1>1, <1>i, FrameFacts
  <2> QED
    BY <1>1, <1>i, <2>1 DEF Frame, InnerInv, Live
<1>2. CASE k = Inner
  <2>f. Fails(k) => FailsEffect(k)
    BY FailsFacts
  <2> USE <1>i, <1>2 DEF PortsTypeOK, Steps, Guarded, Phases, service, call, history, InnerInv, Live, Running
  <2>1. ASSUME NEW v \in Visibilities, Begin(k, v)
        PROVE  InnerInv' /\ (step[Inner] = "ended" => step'[Inner] = "ended" /\ result'[Inner] = result[Inner])
             /\ (~Live(Inner) => ~Live(Inner)')
             /\ (~EndContext(Inner) => ctx'[Inner] = ctx[Inner])
             /\ ((\A w \in Visibilities : ~Begin(Inner, w)) /\ step[Inner] = "idle" => step'[Inner] = "idle")
             /\ (step[Inner] # "idle" => step'[Inner] # "idle")
    BY <2>1 DEF Begin, Goto
  <2>2. CASE EndContext(k)
    BY <2>2 DEF EndContext, Running, Live
  <2>3. CASE Lock(k)
    BY <2>3 DEF Lock, Move, Goto
  <2>4. CASE GetOld(k)
    BY <2>4 DEF GetOld, Return, Unlock, Goto
  <2>5. CASE GetOldFails(k)
    BY <2>5 DEF GetOldFails, Return, Unlock, Goto
  <2>6. CASE Delete(k)
    BY <2>6 DEF Delete, Unlock, SetPort, Return, Goto
  <2>7. CASE DeleteFails(k)
    BY <2>7 DEF DeleteFails, Return, Unlock, Goto
  <2>8. CASE ChangeGivenUp(k)
    BY <2>8 DEF ChangeGivenUp
  <2>9. CASE Get(k)
    BY <2>9, <2>f DEF Get, Move, Goto, Unlock, FailsEffect
  <2>10. CASE Create(k)
    BY <2>10, <2>f DEF Create, Unlock, SetPort, Goto, Asked, FailsEffect
  <2>11. CASE CreateFails(k)
    BY <2>11, <2>f DEF CreateFails, Unlock, FailsEffect
  <2>12. CASE Connect(k)
    BY <2>12, <2>f DEF Connect, Goto, FailsEffect
  <2>13. CASE Refresh(k)
    BY <2>13, <2>f DEF Refresh, Move, Goto, Forwarded, FailsEffect
  <2>14. CASE StopListening(k)
    BY <2>14 DEF StopListening, Return, Goto
  <2> QED
    BY <2>1, <2>2, <2>3, <2>4, <2>5, <2>6, <2>7, <2>8, <2>9, <2>10, <2>11, <2>12, <2>13, <2>14 DEF Act, Work
<1> QED
  BY <1>1, <1>2

-----------------------------------------------------------------------------
(* A session implements PortForwarding.                                    *)

(* A cancellation ends the context of that call, unless it has ended.      *)
LEMMA CancelMapped ==
    ASSUME Inv, inv # "none", Cancel,
           UNCHANGED <<service, step, phase, result, wanted, original, history>>
    PROVE  [PortsNext]_pfvars /\ ~Live(Inner)' /\ UNCHANGED <<step, phase, result>>
<1>1. Inner \in Calls /\ ctx \in [Calls -> {"live", "ended"}] /\ step[Inner] # "idle"
  BY InnerAssumption, KindsAssumption DEF Inv, PortsInv, PortsTypeOK, ConnectInv
<1>2. ~Live(Inner)'
  BY <1>1 DEF Cancel, Live
<1>3. CASE Live(Inner)
  BY <1>1, <1>2, <1>3 DEF Cancel, EndContext, PortsNext
<1>4. CASE ~Live(Inner)
  <2>1. ctx' = ctx
    BY <1>1, <1>4 DEF Cancel, Live
  <2> QED
    BY <1>2, <2>1 DEF pfvars, call
<1> QED
  BY <1>3, <1>4

(* The steps of a failed connect cancel it or leave the calls alone.       *)
LEMMA CancelsIfMapped ==
    ASSUME Inv, inv # "none", NEW seen \in BOOLEAN, CancelsIf(seen)
    PROVE  /\ [PortsNext]_pfvars /\ UNCHANGED <<step, phase, result>>
           /\ ~Live(Inner)' \/ (~seen /\ UNCHANGED pfvars)
<1>1. CASE Cancel
  BY <1>1, CancelMapped DEF CancelsIf
<1>2. CASE ~Cancel
  BY <1>2 DEF CancelsIf, pfvars, call
<1> QED
  BY <1>1, <1>2

(* Every step of a session is a step of its calls or leaves them alone.    *)
LEMMA SessionMapped == Inv /\ [Next]_vars => [PortsNext]_pfvars
<1> SUFFICES ASSUME Inv, [Next]_vars PROVE [PortsNext]_pfvars
  OBVIOUS
<1>i. Inner \in Calls /\ Default \in Visibilities
  BY InnerAssumption, KindsAssumption, VisibilitiesAssumption
<1>1. CASE CallConnect
  BY <1>1, <1>i DEF CallConnect, PortsNext
<1>2. CASE TimesOut
  BY <1>2, CancelsIfMapped DEF TimesOut
<1>3. CASE TakesOutcome
  <2>1. (ch[1][1] = "dial") \in BOOLEAN
    OBVIOUS
  <2> QED
    BY <1>3, <2>1, CancelsIfMapped DEF TakesOutcome
<1>4. CASE CloseInvoker
  BY <1>4, CancelMapped DEF CloseInvoker
<1>5. CASE Forwarding
  BY <1>5 DEF Forwarding, PortsNext
<1>6. CASE (\E r \in {"ok", "error"} : Dial(r)) \/ ForwarderReturns \/ Greet
           \/ KeepAlive \/ Override \/ Tick \/ GetKeepAliveReason \/ Notified \/ HeartbeatEnds
  BY <1>6 DEF Dial, ForwarderReturns, Greet, KeepAlive, Override, Tick, GetKeepAliveReason,
     Notified, HeartbeatEnds
<1>7. CASE UNCHANGED vars
  BY <1>7 DEF vars
<1> QED
  BY <1>1, <1>2, <1>3, <1>4, <1>5, <1>6, <1>7 DEF Next

-----------------------------------------------------------------------------
(* The inductive invariant.                                                *)

(* What connect is sent has room in ch.                                    *)
LEMMA SendFacts ==
    ASSUME ch \in Seq(Outcomes), Len(ch) <= 2,
           \A i, j \in 1..Len(ch) : ch[i][1] = ch[j][1] => i = j,
           NEW m \in Outcomes, \A i \in 1..Len(ch) : ch[i][1] # m[1], ch' = Append(ch, m)
    PROVE  /\ ch' \in Seq(Outcomes) /\ Len(ch') <= 2 /\ Len(ch') = Len(ch) + 1
           /\ \A i, j \in 1..Len(ch') : ch'[i][1] = ch'[j][1] => i = j
           /\ \A i \in 1..Len(ch) : ch'[i] = ch[i]
           /\ ch'[Len(ch')] = m
<1>1. ch' \in Seq(Outcomes) /\ Len(ch') = Len(ch) + 1 /\ Len(ch) \in Nat
  OBVIOUS
<1>2. \A i \in 1..Len(ch) : ch'[i] = ch[i]
  OBVIOUS
<1>3. ch'[Len(ch')] = m
  OBVIOUS
<1>4. \A i \in 1..Len(ch) : ch[i][1] \in {"dial", "forwarder"}
  BY DEF Outcomes
<1>5. m[1] \in {"dial", "forwarder"}
  BY DEF Outcomes
<1>6. Len(ch) # 2
  <2>1. SUFFICES ASSUME Len(ch) = 2 PROVE FALSE
    OBVIOUS
  <2>2. 1 \in 1..Len(ch) /\ 2 \in 1..Len(ch)
    BY <2>1
  <2>3. ch[1][1] # ch[2][1] /\ ch[1][1] # m[1] /\ ch[2][1] # m[1]
    BY <2>2
  <2> QED
    BY <1>4, <1>5, <2>2, <2>3
<1>7. \A i, j \in 1..Len(ch') : ch'[i][1] = ch'[j][1] => i = j
  BY <1>1, <1>2, <1>3
<1>8. Len(ch') <= 2
  <2>1. ASSUME NEW n \in Nat, n <= 2, n # 2
        PROVE  n + 1 <= 2
    BY <2>1
  <2> QED
    BY <1>1, <1>6, <2>1, Zenon
<1> QED
  BY <1>1, <1>2, <1>3, <1>7, <1>8

(* The steps of the calls keep what the session knows of the internal      *)
(* port's call: its context ends by a cancellation only.                   *)
InnerKept ==
    /\ InnerInv'
    /\ step[Inner] = "ended" => step'[Inner] = "ended" /\ result'[Inner] = result[Inner]
    /\ step[Inner] = "idle" <=> step'[Inner] = "idle"
    /\ ctx'[Inner] = ctx[Inner]

LEMMA ForwardingFacts ==
    ASSUME Inv, Forwarding
    PROVE  InnerKept /\ UNCHANGED <<session, beat>>
<1> USE DEF InnerKept
<1>p. PortsTypeOK /\ InnerInv /\ UNCHANGED <<session, beat>>
  BY DEF Forwarding, Inv, PortsInv
<1>1. CASE \E c \in Conns : Close(c)
  BY <1>p, <1>1, CloseFacts DEF call, InnerInv, Live
<1>2. ASSUME NEW k \in Calls \ {Inner}, Act(k)
      PROVE  InnerKept
  <2>1. Frame(k, Inner) /\ InnerInv'
    BY <1>p, <1>2, InnerAssumption, KindsAssumption, FrameFacts, InnerStep
  <2> QED
    BY <1>p, <2>1 DEF Frame
<1>3. CASE Work(Inner)
  <2>1. step[Inner] # "idle" /\ step[Inner] # "ended"
    BY <1>3, InnerAssumption, KindsAssumption
    DEF Work, Lock, GetOld, GetOldFails, Delete, DeleteFails, ChangeGivenUp, Running,
        Get, Create, CreateFails, Connect, Refresh, StopListening, Move
  <2>2. ctx' = ctx
    BY <1>3
    DEF Work, Lock, GetOld, GetOldFails, Delete, DeleteFails, ChangeGivenUp,
        Get, Create, CreateFails, Connect, Refresh, StopListening
  <2>3. Inner \in Calls /\ Act(Inner)
    BY <1>3, InnerAssumption, KindsAssumption DEF Act
  <2>4. step'[Inner] # "idle" /\ InnerInv'
    BY <1>p, <2>1, <2>3, InnerStep
  <2> QED
    BY <1>p, <2>1, <2>2, <2>4
<1> QED
  BY <1>1, <1>2, <1>3 DEF Forwarding, Act

(* Every step keeps the invariant.                                         *)
LEMMA InvStep == Inv /\ [Next]_vars => Inv'
<1> SUFFICES ASSUME Inv, [Next]_vars PROVE Inv'
  OBVIOUS
<1>i. Inner \in Calls /\ Inner \notin Changers /\ Inner \in Listeners
  BY InnerAssumption, KindsAssumption
<1>t. PortsTypeOK /\ SessionTypeOK /\ InnerInv /\ ConnectInv
  BY DEF Inv, PortsInv
<1>m. PortsInv'
  BY SessionMapped, PortsInvStep DEF Inv
<1>u. ASSUME UNCHANGED pfvars
      PROVE  InnerInv' /\ step' = step /\ result' = result /\ ctx' = ctx
  BY <1>t, <1>u DEF InnerInv, Live, pfvars, call
<1>s. SUFFICES SessionTypeOK' /\ InnerInv' /\ ConnectInv'
  BY <1>m DEF Inv
<1>e. ASSUME ch' = <<>>
      PROVE  ch' \in Seq(Outcomes) /\ Len(ch') = 0 /\ 1..Len(ch') = {}
  BY <1>e
<1> USE DEF session, beat
<1>1. CASE CallConnect
  <2>1. Act(Inner)
    BY <1>1, VisibilitiesAssumption DEF CallConnect, Act
  <2>2. InnerInv'
    BY <1>i, <1>t, <2>1, InnerStep
  <2>3. /\ ctx' = ctx /\ inv = "none" /\ inv' = "connecting" /\ UNCHANGED <<dial, ch, beat>>
        /\ step'[Inner] = "lock"
    BY <1>1, <1>i, <1>t DEF CallConnect, Begin, Goto, PortsTypeOK
  <2>4. SessionTypeOK'
    BY <1>t, <2>3 DEF SessionTypeOK
  <2>5. ch' = <<>> /\ Live(Inner)'
    BY <1>t, <2>3 DEF ConnectInv, Live
  <2>6. ConnectInv'
    BY <1>e, <2>3, <2>5 DEF ConnectInv, ConnIsSet, LeftOnlyByTimeout
  <2> QED
    BY <2>2, <2>4, <2>6
<1>2. ASSUME NEW r \in {"ok", "error"}, Dial(r)
      PROVE  SessionTypeOK' /\ InnerInv' /\ ConnectInv'
  <2> DEFINE m == <<"dial", r>>
  <2>1. /\ UNCHANGED pfvars /\ inv = "connecting" /\ inv' = inv /\ dial = "none" /\ dial' = r
        /\ ch' = Append(ch, m) /\ UNCHANGED beat /\ m \in Outcomes
    BY <1>2 DEF Dial, Outcomes
  <2>2. ch \in Seq(Outcomes) /\ Len(ch) \in Nat
    BY <1>t DEF SessionTypeOK
  <2>3. \A i \in 1..Len(ch) : ch[i] \in Outcomes
    BY <2>2
  <2>4. \A i \in 1..Len(ch) : ch[i][1] = "forwarder"
    BY <1>t, <2>1, <2>3 DEF ConnectInv, Outcomes
  <2>5. /\ ch' \in Seq(Outcomes) /\ Len(ch') <= 2 /\ Len(ch') = Len(ch) + 1
        /\ \A i, j \in 1..Len(ch') : ch'[i][1] = ch'[j][1] => i = j
        /\ \A i \in 1..Len(ch) : ch'[i] = ch[i]
        /\ ch'[Len(ch')] = m
    BY <1>t, <2>1, <2>4, SendFacts DEF SessionTypeOK, ConnectInv
  <2>6. \A i \in 1..Len(ch') : \/ i \in 1..Len(ch) /\ ch'[i] = ch[i]
                               \/ ch'[i] = m
    BY <2>2, <2>5
  <2>7. SessionTypeOK'
    BY <1>t, <2>1, <2>5 DEF SessionTypeOK
  <2>8. \A i \in 1..Len(ch') :
           /\ ch'[i][1] = "dial" => dial' = ch'[i][2]
           /\ ch'[i][1] = "forwarder" => step'[Inner] = "ended" /\ result'[Inner] = ch'[i][2]
    BY <1>t, <1>u, <2>1, <2>4, <2>6 DEF ConnectInv
  <2>9. ConnectInv'
    BY <1>t, <1>u, <2>1, <2>5, <2>8 DEF ConnectInv, ConnIsSet, LeftOnlyByTimeout, Live
  <2> QED
    BY <1>u, <2>1, <2>7, <2>9
<1>3. CASE ForwarderReturns
  <2> DEFINE m == <<"forwarder", result[Inner]>>
  <2>a. step[Inner] = "ended" /\ result[Inner] \in {"none", "ok", "error"}
    BY <1>3, <1>i, <1>t DEF ForwarderReturns, PortsTypeOK
  <2>1. /\ UNCHANGED pfvars /\ inv = "connecting" /\ inv' = inv /\ dial' = dial
        /\ ch' = Append(ch, m) /\ UNCHANGED beat
    BY <1>3 DEF ForwarderReturns
  <2>b. result[Inner] # "none"
    BY <1>t, <2>a DEF InnerInv
  <2>c. m \in Outcomes
    BY <2>a, <2>b DEF Outcomes
  <2>2. ch \in Seq(Outcomes) /\ Len(ch) \in Nat
    BY <1>t DEF SessionTypeOK
  <2>4. \A i \in 1..Len(ch) : ch[i][1] # "forwarder"
    BY <1>3, <2>2 DEF ForwarderReturns
  <2>5. /\ ch' \in Seq(Outcomes) /\ Len(ch') <= 2 /\ Len(ch') = Len(ch) + 1
        /\ \A i, j \in 1..Len(ch') : ch'[i][1] = ch'[j][1] => i = j
        /\ \A i \in 1..Len(ch) : ch'[i] = ch[i]
        /\ ch'[Len(ch')] = m
    BY <1>t, <2>1, <2>4, <2>c, SendFacts DEF SessionTypeOK, ConnectInv
  <2>6. \A i \in 1..Len(ch') : \/ i \in 1..Len(ch) /\ ch'[i] = ch[i]
                               \/ ch'[i] = m
    BY <2>2, <2>5
  <2>7. SessionTypeOK'
    BY <1>t, <2>1, <2>5 DEF SessionTypeOK
  <2>8. \A i \in 1..Len(ch') :
           /\ ch'[i][1] = "dial" => dial' = ch'[i][2]
           /\ ch'[i][1] = "forwarder" => step'[Inner] = "ended" /\ result'[Inner] = ch'[i][2]
    BY <1>t, <1>u, <2>1, <2>4, <2>6, <2>a DEF ConnectInv
  <2>9. ConnectInv'
    BY <1>t, <1>u, <2>1, <2>5, <2>8 DEF ConnectInv, ConnIsSet, LeftOnlyByTimeout, Live
  <2> QED
    BY <1>u, <2>1, <2>7, <2>9
<1>c. ASSUME UNCHANGED <<step, phase, result>>, ~Live(Inner)' \/ UNCHANGED pfvars
      PROVE  InnerInv'
  BY <1>c, <1>t, <1>u DEF InnerInv
<1>4. CASE TimesOut
  <2>1. inv = "connecting" /\ inv' = "timedOut" /\ ch' = <<>> /\ UNCHANGED <<dial, beat>>
    BY <1>4 DEF TimesOut
  <2>2. UNCHANGED <<step, phase, result>> /\ (~Live(Inner)' \/ UNCHANGED pfvars)
    BY <1>4, <2>1, CancelsIfMapped DEF TimesOut
  <2>3. SessionTypeOK'
    BY <1>t, <1>e, <2>1 DEF SessionTypeOK
  <2>4. ConnectInv'
    BY <1>e, <1>t, <2>1, <2>2 DEF ConnectInv, ConnIsSet, LeftOnlyByTimeout
  <2> QED
    BY <1>c, <2>2, <2>3, <2>4
<1>5. CASE TakesOutcome
  <2>1. /\ inv = "connecting" /\ ch # <<>> /\ ch' = <<>> /\ UNCHANGED <<dial, beat>>
    BY <1>5 DEF TakesOutcome
  <2>2. 1 \in 1..Len(ch) /\ ch[1] \in Outcomes
    BY <1>t, <2>1 DEF SessionTypeOK
  <2>3. ch[1][1] \in {"dial", "forwarder"} /\ ch[1][2] \in {"ok", "error"}
    BY <2>2 DEF Outcomes
  <2>4. CASE ch[1][2] = "error"
    <3>1. /\ inv' = "failed" /\ CancelsIf(ch[1][1] = "dial")
      BY <1>5, <2>4 DEF TakesOutcome
    <3>2. (ch[1][1] = "dial") \in BOOLEAN
      OBVIOUS
    <3>3. /\ UNCHANGED <<step, phase, result>>
          /\ ~Live(Inner)' \/ (ch[1][1] # "dial" /\ UNCHANGED pfvars)
      BY <2>1, <3>1, <3>2, CancelsIfMapped
    <3>4. ~Live(Inner)' \/ step'[Inner] = "ended"
      BY <1>t, <2>2, <2>3, <3>3 DEF ConnectInv
    <3>5. ConnectInv'
      BY <1>e, <1>t, <2>1, <3>1, <3>3, <3>4 DEF ConnectInv, ConnIsSet, LeftOnlyByTimeout, Running
    <3>6. SessionTypeOK'
      BY <1>t, <1>e, <2>1, <3>1 DEF SessionTypeOK
    <3> QED
      BY <1>c, <3>3, <3>5, <3>6
  <2>5. CASE ch[1][2] = "ok"
    <3>1. inv' = "greeting" /\ UNCHANGED pfvars
      BY <1>5, <2>5 DEF TakesOutcome
    <3>2. dial = "ok"
      BY <1>t, <2>1, <2>2, <2>3, <2>5 DEF ConnectInv, InnerInv
    <3>3. ConnectInv'
      BY <1>e, <1>t, <1>u, <2>1, <3>1, <3>2 DEF ConnectInv, ConnIsSet, LeftOnlyByTimeout
    <3>4. SessionTypeOK'
      BY <1>t, <1>e, <2>1, <3>1 DEF SessionTypeOK
    <3> QED
      BY <1>u, <3>1, <3>3, <3>4
  <2> QED
    BY <2>3, <2>4, <2>5
<1>6. CASE Greet
  <2>1. UNCHANGED pfvars
    BY <1>6 DEF Greet
  <2> QED
    BY <1>t, <1>u, <1>6, <2>1
    DEF Greet, SessionTypeOK, ConnectInv, ConnIsSet, LeftOnlyByTimeout
<1>7. CASE CloseInvoker
  <2>1. InnerInv'
    BY <1>c, <1>7, CancelMapped DEF CloseInvoker
  <2>2. UNCHANGED <<step, result, dial, ch, beat>> /\ inv = "ready" /\ inv' = "closed"
    BY <1>7 DEF CloseInvoker
  <2> QED
    BY <1>t, <2>1, <2>2 DEF SessionTypeOK, ConnectInv, ConnIsSet, LeftOnlyByTimeout
<1>8. CASE KeepAlive \/ Override \/ Tick \/ GetKeepAliveReason \/ Notified \/ HeartbeatEnds
  <2>1. UNCHANGED pfvars /\ UNCHANGED session
    BY <1>8 DEF KeepAlive, Override, Tick, GetKeepAliveReason, Notified, HeartbeatEnds
  <2>2. SessionTypeOK'
    BY <1>t, <1>8, <2>1
    DEF SessionTypeOK, KeepAlive, Override, Tick, GetKeepAliveReason, Notified, HeartbeatEnds
  <2>3. ConnectInv'
    BY <1>t, <1>u, <2>1 DEF ConnectInv, ConnIsSet, LeftOnlyByTimeout, Live, Running
  <2> QED
    BY <1>u, <2>1, <2>2, <2>3
<1>9. CASE Forwarding
  <2>1. InnerInv'
    BY <1>9, ForwardingFacts DEF InnerKept
  <2>2. /\ step[Inner] = "ended" => step'[Inner] = "ended" /\ result'[Inner] = result[Inner]
        /\ step[Inner] = "idle" <=> step'[Inner] = "idle"
        /\ ctx'[Inner] = ctx[Inner]
    BY <1>9, ForwardingFacts DEF InnerKept
  <2>3. UNCHANGED <<inv, dial, ch, heartbeat, reason, override>>
    BY <1>9, ForwardingFacts
  <2>4. SessionTypeOK'
    BY <1>t, <2>3 DEF SessionTypeOK
  <2>5. ConnectInv'
    BY <1>t, <2>2, <2>3 DEF ConnectInv, ConnIsSet, LeftOnlyByTimeout, Live, Running
  <2> QED
    BY <2>1, <2>4, <2>5
<1>10. CASE UNCHANGED vars
  <2>1. UNCHANGED pfvars /\ UNCHANGED session /\ UNCHANGED beat
    BY <1>10 DEF vars
  <2>2. ConnectInv'
    BY <1>t, <1>u, <2>1 DEF ConnectInv, ConnIsSet, LeftOnlyByTimeout, Live, Running
  <2> QED
    BY <1>t, <1>u, <2>1, <2>2 DEF SessionTypeOK
<1> QED
  BY <1>1, <1>2, <1>3, <1>4, <1>5, <1>6, <1>7, <1>8, <1>9, <1>10 DEF Next

(* The invariant holds at the start ...                                    *)
LEMMA InitInv == Init => Inv
<1> SUFFICES ASSUME Init PROVE Inv
  OBVIOUS
<1>1. PortsInv
  BY PortsInitInv DEF Init
<1>2. InnerInv /\ ConnectInv
  BY InnerAssumption, KindsAssumption
  DEF Init, PortsInit, InnerInv, ConnectInv, ConnIsSet, LeftOnlyByTimeout, Live
<1>3. ch \in Seq(Outcomes) /\ Len(ch) <= 2
  BY DEF Init
<1>4. SessionTypeOK
  BY <1>3 DEF Init, SessionTypeOK
<1> QED
  BY <1>1, <1>2, <1>4 DEF Inv

(* ... so it always holds.                                                 *)
LEMMA Invariance == Spec => []Inv
BY InitInv, InvStep, PTL DEF Spec

-----------------------------------------------------------------------------
(* The theorems.                                                           *)

(* The variables keep their types; the channel of connect, of capacity 2,  *)
(* is never sent more, so its goroutines do not block.                     *)
THEOREM TypeCorrect == Spec => []TypeOK
<1>1. Inv => TypeOK
  BY DEF Inv, PortsInv, SessionTypeOK, TypeOK
<1> QED
  BY <1>1, Invariance, PTL

(* connect succeeds only with a connection.                                *)
THEOREM ConnectionIsSet == Spec => []ConnIsSet
<1>1. Inv => ConnIsSet
  BY DEF Inv, ConnectInv
<1> QED
  BY <1>1, Invariance, PTL

(* A failed connect leaves its forwarder running only after a timeout.     *)
THEOREM OnlyTimeoutLeavesForwarder == Spec => []LeftOnlyByTimeout
<1>1. Inv => LeftOnlyByTimeout
  BY DEF Inv, ConnectInv
<1> QED
  BY <1>1, Invariance, PTL

(* What is proved of PortForwarding holds of a session: its steps are      *)
(* those of its calls, or leave them alone.                                *)
LEMMA SessionImplementsPorts == Spec => PortsSafety
<1>1. Init => PortsInit
  BY DEF Init
<1> QED
  BY <1>1, SessionMapped, Invariance, PTL DEF Spec, PortsSafety

(* So however a change of visibility ends, the port is kept, or lost for   *)
(* one of the reasons named ...                                            *)
THEOREM EndedChangeKeepsPort == Spec => []PortIsKept
BY SessionImplementsPorts, ChangeKeepsPort, PTL

(* ... one that succeeds in time has been made ...                         *)
THEOREM SuccessfulChangeIsMade == Spec => ChangeIsMade
BY SessionImplementsPorts, ChangeSucceeds, PTL

(* ... ManagerMu is given up by every early return, also of the call for   *)
(* the internal port, which is cancelled at any time ...                   *)
THEOREM SessionGivesMutexUp == Spec => []HeldInside
BY SessionImplementsPorts, ManagerMuIsGivenUp, PTL

(* ... and every call of the session advances.                             *)
THEOREM SessionCallsAdvance == Spec => CallsAdvance
BY SessionImplementsPorts, EveryCallAdvances, PTL

=============================================================================
