------------------------ MODULE PortForwardingProofs ------------------------
(***************************************************************************)
(* Proofs about PortForwarding, for any number of calls, ports and         *)
(* connections, and any requests that fail.  They use the safety part of   *)
(* its specification only, so they hold of what implements it too.         *)
(***************************************************************************)
EXTENDS PortForwarding, TLAPS

(* A step of one call.                                                     *)
Act(k) == (\E v \in Visibilities : Begin(k, v)) \/ EndContext(k) \/ Work(k)

-----------------------------------------------------------------------------
(* The parts of the inductive invariant.                                   *)

PortNow(k) == ports[PortOf[k]]

(* What a change on whose port nobody else has acted since finds there.    *)
PortAsLeft(k) ==
    /\ step[k] = "delete" => PortNow(k) = original[k]
    /\ phase[k] = "change" =>
          /\ PortNow(k) \in {NoPort, wanted[k]}
          /\ result[k] = "none" /\ step[k] \in {"connect", "refresh"} => PortNow(k) = wanted[k]
          /\ step[k] = "ended" /\ Live(k) => PortNow(k) = wanted[k]
    /\ phase[k] = "restore" =>
          /\ PortNow(k) \in {NoPort, original[k], wanted[k]}
          /\ step[k] \in {"connect", "refresh"} => PortNow(k) # NoPort
          /\ step[k] = "ended" /\ k \notin slipped => PortNow(k) # NoPort
    /\ phase[k] = "forward" /\ step[k] = "ended" /\ original[k] # wanted[k] =>
          \/ PortNow(k) = original[k]
          \/ PortNow(k) = NoPort /\ k \in slipped

(* How far a change is.                                                   *)
ChangeOf(k) ==
    /\ step[k] # "listen"
    /\ phase[k] = "forward" => step[k] \in {"idle", "lockOld", "getOld", "delete", "ended"}
    /\ step[k] \in {"idle", "lockOld", "getOld"} => phase[k] = "forward" /\ original[k] = wanted[k]
    /\ step[k] = "delete" => phase[k] = "forward"
    /\ step[k] \in {"idle", "lockOld", "getOld", "delete"} => result[k] = "none"
    /\ phase[k] = "change" => result[k] \in {"none", "ok"}
    /\ phase[k] = "change" /\ step[k] = "ended" => result[k] = "ok"
    /\ phase[k] = "change" /\ step[k] # "ended" /\ result[k] = "ok" => ~Live(k)
    /\ k \notin meddled => PortAsLeft(k)

ChangeInv == \A k \in Changers : ChangeOf(k)

-----------------------------------------------------------------------------
(* Facts about the operators of the model.                                 *)

(* What an error does to its call, and to nothing else.                    *)
FailsEffect(k) ==
    /\ step' = [step EXCEPT ![k] = step'[k]] /\ step'[k] \in {"ended", "lock"}
    /\ phase' = [phase EXCEPT ![k] = phase'[k]] /\ phase'[k] \in Phases
    /\ result' = [result EXCEPT ![k] = result'[k]] /\ result'[k] \in {"none", "ok", "error"}
    /\ slipped' \in {slipped, slipped \cup {k}}
    /\ phase[k] = "forward" => phase'[k] = "forward" /\ step'[k] = "ended" /\ result'[k] = "error"
    /\ phase[k] = "restore" => phase'[k] = "restore" /\ step'[k] = "ended"
                               /\ result'[k] = "error" /\ k \in slipped'
    /\ phase[k] = "change" /\ result[k] = "none" =>
          phase'[k] = "restore" /\ step'[k] = "lock" /\ result'[k] = "none"
    /\ phase[k] = "change" /\ result[k] # "none" =>
          phase'[k] = "change" /\ step'[k] = "ended" /\ result'[k] = result[k]

LEMMA FailsFacts ==
    ASSUME PortsTypeOK, NEW k \in Calls
    PROVE  Fails(k) => FailsEffect(k)
<1> SUFFICES ASSUME Fails(k) PROVE FailsEffect(k)
  OBVIOUS
<1> USE DEF PortsTypeOK, Fails, Return, Goto, FailsEffect, Phases
<1>1. CASE phase[k] = "forward"
  BY <1>1
<1>2. CASE phase[k] = "restore"
  BY <1>2
<1>3. CASE phase[k] = "change" /\ result[k] = "none"
  BY <1>3
<1>4. CASE phase[k] = "change" /\ result[k] # "none"
  BY <1>4
<1> QED
  BY <1>1, <1>2, <1>3, <1>4

-----------------------------------------------------------------------------
(* One step of one call.                                                   *)

(* It keeps the types.                                                     *)
LEMMA PortsTypeStep ==
    ASSUME PortsTypeOK, NEW k \in Calls, Act(k)
    PROVE  PortsTypeOK'
<1>f. Fails(k) => FailsEffect(k)
  BY FailsFacts
<1>p. /\ ConnOf[k] \in Conns /\ PortOf[k] \in Ports /\ Default \in Visibilities
      /\ \A v \in Visibilities : v # NoPort
  BY ConnOfAssumption, PortOfAssumption, VisibilitiesAssumption
<1> USE DEF PortsTypeOK, Steps, Guarded, Phases, service, call, history
<1>1. ASSUME NEW v \in Visibilities, Begin(k, v)
      PROVE  PortsTypeOK'
  BY <1>1, <1>p DEF Begin, Goto
<1>2. CASE EndContext(k)
  BY <1>2, <1>p DEF EndContext, Running, Live
<1>3. CASE Lock(k)
  BY <1>3, <1>p DEF Lock, Move, Goto
<1>4. CASE GetOld(k)
  BY <1>4, <1>p DEF GetOld, Return, Unlock, Goto
<1>5. CASE GetOldFails(k)
  BY <1>5, <1>p DEF GetOldFails, Return, Unlock, Goto
<1>6. CASE Delete(k)
  BY <1>6, <1>p DEF Delete, Unlock, SetPort, Return, Goto
<1>7. CASE DeleteFails(k)
  BY <1>7, <1>p DEF DeleteFails, Return, Unlock, Goto
<1>8. CASE ChangeGivenUp(k)
  BY <1>8, <1>p DEF ChangeGivenUp
<1>9. CASE Get(k)
  BY <1>9, <1>p, <1>f DEF Get, Move, Goto, Unlock, FailsEffect
<1>10. CASE Create(k)
  BY <1>10, <1>p, <1>f DEF Create, Unlock, SetPort, Goto, Asked, FailsEffect
<1>11. CASE CreateFails(k)
  BY <1>11, <1>p, <1>f DEF CreateFails, Unlock, FailsEffect
<1>12. CASE Connect(k)
  <2>1. connected' \in [Conns -> BOOLEAN]
    BY <1>12, <1>p DEF Connect
  <2>2. CASE Fails(k)
    BY <1>12, <1>f, <2>1, <2>2 DEF Connect, FailsEffect
  <2>3. CASE ~Fails(k)
    BY <1>12, <2>1, <2>3 DEF Connect, Goto
  <2> QED
    BY <2>2, <2>3
<1>13. CASE Refresh(k)
  BY <1>13, <1>p, <1>f DEF Refresh, Move, Goto, Forwarded, FailsEffect
<1>14. CASE StopListening(k)
  BY <1>14, <1>p DEF StopListening, Return, Goto
<1> QED
  BY <1>1, <1>2, <1>3, <1>4, <1>5, <1>6, <1>7, <1>8, <1>9, <1>10, <1>11, <1>12, <1>13, <1>14 DEF Act, Work

(* It leaves the other calls alone, but for their ports.                   *)
Frame(k, q) ==
    /\ step'[q] = step[q] /\ phase'[q] = phase[q] /\ result'[q] = result[q]
    /\ wanted'[q] = wanted[q] /\ original'[q] = original[q] /\ ctx'[q] = ctx[q]
    /\ q \in meddled => q \in meddled'
    /\ q \in slipped <=> q \in slipped'
    /\ q \in Changers /\ q \notin meddled' /\ step[q] # "idle" => PortNow(q)' = PortNow(q)

LEMMA FrameFacts ==
    ASSUME PortsTypeOK, NEW k \in Calls, NEW q \in Calls \ {k}, Act(k)
    PROVE  Frame(k, q)
<1>f. Fails(k) => FailsEffect(k)
  BY FailsFacts
<1>p. \A r \in Calls : PortOf[r] \in Ports
  BY PortOfAssumption
<1> USE DEF PortsTypeOK, Steps, Guarded, Phases, service, call, history, Frame, PortNow
<1>1. ASSUME NEW v \in Visibilities, Begin(k, v)
      PROVE  Frame(k, q)
  BY <1>1, <1>p DEF Begin, Goto
<1>2. CASE EndContext(k)
  BY <1>2, <1>p DEF EndContext, Running, Live
<1>3. CASE Lock(k)
  BY <1>3, <1>p DEF Lock, Move, Goto
<1>4. CASE GetOld(k)
  BY <1>4, <1>p DEF GetOld, Return, Unlock, Goto
<1>5. CASE GetOldFails(k)
  BY <1>5, <1>p DEF GetOldFails, Return, Unlock, Goto
<1>6. CASE Delete(k)
  BY <1>6, <1>p DEF Delete, Unlock, SetPort, Return, Goto
<1>7. CASE DeleteFails(k)
  BY <1>7, <1>p DEF DeleteFails, Return, Unlock, Goto
<1>8. CASE ChangeGivenUp(k)
  BY <1>8, <1>p DEF ChangeGivenUp
<1>9. CASE Get(k)
  BY <1>9, <1>p, <1>f DEF Get, Move, Goto, Unlock, FailsEffect
<1>10. CASE Create(k)
  BY <1>10, <1>p, <1>f DEF Create, Unlock, SetPort, Goto, Asked, FailsEffect
<1>11. CASE CreateFails(k)
  BY <1>11, <1>p, <1>f DEF CreateFails, Unlock, FailsEffect
<1>12. CASE Connect(k)
  BY <1>12, <1>p, <1>f DEF Connect, Goto, FailsEffect
<1>13. CASE Refresh(k)
  BY <1>13, <1>p, <1>f DEF Refresh, Move, Goto, Forwarded, FailsEffect
<1>14. CASE StopListening(k)
  BY <1>14, <1>p DEF StopListening, Return, Goto
<1> QED
  BY <1>1, <1>2, <1>3, <1>4, <1>5, <1>6, <1>7, <1>8, <1>9, <1>10, <1>11, <1>12, <1>13, <1>14 DEF Act, Work

(* It keeps its own change in order.                                       *)
LEMMA OwnChangeStep ==
    ASSUME PortsTypeOK, NEW k \in Changers, ChangeOf(k), Act(k)
    PROVE  ChangeOf(k)'
<1>k. k \in Calls /\ k \notin Listeners
  BY KindsAssumption
<1>f. Fails(k) => FailsEffect(k)
  BY <1>k, FailsFacts
<1>p. PortOf[k] \in Ports /\ \A v \in Visibilities : v # NoPort
  BY <1>k, PortOfAssumption, VisibilitiesAssumption
<1> USE DEF PortsTypeOK, Steps, Guarded, Phases, service, call, history, ChangeOf, PortAsLeft, PortNow, Live
<1>1. ASSUME NEW v \in Visibilities, Begin(k, v)
      PROVE  ChangeOf(k)'
  BY <1>1, <1>k, <1>p DEF Begin, Goto
<1>2. CASE EndContext(k)
  BY <1>2, <1>k, <1>p DEF EndContext, Running, Live
<1>3. CASE Lock(k)
  BY <1>3, <1>k, <1>p DEF Lock, Move, Goto
<1>4. CASE GetOld(k)
  BY <1>4, <1>k, <1>p DEF GetOld, Return, Unlock, Goto
<1>5. CASE GetOldFails(k)
  BY <1>5, <1>k, <1>p DEF GetOldFails, Return, Unlock, Goto
<1>6. CASE Delete(k)
  <2>1. PortNow(k)' = NoPort
    BY <1>6, <1>k, <1>p DEF Delete, SetPort
  <2>2. /\ phase[k] = "forward"
        /\ result[k] = "none" /\ UNCHANGED <<wanted, original>>
    BY <1>6 DEF Delete
  <2>3. CASE step'[k] = "reconnect" /\ phase'[k] = "change" /\ result'[k] = result[k]
    BY <1>6, <1>k, <2>1, <2>2, <2>3
  <2>4. CASE step'[k] = "ended" /\ phase'[k] = "forward" /\ k \in slipped'
    BY <1>6, <1>k, <2>1, <2>2, <2>4
  <2> QED
    BY <1>6, <1>k, <2>2, <2>3, <2>4 DEF Delete, Return, Goto
<1>7. CASE DeleteFails(k)
  BY <1>7, <1>k, <1>p DEF DeleteFails, Return, Unlock, Goto
<1>8. CASE ChangeGivenUp(k)
  BY <1>8, <1>k, <1>p DEF ChangeGivenUp
<1>9. CASE Get(k)
  BY <1>9, <1>k, <1>p, <1>f DEF Get, Move, Goto, Unlock, FailsEffect
<1>10. CASE Create(k)
  BY <1>10, <1>k, <1>p, <1>f DEF Create, Unlock, SetPort, Goto, Asked, FailsEffect
<1>11. CASE CreateFails(k)
  BY <1>11, <1>k, <1>p, <1>f DEF CreateFails, Unlock, FailsEffect
<1>12. CASE Connect(k)
  BY <1>12, <1>k, <1>p, <1>f DEF Connect, Goto, FailsEffect
<1>13. CASE Refresh(k)
  BY <1>13, <1>k, <1>p, <1>f DEF Refresh, Move, Goto, Forwarded, FailsEffect
<1>14. CASE StopListening(k)
  BY <1>14, <1>k, <1>p DEF StopListening, Return, Goto
<1> QED
  BY <1>1, <1>2, <1>3, <1>4, <1>5, <1>6, <1>7, <1>8, <1>9, <1>10, <1>11, <1>12, <1>13, <1>14 DEF Act, Work

(* So every step keeps every change in order.                              *)
LEMMA ChangeStep ==
    ASSUME PortsTypeOK, ChangeInv, NEW k \in Calls, Act(k)
    PROVE  ChangeInv'
<1> SUFFICES ASSUME NEW q \in Changers PROVE ChangeOf(q)'
  BY DEF ChangeInv
<1>1. ChangeOf(q)
  BY DEF ChangeInv
<1>2. CASE q = k
  BY <1>1, <1>2, OwnChangeStep
<1>3. CASE q # k
  <2>1. Frame(k, q)
    BY <1>3, KindsAssumption, FrameFacts
  <2> QED
    BY <1>1, <2>1 DEF Frame, ChangeOf, PortAsLeft, Live
<1> QED
  BY <1>2, <1>3

-----------------------------------------------------------------------------
(* ManagerMu.                                                              *)

(* What a step does with the mutex of its connection: nothing as long as   *)
(* the call stays inside or outside, else take it or give it up.           *)
MutexEffect(k) ==
    /\ step' = [step EXCEPT ![k] = step'[k]]
    /\ \/ UNCHANGED managerMu /\ (step[k] \in Guarded <=> step'[k] \in Guarded)
       \/ /\ managerMu[ConnOf[k]] = NoCall /\ step'[k] \in Guarded
          /\ managerMu' = [managerMu EXCEPT ![ConnOf[k]] = k]
       \/ /\ Unlock(k) /\ step[k] \in Guarded /\ step'[k] \notin Guarded

LEMMA MutexFacts ==
    ASSUME PortsTypeOK, NEW k \in Calls, Act(k)
    PROVE  MutexEffect(k)
<1>f. Fails(k) => FailsEffect(k)
  BY FailsFacts
<1> USE DEF PortsTypeOK, Guarded, service, call, history, MutexEffect
<1>1. ASSUME NEW v \in Visibilities, Begin(k, v)
      PROVE  MutexEffect(k)
  BY <1>1 DEF Begin, Goto
<1>2. CASE EndContext(k)
  BY <1>2 DEF EndContext
<1>3. CASE Lock(k)
  BY <1>3 DEF Lock, Move, Goto
<1>4. CASE GetOld(k)
  BY <1>4 DEF GetOld, Return, Goto
<1>5. CASE GetOldFails(k)
  BY <1>5 DEF GetOldFails, Return, Goto
<1>6. CASE Delete(k)
  BY <1>6 DEF Delete, Return, Goto
<1>7. CASE DeleteFails(k)
  BY <1>7 DEF DeleteFails, Return, Goto
<1>8. CASE ChangeGivenUp(k)
  BY <1>8 DEF ChangeGivenUp
<1>9. CASE Get(k)
  BY <1>9, <1>f DEF Get, Move, Goto, FailsEffect
<1>10. CASE Create(k)
  BY <1>10, <1>f DEF Create, Goto, FailsEffect
<1>11. CASE CreateFails(k)
  BY <1>11, <1>f DEF CreateFails, FailsEffect
<1>12. CASE Connect(k)
  BY <1>12, <1>f DEF Connect, Goto, FailsEffect
<1>13. CASE Refresh(k)
  BY <1>13, <1>f DEF Refresh, Move, Goto, Forwarded, FailsEffect
<1>14. CASE StopListening(k)
  BY <1>14 DEF StopListening, Return, Goto
<1> QED
  BY <1>1, <1>2, <1>3, <1>4, <1>5, <1>6, <1>7, <1>8, <1>9, <1>10, <1>11, <1>12, <1>13, <1>14 DEF Act, Work

(* So whoever is inside holds it, and nobody else does.                    *)
LEMMA MutexStep ==
    ASSUME PortsTypeOK, HeldInside, NEW k \in Calls, Act(k)
    PROVE  HeldInside'
<1> SUFFICES ASSUME NEW c \in Conns, NEW q \in Calls
             PROVE  managerMu'[c] = q <=> ConnOf[q] = c /\ step'[q] \in Guarded
  BY DEF HeldInside
<1>1. MutexEffect(k)
  BY MutexFacts
<1>2. /\ ConnOf[k] \in Conns
      /\ \A r \in Calls : managerMu[c] = r <=> ConnOf[r] = c /\ step[r] \in Guarded
      /\ NoCall \notin Calls
  BY ConnOfAssumption, NoCallAssumption DEF HeldInside
<1>3. managerMu \in [Conns -> Calls \cup {NoCall}] /\ step \in [Calls -> Steps]
  BY DEF PortsTypeOK
<1>4. q # k => step'[q] = step[q]
  BY <1>1, <1>3 DEF MutexEffect
<1>5. CASE c # ConnOf[k]
  <2>1. managerMu'[c] = managerMu[c]
    BY <1>1, <1>2, <1>3, <1>5 DEF MutexEffect, Unlock
  <2> QED
    BY <1>2, <1>4, <1>5, <2>1
<1>6. CASE c = ConnOf[k]
  <2>1. CASE UNCHANGED managerMu /\ (step[k] \in Guarded <=> step'[k] \in Guarded)
    BY <1>2, <1>4, <1>6, <2>1
  <2>2. CASE /\ managerMu[c] = NoCall /\ step'[k] \in Guarded
             /\ managerMu' = [managerMu EXCEPT ![c] = k]
    <3>1. managerMu'[c] = k
      BY <1>3, <2>2
    <3> QED
      BY <1>2, <1>4, <1>6, <2>2, <3>1
  <2>3. CASE Unlock(k) /\ step[k] \in Guarded /\ step'[k] \notin Guarded
    <3>1. managerMu'[c] = NoCall
      BY <1>3, <1>6, <2>3 DEF Unlock
    <3> QED
      BY <1>2, <1>4, <1>6, <2>3, <3>1
  <2> QED
    BY <1>1, <1>6, <2>1, <2>2, <2>3 DEF MutexEffect
<1> QED
  BY <1>5, <1>6

-----------------------------------------------------------------------------
(* The way of a call to its end.                                           *)

(* A call that has not come to ForwardPort has its first phase before it.  *)
FirstPhase ==
    \A k \in Calls : step[k] \in {"idle", "lockOld", "getOld", "delete"} => phase[k] = "forward"

LEMMA StepsLeftIs ==
    /\ StepsLeft("idle") = 12  /\ StepsLeft("lockOld") = 11  /\ StepsLeft("getOld") = 10
    /\ StepsLeft("delete") = 9 /\ StepsLeft("reconnect") = 8 /\ StepsLeft("reload") = 7
    /\ StepsLeft("lock") = 6   /\ StepsLeft("get") = 5       /\ StepsLeft("create") = 4
    /\ StepsLeft("connect") = 3 /\ StepsLeft("refresh") = 2  /\ StepsLeft("listen") = 1
    /\ StepsLeft("ended") = 0
BY DEF StepsLeft

(* A call's own steps do not take it back, and those of its work bring it  *)
(* nearer to its end.                                                      *)
Advance(k) ==
    /\ step'[k] \in {"idle", "lockOld", "getOld", "delete"} => phase'[k] = "forward"
    /\ Distance(k)' <= Distance(k)

LEMMA WorkAdvances ==
    ASSUME PortsTypeOK, FirstPhase, NEW k \in Calls, Work(k)
    PROVE  Advance(k) /\ Distance(k)' < Distance(k)
<1>f. Fails(k) => FailsEffect(k)
  BY FailsFacts
<1>p. /\ step[k] \in Steps /\ phase[k] \in Phases /\ result[k] \in {"none", "ok", "error"}
      /\ step[k] \in {"idle", "lockOld", "getOld", "delete"} => phase[k] = "forward"
  BY DEF PortsTypeOK, FirstPhase
<1>t. step \in [Calls -> Steps] /\ phase \in [Calls -> Phases]
      /\ result \in [Calls -> {"none", "ok", "error"}]
  BY DEF PortsTypeOK
<1>d. /\ Distance(k) = 2 * (StepsLeft(step[k]) + (IF phase[k] = "restore" THEN 0 ELSE 6))
                       + (IF result[k] = "none" THEN 1 ELSE 0)
      /\ Distance(k)' = 2 * (StepsLeft(step'[k]) + (IF phase'[k] = "restore" THEN 0 ELSE 6))
                       + (IF result'[k] = "none" THEN 1 ELSE 0)
  BY DEF Distance, StepsLeft
<1> USE <1>d, <1>p, <1>t, StepsLeftIs DEF Steps, Guarded, Phases, service, call, history, Advance
<1>1. CASE Lock(k)
  BY <1>1 DEF Lock, Move, Goto
<1>2. CASE GetOld(k)
  BY <1>2 DEF GetOld, Return, Goto
<1>3. CASE GetOldFails(k)
  BY <1>3 DEF GetOldFails, Return, Goto
<1>4. CASE Delete(k)
  BY <1>4 DEF Delete, Return, Goto
<1>5. CASE DeleteFails(k)
  BY <1>5 DEF DeleteFails, Return, Goto
<1>6. CASE ChangeGivenUp(k)
  BY <1>6 DEF ChangeGivenUp
<1>7. CASE Get(k)
  BY <1>7, <1>f DEF Get, Move, Goto, FailsEffect
<1>8. CASE Create(k)
  BY <1>8, <1>f DEF Create, Goto, FailsEffect
<1>9. CASE CreateFails(k)
  BY <1>9, <1>f DEF CreateFails, FailsEffect
<1>10. CASE Connect(k)
  BY <1>10, <1>f DEF Connect, Goto, FailsEffect
<1>11. CASE Refresh(k)
  BY <1>11, <1>f DEF Refresh, Move, Goto, Forwarded, FailsEffect
<1>12. CASE StopListening(k)
  BY <1>12 DEF StopListening, Return, Goto
<1> QED
  BY <1>1, <1>2, <1>3, <1>4, <1>5, <1>6, <1>7, <1>8, <1>9, <1>10, <1>11, <1>12 DEF Work

LEMMA OwnAdvance ==
    ASSUME PortsTypeOK, FirstPhase, NEW k \in Calls, Act(k)
    PROVE  Advance(k)
<1>1. ASSUME NEW v \in Visibilities, Begin(k, v)
      PROVE  Advance(k)
  <2>1. /\ step[k] = "idle" /\ step'[k] \in {"lockOld", "lock"}
        /\ phase[k] = "forward" /\ UNCHANGED <<phase, result>>
    BY <1>1 DEF Begin, Goto, PortsTypeOK, FirstPhase, history
  <2>2. StepsLeft(step'[k]) <= StepsLeft(step[k]) /\ StepsLeft(step[k]) \in Nat
        /\ StepsLeft(step'[k]) \in Nat
    BY <2>1, StepsLeftIs
  <2> QED
    BY <2>1, <2>2 DEF Advance, Distance, StepsLeft
<1>2. CASE EndContext(k)
  <2>1. UNCHANGED <<step, phase, result>>
    BY <1>2 DEF EndContext
  <2>2. Distance(k) \in Nat
    BY StepsLeftIs DEF PortsTypeOK, Distance, Steps, Guarded
  <2>3. Distance(k)' = Distance(k)
    BY <2>1 DEF Distance, StepsLeft
  <2> QED
    BY <2>1, <2>2, <2>3 DEF Advance, FirstPhase
<1> QED
  BY <1>1, <1>2, WorkAdvances DEF Act

-----------------------------------------------------------------------------
(* The inductive invariant.                                                *)

PortsInv == PortsTypeOK /\ ChangeInv /\ HeldInside /\ FirstPhase

(* The invariant holds at the start, and every step keeps it.              *)
LEMMA PortsInitInv == PortsInit => PortsInv
<1> SUFFICES ASSUME PortsInit PROVE PortsInv
  OBVIOUS
<1>1. PortsTypeOK
  BY InitialAssumption, VisibilitiesAssumption
  DEF PortsInit, PortsTypeOK, Steps, Guarded, Phases
<1>2. ChangeInv /\ FirstPhase
  BY KindsAssumption DEF PortsInit, ChangeInv, ChangeOf, PortAsLeft, FirstPhase
<1>3. HeldInside
  BY NoCallAssumption DEF PortsInit, HeldInside, Guarded
<1> QED
  BY <1>1, <1>2, <1>3 DEF PortsInv

LEMMA ActKeepsInv ==
    ASSUME PortsInv, NEW k \in Calls, Act(k)
    PROVE  PortsInv'
<1>1. PortsTypeOK' /\ ChangeInv' /\ HeldInside'
  BY PortsTypeStep, ChangeStep, MutexStep DEF PortsInv
<1>2. ASSUME NEW q \in Calls, step'[q] \in {"idle", "lockOld", "getOld", "delete"}
      PROVE  phase'[q] = "forward"
  <2>1. CASE q = k
    BY <1>2, <2>1, OwnAdvance DEF PortsInv, Advance
  <2>2. CASE q # k
    BY <1>2, <2>2, FrameFacts DEF PortsInv, Frame, FirstPhase
  <2> QED
    BY <2>1, <2>2
<1> QED
  BY <1>1, <1>2 DEF PortsInv, FirstPhase

(* A connection that is closed leaves the calls and the ports as they are. *)
LEMMA CloseFacts ==
    ASSUME PortsTypeOK, NEW c \in Conns, Close(c)
    PROVE  UNCHANGED <<ports, managerMu, call, history>> /\ connected' \in [Conns -> BOOLEAN]
BY DEF Close, PortsTypeOK

LEMMA PortsInvStep == PortsInv /\ [PortsNext]_pfvars => PortsInv'
<1> SUFFICES ASSUME PortsInv, [PortsNext]_pfvars PROVE PortsInv'
  OBVIOUS
<1>1. ASSUME NEW k \in Calls, Act(k)
      PROVE  PortsInv'
  BY <1>1, ActKeepsInv
<1>2. ASSUME UNCHANGED <<ports, managerMu, call, history>>, connected' \in [Conns -> BOOLEAN]
      PROVE  PortsInv'
  BY <1>2 DEF PortsInv, PortsTypeOK, ChangeInv, ChangeOf, PortAsLeft, PortNow, Live, HeldInside,
     FirstPhase, call, history
<1>3. ASSUME NEW c \in Conns, Close(c)
      PROVE  PortsInv'
  BY <1>2, <1>3, CloseFacts DEF PortsInv
<1>4. CASE UNCHANGED pfvars
  BY <1>2, <1>4 DEF pfvars, service, PortsInv, PortsTypeOK
<1> QED
  BY <1>1, <1>3, <1>4 DEF PortsNext, Act

LEMMA PortsInvariance == PortsSafety => []PortsInv
BY PortsInitInv, PortsInvStep, PTL DEF PortsSafety

-----------------------------------------------------------------------------
(* The theorems.                                                           *)

(* The variables keep their types.                                         *)
THEOREM PortsTypeCorrect == PortsSafety => []PortsTypeOK
<1>1. PortsInv => PortsTypeOK
  BY DEF PortsInv
<1> QED
  BY <1>1, PortsInvariance, PTL

(* However a change of visibility ends, the port is as it was or as it was *)
(* to be, or gone for one of the reasons named.                            *)
THEOREM ChangeKeepsPort == PortsSafety => []PortIsKept
<1>1. PortsInv => PortIsKept
  <2> SUFFICES ASSUME PortsInv, NEW k \in Changers \ meddled,
                      step[k] = "ended", original[k] # wanted[k]
               PROVE  \/ ports[PortOf[k]] \in {original[k], wanted[k]}
                      \/ ports[PortOf[k]] = NoPort /\ MayLose(k)
    BY DEF PortIsKept
  <2>1. ChangeOf(k) /\ phase[k] \in Phases
    BY KindsAssumption DEF PortsInv, ChangeInv, PortsTypeOK
  <2>2. PortAsLeft(k)
    BY <2>1 DEF ChangeOf
  <2> QED
    BY <2>1, <2>2 DEF PortAsLeft, PortNow, MayLose, Phases
<1> QED
  BY <1>1, PortsInvariance, PTL

(* A change of visibility that succeeds in time has been made.             *)
THEOREM ChangeSucceeds == PortsSafety => ChangeIsMade
<1> DEFINE Made ==
        \A k \in Changers :
            /\ result[k] = "none" /\ result'[k] = "ok"
            /\ Live(k) /\ k \notin meddled'
            => VisibilityApplied(k)
<1>1. ASSUME PortsInv, NEW k \in Changers, Act(k),
             result[k] = "none", result'[k] = "ok", Live(k), k \notin meddled'
      PROVE  VisibilityApplied(k)
  <2>i. k \in Calls /\ k \notin Listeners
    BY KindsAssumption
  <2>t. PortsTypeOK /\ ChangeOf(k)
    BY <1>1 DEF PortsInv, ChangeInv
  <2>f. Fails(k) => result'[k] # "ok"
    BY <1>1, <2>i, <2>t, FailsFacts DEF FailsEffect, PortsTypeOK, Phases
  <2>1. CASE GetOld(k)
    <3>1. ports[PortOf[k]] = wanted[k] /\ ports' = ports
      BY <1>1, <2>1 DEF GetOld
    <3> QED
      BY <3>1 DEF VisibilityApplied
  <2>2. CASE Refresh(k)
    <3>1. step[k] = "refresh" /\ Forwarded(k) /\ ports' = ports /\ meddled' = meddled
      BY <1>1, <2>2, <2>f DEF Refresh, service
    <3>2. phase[k] = "change"
      BY <1>1, <2>i, <2>t, <3>1 DEF Forwarded, ChangeOf, PortsTypeOK, Phases
    <3> QED
      BY <1>1, <2>t, <3>1, <3>2 DEF ChangeOf, PortAsLeft, PortNow, VisibilityApplied
  <2>3. CASE StopListening(k)
    BY <2>t, <2>3 DEF StopListening, ChangeOf
  <2>4. CASE ChangeGivenUp(k)
    BY <1>1, <2>4 DEF ChangeGivenUp
  <2>5. CASE Get(k) \/ Create(k) \/ CreateFails(k) \/ Connect(k)
    BY <1>1, <2>5, <2>f DEF Get, Create, CreateFails, Connect
  <2>6. CASE (\E v \in Visibilities : Begin(k, v)) \/ EndContext(k) \/ Lock(k)
    BY <1>1, <2>6 DEF Begin, EndContext, Lock
  <2>7. CASE GetOldFails(k) \/ Delete(k) \/ DeleteFails(k)
    BY <1>1, <2>i, <2>t, <2>7 DEF GetOldFails, Delete, DeleteFails, Return, PortsTypeOK
  <2> QED
    BY <1>1, <2>1, <2>2, <2>3, <2>4, <2>5, <2>6, <2>7 DEF Act, Work
<1>2. ASSUME PortsInv, PortsNext PROVE Made
  <2> SUFFICES ASSUME NEW q \in Changers, result[q] = "none", result'[q] = "ok",
                      Live(q), q \notin meddled'
               PROVE  VisibilityApplied(q)
    OBVIOUS
  <2>0. ~\E c \in Conns : Close(c)
    BY DEF Close, call
  <2>1. PICK k \in Calls : Act(k)
    BY <1>2, <2>0 DEF PortsNext, Act
  <2>2. q # k => result'[q] = result[q]
    BY <1>2, <2>1, FrameFacts, KindsAssumption DEF PortsInv, Frame
  <2> QED
    BY <1>1, <1>2, <2>1, <2>2
<1>3. PortsInv /\ [PortsNext]_pfvars => [Made]_pfvars
  BY <1>2
<1> QED
  BY <1>3, PortsInvariance, PTL DEF PortsSafety, ChangeIsMade

(* ManagerMu excludes, and every early return gives it up: a call has it   *)
(* exactly while it is inside.                                             *)
THEOREM ManagerMuIsGivenUp == PortsSafety => []HeldInside
<1>1. PortsInv => HeldInside
  BY DEF PortsInv
<1> QED
  BY <1>1, PortsInvariance, PTL

(* So a call that waits for ManagerMu waits for another one that is inside *)
(* and waits for no mutex itself: no calls wait for each other.            *)
Waits(k) == step[k] \in {"lockOld", "lock"} /\ managerMu[ConnOf[k]] # NoCall

NoCircularWait ==
    \A k \in Calls : Waits(k) =>
        \E h \in Calls \ {k} : /\ managerMu[ConnOf[k]] = h /\ ConnOf[h] = ConnOf[k]
                              /\ step[h] \in Guarded /\ ~Waits(h)

THEOREM NoCallsWaitForEachOther == PortsSafety => []NoCircularWait
<1>1. PortsInv => NoCircularWait
  <2> SUFFICES ASSUME PortsInv, NEW k \in Calls, Waits(k)
               PROVE  \E h \in Calls \ {k} :
                          /\ managerMu[ConnOf[k]] = h /\ ConnOf[h] = ConnOf[k]
                          /\ step[h] \in Guarded /\ ~Waits(h)
    BY DEF NoCircularWait
  <2> DEFINE h == managerMu[ConnOf[k]]
  <2>1. ConnOf[k] \in Conns /\ h \in Calls
    BY ConnOfAssumption DEF PortsInv, PortsTypeOK, Waits
  <2>2. ConnOf[h] = ConnOf[k] /\ step[h] \in Guarded
    BY <2>1 DEF PortsInv, HeldInside
  <2>3. h # k /\ ~Waits(h)
    BY <2>2 DEF Waits, Guarded
  <2> QED
    BY <2>1, <2>2, <2>3
<1> QED
  BY <1>1, PortsInvariance, PTL

(* The work of a call brings it nearer to its end, whatever the others do: *)
(* no sequence of failures and restorations goes on for ever.              *)
THEOREM EveryCallAdvances == PortsSafety => CallsAdvance
<1>1. ASSUME PortsInv, NEW q \in Calls, UNCHANGED <<step[q], phase[q], result[q]>>
      PROVE  Distance(q)' <= Distance(q)
  <2>1. Distance(q) \in Nat
    BY <1>1, StepsLeftIs DEF PortsInv, PortsTypeOK, Distance, Steps, Guarded
  <2>2. Distance(q)' = Distance(q)
    BY <1>1 DEF Distance, StepsLeft
  <2> QED
    BY <2>1, <2>2
<1>2. ASSUME PortsInv, PortsNext, NEW q \in Calls
      PROVE  /\ Distance(q)' <= Distance(q)
             /\ Work(q) => Distance(q)' < Distance(q)
  <2>1. Work(q) => Distance(q)' < Distance(q)
    BY <1>2, WorkAdvances DEF PortsInv
  <2>2. CASE \E c \in Conns : Close(c)
    BY <1>1, <1>2, <2>1, <2>2 DEF Close, call
  <2> SUFFICES ASSUME NEW k \in Calls, Act(k)
               PROVE  /\ Distance(q)' <= Distance(q)
                      /\ Work(q) => Distance(q)' < Distance(q)
    BY <1>2, <2>2 DEF PortsNext, Act
  <2>3. CASE q = k
    BY <1>2, <2>1, <2>3, OwnAdvance DEF PortsInv, Advance
  <2>4. CASE q # k
    BY <1>1, <1>2, <2>1, <2>4, FrameFacts DEF PortsInv, Frame
  <2> QED
    BY <2>3, <2>4
<1>3. PortsInv /\ [PortsNext]_pfvars =>
         [\A k \in Calls : /\ Distance(k)' <= Distance(k)
                           /\ Work(k) => Distance(k)' < Distance(k)]_pfvars
  BY <1>2
<1> QED
  BY <1>3, PortsInvariance, PTL DEF PortsSafety, CallsAdvance

=============================================================================
