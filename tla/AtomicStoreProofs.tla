-------------------------- MODULE AtomicStoreProofs --------------------------
(***************************************************************************)
(* TokenRefresh implements RotatingCredential (AtomicStore), for any       *)
(* number of goroutines, processes and tokens, under the conditions of     *)
(* TokenRefreshProofs: the critical sections are serialized, and no        *)
(* keyring call outlives its timeout.                                      *)
(***************************************************************************)
EXTENDS TokenRefreshProofs

(* Which call is where.                                                    *)
PathOf(t) ==
    /\ op[t] = "none" <=> pc[t] = "idle"
    /\ pc[t] \in {"reread", "present", "answered"} => op[t] = "refresh"
    /\ pc[t] \in {"dropRefreshable", "dropPlain"} => op[t] \in {"refresh", "logout"}
    /\ pc[t] \in {"storePlain", "purgeRefreshable"} => op[t] = "login"
    /\ pc[t] \in {"storeRefreshable", "purgePlain"} => op[t] = "loginRefreshable"

(* An exchange under way has spent the token re-read, and its successor is *)
(* good.                                                                   *)
ExchangeOf(t) ==
    pc[t] = "answered" /\ renewed[t].rt # current[t].rt =>
        current[t].rt \in spent /\ renewed[t].rt \in valid

CallInv == \A t \in Threads : PathOf(t) /\ ExchangeOf(t)

-----------------------------------------------------------------------------
(* The invariant of the calls.                                             *)

LEMMA FirstStepFacts ==
    ASSUME NEW o \in Ops \ {"none"}
    PROVE  FirstStep(o) = IF o = "refresh" THEN "reread"
                          ELSE IF o = "login" THEN "storePlain"
                          ELSE IF o = "loginRefreshable" THEN "storeRefreshable"
                          ELSE "dropRefreshable"
BY DEF FirstStep, Ops

LEMMA PathStep ==
    ASSUME TypeOK, CallInv, [Next]_vars
    PROVE  \A t \in Threads : PathOf(t)'
<1> USE DEF CallInv, PathOf, TypeOK, store, server, locks, call, history
<1>1. CASE UNCHANGED vars
  BY <1>1 DEF vars
<1>2. ASSUME NEW t \in Threads,
             BeginRefresh(t) \/ BeginLogin(t) \/ BeginLoginRefreshable(t) \/ BeginLogout(t)
      PROVE  \A u \in Threads : PathOf(u)'
  BY <1>2 DEF BeginRefresh, BeginLogin, BeginLoginRefreshable, BeginLogout, Begin, Goto
<1>3. ASSUME NEW t \in Threads, LockMutex(t) \/ Unlock(t)
      PROVE  \A u \in Threads : PathOf(u)'
  BY <1>3 DEF LockMutex, Unlock, Goto
<1>4. ASSUME NEW t \in Threads, Entering(t)
      PROVE  \A u \in Threads : PathOf(u)'
  <2>1. pc[t] = "flock" /\ op' = op /\ op[t] \in Ops \ {"none"}
    BY <1>4 DEF Entering, LockFile, ProceedWithoutLock, Reload, Goto
  <2>2. \/ pc' = [pc EXCEPT ![t] = FirstStep(op[t])]
        \/ pc' = [pc EXCEPT ![t] = "leave"]
    BY <1>4 DEF Entering, LockFile, ProceedWithoutLock, Reload, Goto
  <2> QED
    BY <2>1, <2>2, FirstStepFacts DEF Ops
<1>5. ASSUME NEW t \in Threads, Refreshing(t) \/ Exchanging(t) \/ Storing(t) \/ Dropping(t)
      PROVE  \A u \in Threads : PathOf(u)'
  <2>1. op' = op
    BY <1>5 DEF Refreshing, Reread, Persist, PersistFails, Exchanging, ServerRotates,
                ServerKeepsToken, ServerRejects, ExchangeFails, Storing, StorePlain,
                StorePlainFails, PurgeRefreshable, StoreRefreshable, StoreRefreshableFails,
                PurgePlain, Dropping, DropRefreshable, DropPlain
  <2>2. CASE Refreshing(t) \/ Exchanging(t)
    BY <2>1, <2>2 DEF Refreshing, Reread, Persist, PersistFails, Exchanging, ServerRotates,
                ServerKeepsToken, ServerRejects, ExchangeFails, Goto
  <2>3. CASE Storing(t) \/ Dropping(t)
    BY <2>1, <2>3 DEF Storing, StorePlain, StorePlainFails, PurgeRefreshable, StoreRefreshable,
                StoreRefreshableFails, PurgePlain, Dropping, DropRefreshable, DropPlain, Goto
  <2> QED
    BY <1>5, <2>2, <2>3
<1>6. CASE LateLands \/ Expire \/ Revoke
  BY <1>6 DEF LateLands, Expire, Revoke
<1>7. ASSUME NEW p \in Procs, Crash(p)
      PROVE  \A u \in Threads : PathOf(u)'
  BY <1>7 DEF Crash
<1> QED
  BY <1>1, <1>2, <1>3, <1>4, <1>5, <1>6, <1>7 DEF Next

LEMMA ExchangeStep ==
    ASSUME Serialized, TypeOK, Inv, CallInv, [Next]_vars
    PROVE  \A t \in Threads : ExchangeOf(t)'
<1>a. \A u, v \in Threads : pc[u] \in Critical /\ pc[v] \in Critical => u = v
  BY MutualExclusion DEF Inv
<1> USE DEF CallInv, ExchangeOf, TypeOK, store, server, locks, call, history
<1>1. CASE UNCHANGED vars
  BY <1>1 DEF vars
<1>2. ASSUME NEW t \in Threads, BeginRefresh(t) \/ BeginLogin(t) \/ BeginLogout(t)
      PROVE  \A u \in Threads : ExchangeOf(u)'
  BY <1>2 DEF BeginRefresh, BeginLogin, BeginLogout, Begin, Goto
<1>3. ASSUME NEW t \in Threads, BeginLoginRefreshable(t)
      PROVE  \A u \in Threads : ExchangeOf(u)'
  BY <1>3 DEF BeginLoginRefreshable, Begin, Goto, IssueNext, Issue
<1>4. ASSUME NEW t \in Threads, LockMutex(t) \/ Unlock(t)
      PROVE  \A u \in Threads : ExchangeOf(u)'
  BY <1>4 DEF LockMutex, Unlock, Goto
<1>5. ASSUME NEW t \in Threads, Entering(t)
      PROVE  \A u \in Threads : ExchangeOf(u)'
  <2>1. UNCHANGED <<valid, spent, current, renewed>> /\ pc[t] = "flock"
    BY <1>5 DEF Entering, LockFile, ProceedWithoutLock, Reload, Goto
  <2>2. \A u \in Threads : pc'[u] = "answered" => pc[u] = "answered"
    BY <1>5 DEF Entering, LockFile, ProceedWithoutLock, Reload, Goto, FirstStep
  <2> QED
    BY <2>1, <2>2
<1>6. ASSUME NEW t \in Threads, Reread(t) \/ Persist(t) \/ PersistFails(t)
      PROVE  \A u \in Threads : ExchangeOf(u)'
  BY <1>6 DEF Reread, Persist, PersistFails, Goto
<1>7. ASSUME NEW t \in Threads, ServerRotates(t)
      PROVE  \A u \in Threads : ExchangeOf(u)'
  <2>1. \A u \in Threads \ {t} : pc'[u] # "answered"
    BY <1>a, <1>7 DEF ServerRotates, Goto, Critical
  <2>2. /\ renewed'[t].rt = next /\ current'[t].rt \in spent' /\ next \in valid'
    BY <1>7 DEF ServerRotates, IssueNext, Issue
  <2> QED
    BY <2>1, <2>2
<1>8. ASSUME NEW t \in Threads, ServerKeepsToken(t)
      PROVE  \A u \in Threads : ExchangeOf(u)'
  <2>1. \A u \in Threads \ {t} : pc'[u] # "answered"
    BY <1>a, <1>8 DEF ServerKeepsToken, Goto, Critical
  <2>2. renewed'[t].rt = current'[t].rt
    BY <1>8 DEF ServerKeepsToken, Issue
  <2> QED
    BY <2>1, <2>2
<1>9. ASSUME NEW t \in Threads, ServerRejects(t) \/ ExchangeFails(t)
      PROVE  \A u \in Threads : ExchangeOf(u)'
  BY <1>9 DEF ServerRejects, ExchangeFails, Goto
<1>10. ASSUME NEW t \in Threads, Storing(t) \/ Dropping(t)
       PROVE  \A u \in Threads : ExchangeOf(u)'
  BY <1>10 DEF Storing, StorePlain, StorePlainFails, PurgeRefreshable, StoreRefreshable,
               StoreRefreshableFails, PurgePlain, Dropping, DropRefreshable, DropPlain, Goto
<1>11. CASE LateLands \/ Expire
  BY <1>11 DEF LateLands, Expire
<1>12. CASE Revoke
  <2>1. valid' = valid \ {Stored.rt} /\ Stored.rt \in valid
        /\ UNCHANGED <<spent, pc, current, renewed>>
    BY <1>12 DEF Revoke, Stored
  <2>2. \A u \in Threads : pc[u] = "answered" => current[u].rt = Stored.rt
    BY DEF Inv, CurrentInv, Renewing
  <2>3. valid \cap spent = {}
    BY DEF Inv, TokenInv
  <2> QED
    BY <2>1, <2>2, <2>3
<1>13. ASSUME NEW p \in Procs, Crash(p)
       PROVE  \A u \in Threads : ExchangeOf(u)'
  BY <1>13 DEF Crash
<1> QED
  BY <1>1, <1>2, <1>3, <1>4, <1>5, <1>6, <1>7, <1>8, <1>9, <1>10, <1>11, <1>12, <1>13
  DEF Next, Refreshing, Exchanging

LEMMA CallInvariant ==
    ASSUME Serialized, MaxLate = 0
    PROVE  Spec => []CallInv
<1>1. Init => CallInv
  BY DEF Init, CallInv, PathOf, ExchangeOf
<1>2. TypeOK /\ Inv /\ CallInv /\ [Next]_vars => CallInv'
  BY PathStep, ExchangeStep DEF CallInv
<1> QED
  BY <1>1, <1>2, SpecInv, TypeCorrect, PTL DEF Spec

-----------------------------------------------------------------------------
(* The mapping.                                                            *)

LEMMA UnderWayDef ==
    UnderWay = {t \in Threads : pc[t] = "answered" /\ renewed[t].rt # current[t].rt}
BY DEF UnderWay, Stranded

(* Nothing under way: the server is what it seems.                         *)
LEMMA Quiet ==
    ASSUME UnderWay = {}
    PROVE  Accepted = valid /\ Exchanged = spent
BY DEF Accepted, Exchanged

LEMMA QuietNext ==
    ASSUME UnderWay' = {}
    PROVE  Accepted' = valid' /\ Exchanged' = spent'
BY DEF Accepted, Exchanged

(* An exchange under way: completing it takes the mapped server to the     *)
(* real one.                                                               *)
LEMMA Completion ==
    ASSUME Serialized, TypeOK, Inv, CallInv, NEW t \in UnderWay
    PROVE  /\ UnderWay = {t}
           /\ op[t] = "refresh"
           /\ Stored.rt = current[t].rt
           /\ Stored.rt \in Accepted
           /\ Stored.rt \notin valid
           /\ renewed[t].rt \in Nat \ {0}
           /\ renewed[t].rt # Stored.rt
           /\ renewed[t].rt \notin Accepted \cup Exchanged
           /\ valid = (Accepted \ {Stored.rt}) \cup {renewed[t].rt}
           /\ spent = Exchanged \cup {Stored.rt}
<1>1. /\ t \in Threads /\ pc[t] = "answered" /\ renewed[t].rt # current[t].rt
  BY UnderWayDef
<1>2. /\ op[t] = "refresh" /\ current[t].rt \in spent /\ renewed[t].rt \in valid
  BY <1>1 DEF CallInv, PathOf, ExchangeOf
<1>3. \A u \in Threads : pc[u] = "answered" => u = t
  BY <1>1, MutualExclusion DEF Inv, Critical
<1>4. UnderWay = {t}
  BY <1>1, <1>3, UnderWayDef
<1>5. Stored.rt = current[t].rt
  BY <1>1 DEF Inv, CurrentInv, Renewing
<1>6. valid \cap spent = {} /\ renewed[t].rt \in Nat \ {0}
  BY <1>2 DEF Inv, TokenInv, TypeOK
<1>7. /\ Accepted = (valid \ {renewed[t].rt}) \cup {current[t].rt}
      /\ Exchanged = spent \ {current[t].rt}
  BY <1>4 DEF Accepted, Exchanged
<1> QED
  BY <1>1, <1>2, <1>4, <1>5, <1>6, <1>7

(* What leaves the exchanges under way alone leaves the server alone.      *)
LEMMA ServerFrame ==
    ASSUME UNCHANGED <<valid, spent>>, UnderWay' = UnderWay,
           \A t \in UnderWay : renewed'[t] = renewed[t] /\ current'[t] = current[t]
    PROVE  UNCHANGED <<Accepted, Exchanged>>
BY DEF Accepted, Exchanged

LEMMA HandFrame ==
    ASSUME \A t \in Threads : Brought'[t] = Brought[t]
    PROVE  UNCHANGED Brought
BY DEF Brought

Mapped == <<keyring["refreshable"].rt, Accepted, Exchanged, op, Brought>>

(* A step of a call that is not about an exchange leaves the server alone. *)
LEMMA Aside ==
    ASSUME TypeOK, NEW t \in Threads, NEW to,
           pc[t] # "answered", to # "answered", pc' = [pc EXCEPT ![t] = to],
           \A u \in Threads \ {t} : renewed'[u] = renewed[u] /\ current'[u] = current[u],
           UNCHANGED <<valid, spent>>
    PROVE  UNCHANGED <<Accepted, Exchanged>>
<1>1. UnderWay' = UnderWay
  BY UnderWayDef DEF TypeOK, UnderWay, Stranded
<1>2. t \notin UnderWay /\ UnderWay \subseteq Threads
  BY UnderWayDef
<1> QED
  BY <1>1, <1>2, ServerFrame

Step == [Store!Next]_(Store!vars)

LEMMA Stutter ==
    ASSUME UNCHANGED Mapped
    PROVE  Step
BY DEF Step, Mapped, Store!vars

-----------------------------------------------------------------------------
(* The calls start and end.                                                *)

LEMMA CallMapped ==
    ASSUME TypeOK, CallInv, NEW t \in Threads,
           BeginRefresh(t) \/ BeginLogin(t) \/ BeginLogout(t)
    PROVE  Step
<1> USE DEF store, server, locks, call, history
<1>1. PICK o \in {"refresh", "login", "logout"} : Begin(t, o) /\ UNCHANGED <<server, renewed>>
  BY DEF BeginRefresh, BeginLogin, BeginLogout
<1>2. pc[t] = "idle" /\ pc' = [pc EXCEPT ![t] = "mutex"] /\ op' = [op EXCEPT ![t] = o]
      /\ UNCHANGED <<keyring, valid, spent, current, renewed>>
  BY <1>1 DEF Begin, Goto
<1>3. UNCHANGED <<Accepted, Exchanged>>
  BY <1>2, Aside
<1>4. \A u \in Threads : Brought'[u] = Brought[u]
  BY <1>2 DEF Brought, InHand, TypeOK
<1>5. op[t] = "none"
  BY <1>2 DEF CallInv, PathOf
<1>6. Store!Call(t)
  BY <1>2, <1>3, <1>4, <1>5, HandFrame DEF Store!Call
<1> QED
  BY <1>6 DEF Step, Store!Next

LEMMA CallWithTokenMapped ==
    ASSUME TypeOK, Inv, CallInv, NEW t \in Threads, BeginLoginRefreshable(t)
    PROVE  Step
<1> USE DEF store, server, locks, call, history
<1>1. /\ pc[t] = "idle" /\ pc' = [pc EXCEPT ![t] = "mutex"]
      /\ op' = [op EXCEPT ![t] = "loginRefreshable"]
      /\ valid' = valid \cup {next}
      /\ UNCHANGED <<keyring, spent, current>>
  BY DEF BeginLoginRefreshable, Begin, Goto
<1>2. PICK l \in {"fresh", "none"} : renewed' = [renewed EXCEPT ![t] = [rt |-> next, life |-> l]]
  BY DEF BeginLoginRefreshable, IssueNext, Issue
<1>3. op[t] = "none"
  BY <1>1 DEF CallInv, PathOf
<1>4. UnderWay' = UnderWay /\ UnderWay \subseteq Threads \ {t}
  BY <1>1, <1>2, UnderWayDef DEF TypeOK, UnderWay, Stranded
<1>5. \A u \in UnderWay : renewed'[u] = renewed[u] /\ current'[u] = current[u]
  BY <1>1, <1>2, <1>4 DEF TypeOK
<1>6. \A u \in Threads : current[u].rt # next /\ renewed[u].rt # next
  BY DEF Inv, TokenInv, TypeOK, Cred
<1>7. next \notin valid \cup spent /\ next \in Nat \ {0}
  BY DEF Inv, TokenInv, TypeOK
<1>8. next \notin Accepted \cup Exchanged
  BY <1>4, <1>6, <1>7 DEF Accepted, Exchanged
<1>9. Accepted' = Accepted \cup {next} /\ Exchanged' = Exchanged
  BY <1>1, <1>4, <1>5, <1>6 DEF Accepted, Exchanged
<1>10. Brought' = [Brought EXCEPT ![t] = next]
  <2>1. \A u \in Threads : InHand(u)' <=> (u = t \/ InHand(u))
    BY <1>1 DEF InHand, TypeOK
  <2>2. \A u \in Threads \ {t} : renewed'[u].rt = renewed[u].rt
    BY <1>2 DEF TypeOK
  <2>3. renewed'[t].rt = next
    BY <1>2 DEF TypeOK
  <2> QED
    BY <2>1, <2>2, <2>3 DEF Brought
<1>11. Brought'[t] = next
  BY <1>10 DEF Brought
<1>12. Store!CallWithToken(t)
  BY <1>1, <1>3, <1>7, <1>8, <1>9, <1>10, <1>11 DEF Store!CallWithToken, Store!Fresh
<1> QED
  BY <1>12 DEF Step, Store!Next

LEMMA LockMutexMapped ==
    ASSUME TypeOK, NEW t \in Threads, LockMutex(t)
    PROVE  Step
<1> USE DEF store, server, locks, call, history
<1>1. pc[t] = "mutex" /\ pc' = [pc EXCEPT ![t] = "flock"]
      /\ UNCHANGED <<keyring, valid, spent, op, current, renewed>>
  BY DEF LockMutex, Goto
<1>2. UNCHANGED <<Accepted, Exchanged>>
  BY <1>1, Aside
<1>3. \A u \in Threads : Brought'[u] = Brought[u]
  BY <1>1 DEF Brought, InHand, TypeOK
<1> QED
  BY <1>1, <1>2, <1>3, HandFrame, Stutter DEF Mapped

(* A login whose reload fails gives up what it brings.                     *)
LEMMA EnteringMapped ==
    ASSUME TypeOK, CallInv, NEW t \in Threads, Entering(t)
    PROVE  Step
<1> USE DEF store, server, locks, call, history
<1>1. /\ pc[t] = "flock"
      /\ UNCHANGED <<keyring, valid, spent, op, current, renewed>>
      /\ pc' = [pc EXCEPT ![t] = FirstStep(op[t])] \/ pc' = [pc EXCEPT ![t] = "leave"]
  BY DEF Entering, LockFile, ProceedWithoutLock, Reload, Goto
<1>2. PICK to : pc' = [pc EXCEPT ![t] = to] /\ (to = FirstStep(op[t]) \/ to = "leave")
  BY <1>1
<1>3. op[t] \in Ops \ {"none"}
  BY <1>1 DEF CallInv, PathOf, TypeOK
<1>4. to = "leave" \/ to = IF op[t] = "refresh" THEN "reread"
                           ELSE IF op[t] = "login" THEN "storePlain"
                           ELSE IF op[t] = "loginRefreshable" THEN "storeRefreshable"
                           ELSE "dropRefreshable"
  BY <1>2, <1>3, FirstStepFacts
<1>5. UNCHANGED <<Accepted, Exchanged>>
  BY <1>1, <1>2, <1>4, Aside
<1>6. CASE op[t] = "loginRefreshable" /\ to = "leave"
  <2>1. Brought' = [Brought EXCEPT ![t] = 0]
    BY <1>1, <1>2, <1>6 DEF Brought, InHand, TypeOK
  <2>2. Store!Discard(t)
    BY <1>1, <1>5, <2>1 DEF Store!Discard
  <2> QED
    BY <2>2 DEF Step, Store!Next
<1>7. CASE ~(op[t] = "loginRefreshable" /\ to = "leave")
  <2>1. \A u \in Threads : Brought'[u] = Brought[u]
    BY <1>1, <1>2, <1>4, <1>7 DEF Brought, InHand, TypeOK
  <2> QED
    BY <1>1, <1>5, <2>1, HandFrame, Stutter DEF Mapped
<1> QED
  BY <1>6, <1>7

LEMMA UnlockMapped ==
    ASSUME TypeOK, CallInv, NEW t \in Threads, Unlock(t)
    PROVE  Step
<1> USE DEF store, server, locks, call, history
<1>1. /\ pc[t] = "leave" /\ pc' = [pc EXCEPT ![t] = "idle"]
      /\ op' = [op EXCEPT ![t] = "none"]
      /\ current' = [current EXCEPT ![t] = NoCred]
      /\ renewed' = [renewed EXCEPT ![t] = NoCred]
      /\ UNCHANGED <<keyring, valid, spent>>
  BY DEF Unlock, Goto
<1>2. UNCHANGED <<Accepted, Exchanged>>
  BY <1>1, Aside DEF TypeOK
<1>3. op' = [c \in Threads |-> IF c \in {t} THEN "none" ELSE op[c]]
  BY <1>1 DEF TypeOK
<1>4. Brought' = [c \in Threads |-> IF c \in {t} THEN 0 ELSE Brought[c]]
  BY <1>1 DEF Brought, InHand, TypeOK
<1>5. Store!End({t})
  BY <1>1, <1>2, <1>3, <1>4 DEF Store!End
<1> QED
  BY <1>5 DEF Step, Store!Next

-----------------------------------------------------------------------------
(* A refresh.                                                              *)

LEMMA RereadMapped ==
    ASSUME TypeOK, NEW t \in Threads, Reread(t)
    PROVE  Step
<1> USE DEF store, server, locks, call, history
<1>1. /\ pc[t] = "reread"
      /\ UNCHANGED <<keyring, valid, spent, op, renewed>>
      /\ pc' = [pc EXCEPT ![t] = "present"] \/ pc' = [pc EXCEPT ![t] = "leave"]
      /\ \A u \in Threads \ {t} : current'[u] = current[u]
  BY DEF Reread, Goto, TypeOK
<1>2. UNCHANGED <<Accepted, Exchanged>>
  BY <1>1, Aside
<1>3. \A u \in Threads : Brought'[u] = Brought[u]
  BY <1>1 DEF Brought, InHand, TypeOK
<1> QED
  BY <1>1, <1>2, <1>3, HandFrame, Stutter DEF Mapped

(* The server has acted; the store has not seen it yet.                    *)
LEMMA ServerRotatesMapped ==
    ASSUME Serialized, TypeOK, Inv, CallInv, NEW t \in Threads, ServerRotates(t)
    PROVE  Step
<1> USE DEF store, server, locks, call, history
<1>1. /\ pc[t] = "present" /\ pc' = [pc EXCEPT ![t] = "answered"]
      /\ current[t].rt \in valid
      /\ valid' = (valid \ {current[t].rt}) \cup {next}
      /\ spent' = spent \cup {current[t].rt}
      /\ UNCHANGED <<keyring, op, current>>
  BY DEF ServerRotates, Goto
<1>2. PICK l \in {"fresh", "none"} : renewed' = [renewed EXCEPT ![t] = [rt |-> next, life |-> l]]
  BY DEF ServerRotates, IssueNext, Issue
<1>3. \A u \in Threads : pc[u] # "answered"
  BY <1>1, MutualExclusion DEF Inv, Critical
<1>4. UnderWay = {}
  BY <1>3, UnderWayDef
<1>5. next \notin valid \cup spent /\ current[t].rt # next /\ valid \cap spent = {}
  BY DEF Inv, TokenInv, TypeOK, Cred
<1>6. UnderWay' = {t}
  BY <1>1, <1>2, <1>3, <1>5 DEF UnderWay, Stranded, TypeOK
<1>7. renewed'[t].rt = next /\ current'[t].rt = current[t].rt
  BY <1>1, <1>2 DEF TypeOK
<1>8. Accepted' = (valid' \ {next}) \cup {current[t].rt} /\ Exchanged' = spent' \ {current[t].rt}
  BY <1>6, <1>7 DEF Accepted, Exchanged
<1>9. Accepted' = valid /\ Exchanged' = spent
  BY <1>1, <1>5, <1>8
<1>10. UNCHANGED <<Accepted, Exchanged>>
  BY <1>4, <1>9, Quiet
<1>11. \A u \in Threads : Brought'[u] = Brought[u]
  BY <1>1, <1>2 DEF Brought, InHand, TypeOK
<1> QED
  BY <1>1, <1>10, <1>11, HandFrame, Stutter DEF Mapped

LEMMA ServerKeepsMapped ==
    ASSUME TypeOK, NEW t \in Threads, ServerKeepsToken(t)
    PROVE  Step
<1> USE DEF store, server, locks, call, history
<1>1. /\ pc[t] = "present" /\ pc' = [pc EXCEPT ![t] = "answered"]
      /\ UNCHANGED <<keyring, valid, spent, op, current>>
  BY DEF ServerKeepsToken, Goto
<1>2. PICK l \in {"fresh", "none"} :
        renewed' = [renewed EXCEPT ![t] = [rt |-> current[t].rt, life |-> l]]
  BY DEF ServerKeepsToken, Issue
<1>3. UnderWay' = UnderWay /\ t \notin UnderWay /\ UnderWay \subseteq Threads
  BY <1>1, <1>2 DEF UnderWay, Stranded, TypeOK
<1>4. UNCHANGED <<Accepted, Exchanged>>
  BY <1>1, <1>2, <1>3, ServerFrame DEF TypeOK
<1>5. \A u \in Threads : Brought'[u] = Brought[u]
  BY <1>1, <1>2 DEF Brought, InHand, TypeOK
<1> QED
  BY <1>1, <1>4, <1>5, HandFrame, Stutter DEF Mapped

LEMMA ServerRejectsMapped ==
    ASSUME TypeOK, NEW t \in Threads, ServerRejects(t)
    PROVE  Step
<1> USE DEF store, server, locks, call, history
<1>1. PICK to \in {"dropRefreshable", "leave"} :
        pc[t] = "present" /\ pc' = [pc EXCEPT ![t] = to]
  BY DEF ServerRejects, Goto
<1>2. UNCHANGED <<keyring, valid, spent, op, current, renewed>>
  BY DEF ServerRejects
<1>3. UNCHANGED <<Accepted, Exchanged>>
  BY <1>1, <1>2, Aside
<1>4. \A u \in Threads : Brought'[u] = Brought[u]
  BY <1>1, <1>2 DEF Brought, InHand, TypeOK
<1> QED
  BY <1>2, <1>3, <1>4, HandFrame, Stutter DEF Mapped

(* A refresh that gives up after the server answered: the exchange took    *)
(* place and its result is lost.                                           *)
LEMMA GivesUp ==
    ASSUME Serialized, TypeOK, Inv, CallInv, NEW t \in Threads,
           pc[t] \in {"present", "answered"}, pc' = [pc EXCEPT ![t] = "leave"],
           UNCHANGED <<keyring, valid, spent, op, current, renewed>>
    PROVE  Step
<1>1. \A u \in Threads : Brought'[u] = Brought[u]
  BY DEF Brought, InHand, TypeOK
<1>2. UNCHANGED Brought
  BY <1>1, HandFrame
<1>3. CASE t \notin UnderWay
  <2>1. UnderWay' = UnderWay
    BY <1>3 DEF UnderWay, Stranded, TypeOK
  <2>2. UNCHANGED <<Accepted, Exchanged>>
    BY <2>1, ServerFrame
  <2> QED
    BY <1>2, <2>2, Stutter DEF Mapped
<1>4. CASE t \in UnderWay
  <2>1. UnderWay = {t}
    BY <1>4, Completion
  <2>2. UnderWay' = {}
    BY <2>1 DEF UnderWay, Stranded, TypeOK
  <2>3. Accepted' = valid /\ Exchanged' = spent
    BY <2>2, QuietNext
  <2>4. /\ op[t] = "refresh" /\ Stored.rt \in Accepted
        /\ renewed[t].rt \in Nat \ {0} /\ renewed[t].rt \notin Accepted \cup Exchanged
        /\ Accepted' = (Accepted \ {Stored.rt}) \cup {renewed[t].rt}
        /\ Exchanged' = Exchanged \cup {Stored.rt}
    BY <1>4, <2>3, Completion
  <2>5. Store!Exchange(renewed[t].rt)
    BY <2>4 DEF Store!Exchange, Store!Fresh, Stored
  <2>6. Store!Strand(t)
    BY <1>2, <2>4, <2>5 DEF Store!Strand
  <2> QED
    BY <2>6 DEF Step, Store!Next
<1> QED
  BY <1>3, <1>4

LEMMA ExchangeFailsMapped ==
    ASSUME Serialized, TypeOK, Inv, CallInv, NEW t \in Threads, ExchangeFails(t)
    PROVE  Step
BY GivesUp DEF ExchangeFails, Goto, store, server, locks, call

LEMMA PersistFailsMapped ==
    ASSUME Serialized, TypeOK, Inv, CallInv, NEW t \in Threads, PersistFails(t)
    PROVE  Step
BY GivesUp DEF PersistFails, KeyringFails, Goto, store, server, locks, call

(* Storing the successor is what makes the exchange visible.               *)
LEMMA PersistMapped ==
    ASSUME Serialized, TypeOK, Inv, CallInv, NEW t \in Threads, Persist(t)
    PROVE  Step
<1> USE DEF store, server, locks, call, history
<1>1. /\ pc[t] = "answered" /\ pc' = [pc EXCEPT ![t] = "leave"]
      /\ keyring' = [keyring EXCEPT !["refreshable"] = renewed[t]]
      /\ UNCHANGED <<valid, spent, op, current, renewed>>
  BY DEF Persist, KeyringWrite, Goto
<1>2. \A u \in Threads : Brought'[u] = Brought[u]
  BY <1>1 DEF Brought, InHand, TypeOK
<1>3. UNCHANGED Brought
  BY <1>2, HandFrame
<1>4. Stored'.rt = renewed[t].rt
  BY <1>1 DEF Stored, TypeOK, Slots
<1>5. CASE t \notin UnderWay
  <2>1. renewed[t].rt = current[t].rt /\ current[t].rt = Stored.rt
    BY <1>1, <1>5, UnderWayDef DEF Inv, CurrentInv, Renewing
  <2>2. UnderWay' = UnderWay
    BY <1>1, <1>5 DEF UnderWay, Stranded, TypeOK
  <2>3. UNCHANGED <<Accepted, Exchanged>>
    BY <1>1, <2>2, ServerFrame
  <2> QED
    BY <1>1, <1>3, <1>4, <2>1, <2>3, Stutter DEF Mapped, Stored
<1>6. CASE t \in UnderWay
  <2>1. UnderWay = {t}
    BY <1>6, Completion
  <2>2. UnderWay' = {}
    BY <1>1, <2>1 DEF UnderWay, Stranded, TypeOK
  <2>3. Accepted' = valid /\ Exchanged' = spent
    BY <1>1, <2>2, QuietNext
  <2>4. /\ op[t] = "refresh" /\ Stored.rt \in Accepted /\ renewed[t].rt # Stored.rt
        /\ renewed[t].rt \in Nat \ {0} /\ renewed[t].rt \notin Accepted \cup Exchanged
        /\ Accepted' = (Accepted \ {Stored.rt}) \cup {renewed[t].rt}
        /\ Exchanged' = Exchanged \cup {Stored.rt}
    BY <1>6, <2>3, Completion
  <2>5. Store!Exchange(Stored'.rt)
    BY <1>4, <2>4 DEF Store!Exchange, Store!Fresh, Stored
  <2>6. Store!Rotate(t)
    BY <1>1, <1>3, <1>4, <2>4, <2>5 DEF Store!Rotate, Stored
  <2> QED
    BY <2>6 DEF Step, Store!Next
<1> QED
  BY <1>5, <1>6

-----------------------------------------------------------------------------
(* The logins and the removals.                                            *)

(* These steps leave the server and the credentials alone.                 *)
LEMMA Beside ==
    ASSUME TypeOK, NEW t \in Threads, NEW to \in Critical \ {"answered", "storeRefreshable"},
           pc[t] \in Critical \ {"answered"}, pc' = [pc EXCEPT ![t] = to],
           UNCHANGED <<valid, spent, op, current, renewed>>
    PROVE  /\ UNCHANGED <<Accepted, Exchanged>>
           /\ pc[t] # "storeRefreshable" => UNCHANGED Brought
           /\ pc[t] = "storeRefreshable" => Brought' = [Brought EXCEPT ![t] = 0]
<1>1. UNCHANGED <<Accepted, Exchanged>>
  BY Aside
<1>2. \A u \in Threads \ {t} : Brought'[u] = Brought[u]
  BY DEF Brought, InHand, TypeOK
<1>3. ~InHand(t)'
  BY DEF InHand, TypeOK, Critical
<1>4. ASSUME pc[t] # "storeRefreshable"
      PROVE  UNCHANGED Brought
  <2>1. ~InHand(t)
    BY <1>4 DEF InHand, Critical
  <2>2. Brought'[t] = Brought[t]
    BY <1>3, <2>1 DEF Brought
  <2> QED
    BY <1>2, <2>2, HandFrame
<1>5. Brought' = [Brought EXCEPT ![t] = 0]
  BY <1>2, <1>3 DEF Brought
<1> QED
  BY <1>1, <1>4, <1>5

LEMMA StoringMapped ==
    ASSUME TypeOK, Inv, CallInv, NEW t \in Threads, Storing(t)
    PROVE  Step
<1> USE DEF store, server, locks, call, history, KeyringDelete, KeyringWrite, KeyringFails
<1>1. UNCHANGED <<valid, spent, op, current, renewed>>
  BY DEF Storing, StorePlain, StorePlainFails, PurgeRefreshable, StoreRefreshable,
         StoreRefreshableFails, PurgePlain
<1>2. CASE StorePlain(t) \/ StorePlainFails(t) \/ PurgePlain(t)
  <2>1. PICK from \in {"storePlain", "purgePlain"}, to \in {"purgeRefreshable", "leave"} :
          pc[t] = from /\ pc' = [pc EXCEPT ![t] = to]
    BY <1>2 DEF StorePlain, StorePlainFails, PurgePlain, Goto
  <2>2. UNCHANGED <<Accepted, Exchanged, Brought>>
    BY <1>1, <2>1, Beside DEF Critical
  <2>3. keyring'["refreshable"] = keyring["refreshable"]
    BY <1>2 DEF StorePlain, StorePlainFails, PurgePlain, TypeOK, Slots
  <2> QED
    BY <1>1, <2>2, <2>3, Stutter DEF Mapped
<1>3. CASE PurgeRefreshable(t)
  <2>1. pc[t] = "purgeRefreshable" /\ pc' = [pc EXCEPT ![t] = "leave"]
    BY <1>3 DEF PurgeRefreshable, Goto
  <2>2. UNCHANGED <<Accepted, Exchanged, Brought>>
    BY <1>1, <2>1, Beside DEF Critical
  <2>3. op[t] = "login"
    BY <2>1 DEF CallInv, PathOf
  <2>4. CASE keyring' = [keyring EXCEPT !["refreshable"] = NoCred]
    <3>1. keyring'["refreshable"].rt = 0
      BY <2>4 DEF NoCred, TypeOK, Slots
    <3>2. Store!Remove(t)
      BY <1>1, <2>2, <2>3, <3>1 DEF Store!Remove
    <3> QED
      BY <3>2 DEF Step, Store!Next
  <2>5. CASE UNCHANGED keyring
    BY <1>1, <2>2, <2>5, Stutter DEF Mapped
  <2> QED
    BY <1>3, <2>4, <2>5 DEF PurgeRefreshable
<1>4. CASE StoreRefreshable(t)
  <2>1. /\ pc[t] = "storeRefreshable" /\ pc' = [pc EXCEPT ![t] = "purgePlain"]
        /\ keyring' = [keyring EXCEPT !["refreshable"] = renewed[t]]
    BY <1>4 DEF StoreRefreshable, Goto
  <2>2. UNCHANGED <<Accepted, Exchanged>> /\ Brought' = [Brought EXCEPT ![t] = 0]
    BY <1>1, <2>1, Beside DEF Critical
  <2>3. op[t] = "loginRefreshable"
    BY <2>1 DEF CallInv, PathOf
  <2>4. Brought[t] = renewed[t].rt /\ renewed[t].rt # 0
    BY <2>1 DEF Inv, HandInv, InHand, Brought
  <2>5. keyring'["refreshable"].rt = Brought[t]
    BY <2>1, <2>4 DEF TypeOK, Slots
  <2>6. Store!Install(t)
    BY <1>1, <2>2, <2>3, <2>4, <2>5 DEF Store!Install
  <2> QED
    BY <2>6 DEF Step, Store!Next
<1>5. CASE StoreRefreshableFails(t)
  <2>1. pc[t] = "storeRefreshable" /\ pc' = [pc EXCEPT ![t] = "leave"] /\ UNCHANGED keyring
    BY <1>5 DEF StoreRefreshableFails, Goto
  <2>2. UNCHANGED <<Accepted, Exchanged>> /\ Brought' = [Brought EXCEPT ![t] = 0]
    BY <1>1, <2>1, Beside DEF Critical
  <2>3. Store!Discard(t)
    BY <1>1, <2>1, <2>2 DEF Store!Discard
  <2> QED
    BY <2>3 DEF Step, Store!Next
<1> QED
  BY <1>2, <1>3, <1>4, <1>5 DEF Storing

(* Only a rejected credential is removed by a refresh, because no exchange *)
(* is under way while the locks are held.                                  *)
LEMMA DroppingMapped ==
    ASSUME Serialized, TypeOK, Inv, CallInv, NEW t \in Threads, Dropping(t)
    PROVE  Step
<1> USE DEF store, server, locks, call, history, KeyringDelete, KeyringWrite, KeyringFails
<1>1. UNCHANGED <<valid, spent, op, current, renewed>>
  BY DEF Dropping, DropRefreshable, DropPlain
<1>2. PICK from \in {"dropRefreshable", "dropPlain"}, to \in {"dropPlain", "leave"} :
        pc[t] = from /\ pc' = [pc EXCEPT ![t] = to]
  BY DEF Dropping, DropRefreshable, DropPlain, Goto
<1>3. UNCHANGED <<Accepted, Exchanged, Brought>>
  BY <1>1, <1>2, Beside DEF Critical
<1>4. CASE keyring'["refreshable"] = keyring["refreshable"]
  BY <1>1, <1>3, <1>4, Stutter DEF Mapped
<1>5. CASE keyring'["refreshable"] # keyring["refreshable"]
  <2>1. pc[t] = "dropRefreshable" /\ keyring' = [keyring EXCEPT !["refreshable"] = NoCred]
    BY <1>5 DEF Dropping, DropRefreshable, DropPlain, Goto, TypeOK, Slots
  <2>2. keyring'["refreshable"].rt = 0
    BY <2>1 DEF NoCred, TypeOK, Slots
  <2>3. op[t] \in {"refresh", "logout"}
    BY <2>1 DEF CallInv, PathOf
  <2>4. CASE op[t] = "logout"
    <3>1. Store!Remove(t)
      BY <1>1, <1>3, <2>2, <2>4 DEF Store!Remove
    <3> QED
      BY <3>1 DEF Step, Store!Next
  <2>5. CASE op[t] = "refresh"
    <3>1. \A u \in Threads : pc[u] # "answered"
      BY <2>1, MutualExclusion DEF Inv, Critical
    <3>2. Accepted = valid
      BY <3>1, UnderWayDef, Quiet
    <3>3. keyring["refreshable"].rt \notin Accepted
      BY <2>1, <2>5, <3>2 DEF Inv, RejectedInv, Stored
    <3>4. Store!Reject(t)
      BY <1>1, <1>3, <2>2, <2>5, <3>3 DEF Store!Reject
    <3> QED
      BY <3>4 DEF Step, Store!Next
  <2> QED
    BY <2>3, <2>4, <2>5
<1> QED
  BY <1>4, <1>5

-----------------------------------------------------------------------------
(* The environment.                                                        *)

LEMMA ExpireMapped ==
    ASSUME TypeOK, Expire
    PROVE  Step
<1> USE DEF store, server, locks, call, history
<1>1. UNCHANGED <<valid, spent, pc, op, current, renewed>>
  BY DEF Expire
<1>2. keyring'["refreshable"].rt = keyring["refreshable"].rt
  BY DEF Expire, TypeOK, Slots, Cred
<1>3. UNCHANGED <<Accepted, Exchanged, Brought>>
  BY <1>1 DEF Accepted, Exchanged, Brought, UnderWay, Stranded, InHand
<1> QED
  BY <1>1, <1>2, <1>3, Stutter DEF Mapped

(* The stored credential is accepted, so no exchange is under way.         *)
LEMMA RevokeMapped ==
    ASSUME Serialized, TypeOK, Inv, CallInv, Revoke
    PROVE  Step
<1> USE DEF store, server, locks, call, history
<1>1. /\ UNCHANGED <<keyring, spent, pc, op, current, renewed>>
      /\ Stored.rt \in valid /\ valid' = valid \ {Stored.rt}
  BY DEF Revoke, Stored
<1>2. UnderWay = {}
  BY <1>1, Completion
<1>3. UnderWay' = UnderWay /\ UNCHANGED Brought
  BY <1>1 DEF UnderWay, Stranded, Brought, InHand
<1>4. Accepted = valid /\ Exchanged = spent /\ Accepted' = valid' /\ Exchanged' = spent'
  BY <1>2, <1>3, Quiet, QuietNext
<1>5. Store!Revoke
  BY <1>1, <1>3, <1>4 DEF Store!Revoke, Stored
<1> QED
  BY <1>5 DEF Step, Store!Next

(* The calls of a dead process end together, the refresh among them        *)
(* perhaps after its exchange.                                             *)
LEMMA CrashMapped ==
    ASSUME Serialized, TypeOK, Inv, CallInv, NEW p \in Procs, Crash(p)
    PROVE  Step
<1> DEFINE dead == {t \in Threads : ProcOf[t] = p}
<1> USE DEF store, server, locks, call, history
<1>1. /\ pc' = [t \in Threads |-> IF t \in dead THEN "idle" ELSE pc[t]]
      /\ op' = [t \in Threads |-> IF t \in dead THEN "none" ELSE op[t]]
      /\ current' = [t \in Threads |-> IF t \in dead THEN NoCred ELSE current[t]]
      /\ renewed' = [t \in Threads |-> IF t \in dead THEN NoCred ELSE renewed[t]]
      /\ UNCHANGED <<keyring, valid, spent>>
  BY DEF Crash
<1>2. dead \in SUBSET Threads
  OBVIOUS
<1> HIDE DEF dead
<1>3. Brought' = [t \in Threads |-> IF t \in dead THEN 0 ELSE Brought[t]]
  BY <1>1, <1>2 DEF Brought, InHand
<1>4. UnderWay' = UnderWay \ dead
  BY <1>1, <1>2 DEF UnderWay, Stranded
<1>5. CASE UnderWay \cap dead = {}
  <2>1. \A t \in UnderWay : renewed'[t] = renewed[t] /\ current'[t] = current[t]
    BY <1>1, <1>5, UnderWayDef
  <2>2. UNCHANGED <<Accepted, Exchanged>>
    BY <1>1, <1>4, <1>5, <2>1, ServerFrame
  <2>3. Store!End(dead)
    BY <1>1, <1>3, <2>2 DEF Store!End
  <2> QED
    BY <1>2, <2>3 DEF Step, Store!Next
<1>6. ASSUME NEW t \in UnderWay \cap dead
      PROVE  Step
  <2>1. UnderWay = {t}
    BY Completion
  <2>2. UnderWay' = {}
    BY <1>4, <2>1
  <2>3. Accepted' = valid /\ Exchanged' = spent
    BY <1>1, <2>2, QuietNext
  <2>4. /\ op[t] = "refresh" /\ Stored.rt \in Accepted
        /\ renewed[t].rt \in Nat \ {0} /\ renewed[t].rt \notin Accepted \cup Exchanged
        /\ Accepted' = (Accepted \ {Stored.rt}) \cup {renewed[t].rt}
        /\ Exchanged' = Exchanged \cup {Stored.rt}
    BY <2>3, Completion
  <2>5. Store!Exchange(renewed[t].rt) /\ renewed[t].rt \in Accepted'
    BY <2>4 DEF Store!Exchange, Store!Fresh, Stored
  <2>6. Store!End(dead)
    BY <1>1, <1>3, <2>4, <2>5 DEF Store!End
  <2> QED
    BY <1>2, <2>6 DEF Step, Store!Next
<1> QED
  BY <1>5, <1>6

-----------------------------------------------------------------------------
LEMMA StepMapped ==
    ASSUME Serialized, TypeOK, Inv, CallInv, [Next]_vars
    PROVE  Step
<1>1. CASE UNCHANGED vars
  <2>1. UNCHANGED Mapped
    BY <1>1 DEF vars, store, server, call, Mapped, Accepted, Exchanged, Brought,
                UnderWay, Stranded, InHand
  <2> QED
    BY <2>1, Stutter
<1>2. ASSUME NEW t \in Threads,
             BeginRefresh(t) \/ BeginLogin(t) \/ BeginLoginRefreshable(t) \/ BeginLogout(t)
      PROVE  Step
  BY <1>2, CallMapped, CallWithTokenMapped
<1>3. ASSUME NEW t \in Threads, LockMutex(t) \/ Entering(t) \/ Unlock(t)
      PROVE  Step
  BY <1>3, LockMutexMapped, EnteringMapped, UnlockMapped
<1>4. ASSUME NEW t \in Threads, Refreshing(t)
      PROVE  Step
  BY <1>4, RereadMapped, PersistMapped, PersistFailsMapped DEF Refreshing
<1>5. ASSUME NEW t \in Threads, Exchanging(t)
      PROVE  Step
  BY <1>5, ServerRotatesMapped, ServerKeepsMapped, ServerRejectsMapped, ExchangeFailsMapped
  DEF Exchanging
<1>6. ASSUME NEW t \in Threads, Storing(t) \/ Dropping(t)
      PROVE  Step
  BY <1>6, StoringMapped, DroppingMapped
<1>7. CASE LateLands
  BY <1>7 DEF LateLands, Inv, LateInv
<1>8. CASE Expire \/ Revoke
  BY <1>8, ExpireMapped, RevokeMapped
<1>9. ASSUME NEW p \in Procs, Crash(p)
      PROVE  Step
  BY <1>9, CrashMapped
<1> QED
  BY <1>1, <1>2, <1>3, <1>4, <1>5, <1>6, <1>7, <1>8, <1>9 DEF Next

(* However the calls of several processes interleave, crash or fail, the   *)
(* stored credential and the server's tokens change as if every refresh    *)
(* exchanged its token and stored the successor, or lost it, in one step   *)
(* (refreshCredentialForUser under withFreshConfigForRefresh).             *)
THEOREM StoreIsAtomic ==
    ASSUME Serialized, MaxLate = 0
    PROVE  Spec => AtomicStore
<1>1. Init => Store!Init
  <2> SUFFICES ASSUME Init PROVE Store!Init
    OBVIOUS
  <2>1. UnderWay = {} /\ keyring["refreshable"].rt = 0
    BY DEF Init, UnderWay, Stranded, Slots, NoCred
  <2>2. Brought = [t \in Threads |-> 0]
    BY DEF Init, Brought, InHand
  <2> QED
    BY <2>1, <2>2, Quiet DEF Init, Store!Init
<1>2. TypeOK /\ Inv /\ CallInv /\ [Next]_vars => [Store!Next]_(Store!vars)
  BY StepMapped DEF Step
<1> QED
  BY <1>1, <1>2, SpecInv, TypeCorrect, CallInvariant, PTL DEF Spec, AtomicStore, Store!Spec
=============================================================================
