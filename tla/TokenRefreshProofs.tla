------------------------- MODULE TokenRefreshProofs -------------------------
(* Proofs about TokenRefresh, for any number of goroutines, processes and  *)
(* tokens.  TypeOK, what the locks give, RemovalSafe and NoLostUpdate hold *)
(* without a condition.  NoReplay and LogoutWins hold when the critical    *)
(* sections are serialized: either the file lock is never given up, or all *)
(* the goroutines share one process and with it refreshMu; and no keyring  *)
(* call outlives its timeout.                                              *)
EXTENDS TokenRefreshContract, FiniteSetTheorems, TLAPS

Serialized == ~LockFallback \/ \A t, u \in Threads : ProcOf[t] = ProcOf[u]

Stored == keyring["refreshable"]

(* The call has re-read the credential and has not given it up yet.        *)
Renewing(t) == pc[t] \in {"present", "answered"}

(* Who holds which lock.                                                   *)
LockInv ==
    \A t \in Threads :
        /\ pc[t] \in Critical \cup {"flock"} => refreshMu[ProcOf[t]] = t
        /\ pc[t] \in Critical /\ ~LockFallback => t \in lockHeld
        /\ t \in lockHeld => flock = t /\ pc[t] \in Critical

(* No keyring call is still running.                                       *)
LateInv == late = {}

(* Tokens are older than the server's counter, and spent ones are invalid. *)
TokenInv ==
    /\ \A n \in valid \cup spent : n # 0 /\ n < next
    /\ valid \cap spent = {}
    /\ Stored.rt < next
    /\ \A t \in Threads : current[t].rt < next /\ renewed[t].rt < next

(* What a refresh has re-read is what is stored.                           *)
CurrentInv ==
    \A t \in Threads : Renewing(t) =>
        /\ current[t] = Stored
        /\ current[t] # NoCred
        /\ current[t].life # "fresh"

(* A credential in hand is unknown to everybody else.                      *)
HandInv ==
    \A t \in Threads : InHand(t) =>
        /\ renewed[t].rt \notin spent
        /\ renewed[t].rt # 0
        /\ renewed[t].rt # Stored.rt
        /\ \A u \in Threads : InHand(u) \/ pc[u] = "answered" =>
              u = t \/ renewed[u].rt # renewed[t].rt

(* A stored token is spent only while its successor is on its way, or      *)
(* after the successor was lost.                                           *)
StoredInv ==
    Stored.rt \in spent =>
        \/ Stored.rt \in orphaned
        \/ \E t \in Threads : pc[t] = "answered" /\ renewed[t].rt # current[t].rt

(* The successor a refresh brings back is unspent.                         *)
AnswerInv ==
    \A t \in Threads : pc[t] = "answered" =>
        renewed[t].rt = current[t].rt \/ renewed[t].rt \notin spent

(* The credential about to be removed after a rejection is not accepted.   *)
RejectedInv ==
    \A t \in Threads :
        op[t] = "refresh" /\ pc[t] = "dropRefreshable" => Stored.rt \notin valid

Inv == /\ LockInv /\ LateInv /\ TokenInv /\ CurrentInv /\ HandInv
       /\ StoredInv /\ AnswerInv /\ RejectedInv /\ LogoutWins

-----------------------------------------------------------------------------
LEMMA CredFacts == NoCred \in Cred /\ PlainCred \in Cred
  BY DEF NoCred, PlainCred, Cred, Life

(* A keyring call leaves the keyring and the late calls well typed.        *)
LEMMA KeyringTyped ==
    ASSUME TypeOK, NEW s \in Slots, NEW c \in Cred,
           KeyringWrite(s, c) \/ KeyringFails(s, c)
    PROVE  keyring' \in [Slots -> Cred] /\ late' \subseteq [slot : Slots, cred : Cred]
  BY DEF TypeOK, KeyringWrite, KeyringFails

(* Every state is well typed.                                              *)
THEOREM TypeCorrect == Spec => []TypeOK
  <1> USE CredFacts DEF store, server, locks, call, history
  <1>1. Init => TypeOK
    <2> SUFFICES ASSUME Init PROVE TypeOK
      OBVIOUS
    <2>1. keyring \in [Slots -> Cred] /\ late \subseteq [slot : Slots, cred : Cred]
      BY DEF Init
    <2>2. refreshMu \in [Procs -> Threads \cup {NoThread}] /\ flock \in Threads \cup {NoThread}
      BY DEF Init
    <2>3. pc \in [Threads -> Pcs] /\ op \in [Threads -> Ops]
      BY DEF Init, Pcs, Ops
    <2>4. current \in [Threads -> Cred] /\ renewed \in [Threads -> Cred]
      BY DEF Init
    <2>5. valid \subseteq Nat /\ spent \subseteq Nat /\ next \in Nat \ {0}
      BY DEF Init
    <2>6. /\ lockHeld \subseteq Threads /\ orphaned \subseteq Nat /\ loggedOut \in BOOLEAN
          /\ disturbed \subseteq Threads /\ beside \subseteq Threads
      BY DEF Init
    <2> QED
      BY <2>1, <2>2, <2>3, <2>4, <2>5, <2>6 DEF TypeOK
  <1>2. TypeOK /\ [Next]_vars => TypeOK'
    <2> SUFFICES ASSUME TypeOK, [Next]_vars PROVE TypeOK'
      OBVIOUS
    <2>0. CASE UNCHANGED vars
      BY <2>0 DEF TypeOK, vars
    <2>1. ASSUME NEW t \in Threads, BeginRefresh(t) PROVE TypeOK'
      BY <2>1, ProcOfAssumption DEF TypeOK, BeginRefresh, Goto, Begin, Pcs, Critical, Ops, Slots
    <2>2. ASSUME NEW t \in Threads, BeginLogin(t) PROVE TypeOK'
      BY <2>2, ProcOfAssumption DEF TypeOK, BeginLogin, Goto, Begin, Pcs, Critical, Ops, Slots
    <2>3. ASSUME NEW t \in Threads, BeginLoginRefreshable(t) PROVE TypeOK'
      BY <2>3, ProcOfAssumption DEF TypeOK, BeginLoginRefreshable, Goto, Begin, Issue, IssueNext, Cred, Life, Pcs, Critical, Ops, Slots
    <2>4. ASSUME NEW t \in Threads, BeginLogout(t) PROVE TypeOK'
      BY <2>4, ProcOfAssumption DEF TypeOK, BeginLogout, Goto, Begin, Pcs, Critical, Ops, Slots
    <2>5. ASSUME NEW t \in Threads, LockMutex(t) PROVE TypeOK'
      BY <2>5, ProcOfAssumption DEF TypeOK, LockMutex, Goto, Pcs, Critical, Ops, Slots
    <2>6. ASSUME NEW t \in Threads, LockFile(t) PROVE TypeOK'
      BY <2>6, ProcOfAssumption DEF TypeOK, LockFile, Goto, Reload, MeetsOthers, FirstStep, Pcs, Critical, Ops, Slots
    <2>7. ASSUME NEW t \in Threads, ProceedWithoutLock(t) PROVE TypeOK'
      BY <2>7, ProcOfAssumption DEF TypeOK, ProceedWithoutLock, Goto, Reload, MeetsOthers, FirstStep, Pcs, Critical, Ops, Slots
    <2>8. ASSUME NEW t \in Threads, Unlock(t) PROVE TypeOK'
      BY <2>8, ProcOfAssumption DEF TypeOK, Unlock, Goto, Pcs, Critical, Ops, Slots
    <2>9. ASSUME NEW t \in Threads, Reread(t) PROVE TypeOK'
      BY <2>9, ProcOfAssumption DEF TypeOK, Reread, Goto, Pcs, Critical, Ops, Slots
    <2>10. ASSUME NEW t \in Threads, Persist(t) PROVE TypeOK'
      BY <2>10, KeyringTyped, ProcOfAssumption DEF TypeOK, Persist, Goto, Pcs, Critical, Ops, Slots
    <2>11. ASSUME NEW t \in Threads, PersistFails(t) PROVE TypeOK'
      BY <2>11, KeyringTyped, ProcOfAssumption DEF TypeOK, PersistFails, Goto, Stranded, Cred, Pcs, Critical, Ops, Slots
    <2>12. ASSUME NEW t \in Threads, ServerRotates(t) PROVE TypeOK'
      <3>1. \A l \in Life : [rt |-> next, life |-> l] \in Cred
        BY DEF TypeOK, Cred
      <3>2. renewed' \in [Threads -> Cred] /\ next' \in Nat \ {0}
        BY <2>12, <3>1 DEF TypeOK, ServerRotates, IssueNext, Issue, Life
      <3>3. current[t].rt \in Nat
        BY DEF TypeOK, Cred
      <3> QED
        BY <2>12, <3>2, <3>3 DEF TypeOK, ServerRotates, IssueNext, Goto, Pcs, Critical
    <2>13. ASSUME NEW t \in Threads, ServerKeepsToken(t) PROVE TypeOK'
      BY <2>13, ProcOfAssumption DEF TypeOK, ServerKeepsToken, Goto, Issue, IssueNext, Cred, Life, Pcs, Critical, Ops, Slots
    <2>14. ASSUME NEW t \in Threads, ServerRejects(t) PROVE TypeOK'
      BY <2>14, ProcOfAssumption DEF TypeOK, ServerRejects, Goto, Pcs, Critical, Ops, Slots
    <2>15. ASSUME NEW t \in Threads, ExchangeFails(t) PROVE TypeOK'
      BY <2>15, ProcOfAssumption DEF TypeOK, ExchangeFails, Goto, Stranded, Cred, Pcs, Critical, Ops, Slots
    <2>16. ASSUME NEW t \in Threads, StorePlain(t) PROVE TypeOK'
      BY <2>16, KeyringTyped, ProcOfAssumption DEF TypeOK, StorePlain, Goto, Pcs, Critical, Ops, Slots
    <2>17. ASSUME NEW t \in Threads, StorePlainFails(t) PROVE TypeOK'
      BY <2>17, KeyringTyped, ProcOfAssumption DEF TypeOK, StorePlainFails, Goto, Pcs, Critical, Ops, Slots
    <2>18. ASSUME NEW t \in Threads, PurgeRefreshable(t) PROVE TypeOK'
      BY <2>18, KeyringTyped, ProcOfAssumption DEF TypeOK, PurgeRefreshable, Goto, KeyringDelete, Pcs, Critical, Ops, Slots
    <2>19. ASSUME NEW t \in Threads, StoreRefreshable(t) PROVE TypeOK'
      BY <2>19, KeyringTyped, ProcOfAssumption DEF TypeOK, StoreRefreshable, Goto, Pcs, Critical, Ops, Slots
    <2>20. ASSUME NEW t \in Threads, StoreRefreshableFails(t) PROVE TypeOK'
      BY <2>20, KeyringTyped, ProcOfAssumption DEF TypeOK, StoreRefreshableFails, Goto, Pcs, Critical, Ops, Slots
    <2>21. ASSUME NEW t \in Threads, PurgePlain(t) PROVE TypeOK'
      BY <2>21, KeyringTyped, ProcOfAssumption DEF TypeOK, PurgePlain, Goto, KeyringDelete, Pcs, Critical, Ops, Slots
    <2>22. ASSUME NEW t \in Threads, DropRefreshable(t) PROVE TypeOK'
      BY <2>22, KeyringTyped, ProcOfAssumption DEF TypeOK, DropRefreshable, Goto, KeyringDelete, Pcs, Critical, Ops, Slots
    <2>23. ASSUME NEW t \in Threads, DropPlain(t) PROVE TypeOK'
      BY <2>23, KeyringTyped, ProcOfAssumption DEF TypeOK, DropPlain, Goto, KeyringDelete, Pcs, Critical, Ops, Slots
    <2>24. ASSUME LateLands PROVE TypeOK'
      BY <2>24 DEF TypeOK, LateLands
    <2>25. ASSUME NEW p \in Procs, Crash(p) PROVE TypeOK'
      <3>1. \A t \in Threads : Stranded(t) \subseteq Nat
        BY DEF Stranded, TypeOK, Cred
      <3>2. orphaned' \subseteq Nat
        BY <2>25, <3>1 DEF TypeOK, Crash
      <3> QED
        BY <2>25, <3>2 DEF TypeOK, Crash, Pcs, Ops
    <2>26. CASE Expire
      BY <2>26 DEF TypeOK, Expire, Slots, Cred, Life
    <2>27. CASE Revoke
      BY <2>27 DEF TypeOK, Revoke
    <2> QED
      BY <2>0, <2>1, <2>2, <2>3, <2>4, <2>5, <2>6, <2>7, <2>8, <2>9, <2>10, <2>11, <2>12, <2>13, <2>14, <2>15, <2>16, <2>17, <2>18, <2>19, <2>20, <2>21, <2>22, <2>23, <2>24, <2>25, <2>26, <2>27
         DEF Next, Entering, Refreshing, Exchanging, Storing, Dropping
  <1> QED
    BY <1>1, <1>2, PTL DEF Spec

-----------------------------------------------------------------------------
(* What the locks give without any condition: the file lock may be given   *)
(* up, keyring calls may land late, processes may die.                     *)

Inside(t) == pc[t] \in Critical

(* Each lock names the call that has it, and is given back when that call  *)
(* ends.  A refresh that removes a credential has the file lock.           *)
HoldInv ==
    \A t \in Threads :
        /\ Inside(t) \/ pc[t] = "flock" <=> refreshMu[ProcOf[t]] = t
        /\ t \in lockHeld <=> flock = t
        /\ t \in lockHeld => Inside(t)
        /\ op[t] = "refresh" /\ pc[t] \in {"dropRefreshable", "dropPlain"} => t \in lockHeld

MutexInv == \A p \in Procs : refreshMu[p] # NoThread => ProcOf[refreshMu[p]] = p

(* Call u has the lock that call t waits for.                              *)
Blocks(u, t) ==
    \/ pc[t] = "mutex" /\ refreshMu[ProcOf[t]] = u
    \/ pc[t] = "flock" /\ flock = u

(* A lock that is waited for is held by a call that is further on: by one  *)
(* of the same process at the file lock or past it, or by one past both    *)
(* locks, which waits for none.                                            *)
LocksAreOrdered ==
    \A t, u \in Threads : Blocks(u, t) =>
        \/ pc[t] = "mutex" /\ ProcOf[u] = ProcOf[t] /\ (Inside(u) \/ pc[u] = "flock")
        \/ pc[t] = "flock" /\ Inside(u)

(* Two calls of one process are never past the mutex together.             *)
OneCallPerProcess ==
    \A t, u \in Threads :
        ProcOf[t] = ProcOf[u] /\ Inside(t) /\ (Inside(u) \/ pc[u] = "flock") => t = u

(* While a rejected refresh removes a credential, no other call has the    *)
(* file lock.                                                              *)
RemovalIsExclusive ==
    \A t, u \in Threads :
        /\ op[t] = "refresh" /\ pc[t] \in {"dropRefreshable", "dropPlain"}
        /\ u \in lockHeld
        => t = u

LEMMA InitHolds == Init => HoldInv /\ MutexInv
  BY ProcOfAssumption, NoThreadAssumption DEF Init, HoldInv, MutexInv, Inside, Critical

(* Every step hands the locks on as the code does.                         *)
LEMMA NextHolds ==
    ASSUME TypeOK, HoldInv, MutexInv, [Next]_vars
    PROVE  HoldInv' /\ MutexInv'
  <1> USE ProcOfAssumption, NoThreadAssumption
      DEF store, server, locks, call, history, TypeOK, HoldInv, MutexInv, Inside, Critical
  <1>0. CASE UNCHANGED vars
    BY <1>0 DEF vars
  <1>1. ASSUME NEW t \in Threads, NEW o \in Ops, Begin(t, o) PROVE HoldInv' /\ MutexInv'
    BY <1>1 DEF Begin, Goto
  <1>2. ASSUME NEW t \in Threads, BeginRefresh(t) \/ BeginLogin(t)
                                    \/ BeginLoginRefreshable(t) \/ BeginLogout(t)
        PROVE HoldInv' /\ MutexInv'
    BY <1>1, <1>2 DEF BeginRefresh, BeginLogin, BeginLoginRefreshable, BeginLogout, Ops
  <1>3. ASSUME NEW t \in Threads, LockMutex(t) PROVE HoldInv' /\ MutexInv'
    BY <1>3 DEF LockMutex, Goto
  <1>4. ASSUME NEW t \in Threads, LockFile(t) PROVE HoldInv' /\ MutexInv'
    BY <1>4 DEF LockFile, Goto, Reload, FirstStep
  <1>5. ASSUME NEW t \in Threads, ProceedWithoutLock(t) PROVE HoldInv' /\ MutexInv'
    BY <1>5 DEF ProceedWithoutLock, Goto, Reload, FirstStep
  <1>6. ASSUME NEW t \in Threads, Unlock(t) PROVE HoldInv' /\ MutexInv'
    BY <1>6 DEF Unlock, Goto
  <1>7. ASSUME NEW t \in Threads, Refreshing(t) PROVE HoldInv' /\ MutexInv'
    BY <1>7 DEF Refreshing, Reread, Persist, PersistFails, Goto
  <1>8. ASSUME NEW t \in Threads, Exchanging(t) PROVE HoldInv' /\ MutexInv'
    BY <1>8 DEF Exchanging, ServerRotates, ServerKeepsToken, ServerRejects, ExchangeFails, Goto
  <1>9. ASSUME NEW t \in Threads, Storing(t) PROVE HoldInv' /\ MutexInv'
    BY <1>9 DEF Storing, StorePlain, StorePlainFails, PurgeRefreshable, StoreRefreshable,
                StoreRefreshableFails, PurgePlain, Goto
  <1>10. ASSUME NEW t \in Threads, Dropping(t) PROVE HoldInv' /\ MutexInv'
    <2>1. CASE DropRefreshable(t)
      BY <2>1 DEF DropRefreshable, Goto
    <2>2. CASE DropPlain(t)
      <3>1. Goto(t, "dropPlain", "leave") /\ UNCHANGED <<locks, op, lockHeld>>
        BY <2>2 DEF DropPlain
      <3> QED
        BY <3>1 DEF Goto
    <2> QED
      BY <1>10, <2>1, <2>2 DEF Dropping
  <1>11. ASSUME NEW p \in Procs, Crash(p) PROVE HoldInv' /\ MutexInv'
    BY <1>11 DEF Crash
  <1>12. ASSUME LateLands \/ Expire \/ Revoke PROVE HoldInv' /\ MutexInv'
    BY <1>12 DEF LateLands, Expire, Revoke
  <1> QED
    BY <1>0, <1>2, <1>3, <1>4, <1>5, <1>6, <1>7, <1>8, <1>9, <1>10, <1>11, <1>12
       DEF Next, Entering

LEMMA SpecHolds == Spec => [](HoldInv /\ MutexInv)
  <1>1. TypeOK /\ HoldInv /\ MutexInv /\ [Next]_vars => (HoldInv /\ MutexInv)'
    BY NextHolds
  <1> QED
    BY <1>1, InitHolds, TypeCorrect, PTL DEF Spec

(* Calls that wait for each other's locks cannot form a circle: the mutex  *)
(* comes before the file lock in every call, logins and logouts included.  *)
THEOREM NoLockCycle == Spec => []LocksAreOrdered
  <1>1. TypeOK /\ HoldInv /\ MutexInv => LocksAreOrdered
    BY ProcOfAssumption, NoThreadAssumption
       DEF TypeOK, HoldInv, MutexInv, LocksAreOrdered, Blocks
  <1> QED
    BY <1>1, SpecHolds, TypeCorrect, PTL

(* refreshMu keeps the goroutines of a process apart even after the file   *)
(* lock has been given up.                                                 *)
THEOREM MutexSeparatesGoroutines == Spec => []OneCallPerProcess
  <1>1. HoldInv => OneCallPerProcess
    BY DEF HoldInv, OneCallPerProcess
  <1> QED
    BY <1>1, SpecHolds, PTL

(* The removal after a rejection (refreshable.go:432-440) is under the     *)
(* file lock, whatever other calls have proceeded without it.              *)
THEOREM RemovalHasTheLock == Spec => []RemovalIsExclusive
  <1>1. HoldInv => RemovalIsExclusive
    BY DEF HoldInv, RemovalIsExclusive
  <1> QED
    BY <1>1, SpecHolds, PTL

(* How far a call is from its end.                                         *)
StepsLeft(s) ==
    CASE s = "mutex" -> 7  [] s = "flock" -> 6  [] s = "reread" -> 5
      [] s = "present" -> 4
      [] s \in {"dropRefreshable", "storePlain", "storeRefreshable"} -> 3
      [] s \in {"answered", "dropPlain", "purgeRefreshable", "purgePlain"} -> 2
      [] s = "leave" -> 1
      [] s = "idle" -> 0

(* A call never goes back: not after a rejection, a lost lock, a failed    *)
(* store or a reload that failed.                                          *)
CallsAdvance ==
    [][\A t \in Threads : pc[t] # "idle" /\ pc'[t] # pc[t] =>
           StepsLeft(pc'[t]) < StepsLeft(pc[t])]_vars

(* Every call is over after at most seven steps of its own, whatever the   *)
(* other calls do.  What can keep it from returning is one step that does  *)
(* not end: its own request, or that of a call which has the lock it waits *)
(* for (NoLockCycle).                                                      *)
THEOREM EveryCallAdvances == Spec => CallsAdvance
  <1> USE DEF store, server, locks, call, history, StepsLeft
  <1>1. ASSUME TypeOK, [Next]_vars, NEW t \in Threads, pc[t] # "idle", pc'[t] # pc[t]
        PROVE  StepsLeft(pc'[t]) < StepsLeft(pc[t])
    <2> USE <1>1 DEF TypeOK, Goto, Pcs, Critical
    <2>0. ~UNCHANGED vars
      BY DEF vars
    <2>1. ASSUME NEW u \in Threads, BeginRefresh(u) \/ BeginLogin(u)
                                      \/ BeginLoginRefreshable(u) \/ BeginLogout(u)
          PROVE FALSE
      BY <2>1 DEF BeginRefresh, BeginLogin, BeginLoginRefreshable, BeginLogout, Begin
    <2>2. ASSUME NEW u \in Threads, LockMutex(u) \/ Entering(u) \/ Unlock(u)
          PROVE StepsLeft(pc'[t]) < StepsLeft(pc[t])
      BY <2>2 DEF LockMutex, Entering, LockFile, ProceedWithoutLock, Reload, FirstStep, Unlock
    <2>3. ASSUME NEW u \in Threads, Refreshing(u) \/ Exchanging(u)
          PROVE StepsLeft(pc'[t]) < StepsLeft(pc[t])
      BY <2>3 DEF Refreshing, Reread, Persist, PersistFails, Exchanging, ServerRotates,
                  ServerKeepsToken, ServerRejects, ExchangeFails
    <2>4. ASSUME NEW u \in Threads, Storing(u)
          PROVE StepsLeft(pc'[t]) < StepsLeft(pc[t])
      BY <2>4 DEF Storing, StorePlain, StorePlainFails, PurgeRefreshable, StoreRefreshable,
                  StoreRefreshableFails, PurgePlain
    <2>5. ASSUME NEW u \in Threads, Dropping(u)
          PROVE StepsLeft(pc'[t]) < StepsLeft(pc[t])
      <3>1. Goto(u, "dropRefreshable", "dropPlain") \/ Goto(u, "dropPlain", "leave")
        BY <2>5 DEF Dropping, DropRefreshable, DropPlain
      <3> QED
        BY <3>1
    <2>6. ASSUME NEW p \in Procs, Crash(p) PROVE StepsLeft(pc'[t]) < StepsLeft(pc[t])
      BY <2>6 DEF Crash
    <2>7. ~(LateLands \/ Expire \/ Revoke)
      BY DEF LateLands, Expire, Revoke
    <2> QED
      BY <2>0, <2>1, <2>2, <2>3, <2>4, <2>5, <2>6, <2>7 DEF Next
  <1>2. TypeOK /\ [Next]_vars =>
          [\A t \in Threads : pc[t] # "idle" /\ pc'[t] # pc[t] =>
              StepsLeft(pc'[t]) < StepsLeft(pc[t])]_vars
    BY <1>1
  <1> QED
    BY <1>2, TypeCorrect, PTL DEF Spec, CallsAdvance

-----------------------------------------------------------------------------
(* A refresh that meets nobody between the locks, again without any        *)
(* condition on the others: they may be past the locks with it as soon as  *)
(* the file lock is given up, but then it is among the disturbed.          *)

Removing(t) == op[t] = "refresh" /\ pc[t] \in {"dropRefreshable", "dropPlain"}

(* Only a refresh exchanges a credential.                                  *)
OpInv ==
    \A t \in Threads : pc[t] \in {"reread", "present", "answered"} => op[t] = "refresh"

(* A refresh that has company between the locks is recorded.               *)
MeetInv ==
    \A t, u \in Threads :
        t # u /\ op[t] = "refresh" /\ Working(t) /\ Working(u) => t \in disturbed

(* Every credential, wherever it is, is older than the server's counter.   *)
AgeInv ==
    /\ \A n \in valid : n # 0 /\ n < next
    /\ Stored.rt < next
    /\ \A w \in late : w.cred.rt < next
    /\ \A t \in Threads : current[t].rt < next /\ renewed[t].rt < next

(* Undisturbed, a refresh finds the store as its re-read left it, and      *)
(* removes what the server has rejected.                                   *)
AloneInv ==
    \A t \in Threads \ disturbed :
        /\ Renewing(t) => current[t] = Stored /\ Stored.life # "fresh"
        /\ Removing(t) => Stored.rt \notin valid
        /\ Renewing(t) \/ Removing(t) => t \in beside \/ keyring["plain"] = NoCred

CompanyInv == OpInv /\ MeetInv /\ AgeInv /\ AloneInv

LEMMA InitCompany == Init => CompanyInv
  BY DEF Init, CompanyInv, OpInv, MeetInv, AgeInv, AloneInv, Renewing, Removing, Working,
         Stored, Critical, Slots, NoCred

(* What a call does to the keyring between the locks, and where it goes.   *)
LEMMA StoringSteps ==
    ASSUME TypeOK, NEW t \in Threads, Storing(t)
    PROVE  \E from \in {"storePlain", "purgeRefreshable", "storeRefreshable", "purgePlain"},
              to \in {"purgeRefreshable", "purgePlain", "leave"},
              k \in Slots, c \in {NoCred, PlainCred, renewed[t]} :
                /\ pc[t] = from /\ pc' = [pc EXCEPT ![t] = to]
                /\ KeyringWrite(k, c) \/ KeyringFails(k, c)
                /\ UNCHANGED <<server, op, current, renewed, disturbed, beside>>
  BY DEF Storing, StorePlain, StorePlainFails, PurgeRefreshable, StoreRefreshable,
         StoreRefreshableFails, PurgePlain, Goto, KeyringDelete, Slots, server, locks, call

(* A call that writes to the keyring has no undisturbed company, and if it *)
(* is a refresh it is past its exchange.                                   *)
LEMMA StoreStep ==
    ASSUME TypeOK, CompanyInv, NEW t \in Threads,
           NEW k \in Slots, NEW c \in {NoCred, PlainCred, renewed[t]},
           NEW from \in {"answered", "storePlain", "purgeRefreshable", "storeRefreshable",
                         "purgePlain", "dropRefreshable", "dropPlain"},
           NEW to \in {"purgeRefreshable", "purgePlain", "dropPlain", "leave"},
           pc[t] = from, pc' = [pc EXCEPT ![t] = to],
           to = "dropPlain" => from = "dropRefreshable" /\ k = "refreshable" /\ c = NoCred,
           KeyringWrite(k, c) \/ KeyringFails(k, c),
           UNCHANGED <<server, op, current, renewed, disturbed, beside>>
    PROVE  CompanyInv'
  <1> USE DEF server, TypeOK, CompanyInv, OpInv, MeetInv, AgeInv, AloneInv, Renewing, Removing,
              Working, Stored, Critical, Slots
  <1>1. \A u \in Threads \ {t} : pc'[u] = pc[u]
    OBVIOUS
  <1>2. OpInv' /\ MeetInv'
    BY <1>1
  <1>3. c.rt < next /\ (c = NoCred => c.rt = 0)
    BY DEF NoCred, PlainCred
  <1>4. AgeInv'
    <2>1. Stored'.rt < next
      BY <1>3 DEF KeyringWrite, KeyringFails
    <2>2. \A w \in late' : w.cred.rt < next
      BY <1>3 DEF KeyringWrite, KeyringFails
    <2> QED
      BY <2>1, <2>2
  <1>5. \A u \in Threads \ {t} : Renewing(u) \/ Removing(u) => u \in disturbed
    OBVIOUS
  <1>6. ASSUME Removing(t)' /\ t \notin disturbed
        PROVE  Stored'.rt \notin valid /\ (t \in beside \/ keyring'["plain"] = NoCred)
    <2>1. from = "dropRefreshable" /\ k = "refreshable" /\ c = NoCred /\ Removing(t)
      BY <1>6
    <2>2. keyring'["plain"] = keyring["plain"] /\ (Stored' = Stored \/ Stored' = NoCred)
      BY <2>1 DEF KeyringWrite, KeyringFails
    <2> QED
      BY <1>3, <1>6, <2>1, <2>2
  <1>7. AloneInv'
    BY <1>1, <1>5, <1>6
  <1> QED
    BY <1>2, <1>4, <1>7

(* Every step keeps each part; a step that writes to the store is that of  *)
(* a call between the locks, or of an abandoned keyring call.              *)
LEMMA NextCompany ==
    ASSUME TypeOK, CompanyInv, [Next]_vars
    PROVE  CompanyInv'
  <1> USE DEF store, server, locks, call, history, TypeOK, CompanyInv, OpInv, MeetInv, AgeInv,
              AloneInv, Renewing, Removing, Working, Stored, Critical, Slots, Cred
  <1>0. CASE UNCHANGED vars
    BY <1>0 DEF vars
  <1>1. ASSUME NEW t \in Threads, BeginRefresh(t) \/ BeginLogin(t) \/ BeginLogout(t)
        PROVE CompanyInv'
    <2>1. PICK o \in Ops : Begin(t, o)
      BY <1>1 DEF BeginRefresh, BeginLogin, BeginLogout, Ops
    <2>2. UNCHANGED <<valid, next, renewed>>
      BY <1>1 DEF BeginRefresh, BeginLogin, BeginLogout
    <2>3. OpInv'
      BY <2>1 DEF Begin, Goto
    <2>4. MeetInv'
      BY <2>1 DEF Begin, Goto
    <2>5. AgeInv'
      BY <2>1, <2>2 DEF Begin
    <2>6. AloneInv'
      BY <2>1, <2>2 DEF Begin, Goto
    <2> QED
      BY <2>3, <2>4, <2>5, <2>6
  <1>2. ASSUME NEW t \in Threads, BeginLoginRefreshable(t) PROVE CompanyInv'
    BY <1>2 DEF BeginLoginRefreshable, Begin, Goto, IssueNext, Issue
  <1>3. ASSUME NEW t \in Threads, LockMutex(t) PROVE CompanyInv'
    BY <1>3 DEF LockMutex, Goto
  <1>4. ASSUME NEW t \in Threads, Entering(t) PROVE CompanyInv'
    <2>1. /\ \/ pc' = [pc EXCEPT ![t] = FirstStep(op[t])] /\ MeetsOthers(t)
             \/ pc' = [pc EXCEPT ![t] = "leave"] /\ UNCHANGED disturbed
          /\ pc[t] = "flock"
          /\ UNCHANGED <<keyring, late, server, op, current, renewed, beside>>
      BY <1>4 DEF Entering, LockFile, ProceedWithoutLock, Reload, Goto
    <2>2. /\ \A u \in Threads \ {t} : pc'[u] = pc[u]
          /\ op[t] = "refresh" => pc'[t] \in {"reread", "leave"}
          /\ op[t] # "refresh" =>
                pc'[t] \in {"storePlain", "storeRefreshable", "dropRefreshable", "leave"}
          /\ disturbed \subseteq disturbed'
      BY <2>1 DEF FirstStep, MeetsOthers
    <2>3. OpInv'
      BY <2>1, <2>2
    <2>4. MeetInv'
      BY <2>1, <2>2 DEF MeetsOthers
    <2>5. AgeInv'
      BY <2>1
    <2>6. AloneInv'
      BY <2>1, <2>2
    <2> QED
      BY <2>3, <2>4, <2>5, <2>6
  <1>5. ASSUME NEW t \in Threads, Unlock(t) PROVE CompanyInv'
    BY <1>5 DEF Unlock, Goto, NoCred
  <1>6. ASSUME NEW t \in Threads, Reread(t) PROVE CompanyInv'
    <2>1. OpInv'
      BY <1>6 DEF Reread, Goto, accessTokenNeedsRefresh
    <2>2. MeetInv'
      BY <1>6 DEF Reread, Goto, accessTokenNeedsRefresh
    <2>3. AgeInv'
      BY <1>6 DEF Reread, Goto, accessTokenNeedsRefresh
    <2>4. AloneInv'
      BY <1>6 DEF Reread, Goto, accessTokenNeedsRefresh
    <2> QED
      BY <2>1, <2>2, <2>3, <2>4
  <1>7. ASSUME NEW t \in Threads, Persist(t) \/ PersistFails(t) PROVE CompanyInv'
    <2>1. /\ pc[t] = "answered" /\ pc' = [pc EXCEPT ![t] = "leave"]
          /\ KeyringWrite("refreshable", renewed[t]) \/ KeyringFails("refreshable", renewed[t])
          /\ UNCHANGED <<server, op, current, renewed, disturbed, beside>>
      BY <1>7 DEF Persist, PersistFails, Goto
    <2> QED
      BY <2>1, StoreStep
  <1>8. ASSUME NEW t \in Threads, ServerRotates(t) PROVE CompanyInv'
    BY <1>8 DEF ServerRotates, Goto, IssueNext, Issue
  <1>9. ASSUME NEW t \in Threads, ServerKeepsToken(t) PROVE CompanyInv'
    BY <1>9 DEF ServerKeepsToken, Goto, Issue
  <1>10. ASSUME NEW t \in Threads, ServerRejects(t) \/ ExchangeFails(t) PROVE CompanyInv'
    <2>1. OpInv'
      BY <1>10 DEF ServerRejects, ExchangeFails, Goto
    <2>2. MeetInv'
      BY <1>10 DEF ServerRejects, ExchangeFails, Goto
    <2>3. AgeInv'
      BY <1>10 DEF ServerRejects, ExchangeFails, Goto
    <2>4. AloneInv'
      BY <1>10 DEF ServerRejects, ExchangeFails, Goto
    <2> QED
      BY <2>1, <2>2, <2>3, <2>4
  <1>11. ASSUME NEW t \in Threads, Storing(t) PROVE CompanyInv'
    <2>1. PICK from \in {"storePlain", "purgeRefreshable", "storeRefreshable", "purgePlain"},
               to \in {"purgeRefreshable", "purgePlain", "leave"},
               k \in Slots, c \in {NoCred, PlainCred, renewed[t]} :
            /\ pc[t] = from /\ pc' = [pc EXCEPT ![t] = to]
            /\ KeyringWrite(k, c) \/ KeyringFails(k, c)
            /\ UNCHANGED <<server, op, current, renewed, disturbed, beside>>
      BY <1>11, StoringSteps
    <2>2. /\ from \in {"answered", "storePlain", "purgeRefreshable", "storeRefreshable",
                      "purgePlain", "dropRefreshable", "dropPlain"}
          /\ to \in {"purgeRefreshable", "purgePlain", "dropPlain", "leave"}
          /\ to # "dropPlain"
      OBVIOUS
    <2> HIDE DEF server, TypeOK, CompanyInv
    <2> QED
      BY <2>1, <2>2, StoreStep
  <1>12. ASSUME NEW t \in Threads, DropRefreshable(t) PROVE CompanyInv'
    <2>1. /\ pc[t] = "dropRefreshable" /\ pc' = [pc EXCEPT ![t] = "dropPlain"]
          /\ KeyringWrite("refreshable", NoCred) \/ KeyringFails("refreshable", NoCred)
          /\ UNCHANGED <<server, op, current, renewed, disturbed, beside>>
      BY <1>12 DEF DropRefreshable, Goto, KeyringDelete
    <2> QED
      BY <2>1, StoreStep
  <1>16. ASSUME NEW t \in Threads, DropPlain(t) PROVE CompanyInv'
    <2>1. /\ pc[t] = "dropPlain" /\ pc' = [pc EXCEPT ![t] = "leave"]
          /\ KeyringWrite("plain", NoCred) \/ KeyringFails("plain", NoCred)
          /\ UNCHANGED <<server, op, current, renewed, disturbed, beside>>
      BY <1>16 DEF DropPlain, Goto, KeyringDelete
    <2> QED
      BY <2>1, StoreStep
  <1>13. CASE LateLands
    BY <1>13 DEF LateLands
  <1>14. ASSUME NEW p \in Procs, Crash(p) PROVE CompanyInv'
    BY <1>14 DEF Crash, NoCred
  <1>15. CASE Expire \/ Revoke
    BY <1>15 DEF Expire, Revoke
  <1> QED
    BY <1>0, <1>1, <1>2, <1>3, <1>4, <1>5, <1>6, <1>7, <1>8, <1>9, <1>10, <1>11, <1>12, <1>13, <1>14, <1>15, <1>16
       DEF Next, Refreshing, Exchanging, Dropping

LEMMA SpecCompany == Spec => []CompanyInv
  <1>1. TypeOK /\ CompanyInv /\ [Next]_vars => CompanyInv'
    BY NextCompany
  <1> QED
    BY <1>1, InitCompany, TypeCorrect, PTL DEF Spec

(* The removal after a rejection (refreshable.go:432-440, 478-480) is      *)
(* under the file lock and deletes nothing stored since the re-read, also  *)
(* when other calls go without the file lock.                              *)
THEOREM RemovalIsSafe == Spec => []RemovalSafe
  <1>1. HoldInv /\ CompanyInv => RemovalSafe
    BY DEF HoldInv, CompanyInv, AloneInv, RemovalSafe, Removing, Stored
  <1> QED
    BY <1>1, SpecHolds, SpecCompany, PTL

(* A refresh replaces exactly the credential it exchanged, also when other *)
(* calls go without the file lock.                                         *)
THEOREM RefreshReplacesItsOwn == Spec => NoLostUpdate
  <1>1. CompanyInv /\ [Next]_vars =>
          [\A t \in Threads \ disturbed :
              Persist(t) => keyring["refreshable"] = current[t]]_vars
    BY DEF CompanyInv, AloneInv, Renewing, Stored, Persist, Goto
  <1> QED
    BY <1>1, SpecCompany, PTL DEF Spec, NoLostUpdate

-----------------------------------------------------------------------------
(* Two calls are never between the locks at once.                          *)
LEMMA MutualExclusion ==
    ASSUME Serialized, TypeOK, LockInv, NEW t \in Threads, NEW u \in Threads,
           pc[t] \in Critical, pc[u] \in Critical
    PROVE  t = u
  BY ProcOfAssumption DEF Serialized, LockInv, TypeOK

LEMMA NoneLate == MaxLate = 0 => ~(Cardinality({}) < MaxLate)
  BY FS_EmptySet

LEMMA InitInv == Init => Inv
  BY DEF Init, Inv, LockInv, LateInv, TokenInv, CurrentInv, HandInv, StoredInv,
         AnswerInv, RejectedInv, LogoutWins, Stored, Renewing, InHand, Critical,
         Slots, NoCred

(* The re-read establishes CurrentInv for its call.                        *)
LEMMA RereadCurrent ==
    ASSUME TypeOK, Inv, NEW t \in Threads, Reread(t)
    PROVE  CurrentInv'
  <1>1. Stored' = Stored
    BY DEF Reread, store, Stored
  <1>2. \A u \in Threads \ {t} : Renewing(u)' = Renewing(u) /\ current'[u] = current[u]
    BY DEF Reread, Goto, TypeOK, Renewing
  <1>3. Renewing(t)' =>
          current'[t] = Stored /\ Stored # NoCred /\ Stored.life # "fresh"
    BY DEF Reread, Goto, TypeOK, Renewing, Stored, accessTokenNeedsRefresh
  <1> QED
    BY <1>1, <1>2, <1>3 DEF Inv, CurrentInv

(* A credential that stops being in hand is the stored one from then on.   *)
LEMMA StoreRefreshableHand ==
    ASSUME TypeOK, Inv, NEW t \in Threads, StoreRefreshable(t)
    PROVE  HandInv'
  <1>1. Stored'.rt = renewed[t].rt
    BY DEF StoreRefreshable, KeyringWrite, Stored, TypeOK, Slots
  <1>2. \A u \in Threads : InHand(u)' => InHand(u) /\ u # t
    BY DEF InHand, StoreRefreshable, Goto, TypeOK, call
  <1>3. \A u \in Threads : pc'[u] = "answered" => pc[u] = "answered"
    BY DEF StoreRefreshable, Goto, TypeOK
  <1>4. InHand(t)
    BY DEF InHand, StoreRefreshable, Goto
  <1> QED
    BY <1>1, <1>2, <1>3, <1>4 DEF Inv, HandInv, StoreRefreshable, call, server

(* It is unspent when it is stored.                                        *)
LEMMA StoreRefreshableStored ==
    ASSUME TypeOK, Inv, NEW t \in Threads, StoreRefreshable(t)
    PROVE  StoredInv'
  <1>1. Stored'.rt = renewed[t].rt
    BY DEF StoreRefreshable, KeyringWrite, Stored, TypeOK, Slots
  <1>2. InHand(t)
    BY DEF InHand, StoreRefreshable, Goto
  <1> QED
    BY <1>1, <1>2 DEF Inv, HandInv, StoredInv, StoreRefreshable, server

(* A rotation spends a valid token and draws one nobody has.               *)
LEMMA ServerRotatesToken ==
    ASSUME TypeOK, Inv, NEW t \in Threads, ServerRotates(t)
    PROVE  TokenInv'
  <1>1. next' = next + 1 /\ current' = current /\ Stored' = Stored
    BY DEF ServerRotates, IssueNext, store, Stored
  <1>2. \A u \in Threads : renewed'[u].rt = IF u = t THEN next ELSE renewed[u].rt
    BY DEF ServerRotates, IssueNext, Issue, TypeOK
  <1>3. /\ current[t].rt \in valid
        /\ valid' = (valid \ {current[t].rt}) \cup {next}
        /\ spent' = spent \cup {current[t].rt}
    BY DEF ServerRotates
  <1>4. /\ next \in Nat \ {0} /\ Stored.rt \in Nat
        /\ valid \subseteq Nat /\ spent \subseteq Nat
        /\ \A u \in Threads : current[u].rt \in Nat /\ renewed[u].rt \in Nat
    BY DEF TypeOK, Cred, Stored, Slots
  <1>5. /\ \A n \in valid : n # 0 /\ n < next
        /\ \A n \in spent : n # 0 /\ n < next
        /\ valid \cap spent = {}
    BY DEF Inv, TokenInv
  <1>6. next < next' /\ next' \in Nat
    BY <1>1, <1>4
  <1>7. \A n \in valid' \cup spent' : n # 0 /\ n < next'
    <2> SUFFICES ASSUME NEW n \in valid' \cup spent' PROVE n # 0 /\ n < next'
      OBVIOUS
    <2>1. n = next \/ n \in valid \/ n \in spent
      BY <1>3
    <2>2. n \in Nat
      BY <2>1, <1>4
    <2> QED
      BY <2>1, <2>2, <1>4, <1>5, <1>6
  <1>8. valid' \cap spent' = {}
    <2>1. next \notin valid /\ next \notin spent
      BY <1>4, <1>5
    <2> QED
      BY <2>1, <1>3, <1>5
  <1>9. Stored'.rt < next'
    BY <1>1, <1>4 DEF Inv, TokenInv
  <1>10. \A u \in Threads : current'[u].rt < next' /\ renewed'[u].rt < next'
    BY <1>1, <1>2, <1>4 DEF Inv, TokenInv
  <1> QED
    BY <1>7, <1>8, <1>9, <1>10 DEF TokenInv

(* Every step keeps the invariant.                                         *)
LEMMA NextInv ==
    ASSUME Serialized, MaxLate = 0, TypeOK, Inv, [Next]_vars
    PROVE  Inv'
  <1>a. \A u, v \in Threads : pc[u] \in Critical /\ pc[v] \in Critical => u = v
    BY MutualExclusion DEF Inv
  <1> USE DEF store, server, locks, call, history, TypeOK, Inv, LockInv, LateInv,
              TokenInv, CurrentInv, HandInv, StoredInv, AnswerInv, RejectedInv,
              LogoutWins, Stored, Renewing, InHand, Critical, Slots
  <1>0. CASE UNCHANGED vars
    BY <1>0 DEF vars
  <1>1. ASSUME NEW t \in Threads, BeginRefresh(t) PROVE Inv'
    BY <1>1, <1>a, ProcOfAssumption, NoThreadAssumption DEF BeginRefresh, Goto, Begin
  <1>2. ASSUME NEW t \in Threads, BeginLogin(t) PROVE Inv'
    BY <1>2, <1>a, ProcOfAssumption, NoThreadAssumption DEF BeginLogin, Goto, Begin
  <1>3. ASSUME NEW t \in Threads, BeginLoginRefreshable(t) PROVE Inv'
    BY <1>3, <1>a, ProcOfAssumption, NoThreadAssumption DEF BeginLoginRefreshable, Goto, Begin, IssueNext, Issue, Cred
  <1>4. ASSUME NEW t \in Threads, BeginLogout(t) PROVE Inv'
    BY <1>4, <1>a, ProcOfAssumption, NoThreadAssumption DEF BeginLogout, Goto, Begin
  <1>5. ASSUME NEW t \in Threads, LockMutex(t) PROVE Inv'
    <2>1. LockInv'
      BY <1>5, <1>a, ProcOfAssumption, NoThreadAssumption DEF LockMutex, Goto
    <2>2. LateInv'
      BY <1>5, <1>a, ProcOfAssumption, NoThreadAssumption DEF LockMutex, Goto
    <2>3. TokenInv'
      BY <1>5, <1>a, ProcOfAssumption, NoThreadAssumption DEF LockMutex, Goto
    <2>4. CurrentInv'
      BY <1>5, <1>a, ProcOfAssumption, NoThreadAssumption DEF LockMutex, Goto
    <2>5. HandInv'
      BY <1>5, <1>a, ProcOfAssumption, NoThreadAssumption DEF LockMutex, Goto
    <2>6. StoredInv'
      BY <1>5, <1>a, ProcOfAssumption, NoThreadAssumption DEF LockMutex, Goto
    <2>7. AnswerInv'
      BY <1>5, <1>a, ProcOfAssumption, NoThreadAssumption DEF LockMutex, Goto
    <2>8. RejectedInv'
      BY <1>5, <1>a, ProcOfAssumption, NoThreadAssumption DEF LockMutex, Goto
    <2>9. LogoutWins'
      BY <1>5, <1>a, ProcOfAssumption, NoThreadAssumption DEF LockMutex, Goto
    <2> QED
      BY <2>1, <2>2, <2>3, <2>4, <2>5, <2>6, <2>7, <2>8, <2>9
  <1>6. ASSUME NEW t \in Threads, LockFile(t) PROVE Inv'
    BY <1>6, <1>a, ProcOfAssumption, NoThreadAssumption DEF LockFile, Goto, Reload, FirstStep
  <1>7. ASSUME NEW t \in Threads, ProceedWithoutLock(t) PROVE Inv'
    BY <1>7, <1>a, ProcOfAssumption, NoThreadAssumption DEF ProceedWithoutLock, Goto, Reload, FirstStep
  <1>8. ASSUME NEW t \in Threads, Unlock(t) PROVE Inv'
    BY <1>8, <1>a, ProcOfAssumption, NoThreadAssumption DEF Unlock, Goto, NoCred
  <1>9. ASSUME NEW t \in Threads, Reread(t) PROVE Inv'
    <2>1. LockInv'
      BY <1>9, <1>a DEF Reread, Goto, NoCred
    <2>2. LateInv'
      BY <1>9, <1>a DEF Reread, Goto, NoCred
    <2>3. TokenInv'
      BY <1>9, <1>a DEF Reread, Goto, NoCred
    <2>4. CurrentInv'
      BY <1>9, RereadCurrent
    <2>5. HandInv'
      BY <1>9, <1>a DEF Reread, Goto, NoCred
    <2>6. StoredInv'
      BY <1>9, <1>a DEF Reread, Goto, NoCred
    <2>7. AnswerInv'
      BY <1>9, <1>a DEF Reread, Goto, NoCred
    <2>8. RejectedInv'
      BY <1>9, <1>a DEF Reread, Goto, NoCred
    <2>9. LogoutWins'
      BY <1>9, <1>a DEF Reread, Goto, NoCred
    <2> QED
      BY <2>1, <2>2, <2>3, <2>4, <2>5, <2>6, <2>7, <2>8, <2>9
  <1>10. ASSUME NEW t \in Threads, Persist(t) PROVE Inv'
    BY <1>10, <1>a DEF Persist, Goto, KeyringWrite, NoCred, Cred
  <1>11. ASSUME NEW t \in Threads, PersistFails(t) PROVE Inv'
    BY <1>11, <1>a, NoneLate DEF PersistFails, Goto, Stranded, KeyringFails
  <1>12. ASSUME NEW t \in Threads, ServerRotates(t) PROVE Inv'
    <2>1. LockInv'
      BY <1>12, <1>a DEF ServerRotates, Goto, IssueNext, Issue, Cred, Stranded
    <2>2. LateInv'
      BY <1>12, <1>a DEF ServerRotates, Goto, IssueNext, Issue, Cred, Stranded
    <2>3. TokenInv'
      BY <1>12, ServerRotatesToken
    <2>4. CurrentInv'
      BY <1>12, <1>a DEF ServerRotates, Goto, IssueNext, Issue, Cred, Stranded
    <2>5. HandInv'
      BY <1>12, <1>a DEF ServerRotates, Goto, IssueNext, Issue, Cred, Stranded
    <2>6. StoredInv'
      BY <1>12, <1>a DEF ServerRotates, Goto, IssueNext, Issue, Cred, Stranded
    <2>7. AnswerInv'
      BY <1>12, <1>a DEF ServerRotates, Goto, IssueNext, Issue, Cred, Stranded
    <2>8. RejectedInv'
      BY <1>12, <1>a DEF ServerRotates, Goto, IssueNext, Issue, Cred, Stranded
    <2>9. LogoutWins'
      BY <1>12, <1>a DEF ServerRotates, Goto, IssueNext, Issue, Cred, Stranded
    <2> QED
      BY <2>1, <2>2, <2>3, <2>4, <2>5, <2>6, <2>7, <2>8, <2>9
  <1>13. ASSUME NEW t \in Threads, ServerKeepsToken(t) PROVE Inv'
    BY <1>13, <1>a DEF ServerKeepsToken, Goto, Issue
  <1>14. ASSUME NEW t \in Threads, ServerRejects(t) PROVE Inv'
    BY <1>14, <1>a DEF ServerRejects, Goto
  <1>15. ASSUME NEW t \in Threads, ExchangeFails(t) PROVE Inv'
    BY <1>15, <1>a DEF ExchangeFails, Goto, Stranded
  <1>16. ASSUME NEW t \in Threads, StorePlain(t) PROVE Inv'
    BY <1>16, <1>a DEF StorePlain, Goto, KeyringWrite, NoCred, Cred, PlainCred
  <1>17. ASSUME NEW t \in Threads, StorePlainFails(t) PROVE Inv'
    BY <1>17, <1>a, NoneLate DEF StorePlainFails, Goto, KeyringFails
  <1>18. ASSUME NEW t \in Threads, PurgeRefreshable(t) PROVE Inv'
    BY <1>18, <1>a, NoneLate DEF PurgeRefreshable, Goto, KeyringDelete, KeyringWrite, KeyringFails, NoCred
  <1>19. ASSUME NEW t \in Threads, StoreRefreshable(t) PROVE Inv'
    <2>1. LockInv'
      BY <1>19, <1>a DEF StoreRefreshable, Goto, KeyringWrite, NoCred, Cred
    <2>2. LateInv'
      BY <1>19, <1>a DEF StoreRefreshable, Goto, KeyringWrite, NoCred, Cred
    <2>3. TokenInv'
      BY <1>19, <1>a DEF StoreRefreshable, Goto, KeyringWrite, NoCred, Cred
    <2>4. CurrentInv'
      BY <1>19, <1>a DEF StoreRefreshable, Goto, KeyringWrite, NoCred, Cred
    <2>5. HandInv'
      BY <1>19, StoreRefreshableHand
    <2>6. StoredInv'
      BY <1>19, StoreRefreshableStored
    <2>7. AnswerInv'
      BY <1>19, <1>a DEF StoreRefreshable, Goto, KeyringWrite, NoCred, Cred
    <2>8. RejectedInv'
      BY <1>19, <1>a DEF StoreRefreshable, Goto, KeyringWrite, NoCred, Cred
    <2>9. LogoutWins'
      BY <1>19, <1>a DEF StoreRefreshable, Goto, KeyringWrite, NoCred, Cred
    <2> QED
      BY <2>1, <2>2, <2>3, <2>4, <2>5, <2>6, <2>7, <2>8, <2>9
  <1>20. ASSUME NEW t \in Threads, StoreRefreshableFails(t) PROVE Inv'
    BY <1>20, <1>a, NoneLate DEF StoreRefreshableFails, Goto, KeyringFails
  <1>21. ASSUME NEW t \in Threads, PurgePlain(t) PROVE Inv'
    BY <1>21, <1>a, NoneLate DEF PurgePlain, Goto, KeyringDelete, KeyringWrite, KeyringFails, NoCred
  <1>22. ASSUME NEW t \in Threads, DropRefreshable(t) PROVE Inv'
    BY <1>22, <1>a, NoneLate DEF DropRefreshable, Goto, KeyringDelete, KeyringWrite, KeyringFails, NoCred
  <1>23. ASSUME NEW t \in Threads, DropPlain(t) PROVE Inv'
    BY <1>23, <1>a, NoneLate DEF DropPlain, Goto, KeyringDelete, KeyringWrite, KeyringFails, NoCred
  <1>24. CASE LateLands
    BY <1>24 DEF LateLands
  <1>25. ASSUME NEW p \in Procs, Crash(p) PROVE Inv'
    BY <1>25, <1>a, ProcOfAssumption, NoThreadAssumption DEF Crash, Stranded, NoCred
  <1>26. CASE Expire
    BY <1>26, <1>a DEF Expire, NoCred, Cred
  <1>27. CASE Revoke
    BY <1>27, <1>a DEF Revoke
  <1> QED
    BY <1>0, <1>1, <1>2, <1>3, <1>4, <1>5, <1>6, <1>7, <1>8, <1>9, <1>10, <1>11, <1>12, <1>13, <1>14, <1>15, <1>16, <1>17, <1>18, <1>19, <1>20, <1>21, <1>22, <1>23, <1>24, <1>25, <1>26, <1>27
       DEF Next, Entering, Refreshing, Exchanging, Storing, Dropping

-----------------------------------------------------------------------------
(* The inductive invariant holds of every serialized behaviour.            *)
LEMMA SpecInv ==
    ASSUME Serialized, MaxLate = 0
    PROVE  Spec => []Inv
  <1>1. TypeOK /\ Inv /\ [Next]_vars => Inv'
    BY NextInv
  <1> QED
    BY <1>1, InitInv, TypeCorrect, PTL DEF Spec

(* No spent refresh token is presented, unless its successor was lost.     *)
THEOREM SingleSpend ==
    ASSUME Serialized, MaxLate = 0
    PROVE  Spec => []NoReplay
  <1>1. TypeOK /\ Inv => NoReplay
    <2> SUFFICES ASSUME TypeOK, Inv, NEW t \in Threads, pc[t] = "present",
                        current[t].rt \in spent
                 PROVE  current[t].rt \in orphaned
      BY DEF NoReplay
    <2>1. current[t] = Stored
      BY DEF Inv, CurrentInv, Renewing
    <2>2. \A u \in Threads : pc[u] # "answered"
      BY MutualExclusion DEF Inv, Critical
    <2> QED
      BY <2>1, <2>2 DEF Inv, StoredInv
  <1> QED
    BY <1>1, SpecInv, TypeCorrect, PTL

(* No refresh puts a credential back after a logout has removed it.        *)
THEOREM LogoutIsFinal ==
    ASSUME Serialized, MaxLate = 0
    PROVE  Spec => []LogoutWins
  BY SpecInv, PTL DEF Inv

(* Then no refresh is ever disturbed: RemovalSafe and NoLostUpdate, proved *)
(* above, exempt none.                                                     *)
THEOREM NoneDisturbed ==
    ASSUME Serialized, MaxLate = 0
    PROVE  Spec => [](disturbed = {})
  <1>1. Init => disturbed = {}
    BY DEF Init
  <1>2. TypeOK /\ Inv /\ [Next]_vars /\ disturbed = {} => disturbed' = {}
    <2> SUFFICES ASSUME TypeOK, Inv, [Next]_vars, disturbed = {} PROVE disturbed' = {}
      OBVIOUS
    <2> USE DEF store, server, locks, call, history
    <2>1. ASSUME NEW t \in Threads, Entering(t) PROVE disturbed' = {}
      <3>1. pc[t] = "flock" /\ (LockFallback \/ flock = NoThread)
        BY <2>1 DEF Entering, LockFile, ProceedWithoutLock, Reload, Goto
      <3>2. \A u \in Threads : ~Working(u)
        BY <3>1, ProcOfAssumption, NoThreadAssumption, FallbackAssumption
           DEF Serialized, Inv, LockInv, TypeOK, Working, Critical
      <3> QED
        BY <2>1, <3>2 DEF Entering, LockFile, ProceedWithoutLock, Reload, MeetsOthers
    <2>2. CASE LateLands
      BY <2>2 DEF LateLands, Inv, LateInv
    <2> QED
      BY <2>1, <2>2
         DEF vars, Next, BeginRefresh, BeginLogin, BeginLoginRefreshable, BeginLogout, Begin,
             LockMutex, Unlock, Refreshing, Reread, Persist, PersistFails, Exchanging,
             ServerRotates, ServerKeepsToken, ServerRejects, ExchangeFails, Storing, StorePlain,
             StorePlainFails, PurgeRefreshable, StoreRefreshable, StoreRefreshableFails,
             PurgePlain, Dropping, DropRefreshable, DropPlain, Crash, Expire, Revoke
  <1> DEFINE None == disturbed = {}
  <1>3. Init => None
    BY <1>1
  <1>4. TypeOK /\ Inv /\ [Next]_vars /\ None => None'
    BY <1>2
  <1> HIDE DEF None
  <1>5. Spec => []None
    BY <1>3, <1>4, SpecInv, TypeCorrect, PTL DEF Spec
  <1> QED
    BY <1>5 DEF None
=============================================================================
