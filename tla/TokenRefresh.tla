---------------------------- MODULE TokenRefresh ----------------------------
(***************************************************************************)
(* The refreshable credential of one user on one host, shared by several   *)
(* gh processes: refreshCredentialForUser, Login, LoginRefreshable and     *)
(* Logout (internal/config) run their read-modify-write of the keyring     *)
(* under withFreshConfigForRefresh, that is under a mutex shared by the    *)
(* goroutines of a process and a file lock shared by the processes, which  *)
(* is given up after a timeout.  The authorization server rotates          *)
(* single-use refresh tokens.                                              *)
(*                                                                         *)
(* One action is one access to shared state: a lock, a keyring item, the   *)
(* token endpoint.  The configuration file is modelled in AccountStore.    *)
(***************************************************************************)
EXTENDS Integers, FiniteSets

CONSTANTS
    Threads,      \* the goroutines that use an AuthConfig
    Procs,        \* the gh processes
    ProcOf,       \* the process of each goroutine
    NoThread,     \* "nobody", the value of a free lock
    MaxToken,     \* bound: how many tokens the server issues in a run
    LockFallback, \* may the file lock be given up (timeout, no flock)?
    MaxLate       \* bound: how many timed-out keyring calls may still be running

ASSUME ProcOfAssumption == ProcOf \in [Threads -> Procs]
ASSUME NoThreadAssumption == NoThread \notin Threads
ASSUME MaxTokenAssumption == MaxToken \in Nat
ASSUME FallbackAssumption == LockFallback \in BOOLEAN
ASSUME MaxLateAssumption == MaxLate \in Nat

(* A credential: the serial number of its refresh token, 0 for a token     *)
(* that cannot be refreshed, and what its recorded expiry says of its      *)
(* access token: fresh, within refreshExpiryLeeway of its end, or nothing  *)
(* at all because the server sent no lifetime.                             *)
Life == {"fresh", "expiring", "none"}
Cred == [rt : Nat, life : Life]
NoCred == [rt |-> 0, life |-> "none"]
PlainCred == [rt |-> 0, life |-> "fresh"]

(* The two keyring items of the user: gh:host and gh:_refreshable:host.    *)
Slots == {"plain", "refreshable"}
Ops == {"none", "refresh", "login", "loginRefreshable", "logout"}

(* Where a call is.  Critical lists the points between the acquisition of  *)
(* the locks and their release.                                            *)
Critical == {"reread", "present", "answered", "dropRefreshable", "dropPlain",
             "storePlain", "purgeRefreshable", "storeRefreshable", "purgePlain",
             "leave"}
Pcs == {"idle", "mutex", "flock"} \cup Critical

VARIABLES
    keyring,    \* the user's items in the operating system's keyring
    late,       \* keyring calls that timed out and may still land
    valid,      \* server: the refresh tokens it accepts
    spent,      \* server: the refresh tokens used up by a rotation
    next,       \* server: the serial number of the next token
    refreshMu,  \* AuthConfig.refreshMu of each process
    flock,      \* refresh.lock in the state directory
    pc, op,     \* each goroutine's control point and the call it runs
    lockHeld,   \* the goroutines whose call has lockHeld
    current,    \* the credential a refresh re-read under the locks
    renewed,    \* the credential a call has obtained and is to store
    disturbed,  \* history: refreshes that have met another call past the locks,
                \* or an abandoned keyring call that landed
    beside,     \* history: refreshes that found a plain token next to the
                \* credential they re-read
    orphaned,   \* history: spent tokens whose successor was never stored
    loggedOut   \* history: the last of login and logout to finish was a logout

store == <<keyring, late>>
server == <<valid, spent, next>>
locks == <<refreshMu, flock>>
call == <<op, lockHeld, current, renewed, disturbed, beside>>
history == <<orphaned, loggedOut>>
vars == <<store, server, locks, pc, call, history>>

TypeOK ==
    /\ keyring \in [Slots -> Cred]
    /\ late \subseteq [slot : Slots, cred : Cred]
    /\ valid \subseteq Nat
    /\ spent \subseteq Nat
    /\ next \in Nat \ {0}
    /\ refreshMu \in [Procs -> Threads \cup {NoThread}]
    /\ flock \in Threads \cup {NoThread}
    /\ pc \in [Threads -> Pcs]
    /\ op \in [Threads -> Ops]
    /\ lockHeld \subseteq Threads
    /\ current \in [Threads -> Cred]
    /\ renewed \in [Threads -> Cred]
    /\ disturbed \subseteq Threads /\ beside \subseteq Threads
    /\ orphaned \subseteq Nat
    /\ loggedOut \in BOOLEAN

Init ==
    /\ keyring = [s \in Slots |-> NoCred]
    /\ late = {}
    /\ valid = {} /\ spent = {} /\ next = 1
    /\ refreshMu = [p \in Procs |-> NoThread]
    /\ flock = NoThread
    /\ pc = [t \in Threads |-> "idle"]
    /\ op = [t \in Threads |-> "none"]
    /\ lockHeld = {}
    /\ current = [t \in Threads |-> NoCred]
    /\ renewed = [t \in Threads |-> NoCred]
    /\ disturbed = {} /\ beside = {}
    /\ orphaned = {} /\ loggedOut = FALSE

-----------------------------------------------------------------------------
(* Helpers.                                                                *)

Goto(t, from, to) == pc[t] = from /\ pc' = [pc EXCEPT ![t] = to]

(* A credential without a recorded expiry counts as expiring.              *)
accessTokenNeedsRefresh(c) == c.life # "fresh"

(* Mutant of Issue: an answer without a lifetime is stored unparsed.       *)
IssueUnparsed(t, r) ==
    \E l \in {"fresh", "unparsed"} :
        renewed' = [renewed EXCEPT ![t] = [rt |-> r, life |-> l]]

(* The server answers with refresh token r and a new access token, whose   *)
(* lifetime it may leave out.                                              *)
Issue(t, r) ==
    \E l \in {"fresh", "none"} :
        renewed' = [renewed EXCEPT ![t] = [rt |-> r, life |-> l]]

(* It draws a new refresh token.                                           *)
IssueNext(t) == next <= MaxToken /\ next' = next + 1 /\ Issue(t, next)

(* keyring.Set and keyring.Delete.  A call takes effect, fails without     *)
(* effect, or is abandoned after keyringTimeout while its goroutine runs   *)
(* on: then it fails and its effect may come later.                        *)
KeyringWrite(s, c) ==
    /\ keyring' = [keyring EXCEPT ![s] = c]
    /\ UNCHANGED late

KeyringFails(s, c) ==
    /\ UNCHANGED keyring
    /\ late' \in {late} \cup
        (IF Cardinality(late) < MaxLate
         THEN {late \cup {[slot |-> s, cred |-> c]}} ELSE {})

(* keyring.Delete at a place that ignores its error.                       *)
KeyringDelete(s) == KeyringWrite(s, NoCred) \/ KeyringFails(s, NoCred)

(* The spent token of a call whose renewed credential is given up.         *)
Stranded(t) ==
    IF pc[t] = "answered" /\ renewed[t].rt # current[t].rt
    THEN {current[t].rt} ELSE {}

(* The first step of each call once it has the locks.                      *)
FirstStep(o) ==
    CASE o = "refresh"          -> "reread"
      [] o = "login"            -> "storePlain"
      [] o = "loginRefreshable" -> "storeRefreshable"
      [] OTHER                  -> "dropRefreshable"     \* logout

-----------------------------------------------------------------------------
(* The calls start.                                                        *)

Begin(t, o) ==
    /\ Goto(t, "idle", "mutex")
    /\ op' = [op EXCEPT ![t] = o]
    /\ UNCHANGED <<store, locks, lockHeld, current, disturbed, beside, history>>

(* TokenForUserWithRefresh: the resolved credential is refreshable (no     *)
(* plain token outranks it) and its access token is expiring.              *)
BeginRefresh(t) ==
    /\ keyring["plain"] = NoCred
    /\ keyring["refreshable"] # NoCred
    /\ accessTokenNeedsRefresh(keyring["refreshable"])
    /\ Begin(t, "refresh")
    /\ UNCHANGED <<server, renewed>>

(* Mutant of BeginLogin: a login that does not take the locks.             *)
LoginUnlocked(t) ==
    /\ Goto(t, "idle", "storePlain")
    /\ op' = [op EXCEPT ![t] = "login"]
    /\ UNCHANGED <<store, server, locks, lockHeld, current, renewed, disturbed, beside, history>>

BeginLogin(t) == Begin(t, "login") /\ UNCHANGED <<server, renewed>>

(* Mutant of BeginLoginRefreshable: the same for a refreshable credential. *)
LoginRefreshableUnlocked(t) ==
    /\ Goto(t, "idle", "storeRefreshable")
    /\ op' = [op EXCEPT ![t] = "loginRefreshable"]
    /\ IssueNext(t)
    /\ valid' = valid \cup {next}
    /\ UNCHANGED <<store, spent, locks, lockHeld, current, disturbed, beside, history>>

(* The OAuth flow has just obtained the credential to store.               *)
BeginLoginRefreshable(t) ==
    /\ Begin(t, "loginRefreshable")
    /\ IssueNext(t)
    /\ valid' = valid \cup {next}
    /\ UNCHANGED spent

(* Mutant of BeginLogout: a logout that does not take the locks.           *)
LogoutUnlocked(t) ==
    /\ Goto(t, "idle", "dropRefreshable")
    /\ op' = [op EXCEPT ![t] = "logout"]
    /\ UNCHANGED <<store, server, locks, lockHeld, current, renewed, disturbed, beside, history>>

BeginLogout(t) == Begin(t, "logout") /\ UNCHANGED <<server, renewed>>

(* Mutant of LockMutex: without refreshMu the goroutines of one process    *)
(* enter together once the file lock is given up.                          *)
NoMutex(t) ==
    /\ Goto(t, "mutex", "flock")
    /\ UNCHANGED <<store, server, locks, call, history>>

(* withFreshConfigForRefresh: the mutex, the file lock or the fallback     *)
(* without it, and the reload, whose failure ends the call.                *)
LockMutex(t) ==
    /\ refreshMu[ProcOf[t]] = NoThread
    /\ Goto(t, "mutex", "flock")
    /\ refreshMu' = [refreshMu EXCEPT ![ProcOf[t]] = t]
    /\ UNCHANGED <<store, server, flock, call, history>>

(* The calls that still have work to do between the locks.                 *)
Working(t) == pc[t] \in Critical \ {"leave"}

(* Those that have met another call there: the refreshes among them are    *)
(* recorded.                                                               *)
MeetsOthers(t) ==
    LET inside == {u \in Threads : Working(u)} \cup {t} IN
    disturbed' = disturbed \cup
        {u \in inside : op[u] = "refresh" /\ inside # {u}}

Reload(t) ==
    \/ Goto(t, "flock", FirstStep(op[t])) /\ MeetsOthers(t)
    \/ Goto(t, "flock", "leave") /\ UNCHANGED disturbed

(* Mutant of LockFile: the lock is taken shared instead of exclusive.      *)
LockFileShared(t) ==
    /\ flock' = t
    /\ lockHeld' = lockHeld \cup {t}
    /\ Reload(t)
    /\ UNCHANGED <<store, server, refreshMu, op, current, renewed, beside, history>>

LockFile(t) ==
    /\ flock = NoThread
    /\ flock' = t
    /\ lockHeld' = lockHeld \cup {t}
    /\ Reload(t)
    /\ UNCHANGED <<store, server, refreshMu, op, current, renewed, beside, history>>

(* Mutant of ProceedWithoutLock: no deadline on the wait for the lock.     *)
WaitForLock(t) ==
    /\ LockFallback /\ flock = NoThread
    /\ Reload(t)
    /\ UNCHANGED <<store, server, locks, op, lockHeld, current, renewed, beside, history>>

ProceedWithoutLock(t) ==
    /\ LockFallback
    /\ Reload(t)
    /\ UNCHANGED <<store, server, locks, op, lockHeld, current, renewed, beside, history>>

Unlock(t) ==
    /\ Goto(t, "leave", "idle")
    /\ flock' = IF t \in lockHeld THEN NoThread ELSE flock
    /\ refreshMu' = [refreshMu EXCEPT ![ProcOf[t]] = NoThread]
    /\ lockHeld' = lockHeld \ {t}
    /\ current' = [current EXCEPT ![t] = NoCred]
    /\ renewed' = [renewed EXCEPT ![t] = NoCred]
    /\ op' = [op EXCEPT ![t] = "none"]
    /\ disturbed' = disturbed \ {t} /\ beside' = beside \ {t}
    /\ UNCHANGED <<store, server, history>>

-----------------------------------------------------------------------------
(* refreshCredentialForUser, under the locks.                              *)

(* The credential is read again; gone, unreadable or already renewed by a  *)
(* peer ends the call.                                                     *)
Reread(t) ==
    LET c == keyring["refreshable"] IN
    /\ \/ /\ c # NoCred /\ accessTokenNeedsRefresh(c)
          /\ Goto(t, "reread", "present")
          /\ current' = [current EXCEPT ![t] = c]
          /\ beside' = IF keyring["plain"] = NoCred THEN beside ELSE beside \cup {t}
       \/ /\ Goto(t, "reread", "leave")
          /\ UNCHANGED <<current, beside>>
    /\ UNCHANGED <<store, server, locks, op, lockHeld, renewed, disturbed, history>>

(* The token endpoint accepts a refresh token once, or answers without a   *)
(* new refresh token, in which case the presented one stays good.          *)
ServerRotates(t) ==
    /\ Goto(t, "present", "answered")
    /\ current[t].rt \in valid
    /\ IssueNext(t)
    /\ valid' = (valid \ {current[t].rt}) \cup {next}
    /\ spent' = spent \cup {current[t].rt}
    /\ UNCHANGED <<store, locks, op, lockHeld, current, disturbed, beside, history>>

ServerKeepsToken(t) ==
    /\ Goto(t, "present", "answered")
    /\ current[t].rt \in valid
    /\ Issue(t, current[t].rt)
    /\ UNCHANGED <<store, server, locks, op, lockHeld, current, disturbed, beside, history>>

(* Mutant of ServerRejects: the removal does not need the file lock.       *)
RejectsAnyway(t) ==
    /\ current[t].rt \notin valid
    /\ Goto(t, "present", "dropRefreshable")
    /\ UNCHANGED <<store, server, locks, call, history>>

(* ErrRefreshTokenInvalid: the stored credential is removed, but only by a *)
(* call that holds the file lock.                                          *)
ServerRejects(t) ==
    /\ current[t].rt \notin valid
    /\ Goto(t, "present", IF t \in lockHeld THEN "dropRefreshable" ELSE "leave")
    /\ UNCHANGED <<store, server, locks, call, history>>

(* Mutant of ExchangeFails: any error counts as a rejected token.          *)
AnyErrorRejects(t) ==
    /\ Goto(t, "present", "dropRefreshable") \/ Goto(t, "answered", "leave")
    /\ orphaned' = orphaned \cup Stranded(t)
    /\ UNCHANGED <<store, server, locks, call, loggedOut>>

(* Any other error of the exchange, before the server acted or after.      *)
ExchangeFails(t) ==
    /\ Goto(t, "present", "leave") \/ Goto(t, "answered", "leave")
    /\ orphaned' = orphaned \cup Stranded(t)
    /\ UNCHANGED <<store, server, locks, call, loggedOut>>

(* persistRefreshedCredential.                                             *)
Persist(t) ==
    /\ Goto(t, "answered", "leave")
    /\ KeyringWrite("refreshable", renewed[t])
    /\ UNCHANGED <<server, locks, call, history>>

PersistFails(t) ==
    /\ Goto(t, "answered", "leave")
    /\ KeyringFails("refreshable", renewed[t])
    /\ orphaned' = orphaned \cup Stranded(t)
    /\ UNCHANGED <<server, locks, call, loggedOut>>

-----------------------------------------------------------------------------
(* removeCredentialForUser, and Logout, which starts in the same way: the  *)
(* refreshable item is deleted, then the plain one.                        *)

DropRefreshable(t) ==
    /\ Goto(t, "dropRefreshable", "dropPlain")
    /\ KeyringDelete("refreshable")
    /\ UNCHANGED <<server, locks, call, history>>

DropPlain(t) ==
    /\ Goto(t, "dropPlain", "leave")
    /\ KeyringDelete("plain")
    /\ loggedOut' = IF op[t] = "logout"
                    THEN \A s \in Slots : keyring'[s] = NoCred
                    ELSE loggedOut
    /\ UNCHANGED <<server, locks, call, orphaned>>

(* login: store the plain token, then purge the refreshable credential.    *)
(* A failed store ends the call; a failed purge leaves both items behind.  *)
StorePlain(t) ==
    /\ Goto(t, "storePlain", "purgeRefreshable")
    /\ KeyringWrite("plain", PlainCred)
    /\ loggedOut' = FALSE
    /\ UNCHANGED <<server, locks, call, orphaned>>

StorePlainFails(t) ==
    /\ Goto(t, "storePlain", "leave")
    /\ KeyringFails("plain", PlainCred)
    /\ UNCHANGED <<server, locks, call, history>>

PurgeRefreshable(t) ==
    /\ Goto(t, "purgeRefreshable", "leave")
    /\ KeyringDelete("refreshable")
    /\ UNCHANGED <<server, locks, call, history>>

(* loginRefreshable: the mirror image.                                     *)
StoreRefreshable(t) ==
    /\ Goto(t, "storeRefreshable", "purgePlain")
    /\ KeyringWrite("refreshable", renewed[t])
    /\ loggedOut' = FALSE
    /\ UNCHANGED <<server, locks, call, orphaned>>

StoreRefreshableFails(t) ==
    /\ Goto(t, "storeRefreshable", "leave")
    /\ KeyringFails("refreshable", renewed[t])
    /\ UNCHANGED <<server, locks, call, history>>

PurgePlain(t) ==
    /\ Goto(t, "purgePlain", "leave")
    /\ KeyringDelete("plain")
    /\ UNCHANGED <<server, locks, call, history>>

-----------------------------------------------------------------------------
(* The environment.                                                        *)

(* An abandoned keyring call lands.                                        *)
LateLands ==
    \E w \in late :
        /\ keyring' = [keyring EXCEPT ![w.slot] = w.cred]
        /\ late' = late \ {w}
        /\ disturbed' = disturbed \cup {t \in Threads : op[t] = "refresh" /\ Working(t)}
        /\ UNCHANGED <<server, locks, pc, op, lockHeld, current, renewed, beside, history>>

(* A process dies: the operating system drops its file lock, and what its  *)
(* goroutines had in memory is lost.                                       *)
Crash(p) ==
    LET dead == {t \in Threads : ProcOf[t] = p}
        Reset(f, v) == [t \in Threads |-> IF t \in dead THEN v ELSE f[t]]
    IN  /\ \E t \in dead : pc[t] # "idle"
        /\ pc' = Reset(pc, "idle")
        /\ op' = Reset(op, "none")
        /\ lockHeld' = lockHeld \ dead
        /\ current' = Reset(current, NoCred)
        /\ renewed' = Reset(renewed, NoCred)
        /\ disturbed' = disturbed \ dead /\ beside' = beside \ dead
        /\ refreshMu' = [refreshMu EXCEPT ![p] = NoThread]
        /\ flock' = IF flock \in dead THEN NoThread ELSE flock
        /\ orphaned' = orphaned \cup UNION {Stranded(t) : t \in dead}
        /\ UNCHANGED <<store, server, loggedOut>>

(* Time passes for the stored access token.                                *)
Expire ==
    /\ keyring["refreshable"].life = "fresh"
    /\ keyring' = [keyring EXCEPT !["refreshable"].life = "expiring"]
    /\ UNCHANGED <<late, server, locks, pc, call, history>>

(* The user or the server revokes the stored authorization.                *)
Revoke ==
    /\ keyring["refreshable"].rt \in valid
    /\ valid' = valid \ {keyring["refreshable"].rt}
    /\ UNCHANGED <<store, spent, next, locks, pc, call, history>>

-----------------------------------------------------------------------------
Refreshing(t) ==
    Reread(t) \/ Persist(t) \/ PersistFails(t)
Exchanging(t) ==
    ServerRotates(t) \/ ServerKeepsToken(t) \/ ServerRejects(t) \/ ExchangeFails(t)
Storing(t) ==
    \/ StorePlain(t) \/ StorePlainFails(t) \/ PurgeRefreshable(t)
    \/ StoreRefreshable(t) \/ StoreRefreshableFails(t) \/ PurgePlain(t)
Dropping(t) == DropRefreshable(t) \/ DropPlain(t)
Entering(t) == LockFile(t) \/ ProceedWithoutLock(t)

Next ==
    \/ \E t \in Threads :
        \/ BeginRefresh(t) \/ BeginLogin(t) \/ BeginLoginRefreshable(t) \/ BeginLogout(t)
        \/ LockMutex(t) \/ Entering(t) \/ Unlock(t)
        \/ Refreshing(t) \/ Exchanging(t) \/ Storing(t) \/ Dropping(t)
    \/ LateLands
    \/ \E p \in Procs : Crash(p)
    \/ Expire
    \/ Revoke

Spec == Init /\ [][Next]_vars

(* The waits the code bounds: the file lock by refreshLockTimeout, every   *)
(* keyring call by keyringTimeout.  Nothing bounds the token endpoint, so  *)
(* Exchanging gets no fairness, nor do the user and the environment.       *)
Fairness ==
    \A t \in Threads : WF_vars(Entering(t) \/ Refreshing(t) \/ Storing(t)
                               \/ Dropping(t) \/ Unlock(t))

FairSpec == Spec /\ Fairness

-----------------------------------------------------------------------------
(* Properties.                                                             *)

(* A refresh token the server has used up is not presented again, unless   *)
(* its successor was lost to a crash, a lost answer or a failed store: the *)
(* re-read under the locks never sees a peer's spent token.                *)
NoReplay ==
    \A t \in Threads : pc[t] = "present" => current[t].rt \notin spent \ orphaned

(* The removal after a rejection is under the file lock, and deletes       *)
(* nothing that was stored since the re-read: the refreshable credential   *)
(* is the one the server has rejected, and a plain token is there only if  *)
(* it was there at the re-read, left beside the other by a purge that      *)
(* failed.  A call that has met another one between the locks, because the *)
(* file lock was given up, or an abandoned keyring call, has no such       *)
(* promise.                                                                *)
RemovalSafe ==
    \A t \in Threads :
        op[t] = "refresh" /\ pc[t] \in {"dropRefreshable", "dropPlain"} =>
            /\ t \in lockHeld
            /\ t \in disturbed \/ keyring["refreshable"].rt \notin valid
            /\ t \in disturbed \cup beside \/ keyring["plain"] = NoCred

(* Once a logout has removed the user's items, no refresh already under    *)
(* way puts a credential back; only a later login does.                    *)
LogoutWins == loggedOut => \A s \in Slots : keyring[s] = NoCred

(* A refresh overwrites nothing but the credential it re-read, so neither  *)
(* a login nor a peer's rotation is lost under it, unless it was disturbed *)
(* as above.                                                               *)
NoLostUpdate ==
    [][\A t \in Threads \ disturbed :
          Persist(t) => keyring["refreshable"] = current[t]]_vars

(* A logout that waits for the file lock returns even when a peer hangs in *)
(* the token exchange with the lock held (or dies).                        *)
LogoutReturns ==
    \A t \in Threads :
        (op[t] = "logout" /\ pc[t] = "flock") ~> pc[t] = "idle"

=============================================================================
