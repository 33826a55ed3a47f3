------------------------- MODULE AccountStoreProofs -------------------------
(* Proofs about AccountStore, for any number of users and processes.       *)
(* Types, the lock and what a login promises hold whatever commands run.   *)
(* The other properties hold when every command takes the refresh lock,    *)
(* which SwitchUser and `gh config set --host` do not; that no account is  *)
(* lost holds when there is one process at a time.                         *)
EXTENDS AccountStore, FiniteSetTheorems, TLAPS

(* Only commands that take the refresh lock are run.                       *)
OnlyLocked == Commands \subseteq Locked

(* The steps at which a call has not touched the host's item or the active *)
(* user's credential, or has finished with them.                           *)
Settled == {"idle", "lock", "store", "reread", "dropRefreshable", "dropPlain", "leave"}
BeforeChange == {"store", "purge", "recheck", "reread", "dropRefreshable", "dropPlain"}
Stored == {"purge", "recheck", "clear", "copy", "write"}

Agree == hostToken = IF disk.active \in plain THEN disk.active ELSE NoUser

(* Who is where: a call is only at the points of its command's path.       *)
PathInv ==
    \A p \in Procs :
        /\ pc[p] # "idle" => command[p] \in Commands
        /\ pc[p] \in {"store", "purge", "recheck"} => command[p] \in Logins
        /\ pc[p] = "reread" => command[p] = "refresh"
        /\ pc[p] \in {"dropRefreshable", "dropPlain"} => command[p] \in {"logout", "refresh"}
        /\ pc[p] = "clearHost" => command[p] = "logout"
        /\ pc[p] \in {"clear", "copy"} => command[p] \in Logins \cup {"logout", "switch"}
        /\ pc[p] = "write" => command[p] # "refresh"
        /\ pc[p] \in {"source", "restoreClear", "restoreCopy"} => command[p] = "switch"
        /\ pc[p] = "lock" => command[p] \in Locked
        /\ pc[p] # "idle" /\ command[p] \in Locked => who[p] \in Users
        /\ pc[p] \in {"idle", "lock", "clearHost"} \cup BeforeChange => target[p] = NoUser

(* A locked command holds the lock from Lock to Leave.                     *)
LockInv ==
    \A p \in Procs : pc[p] \in Critical /\ command[p] \in Locked => lock = p

(* What a login has stored stays until it has written hosts.yml, and what  *)
(* it has removed stays away.                                              *)
LoginInv ==
    \A p \in Procs : command[p] \in Logins =>
        /\ pc[p] \in Stored =>
              IF command[p] = "login" THEN who[p] \in plain ELSE who[p] \in refreshable
        /\ pc[p] \in Activating => target[p] = who[p]
        /\ pc[p] \in Activating /\ command[p] = "loginRefreshable" /\ p \notin missed
              => who[p] \notin plain

Inv == PathInv /\ LockInv /\ LoginInv

(* What is in memory differs from the file by the call's own user only.    *)
MemoryInv ==
    \A p \in Procs :
        /\ pc[p] \in BeforeChange => mem[p] = disk
        /\ pc[p] \in Activating /\ command[p] \in Logins =>
              mem[p].users = disk.users \cup {who[p]} /\ mem[p].active = disk.active
        /\ pc[p] \in {"clear", "copy"} /\ command[p] = "logout" =>
              /\ mem[p].users = disk.users \ {who[p]}
              /\ mem[p].active = disk.active /\ disk.active = who[p]
              /\ target[p] \in mem[p].users
        /\ pc[p] = "clearHost" => mem[p] = NoHost /\ Cardinality(disk.users) < 2
        /\ pc[p] = "write" /\ command[p] = "logout" =>
              \/ /\ mem[p] = NoHost /\ Cardinality(disk.users) < 2
                 /\ target[p] = NoUser
              \/ /\ mem[p].users = disk.users \ {who[p]} /\ mem[p].users # {}
                 /\ mem[p].active = disk.active
                 /\ \/ target[p] = NoUser /\ disk.active # who[p]
                    \/ target[p] \in mem[p].users /\ disk.active = who[p]
        /\ pc[p] \in {"source"} \cup Activating /\ command[p] = "switch" =>
              mem[p] = disk /\ who[p] \in disk.users /\ target[p] = who[p]
        /\ pc[p] = "write" /\ command[p] = "configSet" => mem[p] = disk /\ target[p] = NoUser

(* The host's item on the way from one agreement to the next.              *)
ItemInv ==
    /\ (\A p \in Procs : pc[p] \in Settled) /\ torn = {} => Agree
    /\ \A p \in Procs :
        /\ pc[p] = "recheck" /\ Surviving(p) => "item" \in torn
        /\ pc[p] = "copy" /\ "host" \notin torn => hostToken = NoUser
        /\ pc[p] \in {"clear", "copy"} /\ command[p] = "logout"
              => who[p] \notin plain \/ "item" \in torn
        /\ pc[p] = "write" /\ target[p] # NoUser /\ "host" \notin torn
              => hostToken = IF target[p] \in plain THEN target[p] ELSE NoUser
        /\ pc[p] = "write" /\ command[p] = "logout" /\ mem[p] = NoHost /\ "host" \notin torn
              => hostToken = NoUser
        /\ pc[p] = "write" /\ command[p] = "logout" /\ target[p] = NoUser
           /\ mem[p] # NoHost /\ torn = {}
              => Agree

(* What a logout has removed stays away.                                   *)
LogoutInv ==
    \A p \in Procs : command[p] = "logout" /\ p \notin missed =>
        /\ pc[p] = "dropPlain" => who[p] \notin refreshable
        /\ pc[p] \in {"clearHost"} \cup Activating => ~HasToken(who[p])

LockedInv == MemoryInv /\ ItemInv /\ LogoutInv

-----------------------------------------------------------------------------
(* What the calls do to a host entry leaves a host entry.                  *)
LEMMA HostFacts ==
    ASSUME NEW h \in Host, NEW u \in Users, NEW a \in Users \cup {NoUser}
    PROVE  /\ [h EXCEPT !.users = @ \cup {u}] \in Host
           /\ [h EXCEPT !.users = @ \ {u}] \in Host
           /\ [h EXCEPT !.active = a] \in Host
           /\ NoHost \in Host
  BY DEF Host, NoHost

(* Every step keeps the types ...                                          *)
LEMMA TypeStep ==
    ASSUME TypeOK, PathInv, [Next]_vars
    PROVE  TypeOK'
  <1> USE NoUserAssumption, CommandsAssumption, FaultsAssumption
      DEF keyring, call, history, Host, NoHost, Pcs, Critical, Activating, TypeOK
  <1>0. CASE UNCHANGED vars
    BY <1>0 DEF vars
  <1>1. ASSUME NEW p \in Procs, NEW u \in Users, BeginLogin(p, u) PROVE TypeOK'
    BY <1>1 DEF BeginLogin, Begin, Goto
  <1>2. ASSUME NEW p \in Procs, NEW u \in Users, BeginLogout(p, u) PROVE TypeOK'
    BY <1>2 DEF BeginLogout, Begin, Goto
  <1>3. ASSUME NEW p \in Procs, NEW u \in Users, BeginRefresh(p, u) PROVE TypeOK'
    BY <1>3 DEF BeginRefresh, Begin, Goto
  <1>4. ASSUME NEW p \in Procs, NEW u \in Users, BeginSwitch(p, u) PROVE TypeOK'
    BY <1>4 DEF BeginSwitch, Begin, Goto
  <1>5. ASSUME NEW p \in Procs, BeginConfigSet(p) PROVE TypeOK'
    BY <1>5 DEF BeginConfigSet, Begin, Goto
  <1>6. ASSUME NEW p \in Procs, Lock(p) PROVE TypeOK'
    <2>1. FirstStep(command[p]) \in Pcs
      BY DEF FirstStep
    <2>2. pc' \in [Procs -> Pcs] /\ mem' \in [Procs -> Host]
      BY <1>6, <2>1 DEF Lock, Goto
    <2> QED
      BY <1>6, <2>2 DEF Lock
  <1>7. ASSUME NEW p \in Procs, Leave(p) PROVE TypeOK'
    BY <1>7 DEF Leave, Return
  <1>8. ASSUME NEW p \in Procs, Store(p) PROVE TypeOK'
    BY <1>8 DEF Store, Goto, PathInv, Locked, Logins
  <1>9. ASSUME NEW p \in Procs, StoreFails(p) PROVE TypeOK'
    BY <1>9 DEF StoreFails, Goto
  <1>10. ASSUME NEW p \in Procs, Purge(p) PROVE TypeOK'
    BY <1>10 DEF Purge, Goto, Hitch
  <1>11. ASSUME NEW p \in Procs, Recheck(p) PROVE TypeOK'
    <2>1. who[p] \in Users
      BY <1>11 DEF Recheck, Goto, PathInv, Locked
    <2>2. [mem[p] EXCEPT !.users = @ \cup {who[p]}] \in Host
      BY <2>1, HostFacts
    <2>3. mem' \in [Procs -> Host]
      BY <1>11, <2>2 DEF Recheck
    <2> QED
      BY <1>11, <2>1, <2>3 DEF Recheck, Goto, Hitch, Unnoticed
  <1>12. ASSUME NEW p \in Procs, RecheckFails(p) PROVE TypeOK'
    BY <1>12 DEF RecheckFails, Goto, Surviving
  <1>13. ASSUME NEW p \in Procs, Reread(p) PROVE TypeOK'
    BY <1>13 DEF Reread, Goto
  <1>14. ASSUME NEW p \in Procs, DropRefreshable(p) PROVE TypeOK'
    BY <1>14 DEF DropRefreshable, Goto, Hitch, Unnoticed
  <1>15. ASSUME NEW p \in Procs, DropPlain(p) PROVE TypeOK'
    <2>1. who[p] \in Users
      BY <1>15 DEF DropPlain, Goto, PathInv, Locked, Forget
    <2>2. [mem[p] EXCEPT !.users = mem[p].users \ {who[p]}] \in Host /\ NoHost \in Host
      BY <2>1, HostFacts
    <2>3. mem' \in [Procs -> Host]
      BY <1>15, <2>2 DEF DropPlain, Forget
    <2>4. target' \in [Procs -> Users \cup {NoUser}]
      BY <1>15 DEF DropPlain, Forget
    <2>5. pc' \in [Procs -> Pcs]
      BY <1>15 DEF DropPlain, Forget, Goto
    <2> QED
      BY <1>15, <2>1, <2>3, <2>4, <2>5 DEF DropPlain, Hitch, Unnoticed
  <1>16. ASSUME NEW p \in Procs, ClearHost(p) PROVE TypeOK'
    BY <1>16 DEF ClearHost, Goto, Hitch, Unnoticed, DeleteHostToken
  <1>17. ASSUME NEW p \in Procs, Clear(p) PROVE TypeOK'
    BY <1>17 DEF Clear, Goto, Hitch, Unnoticed, DeleteHostToken
  <1>18. ASSUME NEW p \in Procs, Copy(p) PROVE TypeOK'
    BY <1>18 DEF Copy, Goto, Hitch, Unnoticed
  <1>19. ASSUME NEW p \in Procs, CopyFails(p) PROVE TypeOK'
    BY <1>19 DEF CopyFails, Goto, Hitch, AfterFailure
  <1>20. ASSUME NEW p \in Procs, Write(p) PROVE TypeOK'
    BY <1>20 DEF Write, Goto, Settles, Written
  <1>21. ASSUME NEW p \in Procs, WriteFails(p) PROVE TypeOK'
    BY <1>21 DEF WriteFails, Goto, Hitch, AfterFailure
  <1>22. ASSUME NEW p \in Procs, CheckSource(p) PROVE TypeOK'
    BY <1>22 DEF CheckSource, Goto
  <1>23. ASSUME NEW p \in Procs, RestoreClear(p) PROVE TypeOK'
    BY <1>23 DEF RestoreClear, Goto, Hitch, Unnoticed, DeleteHostToken
  <1>24. ASSUME NEW p \in Procs, RestoreCopy(p) PROVE TypeOK'
    BY <1>24 DEF RestoreCopy, Goto, Hitch
  <1>25. ASSUME NEW p \in Procs, Crash(p) PROVE TypeOK'
    BY <1>25 DEF Crash, Return
  <1> QED
    BY <1>0, <1>1, <1>2, <1>3, <1>4, <1>5, <1>6, <1>7, <1>8, <1>9, <1>10, <1>11,
       <1>12, <1>13, <1>14, <1>15, <1>16, <1>17, <1>18, <1>19, <1>20, <1>21, <1>22,
       <1>23, <1>24, <1>25
       DEF Next, Begins, LogsIn, Removes, Activates, Switches

(* ... and the calls on their paths.                                      *)
LEMMA PathStep ==
    ASSUME TypeOK, PathInv, [Next]_vars
    PROVE  PathInv'
  <1> USE NoUserAssumption, CommandsAssumption
      DEF keyring, call, history, Pcs, Critical, Activating, BeforeChange, TypeOK, PathInv, Logins, Locked
  <1>0. CASE UNCHANGED vars
    BY <1>0 DEF vars
  <1>1. ASSUME NEW p \in Procs, NEW u \in Users, BeginLogin(p, u) PROVE PathInv'
    BY <1>1 DEF BeginLogin, Begin, Goto
  <1>2. ASSUME NEW p \in Procs, NEW u \in Users, BeginLogout(p, u) PROVE PathInv'
    BY <1>2 DEF BeginLogout, Begin, Goto
  <1>3. ASSUME NEW p \in Procs, NEW u \in Users, BeginRefresh(p, u) PROVE PathInv'
    BY <1>3 DEF BeginRefresh, Begin, Goto
  <1>4. ASSUME NEW p \in Procs, NEW u \in Users, BeginSwitch(p, u) PROVE PathInv'
    BY <1>4 DEF BeginSwitch, Begin, Goto
  <1>5. ASSUME NEW p \in Procs, BeginConfigSet(p) PROVE PathInv'
    BY <1>5 DEF BeginConfigSet, Begin, Goto
  <1>6. ASSUME NEW p \in Procs, Lock(p) PROVE PathInv'
    <2>1. FirstStep(command[p]) =
            IF command[p] \in Logins THEN "store"
            ELSE IF command[p] = "refresh" THEN "reread" ELSE "dropRefreshable"
      BY DEF FirstStep
    <2> QED
      BY <1>6, <2>1 DEF Lock, Goto
  <1>7. ASSUME NEW p \in Procs, Leave(p) PROVE PathInv'
    BY <1>7 DEF Leave, Return
  <1>8. ASSUME NEW p \in Procs, Store(p) PROVE PathInv'
    BY <1>8 DEF Store, Goto
  <1>9. ASSUME NEW p \in Procs, StoreFails(p) PROVE PathInv'
    BY <1>9 DEF StoreFails, Goto
  <1>10. ASSUME NEW p \in Procs, Purge(p) PROVE PathInv'
    BY <1>10 DEF Purge, Goto, Hitch
  <1>11. ASSUME NEW p \in Procs, Recheck(p) PROVE PathInv'
    BY <1>11 DEF Recheck, Goto, Surviving, Hitch, Unnoticed
  <1>12. ASSUME NEW p \in Procs, RecheckFails(p) PROVE PathInv'
    BY <1>12 DEF RecheckFails, Goto, Surviving
  <1>13. ASSUME NEW p \in Procs, Reread(p) PROVE PathInv'
    BY <1>13 DEF Reread, Goto
  <1>14. ASSUME NEW p \in Procs, DropRefreshable(p) PROVE PathInv'
    BY <1>14 DEF DropRefreshable, Goto, Hitch, Unnoticed
  <1>15. ASSUME NEW p \in Procs, DropPlain(p) PROVE PathInv'
    BY <1>15 DEF DropPlain, Goto, Hitch, Unnoticed, Forget
  <1>16. ASSUME NEW p \in Procs, ClearHost(p) PROVE PathInv'
    BY <1>16 DEF ClearHost, Goto, Hitch, Unnoticed, DeleteHostToken
  <1>17. ASSUME NEW p \in Procs, Clear(p) PROVE PathInv'
    BY <1>17 DEF Clear, Goto, Hitch, Unnoticed, DeleteHostToken
  <1>18. ASSUME NEW p \in Procs, Copy(p) PROVE PathInv'
    BY <1>18 DEF Copy, Goto, Hitch, Unnoticed
  <1>19. ASSUME NEW p \in Procs, CopyFails(p) PROVE PathInv'
    BY <1>19 DEF CopyFails, Goto, Hitch, AfterFailure
  <1>20. ASSUME NEW p \in Procs, Write(p) PROVE PathInv'
    BY <1>20 DEF Write, Goto, Settles, Written
  <1>21. ASSUME NEW p \in Procs, WriteFails(p) PROVE PathInv'
    BY <1>21 DEF WriteFails, Goto, Hitch, AfterFailure
  <1>22. ASSUME NEW p \in Procs, CheckSource(p) PROVE PathInv'
    BY <1>22 DEF CheckSource, Goto
  <1>23. ASSUME NEW p \in Procs, RestoreClear(p) PROVE PathInv'
    BY <1>23 DEF RestoreClear, Goto, Hitch, Unnoticed, DeleteHostToken
  <1>24. ASSUME NEW p \in Procs, RestoreCopy(p) PROVE PathInv'
    BY <1>24 DEF RestoreCopy, Goto, Hitch
  <1>25. ASSUME NEW p \in Procs, Crash(p) PROVE PathInv'
    BY <1>25 DEF Crash, Return
  <1> QED
    BY <1>0, <1>1, <1>2, <1>3, <1>4, <1>5, <1>6, <1>7, <1>8, <1>9, <1>10, <1>11,
       <1>12, <1>13, <1>14, <1>15, <1>16, <1>17, <1>18, <1>19, <1>20, <1>21, <1>22,
       <1>23, <1>24, <1>25
       DEF Next, Begins, LogsIn, Removes, Activates, Switches

(* Every state is well typed.                                              *)
THEOREM TypeCorrect == Spec => []TypeOK
  <1>1. Init => TypeOK
    BY DEF Init, TypeOK, Host, NoHost, Pcs
  <1>2. Init => PathInv
    BY DEF Init, PathInv, BeforeChange
  <1> QED
    BY <1>1, <1>2, TypeStep, PathStep, PTL DEF Spec

-----------------------------------------------------------------------------
(* A locked command has the lock for itself.                               *)
LEMMA LockStep ==
    ASSUME TypeOK, PathInv, LockInv, [Next]_vars
    PROVE  LockInv'
  <1> USE NoProcAssumption
      DEF keyring, call, history, Critical, Activating, Logins, Locked, TypeOK, PathInv, LockInv
  <1>0. CASE UNCHANGED vars
    BY <1>0 DEF vars
  <1>1. ASSUME NEW p \in Procs, NEW u \in Users, BeginLogin(p, u) PROVE LockInv'
    BY <1>1 DEF BeginLogin, Begin, Goto
  <1>2. ASSUME NEW p \in Procs, NEW u \in Users, BeginLogout(p, u) PROVE LockInv'
    BY <1>2 DEF BeginLogout, Begin, Goto
  <1>3. ASSUME NEW p \in Procs, NEW u \in Users, BeginRefresh(p, u) PROVE LockInv'
    BY <1>3 DEF BeginRefresh, Begin, Goto
  <1>4. ASSUME NEW p \in Procs, NEW u \in Users, BeginSwitch(p, u) PROVE LockInv'
    BY <1>4 DEF BeginSwitch, Begin, Goto
  <1>5. ASSUME NEW p \in Procs, BeginConfigSet(p) PROVE LockInv'
    BY <1>5 DEF BeginConfigSet, Begin, Goto
  <1>6. ASSUME NEW p \in Procs, Lock(p) PROVE LockInv'
    <2>1. FirstStep(command[p]) =
            IF command[p] \in Logins THEN "store"
            ELSE IF command[p] = "refresh" THEN "reread" ELSE "dropRefreshable"
      BY DEF FirstStep
    <2> QED
      BY <1>6, <2>1 DEF Lock, Goto
  <1>7. ASSUME NEW p \in Procs, Leave(p) PROVE LockInv'
    BY <1>7 DEF Leave, Return
  <1>8. ASSUME NEW p \in Procs, Store(p) PROVE LockInv'
    BY <1>8 DEF Store, Goto
  <1>9. ASSUME NEW p \in Procs, StoreFails(p) PROVE LockInv'
    BY <1>9 DEF StoreFails, Goto
  <1>10. ASSUME NEW p \in Procs, Purge(p) PROVE LockInv'
    BY <1>10 DEF Purge, Goto, Hitch
  <1>11. ASSUME NEW p \in Procs, Recheck(p) PROVE LockInv'
    BY <1>11 DEF Recheck, Goto, Surviving, Hitch, Unnoticed
  <1>12. ASSUME NEW p \in Procs, RecheckFails(p) PROVE LockInv'
    BY <1>12 DEF RecheckFails, Goto, Surviving
  <1>13. ASSUME NEW p \in Procs, Reread(p) PROVE LockInv'
    BY <1>13 DEF Reread, Goto
  <1>14. ASSUME NEW p \in Procs, DropRefreshable(p) PROVE LockInv'
    BY <1>14 DEF DropRefreshable, Goto, Hitch, Unnoticed
  <1>15. ASSUME NEW p \in Procs, DropPlain(p) PROVE LockInv'
    BY <1>15 DEF DropPlain, Goto, Hitch, Unnoticed, Forget
  <1>16. ASSUME NEW p \in Procs, ClearHost(p) PROVE LockInv'
    BY <1>16 DEF ClearHost, Goto, Hitch, Unnoticed, DeleteHostToken
  <1>17. ASSUME NEW p \in Procs, Clear(p) PROVE LockInv'
    BY <1>17 DEF Clear, Goto, Hitch, Unnoticed, DeleteHostToken
  <1>18. ASSUME NEW p \in Procs, Copy(p) PROVE LockInv'
    BY <1>18 DEF Copy, Goto, Hitch, Unnoticed
  <1>19. ASSUME NEW p \in Procs, CopyFails(p) PROVE LockInv'
    BY <1>19 DEF CopyFails, Goto, Hitch, AfterFailure
  <1>20. ASSUME NEW p \in Procs, Write(p) PROVE LockInv'
    BY <1>20 DEF Write, Goto, Settles, Written
  <1>21. ASSUME NEW p \in Procs, WriteFails(p) PROVE LockInv'
    BY <1>21 DEF WriteFails, Goto, Hitch, AfterFailure
  <1>22. ASSUME NEW p \in Procs, CheckSource(p) PROVE LockInv'
    BY <1>22 DEF CheckSource, Goto
  <1>23. ASSUME NEW p \in Procs, RestoreClear(p) PROVE LockInv'
    BY <1>23 DEF RestoreClear, Goto, Hitch, Unnoticed, DeleteHostToken
  <1>24. ASSUME NEW p \in Procs, RestoreCopy(p) PROVE LockInv'
    BY <1>24 DEF RestoreCopy, Goto, Hitch
  <1>25. ASSUME NEW p \in Procs, Crash(p) PROVE LockInv'
    BY <1>25 DEF Crash, Return
  <1> QED
    BY <1>0, <1>1, <1>2, <1>3, <1>4, <1>5, <1>6, <1>7, <1>8, <1>9, <1>10, <1>11,
       <1>12, <1>13, <1>14, <1>15, <1>16, <1>17, <1>18, <1>19, <1>20, <1>21, <1>22,
       <1>23, <1>24, <1>25
       DEF Next, Begins, LogsIn, Removes, Activates, Switches

(* A login keeps what it has stored.                                       *)
LEMMA LoginStep ==
    ASSUME TypeOK, PathInv, LockInv, LoginInv, [Next]_vars
    PROVE  LoginInv'
  <1>a. \A p, q \in Procs :
            (pc[p] \in Critical /\ command[p] \in Locked
             /\ pc[q] \in Critical /\ command[q] \in Locked)
                => p = q
    BY DEF LockInv
  <1> USE <1>a
      DEF keyring, call, history, Critical, Activating, Stored, BeforeChange, Logins, Locked, TypeOK, PathInv, LoginInv
  <1>0. CASE UNCHANGED vars
    BY <1>0 DEF vars
  <1>1. ASSUME NEW p \in Procs, NEW u \in Users, BeginLogin(p, u) PROVE LoginInv'
    BY <1>1 DEF BeginLogin, Begin, Goto
  <1>2. ASSUME NEW p \in Procs, NEW u \in Users, BeginLogout(p, u) PROVE LoginInv'
    BY <1>2 DEF BeginLogout, Begin, Goto
  <1>3. ASSUME NEW p \in Procs, NEW u \in Users, BeginRefresh(p, u) PROVE LoginInv'
    BY <1>3 DEF BeginRefresh, Begin, Goto
  <1>4. ASSUME NEW p \in Procs, NEW u \in Users, BeginSwitch(p, u) PROVE LoginInv'
    BY <1>4 DEF BeginSwitch, Begin, Goto
  <1>5. ASSUME NEW p \in Procs, BeginConfigSet(p) PROVE LoginInv'
    BY <1>5 DEF BeginConfigSet, Begin, Goto
  <1>6. ASSUME NEW p \in Procs, Lock(p) PROVE LoginInv'
    <2>1. FirstStep(command[p]) =
            IF command[p] \in Logins THEN "store"
            ELSE IF command[p] = "refresh" THEN "reread" ELSE "dropRefreshable"
      BY DEF FirstStep
    <2> QED
      BY <1>6, <2>1 DEF Lock, Goto
  <1>7. ASSUME NEW p \in Procs, Leave(p) PROVE LoginInv'
    BY <1>7 DEF Leave, Return
  <1>8. ASSUME NEW p \in Procs, Store(p) PROVE LoginInv'
    BY <1>8 DEF Store, Goto
  <1>9. ASSUME NEW p \in Procs, StoreFails(p) PROVE LoginInv'
    BY <1>9 DEF StoreFails, Goto
  <1>10. ASSUME NEW p \in Procs, Purge(p) PROVE LoginInv'
    BY <1>10 DEF Purge, Goto, Hitch
  <1>11. ASSUME NEW p \in Procs, Recheck(p) PROVE LoginInv'
    BY <1>11 DEF Recheck, Goto, Surviving, Hitch, Unnoticed
  <1>12. ASSUME NEW p \in Procs, RecheckFails(p) PROVE LoginInv'
    BY <1>12 DEF RecheckFails, Goto, Surviving
  <1>13. ASSUME NEW p \in Procs, Reread(p) PROVE LoginInv'
    BY <1>13 DEF Reread, Goto
  <1>14. ASSUME NEW p \in Procs, DropRefreshable(p) PROVE LoginInv'
    BY <1>14 DEF DropRefreshable, Goto, Hitch, Unnoticed
  <1>15. ASSUME NEW p \in Procs, DropPlain(p) PROVE LoginInv'
    BY <1>15 DEF DropPlain, Goto, Hitch, Unnoticed, Forget
  <1>16. ASSUME NEW p \in Procs, ClearHost(p) PROVE LoginInv'
    BY <1>16 DEF ClearHost, Goto, Hitch, Unnoticed, DeleteHostToken
  <1>17. ASSUME NEW p \in Procs, Clear(p) PROVE LoginInv'
    BY <1>17 DEF Clear, Goto, Hitch, Unnoticed, DeleteHostToken
  <1>18. ASSUME NEW p \in Procs, Copy(p) PROVE LoginInv'
    BY <1>18 DEF Copy, Goto, Hitch, Unnoticed
  <1>19. ASSUME NEW p \in Procs, CopyFails(p) PROVE LoginInv'
    BY <1>19 DEF CopyFails, Goto, Hitch, AfterFailure
  <1>20. ASSUME NEW p \in Procs, Write(p) PROVE LoginInv'
    BY <1>20 DEF Write, Goto, Settles, Written
  <1>21. ASSUME NEW p \in Procs, WriteFails(p) PROVE LoginInv'
    BY <1>21 DEF WriteFails, Goto, Hitch, AfterFailure
  <1>22. ASSUME NEW p \in Procs, CheckSource(p) PROVE LoginInv'
    BY <1>22 DEF CheckSource, Goto
  <1>23. ASSUME NEW p \in Procs, RestoreClear(p) PROVE LoginInv'
    BY <1>23 DEF RestoreClear, Goto, Hitch, Unnoticed, DeleteHostToken
  <1>24. ASSUME NEW p \in Procs, RestoreCopy(p) PROVE LoginInv'
    BY <1>24 DEF RestoreCopy, Goto, Hitch
  <1>25. ASSUME NEW p \in Procs, Crash(p) PROVE LoginInv'
    BY <1>25 DEF Crash, Return
  <1> QED
    BY <1>0, <1>1, <1>2, <1>3, <1>4, <1>5, <1>6, <1>7, <1>8, <1>9, <1>10, <1>11,
       <1>12, <1>13, <1>14, <1>15, <1>16, <1>17, <1>18, <1>19, <1>20, <1>21, <1>22,
       <1>23, <1>24, <1>25
       DEF Next, Begins, LogsIn, Removes, Activates, Switches

(* The types, the paths, the lock and the logins, in every state.          *)
LEMMA SpecInv == Spec => []Inv
  <1>1. Init => Inv
    BY DEF Init, Inv, PathInv, LockInv, LoginInv, Critical, Activating, Stored,
           BeforeChange, Logins
  <1>2. TypeOK /\ Inv /\ [Next]_vars => Inv'
    BY PathStep, LockStep, LoginStep DEF Inv
  <1> QED
    BY <1>1, <1>2, TypeCorrect, PTL DEF Spec

(* A login that reports success has made its user active and its own       *)
(* credential the one that is resolved.                                    *)
THEOREM LoginIsEffective == Spec => LoginTakesEffect
  <1>1. ASSUME TypeOK, Inv, NEW p \in Procs, Write(p), command[p] \in Logins
        PROVE  /\ disk'.active = who[p]
               /\ command[p] = "login" => who[p] \in plain
               /\ command[p] = "loginRefreshable" /\ p \notin missed
                    => who[p] \in refreshable \ plain
    <2>1. pc[p] = "write" /\ target[p] = who[p] /\ who[p] \in Users
      BY <1>1 DEF Write, Goto, Inv, LoginInv, PathInv, Activating, Locked
    <2>2. disk' = [mem[p] EXCEPT !.active = who[p]] /\ mem[p] \in Host
      BY <1>1, <2>1, NoUserAssumption DEF Write, Written, TypeOK
    <2>3. disk'.active = who[p]
      BY <2>2 DEF Host
    <2> QED
      BY <1>1, <2>1, <2>3 DEF Inv, LoginInv, Activating, Stored
  <1>2. TypeOK /\ Inv /\ [Next]_vars =>
          [\A p \in Procs :
             Write(p) /\ command[p] \in Logins
               => /\ disk'.active = who[p]
                  /\ command[p] = "login" => who[p] \in plain
                  /\ command[p] = "loginRefreshable" /\ p \notin missed
                       => who[p] \in refreshable \ plain]_vars
    BY <1>1
  <1> QED
    BY <1>2, SpecInv, TypeCorrect, PTL DEF Spec, LoginTakesEffect

-----------------------------------------------------------------------------
(* A set with fewer than two elements, and one with more.                  *)
LEMMA Few ==
    ASSUME NEW S, IsFiniteSet(S), NEW x
    PROVE  /\ Cardinality(S) < 2 /\ x \in S => S = {x}
           /\ Cardinality(S) >= 2 => S \ {x} # {}
  <1>1. Cardinality(S) \in Nat
    BY FS_CardinalityType
  <1>2. IsFiniteSet(S \ {x})
        /\ Cardinality(S \ {x}) = IF x \in S THEN Cardinality(S) - 1 ELSE Cardinality(S)
    BY FS_RemoveElement
  <1>3. Cardinality(S \ {x}) = 0 <=> S \ {x} = {}
    BY <1>2, FS_EmptySet
  <1>4. ASSUME Cardinality(S) < 2, x \in S PROVE S = {x}
    <2>1. Cardinality(S \ {x}) \in Nat
      BY <1>2, FS_CardinalityType
    <2>2. Cardinality(S \ {x}) = 0
      BY <1>1, <1>2, <1>4, <2>1
    <2> QED
      BY <1>3, <1>4, <2>2
  <1>5. ASSUME Cardinality(S) >= 2 PROVE S \ {x} # {}
    <2>1. Cardinality(S \ {x}) # 0
      BY <1>1, <1>2, <1>5
    <2> QED
      BY <1>3, <2>1
  <1> QED
    BY <1>4, <1>5

(* hosts.yml names one of its users as the active one, if it has any: also *)
(* when processes overwrite each other's files, unlocked ones too, for     *)
(* each writes what it has read changed by its own call (Login, Logout,    *)
(* SwitchUser, configSet), of which any step may fail.                     *)
Known(h) == IF h.users = {} THEN h.active = NoUser ELSE h.active \in h.users

ActiveIsKnown == Known(disk)

(* What a call has read, and what it is about to write, names an active    *)
(* user whom it knows.                                                     *)
KnownInv ==
    /\ Known(disk)
    /\ \A p \in Procs :
        /\ pc[p] \in {"lock", "source"} \cup BeforeChange => Known(mem[p])
        /\ pc[p] \in {"clearHost"} \cup Activating => Known(Written(p))
        /\ pc[p] = "source" => target[p] \in mem[p].users

(* The three changes a call makes to what it has read.                     *)
LEMMA KnownFacts ==
    ASSUME NEW h \in Host, NEW u \in Users
    PROVE  /\ Known(NoHost)
           /\ Known([[h EXCEPT !.users = @ \cup {u}] EXCEPT !.active = u])
           /\ u \in h.users => Known([h EXCEPT !.active = u])
           /\ Known(h) /\ h.active # u /\ h.users \ {u} # {} => Known([h EXCEPT !.users = @ \ {u}])
  BY DEF Host, NoHost, Known

LEMMA KnownStep ==
    ASSUME TypeOK, Inv, KnownInv, [Next]_vars
    PROVE  KnownInv'
  <1> USE NoUserAssumption
      DEF keyring, call, history, Activating, BeforeChange, Logins, Locked, TypeOK, Inv, PathInv,
          KnownInv
  <1>0. CASE UNCHANGED vars
    BY <1>0 DEF vars, Written
  <1>1. ASSUME NEW p \in Procs, Begins(p) PROVE KnownInv'
    <2>1. /\ pc[p] = "idle" /\ mem' = [mem EXCEPT ![p] = disk] /\ disk' = disk
          /\ \E x \in {"lock", "source", "write"} : pc' = [pc EXCEPT ![p] = x]
          /\ \A q \in Procs \ {p} : target'[q] = target[q]
      BY <1>1 DEF Begins, BeginLogin, BeginLogout, BeginRefresh, BeginSwitch, BeginConfigSet,
                  Begin, Goto
    <2>2. pc'[p] = "source" => target'[p] \in disk.users
      BY <1>1 DEF Begins, BeginLogin, BeginLogout, BeginRefresh, BeginSwitch, BeginConfigSet,
                  Begin, Goto
    <2>3. pc'[p] = "write" => target'[p] = NoUser
      BY <1>1 DEF Begins, BeginLogin, BeginLogout, BeginRefresh, BeginSwitch, BeginConfigSet,
                  Begin, Goto
    <2> QED
      BY <2>1, <2>2, <2>3 DEF Written
  <1>2. ASSUME NEW p \in Procs, Lock(p) PROVE KnownInv'
    <2>1. /\ pc[p] = "lock" /\ UNCHANGED <<disk, target>>
          /\ \E x \in {"store", "reread", "dropRefreshable", "leave"} : pc' = [pc EXCEPT ![p] = x]
          /\ mem' = [mem EXCEPT ![p] = disk] \/ mem' = mem
      BY <1>2 DEF Lock, Goto, FirstStep
    <2> QED
      BY <2>1 DEF Written
  <1>3. ASSUME NEW p \in Procs, Leave(p) \/ Crash(p) PROVE KnownInv'
    BY <1>3 DEF Leave, Crash, Return, Written
  <1>4. ASSUME NEW p \in Procs,
               \/ Store(p) \/ StoreFails(p) \/ Purge(p) \/ RecheckFails(p) \/ Reread(p)
               \/ DropRefreshable(p)
        PROVE KnownInv'
    <2>1. /\ UNCHANGED <<disk, mem, target>> /\ pc[p] \in BeforeChange
          /\ \E x \in {"leave"} \cup BeforeChange : pc' = [pc EXCEPT ![p] = x]
      BY <1>4 DEF Store, StoreFails, Purge, RecheckFails, Reread, DropRefreshable, Goto
    <2> QED
      BY <2>1 DEF Written
  <1>5. ASSUME NEW p \in Procs, Recheck(p) PROVE KnownInv'
    <2>1. /\ pc[p] = "recheck" /\ pc' = [pc EXCEPT ![p] = "clear"] /\ disk' = disk
          /\ mem' = [mem EXCEPT ![p].users = @ \cup {who[p]}]
          /\ target' = [target EXCEPT ![p] = who[p]]
      BY <1>5 DEF Recheck, Goto
    <2>2. who[p] \in Users /\ who[p] # NoUser /\ mem[p] \in Host
      BY <2>1
    <2>3. Written(p)' = [[mem[p] EXCEPT !.users = @ \cup {who[p]}] EXCEPT !.active = who[p]]
      BY <2>1, <2>2 DEF Written
    <2>4. Known(Written(p))'
      BY <2>2, <2>3, KnownFacts DEF Known
    <2> QED
      BY <2>1, <2>4 DEF Written
  <1>6. ASSUME NEW p \in Procs, DropPlain(p) PROVE KnownInv'
    <2>1. /\ pc[p] = "dropPlain" /\ disk' = disk /\ mem[p] \in Host /\ Known(mem[p])
          /\ target[p] = NoUser /\ who[p] \in Users
      BY <1>6 DEF DropPlain, Forget, Goto
    <2>2. CASE command[p] # "logout"
      BY <1>6, <2>1, <2>2 DEF DropPlain, Goto, Written
    <2>3. CASE /\ mem' = [mem EXCEPT ![p] = NoHost] /\ UNCHANGED target
               /\ pc' = [pc EXCEPT ![p] = "clearHost"]
      <3>1. Written(p)' = NoHost
        BY <2>1, <2>3 DEF Written
      <3> QED
        BY <2>1, <2>3, <3>1, KnownFacts DEF Known, Written
    <2>4. CASE /\ mem' = [mem EXCEPT ![p].users = mem[p].users \ {who[p]}]
               /\ \E u \in mem[p].users \ {who[p]} : target' = [target EXCEPT ![p] = u]
               /\ pc' = [pc EXCEPT ![p] = "clear"]
      <3>1. Written(p)'.users = mem[p].users \ {who[p]} /\ Written(p)'.active \in mem[p].users \ {who[p]}
        BY <2>1, <2>4 DEF Written, Host
      <3>2. Known(Written(p))'
        BY <3>1 DEF Known
      <3> QED
        BY <2>1, <2>4, <3>2 DEF Known, Written
    <2>5. CASE /\ mem' = [mem EXCEPT ![p].users = mem[p].users \ {who[p]}]
               /\ mem[p].active # who[p] /\ UNCHANGED target
               /\ Cardinality(mem[p].users) >= 2
               /\ pc' = [pc EXCEPT ![p] = "write"]
      <3>1. Written(p)' = [mem[p] EXCEPT !.users = @ \ {who[p]}]
        BY <2>1, <2>5 DEF Written
      <3>2. mem[p].users \ {who[p]} # {}
        BY <2>1, <2>5, UsersAssumption, FS_Subset, Few DEF Host
      <3>3. Known(Written(p))'
        BY <2>1, <2>5, <3>1, <3>2, KnownFacts DEF Known
      <3> QED
        BY <2>1, <2>5, <3>3 DEF Known, Written
    <2> QED
      BY <1>6, <2>1, <2>2, <2>3, <2>4, <2>5 DEF DropPlain, Forget, Goto
  <1>7. ASSUME NEW p \in Procs, ClearHost(p) \/ Clear(p) \/ Copy(p) PROVE KnownInv'
    <2>1. /\ UNCHANGED <<disk, mem, target>> /\ pc[p] \in {"clearHost", "clear", "copy"}
          /\ \E x \in {"copy", "write"} : pc' = [pc EXCEPT ![p] = x]
      BY <1>7 DEF ClearHost, Clear, Copy, Goto
    <2> QED
      BY <2>1 DEF Written
  <1>8. ASSUME NEW p \in Procs, CopyFails(p) \/ WriteFails(p) PROVE KnownInv'
    <2>1. /\ UNCHANGED <<disk, mem, target>>
          /\ \E x \in {"leave", "restoreClear"} : pc' = [pc EXCEPT ![p] = x]
      BY <1>8 DEF CopyFails, WriteFails, Goto, AfterFailure
    <2> QED
      BY <2>1 DEF Written
  <1>9. ASSUME NEW p \in Procs, Write(p) PROVE KnownInv'
    <2>1. /\ pc[p] = "write" /\ disk' = Written(p) /\ UNCHANGED <<mem, target>>
          /\ pc' = [pc EXCEPT ![p] = "leave"]
      BY <1>9 DEF Write, Goto
    <2>2. Known(disk)'
      BY <2>1 DEF Known
    <2> QED
      BY <2>1, <2>2 DEF Written
  <1>10. ASSUME NEW p \in Procs, CheckSource(p) PROVE KnownInv'
    <2>1. /\ pc[p] = "source" /\ UNCHANGED <<disk, mem, target>>
          /\ \E x \in {"clear", "leave"} : pc' = [pc EXCEPT ![p] = x]
      BY <1>10 DEF CheckSource, Goto
    <2>2. Known([mem[p] EXCEPT !.active = target[p]]) /\ mem[p].users \subseteq Users
      BY <2>1, KnownFacts DEF Host
    <2>3. Known(Written(p))
      BY <2>1, <2>2 DEF Written
    <2> QED
      BY <2>1, <2>3 DEF Written
  <1>11. ASSUME NEW p \in Procs, RestoreClear(p) \/ RestoreCopy(p) PROVE KnownInv'
    <2>1. /\ UNCHANGED <<disk, mem, target>>
          /\ \E x \in {"restoreCopy", "leave"} : pc' = [pc EXCEPT ![p] = x]
      BY <1>11 DEF RestoreClear, RestoreCopy, Goto
    <2> QED
      BY <2>1 DEF Written
  <1> QED
    BY <1>0, <1>1, <1>2, <1>3, <1>4, <1>5, <1>6, <1>7, <1>8, <1>9, <1>10, <1>11
       DEF Next, LogsIn, Removes, Activates, Switches

LEMMA SpecKnown == Spec => []KnownInv
  <1>1. Init => KnownInv
    BY NoUserAssumption DEF Init, KnownInv, Known, NoHost, BeforeChange, Activating
  <1>2. TypeOK /\ Inv /\ KnownInv /\ [Next]_vars => KnownInv'
    BY KnownStep
  <1> QED
    BY <1>1, <1>2, SpecInv, TypeCorrect, PTL DEF Spec

(* ActiveIsKnown: whatever commands run beside each other, locked or not,  *)
(* and whatever fails, hosts.yml names a known user as the active one.     *)
THEOREM ActiveUserIsKnown == Spec => []ActiveIsKnown
  <1>1. KnownInv => ActiveIsKnown
    BY DEF KnownInv, ActiveIsKnown
  <1> QED
    BY <1>1, SpecKnown, PTL

-----------------------------------------------------------------------------
(* From here on every command takes the lock: only its holder writes.      *)
LEMMA AloneInside ==
    ASSUME OnlyLocked, TypeOK, Inv, NEW p \in Procs, NEW q \in Procs,
           pc[p] \in Critical, pc[q] \in Critical
    PROVE  p = q
  <1>1. pc[p] # "idle" /\ pc[q] # "idle"
    BY DEF Critical, Activating
  <1> QED
    BY <1>1 DEF Inv, LockInv, PathInv, OnlyLocked

(* Nobody is in the unlocked steps of SwitchUser.                          *)
LEMMA NoSwitch ==
    ASSUME OnlyLocked, TypeOK, Inv, NEW p \in Procs, pc[p] # "idle"
    PROVE  command[p] # "switch" /\ command[p] # "configSet" /\ command[p] \in Locked
  BY DEF Inv, PathInv, OnlyLocked, Locked, Logins

(* Nobody else is past the start of its call.                              *)
Exclusive ==
    \A p, q \in Procs :
        pc[p] \notin {"idle", "lock"} /\ pc[q] \notin {"idle", "lock"} => p = q

LEMMA LockedExclusive ==
    ASSUME OnlyLocked, TypeOK, Inv
    PROVE  Exclusive
  <1>1. ASSUME NEW p \in Procs, pc[p] \notin {"idle", "lock"}
        PROVE  pc[p] \in Critical
    BY <1>1, NoSwitch DEF Inv, PathInv, TypeOK, Pcs
  <1> QED
    BY <1>1, AloneInside DEF Exclusive

(* The copy in memory differs from the file by the call's own user only.   *)
LEMMA MemoryStep ==
    ASSUME Exclusive, TypeOK, Inv, MemoryInv, [Next]_vars
    PROVE  MemoryInv'
  <1> USE DEF keyring, call, history, Critical, Activating, Stored, BeforeChange, Settled,
          Logins, Locked, Exclusive, TypeOK, Inv, PathInv, LoginInv, MemoryInv
  <1>0. CASE UNCHANGED vars
    BY <1>0 DEF vars
  <1>1. ASSUME NEW p \in Procs, NEW u \in Users, BeginLogin(p, u) PROVE MemoryInv'
    BY <1>1 DEF BeginLogin, Begin, Goto
  <1>2. ASSUME NEW p \in Procs, NEW u \in Users, BeginLogout(p, u) PROVE MemoryInv'
    BY <1>2 DEF BeginLogout, Begin, Goto
  <1>3. ASSUME NEW p \in Procs, NEW u \in Users, BeginRefresh(p, u) PROVE MemoryInv'
    BY <1>3 DEF BeginRefresh, Begin, Goto
  <1>4. ASSUME NEW p \in Procs, NEW u \in Users, BeginSwitch(p, u) PROVE MemoryInv'
    BY <1>4 DEF BeginSwitch, Begin, Goto
  <1>5. ASSUME NEW p \in Procs, BeginConfigSet(p) PROVE MemoryInv'
    BY <1>5 DEF BeginConfigSet, Begin, Goto
  <1>6. ASSUME NEW p \in Procs, Lock(p) PROVE MemoryInv'
    <2>1. FirstStep(command[p]) =
            IF command[p] \in Logins THEN "store"
            ELSE IF command[p] = "refresh" THEN "reread" ELSE "dropRefreshable"
      BY DEF FirstStep
    <2> QED
      BY <1>6, <2>1 DEF Lock, Goto
  <1>7. ASSUME NEW p \in Procs, Leave(p) PROVE MemoryInv'
    BY <1>7 DEF Leave, Return
  <1>8. ASSUME NEW p \in Procs, Store(p) PROVE MemoryInv'
    BY <1>8 DEF Store, Goto
  <1>9. ASSUME NEW p \in Procs, StoreFails(p) PROVE MemoryInv'
    BY <1>9 DEF StoreFails, Goto
  <1>10. ASSUME NEW p \in Procs, Purge(p) PROVE MemoryInv'
    BY <1>10 DEF Purge, Goto, Hitch
  <1>11. ASSUME NEW p \in Procs, Recheck(p) PROVE MemoryInv'
    BY <1>11 DEF Recheck, Goto, Surviving, Hitch, Unnoticed
  <1>12. ASSUME NEW p \in Procs, RecheckFails(p) PROVE MemoryInv'
    BY <1>12 DEF RecheckFails, Goto, Surviving
  <1>13. ASSUME NEW p \in Procs, Reread(p) PROVE MemoryInv'
    BY <1>13 DEF Reread, Goto
  <1>14. ASSUME NEW p \in Procs, DropRefreshable(p) PROVE MemoryInv'
    BY <1>14 DEF DropRefreshable, Goto, Hitch, Unnoticed
  <1>15. ASSUME NEW p \in Procs, DropPlain(p) PROVE MemoryInv'
    <2>1. pc[p] = "dropPlain" /\ mem[p] = disk /\ target[p] = NoUser /\ disk \in Host
      BY <1>15 DEF DropPlain, Forget, Goto, MemoryInv
    <2>2. IsFiniteSet(disk.users)
      BY <2>1, UsersAssumption, FS_Subset DEF Host
    <2>3. Cardinality(disk.users) \in Nat
      BY <2>2, FS_CardinalityType
    <2>4. Cardinality(disk.users) >= 2 => disk.users \ {who[p]} # {}
      BY <2>2, Few
    <2>5. CASE command[p] # "logout"
      BY <1>15, <2>1, <2>5 DEF DropPlain, Goto, Unnoticed, Hitch, MemoryInv
    <2>6. CASE command[p] = "logout" /\ Cardinality(disk.users) < 2
      <3>1. /\ pc' = [pc EXCEPT ![p] = "clearHost"] /\ mem' = [mem EXCEPT ![p] = NoHost]
            /\ disk' = disk /\ command' = command /\ who' = who /\ target' = target
        BY <1>15, <2>1, <2>3, <2>6 DEF DropPlain, Goto, Forget
      <3> QED
        BY <1>15, <2>1, <2>6, <3>1 DEF MemoryInv
    <2>7. CASE command[p] = "logout" /\ Cardinality(disk.users) >= 2
      <3>1. mem' = [mem EXCEPT ![p].users = disk.users \ {who[p]}]
        BY <1>15, <2>1, <2>3, <2>7 DEF DropPlain, Forget
      <3>2. mem'[p].users = disk.users \ {who[p]} /\ mem'[p].active = disk.active
        BY <3>1, <2>1 DEF Host
      <3>3. disk' = disk /\ command' = command /\ who' = who
        BY <1>15 DEF DropPlain
      <3>4. CASE disk.active = who[p]
        BY <1>15, <2>1, <2>3, <2>4, <2>7, <3>1, <3>2, <3>3, <3>4 DEF DropPlain, Goto,
           Unnoticed, Hitch, Forget, MemoryInv
      <3>5. CASE disk.active # who[p]
        <4>1. pc' = [pc EXCEPT ![p] = "write"] /\ target' = target
          BY <1>15, <2>1, <2>3, <2>7, <3>5 DEF DropPlain, Forget, Goto
        <4> QED
          BY <2>1, <2>4, <2>7, <3>1, <3>2, <3>3, <3>5, <4>1 DEF MemoryInv
      <3> QED
        BY <3>4, <3>5
    <2> QED
      BY <2>3, <2>5, <2>6, <2>7
  <1>16. ASSUME NEW p \in Procs, ClearHost(p) PROVE MemoryInv'
    BY <1>16 DEF ClearHost, Goto, Hitch, Unnoticed, DeleteHostToken
  <1>17. ASSUME NEW p \in Procs, Clear(p) PROVE MemoryInv'
    BY <1>17 DEF Clear, Goto, Hitch, Unnoticed, DeleteHostToken
  <1>18. ASSUME NEW p \in Procs, Copy(p) PROVE MemoryInv'
    BY <1>18 DEF Copy, Goto, Hitch, Unnoticed
  <1>19. ASSUME NEW p \in Procs, CopyFails(p) PROVE MemoryInv'
    BY <1>19 DEF CopyFails, Goto, Hitch, AfterFailure
  <1>20. ASSUME NEW p \in Procs, Write(p) PROVE MemoryInv'
    BY <1>20 DEF Write, Goto, Settles, Written
  <1>21. ASSUME NEW p \in Procs, WriteFails(p) PROVE MemoryInv'
    BY <1>21 DEF WriteFails, Goto, Hitch, AfterFailure
  <1>22. ASSUME NEW p \in Procs, CheckSource(p) PROVE MemoryInv'
    BY <1>22 DEF CheckSource, Goto
  <1>23. ASSUME NEW p \in Procs, RestoreClear(p) PROVE MemoryInv'
    BY <1>23 DEF RestoreClear, Goto, Hitch, Unnoticed, DeleteHostToken
  <1>24. ASSUME NEW p \in Procs, RestoreCopy(p) PROVE MemoryInv'
    BY <1>24 DEF RestoreCopy, Goto, Hitch
  <1>25. ASSUME NEW p \in Procs, Crash(p) PROVE MemoryInv'
    BY <1>25 DEF Crash, Return
  <1> QED
    BY <1>0, <1>1, <1>2, <1>3, <1>4, <1>5, <1>6, <1>7, <1>8, <1>9, <1>10, <1>11,
       <1>12, <1>13, <1>14, <1>15, <1>16, <1>17, <1>18, <1>19, <1>20, <1>21, <1>22,
       <1>23, <1>24, <1>25
       DEF Next, Begins, LogsIn, Removes, Activates, Switches

(* What a logout removes stays away.                                       *)
LEMMA LogoutStep ==
    ASSUME OnlyLocked, TypeOK, Inv, LockedInv, [Next]_vars
    PROVE  LogoutInv'
  <1>a. \A p, q \in Procs : pc[p] \in Critical /\ pc[q] \in Critical => p = q
    BY AloneInside
  <1>b. \A p \in Procs : pc[p] # "idle" =>
            command[p] # "switch" /\ command[p] # "configSet" /\ command[p] \in Locked
    BY NoSwitch
  <1> USE <1>a, <1>b
      DEF keyring, call, history, Critical, Activating, Stored, BeforeChange, Settled,
          Logins, Locked, OnlyLocked, TypeOK, Inv, PathInv, LoginInv, LockedInv, LogoutInv, HasToken
  <1>0. CASE UNCHANGED vars
    BY <1>0 DEF vars
  <1>1. ASSUME NEW p \in Procs, NEW u \in Users, BeginLogin(p, u) PROVE LogoutInv'
    BY <1>1 DEF BeginLogin, Begin, Goto
  <1>2. ASSUME NEW p \in Procs, NEW u \in Users, BeginLogout(p, u) PROVE LogoutInv'
    BY <1>2 DEF BeginLogout, Begin, Goto
  <1>3. ASSUME NEW p \in Procs, NEW u \in Users, BeginRefresh(p, u) PROVE LogoutInv'
    BY <1>3 DEF BeginRefresh, Begin, Goto
  <1>4. ASSUME NEW p \in Procs, NEW u \in Users, BeginSwitch(p, u) PROVE LogoutInv'
    BY <1>4 DEF BeginSwitch, Begin, Goto
  <1>5. ASSUME NEW p \in Procs, BeginConfigSet(p) PROVE LogoutInv'
    BY <1>5 DEF BeginConfigSet, Begin, Goto
  <1>6. ASSUME NEW p \in Procs, Lock(p) PROVE LogoutInv'
    <2>1. FirstStep(command[p]) =
            IF command[p] \in Logins THEN "store"
            ELSE IF command[p] = "refresh" THEN "reread" ELSE "dropRefreshable"
      BY DEF FirstStep
    <2> QED
      BY <1>6, <2>1 DEF Lock, Goto
  <1>7. ASSUME NEW p \in Procs, Leave(p) PROVE LogoutInv'
    BY <1>7 DEF Leave, Return
  <1>8. ASSUME NEW p \in Procs, Store(p) PROVE LogoutInv'
    BY <1>8 DEF Store, Goto
  <1>9. ASSUME NEW p \in Procs, StoreFails(p) PROVE LogoutInv'
    BY <1>9 DEF StoreFails, Goto
  <1>10. ASSUME NEW p \in Procs, Purge(p) PROVE LogoutInv'
    BY <1>10 DEF Purge, Goto, Hitch
  <1>11. ASSUME NEW p \in Procs, Recheck(p) PROVE LogoutInv'
    BY <1>11 DEF Recheck, Goto, Surviving, Hitch, Unnoticed
  <1>12. ASSUME NEW p \in Procs, RecheckFails(p) PROVE LogoutInv'
    BY <1>12 DEF RecheckFails, Goto, Surviving
  <1>13. ASSUME NEW p \in Procs, Reread(p) PROVE LogoutInv'
    BY <1>13 DEF Reread, Goto
  <1>14. ASSUME NEW p \in Procs, DropRefreshable(p) PROVE LogoutInv'
    BY <1>14 DEF DropRefreshable, Goto, Hitch, Unnoticed
  <1>15. ASSUME NEW p \in Procs, DropPlain(p) PROVE LogoutInv'
    BY <1>15 DEF DropPlain, Goto, Hitch, Unnoticed, Forget
  <1>16. ASSUME NEW p \in Procs, ClearHost(p) PROVE LogoutInv'
    BY <1>16 DEF ClearHost, Goto, Hitch, Unnoticed, DeleteHostToken
  <1>17. ASSUME NEW p \in Procs, Clear(p) PROVE LogoutInv'
    BY <1>17 DEF Clear, Goto, Hitch, Unnoticed, DeleteHostToken
  <1>18. ASSUME NEW p \in Procs, Copy(p) PROVE LogoutInv'
    BY <1>18 DEF Copy, Goto, Hitch, Unnoticed
  <1>19. ASSUME NEW p \in Procs, CopyFails(p) PROVE LogoutInv'
    BY <1>19 DEF CopyFails, Goto, Hitch, AfterFailure
  <1>20. ASSUME NEW p \in Procs, Write(p) PROVE LogoutInv'
    BY <1>20 DEF Write, Goto, Settles, Written
  <1>21. ASSUME NEW p \in Procs, WriteFails(p) PROVE LogoutInv'
    BY <1>21 DEF WriteFails, Goto, Hitch, AfterFailure
  <1>22. ASSUME NEW p \in Procs, CheckSource(p) PROVE LogoutInv'
    BY <1>22 DEF CheckSource, Goto
  <1>23. ASSUME NEW p \in Procs, RestoreClear(p) PROVE LogoutInv'
    BY <1>23 DEF RestoreClear, Goto, Hitch, Unnoticed, DeleteHostToken
  <1>24. ASSUME NEW p \in Procs, RestoreCopy(p) PROVE LogoutInv'
    BY <1>24 DEF RestoreCopy, Goto, Hitch
  <1>25. ASSUME NEW p \in Procs, Crash(p) PROVE LogoutInv'
    BY <1>25 DEF Crash, Return
  <1> QED
    BY <1>0, <1>1, <1>2, <1>3, <1>4, <1>5, <1>6, <1>7, <1>8, <1>9, <1>10, <1>11,
       <1>12, <1>13, <1>14, <1>15, <1>16, <1>17, <1>18, <1>19, <1>20, <1>21, <1>22,
       <1>23, <1>24, <1>25
       DEF Next, Begins, LogsIn, Removes, Activates, Switches

(* The host's item comes back to the active user.                          *)
LEMMA ItemStep ==
    ASSUME OnlyLocked, TypeOK, Inv, LockedInv, [Next]_vars
    PROVE  ItemInv'
  <1>a. \A p, q \in Procs : pc[p] \in Critical /\ pc[q] \in Critical => p = q
    BY AloneInside
  <1>b. \A p \in Procs : pc[p] # "idle" =>
            command[p] # "switch" /\ command[p] # "configSet" /\ command[p] \in Locked
    BY NoSwitch
  <1> USE <1>a, <1>b
      DEF keyring, call, history, Critical, Activating, Stored, BeforeChange, Settled,
          Logins, Locked, OnlyLocked, TypeOK, Inv, PathInv, LoginInv, LockedInv, MemoryInv, ItemInv, Agree, Surviving, HasToken
  <1>0. CASE UNCHANGED vars
    BY <1>0 DEF vars
  <1>1. ASSUME NEW p \in Procs, NEW u \in Users, BeginLogin(p, u) PROVE ItemInv'
    BY <1>1 DEF BeginLogin, Begin, Goto
  <1>2. ASSUME NEW p \in Procs, NEW u \in Users, BeginLogout(p, u) PROVE ItemInv'
    BY <1>2 DEF BeginLogout, Begin, Goto
  <1>3. ASSUME NEW p \in Procs, NEW u \in Users, BeginRefresh(p, u) PROVE ItemInv'
    BY <1>3 DEF BeginRefresh, Begin, Goto
  <1>4. ASSUME NEW p \in Procs, NEW u \in Users, BeginSwitch(p, u) PROVE ItemInv'
    BY <1>4 DEF BeginSwitch, Begin, Goto
  <1>5. ASSUME NEW p \in Procs, BeginConfigSet(p) PROVE ItemInv'
    BY <1>5 DEF BeginConfigSet, Begin, Goto
  <1>6. ASSUME NEW p \in Procs, Lock(p) PROVE ItemInv'
    <2>1. FirstStep(command[p]) =
            IF command[p] \in Logins THEN "store"
            ELSE IF command[p] = "refresh" THEN "reread" ELSE "dropRefreshable"
      BY DEF FirstStep
    <2> QED
      BY <1>6, <2>1 DEF Lock, Goto
  <1>7. ASSUME NEW p \in Procs, Leave(p) PROVE ItemInv'
    BY <1>7 DEF Leave, Return
  <1>8. ASSUME NEW p \in Procs, Store(p) PROVE ItemInv'
    BY <1>8 DEF Store, Goto
  <1>9. ASSUME NEW p \in Procs, StoreFails(p) PROVE ItemInv'
    BY <1>9 DEF StoreFails, Goto
  <1>10. ASSUME NEW p \in Procs, Purge(p) PROVE ItemInv'
    BY <1>10 DEF Purge, Goto, Hitch
  <1>11. ASSUME NEW p \in Procs, Recheck(p) PROVE ItemInv'
    BY <1>11 DEF Recheck, Goto, Surviving, Hitch, Unnoticed
  <1>12. ASSUME NEW p \in Procs, RecheckFails(p) PROVE ItemInv'
    BY <1>12 DEF RecheckFails, Goto, Surviving
  <1>13. ASSUME NEW p \in Procs, Reread(p) PROVE ItemInv'
    BY <1>13 DEF Reread, Goto
  <1>14. ASSUME NEW p \in Procs, DropRefreshable(p) PROVE ItemInv'
    BY <1>14 DEF DropRefreshable, Goto, Hitch, Unnoticed
  <1>15. ASSUME NEW p \in Procs, DropPlain(p) PROVE ItemInv'
    <2>1. pc[p] = "dropPlain" /\ mem[p] = disk /\ target[p] = NoUser /\ disk \in Host
      BY <1>15 DEF DropPlain, Forget, Goto, MemoryInv
    <2>2. IsFiniteSet(disk.users)
      BY <2>1, UsersAssumption, FS_Subset DEF Host
    <2>3. Cardinality(disk.users) \in Nat
      BY <2>2, FS_CardinalityType
    <2>4. Cardinality(disk.users) >= 2 => disk.users \ {who[p]} # {}
      BY <2>2, Few
    <2>5. CASE command[p] # "logout"
      BY <1>15, <2>1, <2>5 DEF DropPlain, Goto, Unnoticed, Hitch, ItemInv
    <2>6. CASE command[p] = "logout" /\ Cardinality(disk.users) < 2
      <3>1. /\ pc' = [pc EXCEPT ![p] = "clearHost"] /\ mem' = [mem EXCEPT ![p] = NoHost]
            /\ disk' = disk /\ command' = command /\ who' = who /\ target' = target
        BY <1>15, <2>1, <2>3, <2>6 DEF DropPlain, Goto, Forget
      <3> QED
        BY <1>15, <2>1, <2>6, <3>1 DEF ItemInv
    <2>7. CASE command[p] = "logout" /\ Cardinality(disk.users) >= 2
      <3>1. mem' = [mem EXCEPT ![p].users = disk.users \ {who[p]}]
        BY <1>15, <2>1, <2>3, <2>7 DEF DropPlain, Forget
      <3>2. mem'[p].users = disk.users \ {who[p]} /\ mem'[p].active = disk.active
        BY <3>1, <2>1 DEF Host
      <3>3. disk' = disk /\ command' = command /\ who' = who
        BY <1>15 DEF DropPlain
      <3>4. CASE disk.active = who[p]
        BY <1>15, <2>1, <2>3, <2>4, <2>7, <3>1, <3>2, <3>3, <3>4 DEF DropPlain, Goto,
           Unnoticed, Hitch, Forget, ItemInv
      <3>5. CASE disk.active # who[p]
        <4>1. pc' = [pc EXCEPT ![p] = "write"] /\ target' = target
          BY <1>15, <2>1, <2>3, <2>7, <3>5 DEF DropPlain, Forget, Goto
        <4>2. torn' = {} => torn = {} /\ plain' = plain \ {who[p]} /\ hostToken' = hostToken
          BY <1>15, <2>7 DEF DropPlain, Unnoticed, Hitch
        <4>3. \A q \in Procs : pc[q] \in Settled
          BY <2>1 DEF Pcs
        <4>4. torn' = {} => Agree'
          BY <4>2, <4>3, <3>3, <3>5 DEF ItemInv, Agree
        <4>5. mem'[p] # NoHost
          BY <2>4, <2>7, <3>2 DEF NoHost
        <4> QED
          BY <2>1, <2>4, <2>7, <3>1, <3>2, <3>3, <3>5, <4>1, <4>4, <4>5 DEF ItemInv
      <3> QED
        BY <3>4, <3>5
    <2> QED
      BY <2>3, <2>5, <2>6, <2>7
  <1>16. ASSUME NEW p \in Procs, ClearHost(p) PROVE ItemInv'
    BY <1>16 DEF ClearHost, Goto, Hitch, Unnoticed, DeleteHostToken
  <1>17. ASSUME NEW p \in Procs, Clear(p) PROVE ItemInv'
    BY <1>17 DEF Clear, Goto, Hitch, Unnoticed, DeleteHostToken
  <1>18. ASSUME NEW p \in Procs, Copy(p) PROVE ItemInv'
    <2>1. pc[p] = "copy" /\ pc' = [pc EXCEPT ![p] = "write"] /\ target[p] # NoUser
      BY <1>18, NoUserAssumption DEF Copy, Goto
    <2>2. /\ mem' = mem /\ command' = command /\ target' = target /\ plain' = plain
          /\ torn \subseteq torn'
      BY <1>18 DEF Copy, Unnoticed, Hitch
    <2>3. "host" \notin torn' => hostToken' = IF target[p] \in plain THEN target[p] ELSE NoUser
      BY <1>18, <2>1, <2>2 DEF Copy, Unnoticed, Hitch, ItemInv
    <2>4. command[p] = "logout" => mem[p] # NoHost
      BY <2>1 DEF MemoryInv, NoHost
    <2> QED
      BY <2>1, <2>2, <2>3, <2>4 DEF ItemInv
  <1>19. ASSUME NEW p \in Procs, CopyFails(p) PROVE ItemInv'
    BY <1>19 DEF CopyFails, Goto, Hitch, AfterFailure
  <1>20. ASSUME NEW p \in Procs, Write(p) PROVE ItemInv'
    <2>1. pc[p] = "write" /\ pc' = [pc EXCEPT ![p] = "leave"] /\ disk' = Written(p)
      BY <1>20 DEF Write, Goto
    <2>2. \A q \in Procs \ {p} : pc'[q] \notin Critical
      BY <2>1
    <2>3. plain' = plain /\ hostToken' = hostToken /\ torn' \subseteq torn
      BY <1>20 DEF Write
    <2>4. ASSUME torn' = {} PROVE Agree'
      <3>1. "host" \notin torn
        BY <1>20, <2>4 DEF Write
      <3>2. CASE target[p] # NoUser
        <4>1. disk' = [mem[p] EXCEPT !.active = target[p]] /\ mem[p] \in Host
          BY <2>1, <3>2 DEF Written
        <4>2. disk'.active = target[p]
          BY <4>1 DEF Host
        <4> QED
          BY <2>1, <2>3, <3>1, <3>2, <4>2 DEF ItemInv
      <3>3. CASE target[p] = NoUser
        <4>1. command[p] = "logout" /\ disk' = mem[p]
          BY <2>1, <3>3, NoUserAssumption DEF Written
        <4>2. CASE mem[p] = NoHost
          BY <2>1, <2>3, <3>1, <4>1, <4>2, NoUserAssumption DEF ItemInv, NoHost
        <4>3. CASE mem[p] # NoHost
          <5>1. torn = {}
            BY <1>20, <2>4, <3>3, <4>1, <4>3 DEF Write, Settles
          <5>2. mem[p].active = disk.active
            BY <2>1, <4>1, <4>3 DEF MemoryInv
          <5> QED
            BY <2>1, <2>3, <3>3, <4>1, <4>3, <5>1, <5>2 DEF ItemInv
        <4> QED
          BY <4>2, <4>3
      <3> QED
        BY <3>2, <3>3
    <2> QED
      BY <2>1, <2>2, <2>4 DEF ItemInv
  <1>21. ASSUME NEW p \in Procs, WriteFails(p) PROVE ItemInv'
    BY <1>21 DEF WriteFails, Goto, Hitch, AfterFailure
  <1>22. ASSUME NEW p \in Procs, CheckSource(p) PROVE ItemInv'
    BY <1>22 DEF CheckSource, Goto
  <1>23. ASSUME NEW p \in Procs, RestoreClear(p) PROVE ItemInv'
    BY <1>23 DEF RestoreClear, Goto, Hitch, Unnoticed, DeleteHostToken
  <1>24. ASSUME NEW p \in Procs, RestoreCopy(p) PROVE ItemInv'
    BY <1>24 DEF RestoreCopy, Goto, Hitch
  <1>25. ASSUME NEW p \in Procs, Crash(p) PROVE ItemInv'
    BY <1>25 DEF Crash, Return
  <1> QED
    BY <1>0, <1>1, <1>2, <1>3, <1>4, <1>5, <1>6, <1>7, <1>8, <1>9, <1>10, <1>11,
       <1>12, <1>13, <1>14, <1>15, <1>16, <1>17, <1>18, <1>19, <1>20, <1>21, <1>22,
       <1>23, <1>24, <1>25
       DEF Next, Begins, LogsIn, Removes, Activates, Switches

-----------------------------------------------------------------------------
(* With every command locked, the whole invariant, in every state.         *)
LEMMA SpecLockedInv ==
    ASSUME OnlyLocked
    PROVE  Spec => []LockedInv
  <1>1. Init => LockedInv
    BY NoUserAssumption
       DEF Init, LockedInv, MemoryInv, ItemInv, LogoutInv, BeforeChange, Activating, Agree, NoHost
  <1>2. TypeOK /\ Inv /\ LockedInv /\ [Next]_vars => LockedInv'
    BY LockedExclusive, MemoryStep, ItemStep, LogoutStep DEF LockedInv
  <1> QED
    BY <1>1, <1>2, SpecInv, TypeCorrect, PTL DEF Spec

(* Between calls, and with no failure outstanding, the host's item holds   *)
(* the active user's plain token or nothing.                               *)
THEOREM HostTokenIsActive ==
    ASSUME OnlyLocked
    PROVE  Spec => []HostTokenAgrees
  <1>1. LockedInv => HostTokenAgrees
    BY DEF LockedInv, ItemInv, HostTokenAgrees, Agree, Settled
  <1> QED
    BY <1>1, SpecLockedInv, PTL

(* A write under the lock touches no account but the call's own: whatever  *)
(* other processes have written to hosts.yml survives it.  There is one    *)
(* exception, the logout that finds its user gone: it removes the whole    *)
(* host, and with it the one account another process has left there.       *)
WritesOnlyItsOwnUser ==
    [][\A p \in Procs : Write(p) /\ command[p] \in Locked =>
         \/ disk'.users \ {who[p]} = disk.users \ {who[p]}
         \/ /\ command[p] = "logout" /\ who[p] \notin disk.users
            /\ disk' = NoHost /\ \E u \in Users : disk.users = {u}]_vars

(* The whole-file write of a locked call leaves every other account as the *)
(* call finds it, except that a logout whose user is gone by then removes  *)
(* the last remaining account: no other write under the lock does.         *)
THEOREM WritesAreLocal ==
    ASSUME OnlyLocked
    PROVE  Spec => WritesOnlyItsOwnUser
  <1>1. ASSUME TypeOK, Inv, LockedInv, NEW p \in Procs, Write(p), command[p] \in Locked
        PROVE  \/ disk'.users \ {who[p]} = disk.users \ {who[p]}
               \/ /\ command[p] = "logout" /\ who[p] \notin disk.users
                  /\ disk' = NoHost /\ \E u \in Users : disk.users = {u}
    <2>1. pc[p] = "write" /\ disk' = Written(p) /\ mem[p] \in Host /\ disk \in Host
      BY <1>1 DEF Write, Goto, TypeOK
    <2>2. disk'.users = mem[p].users
      BY <2>1 DEF Written, Host
    <2>3. command[p] \in Logins \cup {"logout"}
      BY <1>1, <2>1, NoSwitch DEF Inv, PathInv, Locked
    <2>4. CASE command[p] \in Logins
      BY <1>1, <2>1, <2>2, <2>4 DEF LockedInv, MemoryInv, Activating
    <2>5. CASE command[p] = "logout"
      <3>1. CASE mem[p].users = disk.users \ {who[p]}
        BY <1>1, <2>2, <3>1
      <3>2. CASE /\ mem[p] = NoHost /\ Cardinality(disk.users) < 2
                 /\ target[p] = NoUser
        <4>1. IsFiniteSet(disk.users) /\ disk.users \subseteq Users
          BY <2>1, UsersAssumption, FS_Subset DEF Host
        <4>2. disk' = NoHost /\ disk'.users = {}
          BY <2>1, <3>2 DEF Written, NoHost
        <4>3. CASE who[p] \in disk.users
          <5>1. disk.users = {who[p]}
            BY <3>2, <4>1, <4>3, Few
          <5> QED
            BY <4>2, <5>1
        <4>4. CASE disk.users = {}
          BY <4>2, <4>4
        <4>5. CASE who[p] \notin disk.users /\ disk.users # {}
          <5>1. PICK u \in disk.users : TRUE
            BY <4>5
          <5>2. disk.users = {u}
            BY <3>2, <4>1, <5>1, Few
          <5> QED
            BY <2>5, <4>1, <4>2, <4>5, <5>1, <5>2
        <4> QED
          BY <4>3, <4>4, <4>5
      <3> QED
        BY <1>1, <2>1, <2>5, <3>1, <3>2 DEF LockedInv, MemoryInv
    <2> QED
      BY <2>3, <2>4, <2>5
  <1>2. TypeOK /\ Inv /\ LockedInv /\ [Next]_vars =>
          [\A p \in Procs : Write(p) /\ command[p] \in Locked =>
             \/ disk'.users \ {who[p]} = disk.users \ {who[p]}
             \/ /\ command[p] = "logout" /\ who[p] \notin disk.users
                /\ disk' = NoHost /\ \E u \in Users : disk.users = {u}]_vars
    BY <1>1
  <1> QED
    BY <1>2, SpecLockedInv, SpecInv, TypeCorrect, PTL DEF Spec, WritesOnlyItsOwnUser

(* A logout that reports success, and none of whose removals failed, has   *)
(* left nothing of its user.                                               *)
THEOREM LogoutIsComplete ==
    ASSUME OnlyLocked
    PROVE  Spec => LogoutLeavesNothing
  <1>1. ASSUME TypeOK, Inv, LockedInv, NEW p \in Procs, Write(p),
               command[p] = "logout", p \notin missed, torn = {}
        PROVE  /\ ~HasToken(who[p]) /\ hostToken # who[p]
               /\ who[p] \notin disk'.users /\ who[p] # disk'.active
    <2>1. /\ pc[p] = "write" /\ disk' = Written(p) /\ mem[p] \in Host /\ disk \in Host
          /\ target[p] \in Users \cup {NoUser}
      BY <1>1 DEF Write, Goto, TypeOK
    <2>2. /\ disk'.users = mem[p].users
          /\ disk'.active = IF target[p] = NoUser THEN mem[p].active ELSE target[p]
      BY <2>1 DEF Written, Host
    <2>3. who[p] \in Users /\ who[p] # NoUser
      BY <1>1, <2>1, NoUserAssumption DEF Inv, PathInv, Locked
    <2>4. ~HasToken(who[p])
      BY <1>1, <2>1 DEF LockedInv, LogoutInv, Activating
    <2>5. CASE mem[p] = NoHost /\ target[p] = NoUser
      BY <1>1, <2>1, <2>2, <2>3, <2>4, <2>5 DEF LockedInv, ItemInv, NoHost
    <2>6. CASE /\ mem[p].users = disk.users \ {who[p]} /\ mem[p].users # {}
               /\ target[p] \in mem[p].users
      <3>1. target[p] # NoUser /\ target[p] # who[p]
        BY <2>1, <2>6, NoUserAssumption DEF Host
      <3> QED
        BY <1>1, <2>1, <2>2, <2>3, <2>4, <2>6, <3>1 DEF LockedInv, ItemInv
    <2>7. CASE /\ mem[p].users = disk.users \ {who[p]} /\ mem[p].users # {}
               /\ mem[p].active = disk.active
               /\ target[p] = NoUser /\ disk.active # who[p]
      <3>1. mem[p] # NoHost
        BY <2>7 DEF NoHost
      <3>2. Agree
        BY <1>1, <2>1, <2>7, <3>1 DEF LockedInv, ItemInv
      <3> QED
        BY <2>2, <2>3, <2>4, <2>7, <3>2 DEF Agree
    <2> QED
      BY <1>1, <2>1, <2>5, <2>6, <2>7 DEF LockedInv, MemoryInv
  <1>2. TypeOK /\ Inv /\ LockedInv /\ [Next]_vars =>
          [\A p \in Procs :
             Write(p) /\ command[p] = "logout" /\ p \notin missed /\ torn = {}
               => /\ ~HasToken(who[p]) /\ hostToken # who[p]
                  /\ who[p] \notin disk'.users /\ who[p] # disk'.active]_vars
    BY <1>1
  <1> QED
    BY <1>2, SpecLockedInv, SpecInv, TypeCorrect, PTL DEF Spec, LogoutLeavesNothing
-----------------------------------------------------------------------------
(* One process at a time, as a user at one terminal runs them, whatever    *)
(* its commands: what a call has read is what is in the file.              *)
OneProcess == \A p, q \in Procs : p = q

(* A call carries every user of the file along, but for the one it logs    *)
(* out.                                                                    *)
CarryInv ==
    \A p \in Procs : pc[p] \notin {"idle", "leave"} =>
        /\ pc[p] \in {"lock"} \cup BeforeChange => mem[p] = disk
        /\ command[p] = "logout" => who[p] \in disk.users
        /\ \A u \in disk.users \ mem[p].users : command[p] = "logout" /\ who[p] = u

LEMMA CarryStep ==
    ASSUME OneProcess, TypeOK, PathInv, CarryInv, [Next]_vars
    PROVE  CarryInv'
  <1> USE DEF keyring, call, history, Critical, Activating, BeforeChange, Logins, Locked,
              OneProcess, TypeOK, PathInv, CarryInv
  <1>0. CASE UNCHANGED vars
    BY <1>0 DEF vars
  <1>1. ASSUME NEW p \in Procs, Begins(p) PROVE CarryInv'
    <2>1. pc[p] = "idle" /\ mem'[p] = disk /\ disk' = disk
      BY <1>1 DEF Begins, BeginLogin, BeginLogout, BeginRefresh, BeginSwitch, BeginConfigSet,
                  Begin, Goto
    <2>2. command'[p] = "logout" => who'[p] \in disk.users
      BY <1>1 DEF Begins, BeginLogin, BeginLogout, BeginRefresh, BeginSwitch, BeginConfigSet, Begin
    <2> QED
      BY <2>1, <2>2
  <1>2. ASSUME NEW p \in Procs, Lock(p) PROVE CarryInv'
    <2>1. pc[p] = "lock" /\ UNCHANGED <<disk, command, who>>
      BY <1>2 DEF Lock, Goto
    <2>2. mem'[p] = disk
      BY <1>2, <2>1 DEF Lock
    <2> QED
      BY <2>1, <2>2
  <1>3. ASSUME NEW p \in Procs, Leave(p) \/ Crash(p) PROVE CarryInv'
    BY <1>3 DEF Leave, Crash, Return
  <1>4. ASSUME NEW p \in Procs,
               \/ Store(p) \/ StoreFails(p) \/ Purge(p) \/ RecheckFails(p) \/ Reread(p)
               \/ DropRefreshable(p)
        PROVE CarryInv'
    <2>1. UNCHANGED <<disk, mem, command, who>> /\ pc[p] \in BeforeChange
      BY <1>4 DEF Store, StoreFails, Purge, RecheckFails, Reread, DropRefreshable, Goto
    <2> QED
      BY <2>1
  <1>5. ASSUME NEW p \in Procs, Recheck(p) PROVE CarryInv'
    <2>1. /\ pc[p] = "recheck" /\ pc'[p] = "clear" /\ UNCHANGED <<disk, command, who>>
          /\ mem' = [mem EXCEPT ![p].users = @ \cup {who[p]}]
      BY <1>5 DEF Recheck, Goto
    <2>2. disk.users \subseteq mem'[p].users
      BY <2>1 DEF Host
    <2> QED
      BY <2>1, <2>2
  <1>6. ASSUME NEW p \in Procs, DropPlain(p) PROVE CarryInv'
    <2>1. pc[p] = "dropPlain" /\ mem[p] = disk /\ disk \in Host /\ UNCHANGED <<disk, command, who>>
      BY <1>6 DEF DropPlain, Forget, Goto
    <2>2. CASE command[p] # "logout"
      BY <1>6, <2>1, <2>2 DEF DropPlain, Goto
    <2>3. CASE command[p] = "logout"
      <3>1. who[p] \in disk.users /\ IsFiniteSet(disk.users)
        BY <2>1, <2>3, UsersAssumption, FS_Subset DEF Host
      <3>2. CASE mem' = [mem EXCEPT ![p] = NoHost] /\ Cardinality(disk.users) < 2
        <4>1. disk.users = {who[p]}
          BY <3>1, <3>2, Few
        <4> QED
          BY <1>6, <2>1, <2>3, <3>1, <3>2, <4>1 DEF DropPlain, Forget, Goto
      <3>3. CASE mem' = [mem EXCEPT ![p].users = disk.users \ {who[p]}]
        <4>1. mem'[p].users = disk.users \ {who[p]}
          BY <2>1, <3>3 DEF Host
        <4>2. pc'[p] \in {"clearHost", "clear", "write"}
          BY <1>6, <2>3 DEF DropPlain, Forget, Goto
        <4> QED
          BY <2>1, <2>3, <3>1, <4>1, <4>2
      <3> QED
        BY <1>6, <2>1, <2>3, <3>2, <3>3 DEF DropPlain, Forget
    <2> QED
      BY <2>2, <2>3
  <1>7. ASSUME NEW p \in Procs,
               \/ ClearHost(p) \/ Clear(p) \/ Copy(p) \/ CopyFails(p) \/ WriteFails(p)
               \/ CheckSource(p) \/ RestoreClear(p) \/ RestoreCopy(p)
        PROVE CarryInv'
    <2>1. UNCHANGED <<disk, mem, command, who>> /\ pc[p] \notin {"idle", "leave"}
      BY <1>7 DEF ClearHost, Clear, Copy, CopyFails, WriteFails, CheckSource, RestoreClear,
                  RestoreCopy, Goto
    <2>2. pc'[p] \notin {"lock"} \cup BeforeChange
      BY <1>7 DEF ClearHost, Clear, Copy, CopyFails, WriteFails, CheckSource, RestoreClear,
                  RestoreCopy, Goto, AfterFailure
    <2> QED
      BY <2>1, <2>2
  <1>8. ASSUME NEW p \in Procs, Write(p) PROVE CarryInv'
    BY <1>8 DEF Write, Goto
  <1> QED
    BY <1>0, <1>1, <1>2, <1>3, <1>4, <1>5, <1>6, <1>7, <1>8
       DEF Next, LogsIn, Removes, Activates, Switches

(* NoAccountLost: in one process at a time no command, and no failure of   *)
(* one, takes an account out of hosts.yml but its own logout (Logout,      *)
(* SwitchUser and configSet write the whole file).                         *)
THEOREM AccountsStay ==
    ASSUME OneProcess
    PROVE  Spec => NoAccountLost
  <1>1. Init => CarryInv
    BY DEF Init, CarryInv
  <1>2. TypeOK /\ PathInv /\ CarryInv /\ [Next]_vars => CarryInv'
    BY CarryStep
  <1>3. ASSUME TypeOK, CarryInv, Next, NEW u \in disk.users \ disk'.users
        PROVE  \E p \in Procs : Write(p) /\ command[p] = "logout" /\ who[p] = u
    <2>1. PICK p \in Procs : Write(p)
      BY <1>3
      DEF Next, Begins, BeginLogin, BeginLogout, BeginRefresh, BeginSwitch, BeginConfigSet, Begin,
          Lock, LogsIn, Store, StoreFails, Purge, Recheck, RecheckFails, Removes, Reread,
          DropRefreshable, DropPlain, ClearHost, Activates, Clear, Copy, CopyFails, WriteFails,
          Switches, CheckSource, RestoreClear, RestoreCopy, Leave, Crash
    <2>2. pc[p] = "write" /\ disk' = Written(p) /\ mem[p] \in Host
      BY <1>3, <2>1 DEF Write, Goto, TypeOK
    <2>3. disk'.users = mem[p].users
      BY <2>2 DEF Written, Host
    <2> QED
      BY <1>3, <2>1, <2>2, <2>3 DEF CarryInv
  <1>4. TypeOK /\ CarryInv /\ [Next]_vars =>
          [\A u \in disk.users \ disk'.users :
             \E p \in Procs : Write(p) /\ command[p] = "logout" /\ who[p] = u]_vars
    BY <1>3
  <1>5. Spec => []PathInv
    BY SpecInv, PTL DEF Inv
  <1> QED
    BY <1>1, <1>2, <1>4, <1>5, TypeCorrect, PTL DEF Spec, NoAccountLost

(* The host's item on the way from one agreement to the next, with         *)
(* switches and their restorations.                                        *)
Rewriting == {"clear", "copy", "restoreClear", "restoreCopy"}
ForgetsHost(p) == command[p] = "logout" /\ mem[p] = NoHost

SoleInv ==
    /\ (\A p \in Procs : pc[p] \in Settled \cup {"source"}) /\ torn = {} => Agree
    /\ \A p \in Procs :
        /\ command[p] = "switch" /\ pc[p] \in {"source", "write"} \cup Rewriting =>
              mem[p].active = disk.active /\ target[p] # NoUser
        /\ pc[p] = "recheck" /\ Surviving(p) => "item" \in torn
        /\ pc[p] \in {"clear", "copy"} /\ command[p] = "logout" =>
              /\ mem[p].active = disk.active /\ disk.active = who[p]
              /\ who[p] \notin plain \/ "item" \in torn
              /\ target[p] # NoUser
        /\ pc[p] = "clearHost" => mem[p] = NoHost
        /\ pc[p] \in {"copy", "restoreCopy"} /\ "host" \notin torn => hostToken = NoUser
        /\ pc[p] = "write" /\ target[p] # NoUser /\ "host" \notin torn
              => hostToken = IF target[p] \in plain THEN target[p] ELSE NoUser
        /\ pc[p] = "write" /\ ForgetsHost(p) /\ target[p] = NoUser /\ "host" \notin torn
              => hostToken = NoUser
        /\ pc[p] = "write" /\ ~ForgetsHost(p) /\ target[p] = NoUser
              => mem[p].active = disk.active /\ (torn = {} => Agree)

LEMMA SoleStep ==
    ASSUME OneProcess, TypeOK, Inv, CarryInv, SoleInv, [Next]_vars
    PROVE  SoleInv'
  <1> USE NoUserAssumption
      DEF keyring, call, history, Activating, BeforeChange, Settled, Rewriting, Logins, Locked,
          OneProcess, TypeOK, Inv, PathInv, SoleInv, Agree, ForgetsHost
  <1>0. CASE UNCHANGED vars
    BY <1>0 DEF vars, Surviving
  <1>1. ASSUME NEW p \in Procs, Begins(p) PROVE SoleInv'
    <2>1. /\ pc[p] = "idle" /\ mem'[p] = disk /\ torn' = torn
          /\ UNCHANGED <<disk, plain, refreshable, hostToken>>
      BY <1>1 DEF Begins, BeginLogin, BeginLogout, BeginRefresh, BeginSwitch, BeginConfigSet,
                  Begin, Goto
    <2>2. \/ pc'[p] = "lock"
          \/ pc'[p] = "source" /\ target'[p] # NoUser
          \/ pc'[p] = "write" /\ command'[p] = "configSet" /\ target'[p] = NoUser
      BY <1>1 DEF Begins, BeginLogin, BeginLogout, BeginRefresh, BeginSwitch, BeginConfigSet,
                  Begin, Goto
    <2>3. torn = {} => Agree
      BY <2>1
    <2> QED
      BY <2>1, <2>2, <2>3
  <1>2. ASSUME NEW p \in Procs, Lock(p) PROVE SoleInv'
    <2>1. pc[p] = "lock" /\ UNCHANGED <<disk, plain, refreshable, hostToken, torn>>
      BY <1>2 DEF Lock, Goto
    <2>2. pc'[p] \in Settled
      BY <1>2 DEF Lock, Goto, FirstStep
    <2> QED
      BY <2>1, <2>2
  <1>3. ASSUME NEW p \in Procs, Leave(p) PROVE SoleInv'
    BY <1>3 DEF Leave, Return
  <1>4. ASSUME NEW p \in Procs, Crash(p) PROVE SoleInv'
    BY <1>4 DEF Crash, Return
  <1>5. ASSUME NEW p \in Procs, Store(p) \/ StoreFails(p) \/ Purge(p) PROVE SoleInv'
    BY <1>5 DEF Store, StoreFails, Purge, Goto, Hitch, Surviving
  <1>6. ASSUME NEW p \in Procs, Recheck(p) \/ RecheckFails(p) PROVE SoleInv'
    BY <1>6 DEF Recheck, RecheckFails, Goto, Hitch, Unnoticed
  <1>7. ASSUME NEW p \in Procs, Reread(p) \/ DropRefreshable(p) PROVE SoleInv'
    BY <1>7 DEF Reread, DropRefreshable, Goto, Hitch, Unnoticed
  <1>8. ASSUME NEW p \in Procs, DropPlain(p) PROVE SoleInv'
    <2>0. pc[p] = "dropPlain" /\ UNCHANGED <<disk, refreshable, hostToken, command, who>>
      BY <1>8 DEF DropPlain, Forget, Goto
    <2>1. /\ pc[p] = "dropPlain" /\ mem[p] = disk /\ target[p] = NoUser /\ disk \in Host
          /\ UNCHANGED <<disk, refreshable, hostToken, command, who>>
      BY <2>0 DEF CarryInv
    <2>2. torn = {} => Agree
      BY <2>1
    <2>3. /\ torn' = {} => torn = {} /\ plain' = plain \ {who[p]}
          /\ plain' = plain \ {who[p]} \/ "item" \in torn'
          /\ command[p] = "refresh" /\ torn' = {} => plain' = plain
      BY <1>8 DEF DropPlain, Unnoticed, Hitch
    <2>4. CASE command[p] # "logout"
      <3>1. pc' = [pc EXCEPT ![p] = "leave"] /\ command[p] = "refresh"
        BY <1>8, <2>1, <2>4 DEF DropPlain, Goto
      <3> QED
        BY <2>1, <2>2, <2>3, <3>1
    <2>5. CASE command[p] = "logout"
      <3>1. CASE pc' = [pc EXCEPT ![p] = "clearHost"] /\ mem' = [mem EXCEPT ![p] = NoHost]
        BY <2>1, <3>1
      <3>2. CASE /\ mem' = [mem EXCEPT ![p].users = mem[p].users \ {who[p]}]
                 /\ mem[p].active = who[p]
                 /\ pc' = [pc EXCEPT ![p] = "clear"]
                 /\ \E u \in mem[p].users \ {who[p]} : target' = [target EXCEPT ![p] = u]
        <4>1. mem'[p].active = disk.active
          BY <2>1, <3>2 DEF Host
        <4>2. target'[p] # NoUser
          BY <2>1, <3>2 DEF Host
        <4> QED
          BY <2>1, <2>3, <2>5, <3>2, <4>1, <4>2
      <3>3. CASE /\ mem' = [mem EXCEPT ![p].users = mem[p].users \ {who[p]}]
                 /\ mem[p].active # who[p]
                 /\ pc' = [pc EXCEPT ![p] = "write"] /\ target' = target
                 /\ Cardinality(mem[p].users) >= 2
        <4>1. mem'[p].active = disk.active
          BY <2>1, <3>3 DEF Host
        <4>2. torn' = {} => Agree'
          BY <2>1, <2>2, <2>3, <3>3
        <4>3. IsFiniteSet(disk.users)
          BY <2>1, UsersAssumption, FS_Subset DEF Host
        <4>4. mem'[p].users = disk.users \ {who[p]}
          BY <2>1, <3>3 DEF Host
        <4>5. mem'[p].users # {}
          BY <2>1, <3>3, <4>3, <4>4, Few
        <4>6. ~ForgetsHost(p)'
          BY <4>5 DEF NoHost
        <4> QED
          BY <2>1, <3>3, <4>1, <4>2, <4>6
      <3> QED
        BY <1>8, <2>1, <2>5, <3>1, <3>2, <3>3 DEF DropPlain, Forget, Goto
    <2> QED
      BY <2>4, <2>5
  <1>9. ASSUME NEW p \in Procs, ClearHost(p) PROVE SoleInv'
    BY <1>9 DEF ClearHost, Goto, DeleteHostToken, Unnoticed, Hitch
  <1>10. ASSUME NEW p \in Procs, Clear(p) \/ RestoreClear(p) PROVE SoleInv'
    BY <1>10 DEF Clear, RestoreClear, Goto, DeleteHostToken, Unnoticed, Hitch
  <1>11. ASSUME NEW p \in Procs, Copy(p) PROVE SoleInv'
    <2>1. /\ pc[p] = "copy" /\ pc' = [pc EXCEPT ![p] = "write"] /\ target[p] # NoUser
          /\ UNCHANGED <<disk, plain, refreshable, mem, command, who, target>>
          /\ torn \subseteq torn'
      BY <1>11 DEF Copy, Goto, Unnoticed, Hitch
    <2>2. "host" \notin torn' => hostToken' = IF target[p] \in plain THEN target[p] ELSE NoUser
      BY <1>11, <2>1 DEF Copy, Unnoticed, Hitch
    <2> QED
      BY <2>1, <2>2
  <1>12. ASSUME NEW p \in Procs, CopyFails(p) PROVE SoleInv'
    BY <1>12 DEF CopyFails, Goto, Hitch, AfterFailure, LoginInv, Stored, HasToken
  <1>13. ASSUME NEW p \in Procs, Write(p) PROVE SoleInv'
    <2>1. /\ pc[p] = "write" /\ pc' = [pc EXCEPT ![p] = "leave"] /\ disk' = Written(p)
          /\ UNCHANGED <<plain, hostToken>> /\ mem[p] \in Host
      BY <1>13 DEF Write, Goto
    <2>2. ASSUME torn' = {} PROVE Agree'
      <3>1. "host" \notin torn
        BY <1>13, <2>2 DEF Write
      <3>2. CASE target[p] # NoUser
        <4>1. disk'.active = target[p]
          BY <2>1, <3>2 DEF Written, Host
        <4> QED
          BY <2>1, <3>1, <3>2, <4>1
      <3>3. CASE target[p] = NoUser /\ ForgetsHost(p)
        <4>1. disk'.active = NoUser
          BY <2>1, <3>3 DEF Written, NoHost
        <4> QED
          BY <2>1, <3>1, <3>3, <4>1
      <3>4. CASE target[p] = NoUser /\ ~ForgetsHost(p)
        <4>1. disk'.active = disk.active /\ torn = {}
          BY <1>13, <2>1, <2>2, <3>4 DEF Written, Write, Settles
        <4> QED
          BY <2>1, <3>4, <4>1
      <3> QED
        BY <3>2, <3>3, <3>4
    <2> QED
      BY <2>1, <2>2
  <1>14. ASSUME NEW p \in Procs, WriteFails(p) PROVE SoleInv'
    BY <1>14 DEF WriteFails, Goto, Hitch, AfterFailure
  <1>15. ASSUME NEW p \in Procs, CheckSource(p) PROVE SoleInv'
    BY <1>15 DEF CheckSource, Goto
  <1>16. ASSUME NEW p \in Procs, RestoreCopy(p) PROVE SoleInv'
    <2>1. pc[p] = "restoreCopy" /\ pc' = [pc EXCEPT ![p] = "leave"]
          /\ UNCHANGED <<disk, plain>> /\ mem[p].active = disk.active
      BY <1>16 DEF RestoreCopy, Goto
    <2>2. torn' = {} => "host" \notin torn
                        /\ hostToken' = IF disk.active \in plain THEN disk.active ELSE hostToken
      BY <1>16, <2>1 DEF RestoreCopy, Hitch
    <2> QED
      BY <2>1, <2>2
  <1> QED
    BY <1>0, <1>1, <1>2, <1>3, <1>4, <1>5, <1>6, <1>7, <1>8, <1>9, <1>10, <1>11, <1>12, <1>13,
       <1>14, <1>15, <1>16
       DEF Next, LogsIn, Removes, Activates, Switches

(* HostTokenAgrees: in one process at a time, switches included, a failed  *)
(* activation is undone or made good by the next one that succeeds         *)
(* (SwitchUser, activateUser).                                             *)
THEOREM HostTokenIsRestored ==
    ASSUME OneProcess
    PROVE  Spec => []HostTokenAgrees
  <1>1. Init => CarryInv /\ SoleInv
    BY NoUserAssumption
       DEF Init, CarryInv, SoleInv, BeforeChange, Rewriting, Agree, NoHost
  <1>2. TypeOK /\ Inv /\ CarryInv /\ SoleInv /\ [Next]_vars => CarryInv' /\ SoleInv'
    BY CarryStep, SoleStep DEF Inv
  <1>3. SoleInv => HostTokenAgrees
    BY DEF SoleInv, HostTokenAgrees, Agree, Settled
  <1> QED
    BY <1>1, <1>2, <1>3, SpecInv, TypeCorrect, PTL DEF Spec
-----------------------------------------------------------------------------
(* AccountStore implements Accounts.                                       *)
(* What Calls!Next and its sequential form have in common.                 *)
Step == [\E p \in Procs : Calls!Step(p)]_(Calls!vars)

LEMMA StageOf ==
    ASSUME NEW p \in Procs
    PROVE  /\ Stage[p] = IF pc[p] = "idle" THEN "none"
                         ELSE IF pc[p] = "leave" THEN "over" ELSE "called"
           /\ Stage'[p] = IF pc'[p] = "idle" THEN "none"
                          ELSE IF pc'[p] = "leave" THEN "over" ELSE "called"
  BY DEF Stage

(* A step inside a call that nobody sees ...                               *)
LEMMA Inside ==
    ASSUME TypeOK, NEW p \in Procs, pc[p] \notin {"idle", "leave"},
           NEW x \in Pcs \ {"idle", "leave"}, pc' = [pc EXCEPT ![p] = x],
           UNCHANGED <<disk, command, who>>
    PROVE  Step
  <1>1. Stage' = Stage
    BY DEF Stage, TypeOK
  <1> QED
    BY <1>1 DEF Step, Calls!vars

(* ... and one after which it is as good as over.                          *)
LEMMA Ending ==
    ASSUME TypeOK, NEW p \in Procs, pc[p] \notin {"idle", "leave"},
           pc' = [pc EXCEPT ![p] = "leave"], UNCHANGED <<command, who>>
    PROVE  Calls!Ends(p)
  <1>1. Stage[p] = "called" /\ Stage' = [Stage EXCEPT ![p] = "over"]
    BY DEF Stage, TypeOK
  <1> QED
    BY <1>1 DEF Calls!Ends

LEMMA WithoutEffect ==
    ASSUME TypeOK, NEW p \in Procs, pc[p] \notin {"idle", "leave"},
           pc' = [pc EXCEPT ![p] = "leave"], UNCHANGED <<disk, command, who>>
    PROVE  Step
  BY Ending DEF Step, Calls!Step, Calls!NoEffect

LEMMA BeginMapped ==
    ASSUME TypeOK, NEW p \in Procs, Begins(p)
    PROVE  Step
  <1>1. ASSUME NEW c \in Commands, NEW u \in Users \cup {NoUser},
               NEW x \in Pcs \ {"idle", "leave"}, Begin(p, c, u, x),
               c \in {"logout", "switch"} => u \in disk.users
        PROVE  Step
    <2>1. /\ pc[p] = "idle" /\ pc' = [pc EXCEPT ![p] = x] /\ disk' = disk
          /\ command' = [command EXCEPT ![p] = c] /\ who' = [who EXCEPT ![p] = u]
      BY <1>1 DEF Begin, Goto
    <2>2. Stage[p] = "none" /\ Stage' = [Stage EXCEPT ![p] = "called"]
      BY <2>1 DEF Stage, TypeOK
    <2>3. Calls!Call(p)
      BY <1>1, <2>1, <2>2 DEF Calls!Call
    <2> QED
      BY <2>3 DEF Step, Calls!Step
  <1>2. {"lock", "source", "write"} \subseteq Pcs \ {"idle", "leave"}
    BY DEF Pcs, Critical, Activating
  <1>3. ASSUME NEW u \in Users, BeginLogin(p, u) PROVE Step
    BY <1>1, <1>2, <1>3 DEF BeginLogin, Begin, Logins
  <1>4. ASSUME NEW u \in Users, BeginLogout(p, u) PROVE Step
    BY <1>1, <1>2, <1>4 DEF BeginLogout, Begin
  <1>5. ASSUME NEW u \in Users, BeginRefresh(p, u) PROVE Step
    BY <1>1, <1>2, <1>5 DEF BeginRefresh, Begin
  <1>6. ASSUME NEW u \in Users, BeginSwitch(p, u) PROVE Step
    BY <1>1, <1>2, <1>6 DEF BeginSwitch, Begin
  <1>7. ASSUME BeginConfigSet(p) PROVE Step
    BY <1>1, <1>2, <1>7 DEF BeginConfigSet, Begin
  <1> QED
    BY <1>3, <1>4, <1>5, <1>6, <1>7 DEF Begins

(* A command returns, or its process dies.                                 *)
LEMMA ReturnMapped ==
    ASSUME TypeOK, NEW p \in Procs, Leave(p) \/ Crash(p)
    PROVE  Step
  <1>1. /\ pc[p] # "idle" /\ pc' = [pc EXCEPT ![p] = "idle"] /\ disk' = disk
        /\ command' = [command EXCEPT ![p] = "none"] /\ who' = [who EXCEPT ![p] = NoUser]
    BY DEF Leave, Crash, Return
  <1>2. Stage[p] # "none" /\ Stage' = [Stage EXCEPT ![p] = "none"]
    BY <1>1 DEF Stage, TypeOK
  <1>3. Calls!Return(p)
    BY <1>1, <1>2 DEF Calls!Return
  <1> QED
    BY <1>3 DEF Step, Calls!Step

(* Every other step but the write goes on inside its call, or ends it with *)
(* nothing done to hosts.yml.                                              *)
LEMMA QuietMapped ==
    ASSUME TypeOK, NEW p \in Procs,
           \/ Lock(p) \/ LogsIn(p) \/ Removes(p) \/ Switches(p)
           \/ Clear(p) \/ Copy(p) \/ CopyFails(p) \/ WriteFails(p)
    PROVE  Step
  <1>1. UNCHANGED <<disk, command, who>>
    BY DEF Lock, LogsIn, Store, StoreFails, Purge, Recheck, RecheckFails, Removes, Reread,
           DropRefreshable, DropPlain, ClearHost, Switches, CheckSource, RestoreClear,
           RestoreCopy, Clear, Copy, CopyFails, WriteFails, call
  <1>2. pc[p] \notin {"idle", "leave"}
    BY DEF Lock, LogsIn, Store, StoreFails, Purge, Recheck, RecheckFails, Removes, Reread,
           DropRefreshable, DropPlain, Forget, ClearHost, Switches, CheckSource, RestoreClear,
           RestoreCopy, Clear, Copy, CopyFails, WriteFails, Goto
  <1>3. \E x \in Pcs \ {"idle"} : pc' = [pc EXCEPT ![p] = x]
    <2> USE DEF Goto, Pcs, Critical, Activating
    <2>1. CASE Lock(p)
      BY <2>1 DEF Lock, FirstStep
    <2>2. CASE LogsIn(p)
      BY <2>2 DEF LogsIn, Store, StoreFails, Purge, Recheck, RecheckFails
    <2>3. CASE Removes(p)
      BY <2>3 DEF Removes, Reread, DropRefreshable, DropPlain, Forget, ClearHost
    <2>4. CASE Switches(p)
      BY <2>4 DEF Switches, CheckSource, RestoreClear, RestoreCopy
    <2>5. CASE Clear(p) \/ Copy(p) \/ CopyFails(p) \/ WriteFails(p)
      BY <2>5 DEF Clear, Copy, CopyFails, WriteFails, AfterFailure
    <2> QED
      BY <2>1, <2>2, <2>3, <2>4, <2>5
  <1> QED
    BY <1>1, <1>2, <1>3, Inside, WithoutEffect

(* What a logout writes: Known(disk) says that the active user it replaces *)
(* is one of the file's.                                                   *)
LEMMA LogoutMapped ==
    ASSUME TypeOK, Inv, MemoryInv, KnownInv, NEW p \in Procs, Write(p), command[p] = "logout"
    PROVE  \/ Calls!LogOut(p) \/ Calls!NoEffect(p)
           \/ Calls!LogOutAgain(p) /\ who[p] \notin disk.users
  <1>1. /\ pc[p] = "write" /\ disk' = Written(p) /\ mem[p] \in Host /\ disk \in Host
        /\ pc' = [pc EXCEPT ![p] = "leave"] /\ UNCHANGED <<command, who>>
        /\ target[p] \in Users \cup {NoUser}
    BY DEF Write, Goto, TypeOK, call
  <1>2. Calls!Ends(p)
    BY <1>1, Ending
  <1>3. IsFiniteSet(disk.users)
    BY <1>1, UsersAssumption, FS_Subset DEF Host
  <1>4. CASE mem[p] = NoHost /\ Cardinality(disk.users) < 2 /\ target[p] = NoUser
    <2>1. disk' = NoHost
      BY <1>1, <1>4 DEF Written
    <2>2. CASE who[p] \in disk.users
      <3>1. disk.users \ {who[p]} = {}
        BY <1>3, <1>4, <2>2, Few
      <3> QED
        BY <1>2, <2>1, <2>2, <3>1 DEF Calls!LogOut, Calls!Heirs, NoHost
    <2>3. CASE who[p] \notin disk.users
      <3>1. \A u, v \in disk.users : u = v
        BY <1>3, <1>4, Few
      <3> QED
        BY <1>2, <2>1, <2>3, <3>1 DEF Calls!LogOutAgain, Calls!NoHost, NoHost
    <2> QED
      BY <2>2, <2>3
  <1>5. CASE /\ mem[p].users = disk.users \ {who[p]} /\ mem[p].users # {}
             /\ mem[p].active = disk.active
             /\ target[p] = NoUser /\ disk.active # who[p]
    <2>1. disk' = mem[p] /\ mem[p] = [users |-> disk.users \ {who[p]}, active |-> disk.active]
      BY <1>1, <1>5 DEF Written, Host
    <2>2. CASE who[p] \in disk.users
      BY <1>2, <1>5, <2>1, <2>2 DEF Calls!LogOut, Calls!Heirs
    <2>3. CASE who[p] \notin disk.users
      <3>1. disk' = disk
        BY <1>1, <2>1, <2>3 DEF Host
      <3> QED
        BY <1>2, <3>1 DEF Calls!NoEffect
    <2> QED
      BY <2>2, <2>3
  <1>6. CASE /\ mem[p].users = disk.users \ {who[p]}
             /\ target[p] \in mem[p].users /\ disk.active = who[p]
    <2>1. who[p] \in Users /\ target[p] # NoUser
      BY <1>1, <1>6, NoUserAssumption DEF Inv, PathInv, Locked, Host
    <2>2. disk' = [users |-> disk.users \ {who[p]}, active |-> target[p]]
      BY <1>1, <1>6, <2>1 DEF Written, Host
    <2>3. who[p] \in disk.users
      BY <1>6, <2>1, NoUserAssumption DEF KnownInv, Known
    <2> QED
      BY <1>2, <1>6, <2>2, <2>3 DEF Calls!LogOut, Calls!Heirs
  <1> QED
    BY <1>1, <1>4, <1>5, <1>6 DEF MemoryInv

LEMMA WriteMapped ==
    ASSUME Exclusive, TypeOK, Inv, MemoryInv, KnownInv, NEW p \in Procs, Write(p)
    PROVE  Step \/ (Calls!LogOutAgain(p) /\ command[p] = "logout" /\ who[p] \notin disk.users)
  <1>1. /\ pc[p] = "write" /\ disk' = Written(p) /\ mem[p] \in Host
        /\ pc' = [pc EXCEPT ![p] = "leave"] /\ UNCHANGED <<command, who>>
    BY DEF Write, Goto, TypeOK, call
  <1>2. Calls!Ends(p)
    BY <1>1, Ending
  <1>3. command[p] \in Logins \cup {"logout", "switch", "configSet"}
    BY <1>1, CommandsAssumption DEF Inv, PathInv, Locked, LockFree
  <1>4. CASE command[p] \in Logins
    <2>1. target[p] = who[p] /\ who[p] \in Users
      BY <1>1, <1>4 DEF Inv, LoginInv, PathInv, Activating, Locked
    <2>2. mem[p].users = disk.users \cup {who[p]}
      BY <1>1, <1>4 DEF MemoryInv, Activating
    <2>3. disk' = [users |-> disk.users \cup {who[p]}, active |-> who[p]]
      BY <1>1, <2>1, <2>2, NoUserAssumption DEF Written, Host
    <2>4. Calls!LogIn(p)
      BY <1>2, <1>4, <2>3 DEF Calls!LogIn, Logins
    <2> QED
      BY <2>4 DEF Step, Calls!Step
  <1>5. CASE command[p] = "logout"
    BY <1>5, LogoutMapped DEF Step, Calls!Step
  <1>6. CASE command[p] = "switch"
    <2>1. mem[p] = disk /\ who[p] \in disk.users /\ target[p] = who[p] /\ who[p] # NoUser
      BY <1>1, <1>6, NoUserAssumption DEF MemoryInv, Activating, Host
    <2>2. disk' = [users |-> disk.users, active |-> who[p]]
      BY <1>1, <2>1 DEF Written, Host
    <2>3. Calls!Switch(p)
      BY <1>2, <1>6, <2>1, <2>2 DEF Calls!Switch
    <2> QED
      BY <2>3 DEF Step, Calls!Step
  <1>7. CASE command[p] = "configSet"
    <2>1. disk' = disk
      BY <1>1, <1>7 DEF MemoryInv, Written
    <2> QED
      BY <1>1, <2>1, WithoutEffect
  <1> QED
    BY <1>3, <1>4, <1>5, <1>6, <1>7

LEMMA StepMapped ==
    ASSUME Exclusive, TypeOK, Inv, MemoryInv, KnownInv, [Next]_vars
    PROVE  \/ Step
           \/ \E p \in Procs : /\ Calls!LogOutAgain(p) /\ pc[p] = "write"
                               /\ command[p] = "logout" /\ who[p] \notin disk.users
  <1>1. CASE UNCHANGED vars
    BY <1>1 DEF vars, call, Step, Calls!vars, Stage
  <1>2. ASSUME NEW p \in Procs, Write(p)
        PROVE  Step \/ (/\ Calls!LogOutAgain(p) /\ pc[p] = "write"
                        /\ command[p] = "logout" /\ who[p] \notin disk.users)
    BY <1>2, WriteMapped DEF Write, Goto
  <1>3. ASSUME NEW p \in Procs, Begins(p) \/ Leave(p) \/ Crash(p) PROVE Step
    BY <1>3, BeginMapped, ReturnMapped
  <1>4. ASSUME NEW p \in Procs,
               \/ Lock(p) \/ LogsIn(p) \/ Removes(p) \/ Switches(p)
               \/ Clear(p) \/ Copy(p) \/ CopyFails(p) \/ WriteFails(p)
        PROVE  Step
    BY <1>4, QuietMapped
  <1> QED
    BY <1>1, <1>2, <1>3, <1>4 DEF Next, Activates

LEMMA InitMapped == Init => Calls!Init
  BY DEF Init, Calls!Init, Calls!NoHost, NoHost, Stage

(* CallsAreAtomic: when every command takes the lock, each takes effect on *)
(* hosts.yml in one step, its write, or not at all, for any number of      *)
(* processes and users, with failures and crashes at every step            *)
(* (withFreshConfigForRefresh and what runs under it).                     *)
THEOREM LockedCallsAreAtomic ==
    ASSUME OnlyLocked
    PROVE  Spec => CallsAreAtomic
  <1>1. TypeOK /\ Inv /\ MemoryInv /\ KnownInv /\ [Next]_vars => [Calls!Next]_(Calls!vars)
    BY LockedExclusive, StepMapped DEF Step, Calls!Next
  <1>2. LockedInv => MemoryInv
    BY DEF LockedInv
  <1> QED
    BY <1>1, <1>2, InitMapped, SpecLockedInv, SpecKnown, SpecInv, TypeCorrect, PTL
    DEF Spec, CallsAreAtomic, Calls!Spec

(* SequentialCalls: in one process every command, SwitchUser and configSet *)
(* included, takes effect in one step or not at all, and no logout finds   *)
(* its user gone.                                                          *)
THEOREM SoleCallsAreAtomic ==
    ASSUME OneProcess
    PROVE  Spec => SequentialCalls
  <1>1. Init => CarryInv /\ MemoryInv
    BY DEF Init, CarryInv, MemoryInv, BeforeChange, Activating
  <1>2. Exclusive
    BY DEF OneProcess, Exclusive
  <1>3. TypeOK /\ Inv /\ CarryInv /\ MemoryInv /\ [Next]_vars => CarryInv' /\ MemoryInv'
    BY <1>2, CarryStep, MemoryStep DEF Inv
  <1>4. TypeOK /\ Inv /\ CarryInv /\ MemoryInv /\ KnownInv /\ [Next]_vars
          => [\E p \in Procs : Calls!Step(p)]_(Calls!vars)
    BY <1>2, StepMapped DEF Step, CarryInv
  <1> QED
    BY <1>1, <1>3, <1>4, InitMapped, SpecKnown, SpecInv, TypeCorrect, PTL
    DEF Spec, SequentialCalls, Calls!SequentialSpec
=============================================================================
