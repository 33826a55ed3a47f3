---------------------------- MODULE AccountStore ----------------------------
(***************************************************************************)
(* The accounts of one host: hosts.yml names the known users and the       *)
(* active one, the operating system's keyring holds each user's plain or   *)
(* refreshable credential and, in the host's own item, a copy of the       *)
(* active user's plain token.  Every gh process works on its own copy of   *)
(* hosts.yml and writes it back whole.  Login, LoginRefreshable, Logout    *)
(* and the removal of a rejected credential run under the refresh lock and *)
(* reload the file first; SwitchUser and `gh config set --host` do not.    *)
(*                                                                         *)
(* One action is one access to the keyring, the file or the lock.  The     *)
(* lock is always obtained here: TokenRefresh models its fallback.         *)
(***************************************************************************)
EXTENDS Naturals, FiniteSets

CONSTANTS
    Users, Procs,
    NoUser,     \* "no active user", "no token"
    NoProc,     \* the holder of a free lock
    Commands,   \* the commands the processes run
    Faults      \* may the keyring, the file or a process fail?

Logins == {"login", "loginRefreshable"}
Locked == Logins \cup {"logout", "refresh"}
LockFree == {"switch", "configSet"}

ASSUME UsersAssumption == IsFiniteSet(Users)
ASSUME NoUserAssumption == NoUser \notin Users
ASSUME NoProcAssumption == NoProc \notin Procs
ASSUME CommandsAssumption == Commands \subseteq Locked \cup LockFree
ASSUME FaultsAssumption == Faults \in BOOLEAN

(* The host's entry in hosts.yml.                                          *)
Host == [users : SUBSET Users, active : Users \cup {NoUser}]
NoHost == [users |-> {}, active |-> NoUser]

(* Control points; those in Critical lie between Lock and Leave.           *)
Activating == {"clear", "copy", "write"}
Critical == {"store", "purge", "recheck", "reread", "dropRefreshable",
             "dropPlain", "clearHost", "leave"} \cup Activating
Pcs == {"idle", "lock", "source", "restoreClear", "restoreCopy"} \cup Critical

VARIABLES
    disk,        \* the host's entry in hosts.yml
    plain,       \* keyring: the users with a token under gh:host
    refreshable, \* keyring: the users with a record under gh:_refreshable:host
    hostToken,   \* keyring: whose token the host's own item holds
    lock,        \* refresh.lock
    mem,         \* each process's copy of hosts.yml (ghConfig.Config)
    pc, command, \* each process's control point and its command
    who,         \* the user the command is about
    target,      \* the user it is activating, if it activates one
    missed,      \* history: calls that went on after a removal failed unnoticed
    torn         \* history: what may be wrong with the host's own item: its last
                 \* removal failed ("host"), it was not rewritten after another
                 \* failure ("item")

keyring == <<plain, refreshable, hostToken>>
call == <<command, who, target>>
history == <<missed, torn>>
vars == <<disk, keyring, lock, mem, pc, call, history>>

TypeOK ==
    /\ disk \in Host
    /\ plain \subseteq Users /\ refreshable \subseteq Users
    /\ hostToken \in Users \cup {NoUser}
    /\ lock \in Procs \cup {NoProc}
    /\ mem \in [Procs -> Host]
    /\ pc \in [Procs -> Pcs]
    /\ command \in [Procs -> Commands \cup {"none"}]
    /\ who \in [Procs -> Users \cup {NoUser}]
    /\ target \in [Procs -> Users \cup {NoUser}]
    /\ missed \subseteq Procs
    /\ torn \subseteq {"host", "item"}

Init ==
    /\ disk = NoHost
    /\ plain = {} /\ refreshable = {} /\ hostToken = NoUser
    /\ lock = NoProc
    /\ mem = [p \in Procs |-> NoHost]
    /\ pc = [p \in Procs |-> "idle"]
    /\ command = [p \in Procs |-> "none"]
    /\ who = [p \in Procs |-> NoUser]
    /\ target = [p \in Procs |-> NoUser]
    /\ missed = {} /\ torn = {}

-----------------------------------------------------------------------------
(* Helpers.                                                                *)

Goto(p, from, to) == pc[p] = from /\ pc' = [pc EXCEPT ![p] = to]

HasToken(u) == u \in plain \cup refreshable

(* activeCredentialWithError: the active user's own credential, or else    *)
(* whatever the host's item holds.                                         *)
ActiveToken(h) == IF HasToken(h.active) THEN h.active ELSE hostToken

(* A fault spoils a step; the second form goes unnoticed.                  *)
Hitch(kind) == Faults /\ torn' = torn \cup {kind}
Unnoticed(p, kind) == Hitch(kind) /\ missed' = missed \cup {p}

(* A switch that fails undoes what it did, any other call just returns.    *)
AfterFailure(p) == IF command[p] = "switch" THEN "restoreClear" ELSE "leave"

(* Mutant of DeleteHostToken: the item is emptied instead of deleted.      *)
EmptyHostToken(p) ==
    \/ hostToken' = "empty" /\ torn' = torn \ {"host"} /\ UNCHANGED missed
    \/ Unnoticed(p, "host") /\ UNCHANGED hostToken

(* keyring.Delete of the host's own item, whose error is ignored.          *)
DeleteHostToken(p) ==
    \/ hostToken' = NoUser /\ torn' = torn \ {"host"} /\ UNCHANGED missed
    \/ Unnoticed(p, "host") /\ UNCHANGED hostToken

(* What the process writes to hosts.yml.                                   *)
Written(p) ==
    IF target[p] = NoUser THEN mem[p] ELSE [mem[p] EXCEPT !.active = target[p]]

Return(p) ==
    /\ pc' = [pc EXCEPT ![p] = "idle"]
    /\ mem' = [mem EXCEPT ![p] = NoHost]
    /\ command' = [command EXCEPT ![p] = "none"]
    /\ who' = [who EXCEPT ![p] = NoUser]
    /\ target' = [target EXCEPT ![p] = NoUser]

-----------------------------------------------------------------------------
(* A process starts: it reads hosts.yml (NewConfig) and decides on a user. *)

Begin(p, c, u, next) ==
    /\ c \in Commands
    /\ Goto(p, "idle", next)
    /\ mem' = [mem EXCEPT ![p] = disk]
    /\ command' = [command EXCEPT ![p] = c]
    /\ who' = [who EXCEPT ![p] = u]
    /\ missed' = missed \ {p}
    /\ UNCHANGED <<disk, keyring, lock, torn>>

BeginLogin(p, u) ==
    /\ \E c \in Logins : Begin(p, c, u, "lock")
    /\ UNCHANGED target

BeginLogout(p, u) ==
    /\ u \in disk.users
    /\ Begin(p, "logout", u, "lock")
    /\ UNCHANGED target

(* TokenForUserWithRefresh: the user's credential is a refreshable one,    *)
(* and expiring.                                                           *)
BeginRefresh(p, u) ==
    /\ u \in disk.users /\ u \in refreshable \ plain
    /\ Begin(p, "refresh", u, "lock")
    /\ UNCHANGED target

BeginSwitch(p, u) ==
    /\ u \in disk.users
    /\ Begin(p, "switch", u, "source")
    /\ target' = [target EXCEPT ![p] = u]

BeginConfigSet(p) ==
    /\ Begin(p, "configSet", NoUser, "write")
    /\ UNCHANGED target

(* withFreshConfigForRefresh: lock and reload, whose failure ends the call.*)
FirstStep(c) ==
    CASE c \in Logins  -> "store"
      [] c = "refresh" -> "reread"
      [] OTHER         -> "dropRefreshable"    \* logout

(* Mutant of Lock: no reload, the call works on what it read before.       *)
LockWithoutReload(p) ==
    /\ lock = NoProc /\ lock' = p
    /\ Goto(p, "lock", FirstStep(command[p]))
    /\ UNCHANGED <<disk, keyring, mem, call, history>>

Lock(p) ==
    /\ lock = NoProc /\ lock' = p
    /\ \/ /\ Goto(p, "lock", FirstStep(command[p]))
          /\ mem' = [mem EXCEPT ![p] = disk]
       \/ Faults /\ Goto(p, "lock", "leave") /\ UNCHANGED mem
    /\ UNCHANGED <<disk, keyring, call, history>>

Leave(p) ==
    /\ pc[p] = "leave" /\ Return(p)
    /\ lock' = IF lock = p THEN NoProc ELSE lock
    /\ UNCHANGED <<disk, keyring, history>>

-----------------------------------------------------------------------------
(* login and loginRefreshable.                                             *)

Store(p) ==
    /\ Goto(p, "store", "purge")
    /\ IF command[p] = "login"
       THEN plain' = plain \cup {who[p]} /\ UNCHANGED refreshable
       ELSE refreshable' = refreshable \cup {who[p]} /\ UNCHANGED plain
    /\ UNCHANGED <<disk, hostToken, lock, mem, call, history>>

StoreFails(p) ==
    /\ Faults /\ Goto(p, "store", "leave")
    /\ UNCHANGED <<disk, keyring, lock, mem, call, history>>

(* The user's credential of the other form is removed ...                  *)
Purge(p) ==
    /\ Goto(p, "purge", "recheck")
    /\ \/ /\ IF command[p] = "login"
             THEN refreshable' = refreshable \ {who[p]} /\ UNCHANGED plain
             ELSE plain' = plain \ {who[p]} /\ UNCHANGED refreshable
          /\ UNCHANGED torn
       \/ Hitch("item") /\ UNCHANGED <<plain, refreshable>>
    /\ UNCHANGED <<disk, hostToken, lock, mem, call, missed>>

(* ... and looked for again.  Found, it ends the login with an error; a    *)
(* failing read counts as its absence.  completeLogin follows.             *)
Surviving(p) ==
    who[p] \in (IF command[p] = "login" THEN refreshable ELSE plain)

(* Mutant of Recheck: the removal is taken for granted.                    *)
NoRecheck(p) ==
    /\ Goto(p, "recheck", "clear")
    /\ mem' = [mem EXCEPT ![p].users = @ \cup {who[p]}]
    /\ target' = [target EXCEPT ![p] = who[p]]
    /\ UNCHANGED <<disk, keyring, lock, command, who, history>>

Recheck(p) ==
    /\ \/ ~Surviving(p) /\ UNCHANGED history
       \/ Surviving(p) /\ Unnoticed(p, "item")
    /\ Goto(p, "recheck", "clear")
    /\ mem' = [mem EXCEPT ![p].users = @ \cup {who[p]}]
    /\ target' = [target EXCEPT ![p] = who[p]]
    /\ UNCHANGED <<disk, keyring, lock, command, who>>

RecheckFails(p) ==
    /\ Surviving(p)
    /\ Goto(p, "recheck", "leave")
    /\ UNCHANGED <<disk, keyring, lock, mem, call, history>>

-----------------------------------------------------------------------------
(* refreshCredentialForUser: a credential that is gone, renewed by now or  *)
(* renewed by this call changes nothing here; one that the server rejects  *)
(* is removed (removeCredentialForUser).                                   *)

Reread(p) ==
    /\ \/ Goto(p, "reread", "leave")
       \/ who[p] \in refreshable /\ Goto(p, "reread", "dropRefreshable")
    /\ UNCHANGED <<disk, keyring, lock, mem, call, history>>

DropRefreshable(p) ==
    /\ Goto(p, "dropRefreshable", "dropPlain")
    /\ \/ refreshable' = refreshable \ {who[p]} /\ UNCHANGED history
       \/ Unnoticed(p, "item") /\ UNCHANGED refreshable
    /\ UNCHANGED <<disk, plain, hostToken, lock, mem, call>>

(* Mutant of Forget: the host is forgotten however many users it has.      *)
ForgetHost(p) ==
    /\ Goto(p, "dropPlain", "clearHost")
    /\ mem' = [mem EXCEPT ![p] = NoHost]
    /\ UNCHANGED target

(* Logout goes on: it forgets the host with its last user, or else the     *)
(* user, in whose place it activates another one if need be.               *)
Forget(p) ==
    LET others == mem[p].users \ {who[p]} IN
    \/ /\ Cardinality(mem[p].users) < 2
       /\ Goto(p, "dropPlain", "clearHost")
       /\ mem' = [mem EXCEPT ![p] = NoHost]
       /\ UNCHANGED target
    \/ /\ Cardinality(mem[p].users) >= 2
       /\ mem' = [mem EXCEPT ![p].users = others]
       /\ IF mem[p].active = who[p]
          THEN /\ \E u \in others : target' = [target EXCEPT ![p] = u]
               /\ Goto(p, "dropPlain", "clear")
          ELSE Goto(p, "dropPlain", "write") /\ UNCHANGED target

(* Mutant of DropPlain: the token goes only with the host's last user.     *)
DropLastPlain(p) ==
    /\ plain' = IF Cardinality(mem[p].users) < 2 THEN plain \ {who[p]} ELSE plain
    /\ IF command[p] = "logout"
       THEN Forget(p)
       ELSE Goto(p, "dropPlain", "leave") /\ UNCHANGED <<mem, target>>
    /\ UNCHANGED <<disk, refreshable, hostToken, lock, command, who, history>>

(* A rejection takes a plain token along that an unchecked purge has left  *)
(* beside the rejected record; its copy in the host's item stays.          *)
DropPlain(p) ==
    /\ \/ /\ plain' = plain \ {who[p]}
          /\ torn' = torn \cup
                (IF command[p] = "refresh" /\ who[p] \in plain THEN {"item"} ELSE {})
          /\ UNCHANGED missed
       \/ Unnoticed(p, "item") /\ UNCHANGED plain
    /\ IF command[p] = "logout"
       THEN Forget(p)
       ELSE Goto(p, "dropPlain", "leave") /\ UNCHANGED <<mem, target>>
    /\ UNCHANGED <<disk, refreshable, hostToken, lock, command, who>>

ClearHost(p) ==
    /\ Goto(p, "clearHost", "write")
    /\ DeleteHostToken(p)
    /\ UNCHANGED <<disk, plain, refreshable, lock, mem, call>>

-----------------------------------------------------------------------------
(* activateUser: setActiveCredential clears the host's item and fills it   *)
(* again, then hosts.yml is written.                                       *)

(* Mutant of Clear: the host's item is not cleared before it is filled.    *)
NoClear(p) ==
    /\ Goto(p, "clear", "copy")
    /\ UNCHANGED <<disk, keyring, lock, mem, call, history>>

Clear(p) ==
    /\ Goto(p, "clear", "copy")
    /\ DeleteHostToken(p)
    /\ UNCHANGED <<disk, plain, refreshable, lock, mem, call>>

(* The plain token is looked for first; one that cannot be read counts as  *)
(* absent.  A refreshable credential is not copied.                        *)
Copy(p) ==
    /\ Goto(p, "copy", "write")
    /\ \/ /\ target[p] \in plain
          /\ hostToken' = target[p]
          /\ UNCHANGED history
       \/ /\ target[p] \in refreshable
          /\ \/ target[p] \notin plain /\ UNCHANGED history
             \/ Unnoticed(p, "host")
          /\ UNCHANGED hostToken
    /\ UNCHANGED <<disk, plain, refreshable, lock, mem, call>>

CopyFails(p) ==
    /\ \/ ~HasToken(target[p]) /\ UNCHANGED torn
       \/ Hitch("item")
    /\ Goto(p, "copy", AfterFailure(p))
    /\ UNCHANGED <<disk, keyring, lock, mem, call, missed>>

(* The activation of a user, or the removal of the last one, has put the   *)
(* host's item in order.                                                   *)
Settles(p) ==
    target[p] # NoUser \/ (command[p] = "logout" /\ mem[p] = NoHost)

Write(p) ==
    /\ Goto(p, "write", "leave")
    /\ disk' = Written(p)
    /\ torn' = IF Settles(p) THEN torn \ {"item"} ELSE torn
    /\ UNCHANGED <<keyring, lock, mem, call, missed>>

WriteFails(p) ==
    /\ Hitch("item")
    /\ Goto(p, "write", AfterFailure(p))
    /\ UNCHANGED <<disk, keyring, lock, mem, call, missed>>

-----------------------------------------------------------------------------
(* SwitchUser: the active token must come from the store; a failed         *)
(* activation is followed by that of the previous user, without a write.   *)

CheckSource(p) ==
    /\ \/ /\ mem[p].active # NoUser /\ ActiveToken(mem[p]) # NoUser
          /\ Goto(p, "source", "clear")
       \/ /\ Faults \/ mem[p].active = NoUser \/ ActiveToken(mem[p]) = NoUser
          /\ Goto(p, "source", "leave")
    /\ UNCHANGED <<disk, keyring, lock, mem, call, history>>

RestoreClear(p) ==
    /\ Goto(p, "restoreClear", "restoreCopy")
    /\ DeleteHostToken(p)
    /\ UNCHANGED <<disk, plain, refreshable, lock, mem, call>>

(* Mutant of RestoreCopy: the previous user's token is not reinstalled.    *)
NoRestore(p) ==
    /\ Goto(p, "restoreCopy", "leave")
    /\ torn' = torn \ {"item"}
    /\ UNCHANGED <<disk, keyring, lock, mem, call, missed>>

RestoreCopy(p) ==
    LET previous == mem[p].active IN
    /\ Goto(p, "restoreCopy", "leave")
    /\ \/ /\ hostToken' = IF previous \in plain THEN previous ELSE hostToken
          /\ torn' = torn \ {"item"}
       \/ Hitch("item") /\ UNCHANGED hostToken
    /\ UNCHANGED <<disk, plain, refreshable, lock, mem, call, missed>>

(* A process dies; the operating system releases its lock.                 *)
Crash(p) ==
    /\ Faults /\ pc[p] # "idle"
    /\ Return(p)
    /\ lock' = IF lock = p THEN NoProc ELSE lock
    /\ torn' = IF pc[p] \in {"lock", "source", "leave"} THEN torn
               ELSE torn \cup {"item"}
    /\ UNCHANGED <<disk, keyring, missed>>

-----------------------------------------------------------------------------
Begins(p) ==
    \/ \E u \in Users : BeginLogin(p, u) \/ BeginLogout(p, u)
                        \/ BeginRefresh(p, u) \/ BeginSwitch(p, u)
    \/ BeginConfigSet(p)
LogsIn(p) == Store(p) \/ StoreFails(p) \/ Purge(p) \/ Recheck(p) \/ RecheckFails(p)
Removes(p) == Reread(p) \/ DropRefreshable(p) \/ DropPlain(p) \/ ClearHost(p)
Activates(p) == Clear(p) \/ Copy(p) \/ CopyFails(p) \/ Write(p) \/ WriteFails(p)
Switches(p) == CheckSource(p) \/ RestoreClear(p) \/ RestoreCopy(p)

Next ==
    \E p \in Procs :
        \/ Begins(p) \/ Lock(p) \/ LogsIn(p) \/ Removes(p) \/ Activates(p)
        \/ Switches(p) \/ Leave(p) \/ Crash(p)

Spec == Init /\ [][Next]_vars

-----------------------------------------------------------------------------
(* Properties.                                                             *)

(* Between calls the host's item, which extensions and a user without a    *)
(* token of their own fall back to, holds the active user's plain token or *)
(* nothing: an activation that succeeds, or is undone, repairs whatever an *)
(* earlier failure left behind.                                            *)
HostTokenAgrees ==
    (\A p \in Procs : pc[p] \in {"idle", "lock"}) /\ torn = {}
        => hostToken = IF disk.active \in plain THEN disk.active ELSE NoUser

(* A login that reports success has made its user active and its own       *)
(* credential the one TokenForUser resolves, plain before refreshable,     *)
(* unless the removal of the other form failed and could not be checked.   *)
LoginTakesEffect ==
    [][\A p \in Procs :
        Write(p) /\ command[p] \in Logins
            => /\ disk'.active = who[p]
               /\ command[p] = "login" => who[p] \in plain
               /\ command[p] = "loginRefreshable" /\ p \notin missed
                    => who[p] \in refreshable \ plain]_vars

(* A logout that reports success leaves nothing of its user, provided no   *)
(* removal failed in silence.                                              *)
LogoutLeavesNothing ==
    [][\A p \in Procs :
        Write(p) /\ command[p] = "logout" /\ p \notin missed /\ torn = {}
            => /\ ~HasToken(who[p]) /\ hostToken # who[p]
               /\ who[p] \notin disk'.users /\ who[p] # disk'.active]_vars

(* An account leaves hosts.yml only by its own logout.                     *)
NoAccountLost ==
    [][\A u \in disk.users \ disk'.users :
        \E p \in Procs : Write(p) /\ command[p] = "logout" /\ who[p] = u]_vars

(* What the callers see of a call: it runs until hosts.yml is written, or  *)
(* will not be.                                                            *)
Stage == [p \in Procs |-> IF pc[p] = "idle" THEN "none"
                          ELSE IF pc[p] = "leave" THEN "over" ELSE "called"]

Calls == INSTANCE Accounts WITH host <- disk, stage <- Stage, op <- command, subject <- who

(* Under the refresh lock (withFreshConfigForRefresh) every login, logout  *)
(* and removal takes effect on hosts.yml at once, or not at all, whatever  *)
(* other processes do in the meantime and whichever step fails.            *)
CallsAreAtomic == Calls!Spec

(* In one process, so do switches and `gh config set --host`, which take   *)
(* no lock, and no logout finds its user gone.                             *)
SequentialCalls == Calls!SequentialSpec

=============================================================================
