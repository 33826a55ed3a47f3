------------------------------ MODULE Accounts ------------------------------
(***************************************************************************)
(* What the account store promises of hosts.yml to commands that run side  *)
(* by side: each takes effect at once, at one moment between its start and *)
(* its end, or not at all.  A login adds its user and makes it the active  *)
(* one, a logout removes its user and, if that was the active one, makes   *)
(* another one active, a switch makes its user the active one.             *)
(***************************************************************************)
CONSTANTS Users, Procs, NoUser, Commands

VARIABLES
    host,      \* the known users and the active one
    stage,     \* of each process's command: "none", "called" or "over"
    op,        \* what it is
    subject    \* the user it is about

vars == <<host, stage, op, subject>>

NoHost == [users |-> {}, active |-> NoUser]

Init ==
    /\ host = NoHost
    /\ stage = [p \in Procs |-> "none"]
    /\ op = [p \in Procs |-> "none"]
    /\ subject = [p \in Procs |-> NoUser]

(* A logout or a switch is about a user it finds known.                    *)
Call(p) ==
    /\ stage[p] = "none" /\ stage' = [stage EXCEPT ![p] = "called"]
    /\ \E c \in Commands, u \in Users \cup {NoUser} :
        /\ c \in {"logout", "switch"} => u \in host.users
        /\ op' = [op EXCEPT ![p] = c] /\ subject' = [subject EXCEPT ![p] = u]
    /\ UNCHANGED host

(* The command is as good as over.                                         *)
Ends(p) ==
    /\ stage[p] = "called" /\ stage' = [stage EXCEPT ![p] = "over"]
    /\ UNCHANGED <<op, subject>>

LogIn(p) ==
    /\ Ends(p) /\ op[p] \in {"login", "loginRefreshable"}
    /\ host' = [users |-> host.users \cup {subject[p]}, active |-> subject[p]]

Heirs(p) ==
    LET others == host.users \ {subject[p]} IN
    IF others = {} THEN {NoUser}
    ELSE IF host.active = subject[p] THEN others
    ELSE {host.active}

LogOut(p) ==
    /\ Ends(p) /\ op[p] = "logout" /\ subject[p] \in host.users
    /\ \E u \in Heirs(p) : host' = [users |-> host.users \ {subject[p]}, active |-> u]

(* A logout whose user another one has logged out in the meantime forgets  *)
(* the host if it finds no more than one user there.                       *)
LogOutAgain(p) ==
    /\ Ends(p) /\ op[p] = "logout" /\ subject[p] \notin host.users
    /\ (\A u, v \in host.users : u = v) /\ host' = NoHost

Switch(p) ==
    /\ Ends(p) /\ op[p] = "switch" /\ subject[p] \in host.users
    /\ host' = [users |-> host.users, active |-> subject[p]]

(* It fails, or changes nothing.                                           *)
NoEffect(p) == Ends(p) /\ UNCHANGED host

Return(p) ==
    /\ stage[p] # "none" /\ stage' = [stage EXCEPT ![p] = "none"]
    /\ op' = [op EXCEPT ![p] = "none"] /\ subject' = [subject EXCEPT ![p] = NoUser]
    /\ UNCHANGED host

Step(p) ==
    Call(p) \/ LogIn(p) \/ LogOut(p) \/ Switch(p) \/ NoEffect(p) \/ Return(p)

Next == \E p \in Procs : Step(p) \/ LogOutAgain(p)

Spec == Init /\ [][Next]_vars

(* Commands one after the other: no logout finds its user gone.            *)
SequentialSpec == Init /\ [][\E p \in Procs : Step(p)]_vars

=============================================================================
