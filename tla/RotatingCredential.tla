------------------------- MODULE RotatingCredential -------------------------
(***************************************************************************)
(* What the credential store promises its callers: the one refreshable     *)
(* credential of a user changes in single steps.  A refresh exchanges and  *)
(* replaces the stored token at once, or loses the account when the        *)
(* successor is lost; only a login installs a token that is not the        *)
(* successor of the stored one; only a logout, a login with a plain token  *)
(* or a rejection removes it, the last one a token the server has dropped. *)
(***************************************************************************)
EXTENDS Integers

CONSTANTS Callers   \* whoever calls the store

VARIABLES
    stored,   \* the stored refresh token, 0 when there is none
    valid,    \* the refresh tokens the server accepts
    spent,    \* the refresh tokens it has exchanged
    request,  \* the call each caller is making
    hand      \* the token a login brings, 0 when it brings none

vars == <<stored, valid, spent, request, hand>>

Init ==
    /\ stored = 0 /\ valid = {} /\ spent = {}
    /\ request = [c \in Callers |-> "none"]
    /\ hand = [c \in Callers |-> 0]

Fresh == {n \in Nat \ {0} : n \notin valid \cup spent}

(* The server's half of an exchange.                                       *)
Exchange(n) ==
    /\ stored \in valid /\ n \in Fresh
    /\ valid' = (valid \ {stored}) \cup {n}
    /\ spent' = spent \cup {stored}

Call(c) ==
    /\ request[c] = "none"
    /\ \E r \in {"refresh", "login", "logout"} : request' = [request EXCEPT ![c] = r]
    /\ UNCHANGED <<stored, valid, spent, hand>>

CallWithToken(c) ==
    /\ request[c] = "none"
    /\ request' = [request EXCEPT ![c] = "loginRefreshable"]
    /\ hand'[c] \in Fresh
    /\ hand' = [hand EXCEPT ![c] = hand'[c]]
    /\ valid' = valid \cup {hand'[c]}
    /\ UNCHANGED <<stored, spent>>

Rotate(c) ==
    /\ request[c] = "refresh"
    /\ stored' # stored /\ Exchange(stored')
    /\ UNCHANGED <<request, hand>>

(* The exchange took place and its result was lost.                        *)
Strand(c) ==
    /\ request[c] = "refresh"
    /\ \E n \in valid' : Exchange(n)
    /\ UNCHANGED <<stored, request, hand>>

Reject(c) ==
    /\ request[c] = "refresh" /\ stored \notin valid
    /\ stored' = 0
    /\ UNCHANGED <<valid, spent, request, hand>>

Remove(c) ==
    /\ request[c] \in {"login", "logout"}
    /\ stored' = 0
    /\ UNCHANGED <<valid, spent, request, hand>>

Install(c) ==
    /\ request[c] = "loginRefreshable" /\ hand[c] # 0
    /\ stored' = hand[c]
    /\ hand' = [hand EXCEPT ![c] = 0]
    /\ UNCHANGED <<valid, spent, request>>

(* A login fails to store what it brought.                                 *)
Discard(c) ==
    /\ hand' = [hand EXCEPT ![c] = 0]
    /\ UNCHANGED <<stored, valid, spent, request>>

(* Calls end; the calls of a process that dies end together, a refresh     *)
(* among them perhaps after its exchange.                                  *)
End(C) ==
    /\ request' = [c \in Callers |-> IF c \in C THEN "none" ELSE request[c]]
    /\ hand' = [c \in Callers |-> IF c \in C THEN 0 ELSE hand[c]]
    /\ \/ UNCHANGED <<valid, spent>>
       \/ (\E c \in C : request[c] = "refresh") /\ \E n \in valid' : Exchange(n)
    /\ UNCHANGED stored

Revoke ==
    /\ valid' = valid \ {stored}
    /\ UNCHANGED <<stored, spent, request, hand>>

Next ==
    \/ \E c \in Callers :
        \/ Call(c) \/ CallWithToken(c) \/ Discard(c)
        \/ Rotate(c) \/ Strand(c) \/ Reject(c) \/ Remove(c) \/ Install(c)
    \/ \E C \in SUBSET Callers : End(C)
    \/ Revoke

Spec == Init /\ [][Next]_vars
=============================================================================
