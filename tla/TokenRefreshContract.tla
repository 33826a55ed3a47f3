------------------------ MODULE TokenRefreshContract ------------------------
(* TokenRefresh implements RotatingCredential.  An exchange takes effect   *)
(* when its result is stored or lost: until then the mapping undoes what   *)
(* the server has already done.                                            *)
EXTENDS TokenRefresh

(* The call brings a credential from the OAuth flow and has not stored it. *)
InHand(t) ==
    \/ op[t] = "loginRefreshable" /\ pc[t] \in {"mutex", "flock"}
    \/ pc[t] = "storeRefreshable"

UnderWay == {t \in Threads : Stranded(t) # {}}

(* The server before the exchanges under way, and the tokens in hand.      *)
Accepted ==
    (valid \ {renewed[t].rt : t \in UnderWay}) \cup {current[t].rt : t \in UnderWay}
Exchanged == spent \ {current[t].rt : t \in UnderWay}
Brought == [t \in Threads |-> IF InHand(t) THEN renewed[t].rt ELSE 0]

Store == INSTANCE RotatingCredential WITH
    Callers <- Threads,
    stored  <- keyring["refreshable"].rt,
    valid   <- Accepted,
    spent   <- Exchanged,
    request <- op,
    hand    <- Brought

(* The calls of several processes act on the credential one at a time, as  *)
(* if every refresh exchanged and stored its token in one step.            *)
AtomicStore == Store!Spec
=============================================================================
