--------------------------- MODULE DeviceElection ---------------------------
(***************************************************************************)
(* What getOrCreateDeviceID promises to processes that start together: one *)
(* of them is elected, once and for all, by giving its ID to the file; and *)
(* each is told the ID of the elected one or, unless it is the elected one *)
(* itself, that the ID is unknown.                                         *)
(***************************************************************************)
CONSTANTS Procs, NoID, Unknown

VARIABLES
    winner,    \* the process elected
    told       \* what each process has been told

vars == <<winner, told>>

Init ==
    /\ winner = NoID
    /\ told = [p \in Procs |-> NoID]

Elect(p) ==
    /\ winner = NoID /\ told[p] = NoID
    /\ winner' = p /\ UNCHANGED told

Tell(p, i) ==
    /\ told[p] = NoID /\ i # NoID
    /\ i = winner \/ (i = Unknown /\ winner # p)
    /\ told' = [told EXCEPT ![p] = i] /\ UNCHANGED winner

Next == \E p \in Procs : Elect(p) \/ \E i \in Procs \cup {Unknown} : Tell(p, i)

Spec == Init /\ [][Next]_vars

=============================================================================
