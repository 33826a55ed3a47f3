-------------------------- MODULE MCPortForwarding --------------------------
(***************************************************************************)
(* Instances of PortForwarding for TLC.                                    *)
(***************************************************************************)
EXTENDS PortForwarding, TLC

CONSTANTS change, port

OneChange == {change}
OneConn == {"a"}
OnePort == {port}
SmallConnOf == [k \in OneChange |-> "a"]
SmallPortOf == [k \in OneChange |-> port]
PrivatePort == {[p \in OnePort |-> "private"]}
Privacy == {"private", "org", "public"}
NoOrg == {"private", "public"}

=============================================================================
