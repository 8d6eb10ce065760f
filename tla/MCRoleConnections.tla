------------------------- MODULE MCRoleConnections -------------------------
(* Instances of RoleConnections for TLC: four upgrade requests for one role. *)
EXTENDS RoleConnections

CONSTANTS s1, s2, s3, s4

FourSockets  == {s1, s2, s3, s4}
ThreeSockets == {s1, s2, s3}
=============================================================================
