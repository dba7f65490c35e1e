------------------------ MODULE MCLeaderDesignation ------------------------
(* Instances of LeaderDesignation for TLC. *)
EXTENDS LeaderDesignation

CONSTANTS e1, e2, e3

=============================================================================
