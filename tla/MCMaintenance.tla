---------------------------- MODULE MCMaintenance ----------------------------
(* Two administrators, who are alike. *)
EXTENDS Maintenance, TLC

CONSTANTS a1, a2
MCAdmins == {a1, a2}
AdminsAlike == Permutations(MCAdmins)
=============================================================================
