----------------------- MODULE MCRecoveryEnvironment -----------------------
(***************************************************************************)
(* Two packages of each kind.  Debian publishes one package first, then    *)
(* the other one too.                                                      *)
(***************************************************************************)
EXTENDS RecoveryEnvironment
CONSTANTS b1, b2
MCArchive == <<[p \in Base |-> IF p = b1 THEN 1 ELSE 0],
               [p \in Base |-> 1]>>
=============================================================================
