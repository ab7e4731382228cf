------------------------ MODULE MCUpdateTransaction ------------------------
(***************************************************************************)
(* Instances of UpdateTransaction for TLC: two components, three versions, *)
(* and four component sets, one of which installs but is never healthy.    *)
(***************************************************************************)
EXTENDS UpdateTransaction, TLC

CONSTANTS agent, client

MCComponents == {agent, client}
MCVersions == 1..3

set(a, c) == (agent :> a) @@ (client :> c)

MCBaseline  == set(1, 1)
MCDefective == {set(2, 2)}
MCManifests == {MCBaseline, set(2, 2), set(2, 1), set(3, 2)}
=============================================================================
