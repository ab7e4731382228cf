---------------------------- MODULE SessionStates ----------------------------
(***************************************************************************)
(* What the kiosk session supervisor promises to whoever reads the state   *)
(* it publishes (the Agent, the recovery tools): the order in which the    *)
(* states of a session can be seen.  "none" is a terminal on which no      *)
(* supervisor has published yet.                                           *)
(***************************************************************************)

VARIABLE shown

Order ==
  {<<"none", "starting">>, <<"none", "degraded">>,
   <<"starting", "running">>,
   <<"running", "failed">>, <<"running", "stopped">>,
   <<"failed", "starting">>, <<"failed", "degraded">>}

Init == shown = "none"

Show == <<shown, shown'>> \in Order

Spec == Init /\ [][Show]_shown
=============================================================================
