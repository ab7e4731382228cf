------------------------------- MODULE FirstBoot -------------------------------
(***************************************************************************)
(* xaac-first-boot.service: at a boot without the completed marker it      *)
(* looks at the hardware, has the device's identity created (or loaded),   *)
(* records the outcome and writes the marker.                              *)
(*                                                                         *)
(* The installed executable runs it on the root "/", and that root is one  *)
(* DeviceIdentityManager.create refuses: what create does for another root *)
(* is one step here.                                                       *)
(***************************************************************************)
EXTENDS Integers, Sequences

CONSTANTS
  MaxBoots,        \* bound: boots of the terminal
  MaxFaults        \* bound: steps that fail

VARIABLES
  place,           \* where the service is
  boots,
  identity,        \* is there a device.json?
  state,           \* what state.json says
  marker,          \* is there a completed marker?
  faults

vars == <<place, boots, identity, state, marker, faults>>

Init ==
  /\ place = "off" /\ boots = 0 /\ faults = 0
  /\ identity = FALSE /\ state = "absent" /\ marker = FALSE

\* A path is the sequence of its names.
Root == <<>>

\* "/" and what lies directly below it.
Unsafe(root) == Len(root) <= 1

Goes(from, to) == place = from /\ place' = to /\ UNCHANGED <<boots, faults>>

-----------------------------------------------------------------------------
\* ConditionPathExists=!completed
Boot ==
  /\ place = "off" /\ boots < MaxBoots
  /\ boots' = boots + 1
  /\ place' = IF marker THEN "up" ELSE "profile"
  /\ UNCHANGED <<identity, state, marker, faults>>

LoadProfile ==
  /\ Goes("profile", "hardware")
  /\ UNCHANGED <<identity, state, marker>>

\* A profile that is not accepted is not even recorded as a failure.
RefuseProfile ==
  /\ place = "profile" /\ faults < MaxFaults
  /\ place' = "up" /\ faults' = faults + 1
  /\ UNCHANGED <<boots, identity, state, marker>>

ValidateHardware ==
  /\ Goes("hardware", "identity")
  /\ UNCHANGED <<identity, state, marker>>

\* Before the identity's profile, or an identity that is there, is read.
RefuseRoot ==
  /\ Unsafe(Root)
  /\ Goes("identity", "failed")
  /\ UNCHANGED <<identity, state, marker>>

CreateIdentity ==
  /\ ~Unsafe(Root)
  /\ Goes("identity", "record")
  /\ identity' = TRUE
  /\ UNCHANGED <<state, marker>>

RecordCompleted ==
  /\ Goes("record", "marker")
  /\ state' = "completed"
  /\ UNCHANGED <<identity, marker>>

WriteMarker ==
  /\ Goes("marker", "up")
  /\ marker' = TRUE
  /\ UNCHANGED <<identity, state>>

\* Another product, too little memory, no eMMC, openssl, a full disk.
StepFails ==
  /\ place \in {"hardware", "identity", "record", "marker"} /\ faults < MaxFaults
  /\ place' = "failed" /\ faults' = faults + 1
  /\ UNCHANGED <<boots, identity, state, marker>>

\* The handler; the boot goes on without the service.
RecordFailure ==
  /\ Goes("failed", "up")
  /\ state' = "failed"
  /\ UNCHANGED <<identity, marker>>

\* At any step, and between any two.
PowerOff ==
  /\ place # "off" /\ place' = "off"
  /\ UNCHANGED <<boots, identity, state, marker, faults>>

Next ==
  \/ Boot \/ LoadProfile \/ RefuseProfile \/ ValidateHardware
  \/ RefuseRoot \/ CreateIdentity \/ RecordCompleted \/ WriteMarker
  \/ StepFails \/ RecordFailure \/ PowerOff

Spec == Init /\ [][Next]_vars

-----------------------------------------------------------------------------
(***************************************************************************)
(* What phase-06-04.md says of the service: it generates the device's      *)
(* persistent identity or validates the one there is, before the Agent and *)
(* the session start.  So a terminal that came up, none of whose steps     *)
(* failed, has an identity.                                                *)
(***************************************************************************)
FirstBootGivesIdentity ==
  (place = "up" /\ faults = 0) => identity
=============================================================================
