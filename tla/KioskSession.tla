----------------------------- MODULE KioskSession -----------------------------
(***************************************************************************)
(* What is on the display of the kiosk: the start of a session by the      *)
(* supervisor (splash, client, backgrounds, recovery screens) and the      *)
(* client it supervises, the shell program session-entry that runs Remote  *)
(* and the Dock.  Both are generated by session_supervisor.py.             *)
(*                                                                         *)
(* How often the supervisor restarts is RestartPolicy's subject: here the  *)
(* choice between a restart and giving up is free.  A wait with a timeout  *)
(* may end at any time, so every race of a timeout is among the behaviours.*)
(***************************************************************************)
EXTENDS Naturals

CONSTANTS
  Modes,           \* the modes the Dock's configuration file may name
  MaxSessions,     \* bound: starts of the client
  MaxSignals,      \* bound: signals an administrator sends to session-entry
  MaxCrashes       \* bound: ends of the stable background

ASSUME ModesAssumption == Modes \subseteq {"disabled", "optional", "required", "invalid"}
ASSUME BoundAssumption == MaxSessions \in Nat /\ MaxSignals \in Nat /\ MaxCrashes \in Nat

VARIABLES
  loop,            \* where the supervisor is
  sessions,        \* how many clients it has started
  splash, ready,   \* the startup screen, and the file that says it is mapped
  handoff,         \* the background of the labwc autostart
  stable,          \* the background of the session
  screen,          \* the recovery screen
  entry,           \* where session-entry is
  mode,            \* the mode it has read
  pids,            \* the children it has recorded and not waited for
  missed,          \* history: the child a signal found forked and not recorded
  code,            \* its exit code
  app,             \* Remote, the Dock, and the Remote the Dock relaunches
  wlrctl,          \* the program that asks for the windows, on Wayland
  signals, crashes

display == <<splash, ready, handoff, stable, screen>>
shell   == <<entry, mode, pids, missed, code, app>>
bounds  == <<wlrctl, signals, crashes>>
vars    == <<loop, sessions, display, shell, bounds>>

Apps    == {"remote", "dock", "again"}
Running == {"starting", "mapped", "closed"}     \* closed: no window any more
Ended   == {"ok", "failed"}

Init ==
  /\ loop = "graphics" /\ sessions = 0
  /\ splash = "none" /\ ready = "absent"
  /\ handoff = "mapped" /\ stable = "none" /\ screen = "none"
  /\ entry = "none" /\ mode = "disabled" /\ pids = {} /\ missed = {} /\ code = 0
  /\ app = [a \in Apps |-> "none"]
  /\ wlrctl \in {"there", "absent"}
  /\ signals = 0 /\ crashes = 0

RemoteWindow == "mapped" \in {app["remote"], app["again"]}

-----------------------------------------------------------------------------
(* The supervisor. *)

GraphicsReady ==
  /\ loop = "graphics"
  /\ loop' = "start"
  /\ UNCHANGED <<sessions, display, shell, bounds>>

GraphicsMissing ==
  /\ loop = "graphics"
  /\ loop' = "degraded" /\ screen' = "degraded"
  /\ UNCHANGED <<sessions, splash, ready, handoff, stable, shell, bounds>>

ForgetReady == ready' = "absent"

StartSplash ==
  /\ loop = "start"
  /\ loop' = "splash" /\ splash' = "starting"
  /\ ForgetReady
  /\ UNCHANGED <<sessions, handoff, stable, screen, shell, bounds>>

\* wait_for_startup_surface ends when the file is there, when the splash has
\* died and at its timeout; the client is started in each case.
LaunchClient ==
  /\ loop = "splash" /\ sessions < MaxSessions
  /\ loop' = "surface" /\ sessions' = sessions + 1
  /\ entry' = "config" /\ pids' = {} /\ missed' = {} /\ code' = 0
  /\ app' = [app EXCEPT !["remote"] = "none", !["dock"] = "none"]
  /\ UNCHANGED <<display, mode, bounds>>

\* wait_for_interactive_surface ends at a window or at its timeout.
InteractiveSurface ==
  /\ loop = "surface"
  /\ loop' = "background"
  /\ UNCHANGED <<sessions, display, shell, bounds>>

StableAlive == stable \in {"starting", "mapped"}

KeepStableBackground ==
  /\ loop = "background" /\ StableAlive
  /\ loop' = "uncover"
  /\ UNCHANGED <<sessions, display, shell, bounds>>

StartStableBackground ==
  /\ loop = "background" /\ ~StableAlive
  /\ loop' = "handoff" /\ stable' = "starting"
  /\ UNCHANGED <<sessions, splash, ready, handoff, screen, shell, bounds>>

\* A tenth of a second later, whether or not the new background is mapped.
EndHandoff ==
  /\ loop = "handoff"
  /\ loop' = "uncover" /\ handoff' = "killed"
  /\ UNCHANGED <<sessions, splash, ready, stable, screen, shell, bounds>>

EndSplash ==
  /\ loop = "uncover"
  /\ loop' = "wait" /\ splash' = "none"
  /\ ForgetReady
  /\ UNCHANGED <<sessions, handoff, stable, screen, shell, bounds>>

ClientStopped ==
  /\ loop = "wait" /\ entry = "exited" /\ code = 0
  /\ loop' = "stopped"
  /\ UNCHANGED <<sessions, display, shell, bounds>>

\* One more restart, or the end: the loop execs the error screen.
ClientFailed ==
  /\ loop = "wait" /\ entry = "exited" /\ code # 0
  /\ \/ loop' = "recover" /\ screen' = "recovering"
     \/ loop' = "degraded" /\ screen' = "degraded"
  /\ UNCHANGED <<sessions, splash, ready, handoff, stable, shell, bounds>>

\* The recovery screen's time is over, or it has failed and the loop slept.
Restart ==
  /\ loop = "recover" /\ sessions < MaxSessions
  /\ loop' = "start" /\ screen' = "none"
  /\ UNCHANGED <<sessions, splash, ready, handoff, stable, shell, bounds>>

Supervise ==
  \/ GraphicsReady \/ GraphicsMissing \/ StartSplash \/ LaunchClient
  \/ InteractiveSurface \/ KeepStableBackground \/ StartStableBackground
  \/ EndHandoff \/ EndSplash \/ ClientStopped \/ ClientFailed \/ Restart

-----------------------------------------------------------------------------
(* The programs that draw on the display. *)

\* The splash writes the file once it is mapped, if it can.
SplashMaps ==
  /\ splash = "starting"
  /\ splash' = "mapped"
  /\ ready' \in {"there", ready}
  /\ UNCHANGED <<loop, sessions, handoff, stable, screen, shell, bounds>>

\* It quits at its own timeout, and when GTK cannot start.
SplashEnds ==
  /\ splash \in {"starting", "mapped"}
  /\ splash' = "ended"
  /\ UNCHANGED <<loop, sessions, ready, handoff, stable, screen, shell, bounds>>

StableMaps ==
  /\ stable = "starting"
  /\ stable' = "mapped"
  /\ UNCHANGED <<loop, sessions, splash, ready, handoff, screen, shell, bounds>>

StableDies ==
  /\ StableAlive /\ crashes < MaxCrashes
  /\ stable' = "dead" /\ crashes' = crashes + 1
  /\ UNCHANGED <<loop, sessions, splash, ready, handoff, screen, shell, wlrctl, signals>>

\* A recovery screen that fails; nobody restarts that of the degraded state.
ScreenFails ==
  /\ screen # "none"
  /\ screen' = "none"
  /\ UNCHANGED <<loop, sessions, splash, ready, handoff, stable, shell, bounds>>

AppStep(a, from, to) ==
  /\ app[a] \in from
  /\ \E s \in to : app' = [app EXCEPT ![a] = s]
  /\ UNCHANGED <<loop, sessions, display, entry, mode, pids, missed, code, bounds>>

AppMaps(a) == AppStep(a, {"starting"}, {"mapped"})
AppCloses(a) == AppStep(a, {"mapped"}, {"closed"})
AppEnds(a) == AppStep(a, Running, Ended)

\* The Dock starts Remote again once the first one has ended.
DockRelaunches ==
  /\ app["dock"] = "mapped" /\ app["remote"] \in Ended
  /\ AppStep("again", {"none"} \cup Ended, {"starting"})

Draw ==
  \/ SplashMaps \/ SplashEnds \/ StableMaps \/ StableDies \/ ScreenFails
  \/ \E a \in Apps : AppMaps(a) \/ AppCloses(a) \/ AppEnds(a)
  \/ DockRelaunches

-----------------------------------------------------------------------------
(* session-entry. *)

Entry(from, to) ==
  /\ entry = from /\ entry' = to
  /\ UNCHANGED <<loop, sessions, display, missed, bounds>>

\* The code of a child that has been waited for.
CodeOf(a) == IF app[a] = "ok" THEN 0 ELSE 1

\* The mode is read at every start; an invalid one, or a program that is not
\* there, ends the entry before it has started anything.
ReadMode ==
  /\ \E m \in Modes \ {"invalid"} : mode' = m
  /\ Entry("config", "launch")
  /\ UNCHANGED <<pids, code, app>>

RefuseConfiguration ==
  /\ \E c \in {69} \cup (IF "invalid" \in Modes THEN {78} ELSE {}) : code' = c
  /\ Entry("config", "exited")
  /\ UNCHANGED <<mode, pids, app>>

LaunchRemote ==
  /\ Entry("launch", "remote_forked")
  /\ app' = [app EXCEPT !["remote"] = "starting"]
  /\ UNCHANGED <<mode, pids, code>>

\* remote_pid=$! is a command of its own: a signal may come before it.
RecordRemote ==
  /\ entry = "remote_forked"
  /\ Entry("remote_forked", IF mode = "disabled" THEN "reap_remote" ELSE "surface")
  /\ pids' = {"remote"}
  /\ UNCHANGED <<mode, code, app>>

\* wait_for_remote_surface ends at Remote's window or end, or after its fifty
\* tries; the Dock is launched in each case.
LaunchDock ==
  /\ Entry("surface", "dock_forked")
  /\ app' = [app EXCEPT !["dock"] = "starting"]
  /\ UNCHANGED <<mode, pids, code>>

\* With focus_remote_after_dock_map, which only asks the compositor.
RecordDock ==
  /\ Entry("dock_forked", "reap_dock")
  /\ pids' = pids \cup {"dock"}
  /\ UNCHANGED <<mode, code, app>>

ReapDock ==
  /\ app["dock"] \in Ended
  /\ entry = "reap_dock"
  /\ Entry("reap_dock", IF mode = "required" THEN "kill_remote" ELSE "poll")
  /\ pids' = pids \ {"dock"}
  /\ UNCHANGED <<mode, code, app>>

\* The children in s are killed and waited for.
Killed(s) == [a \in Apps |-> IF a \in s /\ app[a] \in Running THEN "failed" ELSE app[a]]

\* A required Dock that ends takes the session with it.
EndRequired ==
  /\ Entry("kill_remote", "exited")
  /\ code' = 70 /\ pids' = {}
  /\ app' = Killed({"remote"})
  /\ UNCHANGED mode

\* Mutant: until instead of while.
NoRemoteWindowUntil ==
  /\ wlrctl = "there" => RemoteWindow
  /\ Entry("poll", "reap_remote")
  /\ UNCHANGED <<mode, pids, code, app>>

\* The loop over Remote's windows, those of a relaunched Remote included, ends
\* when wlrctl finds none; without wlrctl there is no loop.
NoRemoteWindow ==
  /\ wlrctl = "there" => ~RemoteWindow
  /\ Entry("poll", "reap_remote")
  /\ UNCHANGED <<mode, pids, code, app>>

\* Mutant: the code is Remote's, whatever became of the Dock.
ExitCodeOfRemote == CodeOf("remote")

\* The code of a Dock that failed comes first.
ExitCode ==
  IF mode # "disabled" /\ CodeOf("dock") # 0 THEN CodeOf("dock") ELSE CodeOf("remote")

ReapRemote ==
  /\ app["remote"] \in Ended
  /\ Entry("reap_remote", "exited")
  /\ code' = ExitCode
  /\ pids' = pids \ {"remote"}
  /\ UNCHANGED <<mode, app>>

EntryStep ==
  \/ ReadMode \/ RefuseConfiguration \/ LaunchRemote \/ RecordRemote \/ LaunchDock
  \/ RecordDock \/ ReapDock \/ EndRequired \/ NoRemoteWindow \/ ReapRemote

\* The child that has been forked and whose pid no command has recorded yet.
Unrecorded ==
  {a \in {"remote", "dock"} : entry = (IF a = "remote" THEN "remote_forked" ELSE "dock_forked")}

\* Mutant: the trap forgets Remote.
TrapDockOnly ==
  /\ signals < MaxSignals /\ entry \notin {"none", "config", "exited"}
  /\ entry' = "exited" /\ code' = 0 /\ signals' = signals + 1
  /\ app' = Killed(pids \cap {"dock"}) /\ pids' = {} /\ missed' = Unrecorded
  /\ UNCHANGED <<loop, sessions, display, mode, wlrctl, crashes>>

\* HUP, INT or TERM: the trap ends the children it knows, and the entry says 0.
Trap ==
  /\ signals < MaxSignals /\ entry \notin {"none", "config", "exited"}
  /\ entry' = "exited" /\ code' = 0 /\ signals' = signals + 1
  /\ app' = Killed(pids) /\ pids' = {} /\ missed' = Unrecorded
  /\ UNCHANGED <<loop, sessions, display, mode, wlrctl, crashes>>

Next == Supervise \/ Draw \/ EntryStep \/ Trap

Spec == Init /\ [][Next]_vars

\* Both programs run on; nothing is assumed of what they start, nor of users.
FairSpec == Spec /\ WF_vars(Supervise) /\ WF_vars(EntryStep)

-----------------------------------------------------------------------------
\* The types of the variables.
TypeOK ==
  /\ loop \in {"graphics", "start", "splash", "surface", "background", "handoff",
               "uncover", "wait", "recover", "degraded", "stopped"}
  /\ sessions \in 0 .. MaxSessions
  /\ splash \in {"none", "starting", "mapped", "ended"}
  /\ ready \in {"there", "absent"}
  /\ handoff \in {"mapped", "killed"}
  /\ stable \in {"none", "starting", "mapped", "dead"}
  /\ screen \in {"none", "recovering", "degraded"}
  /\ entry \in {"none", "config", "launch", "remote_forked", "surface", "dock_forked",
                "reap_dock", "kill_remote", "poll", "reap_remote", "exited"}
  /\ mode \in {"disabled", "optional", "required"}
  /\ {pids, missed} \subseteq SUBSET {"remote", "dock"}
  /\ code \in {0, 1, 69, 70, 78}
  /\ app \in [Apps -> {"none"} \cup Running \cup Ended]
  /\ wlrctl \in {"there", "absent"}
  /\ signals \in 0 .. MaxSignals
  /\ crashes \in 0 .. MaxCrashes

(***************************************************************************)
(* An entry that has exited has left none of its children behind, in any   *)
(* mode, wherever it was and whatever ended it, so that the supervisor     *)
(* never starts a client beside the Remote or the Dock of the last one.    *)
(* The one that may stay is the child which a signal found between its     *)
(* fork and the command that records it; the others the trap has ended.    *)
(***************************************************************************)
ChildrenReaped ==
  entry = "exited" => {a \in {"remote", "dock"} : app[a] \in Running} \subseteq missed

(***************************************************************************)
(* The supervisor stops for good at a zero, so a zero must be true: Remote *)
(* and the Dock have both ended well, or the entry was signalled.          *)
(***************************************************************************)
ZeroIsTrue ==
  entry = "exited" /\ code = 0 /\ signals = 0 =>
    app["remote"] = "ok" /\ app["dock"] \in {"ok", "none"}

(***************************************************************************)
(* The file that ends the wait for the startup surface is that of the      *)
(* splash of this start: no client starts on the word of an earlier one.   *)
(***************************************************************************)
ReadyIsFresh == ready = "there" => splash \in {"mapped", "ended"}

(***************************************************************************)
(* Once Remote and the Dock have ended and no window of a relaunched       *)
(* Remote can come any more, the entry exits and the supervisor acts on    *)
(* it: the session does not hang on programs that are gone.                *)
(***************************************************************************)
Over ==
  /\ loop = "wait"
  /\ app["remote"] \in Ended
  /\ app["dock"] \in Ended \/ (app["dock"] = "none" /\ mode = "disabled")
  /\ app["again"] \notin Running

SessionEnds == Over ~> loop # "wait"
=============================================================================
