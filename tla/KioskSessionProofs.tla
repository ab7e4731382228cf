-------------------------- MODULE KioskSessionProofs --------------------------
(***************************************************************************)
(* What session-entry and the start of a session keep for every set of     *)
(* modes, and however often the session is started, signalled or its       *)
(* background dies.                                                        *)
(***************************************************************************)
EXTENDS KioskSession, TLAPS

\* Which children there may be at each step of the entry, and which of them it
\* has recorded.
BeforeDock == {"remote_forked", "surface"}
AfterDock  == {"kill_remote", "poll", "reap_remote"}

ChildrenInv ==
  /\ entry \in {"none", "config", "launch"} =>
       app["remote"] \notin Running /\ app["dock"] = "none"
  /\ entry \in BeforeDock => app["dock"] = "none"
  /\ entry \in AfterDock => app["dock"] \notin Running

RecordedInv ==
  /\ entry \in {"surface", "dock_forked", "reap_dock"} \cup AfterDock => "remote" \in pids
  /\ entry = "reap_dock" => "dock" \in pids

\* Without a Dock there is none to wait for.
ModeInv ==
  mode = "disabled" =>
    /\ entry \notin {"surface", "dock_forked", "reap_dock", "kill_remote", "poll"}
    /\ entry = "reap_remote" => app["dock"] = "none"

EntryInv == ChildrenInv /\ RecordedInv /\ ModeInv /\ ChildrenReaped /\ ZeroIsTrue

KioskInv == TypeOK /\ EntryInv /\ ReadyIsFresh

(***************************************************************************)
(* The types: every action keeps them.                                     *)
(***************************************************************************)
LEMMA TypeInductive ==
  ASSUME TypeOK, [Next]_vars
  PROVE  TypeOK'
<1> USE ModesAssumption, BoundAssumption DEF TypeOK, Apps, Running, Ended
<1>0. CASE UNCHANGED vars
  BY <1>0 DEF vars, display, shell, bounds
<1>1. CASE Supervise
  <2>1. CASE GraphicsReady
    BY <2>1 DEF GraphicsReady, display, shell, bounds
  <2>2. CASE GraphicsMissing
    BY <2>2 DEF GraphicsMissing, display, shell, bounds
  <2>3. CASE StartSplash
    BY <2>3 DEF StartSplash, ForgetReady, display, shell, bounds
  <2>4. CASE LaunchClient
    BY <2>4 DEF LaunchClient, display, shell, bounds
  <2>5. CASE InteractiveSurface
    BY <2>5 DEF InteractiveSurface, display, shell, bounds
  <2>6. CASE KeepStableBackground
    BY <2>6 DEF KeepStableBackground, display, shell, bounds
  <2>7. CASE StartStableBackground
    BY <2>7 DEF StartStableBackground, display, shell, bounds
  <2>8. CASE EndHandoff
    BY <2>8 DEF EndHandoff, display, shell, bounds
  <2>9. CASE EndSplash
    BY <2>9 DEF EndSplash, ForgetReady, display, shell, bounds
  <2>10. CASE ClientStopped
    BY <2>10 DEF ClientStopped, display, shell, bounds
  <2>11. CASE ClientFailed
    BY <2>11 DEF ClientFailed, display, shell, bounds
  <2>12. CASE Restart
    BY <2>12 DEF Restart, display, shell, bounds
  <2> QED BY <1>1, <2>1, <2>2, <2>3, <2>4, <2>5, <2>6, <2>7, <2>8, <2>9, <2>10, <2>11, <2>12 DEF Supervise
<1>2. CASE Draw
  <2>1. CASE SplashMaps
    BY <2>1 DEF SplashMaps, shell, bounds
  <2>2. CASE SplashEnds
    BY <2>2 DEF SplashEnds, shell, bounds
  <2>3. CASE StableMaps
    BY <2>3 DEF StableMaps, shell, bounds
  <2>4. CASE StableDies
    BY <2>4 DEF StableDies, shell
  <2>5. CASE ScreenFails
    BY <2>5 DEF ScreenFails, shell, bounds
  <2>6. CASE \E a \in Apps : AppMaps(a) \/ AppCloses(a) \/ AppEnds(a)
    <3>1. UNCHANGED <<loop, sessions, display, entry, mode, pids, missed, code, bounds>>
      BY <2>6 DEF AppMaps, AppCloses, AppEnds, AppStep
    <3>2. app' \in [Apps -> {"none"} \cup Running \cup Ended]
      BY <2>6 DEF AppMaps, AppCloses, AppEnds, AppStep
    <3> QED BY <3>1, <3>2 DEF display, bounds
  <2>7. CASE DockRelaunches
    BY <2>7 DEF DockRelaunches, AppStep, display, bounds
  <2> QED BY <1>2, <2>1, <2>2, <2>3, <2>4, <2>5, <2>6, <2>7 DEF Draw
<1>3. CASE EntryStep
  <2>1. CASE ReadMode
    BY <2>1 DEF ReadMode, Entry, display, bounds
  <2>2. CASE RefuseConfiguration
    BY <2>2 DEF RefuseConfiguration, Entry, display, bounds
  <2>3. CASE LaunchRemote
    BY <2>3 DEF LaunchRemote, Entry, display, bounds
  <2>4. CASE RecordRemote
    BY <2>4 DEF RecordRemote, Entry, display, bounds
  <2>5. CASE LaunchDock
    BY <2>5 DEF LaunchDock, Entry, display, bounds
  <2>6. CASE RecordDock
    BY <2>6 DEF RecordDock, Entry, display, bounds
  <2>7. CASE ReapDock
    BY <2>7 DEF ReapDock, Entry, display, bounds
  <2>8. CASE EndRequired
    BY <2>8 DEF EndRequired, Entry, Killed, display, bounds
  <2>9. CASE NoRemoteWindow
    BY <2>9 DEF NoRemoteWindow, Entry, display, bounds
  <2>10. CASE ReapRemote
    BY <2>10 DEF ReapRemote, Entry, ExitCode, CodeOf, display, bounds
  <2> QED BY <1>3, <2>1, <2>2, <2>3, <2>4, <2>5, <2>6, <2>7, <2>8, <2>9, <2>10 DEF EntryStep
<1>4. CASE Trap
  BY <1>4 DEF Trap, Killed, Unrecorded, display
<1> QED BY <1>0, <1>1, <1>2, <1>3, <1>4 DEF Next

(***************************************************************************)
(* The entry and its children.                                             *)
(***************************************************************************)
LEMMA EntryInductive ==
  ASSUME TypeOK, EntryInv, [Next]_vars
  PROVE  EntryInv'
<1> USE DEF EntryInv, ChildrenInv, RecordedInv, ModeInv, ChildrenReaped, ZeroIsTrue, BeforeDock,
      AfterDock, Running, Ended, Apps
<1>0. CASE UNCHANGED vars
  BY <1>0 DEF vars, shell, bounds
<1>1. CASE Supervise
  <2>1. CASE LaunchClient
    BY <2>1 DEF LaunchClient, bounds, TypeOK
  <2>2. CASE UNCHANGED <<shell, bounds>>
    BY <2>2 DEF shell, bounds
  <2> QED
    BY <1>1, <2>1, <2>2 DEF Supervise, GraphicsReady, GraphicsMissing, StartSplash,
       InteractiveSurface, KeepStableBackground, StartStableBackground, EndHandoff, EndSplash,
       ClientStopped, ClientFailed, Restart
<1>2. CASE Draw
  <2>1. CASE UNCHANGED <<shell, signals>>
    BY <2>1 DEF shell
  <2>2. CASE \E a \in Apps : AppMaps(a) \/ AppCloses(a) \/ AppEnds(a)
    BY <2>2 DEF AppMaps, AppCloses, AppEnds, AppStep, bounds, TypeOK
  <2>3. CASE DockRelaunches
    BY <2>3 DEF DockRelaunches, AppStep, bounds, TypeOK
  <2> QED
    BY <1>2, <2>1, <2>2, <2>3 DEF Draw, SplashMaps, SplashEnds, StableMaps, StableDies,
       ScreenFails, bounds
<1>3. CASE EntryStep
  <2>1. CASE ReadMode \/ RefuseConfiguration
    BY <2>1 DEF ReadMode, RefuseConfiguration, Entry, bounds
  <2>2. CASE LaunchRemote \/ RecordRemote
    BY <2>2 DEF LaunchRemote, RecordRemote, Entry, bounds, TypeOK
  <2>3. CASE LaunchDock \/ RecordDock
    BY <2>3 DEF LaunchDock, RecordDock, Entry, bounds, TypeOK
  <2>4. CASE ReapDock \/ NoRemoteWindow
    BY <2>4 DEF ReapDock, NoRemoteWindow, Entry, bounds, TypeOK
  <2>5. CASE EndRequired
    BY <2>5 DEF EndRequired, Entry, Killed, bounds, TypeOK
  <2>6. CASE ReapRemote
    BY <2>6 DEF ReapRemote, ExitCode, CodeOf, Entry, bounds, TypeOK
  <2> QED BY <1>3, <2>1, <2>2, <2>3, <2>4, <2>5, <2>6 DEF EntryStep
<1>4. CASE Trap
  BY <1>4 DEF Trap, Killed, Unrecorded, TypeOK
<1> QED BY <1>0, <1>1, <1>2, <1>3, <1>4 DEF Next

(***************************************************************************)
(* The file of the splash.                                                 *)
(***************************************************************************)
LEMMA ReadyInductive ==
  ASSUME TypeOK, ReadyIsFresh, [Next]_vars
  PROVE  ReadyIsFresh'
<1> USE DEF ReadyIsFresh
<1>1. CASE UNCHANGED <<loop, display>>
  BY <1>1 DEF display
<1>2. CASE Supervise
  BY <1>2 DEF Supervise, GraphicsReady, GraphicsMissing, StartSplash, LaunchClient,
     InteractiveSurface, KeepStableBackground, StartStableBackground, StableAlive, EndHandoff,
     EndSplash, ClientStopped, ClientFailed, Restart, ForgetReady, display
<1>3. CASE SplashMaps \/ SplashEnds \/ StableMaps \/ StableDies \/ ScreenFails
  BY <1>3 DEF SplashMaps, SplashEnds, StableMaps, StableDies, ScreenFails
<1>4. CASE \/ \E a \in Apps : AppMaps(a) \/ AppCloses(a) \/ AppEnds(a)
           \/ DockRelaunches \/ EntryStep \/ Trap
  BY <1>1, <1>4 DEF AppMaps, AppCloses, AppEnds, DockRelaunches, AppStep, Trap, EntryStep,
     ReadMode, RefuseConfiguration, LaunchRemote, RecordRemote, LaunchDock, RecordDock,
     ReapDock, EndRequired, NoRemoteWindow, ReapRemote, Entry
<1>5. CASE UNCHANGED vars
  BY <1>1, <1>5 DEF vars
<1> QED BY <1>2, <1>3, <1>4, <1>5 DEF Next, Draw

LEMMA KioskInvariant == Spec => []KioskInv
<1>1. Init => KioskInv
  BY BoundAssumption DEF Init, KioskInv, TypeOK, EntryInv, ChildrenInv, RecordedInv, ModeInv,
     ChildrenReaped, ZeroIsTrue, ReadyIsFresh, Apps, Running, Ended,
     BeforeDock, AfterDock
<1>2. KioskInv /\ [Next]_vars => KioskInv'
  BY TypeInductive, EntryInductive, ReadyInductive DEF KioskInv
<1> QED BY <1>1, <1>2, PTL DEF Spec

(***************************************************************************)
(* The state of the kiosk session keeps its types.                         *)
(***************************************************************************)
THEOREM KioskTyped == Spec => []TypeOK
BY KioskInvariant, PTL DEF KioskInv

(***************************************************************************)
(* session-entry leaves no Remote and no Dock behind: the kill and the     *)
(* waits of every mode, and those of the trap, cover the children that are *)
(* running, but for one the entry has forked and not yet recorded.         *)
(***************************************************************************)
THEOREM NoChildLeftBehind == Spec => []ChildrenReaped
BY KioskInvariant, PTL DEF KioskInv, EntryInv

(***************************************************************************)
(* The supervisor never takes a failure of Remote or of the Dock for a     *)
(* voluntary end.                                                          *)
(***************************************************************************)
THEOREM NoFailureIsVoluntary == Spec => []ZeroIsTrue
BY KioskInvariant, PTL DEF KioskInv, EntryInv

(***************************************************************************)
(* No client is started on the word of an earlier splash.                  *)
(***************************************************************************)
THEOREM ReadyStaysFresh == Spec => []ReadyIsFresh
BY KioskInvariant, PTL DEF KioskInv
=============================================================================
