------------------------ MODULE DevelopmentBuildProofs ------------------------
(***************************************************************************)
(* For any number of processes, commands and faults, while no command      *)
(* begins between clean's look at the lock and its rmtree: the lock file   *)
(* keeps the commands apart, therefore the hashes in a manifest are those  *)
(* of the artefacts beside it, and an image the build commands alone have  *)
(* made holds a beginning of the pipeline, apt at least.                   *)
(***************************************************************************)
EXTENDS DevelopmentBuild, SequenceTheorems, TLAPS

-----------------------------------------------------------------------------
\* Types.
LEMMA InitialPart ==
  ASSUME NEW S, NEW q \in Seq(S), Len(q) > 0
  PROVE  SubSeq(q, 1, Len(q) - 1) \in Seq(S)
<1>1. \A i \in 1 .. (Len(q) - 1) : q[i] \in S
  <2> TAKE i \in 1 .. (Len(q) - 1)
  <2>1. i \in 1 .. Len(q)
    OBVIOUS
  <2> QED BY <2>1, ElementOfSeq
<1>2. Len(q) - 1 \in Int
  OBVIOUS
<1> QED
  BY <1>1, <1>2, SubSeqProperties

LEMMA StagesOfThePipeline ==
  /\ Pipeline \in Seq(Stage)
  /\ SubSeq(Pipeline, 1, Len(Pipeline) - 1) \in Seq(Stage)
  /\ \A s \in Stage : <<s>> \in Seq(Stage)
<1>1. Pipeline \in Seq(Stage)
  BY DEF Pipeline, Stage, StageOf
<1>2. Len(Pipeline) > 0
  BY DEF Pipeline
<1> QED
  BY <1>1, <1>2, InitialPart

\* What a process is while it works in a stage.
LEMMA WorkerTyped ==
  ASSUME TypeOK, NEW p \in Builder, NEW c \in Command, NEW r \in 0..MaxRuns,
         NEW todo \in Seq(Stage), WorksIn(p, c, r, todo)
  PROVE  proc' \in [Builder -> Process]
BY DEF TypeOK, WorksIn, Process, Places

LEMMA IdleTyped == Idle \in Process
BY BuildAssumption DEF Idle, Process, Places

\* The next place of a process.
LEMMA PlaceTyped ==
  ASSUME TypeOK, NEW p \in Builder, NEW place \in Places, proc' = [proc EXCEPT ![p].pc = place]
  PROVE  proc' \in [Builder -> Process]
BY DEF TypeOK, Process

\* A new run.
LEMMA NewRunTyped ==
  ASSUME TypeOK, NEW c, NewRun(c)
  PROVE  /\ runs + 1 \in 0..MaxRuns /\ runs' \in 0..MaxRuns
         /\ kept' \subseteq 1..runs' /\ current' \in 0..runs'
         /\ byHand' \subseteq Run /\ files' = files /\ done' = done
<1> USE BuildAssumption
<1>1. runs' = runs + 1 /\ runs + 1 \in 1..MaxRuns
  BY DEF NewRun, TypeOK
<1>2. kept' \subseteq 1..runs' /\ current' \in 0..runs'
  BY <1>1 DEF NewRun, TypeOK
<1>3. byHand' \subseteq Run
  BY <1>1 DEF NewRun, TypeOK, Run
<1> QED
  BY <1>1, <1>2, <1>3 DEF NewRun

LEMMA CurrentTyped == TypeOK => Current \in 0..MaxRuns
BY BuildAssumption DEF TypeOK, Current

LEMMA KeptTyped == TypeOK => kept \subseteq Run
BY BuildAssumption DEF TypeOK, Run

LEMMA TypeInit == Init => TypeOK
BY IdleTyped, BuildAssumption DEF Init, TypeOK, Run

\* A command of Block 2 is one stage in the current run.
LEMMA CommandsAre ==
  ASSUME NEW p \in Builder, Commands(p)
  PROVE  \/ Prepare(p) \/ Bootstrap(p) \/ \E s \in Stage : Configure(p, s)
         \/ \E c \in Builds : BuildReuses(p, c) \/ BuildAnew(p, c)
         \/ CleanChecks(p)
<1>1. {"apt", "packages", "kernel", "uefi", "fstab", "systemd", "localization", "system",
       "users", "network", "ssh", "firewall"} \subseteq Stage
  BY DEF Stage, StageOf
<1> QED
  BY <1>1 DEF Commands, ConfigureApt, InstallPackages, ConfigureKernel, ConfigureUefi,
    ConfigurePartitions, ConfigureSystemd, ConfigureLocalization, ConfigureSystem,
    ConfigureUsers, ConfigureNetwork, ConfigureSsh, ConfigureFirewall

LEMMA CommandsKeepTypes ==
  ASSUME TypeOK, NEW p \in Builder, Commands(p)
  PROVE  TypeOK'
<1> USE BuildAssumption
<1>1. ASSUME NEW c \in Command, NEW todo \in Seq(Stage),
             AcquireLock(p, c), NewRun(c), WorksIn(p, c, runs + 1, todo),
             UNCHANGED <<artifactVars, faults>>
      PROVE  TypeOK'
  <2>1. proc' \in [Builder -> Process]
    BY <1>1, NewRunTyped, WorkerTyped
  <2>2. lock' \in Builder \cup {None} /\ begun' \in 0..MaxCommands
    BY <1>1 DEF AcquireLock, TypeOK
  <2> QED
    BY <1>1, <2>1, <2>2, NewRunTyped DEF artifactVars, TypeOK
<1>6. CASE Prepare(p)
  <2>1. <<"hooks">> \in Seq(Stage) /\ "prepare" \in Command
    BY <1>6 DEF Prepare, AcquireLock, Stage, StageOf
  <2> QED BY <1>1, <1>6, <2>1 DEF Prepare
<1>7. CASE Bootstrap(p)
  <2>1. <<"bootstrap">> \in Seq(Stage) /\ "bootstrap" \in Command
    BY <1>7 DEF Bootstrap, AcquireLock, Stage, StageOf
  <2> QED BY <1>1, <1>7, <2>1 DEF Bootstrap
<1>2. ASSUME NEW s \in Stage, Configure(p, s)
      PROVE  TypeOK'
  <2>1. proc' \in [Builder -> Process]
    BY <1>2, WorkerTyped, CurrentTyped, StagesOfThePipeline DEF Configure, AcquireLock
  <2>2. lock' \in Builder \cup {None} /\ begun' \in 0..MaxCommands
    BY <1>2 DEF Configure, AcquireLock, TypeOK
  <2>3. byHand' \subseteq Run
    <3>1. Current \in Run /\ byHand' = byHand \cup {Current}
      BY <1>2, CurrentTyped DEF Configure, Run
    <3> QED BY <3>1 DEF TypeOK
  <2> QED
    BY <1>2, <2>1, <2>2, <2>3 DEF Configure, artifactVars, TypeOK
<1>3. ASSUME NEW c \in Builds, BuildReuses(p, c)
      PROVE  TypeOK'
  <2>1. c \in Command /\ <<>> \in Seq(Stage) /\ Current \in 0..MaxRuns
    BY <1>3, CurrentTyped DEF BuildReuses, AcquireLock
  <2>2. proc' \in [Builder -> Process]
    BY <1>3, <2>1, WorkerTyped DEF BuildReuses
  <2>3. lock' \in Builder \cup {None} /\ begun' \in 0..MaxCommands
    BY <1>3 DEF BuildReuses, AcquireLock, TypeOK
  <2> QED
    BY <1>3, <2>2, <2>3 DEF BuildReuses, rootfsVars, artifactVars, TypeOK
<1>4. ASSUME NEW c \in Builds, BuildAnew(p, c)
      PROVE  TypeOK'
  BY <1>1, <1>4, StagesOfThePipeline DEF BuildAnew, AcquireLock
<1>5. CASE CleanChecks(p)
  <2>1. [Idle EXCEPT !.pc = "clean"] \in Process
    BY IdleTyped DEF Process, Places
  <2>2. proc' \in [Builder -> Process] /\ begun' \in 0..MaxCommands
    BY <1>5, <2>1 DEF CleanChecks, TypeOK
  <2> QED
    BY <1>5, <2>2 DEF CleanChecks, runVars, TypeOK
<1> QED
  BY <1>2, <1>3, <1>4, <1>5, <1>6, <1>7, CommandsAre

\* What a stage leaves, whether it finishes or not.
LEMMA FilesOfTyped == \A s \in Stage : FilesOf(s) \subseteq Stage
BY DEF FilesOf, Stage, StageOf

LEMMA HalvesTyped ==
  ASSUME TypeOK, NEW p \in Builder, proc[p].todo # <<>>, Halves(proc[p].run, Ahead(p))
  PROVE  files' \in [Run -> SUBSET Stage] /\ done' \in [Run -> SUBSET Stage]
<1>1. Ahead(p) \in Stage
  BY DEF TypeOK, Process, Ahead
<1>2. FilesOf(Ahead(p)) \subseteq Stage
  BY <1>1, FilesOfTyped
<1> QED
  BY <1>1, <1>2 DEF Halves, TypeOK

LEMMA LeavesTyped ==
  ASSUME TypeOK, NEW p \in Builder, Leaves(p)
  PROVE  /\ proc' \in [Builder -> Process]
         /\ lock' = None /\ begun' = begun
BY IdleTyped DEF Leaves, TypeOK

LEMMA StepsKeepTypes ==
  ASSUME TypeOK, NEW p \in Builder, Steps(p)
  PROVE  TypeOK'
<1> USE BuildAssumption
<1>1. CASE CleanRemoves(p)
  BY <1>1, IdleTyped DEF CleanRemoves, TypeOK, Run
<1>2. CASE StageDone(p)
  <2>1. Ahead(p) \in Stage /\ Tail(proc[p].todo) \in Seq(Stage)
    BY <1>2 DEF StageDone, TypeOK, Process, Ahead
  <2>2. FilesOf(Ahead(p)) \subseteq Stage
    BY <2>1, FilesOfTyped
  <2> QED
    BY <1>2, <2>1, <2>2 DEF StageDone, artifactVars, TypeOK, Process
<1>3. CASE StageRefuses(p) \/ Finish(p) \/ RefuseImage(p)
  BY <1>3, LeavesTyped DEF StageRefuses, Finish, RefuseImage, runVars, TypeOK
<1>4. CASE CreateImage(p)
  <2>1. proc' \in [Builder -> Process]
    BY <1>4, PlaceTyped DEF CreateImage, Places
  <2> QED
    BY <1>4, <2>1 DEF CreateImage, rootfsVars, TypeOK
<1>5. CASE FillImage(p)
  <2>1. proc' \in [Builder -> Process]
    BY <1>5, PlaceTyped DEF FillImage, Places
  <2> QED
    BY <1>5, <2>1 DEF FillImage, rootfsVars, TypeOK
<1>6. CASE Unmount(p)
  <2>1. proc' \in [Builder -> Process]
    BY <1>6, PlaceTyped DEF Unmount, Places
  <2> QED
    BY <1>6, <2>1 DEF Unmount, runVars, TypeOK
<1>9. CASE HashImage(p)
  <2>1. proc' \in [Builder -> Process]
    BY <1>9, PlaceTyped DEF HashImage, Places
  <2> QED
    BY <1>9, <2>1 DEF HashImage, runVars, TypeOK
<1>7. CASE Pack(p)
  <2>1. proc' \in [Builder -> Process]
    BY <1>7, PlaceTyped DEF Pack, Places
  <2>2. packed' \in [Run -> {"none", "partial", "whole", "changed"}]
    BY <1>7, KeptTyped DEF Pack, TypeOK
  <2> QED
    BY <1>7, <2>1, <2>2 DEF Pack, rootfsVars, TypeOK
<1>8. CASE Record(p)
  <2>1. recorded' \subseteq Run
    <3>1. recorded' \subseteq recorded \cup kept
      BY <1>8 DEF Record
    <3> QED BY <3>1, KeptTyped DEF TypeOK
  <2> QED
    BY <1>8, <2>1, LeavesTyped DEF Record, rootfsVars, TypeOK
<1> QED
  BY <1>1, <1>2, <1>3, <1>4, <1>5, <1>6, <1>7, <1>8, <1>9 DEF Steps

LEMMA FailsKeepTypes ==
  ASSUME TypeOK, NEW p \in Builder, Fails(p)
  PROVE  TypeOK'
<1> USE BuildAssumption
<1>1. CASE StageRaises(p)
  BY <1>1, LeavesTyped, HalvesTyped DEF StageRaises, Fault, artifactVars, TypeOK
<1>2. CASE FillRaises(p)
  BY <1>2, LeavesTyped DEF FillRaises, Fault, runVars, TypeOK
<1>3. CASE UnmountBusy(p)
  <2>1. proc' \in [Builder -> Process]
    BY <1>3, PlaceTyped DEF UnmountBusy, Places
  <2>2. stayed' \subseteq 0..MaxRuns
    BY <1>3 DEF UnmountBusy, TypeOK, Process
  <2>3. faults' \in 0..MaxFaults
    BY <1>3 DEF UnmountBusy, Fault, TypeOK
  <2> QED
    BY <1>3, <2>1, <2>2, <2>3 DEF UnmountBusy, rootfsVars, TypeOK
<1>4. CASE PackRaises(p)
  BY <1>4, LeavesTyped DEF PackRaises, Fault, rootfsVars, TypeOK
<1> QED
  BY <1>1, <1>2, <1>3, <1>4 DEF Fails

LEMMA TypeStep == TypeOK /\ [Next]_vars => TypeOK'
<1> SUFFICES ASSUME TypeOK, [Next]_vars PROVE TypeOK'
  OBVIOUS
<1> USE BuildAssumption
<1>1. CASE DryRun
  <2>1. /\ runs' \in 0..MaxRuns /\ kept' \subseteq 1..runs' /\ current' \in 0..runs'
        /\ recorded' \subseteq Run /\ begun' \in 0..MaxCommands
    <3>1. recorded' \subseteq recorded /\ begun' \in 0..MaxCommands
      BY <1>1 DEF DryRun, TypeOK
    <3>2. CASE runs < MaxRuns /\ runs' = runs + 1 /\ kept' = kept \cup {runs + 1} /\ current' = runs + 1
      BY <3>1, <3>2 DEF TypeOK
    <3>3. CASE UNCHANGED <<runs, kept, current>>
      BY <3>1, <3>3 DEF TypeOK
    <3> QED BY <1>1, <3>2, <3>3 DEF DryRun
  <2> QED
    BY <1>1, <2>1 DEF DryRun, TypeOK
<1>2. CASE PowerCut
  <2>1. proc' \in [Builder -> Process]
    BY <1>2, IdleTyped DEF PowerCut, Process, Places
  <2>2. packed' \in [Run -> {"none", "partial", "whole", "changed"}]
    BY <1>2 DEF PowerCut, TypeOK
  <2>3. files' \in [Run -> SUBSET Stage] /\ done' \in [Run -> SUBSET Stage]
    BY <1>2, HalvesTyped DEF PowerCut, TypeOK
  <2> QED
    BY <1>2, <2>1, <2>2, <2>3 DEF PowerCut, Fault, TypeOK
<1>3. CASE OperatorUnlocks
  BY <1>3, IdleTyped DEF OperatorUnlocks, runVars, TypeOK
<1>4. CASE UNCHANGED vars
  BY <1>4 DEF vars, runVars, TypeOK
<1>5. CASE \E r \in Run : MountWrites(r)
  BY <1>5 DEF MountWrites, rootfsVars, TypeOK
<1> QED
  BY <1>1, <1>2, <1>3, <1>4, <1>5, CommandsKeepTypes, StepsKeepTypes, FailsKeepTypes DEF Next

(***************************************************************************)
(* The files of the build directory and the processes keep their types.    *)
(***************************************************************************)
THEOREM BuildTyped == Spec => []TypeOK
BY TypeInit, TypeStep, PTL DEF Spec

-----------------------------------------------------------------------------
(***************************************************************************)
(* The lock.  Whoever works, or died at work, is the owner; nobody cleans  *)
(* while there is one, since the look at the lock and the rmtree of clean  *)
(* have no command between them.                                           *)
(***************************************************************************)
LockInv ==
  /\ \A p \in Builder : proc[p].pc \notin {"idle", "clean"} => lock = p
  /\ \A p \in Builder : proc[p].pc = "clean" => lock = None

LEMMA LockInit == Init => LockInv
BY DEF Init, LockInv, Idle

\* A command that takes the lock.
LEMMA LockTaken ==
  ASSUME TypeOK, LockInv, CleanAlone, NEW p \in Builder, NEW c, AcquireLock(p, c),
         NEW r, NEW todo, WorksIn(p, c, r, todo)
  PROVE  LockInv'
<1>1. \A q \in Builder : proc[q].pc = "idle"
  BY BuildAssumption DEF AcquireLock, LockInv
<1> QED
  BY <1>1 DEF AcquireLock, WorksIn, LockInv, TypeOK

\* A command that gives it back.
LEMMA LockGiven ==
  ASSUME TypeOK, LockInv, NEW p \in Builder, proc[p].pc \notin {"idle", "clean"}, Leaves(p)
  PROVE  LockInv'
<1>1. \A q \in Builder : q # p => proc[q].pc = "idle"
  BY BuildAssumption DEF LockInv
<1> QED
  BY <1>1 DEF Leaves, LockInv, TypeOK, Idle

\* A step of a command that keeps it.
LEMMA LockKept ==
  ASSUME TypeOK, LockInv, NEW p \in Builder, proc[p].pc \notin {"idle", "clean"},
         \A q \in Builder \ {p} : proc'[q] = proc[q], proc'[p].pc # "clean", lock' = lock
  PROVE  LockInv'
BY BuildAssumption DEF LockInv

\* What a step does that takes process p to another place or stage.
LEMMA OthersStay ==
  ASSUME TypeOK, NEW p \in Builder, NEW place, NEW todo,
         \/ proc' = [proc EXCEPT ![p].pc = place]
         \/ place = proc[p].pc /\ proc' = [proc EXCEPT ![p].todo = todo]
  PROVE  /\ \A q \in Builder \ {p} : proc'[q] = proc[q]
         /\ proc'[p].pc = place
BY DEF TypeOK, Process

LEMMA LockStep ==
  ASSUME TypeOK, LockInv, CleanAlone, [Next]_vars
  PROVE  LockInv'
<1>1. ASSUME NEW p \in Builder, Commands(p)
      PROVE  LockInv'
  <2>1. CASE CleanChecks(p)
    BY <2>1, BuildAssumption DEF CleanChecks, LockInv, TypeOK, Idle
  <2>2. CASE \E c, r, todo : AcquireLock(p, c) /\ WorksIn(p, c, r, todo)
    BY <2>2, LockTaken
  <2> QED
    BY <1>1, <2>1, <2>2, CommandsAre DEF Prepare, Bootstrap, Configure, BuildReuses, BuildAnew
<1>2. ASSUME NEW p \in Builder, Steps(p)
      PROVE  LockInv'
  <2>1. CASE CleanRemoves(p)
    BY <2>1, BuildAssumption DEF CleanRemoves, LockInv, TypeOK, Idle
  <2>2. CASE StageDone(p)
    <3>1. lock' = lock /\ proc[p].pc = "stage" /\ \E todo : proc' = [proc EXCEPT ![p].todo = todo]
      BY <2>2 DEF StageDone
    <3> QED BY <3>1, OthersStay, LockKept
  <2>3. CASE StageRefuses(p) \/ Finish(p) \/ RefuseImage(p) \/ Record(p)
    BY <2>3, LockGiven DEF StageRefuses, Finish, RefuseImage, Record
  <2>4. CASE CreateImage(p) \/ FillImage(p) \/ Unmount(p) \/ HashImage(p) \/ Pack(p)
    <3>1. /\ lock' = lock /\ proc[p].pc \notin {"idle", "clean"}
          /\ \E place \in {"fill", "unmount", "hash", "pack", "record"} :
               proc' = [proc EXCEPT ![p].pc = place]
      BY <2>4 DEF CreateImage, FillImage, Unmount, HashImage, Pack
    <3> QED BY <3>1, OthersStay, LockKept
  <2> QED
    BY <1>2, <2>1, <2>2, <2>3, <2>4 DEF Steps
<1>3. ASSUME NEW p \in Builder, Fails(p)
      PROVE  LockInv'
  <2>1. CASE StageRaises(p) \/ FillRaises(p) \/ PackRaises(p)
    BY <2>1, LockGiven DEF StageRaises, FillRaises, PackRaises
  <2>2. CASE UnmountBusy(p)
    <3>1. lock' = lock /\ proc[p].pc = "unmount" /\ proc' = [proc EXCEPT ![p].pc = "hash"]
      BY <2>2 DEF UnmountBusy
    <3> QED BY <3>1, OthersStay, LockKept
  <2> QED
    BY <1>3, <2>1, <2>2 DEF Fails
<1>4. CASE DryRun
  BY <1>4 DEF DryRun, LockInv
<1>5. CASE PowerCut
  BY <1>5 DEF PowerCut, LockInv, Idle
<1>6. CASE OperatorUnlocks
  BY <1>6, BuildAssumption DEF OperatorUnlocks, LockInv, TypeOK, Idle
<1>7. CASE UNCHANGED vars
  BY <1>7 DEF vars, LockInv
<1>8. CASE \E r \in Run : MountWrites(r)
  BY <1>8 DEF MountWrites, LockInv
<1> QED
  BY <1>1, <1>2, <1>3, <1>4, <1>5, <1>6, <1>7, <1>8 DEF Next

(***************************************************************************)
(* Of any two processes one is idle or cleaning, whoever was refused,      *)
(* failed or lost its power before.                                        *)
(***************************************************************************)
THEOREM CommandsStayApart == CleanAlone => (Spec => []OneCommandAtATime)
<1> SUFFICES ASSUME CleanAlone PROVE Spec => []OneCommandAtATime
  OBVIOUS
<1>1. TypeOK /\ LockInv /\ [Next]_vars => TypeOK' /\ LockInv'
  BY TypeStep, LockStep
<1>2. LockInv => OneCommandAtATime
  BY DEF LockInv, OneCommandAtATime
<1> QED
  BY TypeInit, LockInit, <1>1, <1>2, PTL DEF Spec

-----------------------------------------------------------------------------
(***************************************************************************)
(* The manifest.  Between the start of an image and its record, the run is *)
(* not one whose hashes are known, and what is known grows step by step:   *)
(* of an image nothing writes to any more.                                 *)
(***************************************************************************)
Settled(r) == image[r] = "whole" \/ (image[r] = "changed" /\ r \in stayed)

WorkInv(p) ==
  LET r == proc[p].run IN
  /\ proc[p].pc \in {"fill", "unmount", "hash", "pack"} => r \in Run \ recorded
  /\ proc[p].pc \in {"unmount", "hash", "pack", "record"} => Settled(r)
  /\ proc[p].pc = "record" => r \in Run /\ (r \in stayed \/ packed[r] = "whole")

RecordedInv == \A r \in recorded : Settled(r) /\ (r \in stayed \/ packed[r] = "whole")

TruthInv == RecordedInv /\ \A p \in Builder : WorkInv(p)

LEMMA TruthInit == Init => TruthInv
BY DEF Init, TruthInv, RecordedInv, Settled, WorkInv, Idle

\* While p works, no other process has anything under way.
LEMMA OthersRest ==
  ASSUME LockInv, NEW p \in Builder, proc[p].pc \notin {"idle", "clean"}
  PROVE  \A q \in Builder \ {p} : proc[q].pc = "idle"
BY BuildAssumption DEF LockInv

\* Nobody works: only the truth of the manifests is at stake.
LEMMA TruthAtRest ==
  ASSUME RecordedInv',
         \A q \in Builder : proc'[q].pc \in {"idle", "clean", "stage", "dead"}
  PROVE  TruthInv'
BY DEF TruthInv, WorkInv

\* The process that works goes to another place; the others rest.
LEMMA TruthAtWork ==
  ASSUME LockInv, NEW p \in Builder, proc[p].pc \notin {"idle", "clean"},
         \A q \in Builder \ {p} : proc'[q] = proc[q],
         RecordedInv', WorkInv(p)'
  PROVE  TruthInv'
BY OthersRest DEF TruthInv, WorkInv

LEMMA TruthOfCommands ==
  ASSUME TypeOK, LockInv, TruthInv, CleanAlone, NEW p \in Builder, Commands(p)
  PROVE  TruthInv'
<1>1. UNCHANGED artifactVars
  BY CommandsAre DEF Prepare, Bootstrap, Configure, BuildReuses, BuildAnew, CleanChecks,
    runVars, artifactVars
<1>2. RecordedInv'
  BY <1>1 DEF TruthInv, RecordedInv, Settled, artifactVars
<1>3. CASE CleanChecks(p)
  <2>1. proc' = [proc EXCEPT ![p] = [Idle EXCEPT !.pc = "clean"]] /\ lock = None
    BY <1>3 DEF CleanChecks
  <2>2. \A q \in Builder : proc'[q].pc \in {"idle", "clean"}
    BY <2>1, BuildAssumption DEF LockInv, TypeOK, Idle
  <2> QED BY <1>2, <2>2, TruthAtRest
<1>4. CASE \E c, r, todo : AcquireLock(p, c) /\ WorksIn(p, c, r, todo)
  <2>1. \A q \in Builder : proc[q].pc = "idle"
    BY <1>4, BuildAssumption DEF AcquireLock, LockInv
  <2>2. \A q \in Builder : proc'[q].pc \in {"idle", "stage"}
    BY <1>4, <2>1 DEF WorksIn, TypeOK
  <2> QED BY <1>2, <2>2, TruthAtRest
<1> QED
  BY <1>3, <1>4, CommandsAre DEF Prepare, Bootstrap, Configure, BuildReuses, BuildAnew

\* A command that ends has nothing under way any more.
LEMMA TruthAtEnd ==
  ASSUME TypeOK, LockInv, NEW p \in Builder, proc[p].pc \notin {"idle", "clean"},
         Leaves(p), RecordedInv'
  PROVE  TruthInv'
<1>1. \A q \in Builder : proc'[q].pc = "idle"
  BY OthersRest DEF Leaves, TypeOK, Idle
<1> QED
  BY <1>1, TruthAtRest

LEMMA TruthOfSteps ==
  ASSUME TypeOK, LockInv, TruthInv, NEW p \in Builder, Steps(p)
  PROVE  TruthInv'
<1> DEFINE r == proc[p].run
<1>1. CASE CleanRemoves(p)
  <2>1. recorded' = {} /\ proc' = [proc EXCEPT ![p] = Idle] /\ proc[p].pc = "clean"
    BY <1>1 DEF CleanRemoves
  <2>2. \A q \in Builder : proc'[q].pc \in {"idle", "clean"}
    BY <2>1, BuildAssumption DEF LockInv, TypeOK, Idle
  <2> QED BY <2>1, <2>2, TruthAtRest DEF RecordedInv, Settled
<1>2. CASE StageDone(p)
  <2>1. /\ proc[p].pc = "stage" /\ UNCHANGED artifactVars
        /\ \E todo : proc' = [proc EXCEPT ![p].todo = todo]
    BY <1>2 DEF StageDone
  <2>2. proc'[p].pc = "stage" /\ \A q \in Builder \ {p} : proc'[q] = proc[q]
    BY <2>1, OthersStay
  <2>3. \A q \in Builder : proc'[q].pc \in {"idle", "stage"}
    BY <2>1, <2>2, OthersRest
  <2>4. RecordedInv'
    BY <2>1 DEF TruthInv, RecordedInv, Settled, artifactVars
  <2> QED BY <2>3, <2>4, TruthAtRest
<1>3. CASE StageRefuses(p) \/ Finish(p) \/ RefuseImage(p)
  <2>1. proc[p].pc = "stage" /\ UNCHANGED artifactVars /\ Leaves(p)
    BY <1>3 DEF StageRefuses, Finish, RefuseImage, runVars, artifactVars
  <2>2. RecordedInv'
    BY <2>1 DEF TruthInv, RecordedInv, Settled, artifactVars
  <2> QED BY <2>1, <2>2, TruthAtEnd
<1>4. CASE CreateImage(p)
  <2>1. /\ proc[p].pc = "stage" /\ r \in Run /\ image[r] = "none"
        /\ proc' = [proc EXCEPT ![p].pc = "fill"]
        /\ image' = [image EXCEPT ![r] = "partial"] /\ UNCHANGED <<packed, recorded, stayed>>
    BY <1>4, KeptTyped DEF CreateImage
  <2>2. r \notin recorded
    BY <2>1 DEF TruthInv, RecordedInv, Settled
  <2>3. RecordedInv'
    BY <2>1, <2>2 DEF TruthInv, RecordedInv, Settled, TypeOK
  <2>4. proc'[p].pc = "fill" /\ proc'[p].run = r /\ \A q \in Builder \ {p} : proc'[q] = proc[q]
    BY <2>1 DEF TypeOK, Process
  <2>5. WorkInv(p)'
    BY <2>1, <2>2, <2>4 DEF WorkInv
  <2> QED BY <2>1, <2>3, <2>4, <2>5, TruthAtWork
<1>5. CASE FillImage(p)
  <2>1. /\ proc[p].pc = "fill" /\ r \in Run \ recorded
        /\ proc' = [proc EXCEPT ![p].pc = "unmount"]
        /\ image' = [image EXCEPT ![r] = "whole"] /\ UNCHANGED <<packed, recorded, stayed>>
    BY <1>5 DEF FillImage, TruthInv, WorkInv
  <2>2. RecordedInv'
    BY <2>1 DEF TruthInv, RecordedInv, Settled, TypeOK
  <2>3. proc'[p].pc = "unmount" /\ proc'[p].run = r /\ \A q \in Builder \ {p} : proc'[q] = proc[q]
    BY <2>1 DEF TypeOK, Process
  <2>4. WorkInv(p)'
    BY <2>1, <2>3 DEF WorkInv, Settled, TypeOK
  <2> QED BY <2>1, <2>2, <2>3, <2>4, TruthAtWork
<1>6. CASE Unmount(p) \/ HashImage(p)
  <2>1. PICK place \in {"hash", "pack"} :
          /\ proc[p].pc \in {"unmount", "hash"} /\ r \in Run \ recorded /\ Settled(r)
          /\ proc' = [proc EXCEPT ![p].pc = place] /\ UNCHANGED artifactVars
    BY <1>6 DEF Unmount, HashImage, TruthInv, WorkInv, runVars, artifactVars
  <2>2. RecordedInv'
    BY <2>1 DEF TruthInv, RecordedInv, Settled, artifactVars
  <2>3. proc'[p].pc = place /\ proc'[p].run = r /\ \A q \in Builder \ {p} : proc'[q] = proc[q]
    BY <2>1 DEF TypeOK, Process
  <2>4. WorkInv(p)'
    BY <2>1, <2>3 DEF WorkInv, Settled, artifactVars
  <2> QED BY <2>1, <2>2, <2>3, <2>4, TruthAtWork
<1>7. CASE Pack(p)
  <2>1. /\ proc[p].pc = "pack" /\ r \in Run \ recorded /\ Settled(r)
        /\ proc' = [proc EXCEPT ![p].pc = "record"]
        /\ packed' = [packed EXCEPT ![r] = image[r]] /\ UNCHANGED <<image, recorded, stayed>>
    BY <1>7 DEF Pack, TruthInv, WorkInv
  <2>2. RecordedInv'
    BY <2>1 DEF TruthInv, RecordedInv, Settled, TypeOK
  <2>3. proc'[p].pc = "record" /\ proc'[p].run = r /\ \A q \in Builder \ {p} : proc'[q] = proc[q]
    BY <2>1 DEF TypeOK, Process
  <2>4. WorkInv(p)'
    BY <2>1, <2>3 DEF WorkInv, Settled, TypeOK
  <2> QED BY <2>1, <2>2, <2>3, <2>4, TruthAtWork
<1>8. CASE Record(p)
  <2>1. /\ proc[p].pc = "record" /\ Settled(r) /\ (r \in stayed \/ packed[r] = "whole") /\ Leaves(p)
        /\ recorded' \subseteq recorded \cup {r} /\ UNCHANGED <<image, packed, stayed>>
    BY <1>8 DEF Record, TruthInv, WorkInv
  <2>2. RecordedInv'
    BY <2>1 DEF TruthInv, RecordedInv, Settled
  <2> QED BY <2>1, <2>2, TruthAtEnd
<1> QED
  BY <1>1, <1>2, <1>3, <1>4, <1>5, <1>6, <1>7, <1>8 DEF Steps

LEMMA TruthOfFails ==
  ASSUME TypeOK, LockInv, TruthInv, NEW p \in Builder, Fails(p)
  PROVE  TruthInv'
<1> DEFINE r == proc[p].run
<1>1. CASE StageRaises(p) \/ FillRaises(p)
  <2>1. proc[p].pc \in {"stage", "fill"} /\ UNCHANGED artifactVars /\ Leaves(p)
    BY <1>1 DEF StageRaises, FillRaises, runVars, artifactVars
  <2>2. RecordedInv'
    BY <2>1 DEF TruthInv, RecordedInv, Settled, artifactVars
  <2> QED BY <2>1, <2>2, TruthAtEnd
<1>2. CASE UnmountBusy(p)
  <2>1. /\ proc[p].pc = "unmount" /\ r \in Run \ recorded /\ Settled(r)
        /\ proc' = [proc EXCEPT ![p].pc = "hash"]
        /\ stayed' = stayed \cup {r} /\ UNCHANGED <<image, packed, recorded>>
    BY <1>2 DEF UnmountBusy, TruthInv, WorkInv
  <2>2. RecordedInv'
    BY <2>1 DEF TruthInv, RecordedInv, Settled, TypeOK
  <2>3. proc'[p].pc = "hash" /\ proc'[p].run = r /\ \A q \in Builder \ {p} : proc'[q] = proc[q]
    BY <2>1 DEF TypeOK, Process
  <2>4. WorkInv(p)'
    BY <2>1, <2>3 DEF WorkInv, Settled, TypeOK
  <2> QED BY <2>1, <2>2, <2>3, <2>4, TruthAtWork
<1>3. CASE PackRaises(p)
  <2>1. /\ proc[p].pc \in {"hash", "pack"} /\ r \in Run \ recorded /\ Leaves(p)
        /\ \/ packed' = [packed EXCEPT ![r] = "partial"]
           \/ packed' = packed
        /\ UNCHANGED <<image, recorded, stayed>>
    BY <1>3 DEF PackRaises, TruthInv, WorkInv
  <2>2. RecordedInv'
    BY <2>1 DEF TruthInv, RecordedInv, Settled, TypeOK
  <2> QED BY <2>1, <2>2, TruthAtEnd
<1> QED
  BY <1>1, <1>2, <1>3 DEF Fails

LEMMA TruthStep ==
  ASSUME TypeOK, LockInv, TruthInv, CleanAlone, [Next]_vars
  PROVE  TruthInv'
<1>1. CASE DryRun
  <2>1. recorded' \subseteq recorded /\ UNCHANGED <<image, packed, stayed, proc>> /\ lock = None
    BY <1>1 DEF DryRun
  <2>2. \A q \in Builder : proc'[q].pc \in {"idle", "clean"}
    BY <2>1, BuildAssumption DEF LockInv
  <2>3. RecordedInv'
    BY <2>1 DEF TruthInv, RecordedInv, Settled
  <2> QED BY <2>2, <2>3, TruthAtRest
<1>2. CASE PowerCut
  <2>1. \A q \in Builder : proc'[q].pc \in {"idle", "dead"}
    BY <1>2 DEF PowerCut, Idle
  <2>2. \/ packed' = packed
        \/ \E p \in Builder : /\ proc[p].pc = "pack"
                              /\ packed' = [packed EXCEPT ![proc[p].run] = "partial"]
    BY <1>2 DEF PowerCut
  <2>3. UNCHANGED <<image, recorded, stayed>>
    BY <1>2 DEF PowerCut
  <2>4. RecordedInv'
    BY <2>2, <2>3 DEF TruthInv, WorkInv, RecordedInv, Settled, TypeOK
  <2> QED BY <2>1, <2>4, TruthAtRest
<1>3. CASE OperatorUnlocks
  <2>1. /\ lock \in Builder /\ proc[lock].pc = "dead" /\ UNCHANGED artifactVars
        /\ proc' = [proc EXCEPT ![lock] = Idle]
    BY <1>3 DEF OperatorUnlocks, TypeOK, runVars, artifactVars
  <2>2. \A q \in Builder : proc'[q].pc = "idle"
    BY <2>1, OthersRest DEF TypeOK, Idle
  <2>3. RecordedInv'
    BY <2>1 DEF TruthInv, RecordedInv, Settled, artifactVars
  <2> QED BY <2>2, <2>3, TruthAtRest
<1>4. CASE UNCHANGED vars
  BY <1>4 DEF vars, runVars, TruthInv, RecordedInv, WorkInv, Settled
<1>5. ASSUME NEW r \in Run, MountWrites(r)
      PROVE  TruthInv'
  <2>1. /\ r \in stayed /\ image' = [image EXCEPT ![r] = "changed"]
        /\ UNCHANGED <<packed, recorded, stayed, proc>>
    BY <1>5 DEF MountWrites
  <2>2. \A q \in Run \ stayed : image'[q] = image[q]
    BY <2>1 DEF TypeOK
  <2>3. RecordedInv'
    BY <2>1, <2>2 DEF TruthInv, RecordedInv, Settled, TypeOK
  <2>4. \A p \in Builder : WorkInv(p)'
    <3> TAKE p \in Builder
    <3>1. WorkInv(p)
      BY DEF TruthInv
    <3>2. image'[proc[p].run] = image[proc[p].run] \/ proc[p].run \in stayed
      BY <2>1 DEF TypeOK
    <3> QED BY <2>1, <3>1, <3>2 DEF WorkInv, Settled
  <2> QED BY <2>3, <2>4 DEF TruthInv
<1> QED
  BY <1>1, <1>2, <1>3, <1>4, <1>5, TruthOfCommands, TruthOfSteps, TruthOfFails DEF Next

(***************************************************************************)
(* Whatever was cut, failed, packed twice or refused: the hashes in a      *)
(* manifest are those of the artefacts beside it, unless the image could   *)
(* not be unmounted.                                                       *)
(***************************************************************************)
THEOREM ManifestAlwaysTrue == CleanAlone => (Spec => []ManifestTellsTruth)
<1> SUFFICES ASSUME CleanAlone PROVE Spec => []ManifestTellsTruth
  OBVIOUS
<1>1. /\ TypeOK /\ LockInv /\ TruthInv /\ [Next]_vars
      => TypeOK' /\ LockInv' /\ TruthInv'
  BY TypeStep, LockStep, TruthStep
<1>2. TruthInv => ManifestTellsTruth
  BY DEF TruthInv, RecordedInv, Settled, ManifestTellsTruth
<1> QED
  BY TypeInit, LockInit, TruthInit, <1>1, <1>2, PTL DEF Spec

-----------------------------------------------------------------------------
(***************************************************************************)
(* The image.  What a run of the build commands alone has done is a        *)
(* beginning of the pipeline, and before apt has finished no stage has     *)
(* left a kernel, without which nobody packs the tree.                     *)
(***************************************************************************)
Begun(d) == \E n \in 2 .. Len(Pipeline) : d = First(n)

\* todo is what is left of the pipeline when the stages before it are done.
InOrder(todo, r) ==
  \E k \in 0 .. 8 :
    /\ Len(todo) + k <= 9
    /\ \A i \in 1 .. Len(todo) : todo[i] = Pipeline[k + i]
    /\ done[r] = First(k)
    /\ k <= 2 => "packages" \notin files[r]

RootfsInv ==
  /\ \A r \in Run : r > runs => files[r] = {} /\ done[r] = {}
  /\ \A r \in Run \ byHand : "packages" \in files[r] => Begun(done[r])

\* What is left to do is left in order, and an image is filled from a rootfs
\* that has its kernel.
UnderWay(p) ==
  LET r == proc[p].run IN
  /\ proc[p].pc = "stage" /\ proc[p].todo # <<>> /\ r \in Run \ byHand => InOrder(proc[p].todo, r)
  /\ proc[p].pc = "fill" => "packages" \in files[r]

BootInv == RootfsInv /\ CutAfterApt /\ \A p \in Builder : UnderWay(p)

LEMMA PipelineIs ==
  /\ Len(Pipeline) = 9 /\ Pipeline[3] = "packages"
  /\ \A i \in 1 .. 9 : i # 3 => Pipeline[i] # "packages"
  /\ \A i, j \in 1 .. 9 : Pipeline[i] = Pipeline[j] => i = j
<1>1. /\ Len(Pipeline) = 9
      /\ Pipeline[1] = "bootstrap" /\ Pipeline[2] = "apt" /\ Pipeline[3] = "packages"
      /\ Pipeline[4] = "system" /\ Pipeline[5] = "kernel" /\ Pipeline[6] = "systemd"
      /\ Pipeline[7] = "localization" /\ Pipeline[8] = "fstab" /\ Pipeline[9] = "uefi"
  BY DEF Pipeline
<1>2. \A i \in 1 .. 9 : i \in {1, 2, 3, 4, 5, 6, 7, 8, 9}
  OBVIOUS
<1> QED
  BY <1>1, <1>2

\* The stages of a beginning, and one more.
LEMMA FirstGrows ==
  ASSUME NEW k \in 0 .. 8
  PROVE  /\ First(k) \cup {Pipeline[k + 1]} = First(k + 1)
         /\ First(k) \ {Pipeline[k + 1]} = First(k)
<1>1. \A i \in 1 .. k + 1 : i \in 1 .. k \/ i = k + 1
  OBVIOUS
<1>2. \A i \in 1 .. k : i \in 1 .. k + 1 /\ i \in 1 .. 9 /\ i # k + 1
  OBVIOUS
<1>3. k + 1 \in 1 .. k + 1 /\ k + 1 \in 1 .. 9
  OBVIOUS
<1>4. Pipeline[k + 1] \notin First(k)
  BY <1>2, <1>3, PipelineIs DEF First
<1>5. First(k) \cup {Pipeline[k + 1]} = First(k + 1)
  BY <1>1, <1>2, <1>3, Zenon DEF First
<1> QED
  BY <1>4, <1>5

LEMMA FirstEmpty == First(0) = {}
BY DEF First

LEMMA BegunIs == \A n \in 2 .. 9 : Begun(First(n))
BY PipelineIs DEF Begun

LEMMA NoKernelBefore == \A s \in Stage : s # "packages" => "packages" \notin FilesOf(s)
BY DEF FilesOf

LEMMA BootInit == Init => BootInv
BY DEF Init, BootInv, RootfsInv, CutAfterApt, UnderWay, Idle

\* Nobody works: what the commands left is what counts.
LEMMA BootAtRest ==
  ASSUME RootfsInv', CutAfterApt',
         \A q \in Builder : proc'[q].pc \notin {"stage", "fill"}
  PROVE  BootInv'
BY DEF BootInv, UnderWay

\* The process that works goes to another place; the others rest.
LEMMA BootAtWork ==
  ASSUME LockInv, NEW p \in Builder, proc[p].pc \notin {"idle", "clean"},
         \A q \in Builder \ {p} : proc'[q] = proc[q],
         RootfsInv', CutAfterApt', UnderWay(p)'
  PROVE  BootInv'
<1>1. \A q \in Builder \ {p} : proc'[q].pc = "idle"
  BY OthersRest
<1>2. \A q \in Builder : UnderWay(q)'
  BY <1>1 DEF UnderWay
<1> QED
  BY <1>2 DEF BootInv

\* A command that begins works alone, on a rootfs nobody has touched since.
LEMMA BootAtBeginning ==
  ASSUME TypeOK, LockInv, CleanAlone, BootInv, NEW p \in Builder, NEW c, NEW r, NEW todo,
         AcquireLock(p, c), WorksIn(p, c, r, todo),
         UNCHANGED <<files, done, image, holds>>, runs' \in {runs, runs + 1},
         byHand \subseteq byHand',
         \/ todo = <<>>
         \/ r \in byHand'
         \/ InOrder(todo, r)'
  PROVE  BootInv'
<1>1. \A q \in Builder : proc[q].pc = "idle"
  BY BuildAssumption DEF AcquireLock, LockInv
<1>2. /\ proc'[p] = [pc |-> "stage", command |-> c, run |-> r, todo |-> todo]
      /\ \A q \in Builder \ {p} : proc'[q] = proc[q]
  BY DEF WorksIn, TypeOK
<1>3. \A q \in Builder : UnderWay(q)'
  BY <1>1, <1>2 DEF UnderWay
<1>4. RootfsInv'
  <2>1. \A s \in Run : s > runs' => s > runs
    BY BuildAssumption DEF TypeOK, Run
  <2> QED BY <2>1 DEF BootInv, RootfsInv
<1>5. CutAfterApt'
  BY DEF BootInv, CutAfterApt
<1> QED
  BY <1>3, <1>4, <1>5 DEF BootInv

\* A build begins its pipeline in an empty rootfs.
LEMMA BootOfNewRun ==
  ASSUME TypeOK, BootInv, NEW c, NewRun(c), NEW r, r = runs + 1,
         NEW todo, Len(todo) \in 8 .. 9, \A i \in 1 .. Len(todo) : todo[i] = Pipeline[i]
  PROVE  InOrder(todo, r)'
<1>1. r \in Run /\ r > runs /\ files' = files
  BY BuildAssumption DEF NewRun, TypeOK, Run
<1>2. files'[r] = {} /\ done'[r] = First(0)
  BY <1>1, FirstEmpty DEF BootInv, RootfsInv, NewRun
<1>3. \A i \in 1 .. Len(todo) : i \in Int /\ 0 + i = i
  OBVIOUS
<1>4. Len(todo) + 0 <= 9 /\ \A i \in 1 .. Len(todo) : todo[i] = Pipeline[0 + i]
  <2>1. Len(todo) + 0 <= 9
    OBVIOUS
  <2>2. ASSUME NEW i \in 1 .. Len(todo) PROVE todo[i] = Pipeline[0 + i]
    BY <1>3, Zenon
  <2> QED BY <2>1, <2>2
<1> QED
  BY <1>2, <1>4 DEF InOrder

LEMMA BootOfCommands ==
  ASSUME TypeOK, LockInv, CleanAlone, BootInv, NEW p \in Builder, Commands(p)
  PROVE  BootInv'
<1>1. ASSUME NEW c, NEW todo, c \notin Builds, AcquireLock(p, c), NewRun(c),
             WorksIn(p, c, runs + 1, todo), UNCHANGED artifactVars
      PROVE  BootInv'
  <2>1. PICK r : r = runs + 1
    OBVIOUS
  <2>2. /\ UNCHANGED <<files, done, image, holds>> /\ runs' \in {runs, runs + 1}
        /\ byHand \subseteq byHand' /\ r \in byHand' /\ WorksIn(p, c, r, todo)
    BY <1>1, <2>1 DEF NewRun, artifactVars
  <2> QED BY <1>1, <2>2, BootAtBeginning
<1>2. CASE Prepare(p)
  BY <1>1, <1>2 DEF Prepare, Builds
<1>3. CASE Bootstrap(p)
  BY <1>1, <1>3 DEF Bootstrap, Builds
<1>4. ASSUME NEW s \in Stage, Configure(p, s)
      PROVE  BootInv'
  <2>1. PICK r : r = Current
    OBVIOUS
  <2>2. /\ UNCHANGED <<files, done, image, holds>> /\ runs' \in {runs, runs + 1}
        /\ byHand \subseteq byHand' /\ r \in byHand'
        /\ AcquireLock(p, s) /\ WorksIn(p, s, r, <<s>>)
    BY <1>4, <2>1 DEF Configure, artifactVars
  <2> QED BY <2>2, BootAtBeginning
<1>5. ASSUME NEW c \in Builds, BuildReuses(p, c)
      PROVE  BootInv'
  <2>1. PICK r : r = Current
    OBVIOUS
  <2>2. /\ UNCHANGED <<files, done, image, holds>> /\ runs' \in {runs, runs + 1}
        /\ byHand \subseteq byHand'
        /\ AcquireLock(p, c) /\ WorksIn(p, c, r, <<>>)
    BY <1>5, <2>1 DEF BuildReuses, rootfsVars, artifactVars
  <2> QED BY <2>2, BootAtBeginning
<1>6. ASSUME NEW c \in Builds, BuildAnew(p, c)
      PROVE  BootInv'
  <2> DEFINE todo == IF c = "build-rootfs" THEN SubSeq(Pipeline, 1, Len(Pipeline) - 1) ELSE Pipeline
  <2>1. PICK r : r = runs + 1
    OBVIOUS
  <2>2. /\ AcquireLock(p, c) /\ NewRun(c) /\ WorksIn(p, c, r, todo)
        /\ UNCHANGED artifactVars
    BY <1>6, <2>1 DEF BuildAnew
  <2>3. Len(todo) \in 8 .. 9 /\ \A i \in 1 .. Len(todo) : todo[i] = Pipeline[i]
    <3>1. Pipeline \in Seq(Stage) /\ Len(Pipeline) = 9
      BY PipelineIs, StagesOfThePipeline
    <3> QED BY <3>1
  <2> HIDE DEF todo
  <2>4. InOrder(todo, r)'
    BY <2>1, <2>2, <2>3, BootOfNewRun
  <2>5. UNCHANGED <<files, done, image, holds>> /\ runs' \in {runs, runs + 1} /\ byHand \subseteq byHand'
    BY <2>2 DEF NewRun, artifactVars
  <2> QED BY <2>2, <2>4, <2>5, BootAtBeginning
<1>7. CASE CleanChecks(p)
  <2>1. /\ proc' = [proc EXCEPT ![p] = [Idle EXCEPT !.pc = "clean"]]
        /\ UNCHANGED <<runs, files, done, image, holds, byHand>>
    BY <1>7 DEF CleanChecks, runVars
  <2>2. \A q \in Builder : UnderWay(q)'
    <3> TAKE q \in Builder
    <3>1. CASE q = p
      <4>1. proc'[q].pc = "clean"
        BY <2>1, <3>1 DEF TypeOK, Idle
      <4> QED BY <4>1 DEF UnderWay
    <3>2. CASE q # p
      <4>1. proc'[q] = proc[q]
        BY <2>1, <3>2 DEF TypeOK
      <4>2. UnderWay(q)
        BY DEF BootInv
      <4>3. \A todo, r : InOrder(todo, r)' <=> InOrder(todo, r)
        BY <2>1 DEF InOrder
      <4> QED BY <2>1, <4>1, <4>2, <4>3 DEF UnderWay
    <3> QED BY <3>1, <3>2
  <2> QED BY <2>1, <2>2 DEF BootInv, RootfsInv, CutAfterApt
<1> QED
  BY <1>2, <1>3, <1>4, <1>5, <1>6, <1>7, CommandsAre

\* What is left in order goes on in order.
LEMMA OneStageOn ==
  ASSUME NEW r, NEW todo \in Seq(Stage), todo # <<>>, InOrder(todo, r),
         NEW s, s = Head(todo),
         files'[r] = files[r] \cup FilesOf(s), done'[r] = done[r] \cup {s}
  PROVE  /\ Tail(todo) # <<>> => InOrder(Tail(todo), r)'
         /\ "packages" \in files'[r] => "packages" \in files[r] \/ Begun(done'[r])
         /\ Begun(done[r]) => Begun(done'[r])
<1>1. PICK k \in 0 .. 8 :
        /\ Len(todo) + k <= 9
        /\ \A i \in 1 .. Len(todo) : todo[i] = Pipeline[k + i]
        /\ done[r] = First(k)
        /\ k <= 2 => "packages" \notin files[r]
  BY DEF InOrder
<1>2. /\ Len(todo) \in Nat /\ Len(todo) >= 1 /\ s = todo[1]
      /\ Len(Tail(todo)) = Len(todo) - 1
      /\ \A i \in 1 .. Len(todo) - 1 : Tail(todo)[i] = todo[i + 1]
  OBVIOUS
<1>3. s = Pipeline[k + 1] /\ s \in Stage
  BY <1>1, <1>2
<1>4. done'[r] = First(k + 1)
  BY <1>1, <1>3, FirstGrows
<1>5. s = "packages" <=> k = 2
  BY <1>3, PipelineIs
<1>6. "packages" \in files'[r] => "packages" \in files[r] \/ k = 2
  BY <1>3, <1>5, NoKernelBefore
<1>7. k >= 1 => Begun(done'[r])
  <2>1. k >= 1 => k + 1 \in 2 .. 9
    OBVIOUS
  <2> QED BY <1>4, <2>1, BegunIs
<1>8. Begun(done[r]) => Begun(done'[r])
  <2> SUFFICES ASSUME Begun(done[r]), k = 0 PROVE FALSE
    BY <1>7
  <2>1. PICK n \in 2 .. 9 : {} = First(n)
    BY <1>1, FirstEmpty, PipelineIs DEF Begun
  <2>2. Pipeline[1] \in First(n)
    BY DEF First
  <2> QED BY <2>1, <2>2
<1>9. Tail(todo) # <<>> => InOrder(Tail(todo), r)'
  <2> SUFFICES ASSUME Tail(todo) # <<>> PROVE InOrder(Tail(todo), r)'
    OBVIOUS
  <2>1. Len(Tail(todo)) >= 1
    BY <1>2
  <2>2. k + 1 \in 0 .. 8 /\ Len(Tail(todo)) + (k + 1) <= 9
    BY <1>1, <1>2, <2>1
  <2>3. \A i \in 1 .. Len(Tail(todo)) : Tail(todo)[i] = Pipeline[(k + 1) + i]
    <3> TAKE i \in 1 .. Len(Tail(todo))
    <3>1. i \in 1 .. Len(todo) - 1 /\ i + 1 \in 1 .. Len(todo)
      BY <1>2
    <3>2. Tail(todo)[i] = todo[i + 1] /\ todo[i + 1] = Pipeline[k + (i + 1)]
      BY <1>1, <1>2, <3>1
    <3>3. k + (i + 1) = (k + 1) + i
      BY <3>1
    <3> QED BY <3>2, <3>3
  <2>4. k + 1 <= 2 => "packages" \notin files'[r]
    BY <1>1, <1>6
  <2> QED BY <1>4, <2>2, <2>3, <2>4 DEF InOrder
<1> QED
  BY <1>6, <1>7, <1>8, <1>9

\* A stage that is cut leaves what is done; the first that leaves a kernel is
\* the one after apt.
LEMMA HalfAStage ==
  ASSUME TypeOK, RootfsInv, NEW r \in kept, NEW todo \in Seq(Stage), todo # <<>>,
         r \in byHand \/ InOrder(todo, r), Halves(r, Head(todo))
  PROVE  /\ \A q \in Run : q > runs => files'[q] = {} /\ done'[q] = {}
         /\ \A q \in Run \ byHand : "packages" \in files'[q] => Begun(done'[q])
<1> DEFINE s == Head(todo)
<1>1. CASE UNCHANGED <<files, done>>
  BY <1>1 DEF RootfsInv
<1>2. CASE /\ files' = [files EXCEPT ![r] = @ \cup FilesOf(s)]
           /\ done' = [done EXCEPT ![r] = @ \ {s}]
  <2>1. r \in Run /\ ~(r > runs)
    BY KeptTyped DEF TypeOK
  <2>2. files'[r] = files[r] \cup FilesOf(s) /\ done'[r] = done[r] \ {s}
    BY <1>2, <2>1 DEF TypeOK
  <2>3. ASSUME r \notin byHand, "packages" \in files'[r]
        PROVE  Begun(done'[r])
    <3>1. PICK k \in 0 .. 8 :
            /\ Len(todo) + k <= 9
            /\ \A i \in 1 .. Len(todo) : todo[i] = Pipeline[k + i]
            /\ done[r] = First(k)
            /\ k <= 2 => "packages" \notin files[r]
      BY <2>3 DEF InOrder
    <3>2. Len(todo) \in Nat /\ Len(todo) >= 1 /\ s = todo[1] /\ s \in Stage
      OBVIOUS
    <3>3. s = Pipeline[k + 1]
      BY <3>1, <3>2
    <3> HIDE DEF s
    <3>4. done'[r] = First(k)
      BY <2>2, <3>1, <3>3, FirstGrows
    <3>5. "packages" \in files[r] \/ s = "packages"
      BY <2>2, <2>3, <3>2, NoKernelBefore
    <3>6. k >= 2
      BY <3>1, <3>3, <3>5, PipelineIs
    <3> QED BY <3>4, <3>6, BegunIs
  <2>4. \A q \in Run \ {r} : files'[q] = files[q] /\ done'[q] = done[q]
    BY <1>2 DEF TypeOK
  <2> QED BY <2>1, <2>3, <2>4 DEF RootfsInv
<1> QED
  BY <1>1, <1>2 DEF Halves

\* A command that ends.
LEMMA BootAtEnd ==
  ASSUME TypeOK, LockInv, NEW p \in Builder, proc[p].pc \notin {"idle", "clean"},
         Leaves(p), RootfsInv', CutAfterApt'
  PROVE  BootInv'
<1>1. \A q \in Builder : proc'[q].pc = "idle"
  BY OthersRest DEF Leaves, TypeOK, Idle
<1> QED
  BY <1>1, BootAtRest

LEMMA BootOfStageDone ==
  ASSUME TypeOK, LockInv, BootInv, NEW p \in Builder, StageDone(p)
  PROVE  BootInv'
<1>1. PICK r, todo, s : r = proc[p].run /\ todo = proc[p].todo /\ s = Head(todo)
  OBVIOUS
<1>2. /\ proc[p].pc = "stage" /\ todo # <<>> /\ r \in kept
      /\ files' = [files EXCEPT ![r] = @ \cup FilesOf(s)]
      /\ done' = [done EXCEPT ![r] = @ \cup {s}]
      /\ proc' = [proc EXCEPT ![p].todo = Tail(@)]
      /\ UNCHANGED <<runs, image, holds, byHand>>
  BY <1>1 DEF StageDone, Ahead, Accepts, artifactVars
<1>3. r \in Run /\ ~(r > runs) /\ todo \in Seq(Stage)
  BY <1>1, <1>2, KeptTyped DEF TypeOK, Process
<1>4. /\ files'[r] = files[r] \cup FilesOf(s) /\ done'[r] = done[r] \cup {s}
      /\ \A q \in Run \ {r} : files'[q] = files[q] /\ done'[q] = done[q]
  BY <1>2, <1>3 DEF TypeOK
<1>5. /\ proc'[p].pc = "stage" /\ proc'[p].run = r /\ proc'[p].todo = Tail(todo)
      /\ \A q \in Builder \ {p} : proc'[q] = proc[q]
  BY <1>1, <1>2 DEF TypeOK, Process
<1>6. r \notin byHand => InOrder(todo, r)
  BY <1>1, <1>2, <1>3 DEF BootInv, UnderWay
<1>7. r \notin byHand =>
        /\ Tail(todo) # <<>> => InOrder(Tail(todo), r)'
        /\ "packages" \in files'[r] => "packages" \in files[r] \/ Begun(done'[r])
        /\ Begun(done[r]) => Begun(done'[r])
  <2> SUFFICES ASSUME r \notin byHand
               PROVE  /\ Tail(todo) # <<>> => InOrder(Tail(todo), r)'
                      /\ "packages" \in files'[r] => "packages" \in files[r] \/ Begun(done'[r])
                      /\ Begun(done[r]) => Begun(done'[r])
    OBVIOUS
  <2>1. InOrder(todo, r) /\ todo \in Seq(Stage) /\ todo # <<>> /\ s = Head(todo)
    BY <1>1, <1>2, <1>3, <1>6
  <2> QED BY <1>4, <2>1, OneStageOn
<1>8. RootfsInv'
  BY <1>2, <1>3, <1>4, <1>7 DEF BootInv, RootfsInv
<1>9. CutAfterApt'
  BY <1>2 DEF BootInv, CutAfterApt
<1>10. UnderWay(p)'
  BY <1>2, <1>5, <1>7 DEF UnderWay
<1> QED
  BY <1>2, <1>5, <1>8, <1>9, <1>10, BootAtWork

LEMMA BootOfSteps ==
  ASSUME TypeOK, LockInv, BootInv, NEW p \in Builder, Steps(p)
  PROVE  BootInv'
<1> DEFINE r == proc[p].run
<1>1. CASE CleanRemoves(p)
  <2>1. /\ proc' = [proc EXCEPT ![p] = Idle] /\ proc[p].pc = "clean"
        /\ files' = [q \in Run |-> {}] /\ done' = [q \in Run |-> {}] /\ image' = [q \in Run |-> "none"]
    BY <1>1 DEF CleanRemoves
  <2>2. \A q \in Builder : proc'[q].pc \in {"idle", "clean"}
    BY <2>1, BuildAssumption DEF LockInv, TypeOK, Idle
  <2> QED BY <2>1, <2>2, BootAtRest DEF RootfsInv, CutAfterApt
<1>2. CASE StageRefuses(p) \/ Finish(p) \/ RefuseImage(p)
  <2>1. proc[p].pc = "stage" /\ UNCHANGED <<runs, files, done, image, holds, byHand>> /\ Leaves(p)
    BY <1>2 DEF StageRefuses, Finish, RefuseImage, runVars
  <2> QED BY <2>1, BootAtEnd DEF BootInv, RootfsInv, CutAfterApt
<1>3. CASE CreateImage(p)
  <2>1. /\ proc[p].pc = "stage" /\ r \in Run /\ "packages" \in files[r]
        /\ proc' = [proc EXCEPT ![p].pc = "fill"]
        /\ image' = [image EXCEPT ![r] = "partial"]
        /\ UNCHANGED <<runs, files, done, holds, byHand>>
    BY <1>3, KeptTyped DEF CreateImage, RootfsReady, rootfsVars
  <2>2. proc'[p].pc = "fill" /\ proc'[p].run = r /\ \A q \in Builder \ {p} : proc'[q] = proc[q]
    BY <2>1 DEF TypeOK, Process
  <2>3. UnderWay(p)'
    BY <2>1, <2>2 DEF UnderWay
  <2>4. CutAfterApt'
    BY <2>1 DEF BootInv, CutAfterApt, TypeOK
  <2>5. RootfsInv'
    BY <2>1 DEF BootInv, RootfsInv
  <2> QED BY <2>1, <2>2, <2>3, <2>4, <2>5, BootAtWork
<1>4. CASE FillImage(p)
  <2>1. /\ proc[p].pc = "fill" /\ r \in Run
        /\ proc' = [proc EXCEPT ![p].pc = "unmount"]
        /\ image' = [image EXCEPT ![r] = "whole"] /\ holds' = [holds EXCEPT ![r] = done[r]]
        /\ UNCHANGED <<runs, files, done, byHand>>
    BY <1>4, KeptTyped DEF FillImage, rootfsVars
  <2>2. "packages" \in files[r]
    BY <2>1 DEF BootInv, UnderWay
  <2>3. r \notin byHand => Begun(done[r])
    BY <2>1, <2>2 DEF BootInv, RootfsInv
  <2>4. holds'[r] = done[r] /\ \A q \in Run \ {r} : holds'[q] = holds[q] /\ image'[q] = image[q]
    BY <2>1 DEF TypeOK
  <2>5. CutAfterApt'
    BY <2>1, <2>3, <2>4 DEF BootInv, CutAfterApt, Begun
  <2>6. proc'[p].pc = "unmount" /\ \A q \in Builder \ {p} : proc'[q] = proc[q]
    BY <2>1 DEF TypeOK, Process
  <2>7. UnderWay(p)'
    BY <2>6 DEF UnderWay
  <2>8. RootfsInv'
    BY <2>1 DEF BootInv, RootfsInv
  <2> QED BY <2>1, <2>5, <2>6, <2>7, <2>8, BootAtWork
<1>5. CASE Unmount(p) \/ HashImage(p) \/ Pack(p)
  <2>1. /\ proc[p].pc \in {"unmount", "hash", "pack"}
        /\ \E place \in {"hash", "pack", "record"} : proc' = [proc EXCEPT ![p].pc = place]
        /\ UNCHANGED <<runs, files, done, image, holds, byHand>>
    BY <1>5 DEF Unmount, HashImage, Pack, rootfsVars, runVars
  <2>2. /\ proc'[p].pc \in {"hash", "pack", "record"}
        /\ \A q \in Builder \ {p} : proc'[q] = proc[q]
    BY <2>1 DEF TypeOK, Process
  <2>3. UnderWay(p)'
    BY <2>2 DEF UnderWay
  <2>4. RootfsInv' /\ CutAfterApt'
    BY <2>1 DEF BootInv, RootfsInv, CutAfterApt
  <2> QED BY <2>1, <2>2, <2>3, <2>4, BootAtWork
<1>6. CASE Record(p)
  <2>1. /\ proc[p].pc = "record" /\ Leaves(p)
        /\ UNCHANGED <<runs, files, done, image, holds, byHand>>
    BY <1>6 DEF Record, rootfsVars
  <2> QED BY <2>1, BootAtEnd DEF BootInv, RootfsInv, CutAfterApt
<1> QED
  BY <1>1, <1>2, <1>3, <1>4, <1>5, <1>6, BootOfStageDone DEF Steps

LEMMA BootOfFails ==
  ASSUME TypeOK, LockInv, BootInv, NEW p \in Builder, Fails(p)
  PROVE  BootInv'
<1> DEFINE r == proc[p].run
<1>1. CASE StageRaises(p)
  <2>1. PICK q, todo : q = proc[p].run /\ todo = proc[p].todo
    OBVIOUS
  <2>2. /\ proc[p].pc = "stage" /\ todo # <<>> /\ q \in kept /\ Halves(q, Head(todo))
        /\ Leaves(p) /\ UNCHANGED <<runs, image, holds, byHand>>
    BY <1>1, <2>1 DEF StageRaises, Ahead, Accepts, artifactVars
  <2>3. q \in Run /\ todo \in Seq(Stage)
    BY <2>1, <2>2, KeptTyped DEF TypeOK, Process
  <2>4. q \in byHand \/ InOrder(todo, q)
    BY <2>1, <2>2, <2>3 DEF BootInv, UnderWay
  <2>5. RootfsInv'
    BY <2>2, <2>3, <2>4, HalfAStage DEF BootInv, RootfsInv
  <2> QED BY <2>2, <2>5, BootAtEnd DEF BootInv, CutAfterApt
<1>2. CASE FillRaises(p) \/ PackRaises(p)
  <2>1. /\ proc[p].pc \in {"fill", "hash", "pack"} /\ Leaves(p)
        /\ UNCHANGED <<runs, files, done, image, holds, byHand>>
    BY <1>2 DEF FillRaises, PackRaises, runVars, rootfsVars
  <2> QED BY <2>1, BootAtEnd DEF BootInv, RootfsInv, CutAfterApt
<1>3. CASE UnmountBusy(p)
  <2>1. /\ proc[p].pc = "unmount" /\ proc' = [proc EXCEPT ![p].pc = "hash"]
        /\ UNCHANGED <<runs, files, done, image, holds, byHand>>
    BY <1>3 DEF UnmountBusy, rootfsVars
  <2>2. proc'[p].pc = "hash" /\ \A q \in Builder \ {p} : proc'[q] = proc[q]
    BY <2>1 DEF TypeOK, Process
  <2>3. UnderWay(p)'
    BY <2>2 DEF UnderWay
  <2>4. CutAfterApt'
    BY <2>1 DEF BootInv, CutAfterApt, TypeOK
  <2>5. RootfsInv'
    BY <2>1 DEF BootInv, RootfsInv
  <2> QED BY <2>1, <2>2, <2>3, <2>4, <2>5, BootAtWork
<1> QED
  BY <1>1, <1>2, <1>3 DEF Fails

LEMMA BootStep ==
  ASSUME TypeOK, LockInv, BootInv, CleanAlone, [Next]_vars
  PROVE  BootInv'
<1>1. CASE DryRun
  <2>1. /\ UNCHANGED <<files, done, image, holds, byHand, proc>> /\ lock = None
        /\ runs' \in {runs, runs + 1}
    BY <1>1 DEF DryRun
  <2>2. \A q \in Builder : proc'[q].pc \in {"idle", "clean"}
    BY <2>1, BuildAssumption DEF LockInv
  <2>3. \A q \in Run : q > runs' => q > runs
    BY <2>1, BuildAssumption DEF TypeOK, Run
  <2>4. RootfsInv' /\ CutAfterApt'
    BY <2>1, <2>3 DEF BootInv, RootfsInv, CutAfterApt
  <2> QED BY <2>2, <2>4, BootAtRest
<1>2. CASE PowerCut
  <2>1. \A q \in Builder : proc'[q].pc \in {"idle", "dead"}
    BY <1>2 DEF PowerCut, Idle
  <2>2. UNCHANGED <<runs, image, holds, byHand>>
    BY <1>2 DEF PowerCut
  <2>3. CASE UNCHANGED <<files, done>>
    <3>1. RootfsInv' /\ CutAfterApt'
      BY <2>2, <2>3 DEF BootInv, RootfsInv, CutAfterApt
    <3> QED BY <2>1, <3>1, BootAtRest
  <2>4. CASE \E p \in Builder :
               /\ proc[p].pc = "stage" /\ proc[p].todo # <<>>
               /\ Accepts(proc[p].run, Ahead(p)) /\ Halves(proc[p].run, Ahead(p))
    <3>1. PICK p, q, todo :
            /\ p \in Builder /\ q = proc[p].run /\ todo = proc[p].todo
            /\ proc[p].pc = "stage" /\ todo # <<>>
            /\ Accepts(q, Head(todo)) /\ Halves(q, Head(todo))
      BY <2>4 DEF Ahead
    <3>2. q \in kept /\ q \in Run /\ todo \in Seq(Stage)
      BY <3>1, KeptTyped DEF TypeOK, Process, Accepts
    <3>3. q \in byHand \/ InOrder(todo, q)
      BY <3>1, <3>2 DEF BootInv, UnderWay
    <3>4. RootfsInv'
      BY <2>2, <3>1, <3>2, <3>3, HalfAStage DEF BootInv, RootfsInv
    <3>5. CutAfterApt'
      BY <2>2 DEF BootInv, CutAfterApt
    <3> QED BY <2>1, <3>4, <3>5, BootAtRest
  <2> QED BY <1>2, <2>3, <2>4 DEF PowerCut
<1>3. CASE OperatorUnlocks
  <2>1. /\ lock \in Builder /\ proc[lock].pc = "dead" /\ proc' = [proc EXCEPT ![lock] = Idle]
        /\ UNCHANGED <<runs, files, done, image, holds, byHand>>
    BY <1>3 DEF OperatorUnlocks, TypeOK, runVars
  <2>2. \A q \in Builder : proc'[q].pc = "idle"
    BY <2>1, OthersRest DEF TypeOK, Idle
  <2>3. RootfsInv' /\ CutAfterApt'
    BY <2>1 DEF BootInv, RootfsInv, CutAfterApt
  <2> QED BY <2>2, <2>3, BootAtRest
<1>4. CASE UNCHANGED vars
  BY <1>4 DEF vars, runVars, BootInv, RootfsInv, CutAfterApt, UnderWay, InOrder
<1>5. ASSUME NEW q \in Run, MountWrites(q)
      PROVE  BootInv'
  <2>1. /\ image' = [image EXCEPT ![q] = "changed"]
        /\ UNCHANGED <<runs, files, done, holds, byHand, proc>>
    BY <1>5 DEF MountWrites, rootfsVars
  <2>2. CutAfterApt'
    BY <2>1 DEF BootInv, CutAfterApt, TypeOK
  <2>3. RootfsInv' /\ \A p \in Builder : UnderWay(p)'
    BY <2>1 DEF BootInv, RootfsInv, UnderWay, InOrder
  <2> QED BY <2>2, <2>3 DEF BootInv
<1> QED
  BY <1>1, <1>2, <1>3, <1>4, <1>5, BootOfCommands, BootOfSteps, BootOfFails DEF Next

(***************************************************************************)
(* An image of a run in which only the build commands have worked holds a  *)
(* beginning of Block 2, apt at least, whatever failed, was cut or taken   *)
(* up again before: rootfs_ready lets no tree through in which the         *)
(* packages had not begun, and no build goes on in the middle of one.      *)
(***************************************************************************)
THEOREM ImagesAlwaysBegun == CleanAlone => (Spec => []CutAfterApt)
<1> SUFFICES ASSUME CleanAlone PROVE Spec => []CutAfterApt
  OBVIOUS
<1>1. /\ TypeOK /\ LockInv /\ BootInv /\ [Next]_vars
      => TypeOK' /\ LockInv' /\ BootInv'
  BY TypeStep, LockStep, BootStep
<1>2. BootInv => CutAfterApt
  BY DEF BootInv
<1> QED
  BY TypeInit, LockInit, BootInit, <1>1, <1>2, PTL DEF Spec
=============================================================================
