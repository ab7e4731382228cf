--------------------------- MODULE ImageBuildProofs ---------------------------
(***************************************************************************)
(* Whatever fails, whoever is killed and however many invocations share    *)
(* the build directory: debootstrap and mksquashfs work on a root file     *)
(* system that nothing else is writing to, unless the debootstrap of a     *)
(* killed builder was still at work when the invocation began.             *)
(***************************************************************************)
EXTENDS ImageBuild, SequenceTheorems, TLAPS

\* Nothing of the chroot works below the two phases that must have it alone.
Quiet == (In("rootfs") \/ In("squashfs")) /\ at > 0 => orphan = 0 /\ ~mounted

\* The debootstrap of a killed builder is at work beside an invocation only if
\* it was when that began.
Apart == strap => stray \/ (Idle /\ ~full)

\* The trees of the host are mounted in the two phases that need them only,
\* and a killed builder leaves no phase behind in which it could matter.
BelowInv ==
  /\ todo \in Seq(Phase) /\ at \in Nat
  /\ mounted => In("configure") \/ In("boot")
  /\ Quiet

\* A selection is a sequence of phases.
LEMMA SelectionsAreSequences == Selections \subseteq Seq(Phase)
<1>1. Phases \in Seq(Phase) /\ \A i \in 1 .. 6 : Phases[i] \in Phase
  BY DEF Phases, Phase
<1>2. ASSUME NEW i \in 1 .. 6
      PROVE  <<Phases[i]>> \in Seq(Phase)
  BY <1>1
<1> QED
  BY <1>1, <1>2 DEF Selections

\* The tail of a selection that has not come to its end.
LEMMA TailIsSequence ==
  ASSUME todo \in Seq(Phase), ~Idle
  PROVE  Tail(todo) \in Seq(Phase)
BY DEF Idle

\* The last step of phase_configure works outside the chroot.
LEMMA LastIsOutside == ~UsesChroot(Last)
<1>1. Last \in Nat
  BY DEF Last, Pipeline, Preparation, InChroot
<1> QED
  BY <1>1 DEF UsesChroot

LEMMA BelowInit == Init => BelowInv
<1> SUFFICES ASSUME Init PROVE BelowInv
  OBVIOUS
<1>1. todo \in Seq(Phase) /\ at \in Nat
  BY DEF Init
<1>2. ~mounted /\ Idle
  BY Zenon DEF Init, Idle
<1> QED
  BY <1>1, <1>2 DEF BelowInv, Quiet, In

\* A phase that is over leaves nothing mounted, and the next one begins at 0.
LEMMA PhaseEnds ==
  ASSUME BelowInv, ~Idle, NextPhase, ~mounted'
  PROVE  BelowInv'
<1>1. todo' \in Seq(Phase)
  BY TailIsSequence DEF BelowInv, NextPhase
<1> QED
  BY <1>1 DEF BelowInv, NextPhase, Quiet

\* Nothing is mounted in the other four phases.
LEMMA NothingMounted ==
  ASSUME BelowInv, NEW phase \in Phase \ {"configure", "boot"}, In(phase)
  PROVE  ~mounted
<1>1. ~In("configure") /\ ~In("boot")
  BY DEF In
<1> QED
  BY <1>1, Zenon DEF BelowInv

\* So does an invocation that ends.
LEMMA InvocationEnds ==
  ASSUME BelowInv, End
  PROVE  BelowInv'
BY DEF BelowInv, End, Quiet, In, Idle

LEMMA BelowStep ==
  ASSUME BelowInv, [Next]_vars
  PROVE  BelowInv'
<1> USE DEF BelowInv
<1>1. CASE Invoke
  <2>1. todo' \in Seq(Phase) /\ ~mounted
    BY <1>1, SelectionsAreSequences DEF Invoke, In, Idle
  <2> QED BY <1>1, <2>1 DEF Invoke, Quiet
<1>2. CASE Clean \/ ClearRootfs
  BY <1>2 DEF Clean, ClearRootfs, CleansUp, invocation, Go, Quiet, In, Idle
<1>3. CASE Debootstrap
  <2>1. ~Idle /\ ~mounted'
    BY <1>3 DEF Debootstrap, In, Quiet
  <2> QED BY <1>3, <2>1, PhaseEnds DEF Debootstrap
<1>4. CASE BeginConfigure \/ MountTrees \/ UnmountTrees
  BY <1>4 DEF BeginConfigure, MountTrees, UnmountTrees, NeedsMounts, Configuring,
    invocation, Quiet, In, Idle
<1>5. CASE ConfigureStep
  <2>1. CASE at = Last
    <3>1. ~Idle /\ NextPhase
      BY <1>5, <2>1, Zenon DEF ConfigureStep, In
    <3>2. mounted = UsesChroot(Last) /\ mounted' = mounted
      BY <1>5, <2>1, Zenon DEF ConfigureStep
    <3>3. ~mounted'
      BY <3>2, LastIsOutside, Zenon
    <3> QED BY <3>1, <3>3, PhaseEnds
  <2>2. CASE at # Last
    <3>1. In("configure") /\ at' = at + 1 /\ todo' = todo
      BY <1>5, <2>2, Zenon DEF ConfigureStep, Go
    <3>2. In("configure")' /\ ~In("rootfs")' /\ ~In("squashfs")'
      BY <3>1 DEF In, Idle
    <3>3. todo' \in Seq(Phase) /\ at' \in Nat
      BY <3>1
    <3> QED BY <3>2, <3>3, Zenon DEF Quiet
  <2> QED BY <2>1, <2>2
<1>6. CASE BuildInitramfs
  BY <1>6 DEF BuildInitramfs, Go, Quiet, In, Idle
<1>7. CASE CopyKernel \/ InspectSquashfs \/ MakeIso \/ WriteManifest
  <2>1. ~Idle /\ NextPhase /\ mounted' = mounted
    BY <1>7, Zenon DEF CopyKernel, InspectSquashfs, MakeIso, WriteManifest, In
  <2>2. ~mounted
    <3>1. CASE CopyKernel
      BY <3>1, Zenon DEF CopyKernel
    <3>2. CASE InspectSquashfs \/ MakeIso \/ WriteManifest
      <4>1. \E phase \in Phase \ {"configure", "boot"} : In(phase)
        BY <3>2 DEF InspectSquashfs, MakeIso, WriteManifest, Phase
      <4> QED BY <4>1, NothingMounted
    <3> QED BY <1>7, <3>1, <3>2
  <2>3. ~mounted'
    BY <2>1, <2>2, Zenon
  <2> QED BY <2>1, <2>3, PhaseEnds
<1>8. CASE RemoveSquashfs \/ MakeSquashfs \/ RemoveIso
  <2>1. /\ todo' = todo /\ mounted' = mounted
        /\ at' = 1 \/ at' = 2
    BY <1>8, Zenon DEF RemoveSquashfs, MakeSquashfs, RemoveIso, Go
  <2>2. ~mounted
    <3>1. \E phase \in Phase \ {"configure", "boot"} : In(phase)
      BY <1>8 DEF RemoveSquashfs, MakeSquashfs, RemoveIso, Phase
    <3> QED BY <3>1, NothingMounted
  <2>3. ~mounted'
    BY <2>1, <2>2, Zenon
  <2>4. In("rootfs") \/ In("squashfs") => orphan' = 0
    <3>1. CASE RemoveSquashfs
      BY <3>1, Zenon DEF RemoveSquashfs, CleansUp
    <3>2. CASE MakeSquashfs
      BY <3>2 DEF MakeSquashfs, Quiet, In
    <3>3. CASE RemoveIso
      BY <3>3 DEF RemoveIso, In
    <3> QED BY <1>8, <3>1, <3>2, <3>3
  <2>5. at' \in Nat /\ todo' \in Seq(Phase)
    BY <2>1
  <2>6. (In("rootfs") \/ In("squashfs"))' => orphan' = 0
    BY <2>1, <2>4 DEF In, Idle
  <2> QED BY <2>3, <2>5, <2>6, Zenon DEF Quiet
<1>9. CASE Refuse \/ Raise \/ Kill
  BY <1>9, InvocationEnds DEF Refuse, Raise, Kill
<1>10. CASE OrphanEnds
  BY <1>10 DEF OrphanEnds, invocation, Quiet, In, Idle
<1>11. CASE StrapGoesOn
  BY <1>11 DEF StrapGoesOn, invocation, Quiet, In, Idle
<1>12. CASE UNCHANGED vars
  BY <1>12 DEF vars, invocation, Quiet, In, Idle
<1> QED
  BY <1>1, <1>2, <1>3, <1>4, <1>5, <1>6, <1>7, <1>8, <1>9, <1>10, <1>11, <1>12
    DEF Next, BuildStep

LEMMA ApartInit == Init => Apart
BY Zenon DEF Init, Apart

\* No step of an invocation changes what it began beside.
LEMMA StrayStays == BuildStep => stray' = stray
BY Zenon DEF BuildStep, Clean, ClearRootfs, Debootstrap, BeginConfigure, ConfigureStep, MountTrees,
  UnmountTrees, BuildInitramfs, CopyKernel, RemoveSquashfs, MakeSquashfs, InspectSquashfs,
  RemoveIso, MakeIso, WriteManifest, Refuse, NextPhase, Go, End, invocation

LEMMA ApartStep ==
  ASSUME Apart, [Next]_vars
  PROVE  Apart'
<1>1. CASE Invoke
  BY <1>1, Zenon DEF Invoke, Apart
<1>2. CASE Raise \/ Refuse \/ Kill
  <2>1. todo' = <<>> /\ ~full' /\ stray' = stray
    BY <1>2, Zenon DEF Raise, Refuse, Kill, End
  <2> QED BY <2>1, Zenon DEF Apart, Idle
<1>3. CASE BuildStep /\ ~Refuse /\ ~UnmountTrees
  <2>1. ~Idle
    BY <1>3, Zenon DEF BuildStep, Clean, ClearRootfs, Debootstrap, BeginConfigure, Configuring,
      ConfigureStep, MountTrees, NeedsMounts, BuildInitramfs, CopyKernel, RemoveSquashfs,
      MakeSquashfs, InspectSquashfs, RemoveIso, MakeIso, WriteManifest, In
  <2>2. strap' => strap
    BY <1>3, Zenon DEF BuildStep, Clean, ClearRootfs, Debootstrap, BeginConfigure, ConfigureStep,
      MountTrees, BuildInitramfs, CopyKernel, RemoveSquashfs, MakeSquashfs, InspectSquashfs,
      RemoveIso, MakeIso, WriteManifest, CleansUp, MayFindStrap
  <2>3. stray => stray'
    BY <1>3, StrayStays
  <2> QED BY <2>1, <2>2, <2>3, Zenon DEF Apart
<1>4. CASE OrphanEnds \/ StrapGoesOn \/ UnmountTrees \/ UNCHANGED vars
  BY <1>4, Zenon DEF OrphanEnds, StrapGoesOn, UnmountTrees, vars, invocation, Apart, Idle
<1> QED
  BY <1>1, <1>2, <1>3, <1>4, Zenon DEF Next

(***************************************************************************)
(* While debootstrap refills the root file system, and while mksquashfs    *)
(* reads it, nothing is mounted below it and no command of a killed        *)
(* builder works in it, but a debootstrap that already did when the        *)
(* invocation began.                                                       *)
(***************************************************************************)
THEOREM NothingEverRunsBelow == Spec => []NothingRunsBelow
<1>1. BelowInv /\ Apart => NothingRunsBelow
  BY Zenon DEF BelowInv, Quiet, Apart, NothingRunsBelow, In
<1> QED
  BY BelowInit, BelowStep, ApartInit, ApartStep, <1>1, PTL DEF Spec

-----------------------------------------------------------------------------
\* Types.  A step leaves facts only; which ones is hidden from here on.
LEMMA StepsLeaveFacts ==
  ASSUME NEW i \in 1 .. Last, NEW facts \in SUBSET Facts
  PROVE  Effect(Pipeline[i], facts) \subseteq Facts /\ CutShort(Pipeline[i], facts) \subseteq SUBSET Facts
<1>1. Pipeline[i].gives \subseteq Facts /\ Pipeline[i].fresh \subseteq Facts /\ "half" \in Facts
  <2> DEFINE Left(j) == Pipeline[j].gives \cup Pipeline[j].fresh
  <2>1. Left(i) \subseteq UNION {Left(j) : j \in 1 .. Last}
    OBVIOUS
  <2> QED BY <2>1, Zenon DEF Facts
<1>2. Effect(Pipeline[i], facts) \subseteq Facts
  BY <1>1 DEF Effect
<1>3. CutShort(Pipeline[i], facts) \subseteq SUBSET Facts
  <2> DEFINE step == Pipeline[i]
  <2>1. \A t, g : g \subseteq step.gives => (facts \ t) \cup g \subseteq Facts
    BY <1>1
  <2>2. \A f : f \subseteq step.fresh => facts \cup f \cup {"half"} \subseteq Facts
    BY <1>1
  <2> HIDE DEF step
  <2>3. CutShort(step, facts) \subseteq SUBSET Facts
    <3>1. CASE step.fresh = {}
      BY <2>1, <3>1 DEF CutShort
    <3>2. CASE step.fresh # {}
      BY <2>2, <3>2 DEF CutShort
    <3> QED BY <3>1, <3>2
  <2> QED BY <2>3 DEF step
<1> QED
  BY <1>2, <1>3

LEMMA LastIsNatural == Last \in Nat /\ Last > 2
BY DEF Last, Pipeline, Preparation, InChroot

\* The types of everything but the Booleans.
Typed ==
  /\ rootfs \subseteq Facts /\ orphan \in 0 .. Initramfs
  /\ boot \in Files /\ squashfs \in Files /\ iso \in Isos
  /\ manifest \in [run : 0 .. MaxRuns, iso : Isos, squashfs : Files]
  /\ run \in 0 .. MaxRuns /\ faults \in 0 .. MaxFaults
  /\ todo \in Seq(Phase) /\ at \in 0 .. Last

Booleans ==
  /\ mounted \in BOOLEAN /\ strap \in BOOLEAN
  /\ full \in BOOLEAN /\ beside \in BOOLEAN /\ stray \in BOOLEAN

LEMMA TypedIs == TypeOK <=> Typed /\ Booleans
<1>1. Booleans <=> {mounted, strap} \subseteq BOOLEAN /\ {full, beside, stray} \subseteq BOOLEAN
  BY Zenon DEF Booleans
<1> QED
  BY <1>1, Zenon DEF TypeOK, Typed

LEMMA TypedInit == Init => Typed /\ Booleans
<1> SUFFICES ASSUME Init PROVE Typed /\ Booleans
  OBVIOUS
<1>1. Booleans
  BY Zenon DEF Init, Booleans
<1> QED
  BY <1>1, LastIsNatural, BuildAssumption
    DEF Init, Typed, Initramfs, NoFile, NoIso, NoManifest, Files, Isos

\* A file made by this invocation.
LEMMA FileTyped ==
  ASSUME Typed, NEW whole \in BOOLEAN, NEW of \in SUBSET Facts
  PROVE  File(whole, of) \in Files
BY DEF Typed, File, Files

\* What a step may leave when it is cut short.
LEMMA StoppedTyped == Typed => Stopped \subseteq SUBSET Facts
<1> SUFFICES ASSUME Typed PROVE Stopped \subseteq SUBSET Facts
  OBVIOUS
<1>1. CASE orphan \notin 1 .. Last
  BY <1>1 DEF Stopped, Typed
<1>2. CASE orphan \in 1 .. Last
  <2>1. rootfs \in SUBSET Facts
    BY DEF Typed
  <2>2. CutShort(Pipeline[orphan], rootfs) \subseteq SUBSET Facts
    BY <1>2, <2>1, StepsLeaveFacts
  <2> QED BY <1>2, <2>2, Zenon DEF Stopped
<1> QED
  BY <1>1, <1>2

LEMMA BegunTyped == Typed => Begun \subseteq SUBSET Facts
<1> SUFFICES ASSUME Typed PROVE Begun \subseteq SUBSET Facts
  OBVIOUS
<1>1. Bootstrap \cup {"short_base"} \subseteq Facts
  BY DEF Facts
<1>2. CASE In("rootfs") /\ at = 1
  <2>1. ~In("configure")
    BY <1>2 DEF In
  <2>2. Begun = {{}, Bootstrap \cup {"short_base"}}
    BY <1>2, <2>1 DEF Begun
  <2> QED BY <1>1, <2>2
<1>3. CASE ~(In("rootfs") /\ at = 1) /\ In("configure") /\ at > 0
  <2>1. at \in 1 .. Last
    BY <1>3, LastIsNatural DEF Typed
  <2> QED BY <1>3, <2>1, StepsLeaveFacts, StoppedTyped DEF Begun, Typed
<1>4. CASE ~(In("rootfs") /\ at = 1) /\ ~(In("configure") /\ at > 0)
  BY <1>4, StoppedTyped DEF Begun
<1> QED
  BY <1>2, <1>3, <1>4

LEMMA PartialTyped ==
  ASSUME Typed, PartialFile
  PROVE  boot' \in Files /\ squashfs' \in Files /\ iso' \in Isos /\ manifest' = manifest
<1>1. CASE UNCHANGED artifacts
  BY <1>1 DEF artifacts, Typed
<1>2. CASE boot' = File(FALSE, {}) /\ UNCHANGED <<squashfs, iso, manifest>>
  BY <1>2, FileTyped DEF Typed
<1>3. CASE squashfs' = File(FALSE, rootfs) /\ UNCHANGED <<boot, iso, manifest>>
  BY <1>3, FileTyped DEF Typed
<1>4. CASE /\ iso' = [file |-> File(FALSE, {}), boot |-> boot, squashfs |-> squashfs]
           /\ UNCHANGED <<boot, squashfs, manifest>>
  BY <1>4, FileTyped DEF Typed, Isos
<1> QED
  BY <1>1, <1>2, <1>3, <1>4 DEF PartialFile

LEMMA NextPhaseTyped == Typed /\ ~Idle /\ NextPhase => /\ todo' \in Seq(Phase) /\ at' = 0 /\ run' = run
BY TailIsSequence DEF Typed, NextPhase

LEMMA TypedStep ==
  ASSUME Typed, [Next]_vars
  PROVE  Typed'
<1> USE LastIsNatural, BuildAssumption DEF Initramfs
<1>1. CASE Invoke
  BY <1>1, SelectionsAreSequences DEF Invoke, artifacts, Typed
<1>2. CASE Clean
  <2>1. NoFile \in Files
    BY DEF NoFile, Files
  <2> QED BY <1>2, <2>1 DEF Clean, CleansUp, invocation, Typed
<1>3. CASE ClearRootfs
  BY <1>3 DEF ClearRootfs, CleansUp, Go, artifacts, Typed
<1>4. CASE Debootstrap
  <2>1. rootfs' = Bootstrap /\ ~Idle /\ NextPhase /\ UNCHANGED <<orphan, artifacts, faults>>
    BY <1>4, Zenon DEF Debootstrap, In
  <2>2. Bootstrap \subseteq Facts
    BY DEF Facts
  <2> QED BY <2>1, <2>2, NextPhaseTyped DEF artifacts, Typed
<1>5. CASE BeginConfigure
  BY <1>5 DEF BeginConfigure, Configuring, artifacts, Typed
<1>6. CASE ConfigureStep
  <2>1. at \in 1 .. Last /\ ~Idle
    BY <1>6 DEF ConfigureStep, Typed, In
  <2>2. rootfs' \in SUBSET Facts
    BY <1>6, <2>1, StepsLeaveFacts DEF ConfigureStep, Typed
  <2>3. /\ todo' \in Seq(Phase) /\ at' \in 0 .. Last /\ run' = run
    BY <1>6, <2>1, NextPhaseTyped DEF ConfigureStep, Go, Typed
  <2> QED BY <1>6, <2>2, <2>3 DEF ConfigureStep, artifacts, Typed
<1>7. CASE MountTrees
  BY <1>7, StoppedTyped DEF MountTrees, CleansUp, invocation, artifacts, Typed
<1>8. CASE UnmountTrees
  BY <1>8 DEF UnmountTrees, invocation, artifacts, Typed
<1>9. CASE BuildInitramfs
  BY <1>9 DEF BuildInitramfs, Go, artifacts, Typed
<1>10. CASE CopyKernel
  <2>1. boot' \in Files
    BY <1>10, FileTyped DEF CopyKernel
  <2>2. ~Idle /\ NextPhase /\ UNCHANGED <<rootfs, orphan, squashfs, iso, manifest, faults>>
    BY <1>10, Zenon DEF CopyKernel, In
  <2> QED BY <2>1, <2>2, NextPhaseTyped DEF Typed
<1>11. CASE RemoveSquashfs
  <2>1. NoFile \in Files
    BY DEF NoFile, Files
  <2>2. rootfs' \in SUBSET Facts
    BY <1>11, StoppedTyped DEF RemoveSquashfs
  <2> QED BY <1>11, <2>1, <2>2 DEF RemoveSquashfs, CleansUp, Go, Typed
<1>12. CASE MakeSquashfs
  <2>1. squashfs' \in Files
    BY <1>12, FileTyped DEF MakeSquashfs, Typed
  <2>2. at' = 2 /\ UNCHANGED <<rootfs, orphan, boot, iso, manifest, run, todo, faults>>
    BY <1>12, Zenon DEF MakeSquashfs, Go
  <2> QED BY <2>1, <2>2 DEF Typed
<1>13. CASE InspectSquashfs
  BY <1>13, NextPhaseTyped DEF InspectSquashfs, In, artifacts, Typed
<1>14. CASE RemoveIso
  <2>1. NoIso \in Isos
    BY DEF NoIso, NoFile, Isos, Files
  <2> QED BY <1>14, <2>1 DEF RemoveIso, Go, Typed
<1>15. CASE MakeIso
  <2>1. iso' \in Isos
    BY <1>15, FileTyped DEF MakeIso, Isos, Typed
  <2> QED BY <1>15, <2>1, NextPhaseTyped DEF MakeIso, In, Typed
<1>16. CASE WriteManifest
  <2>1. manifest' \in [run : 0 .. MaxRuns, iso : Isos, squashfs : Files]
    BY <1>16 DEF WriteManifest, Typed
  <2> QED BY <1>16, <2>1, NextPhaseTyped DEF WriteManifest, In, Typed
<1>17. CASE Refuse
  BY <1>17, StoppedTyped DEF Refuse, CleansUp, End, artifacts, Typed
<1>18. CASE Raise
  <2>1. rootfs' \in SUBSET Facts
    BY <1>18, BegunTyped DEF Raise
  <2>2. boot' \in Files /\ squashfs' \in Files /\ iso' \in Isos /\ manifest' = manifest
    BY <1>18, PartialTyped DEF Raise
  <2> QED BY <1>18, <2>1, <2>2 DEF Raise, CleansUp, End, Typed
<1>19. CASE Kill
  <2>1. todo' = <<>> /\ at' = 0 /\ run' = run /\ faults' \in 0 .. MaxFaults
    BY <1>19 DEF Kill, End, Typed
  <2>2. CASE KillInChroot \/ KillInDebootstrap
    BY <2>1, <2>2 DEF KillInChroot, KillInDebootstrap, artifacts, Typed
  <2>3. CASE KillElsewhere
    <3>1. boot' \in Files /\ squashfs' \in Files /\ iso' \in Isos /\ manifest' = manifest
      BY <2>3, PartialTyped DEF KillElsewhere
    <3>2. rootfs' \in SUBSET Facts /\ orphan' = orphan
      <4>1. CASE at > 0
        <5>1. at \in 1 .. Last /\ rootfs \in SUBSET Facts
          BY <4>1 DEF Typed
        <5>2. CutShort(Pipeline[at], rootfs) \subseteq SUBSET Facts
          BY <5>1, StepsLeaveFacts
        <5> QED BY <2>3, <5>1, <5>2, Zenon DEF KillElsewhere
      <4>2. CASE ~(at > 0)
        BY <2>3, <4>2 DEF KillElsewhere, Typed
      <4> QED BY <4>1, <4>2
    <3> QED BY <2>1, <3>1, <3>2 DEF Typed
  <2> QED BY <1>19, <2>2, <2>3 DEF Kill
<1>20. CASE OrphanEnds
  <2>1. orphan = Initramfs \/ orphan \in 1 .. Last
    BY <1>20 DEF OrphanEnds, Typed
  <2>2. rootfs' \in SUBSET Facts
    BY <1>20, <2>1, StepsLeaveFacts DEF OrphanEnds, Typed
  <2>3. orphan' = 0 /\ UNCHANGED <<artifacts, invocation, faults>>
    BY <1>20, Zenon DEF OrphanEnds
  <2> QED BY <2>2, <2>3 DEF artifacts, invocation, Typed
<1>21. CASE StrapGoesOn
  <2>1. rootfs' \in SUBSET Facts
    BY <1>21 DEF StrapGoesOn, Facts, Typed
  <2> QED BY <1>21, <2>1 DEF StrapGoesOn, artifacts, invocation, Typed
<1>22. CASE UNCHANGED vars
  BY <1>22 DEF vars, invocation, artifacts, Typed
<1> QED
  BY <1>1, <1>2, <1>3, <1>4, <1>5, <1>6, <1>7, <1>8, <1>9, <1>10, <1>11, <1>12, <1>13, <1>14,
    <1>15, <1>16, <1>17, <1>18, <1>19, <1>20, <1>21, <1>22 DEF Next, BuildStep

LEMMA BooleansStep ==
  ASSUME Booleans, [Next]_vars
  PROVE  Booleans'
BY Zenon DEF Booleans, Next, BuildStep, Invoke, Clean, ClearRootfs, Debootstrap, BeginConfigure,
  ConfigureStep, MountTrees, UnmountTrees, BuildInitramfs, CopyKernel, RemoveSquashfs,
  MakeSquashfs, InspectSquashfs, RemoveIso, MakeIso, WriteManifest, Refuse, Raise, Kill,
  KillInChroot, KillInDebootstrap, KillElsewhere, OrphanEnds, StrapGoesOn, CleansUp, MayFindStrap,
  NextPhase, Go, End, vars, invocation

(***************************************************************************)
(* What the builder leaves in its directory keeps its type; the root file  *)
(* system never holds anything that no step brings.                        *)
(***************************************************************************)
THEOREM BuildTyped == Spec => []TypeOK
<1>1. Typed /\ Booleans /\ [Next]_vars => Typed' /\ Booleans'
  BY TypedStep, BooleansStep
<1>2. Typed /\ Booleans => TypeOK
  BY TypedIs
<1> QED
  BY TypedInit, <1>1, <1>2, PTL DEF Spec

-----------------------------------------------------------------------------
(* The steps of phase_configure, one by one. *)

LEMMA PreparationIs ==
  /\ Len(Preparation) = 5
  /\ Preparation[1] = WriteSettings
  /\ Preparation[2] = ConfigureCursor
  /\ Preparation[3] = WriteInstaller
  /\ Preparation[4] = WriteLanguageTools
  /\ Preparation[5] = StageComponents
BY DEF Preparation
LEMMA InChrootIs ==
  /\ Len(InChroot) = 38
  /\ InChroot[1] = InstallPackages
  /\ InChroot[2] = ApplyKioskStack
  /\ InChroot[3] = BootSplash
  /\ InChroot[4] = Locales
  /\ InChroot[5] = Accounts
  /\ InChroot[6] = CertificateStore
  /\ InChroot[7] = InstallComponents
  /\ InChroot[8] = ComponentLayout
  /\ InChroot[9] = CommandAliases
  /\ InChroot[10] = VerifyComponents
  /\ InChroot[11] = VerifyAgent
  /\ InChroot[12] = EnrollmentContract
  /\ InChroot[13] = IpcMembership
  /\ InChroot[14] = IntegrateLocally
  /\ InChroot[15] = VerifyThinClient
  /\ InChroot[16] = VpnAdministration
  /\ InChroot[17] = StartupOrder
  /\ InChroot[18] = VpnPermissions
  /\ InChroot[19] = KernelResources
  /\ InChroot[20] = NetworkHardening
  /\ InChroot[21] = ServiceHardening
  /\ InChroot[22] = Block9Gate
  /\ InChroot[23] = UpdateArchitecture
  /\ InChroot[24] = BaseOsUpdate
  /\ InChroot[25] = Maintenance
  /\ InChroot[26] = Recovery
  /\ InChroot[27] = Block10Gate
  /\ InChroot[28] = TimeSync
  /\ InChroot[29] = OpenVpnNetwork
  /\ InChroot[30] = IconTheme
  /\ InChroot[31] = GtkTheme
  /\ InChroot[32] = ClientTheme
  /\ InChroot[33] = ProductionRuntime
  /\ InChroot[34] = ReleaseMarker
  /\ InChroot[35] = DisableGenericAutostart
  /\ InChroot[36] = EnableTargets
  /\ InChroot[37] = VerifyBlock7
  /\ InChroot[38] = CleanCache
BY DEF InChroot

LEMMA ThreeParts ==
  ASSUME NEW S, NEW a \in Seq(S), NEW b \in Seq(S), NEW c \in S
  PROVE  /\ Len(a \o b \o <<c>>) = Len(a) + Len(b) + 1
         /\ \A i \in 1 .. Len(a) : (a \o b \o <<c>>)[i] = a[i]
         /\ \A i \in 1 .. Len(b) : (a \o b \o <<c>>)[Len(a) + i] = b[i]
         /\ (a \o b \o <<c>>)[Len(a) + Len(b) + 1] = c
OBVIOUS

LEMMA PartsAreSequences ==
  \E S : Preparation \in Seq(S) /\ InChroot \in Seq(S) /\ LiftServiceBan \in S
<1> DEFINE S == {Preparation[i] : i \in 1 .. 5} \cup {InChroot[i] : i \in 1 .. 38} \cup {LiftServiceBan}
<1>1. Preparation \in Seq(S)
  <2>1. \A i \in 1 .. 5 : Preparation[i] \in S
    OBVIOUS
  <2> QED BY <2>1 DEF Preparation
<1>2. InChroot \in Seq(S)
  <2>1. \A i \in 1 .. 38 : InChroot[i] \in S
    OBVIOUS
  <2> HIDE DEF S
  <2> QED BY <2>1 DEF InChroot
<1> QED BY <1>1, <1>2
LEMMA PipelineIs ==
  /\ Last = 44
  /\ Pipeline[1] = WriteSettings
  /\ Pipeline[2] = ConfigureCursor
  /\ Pipeline[3] = WriteInstaller
  /\ Pipeline[4] = WriteLanguageTools
  /\ Pipeline[5] = StageComponents
  /\ Pipeline[6] = InstallPackages
  /\ Pipeline[7] = ApplyKioskStack
  /\ Pipeline[8] = BootSplash
  /\ Pipeline[9] = Locales
  /\ Pipeline[10] = Accounts
  /\ Pipeline[11] = CertificateStore
  /\ Pipeline[12] = InstallComponents
  /\ Pipeline[13] = ComponentLayout
  /\ Pipeline[14] = CommandAliases
  /\ Pipeline[15] = VerifyComponents
  /\ Pipeline[16] = VerifyAgent
  /\ Pipeline[17] = EnrollmentContract
  /\ Pipeline[18] = IpcMembership
  /\ Pipeline[19] = IntegrateLocally
  /\ Pipeline[20] = VerifyThinClient
  /\ Pipeline[21] = VpnAdministration
  /\ Pipeline[22] = StartupOrder
  /\ Pipeline[23] = VpnPermissions
  /\ Pipeline[24] = KernelResources
  /\ Pipeline[25] = NetworkHardening
  /\ Pipeline[26] = ServiceHardening
  /\ Pipeline[27] = Block9Gate
  /\ Pipeline[28] = UpdateArchitecture
  /\ Pipeline[29] = BaseOsUpdate
  /\ Pipeline[30] = Maintenance
  /\ Pipeline[31] = Recovery
  /\ Pipeline[32] = Block10Gate
  /\ Pipeline[33] = TimeSync
  /\ Pipeline[34] = OpenVpnNetwork
  /\ Pipeline[35] = IconTheme
  /\ Pipeline[36] = GtkTheme
  /\ Pipeline[37] = ClientTheme
  /\ Pipeline[38] = ProductionRuntime
  /\ Pipeline[39] = ReleaseMarker
  /\ Pipeline[40] = DisableGenericAutostart
  /\ Pipeline[41] = EnableTargets
  /\ Pipeline[42] = VerifyBlock7
  /\ Pipeline[43] = CleanCache
  /\ Pipeline[44] = LiftServiceBan
<1>1. /\ Len(Pipeline) = 44 /\ Pipeline[44] = LiftServiceBan
      /\ \A i \in 1 .. 5 : Pipeline[i] = Preparation[i]
      /\ \A i \in 1 .. 38 : Pipeline[5 + i] = InChroot[i]
  <2>1. PICK S : Preparation \in Seq(S) /\ InChroot \in Seq(S) /\ LiftServiceBan \in S
    BY PartsAreSequences
  <2>2. Len(Preparation) = 5 /\ Len(InChroot) = 38
    BY PreparationIs, InChrootIs
  <2>3. /\ Len(Pipeline) = Len(Preparation) + Len(InChroot) + 1
        /\ \A i \in 1 .. Len(Preparation) : Pipeline[i] = Preparation[i]
        /\ \A i \in 1 .. Len(InChroot) : Pipeline[Len(Preparation) + i] = InChroot[i]
        /\ Pipeline[Len(Preparation) + Len(InChroot) + 1] = LiftServiceBan
    <3>1. Pipeline = Preparation \o InChroot \o <<LiftServiceBan>>
      BY DEF Pipeline
    <3> QED BY <2>1, <3>1, ThreeParts
  <2> QED BY <2>2, <2>3
<1>2. \A i \in 6 .. 43 : Pipeline[i] = InChroot[i - 5]
  BY <1>1
<1> QED BY <1>1, <1>2, PreparationIs, InChrootIs DEF Last

\* What a pass clears away again.
Swept == Leftovers \ {"short_base"}

\* A step that brings nothing that has to be cleared away.
Tidy(step) ==
  step.gives \cap Leftovers = {} /\ step.fresh = {} /\ step.takes \subseteq Swept

LEMMA TidySteps ==
  \A i \in 1 .. Last \ {1, 5, 6, 12} : Tidy(Pipeline[i])
<1>1. /\ Tidy(ConfigureCursor)
      /\ Tidy(WriteInstaller)
      /\ Tidy(WriteLanguageTools)
      /\ Tidy(ApplyKioskStack)
      /\ Tidy(BootSplash)
      /\ Tidy(Locales)
      /\ Tidy(Accounts)
      /\ Tidy(CertificateStore)
      /\ Tidy(ComponentLayout)
      /\ Tidy(CommandAliases)
  BY DEF
    Tidy, Swept, Leftovers, Step, Write, Test, Remove, ConfigureCursor, WriteInstaller,
    WriteLanguageTools, ApplyKioskStack, BootSplash, Locales, Accounts, CertificateStore,
    ComponentLayout, CommandAliases, GraphicalStack, Compositor, SessionManager,
    ThinClientLauncher, SessionSupervisor
<1>2. /\ Tidy(VerifyComponents)
      /\ Tidy(VerifyAgent)
      /\ Tidy(EnrollmentContract)
      /\ Tidy(IpcMembership)
      /\ Tidy(IntegrateLocally)
      /\ Tidy(VerifyThinClient)
      /\ Tidy(VpnAdministration)
      /\ Tidy(StartupOrder)
      /\ Tidy(VpnPermissions)
      /\ Tidy(KernelResources)
  BY DEF
    Tidy, Swept, Leftovers, Step, Write, Test, Remove, VerifyComponents, VerifyAgent,
    EnrollmentContract, IpcMembership, IntegrateLocally, VerifyThinClient, VpnAdministration,
    StartupOrder, VpnPermissions, KernelResources, XmsContract, LocalIntegration,
    KernelHardening, Resources
<1>3. /\ Tidy(NetworkHardening)
      /\ Tidy(ServiceHardening)
      /\ Tidy(Block9Gate)
      /\ Tidy(UpdateArchitecture)
      /\ Tidy(BaseOsUpdate)
      /\ Tidy(Maintenance)
      /\ Tidy(Recovery)
      /\ Tidy(Block10Gate)
      /\ Tidy(TimeSync)
      /\ Tidy(OpenVpnNetwork)
  BY DEF
    Tidy, Swept, Leftovers, Step, Write, Test, Remove, NetworkHardening, ServiceHardening,
    Block9Gate, UpdateArchitecture, BaseOsUpdate, Maintenance, Recovery, Block10Gate, TimeSync,
    OpenVpnNetwork, Ssh, Firewall, SystemdHardening, AppArmor, UpdateModel, ReleaseManifest,
    TransactionalUpdate, PackageRollback, BaseOsUpdates, MaintenanceDiagnostics, RecoveryTarget
<1>4. /\ Tidy(IconTheme)
      /\ Tidy(GtkTheme)
      /\ Tidy(ClientTheme)
      /\ Tidy(ProductionRuntime)
      /\ Tidy(ReleaseMarker)
      /\ Tidy(DisableGenericAutostart)
      /\ Tidy(EnableTargets)
      /\ Tidy(VerifyBlock7)
      /\ Tidy(CleanCache)
      /\ Tidy(LiftServiceBan)
  BY DEF
    Tidy, Swept, Leftovers, Step, Write, Test, Remove, IconTheme, GtkTheme, ClientTheme,
    ProductionRuntime, ReleaseMarker, DisableGenericAutostart, EnableTargets, VerifyBlock7,
    CleanCache, LiftServiceBan, Gate
<1> HIDE DEF Tidy
<1> QED
  BY <1>1, <1>2, <1>3, <1>4, PipelineIs

\* The other four bring something that a later step clears away.
LEMMA UntidySteps ==
  /\ Pipeline[1].gives \cap Leftovers = {"service_ban"} /\ Pipeline[1].fresh = {}
  /\ Pipeline[1].takes = {} /\ Pipeline[5].gives = {"staged_debs"} /\ Pipeline[5].fresh = {}
  /\ Pipeline[5].takes = {} /\ Pipeline[6].gives \cap Leftovers = {"apt_lists"}
  /\ Pipeline[6].fresh = {"openvpn_autoload"} /\ Pipeline[6].takes = {"half"}
  /\ Pipeline[12].gives \cap Leftovers = {}
  /\ Pipeline[12].fresh = {"generic_autostart", "old_layout", "development_mode"}
  /\ Pipeline[12].takes = {"half"}
<1>1. /\ WriteSettings.gives \cap Leftovers = {"service_ban"} /\ WriteSettings.fresh = {}
      /\ WriteSettings.takes = {} /\ StageComponents.gives = {"staged_debs"}
      /\ StageComponents.fresh = {} /\ StageComponents.takes = {}
      /\ InstallPackages.gives \cap Leftovers = {"apt_lists"}
      /\ InstallPackages.fresh = {"openvpn_autoload"} /\ InstallPackages.takes = {"half"}
      /\ InstallComponents.gives \cap Leftovers = {}
      /\ InstallComponents.fresh = {"generic_autostart", "old_layout", "development_mode"}
      /\ InstallComponents.takes = {"half"}
  BY DEF
    Leftovers, Step, Write, Test, Remove, WriteSettings, StageComponents, InstallPackages,
    InstallComponents
<1> QED
  BY <1>1, PipelineIs

\* What the steps clear away, and which they are.
LEMMA Takers ==
  /\ Pipeline[6].takes = {"half"} /\ Pipeline[12].takes = {"half"}
  /\ Pipeline[13].takes = {"old_layout"} /\ Pipeline[24].takes = {"apt_timers"}
  /\ Pipeline[34].takes = {"openvpn_autoload"} /\ Pipeline[38].takes = {"development_mode"}
  /\ Pipeline[40].takes = {"generic_autostart"}
  /\ Pipeline[43].takes = {"apt_lists", "staged_debs"}
  /\ Pipeline[44].takes = {"service_ban"}
<1>1. /\ InstallPackages.takes = {"half"} /\ InstallComponents.takes = {"half"}
      /\ ComponentLayout.takes = {"old_layout"} /\ KernelResources.takes = {"apt_timers"}
      /\ OpenVpnNetwork.takes = {"openvpn_autoload"}
      /\ ProductionRuntime.takes = {"development_mode"}
      /\ DisableGenericAutostart.takes = {"generic_autostart"}
      /\ CleanCache.takes = {"apt_lists", "staged_debs"}
      /\ LiftServiceBan.takes = {"service_ban"}
  BY DEF
    Step, Write, Test, Remove, InstallPackages, InstallComponents, ComponentLayout,
    KernelResources, OpenVpnNetwork, ProductionRuntime, DisableGenericAutostart, CleanCache,
    LiftServiceBan, KernelHardening, Resources
<1> QED
  BY <1>1, PipelineIs

\* The others take nothing away.
LEMMA TakeNothing ==
  \A i \in 1 .. 42 \ {6, 12, 13, 24, 34, 38, 40} : Pipeline[i].takes = {}
<1>1. /\ WriteSettings.takes = {} /\ ConfigureCursor.takes = {} /\ WriteInstaller.takes = {}
      /\ WriteLanguageTools.takes = {} /\ StageComponents.takes = {}
      /\ ApplyKioskStack.takes = {} /\ BootSplash.takes = {} /\ Locales.takes = {}
      /\ Accounts.takes = {} /\ CertificateStore.takes = {} /\ CommandAliases.takes = {}
      /\ VerifyComponents.takes = {} /\ VerifyAgent.takes = {}
      /\ EnrollmentContract.takes = {} /\ IpcMembership.takes = {}
      /\ IntegrateLocally.takes = {} /\ VerifyThinClient.takes = {}
      /\ VpnAdministration.takes = {} /\ StartupOrder.takes = {}
      /\ VpnPermissions.takes = {} /\ NetworkHardening.takes = {}
      /\ ServiceHardening.takes = {} /\ Block9Gate.takes = {}
      /\ UpdateArchitecture.takes = {} /\ BaseOsUpdate.takes = {} /\ Maintenance.takes = {}
      /\ Recovery.takes = {} /\ Block10Gate.takes = {} /\ TimeSync.takes = {}
      /\ IconTheme.takes = {} /\ GtkTheme.takes = {} /\ ClientTheme.takes = {}
      /\ ReleaseMarker.takes = {} /\ EnableTargets.takes = {} /\ VerifyBlock7.takes = {}
  BY DEF
    Step, Write, Test, Remove, WriteSettings, ConfigureCursor, WriteInstaller,
    WriteLanguageTools, StageComponents, ApplyKioskStack, BootSplash, Locales, Accounts,
    CertificateStore, CommandAliases, VerifyComponents, VerifyAgent, EnrollmentContract,
    IpcMembership, IntegrateLocally, VerifyThinClient, VpnAdministration, StartupOrder,
    VpnPermissions, NetworkHardening, ServiceHardening, Block9Gate, UpdateArchitecture,
    BaseOsUpdate, Maintenance, Recovery, Block10Gate, TimeSync, IconTheme, GtkTheme,
    ClientTheme, ReleaseMarker, EnableTargets, VerifyBlock7, GraphicalStack, Compositor,
    SessionManager, ThinClientLauncher, SessionSupervisor, XmsContract, LocalIntegration, Ssh,
    Firewall, SystemdHardening, AppArmor, UpdateModel, ReleaseManifest, TransactionalUpdate,
    PackageRollback, BaseOsUpdates, MaintenanceDiagnostics, RecoveryTarget, Gate
<1> QED
  BY <1>1, PipelineIs

\* Where the facts come from that later steps ask for.
LEMMA Providers ==
  /\ "installer" \in Pipeline[3].gives \ Leftovers
  /\ "language_helpers" \in Pipeline[4].gives \ Leftovers
  /\ "language_sync" \in Pipeline[4].gives \ Leftovers
  /\ "packages" \in Pipeline[6].gives \ Leftovers
  /\ "greetd" \in Pipeline[7].gives \ Leftovers
  /\ "accounts" \in Pipeline[10].gives \ Leftovers
  /\ "components" \in Pipeline[12].gives \ Leftovers
  /\ "layout" \in Pipeline[13].gives \ Leftovers
  /\ "commands" \in Pipeline[14].gives \ Leftovers
  /\ "xms_contract" \in Pipeline[17].gives \ Leftovers
  /\ "ipc_membership" \in Pipeline[18].gives \ Leftovers
  /\ "local_integration" \in Pipeline[19].gives \ Leftovers
  /\ "vpn_admin" \in Pipeline[21].gives \ Leftovers
  /\ "update_admin" \in Pipeline[28].gives \ Leftovers
<1>1. /\ "installer" \in WriteInstaller.gives \ Leftovers
      /\ "language_helpers" \in WriteLanguageTools.gives \ Leftovers
      /\ "language_sync" \in WriteLanguageTools.gives \ Leftovers
      /\ "packages" \in InstallPackages.gives \ Leftovers
      /\ "greetd" \in ApplyKioskStack.gives \ Leftovers
      /\ "accounts" \in Accounts.gives \ Leftovers
      /\ "components" \in InstallComponents.gives \ Leftovers
      /\ "layout" \in ComponentLayout.gives \ Leftovers
      /\ "commands" \in CommandAliases.gives \ Leftovers
      /\ "xms_contract" \in EnrollmentContract.gives \ Leftovers
      /\ "ipc_membership" \in IpcMembership.gives \ Leftovers
      /\ "local_integration" \in IntegrateLocally.gives \ Leftovers
      /\ "vpn_admin" \in VpnAdministration.gives \ Leftovers
      /\ "update_admin" \in UpdateArchitecture.gives \ Leftovers
  BY DEF
    Leftovers, Step, Write, Test, Remove, WriteInstaller, WriteLanguageTools, InstallPackages,
    ApplyKioskStack, Accounts, InstallComponents, ComponentLayout, CommandAliases,
    EnrollmentContract, IpcMembership, IntegrateLocally, VpnAdministration, UpdateArchitecture,
    GraphicalStack, Compositor, SessionManager, ThinClientLauncher, SessionSupervisor,
    XmsContract, LocalIntegration, UpdateModel, ReleaseManifest, TransactionalUpdate,
    PackageRollback
<1> QED
  BY <1>1, PipelineIs

\* What a step asks for is Debian itself, what an earlier step has brought, or
\* the staged packages; and those are asked for by the twelfth.
Earlier(i) == UNION {Pipeline[j].gives \ Leftovers : j \in 1 .. i - 1}
Asked(step) == step.needs \ {"staged_debs", "debian"}
Stages(step) == "staged_debs" \in step.needs

LEMMA NeedsAreProvided ==
  ASSUME NEW i \in 1 .. Last
  PROVE  Asked(Pipeline[i]) \subseteq Earlier(i) /\ (Stages(Pipeline[i]) => i = 12)
<1>1. i \in 1 .. 44
  BY PipelineIs
<1>2. /\ (i > 3 => "installer" \in Earlier(i))
      /\ (i > 4 => "language_helpers" \in Earlier(i))
      /\ (i > 4 => "language_sync" \in Earlier(i)) /\ (i > 6 => "packages" \in Earlier(i))
      /\ (i > 7 => "greetd" \in Earlier(i)) /\ (i > 10 => "accounts" \in Earlier(i))
      /\ (i > 12 => "components" \in Earlier(i)) /\ (i > 13 => "layout" \in Earlier(i))
      /\ (i > 14 => "commands" \in Earlier(i)) /\ (i > 17 => "xms_contract" \in Earlier(i))
      /\ (i > 18 => "ipc_membership" \in Earlier(i))
      /\ (i > 19 => "local_integration" \in Earlier(i))
      /\ (i > 21 => "vpn_admin" \in Earlier(i)) /\ (i > 28 => "update_admin" \in Earlier(i))
  BY <1>1, Providers DEF Earlier
<1>3. /\ (i = 1 => Asked(WriteSettings) \subseteq Earlier(i))
      /\ (i = 2 => Asked(ConfigureCursor) \subseteq Earlier(i))
      /\ (i = 3 => Asked(WriteInstaller) \subseteq Earlier(i))
      /\ (i = 4 => Asked(WriteLanguageTools) \subseteq Earlier(i))
      /\ (i = 5 => Asked(StageComponents) \subseteq Earlier(i))
      /\ (i = 6 => Asked(InstallPackages) \subseteq Earlier(i))
      /\ (i = 7 => Asked(ApplyKioskStack) \subseteq Earlier(i))
      /\ (i = 8 => Asked(BootSplash) \subseteq Earlier(i))
      /\ (i = 9 => Asked(Locales) \subseteq Earlier(i))
      /\ (i = 10 => Asked(Accounts) \subseteq Earlier(i))
      /\ (i = 11 => Asked(CertificateStore) \subseteq Earlier(i))
  BY <1>1, <1>2 DEF Asked, Gate,
      Step, Write, Test, Remove, WriteSettings, ConfigureCursor, WriteInstaller,
      WriteLanguageTools, StageComponents, InstallPackages, ApplyKioskStack, BootSplash,
      Locales, Accounts, CertificateStore
<1>4. /\ (i = 12 => Asked(InstallComponents) \subseteq Earlier(i))
      /\ (i = 13 => Asked(ComponentLayout) \subseteq Earlier(i))
      /\ (i = 14 => Asked(CommandAliases) \subseteq Earlier(i))
      /\ (i = 15 => Asked(VerifyComponents) \subseteq Earlier(i))
      /\ (i = 16 => Asked(VerifyAgent) \subseteq Earlier(i))
      /\ (i = 17 => Asked(EnrollmentContract) \subseteq Earlier(i))
      /\ (i = 18 => Asked(IpcMembership) \subseteq Earlier(i))
      /\ (i = 19 => Asked(IntegrateLocally) \subseteq Earlier(i))
      /\ (i = 20 => Asked(VerifyThinClient) \subseteq Earlier(i))
      /\ (i = 21 => Asked(VpnAdministration) \subseteq Earlier(i))
      /\ (i = 22 => Asked(StartupOrder) \subseteq Earlier(i))
  BY <1>1, <1>2 DEF Asked, Gate,
      Step, Write, Test, Remove, InstallComponents, ComponentLayout, CommandAliases,
      VerifyComponents, VerifyAgent, EnrollmentContract, IpcMembership, IntegrateLocally,
      VerifyThinClient, VpnAdministration, StartupOrder
<1>5. /\ (i = 23 => Asked(VpnPermissions) \subseteq Earlier(i))
      /\ (i = 24 => Asked(KernelResources) \subseteq Earlier(i))
      /\ (i = 25 => Asked(NetworkHardening) \subseteq Earlier(i))
      /\ (i = 26 => Asked(ServiceHardening) \subseteq Earlier(i))
      /\ (i = 27 => Asked(Block9Gate) \subseteq Earlier(i))
      /\ (i = 28 => Asked(UpdateArchitecture) \subseteq Earlier(i))
      /\ (i = 29 => Asked(BaseOsUpdate) \subseteq Earlier(i))
      /\ (i = 30 => Asked(Maintenance) \subseteq Earlier(i))
      /\ (i = 31 => Asked(Recovery) \subseteq Earlier(i))
      /\ (i = 32 => Asked(Block10Gate) \subseteq Earlier(i))
      /\ (i = 33 => Asked(TimeSync) \subseteq Earlier(i))
  BY <1>1, <1>2 DEF Asked, Gate,
      Step, Write, Test, Remove, VpnPermissions, KernelResources, NetworkHardening,
      ServiceHardening, Block9Gate, UpdateArchitecture, BaseOsUpdate, Maintenance, Recovery,
      Block10Gate, TimeSync
<1>6. /\ (i = 34 => Asked(OpenVpnNetwork) \subseteq Earlier(i))
      /\ (i = 35 => Asked(IconTheme) \subseteq Earlier(i))
      /\ (i = 36 => Asked(GtkTheme) \subseteq Earlier(i))
      /\ (i = 37 => Asked(ClientTheme) \subseteq Earlier(i))
      /\ (i = 38 => Asked(ProductionRuntime) \subseteq Earlier(i))
      /\ (i = 39 => Asked(ReleaseMarker) \subseteq Earlier(i))
      /\ (i = 40 => Asked(DisableGenericAutostart) \subseteq Earlier(i))
      /\ (i = 41 => Asked(EnableTargets) \subseteq Earlier(i))
      /\ (i = 42 => Asked(VerifyBlock7) \subseteq Earlier(i))
      /\ (i = 43 => Asked(CleanCache) \subseteq Earlier(i))
      /\ (i = 44 => Asked(LiftServiceBan) \subseteq Earlier(i))
  BY <1>1, <1>2 DEF Asked, Gate,
      Step, Write, Test, Remove, OpenVpnNetwork, IconTheme, GtkTheme, ClientTheme,
      ProductionRuntime, ReleaseMarker, DisableGenericAutostart, EnableTargets, VerifyBlock7,
      CleanCache, LiftServiceBan
<1>7. /\ ~Stages(WriteSettings) /\ ~Stages(ConfigureCursor) /\ ~Stages(WriteInstaller)
      /\ ~Stages(WriteLanguageTools) /\ ~Stages(StageComponents) /\ ~Stages(InstallPackages)
      /\ ~Stages(ApplyKioskStack) /\ ~Stages(BootSplash) /\ ~Stages(Locales)
      /\ ~Stages(Accounts) /\ ~Stages(CertificateStore) /\ ~Stages(ComponentLayout)
      /\ ~Stages(CommandAliases) /\ ~Stages(VerifyComponents) /\ ~Stages(VerifyAgent)
      /\ ~Stages(EnrollmentContract) /\ ~Stages(IpcMembership) /\ ~Stages(IntegrateLocally)
      /\ ~Stages(VerifyThinClient) /\ ~Stages(VpnAdministration) /\ ~Stages(StartupOrder)
      /\ ~Stages(VpnPermissions) /\ ~Stages(KernelResources) /\ ~Stages(NetworkHardening)
      /\ ~Stages(ServiceHardening) /\ ~Stages(Block9Gate) /\ ~Stages(UpdateArchitecture)
      /\ ~Stages(BaseOsUpdate) /\ ~Stages(Maintenance) /\ ~Stages(Recovery)
      /\ ~Stages(Block10Gate) /\ ~Stages(TimeSync) /\ ~Stages(OpenVpnNetwork)
      /\ ~Stages(IconTheme) /\ ~Stages(GtkTheme) /\ ~Stages(ClientTheme)
      /\ ~Stages(ProductionRuntime) /\ ~Stages(ReleaseMarker)
      /\ ~Stages(DisableGenericAutostart) /\ ~Stages(EnableTargets) /\ ~Stages(VerifyBlock7)
      /\ ~Stages(CleanCache) /\ ~Stages(LiftServiceBan)
  BY DEF Stages, Gate,
    Step, Write, Test, Remove, WriteSettings, ConfigureCursor, WriteInstaller,
    WriteLanguageTools, StageComponents, InstallPackages, ApplyKioskStack, BootSplash, Locales,
    Accounts, CertificateStore, ComponentLayout, CommandAliases, VerifyComponents, VerifyAgent,
    EnrollmentContract, IpcMembership, IntegrateLocally, VerifyThinClient, VpnAdministration,
    StartupOrder, VpnPermissions, KernelResources, NetworkHardening, ServiceHardening,
    Block9Gate, UpdateArchitecture, BaseOsUpdate, Maintenance, Recovery, Block10Gate, TimeSync,
    OpenVpnNetwork, IconTheme, GtkTheme, ClientTheme, ProductionRuntime, ReleaseMarker,
    DisableGenericAutostart, EnableTargets, VerifyBlock7, CleanCache, LiftServiceBan
<1> QED
  BY <1>1, <1>3, <1>4, <1>5, <1>6, <1>7, PipelineIs

\* One step wants something gone.
DeniesNothing(step) == step.denies = {}

LEMMA Denials ==
  /\ Pipeline[29].denies = {"apt_timers"}
  /\ \A i \in 1 .. Last \ {29} : DeniesNothing(Pipeline[i])
<1>1. /\ DeniesNothing(WriteSettings) /\ DeniesNothing(ConfigureCursor)
      /\ DeniesNothing(WriteInstaller) /\ DeniesNothing(WriteLanguageTools)
      /\ DeniesNothing(StageComponents) /\ DeniesNothing(InstallPackages)
      /\ DeniesNothing(ApplyKioskStack) /\ DeniesNothing(BootSplash)
      /\ DeniesNothing(Locales) /\ DeniesNothing(Accounts)
      /\ DeniesNothing(CertificateStore) /\ DeniesNothing(InstallComponents)
      /\ DeniesNothing(ComponentLayout) /\ DeniesNothing(CommandAliases)
      /\ DeniesNothing(VerifyComponents) /\ DeniesNothing(VerifyAgent)
      /\ DeniesNothing(EnrollmentContract) /\ DeniesNothing(IpcMembership)
      /\ DeniesNothing(IntegrateLocally) /\ DeniesNothing(VerifyThinClient)
      /\ DeniesNothing(VpnAdministration) /\ DeniesNothing(StartupOrder)
      /\ DeniesNothing(VpnPermissions) /\ DeniesNothing(KernelResources)
      /\ DeniesNothing(NetworkHardening) /\ DeniesNothing(ServiceHardening)
      /\ DeniesNothing(Block9Gate) /\ DeniesNothing(UpdateArchitecture)
      /\ DeniesNothing(Maintenance) /\ DeniesNothing(Recovery) /\ DeniesNothing(Block10Gate)
      /\ DeniesNothing(TimeSync) /\ DeniesNothing(OpenVpnNetwork)
      /\ DeniesNothing(IconTheme) /\ DeniesNothing(GtkTheme) /\ DeniesNothing(ClientTheme)
      /\ DeniesNothing(ProductionRuntime) /\ DeniesNothing(ReleaseMarker)
      /\ DeniesNothing(DisableGenericAutostart) /\ DeniesNothing(EnableTargets)
      /\ DeniesNothing(VerifyBlock7) /\ DeniesNothing(CleanCache)
      /\ DeniesNothing(LiftServiceBan)
  BY DEF DeniesNothing,
    Step, Write, Test, Remove, WriteSettings, ConfigureCursor, WriteInstaller,
    WriteLanguageTools, StageComponents, InstallPackages, ApplyKioskStack, BootSplash, Locales,
    Accounts, CertificateStore, InstallComponents, ComponentLayout, CommandAliases,
    VerifyComponents, VerifyAgent, EnrollmentContract, IpcMembership, IntegrateLocally,
    VerifyThinClient, VpnAdministration, StartupOrder, VpnPermissions, KernelResources,
    NetworkHardening, ServiceHardening, Block9Gate, UpdateArchitecture, Maintenance, Recovery,
    Block10Gate, TimeSync, OpenVpnNetwork, IconTheme, GtkTheme, ClientTheme, ProductionRuntime,
    ReleaseMarker, DisableGenericAutostart, EnableTargets, VerifyBlock7, CleanCache,
    LiftServiceBan
<1>2. BaseOsUpdate.denies = {"apt_timers"}
  BY DEF Step, BaseOsUpdate
<1> HIDE DEF DeniesNothing
<1>3. \A i \in 1 .. Last \ {29} : DeniesNothing(Pipeline[i])
  BY <1>1, PipelineIs
<1> QED
  BY <1>2, <1>3, PipelineIs

-----------------------------------------------------------------------------
(* What a pass does to the root file system. *)

LEMMA StepsTake ==
  ASSUME NEW i \in 1 .. Last
  PROVE  /\ Pipeline[i].takes \subseteq Swept /\ Pipeline[i].fresh \subseteq Swept
         /\ Pipeline[i].gives \cap Leftovers \subseteq Swept
<1>1. i \in {1, 5, 6, 12} \/ i \in 1 .. Last \ {1, 5, 6, 12}
  OBVIOUS
<1>2. CASE i \in {1, 5, 6, 12}
  BY <1>2, UntidySteps DEF Swept, Leftovers
<1>3. CASE i \in 1 .. Last \ {1, 5, 6, 12}
  BY <1>3, TidySteps DEF Tidy
<1> QED
  BY <1>1, <1>2, <1>3

\* What a step clears away no later one brings back.
LEMMA SweptStaysAway ==
  ASSUME NEW j \in 6 .. Last, NEW k \in j .. Last
  PROVE  Pipeline[j].takes \cap (Pipeline[k].gives \cup Pipeline[k].fresh) = {}
<1>1. j \in 6 .. 44 /\ k \in j .. 44 /\ Last = 44
  BY PipelineIs
<1>2. Pipeline[j].takes \subseteq Leftovers
  BY <1>1, StepsTake DEF Swept
<1>3. CASE k \notin {6, 12}
  <2>1. Tidy(Pipeline[k])
    BY <1>1, <1>3, TidySteps
  <2> QED BY <1>2, <2>1 DEF Tidy
<1>4. CASE k = 6
  <2>1. j = 6
    BY <1>1, <1>4
  <2> QED BY <1>2, <1>4, <2>1, UntidySteps
<1>5. CASE k = 12
  <2>1. j \in 7 .. 11 \/ j = 6 \/ j = 12
    BY <1>1, <1>5
  <2>2. Pipeline[j].takes \subseteq {"half"}
    BY <2>1, TakeNothing, Takers
  <2> QED BY <1>2, <1>5, <2>2, UntidySteps
<1> QED
  BY <1>3, <1>4, <1>5

LEMMA AllIsSwept ==
  ASSUME NEW x \in Swept
  PROVE  \E j \in 6 .. Last : x \in Pipeline[j].takes
BY PipelineIs, Takers DEF Swept, Leftovers

\* The facts that hold before the i-th step of a pass.
Passed(facts, i) ==
  /\ "debian" \in facts
  /\ \A j \in 1 .. i - 1 : Pipeline[j].gives \ Leftovers \subseteq facts
  /\ \A j \in 6 .. i - 1 : Pipeline[j].takes \cap facts = {}

\* Whatever becomes of a command, it takes away nothing of the product.
LEMMA CommandsKeep ==
  ASSUME NEW o \in 1 .. Last, NEW facts,
         NEW f \in CutShort(Pipeline[o], facts) \cup {Effect(Pipeline[o], facts), facts}
  PROVE  facts \ Swept \subseteq f
<1> DEFINE step == Pipeline[o]
<1>1. step.takes \subseteq Swept
  BY StepsTake
<1> HIDE DEF step
<1>2. facts \ Swept \subseteq Effect(step, facts)
  BY <1>1 DEF Effect
<1>3. ASSUME f \in CutShort(step, facts) PROVE facts \ Swept \subseteq f
  <2>1. CASE step.fresh = {}
    <3>1. PICK g \in SUBSET step.gives, t \in {{}, step.takes} : f = (facts \ t) \cup g
      BY <1>3, <2>1 DEF CutShort
    <3> QED BY <1>1, <3>1
  <2>2. CASE step.fresh # {}
    <3>1. PICK g \in SUBSET step.fresh : f = facts \cup g \cup {"half"}
      BY <1>3, <2>2 DEF CutShort
    <3> QED BY <3>1
  <2> QED BY <2>1, <2>2
<1> QED
  BY <1>2, <1>3 DEF step

LEMMA DebianStays == "debian" \notin Leftovers /\ "debian" \notin Swept /\ Swept \subseteq Leftovers
BY DEF Swept, Leftovers

\* A step that has run is passed.
LEMMA StepPasses ==
  ASSUME NEW i \in 1 .. Last, NEW facts, Passed(facts, i)
  PROVE  Passed(Effect(Pipeline[i], facts), i + 1)
<1> DEFINE step == Pipeline[i]
           e == Effect(step, facts)
<1>1. i \in Nat /\ i > 0 /\ Last \in Nat
  BY PipelineIs
<1>2. facts \ Swept \subseteq e
  BY CommandsKeep
<1>3. /\ step.gives \subseteq e
      /\ e \subseteq (facts \ step.takes) \cup step.gives \cup step.fresh
  BY DEF Effect
<1>4. \A j \in 6 .. i : Pipeline[j].takes \cap (step.gives \cup step.fresh) = {}
  BY <1>1, SweptStaysAway
<1> HIDE DEF e
<1>5. "debian" \in e
  BY <1>2, DebianStays DEF Passed
<1>6. \A j \in 1 .. i : Pipeline[j].gives \ Leftovers \subseteq e
  <2> SUFFICES ASSUME NEW j \in 1 .. i PROVE Pipeline[j].gives \ Leftovers \subseteq e
    OBVIOUS
  <2>1. CASE j = i
    BY <1>3, <2>1
  <2>2. CASE j # i
    <3>1. j \in 1 .. i - 1
      BY <1>1, <2>2
    <3> QED BY <1>2, <3>1, DebianStays DEF Passed
  <2> QED BY <2>1, <2>2
<1>7. \A j \in 6 .. i : Pipeline[j].takes \cap e = {}
  <2> SUFFICES ASSUME NEW j \in 6 .. i PROVE Pipeline[j].takes \cap e = {}
    OBVIOUS
  <2>1. CASE j = i
    BY <1>3, <1>4, <2>1
  <2>2. CASE j # i
    <3>1. j \in 6 .. i - 1
      BY <1>1, <2>2
    <3> QED BY <1>3, <1>4, <3>1 DEF Passed
  <2> QED BY <2>1, <2>2
<1>8. i + 1 - 1 = i
  BY <1>1
<1> QED
  BY <1>5, <1>6, <1>7, <1>8 DEF Passed, e

\* No step brings a short base, and the staged packages are there until the
\* cache is cleaned.
LEMMA StepLeaves ==
  ASSUME NEW i \in 1 .. Last, NEW facts
  PROVE  /\ "short_base" \notin facts => "short_base" \notin Effect(Pipeline[i], facts)
         /\ "staged_debs" \in facts /\ i # 43 => "staged_debs" \in Effect(Pipeline[i], facts)
         /\ i = 5 => "staged_debs" \in Effect(Pipeline[i], facts)
<1>1. "short_base" \notin Pipeline[i].gives \cup Pipeline[i].fresh
  <2>1. "short_base" \in Leftovers /\ "short_base" \notin Swept
    BY DEF Leftovers, Swept
  <2> QED BY <2>1, StepsTake
<1>2. i # 43 => "staged_debs" \notin Pipeline[i].takes
  <2>1. i \in 1 .. 44
    BY PipelineIs
  <2>2. CASE i \in 1 .. 42 \ {6, 12, 13, 24, 34, 38, 40}
    BY <2>2, TakeNothing
  <2>3. CASE i \in {6, 12, 13, 24, 34, 38, 40, 44}
    BY <2>3, Takers
  <2> QED BY <2>1, <2>2, <2>3
<1>3. i = 5 => "staged_debs" \in Pipeline[i].gives
  BY UntidySteps
<1> QED
  BY <1>1, <1>2, <1>3 DEF Effect

\* A pass that has come to its end leaves the product.
LEMMA PassedIsProduct ==
  ASSUME NEW facts \in SUBSET Facts, Passed(facts, Last + 1)
  PROVE  facts \ {"short_base"} = Product
<1>1. /\ "debian" \in facts
      /\ \A j \in 1 .. Last : Pipeline[j].gives \ Leftovers \subseteq facts
      /\ \A j \in 6 .. Last : Pipeline[j].takes \cap facts = {}
  <2>1. Last = 44
    BY PipelineIs
  <2>2. Passed(facts, 45)
    BY <2>1
  <2>3. 45 - 1 = 44
    OBVIOUS
  <2> QED BY <2>1, <2>2, <2>3 DEF Passed
<1>2. ASSUME NEW x \in facts, x # "short_base" PROVE x \in Product
  <2>1. x \notin Swept
    BY <1>1, AllIsSwept
  <2>2. x \notin Leftovers
    BY <1>2, <2>1 DEF Swept
  <2>3. x \in Facts /\ "half" \in Leftovers /\ "apt_timers" \in Leftovers
    BY DEF Leftovers
  <2>4. x = "debian" \/ \E j \in 1 .. Last : x \in Pipeline[j].gives \cup Pipeline[j].fresh
    BY <1>2, <2>2, <2>3 DEF Facts, Bootstrap
  <2>5. x = "debian" \/ \E j \in 1 .. Last : x \in Pipeline[j].gives
    BY <2>1, <2>4, StepsTake
  <2> QED BY <2>2, <2>5 DEF Product
<1>3. ASSUME NEW x \in Product PROVE x \in facts /\ x # "short_base"
  <2>1. x \notin Leftovers /\ (x = "debian" \/ \E j \in 1 .. Last : x \in Pipeline[j].gives)
    BY <1>3 DEF Product
  <2>2. "short_base" \in Leftovers
    BY DEF Leftovers
  <2> QED BY <1>1, <2>1, <2>2
<1> QED
  BY <1>2, <1>3

\* A step whose turn has come finds what it asks for, the staged packages apart.
LEMMA StepFinds ==
  ASSUME NEW i \in 1 .. Last, NEW facts, Passed(facts, i),
         i = 12 => "staged_debs" \in facts
  PROVE  Possible(Pipeline[i], facts)
<1>1. i \in 1 .. 44 /\ Last = 44
  BY PipelineIs
<1>2. Asked(Pipeline[i]) \subseteq Earlier(i) /\ (Stages(Pipeline[i]) => i = 12)
  BY NeedsAreProvided
<1>3. Earlier(i) \subseteq facts
  BY DEF Earlier, Passed
<1>4. Pipeline[i].needs \subseteq facts
  BY <1>2, <1>3 DEF Asked, Stages, Passed
<1>5. Pipeline[i].denies \cap facts = {}
  <2>1. CASE i = 29
    <3>1. 24 \in 6 .. i - 1
      BY <2>1
    <3>2. Pipeline[24].takes \cap facts = {}
      BY <3>1 DEF Passed
    <3> QED BY <2>1, <3>2, Takers, Denials
  <2>2. CASE i # 29
    BY <2>2, Denials DEF DeniesNothing
  <2> QED BY <2>1, <2>2
<1> QED
  BY <1>4, <1>5 DEF Possible

-----------------------------------------------------------------------------
(* phase_configure converges, and misses nothing. *)

LEMMA ChrootIs == \A i \in Nat : UsesChroot(i) <=> i > 5 /\ i < 44
BY PreparationIs, PipelineIs DEF UsesChroot

\* In a pass the steps so far have been passed, and the command of a killed
\* builder is over before the first of them works in the chroot.  Nothing is
\* known of a pass beside a debootstrap.
Pass ==
  /\ mounted => orphan = 0
  /\ In("configure") /\ at > 0 /\ ~stray =>
       /\ at > 6 => orphan = 0
       /\ Passed(rootfs, at)
       /\ ~beside => orphan = 0 /\ (at \in 6 .. 43 => "staged_debs" \in rootfs)

LEMMA PassInit == Init => Pass
BY Zenon DEF Init, Pass, In, Idle

\* Where no pass is under way.
LEMMA NoPass ==
  ASSUME mounted' => orphan' = 0, ~(In("configure")' /\ at' > 0 /\ ~stray')
  PROVE  Pass'
BY Zenon DEF Pass

\* A phase that is over, or an invocation.
LEMMA PassOver ==
  ASSUME Typed, ~Idle, NextPhase, mounted' => orphan' = 0
  PROVE  Pass'
<1>1. at' = 0
  BY DEF NextPhase
<1> QED
  BY <1>1, NoPass

\* A pass that goes on where it was.
LEMMA PassStays ==
  ASSUME Pass, mounted' => orphan' = 0, orphan = 0 => orphan' = 0,
         UNCHANGED <<rootfs, todo, at, beside, stray>>
  PROVE  Pass'
<1>1. In("configure")' <=> In("configure")
  BY DEF In, Idle
<1>2. rootfs' = rootfs /\ at' = at
  OBVIOUS
<1>3. ~beside' => ~beside
  BY Zenon
<1>4. ASSUME In("configure")', at' > 0, ~stray'
      PROVE  /\ at' > 6 => orphan' = 0
             /\ Passed(rootfs', at')
             /\ ~beside' => orphan' = 0 /\ (at' \in 6 .. 43 => "staged_debs" \in rootfs')
  <2>1. In("configure") /\ at > 0 /\ ~stray
    BY <1>1, <1>2, <1>4, Zenon
  <2>2. /\ at > 6 => orphan = 0
        /\ Passed(rootfs, at)
        /\ ~beside => orphan = 0 /\ (at \in 6 .. 43 => "staged_debs" \in rootfs)
    BY <2>1, Zenon DEF Pass
  <2>3. Passed(rootfs', at')
    BY <1>2, <2>2
  <2>4. at' > 6 => orphan' = 0
    BY <1>2, <2>2
  <2>5. ~beside' => orphan' = 0
    BY <1>3, <2>2, Zenon
  <2>6. ~beside' => (at \in 6 .. 43 => "staged_debs" \in rootfs)
    BY <1>3, <2>2, Zenon
  <2>7. ~beside' => (at' \in 6 .. 43 => "staged_debs" \in rootfs')
    BY <1>2, <2>6
  <2> QED BY <2>3, <2>4, <2>5, <2>7, Zenon
<1> QED
  BY <1>4, Zenon DEF Pass

\* A command of a killed builder has worked, or is stopped.
LEMMA PassBesideOrphan ==
  ASSUME Typed, Pass, orphan # 0, orphan' = 0, rootfs \ Swept \subseteq rootfs',
         UNCHANGED <<todo, at, beside, stray>>
  PROVE  Pass'
<1>1. In("configure")' = In("configure")
  BY DEF In, Idle
<1>2. ASSUME In("configure"), at > 0, ~stray
      PROVE  beside /\ at <= 6 /\ Passed(rootfs', at)
  <2>1. beside /\ ~(at > 6) /\ Passed(rootfs, at)
    BY <1>2, Zenon DEF Pass
  <2>2. at \in Nat /\ at <= 6
    BY <2>1, LastIsNatural DEF Typed
  <2>3. \A j \in 6 .. at - 1 : FALSE
    BY <2>2
  <2>4. Passed(rootfs', at)
    BY <2>1, <2>3, DebianStays DEF Passed
  <2> QED BY <2>1, <2>2, <2>4
<1>3. ASSUME In("configure")', at' > 0, ~stray'
      PROVE  Passed(rootfs', at') /\ beside'
  BY <1>1, <1>2, <1>3, Zenon
<1> QED
  BY <1>3, Zenon DEF Pass

LEMMA OrphanKeeps ==
  ASSUME Typed, orphan # 0, NEW f,
         \/ f \in Stopped
         \/ f = IF orphan = Initramfs THEN rootfs ELSE Effect(Pipeline[orphan], rootfs)
  PROVE  rootfs \ Swept \subseteq f
<1>1. CASE f = rootfs
  BY <1>1
<1>2. CASE f # rootfs
  <2>1. orphan \in 1 .. Last
    BY <1>2, LastIsNatural DEF Stopped, Initramfs, Typed
  <2>2. f \in CutShort(Pipeline[orphan], rootfs) \cup {Effect(Pipeline[orphan], rootfs), rootfs}
    BY <1>2, <2>1 DEF Stopped
  <2> QED BY <2>1, <2>2, CommandsKeep
<1> QED
  BY <1>1, <1>2

LEMMA PassConfigureStep ==
  ASSUME Typed, Pass, ConfigureStep
  PROVE  Pass'
<1>1. /\ In("configure") /\ at > 0 /\ mounted = UsesChroot(at)
      /\ rootfs' = Effect(Pipeline[at], rootfs)
      /\ mounted' = mounted /\ orphan' = orphan
      /\ IF at = Last THEN NextPhase ELSE Go(at + 1)
  BY Zenon DEF ConfigureStep
<1>2. at \in 1 .. Last /\ Last = 44
  BY <1>1, LastIsNatural, PipelineIs DEF Typed
<1>3. mounted' => orphan' = 0
  BY <1>1, Zenon DEF Pass
<1>4. CASE at = Last
  <2>1. ~Idle /\ NextPhase
    BY <1>1, <1>4, Zenon DEF In
  <2> QED BY <1>3, <2>1, PassOver
<1>5. CASE at # Last /\ stray
  <2>1. stray'
    BY <1>1, <1>5, Zenon DEF Go
  <2> QED BY <1>3, <2>1, NoPass
<1>6. CASE at # Last /\ ~stray
  <2>1. at' = at + 1 /\ UNCHANGED <<todo, beside>>
    BY <1>1, <1>6, Zenon DEF Go
  <2>2. Passed(rootfs', at')
    <3>1. Passed(rootfs, at)
      BY <1>1, <1>6, Zenon DEF Pass
    <3> QED BY <1>1, <1>2, <2>1, <3>1, StepPasses
  <2>3. at' > 6 => orphan' = 0
    <3>1. CASE at > 6
      BY <1>1, <1>6, <3>1, Zenon DEF Pass
    <3>2. CASE at = 6
      <4>1. UsesChroot(at)
        BY <3>2, ChrootIs
      <4>2. mounted
        BY <1>1, <4>1, Zenon
      <4> QED BY <1>1, <4>2, Zenon DEF Pass
    <3> QED BY <1>2, <2>1, <3>1, <3>2
  <2>4. ~beside' => orphan' = 0 /\ (at' \in 6 .. 43 => "staged_debs" \in rootfs')
    <3>1. ~beside => orphan = 0 /\ (at \in 6 .. 43 => "staged_debs" \in rootfs)
      BY <1>1, <1>6, Zenon DEF Pass
    <3>2. ASSUME at' \in 6 .. 43
          PROVE  at = 5 \/ (at \in 6 .. 43 /\ at # 43)
      BY <1>2, <2>1, <3>2
    <3>3. ASSUME ~beside, at' \in 6 .. 43 PROVE "staged_debs" \in rootfs'
      <4>1. at = 5 \/ ("staged_debs" \in rootfs /\ at # 43)
        BY <3>1, <3>2, <3>3, Zenon
      <4> QED BY <1>1, <1>2, <4>1, StepLeaves
    <3>4. beside' = beside
      BY <2>1
    <3> QED BY <1>1, <3>1, <3>3, <3>4, Zenon
  <2> QED BY <1>3, <2>2, <2>3, <2>4, Zenon DEF Pass
<1> QED
  BY <1>4, <1>5, <1>6

LEMMA PassStep ==
  ASSUME Typed, BelowInv, Apart, Pass, [Next]_vars
  PROVE  Pass'
<1>1. mounted => orphan = 0
  BY Zenon DEF Pass
<1>2. CASE Invoke
  <2>1. at' = 0 /\ UNCHANGED <<mounted, orphan>>
    BY <1>2, Zenon DEF Invoke
  <2>2. mounted' => orphan' = 0
    BY <1>1, <2>1, Zenon
  <2>3. ~(at' > 0)
    BY <2>1
  <2> QED BY <2>2, <2>3, Zenon, NoPass
<1>3. CASE Clean \/ ClearRootfs
  <2>1. In("rootfs") /\ todo' = todo /\ orphan' = 0
    BY <1>3, Zenon DEF Clean, ClearRootfs, CleansUp, invocation, Go
  <2>2. ~In("configure")'
    BY <2>1 DEF In, Idle
  <2> QED BY <2>1, <2>2, NoPass, Zenon
<1>4. CASE BeginConfigure
  <2>1. /\ at' = 1 /\ UNCHANGED <<rootfs, mounted, orphan>>
        /\ "debian" \in rootfs /\ beside' = (orphan # 0)
    BY <1>4, Zenon DEF BeginConfigure
  <2>2. Passed(rootfs', at')
    BY <2>1 DEF Passed
  <2>3. ~(at' > 6) /\ at' \notin 6 .. 43
    BY <2>1
  <2>4. ~beside' => orphan' = 0
    BY <2>1, Zenon
  <2>5. mounted' => orphan' = 0
    BY <1>1, <2>1, Zenon
  <2> QED BY <2>2, <2>3, <2>4, <2>5, Zenon DEF Pass
<1>5. CASE ConfigureStep
  BY <1>5, PassConfigureStep
<1>6. CASE MountTrees
  <2>1. rootfs' \in Stopped /\ orphan' = 0 /\ UNCHANGED <<todo, at, beside, stray>>
    BY <1>6, Zenon DEF MountTrees, CleansUp, invocation
  <2>2. CASE orphan # 0
    <3>1. rootfs \ Swept \subseteq rootfs'
      BY <2>1, <2>2, OrphanKeeps
    <3> QED BY <2>1, <2>2, <3>1, PassBesideOrphan
  <2>3. CASE orphan = 0
    <3>1. rootfs' = rootfs
      BY <2>1, <2>3 DEF Stopped
    <3> QED BY <2>1, <3>1, PassStays
  <2> QED BY <2>2, <2>3
<1>7. CASE UnmountTrees \/ UNCHANGED vars
  <2>1. UNCHANGED <<rootfs, orphan, todo, at, beside, stray>> /\ (mounted' => mounted)
    <3>1. CASE UnmountTrees
      BY <3>1, Zenon DEF UnmountTrees, invocation
    <3>2. CASE UNCHANGED vars
      BY <3>2, Zenon DEF vars, invocation
    <3> QED BY <1>7, <3>1, <3>2, Zenon
  <2>2. (mounted' => orphan' = 0) /\ (orphan = 0 => orphan' = 0)
    BY <1>1, <2>1, Zenon
  <2> QED BY <2>1, <2>2, PassStays
<1>8. CASE Debootstrap \/ CopyKernel \/ InspectSquashfs \/ MakeIso \/ WriteManifest
  <2>1. ~Idle /\ NextPhase /\ UNCHANGED <<mounted, orphan>>
    BY <1>8, Zenon DEF Debootstrap, CopyKernel, InspectSquashfs, MakeIso, WriteManifest, In,
      artifacts
  <2>2. mounted' => orphan' = 0
    BY <1>1, <2>1, Zenon
  <2> QED BY <2>1, <2>2, PassOver
<1>9. CASE BuildInitramfs \/ RemoveSquashfs \/ MakeSquashfs \/ RemoveIso
  <2>1. In("boot") \/ In("squashfs") \/ In("iso")
    BY <1>9, Zenon DEF BuildInitramfs, RemoveSquashfs, MakeSquashfs, RemoveIso
  <2>2. todo' = todo
    BY <1>9, Zenon DEF BuildInitramfs, RemoveSquashfs, MakeSquashfs, RemoveIso, Go
  <2>3. ~In("configure")'
    BY <2>1, <2>2 DEF In, Idle
  <2>4. mounted' = mounted /\ (orphan' = 0 \/ orphan' = orphan)
    BY <1>9, Zenon DEF BuildInitramfs, RemoveSquashfs, CleansUp, MakeSquashfs, RemoveIso
  <2>5. mounted' => orphan' = 0
    BY <1>1, <2>4, Zenon
  <2> QED BY <2>3, <2>5, Zenon, NoPass
<1>10. CASE Refuse \/ Raise \/ Kill
  <2>1. End
    BY <1>10, Zenon DEF Refuse, Raise, Kill
  <2>2. ~mounted' /\ todo' = <<>>
    BY <2>1, Zenon DEF End
  <2>3. ~In("configure")'
    BY <2>2 DEF In, Idle
  <2> QED BY <2>2, <2>3, Zenon, NoPass
<1>11. CASE OrphanEnds
  <2>1. /\ orphan # 0 /\ orphan' = 0
        /\ rootfs' = IF orphan = Initramfs THEN rootfs ELSE Effect(Pipeline[orphan], rootfs)
        /\ UNCHANGED <<todo, at, beside, stray>>
    BY <1>11, Zenon DEF OrphanEnds, invocation
  <2>2. rootfs \ Swept \subseteq rootfs'
    BY <2>1, OrphanKeeps
  <2> QED BY <2>1, <2>2, PassBesideOrphan
<1>12. CASE StrapGoesOn
  <2>1. strap /\ UNCHANGED <<mounted, orphan, todo, stray>>
    BY <1>12, Zenon DEF StrapGoesOn, invocation
  <2>2. In("configure")' => stray'
    BY <2>1, Zenon DEF Apart, In, Idle
  <2> QED BY <1>1, <2>1, <2>2, Zenon, NoPass
<1> QED
  BY <1>2, <1>3, <1>4, <1>5, <1>6, <1>7, <1>8, <1>9, <1>10, <1>11, <1>12 DEF Next, BuildStep

\* What a pass that has not begun beside an orphan looks for is there.
LEMMA PassMissesNothing == Typed /\ Pass => NothingMissing
<1> SUFFICES ASSUME Typed, Pass, In("configure"), at > 0, ~beside, ~stray
             PROVE  Possible(Pipeline[at], rootfs)
  BY Zenon DEF NothingMissing
<1>1. Passed(rootfs, at) /\ (at \in 6 .. 43 => "staged_debs" \in rootfs)
  BY Zenon DEF Pass
<1>2. at \in 1 .. Last /\ (at = 12 => at \in 6 .. 43)
  BY LastIsNatural DEF Typed
<1> QED
  BY <1>1, <1>2, StepFinds

\* The last step of a pass leaves the product.
LEMMA LastStepConverges ==
  ASSUME Typed, Pass, ~stray, ConfigureStep, at = Last
  PROVE  rootfs' \ {"short_base"} = Product
<1>1. In("configure") /\ at > 0 /\ rootfs' = Effect(Pipeline[at], rootfs)
  BY Zenon DEF ConfigureStep
<1>2. Passed(rootfs, at) /\ at \in 1 .. Last /\ rootfs \in SUBSET Facts
  <2>1. Passed(rootfs, at)
    BY <1>1, Zenon DEF Pass
  <2> QED BY <1>1, <2>1, LastIsNatural DEF Typed
<1>3. Passed(rootfs', Last + 1) /\ rootfs' \in SUBSET Facts
  BY <1>1, <1>2, StepPasses, StepsLeaveFacts
<1> QED
  BY <1>3, PassedIsProduct

\* Nothing else ends phase_configure as if it had been done.
LEMMA OnlyTheLastStepEnds ==
  ASSUME Typed, [Next]_vars, Configuring(Last), todo' = Tail(todo), faults' = faults
  PROVE  ConfigureStep
<1>1. /\ In("configure") /\ at = Last /\ at # 0 /\ ~Idle
      /\ ~In("rootfs") /\ ~In("boot") /\ ~In("squashfs") /\ ~In("iso") /\ ~In("verify")
  BY LastIsNatural DEF Configuring, In
<1>2. todo' # todo
  <2>1. todo \in Seq(Phase) /\ todo # <<>>
    BY <1>1 DEF Typed, Idle
  <2> QED BY <2>1
<1>3. ~Invoke /\ ~Clean /\ ~ClearRootfs /\ ~Debootstrap
  BY <1>1, Zenon DEF Invoke, Clean, ClearRootfs, Debootstrap
<1>4. ~BeginConfigure
  BY <1>1, LastIsNatural DEF BeginConfigure, Configuring
<1>5. ~MountTrees /\ ~UnmountTrees /\ ~OrphanEnds /\ ~StrapGoesOn /\ vars' # vars
  BY <1>2 DEF MountTrees, UnmountTrees, OrphanEnds, StrapGoesOn, invocation, vars
<1>6. /\ ~BuildInitramfs /\ ~CopyKernel /\ ~RemoveSquashfs /\ ~MakeSquashfs /\ ~InspectSquashfs
      /\ ~RemoveIso /\ ~MakeIso /\ ~WriteManifest
  BY <1>1, Zenon DEF BuildInitramfs, CopyKernel, RemoveSquashfs, MakeSquashfs, InspectSquashfs,
    RemoveIso, MakeIso, WriteManifest
<1>7. ~Raise /\ ~Kill
  <2>1. faults' # faults + 1
    BY DEF Typed
  <2> QED BY <2>1, Zenon DEF Raise, Kill
<1>8. ~Refuse
  <2>1. Possible(Pipeline[at], rootfs)
    <3>1. LiftServiceBan.needs = {} /\ LiftServiceBan.denies = {}
      BY DEF LiftServiceBan, Remove, Step
    <3> QED BY <1>1, <3>1, PipelineIs DEF Possible
  <2>2. ~Configuring(0)
    BY <1>1 DEF Configuring
  <2> QED BY <1>1, <2>1, <2>2, Zenon DEF Refuse
<1> QED
  BY <1>3, <1>4, <1>5, <1>6, <1>7, <1>8, Zenon DEF Next, BuildStep

\* What the passes and the mounts rest on, with the types.
LEMMA BuildAlways == Spec => [](Typed /\ BelowInv /\ Apart /\ Pass)
<1>1. Init => Typed /\ BelowInv /\ Apart /\ Pass
  BY TypedInit, BelowInit, ApartInit, PassInit
<1>2. Typed /\ BelowInv /\ Apart /\ Pass /\ [Next]_vars => (Typed /\ BelowInv /\ Apart /\ Pass)'
  BY TypedStep, BelowStep, ApartStep, PassStep
<1> QED
  BY <1>1, <1>2, PTL DEF Spec

(***************************************************************************)
(* Every step of phase_configure finds what it tests or uses, over         *)
(* whatever earlier passes and killed builders have left, unless what a    *)
(* killed builder had started was still at work when the pass began.       *)
(***************************************************************************)
THEOREM NothingEverMissing == Spec => []NothingMissing
<1>1. Typed /\ BelowInv /\ Pass => NothingMissing
  BY PassMissesNothing
<1> QED
  BY BuildAlways, <1>1, PTL

(***************************************************************************)
(* phase_configure ends in the one product, wherever earlier passes were   *)
(* cut: only a short base, which debootstrap alone can mend, stays, and    *)
(* what a debootstrap at work beside the pass does to it.                  *)
(***************************************************************************)
THEOREM ConfigureAlwaysConverges == Spec => ConfigureConverges
<1>1. ASSUME Typed, BelowInv, Pass, [Next]_vars
      PROVE  [Configuring(Last) /\ todo' = Tail(todo) /\ faults' = faults
                  /\ ~stray
                => rootfs' \ {"short_base"} = Product]_vars
  <2>1. ASSUME Configuring(Last), todo' = Tail(todo), faults' = faults, ~stray
        PROVE  rootfs' \ {"short_base"} = Product
    <3>1. ConfigureStep /\ at = Last
      BY <1>1, <2>1, OnlyTheLastStepEnds DEF Configuring
    <3> QED BY <1>1, <2>1, <3>1, LastStepConverges
  <2> QED BY <2>1
<1> QED
  BY BuildAlways, <1>1, PTL DEF Spec, ConfigureConverges

-----------------------------------------------------------------------------
\* A build of all six phases: what is left to run after each of them.
AfterRootfs == <<"configure", "boot", "squashfs", "iso", "verify">>
AfterConfigure == <<"boot", "squashfs", "iso", "verify">>
AfterBoot == <<"squashfs", "iso", "verify">>
AfterSquashfs == <<"iso", "verify">>
AfterIso == <<"verify">>
AfterVerify == <<>>

LEMMA WhatIsLeft ==
  /\ Phases[1] = "rootfs" /\ Tail(Phases) = AfterRootfs
  /\ AfterRootfs[1] = "configure" /\ Tail(AfterRootfs) = AfterConfigure
  /\ AfterConfigure[1] = "boot" /\ Tail(AfterConfigure) = AfterBoot
  /\ AfterBoot[1] = "squashfs" /\ Tail(AfterBoot) = AfterSquashfs
  /\ AfterSquashfs[1] = "iso" /\ Tail(AfterSquashfs) = AfterIso
  /\ AfterIso[1] = "verify" /\ Tail(AfterIso) = AfterVerify
BY DEF Phases, AfterRootfs, AfterConfigure, AfterBoot,
  AfterSquashfs, AfterIso, AfterVerify

LEMMA TheyDiffer ==
  /\ Phases \notin {AfterRootfs, AfterConfigure, AfterBoot, AfterSquashfs, AfterIso, AfterVerify}
  /\ AfterRootfs \notin {AfterConfigure, AfterBoot, AfterSquashfs, AfterIso, AfterVerify}
  /\ AfterConfigure \notin {AfterBoot, AfterSquashfs, AfterIso, AfterVerify}
  /\ AfterBoot \notin {AfterSquashfs, AfterIso, AfterVerify}
  /\ AfterSquashfs \notin {AfterIso, AfterVerify}
  /\ AfterIso \notin {AfterVerify}
BY DEF Phases, AfterRootfs, AfterConfigure, AfterBoot,
  AfterSquashfs, AfterIso, AfterVerify

\* What this invocation makes, when nothing goes wrong.
Kernel == File(TRUE, {})
System == File(TRUE, Product)
Image == [file |-> File(TRUE, {}), boot |-> Kernel, squashfs |-> System]
Release == [run |-> run, iso |-> Image, squashfs |-> System]

LEMMA SameRun ==
  ASSUME run' = run
  PROVE  Kernel' = Kernel /\ System' = System /\ Image' = Image /\ Release' = Release
BY DEF Kernel, System, Image, Release, File

\* Between two phases of such a build, what the earlier ones made is there, of
\* this invocation and whole, and nothing else works on it any more.
OnItsWay ==
  /\ todo \in {Phases, AfterRootfs, AfterConfigure, AfterBoot, AfterSquashfs,
              AfterIso, AfterVerify}
  /\ todo # Phases => orphan = 0
  /\ todo = AfterRootfs => "short_base" \notin rootfs
  /\ todo \in {AfterConfigure, AfterBoot} => rootfs = Product
  /\ todo \in {AfterBoot, AfterSquashfs} => boot = Kernel
  /\ (todo = AfterBoot /\ at = 2) \/ todo \in {AfterSquashfs, AfterIso} => squashfs = System
  /\ todo \in {AfterIso, AfterVerify} => iso = Image
  /\ todo = AfterVerify => manifest = Release

LEMMA WhereItIs ==
  ASSUME OnItsWay
  PROVE  /\ In("rootfs") <=> todo = Phases
         /\ In("configure") <=> todo = AfterRootfs
         /\ In("boot") <=> todo = AfterConfigure
         /\ In("squashfs") <=> todo = AfterBoot
         /\ In("iso") <=> todo = AfterSquashfs
         /\ In("verify") <=> todo = AfterIso
BY WhatIsLeft, TheyDiffer DEF OnItsWay, In, Idle, AfterVerify

\* A step that changes no file and neither the phase nor the root file system.
LEMMA StaysOnItsWay ==
  ASSUME OnItsWay, run' = run, todo' = todo, UNCHANGED artifacts,
         rootfs' = rootfs \/ todo = Phases,
         orphan' = 0 \/ orphan' = orphan,
         at' # 2 \/ at' = at
  PROVE  OnItsWay'
BY TheyDiffer, SameRun DEF OnItsWay, artifacts

LEMMA OnItsWayInRootfs ==
  ASSUME Typed, BelowInv, OnItsWay, Clean \/ ClearRootfs \/ Debootstrap
  PROVE  OnItsWay'
<1>1. todo = Phases
  BY WhereItIs DEF Clean, ClearRootfs, Debootstrap
<1>2. CASE Clean \/ ClearRootfs
  <2>1. todo' = Phases
    BY <1>1, <1>2 DEF Clean, ClearRootfs, invocation, Go
  <2> QED BY <2>1, TheyDiffer DEF OnItsWay
<1>3. CASE Debootstrap
  <2>1. orphan' = 0
    BY <1>3 DEF Debootstrap, BelowInv, Quiet
  <2>2. todo' = AfterRootfs /\ "short_base" \notin rootfs'
    BY <1>1, <1>3, WhatIsLeft DEF Debootstrap, NextPhase, Bootstrap
  <2> QED BY <2>1, <2>2, TheyDiffer DEF OnItsWay
<1> QED
  BY <1>2, <1>3

LEMMA OnItsWayThroughConfigure ==
  ASSUME Typed, Pass, ~stray, OnItsWay, ConfigureStep
  PROVE  OnItsWay'
<1>1. /\ In("configure") /\ at > 0 /\ rootfs' = Effect(Pipeline[at], rootfs)
      /\ orphan' = orphan /\ (IF at = Last THEN NextPhase ELSE Go(at + 1))
  BY Zenon DEF ConfigureStep
<1>2. todo = AfterRootfs /\ at \in 1 .. Last
  BY <1>1, WhereItIs, LastIsNatural DEF Typed
<1>3. "short_base" \notin rootfs' /\ orphan' = 0
  BY <1>1, <1>2, StepLeaves, TheyDiffer DEF OnItsWay
<1>4. CASE at = Last
  <2>1. rootfs' \ {"short_base"} = Product
    BY <1>4, LastStepConverges
  <2>2. rootfs' = Product
    BY <1>3, <2>1
  <2>3. todo' = AfterConfigure
    BY <1>1, <1>2, <1>4, WhatIsLeft DEF NextPhase
  <2> QED BY <1>3, <2>2, <2>3, TheyDiffer DEF OnItsWay
<1>5. CASE at # Last
  <2>1. todo' = AfterRootfs
    BY <1>1, <1>2, <1>5 DEF Go
  <2> QED BY <1>3, <2>1, TheyDiffer DEF OnItsWay
<1> QED
  BY <1>4, <1>5

\* Nothing is left to stop below the root file system.
LEMMA NothingToStop ==
  ASSUME OnItsWay, todo # Phases, NEW f \in Stopped
  PROVE  f = rootfs
BY DEF OnItsWay, Stopped

LEMMA OnItsWayToTheSquashfs ==
  ASSUME Typed, OnItsWay,
         BuildInitramfs \/ CopyKernel \/ RemoveSquashfs \/ MakeSquashfs \/ InspectSquashfs
  PROVE  OnItsWay'
<1>1. CASE BuildInitramfs
  <2>1. /\ run' = run /\ todo' = todo /\ at' = 1 /\ rootfs' = rootfs /\ orphan' = orphan
        /\ UNCHANGED artifacts
    BY <1>1, Zenon DEF BuildInitramfs, Go
  <2> QED BY <2>1, StaysOnItsWay
<1>2. CASE CopyKernel
  <2>1. /\ In("boot") /\ NextPhase /\ boot' = Kernel /\ rootfs' = rootfs /\ orphan' = orphan
    BY <1>2, Zenon DEF CopyKernel, Kernel
  <2>2. /\ todo = AfterConfigure /\ todo' = AfterBoot /\ at' = 0 /\ run' = run
    BY <2>1, WhereItIs, WhatIsLeft DEF NextPhase
  <2> QED BY <2>1, <2>2, TheyDiffer, SameRun DEF OnItsWay
<1>3. CASE RemoveSquashfs
  <2>1. /\ In("squashfs") /\ at' = 1 /\ todo' = todo /\ run' = run /\ boot' = boot
        /\ rootfs' \in Stopped /\ orphan' = 0
    BY <1>3, Zenon DEF RemoveSquashfs, CleansUp, Go
  <2>2. todo = AfterBoot
    BY <2>1, WhereItIs
  <2>3. rootfs' = rootfs
    BY <2>1, <2>2, NothingToStop, TheyDiffer
  <2> QED BY <2>1, <2>2, <2>3, TheyDiffer, SameRun DEF OnItsWay
<1>4. CASE MakeSquashfs
  <2>1. /\ In("squashfs") /\ at' = 2 /\ todo' = todo /\ run' = run /\ boot' = boot
        /\ rootfs' = rootfs /\ orphan' = orphan /\ squashfs' = File(TRUE, rootfs)
    BY <1>4, Zenon DEF MakeSquashfs, Go
  <2>2. todo = AfterBoot
    BY <2>1, WhereItIs
  <2>3. squashfs' = System
    BY <2>1, <2>2 DEF OnItsWay, System
  <2> QED BY <2>1, <2>2, <2>3, TheyDiffer, SameRun DEF OnItsWay
<1>5. CASE InspectSquashfs
  <2>1. /\ In("squashfs") /\ at = 2 /\ NextPhase /\ UNCHANGED artifacts
        /\ rootfs' = rootfs /\ orphan' = orphan
    BY <1>5, Zenon DEF InspectSquashfs
  <2>2. /\ todo = AfterBoot /\ todo' = AfterSquashfs /\ run' = run
        /\ boot' = boot /\ squashfs' = squashfs
    BY <2>1, WhereItIs, WhatIsLeft DEF NextPhase, artifacts
  <2> QED BY <2>1, <2>2, TheyDiffer, SameRun DEF OnItsWay
<1> QED
  BY <1>1, <1>2, <1>3, <1>4, <1>5

LEMMA OnItsWayToTheRelease ==
  ASSUME Typed, OnItsWay, RemoveIso \/ MakeIso \/ WriteManifest
  PROVE  OnItsWay'
<1>1. CASE RemoveIso
  <2>1. /\ In("iso") /\ at' = 1 /\ todo' = todo /\ run' = run /\ boot' = boot
        /\ squashfs' = squashfs /\ orphan' = orphan
    BY <1>1, Zenon DEF RemoveIso, Go
  <2>2. todo = AfterSquashfs
    BY <2>1, WhereItIs
  <2> QED BY <2>1, <2>2, TheyDiffer, SameRun DEF OnItsWay
<1>2. CASE MakeIso
  <2>1. /\ In("iso") /\ NextPhase /\ squashfs' = squashfs /\ orphan' = orphan
        /\ iso' = [file |-> File(TRUE, {}), boot |-> boot, squashfs |-> squashfs]
    BY <1>2, Zenon DEF MakeIso
  <2>2. todo = AfterSquashfs /\ todo' = AfterIso /\ run' = run
    BY <2>1, WhereItIs, WhatIsLeft DEF NextPhase
  <2>3. iso' = Image
    BY <2>1, <2>2 DEF OnItsWay, Image
  <2> QED BY <2>1, <2>2, <2>3, TheyDiffer, SameRun DEF OnItsWay
<1>3. CASE WriteManifest
  <2>1. /\ In("verify") /\ NextPhase /\ iso' = iso /\ orphan' = orphan
        /\ manifest' = [run |-> run, iso |-> iso, squashfs |-> squashfs]
    BY <1>3, Zenon DEF WriteManifest
  <2>2. todo = AfterIso /\ todo' = AfterVerify /\ run' = run
    BY <2>1, WhereItIs, WhatIsLeft DEF NextPhase
  <2>3. manifest' = Release
    BY <2>1, <2>2 DEF OnItsWay, Release
  <2> QED BY <2>1, <2>2, <2>3, TheyDiffer, SameRun DEF OnItsWay
<1> QED
  BY <1>1, <1>2, <1>3

LEMMA FullInit == Init => (full /\ ~stray => OnItsWay)
BY Zenon DEF Init

LEMMA FullStep ==
  ASSUME Typed, BelowInv, Apart, Pass, full /\ ~stray => OnItsWay, [Next]_vars
  PROVE  full' /\ ~stray' => OnItsWay'
<1> SUFFICES ASSUME full', ~stray' PROVE OnItsWay'
  OBVIOUS
<1>1. CASE Invoke
  <2>1. todo' = Phases
    BY <1>1, Zenon DEF Invoke
  <2> QED BY <2>1, TheyDiffer DEF OnItsWay
<1>2. ~Refuse /\ ~Raise /\ ~Kill
  BY Zenon DEF Refuse, Raise, Kill, End
<1>3. CASE ~Invoke
  <2>1. full
    BY <1>2, <1>3, Zenon DEF Next, BuildStep, Clean, ClearRootfs, Debootstrap, BeginConfigure,
      ConfigureStep, MountTrees, UnmountTrees, BuildInitramfs, CopyKernel, RemoveSquashfs,
      MakeSquashfs, InspectSquashfs, RemoveIso, MakeIso, WriteManifest, OrphanEnds, StrapGoesOn,
      NextPhase, Go, vars, invocation
  <2>2. OnItsWay /\ ~stray
    <3>1. ~stray
      BY <1>2, <1>3, StrayStays, Zenon DEF Next, OrphanEnds, StrapGoesOn, vars, invocation
    <3> QED BY <2>1, <3>1, Zenon
  <2>3. CASE BeginConfigure
    <3>1. /\ run' = run /\ todo' = todo /\ at' = 1 /\ rootfs' = rootfs /\ orphan' = orphan
          /\ UNCHANGED artifacts
      BY <2>3, Zenon DEF BeginConfigure
    <3> QED BY <2>2, <3>1, StaysOnItsWay
  <2>4. CASE MountTrees
    <3>1. /\ In("configure") \/ In("boot")
          /\ rootfs' \in Stopped
          /\ orphan' = 0
          /\ UNCHANGED artifacts
          /\ UNCHANGED invocation
      BY <2>4, Zenon DEF MountTrees, CleansUp, NeedsMounts
    <3>2. todo # Phases
      BY <2>2, <3>1, WhereItIs, TheyDiffer
    <3>3. rootfs' = rootfs
      BY <2>2, <3>1, <3>2, NothingToStop
    <3> QED BY <2>2, <3>1, <3>3, StaysOnItsWay DEF invocation
  <2>5. CASE UnmountTrees \/ UNCHANGED vars
    <3>1. UNCHANGED <<rootfs, orphan, artifacts, invocation>>
      BY <2>5, Zenon DEF UnmountTrees, vars
    <3> QED BY <2>2, <3>1, StaysOnItsWay DEF invocation
  <2>6. CASE OrphanEnds
    <3>1. orphan # 0 /\ orphan' = 0 /\ UNCHANGED artifacts /\ UNCHANGED invocation
      BY <2>6, Zenon DEF OrphanEnds
    <3>2. todo = Phases
      BY <2>2, <3>1 DEF OnItsWay
    <3> QED BY <2>2, <3>1, <3>2, StaysOnItsWay DEF invocation
  <2>7. ~StrapGoesOn
    BY <2>1, <2>2, Zenon DEF StrapGoesOn, Apart
  <2> QED
    BY <1>2, <1>3, <2>1, <2>2, <2>3, <2>4, <2>5, <2>6, <2>7, OnItsWayInRootfs,
      OnItsWayThroughConfigure, OnItsWayToTheSquashfs, OnItsWayToTheRelease, Zenon DEF Next, BuildStep
<1> QED
  BY <1>1, <1>3

(***************************************************************************)
(* A build of all six phases that comes to its end has put into the image  *)
(* a kernel and a squashfs of its own making, the squashfs whole and of    *)
(* the finished product, and the manifest describes them; unless it began  *)
(* while a debootstrap of a killed builder was still at work.              *)
(***************************************************************************)
THEOREM FullBuildAlwaysShipsItself == Spec => []FullBuildShipsItself
<1>1. Init => (full /\ ~stray => OnItsWay)
  BY FullInit
<1>2. Typed /\ BelowInv /\ Apart /\ Pass /\ (full /\ ~stray => OnItsWay) /\ [Next]_vars
        => (full' /\ ~stray' => OnItsWay')
  BY FullStep
<1>3. (full /\ ~stray => OnItsWay) => FullBuildShipsItself
  <2> SUFFICES ASSUME OnItsWay, Idle
               PROVE  /\ iso.file = File(TRUE, {}) /\ iso.boot = File(TRUE, {})
                      /\ iso.squashfs = File(TRUE, Product)
                      /\ manifest = [run |-> run, iso |-> iso, squashfs |-> iso.squashfs]
    BY Zenon DEF FullBuildShipsItself
  <2>1. iso = Image /\ manifest = Release
    BY DEF OnItsWay, Idle, AfterVerify
  <2> QED BY <2>1 DEF Image, Release, Kernel, System
<1> QED
  BY BuildAlways, <1>1, <1>2, <1>3, PTL DEF Spec
=============================================================================
