---------------------- MODULE UpdateTransactionProofs ----------------------
(***************************************************************************)
(* Proofs about UpdateTransaction, for every set of components, versions,  *)
(* manifests and administrators and every value of the bounds.             *)
(*                                                                         *)
(* The inductive invariant, TypeInv, holds whatever the administrators do  *)
(* and whichever fault happens: it follows the lock holder through the     *)
(* code and says what it has made durable at each step.                    *)
(***************************************************************************)
EXTENDS UpdateTransaction, TLAPS

----------------------------------------------------------------------------
(* The invariant. *)

(* Steps of an update that come after its recovery point is complete. *)
AfterPoint == UpdatePcs \ {"stage", "mkpoint", "fillpoint"}

(* What the lock holder's place in the code says about its variables. *)
RunShape ==
  /\ pc = "idle" <=> holder = None
  /\ pc = "idle" => target = None /\ tx = 0
  /\ pc # "idle" => tx \in TxIds
  /\ pc \in UpdatePcs => target \in Manifests
  /\ pc \in AfterPoint => Ready(tx)
  /\ pc \in RollbackPcs \ {"rb_check"} => Ready(tx)
  /\ pc \in RollbackPcs /\ target # None => Ready(tx)
  /\ pc = "rb_block" => target # None
  /\ boot = "read" => readTx \in TxIds

(* A complete point holds versions and a manifest, and their .debs exist. *)
PointsShape ==
  \A t \in TxIds : Ready(t) =>
    /\ points[t].pkgs \in [Components -> Versions]
    /\ points[t].rel \in Manifests
    /\ DebsPresent(t)

(* The recorded transaction. *)
DiskShape ==
  /\ disk.status \in Interrupted => disk.tx \in TxIds /\ Ready(disk.tx)
  /\ pc \in {"stage", "mkpoint", "fillpoint", "begin"} => disk.status = "preparing"
  /\ pc = "prune" => disk.status = "confirmed"

(* The registry, as the steps up to the unpacking and after the rollback   *)
(* see it.                                                                 *)
BlockedShape ==
  /\ pc \in {"mkpoint", "fillpoint", "begin", "unpack"} => ~IsBlocked(target)
  /\ pc = "rb_record" /\ target # None => \E b \in blocked : b.tx = tx
  /\ RolledBackIsBlocked

TypeInv == TypeOK /\ RunShape /\ PointsShape /\ DiskShape /\ BlockedShape

----------------------------------------------------------------------------
(* The invariant holds initially and is kept by every action. *)

LEMMA TypeInvInit == Init => TypeInv
  BY ConstantsOK
     DEF Init, TypeInv, TypeOK, RunShape, PointsShape, DiskShape, BlockedShape,
         RolledBackIsBlocked, Ready, DebsPresent, IsBlocked, TxIds, Status, Interrupted,
         Point, NoPoint, UpdatePcs, RollbackPcs, AfterPoint

(* A copy cut short only adds a torn file where there was none. *)
LEMMA TearKeeps ==
  ASSUME TypeInv, MayTearCopy
  PROVE  /\ cache' \in [Components -> [Versions -> {"absent", "torn", "whole"}]]
         /\ \A c \in Components, v \in Versions :
              cache[c][v] # "absent" => cache'[c][v] = cache[c][v]
<1> USE DEF TypeInv, TypeOK
<1>1. CASE cache' = cache
  BY <1>1
<1>2. ASSUME cache' # cache
      PROVE  \E c \in Components, v \in Versions :
               cache[c][v] = "absent" /\ cache' = [cache EXCEPT ![c][v] = "torn"]
  <2>1. pc = "cache"
    BY <1>2 DEF MayTearCopy
  <2>2. target \in [Components -> Versions]
    BY <2>1, ConstantsOK DEF RunShape, UpdatePcs
  <2>3. QED
    BY <1>2, <2>2 DEF MayTearCopy
<1>3. ASSUME NEW c \in Components, NEW v \in Versions,
             cache[c][v] = "absent", cache' = [cache EXCEPT ![c][v] = "torn"]
      PROVE  /\ cache' \in [Components -> [Versions -> {"absent", "torn", "whole"}]]
             /\ \A d \in Components, w \in Versions :
                  cache[d][w] # "absent" => cache'[d][w] = cache[d][w]
  BY <1>3
<1>4. QED
  BY <1>1, <1>2, <1>3

(* Files that stay in the cache keep the recovery points usable. *)
LEMMA PointsKept ==
  ASSUME TypeInv, points' = points,
         \A c \in Components, v \in Versions :
           cache[c][v] # "absent" => cache'[c][v] = cache[c][v]
  PROVE  PointsShape'
<1> SUFFICES ASSUME NEW t \in TxIds, Ready(t)
             PROVE  /\ points[t].pkgs \in [Components -> Versions]
                    /\ points[t].rel \in Manifests
                    /\ \A c \in Components : cache'[c][points[t].pkgs[c]] # "absent"
  BY DEF PointsShape, Ready, DebsPresent
<1> QED
  BY DEF TypeInv, PointsShape, DebsPresent

(* dpkg --configure changes the flag of one package. *)
LEMMA ConfigureOne ==
  ASSUME installed \in [Components -> [ver : Versions, conf : BOOLEAN]],
         NEW c \in Components,
         installed' = [installed EXCEPT ![c] = [ver |-> @.ver, conf |-> TRUE]]
  PROVE  /\ installed' \in [Components -> [ver : Versions, conf : BOOLEAN]]
         /\ \A d \in Components : installed'[d].ver = installed[d].ver
         /\ \A d \in Components \ {c} : installed'[d] = installed[d]
         /\ installed'[c].conf
  OBVIOUS

(* Pruning keeps the transaction's own point, and makes none. *)
LEMMA PruneKeeps ==
  ASSUME TypeInv, PrunePoints
  PROVE  /\ points' \in [TxIds -> Point]
         /\ points'[tx] = points[tx]
         /\ \A t \in TxIds : points'[t].kind # "none" => points'[t] = points[t]
<1>1. tx \in TxIds /\ tx \in Retained(tx)
  BY DEF PrunePoints, TypeInv, RunShape, Retained
<1>2. points' = [t \in TxIds |-> IF t \in Retained(tx) THEN points[t] ELSE NoPoint]
  BY DEF PrunePoints
<1>3. NoPoint \in Point /\ NoPoint.kind = "none"
  BY DEF NoPoint, Point
<1>4. QED
  BY <1>1, <1>2, <1>3 DEF TypeInv, TypeOK

LEMMA TypeInvNext == TypeInv /\ [Next]_vars => TypeInv'
<1> SUFFICES ASSUME TypeInv, [Next]_vars PROVE TypeInv'
  OBVIOUS
<1> USE ConstantsOK
    DEF TypeInv, TypeOK, RunShape, PointsShape, DiskShape, BlockedShape,
        RolledBackIsBlocked, Ready, DebsPresent, IsBlocked, TxIds, Status, Interrupted,
        Point, UpdatePcs, RollbackPcs, AfterPoint, onDisk, run, waiting, bounds, vars
<1>1. ASSUME StageBundle PROVE TypeInv'
  BY <1>1 DEF StageBundle, Goto
<1>2. ASSUME MakePointDirectory PROVE TypeInv'
  <2>1. TypeOK'
    BY <1>2 DEF MakePointDirectory, Goto, EmptyDir, NoPoint
  <2>2. RunShape'
    BY <1>2 DEF MakePointDirectory, Goto, EmptyDir, NoPoint
  <2>3. PointsShape'
    BY <1>2 DEF MakePointDirectory, Goto, EmptyDir, NoPoint
  <2>4. DiskShape'
    BY <1>2 DEF MakePointDirectory, Goto, EmptyDir, NoPoint
  <2>5. BlockedShape'
    BY <1>2 DEF MakePointDirectory, Goto, EmptyDir, NoPoint
  <2>6. QED
    BY <2>1, <2>2, <2>3, <2>4, <2>5
<1>3. ASSUME FillPoint PROVE TypeInv'
  BY <1>3 DEF FillPoint, Goto, RollbackPossible
<1>4. ASSUME AbortUpdate PROVE TypeInv'
  BY <1>4 DEF AbortUpdate, Release
<1>5. ASSUME BeginInstall PROVE TypeInv'
  BY <1>5 DEF BeginInstall, Goto, Record
<1>6. ASSUME NEW c \in Components, UnpackPackage(c) PROVE TypeInv'
  BY <1>6 DEF UnpackPackage, Done, Goto
<1>7. ASSUME NEW c \in Components, ConfigurePackage(c) PROVE TypeInv'
  <2>1. TypeOK'
    <3>1. installed' \in [Components -> [ver : Versions, conf : BOOLEAN]]
      BY <1>7, ConfigureOne DEF ConfigurePackage
    <3>2. QED
      BY <1>7, <3>1 DEF ConfigurePackage, Done, Goto
  <2>2. RunShape'
    BY <1>7 DEF ConfigurePackage, Done, Goto
  <2>3. PointsShape'
    BY <1>7 DEF ConfigurePackage, Done, Goto
  <2>4. DiskShape'
    BY <1>7 DEF ConfigurePackage, Done, Goto
  <2>5. BlockedShape'
    BY <1>7 DEF ConfigurePackage, Done, Goto
  <2>6. QED
    BY <2>1, <2>2, <2>3, <2>4, <2>5
<1>8. ASSUME NEW c \in Components, CacheCandidate(c) PROVE TypeInv'
  BY <1>8 DEF CacheCandidate, Done, Goto
<1>9. ASSUME RestartChanged PROVE TypeInv'
  BY <1>9 DEF RestartChanged, Goto, Record
<1>10. ASSUME PassHealthCheck PROVE TypeInv'
  BY <1>10 DEF PassHealthCheck, Goto
<1>11. ASSUME PublishRelease PROVE TypeInv'
  BY <1>11 DEF PublishRelease, Goto
<1>12. ASSUME Confirm PROVE TypeInv'
  BY <1>12 DEF Confirm, Goto, Record
<1>13. ASSUME LoseConfirmation PROVE TypeInv'
  BY <1>13 DEF LoseConfirmation, Release, Fault
<1>14. ASSUME PrunePoints PROVE TypeInv'
  <2>1. TypeOK'
    BY <1>14, PruneKeeps DEF PrunePoints, Goto
  <2>2. RunShape'
    BY <1>14, PruneKeeps DEF PrunePoints, Goto
  <2>3. PointsShape'
    <3> SUFFICES ASSUME NEW t \in TxIds, points'[t].kind = "ready"
                 PROVE  points'[t] = points[t] /\ cache' = cache
      OBVIOUS
    <3> QED
      BY <1>14, PruneKeeps DEF PrunePoints
  <2>4. DiskShape'
    BY <1>14, PruneKeeps DEF PrunePoints, Goto
  <2>5. BlockedShape'
    BY <1>14, PruneKeeps DEF PrunePoints, Goto
  <2>6. QED
    BY <2>1, <2>2, <2>3, <2>4, <2>5
<1>15. ASSUME LoseCleanup PROVE TypeInv'
  BY <1>15 DEF LoseCleanup, Release, Fault
<1>16. ASSUME RemoveStaging PROVE TypeInv'
  BY <1>16 DEF RemoveStaging, Release
<1>17. ASSUME FailUpdate PROVE TypeInv'
  <2> MayTearCopy
    BY <1>17 DEF FailUpdate
  <2>0. cache' \in [Components -> [Versions -> {"absent", "torn", "whole"}]]
    BY TearKeeps
  <2>1. TypeOK'
    BY <1>17, <2>0 DEF FailUpdate, UpdateStepFails, Record, Goto, Fault
  <2>2. RunShape'
    BY <1>17 DEF FailUpdate, UpdateStepFails, Record, Goto, Fault
  <2>3. PointsShape'
    BY <1>17, TearKeeps, PointsKept DEF FailUpdate, UpdateStepFails, Record, Goto, Fault
  <2>4. DiskShape'
    BY <1>17 DEF FailUpdate, UpdateStepFails, Record, Goto, Fault
  <2>5. BlockedShape'
    BY <1>17 DEF FailUpdate, UpdateStepFails, Record, Goto, Fault
  <2>6. QED
    BY <2>1, <2>2, <2>3, <2>4, <2>5
<1>18. ASSUME CheckRollback PROVE TypeInv'
  BY <1>18 DEF CheckRollback, Goto
<1>19. ASSUME PassRollbackCheck PROVE TypeInv'
  <2>1. TypeOK'
    BY <1>19 DEF PassRollbackCheck, Goto
  <2>2. RunShape'
    BY <1>19 DEF PassRollbackCheck, Goto
  <2>3. PointsShape'
    BY <1>19 DEF PassRollbackCheck, Goto
  <2>4. DiskShape'
    BY <1>19 DEF PassRollbackCheck, Goto
  <2>5. BlockedShape'
    BY <1>19 DEF PassRollbackCheck, Goto
  <2>6. QED
    BY <2>1, <2>2, <2>3, <2>4, <2>5
<1>20. ASSUME RestoreRelease PROVE TypeInv'
  BY <1>20 DEF RestoreRelease, Goto
<1>21. ASSUME BlockFailed PROVE TypeInv'
  <2>1. TypeOK'
    BY <1>21 DEF BlockFailed, Goto
  <2>2. RunShape'
    BY <1>21 DEF BlockFailed, Goto
  <2>3. PointsShape'
    BY <1>21 DEF BlockFailed, Goto
  <2>4. DiskShape'
    BY <1>21 DEF BlockFailed, Goto
  <2>5. BlockedShape'
    <3>1. blocked \subseteq blocked' /\ [tx |-> tx, pkgs |-> target] \in blocked'
      BY <1>21 DEF BlockFailed
    <3>2. \E b \in blocked' : b.tx = tx
      BY <3>1
    <3>3. disk.status = "rolled_back" => \E b \in blocked' : b.tx = disk.tx
      BY <3>1
    <3>4. QED
      BY <1>21, <3>2, <3>3 DEF BlockFailed, Goto
  <2>6. QED
    BY <2>1, <2>2, <2>3, <2>4, <2>5
<1>22. ASSUME RecordRollback PROVE TypeInv'
  <2>1. TypeOK'
    BY <1>22 DEF RecordRollback, Record, RollbackStatus, Release, BootOver
  <2>2. RunShape'
    BY <1>22 DEF RecordRollback, Record, RollbackStatus, Release, BootOver
  <2>3. PointsShape'
    BY <1>22 DEF RecordRollback, Record, RollbackStatus, Release, BootOver
  <2>4. DiskShape'
    BY <1>22 DEF RecordRollback, Record, RollbackStatus, Release, BootOver
  <2>5. BlockedShape'
    BY <1>22 DEF RecordRollback, Record, RollbackStatus, Release, BootOver
  <2>6. QED
    BY <2>1, <2>2, <2>3, <2>4, <2>5
<1>23. ASSUME FailRollback PROVE TypeInv'
  BY <1>23 DEF FailRollback, RollbackStepFails, Fault, Record, Release, BootOver
<1>24. ASSUME NEW c \in Components, UnpackPrevious(c) PROVE TypeInv'
  BY <1>24 DEF UnpackPrevious, Done, Goto
<1>25. ASSUME NEW c \in Components, ConfigurePrevious(c) PROVE TypeInv'
  <2>1. TypeOK'
    <3>1. installed' \in [Components -> [ver : Versions, conf : BOOLEAN]]
      BY <1>25, ConfigureOne DEF ConfigurePrevious
    <3>2. QED
      BY <1>25, <3>1 DEF ConfigurePrevious, Done, Goto
  <2>2. RunShape'
    BY <1>25 DEF ConfigurePrevious, Done, Goto
  <2>3. PointsShape'
    BY <1>25 DEF ConfigurePrevious, Done, Goto
  <2>4. DiskShape'
    BY <1>25 DEF ConfigurePrevious, Done, Goto
  <2>5. BlockedShape'
    BY <1>25 DEF ConfigurePrevious, Done, Goto
  <2>6. QED
    BY <2>1, <2>2, <2>3, <2>4, <2>5
<1>26. ASSUME ReadState PROVE TypeInv'
  BY <1>26 DEF ReadState
<1>27. ASSUME StartRecovery PROVE TypeInv'
  BY <1>27 DEF StartRecovery
<1>28. ASSUME RefuseRecovery PROVE TypeInv'
  BY <1>28 DEF RefuseRecovery
<1>29. ASSUME NEW p \in Admins, NEW m \in Manifests, VerifyManifest(p, m) PROVE TypeInv'
  BY <1>29 DEF VerifyManifest, MayRun
<1>30. ASSUME NEW p \in Admins, StartUpdate(p) PROVE TypeInv'
  BY <1>30 DEF StartUpdate, Record
<1>31. ASSUME NEW p \in Admins, RefuseUpdate(p) PROVE TypeInv'
  BY <1>31 DEF RefuseUpdate
<1>32. ASSUME NEW p \in Admins, StartRollback(p) PROVE TypeInv'
  BY <1>32 DEF StartRollback, MayRun, IsLatest
<1>33. ASSUME NEW p \in Admins, RestoreConfiguration(p) PROVE TypeInv'
  BY <1>33 DEF RestoreConfiguration, MayRun, IsLatest, Record
<1>34. ASSUME Interrupt PROVE TypeInv'
  <2> MayTearCopy
    BY <1>34 DEF Interrupt
  <2>0. cache' \in [Components -> [Versions -> {"absent", "torn", "whole"}]]
    BY TearKeeps
  <2>1. TypeOK'
    BY <1>34, <2>0 DEF Interrupt, Fault, Release
  <2>2. RunShape'
    BY <1>34 DEF Interrupt, Fault, Release
  <2>3. PointsShape'
    BY <1>34, TearKeeps, PointsKept DEF Interrupt, Fault, Release
  <2>4. DiskShape'
    BY <1>34 DEF Interrupt, Fault, Release
  <2>5. BlockedShape'
    BY <1>34 DEF Interrupt, Fault, Release
  <2>6. QED
    BY <2>1, <2>2, <2>3, <2>4, <2>5
<1>35. ASSUME Reboot PROVE TypeInv'
  <2> MayTearCopy
    BY <1>35 DEF Reboot
  <2>0. cache' \in [Components -> [Versions -> {"absent", "torn", "whole"}]]
    BY TearKeeps
  <2>1. TypeOK'
    BY <1>35, <2>0 DEF Reboot, Fault, Release
  <2>2. RunShape'
    BY <1>35 DEF Reboot, Fault, Release
  <2>3. PointsShape'
    BY <1>35, TearKeeps, PointsKept DEF Reboot, Fault, Release
  <2>4. DiskShape'
    BY <1>35 DEF Reboot, Fault, Release
  <2>5. BlockedShape'
    BY <1>35 DEF Reboot, Fault, Release
  <2>6. QED
    BY <2>1, <2>2, <2>3, <2>4, <2>5
<1>36. CASE UNCHANGED vars
  BY <1>36
<1>37. QED
  BY <1>1, <1>2, <1>3, <1>4, <1>5, <1>6, <1>7, <1>8, <1>9, <1>10, <1>11,
     <1>12, <1>13, <1>14, <1>15, <1>16, <1>17, <1>18, <1>19, <1>20, <1>21,
     <1>22, <1>23, <1>24, <1>25, <1>26, <1>27, <1>28, <1>29, <1>30, <1>31,
     <1>32, <1>33, <1>34, <1>35, <1>36
     DEF Next, UpdateStep, RollbackStep, AdminStep, BootStep

----------------------------------------------------------------------------
(* The theorems. *)

LEMMA TypeInvAlways == Spec => []TypeInv
<1>1. Init => TypeInv
  BY TypeInvInit
<1>2. TypeInv /\ [Next]_vars => TypeInv'
  BY TypeInvNext
<1>3. QED
  BY <1>1, <1>2, PTL DEF Spec

(* The files and the variables of the updater always have their types:     *)
(* no step records a status the readers of transaction-state.json do not   *)
(* know, or works on a transaction that was never started.                 *)
THEOREM TypeCorrect == Spec => []TypeOK
<1>1. TypeInv => TypeOK
  BY DEF TypeInv
<1>2. QED
  BY <1>1, TypeInvAlways, PTL

(* Whatever administrators do and whichever step is cut short, a record    *)
(* that says an update was interrupted names a complete recovery point     *)
(* with every .deb in the cache: recover_interrupted always has something  *)
(* to roll back from.                                                      *)
THEOREM EvidenceAlwaysRestorable == Spec => []EvidenceRestorable
<1>1. TypeInv => EvidenceRestorable
  BY DEF TypeInv, DiskShape, PointsShape, EvidenceRestorable
<1>2. QED
  BY <1>1, TypeInvAlways, PTL

(* apply_update records "rolled_back" only after the failed combination is *)
(* in blocked-versions.json, whatever falls between the two writes.        *)
THEOREM RolledBackAlwaysBlocked == Spec => []RolledBackIsBlocked
<1>1. TypeInv => RolledBackIsBlocked
  BY DEF TypeInv, BlockedShape
<1>2. QED
  BY <1>1, TypeInvAlways, PTL

(* dpkg never unpacks a package of a combination in blocked-versions.json  *)
(* for an update, however early the manifest was verified: the registry is *)
(* read under the lock, and only the lock holder adds to it.               *)
THEOREM BlockedNeverUnpacked == Spec => BlockedNeverInstalled
<1>1. TypeInv /\ [Next]_vars =>
        [\A m \in Manifests :
           pc = "unpack" /\ target = m /\ installed' # installed => ~IsBlocked(m)]_vars
  BY DEF TypeInv, BlockedShape
<1>2. QED
  BY <1>1, TypeInvAlways, PTL DEF Spec, BlockedNeverInstalled

----------------------------------------------------------------------------
(***************************************************************************)
(* The component set stays atomic: SettledIsReleased and what it rests on, *)
(* where the documents place the updater (DocumentedUse).                  *)
(***************************************************************************)
(* The environment and the invariant. *)

(* Updates only, power losses and lost writes but no Ctrl-C and no rollback
   that fails for reasons of its own, and commands that wait for the boot
   service. *)
DocumentedUse ==
  /\ Commands \subseteq {"update"}
  /\ Faults \subseteq {"reboot", "io"}
  /\ RecoveryFirst

(* The recorded status at each step of the lock holder. *)
RecordShape ==
  /\ pc \in {"unpack", "configure", "restart"} => disk.status = "installing"
  /\ pc \in {"health", "cache", "publish", "confirm"} => disk.status = "validating"
  /\ pc \in {"prune", "clean"} => disk.status = "confirmed"
  /\ pc \in RollbackPcs => disk.status \in Interrupted
  /\ pc # "idle" => disk.tx = tx

(* Commands and the boot service exclude each other. *)
BootShape ==
  /\ \A p \in Admins : verified[p] # None => boot = "done"
  /\ holder \in Admins => boot = "done"
  /\ holder = BootService <=> boot = "locked"
  /\ boot = "locked" => target = None
  /\ boot = "read" => disk.status \in Interrupted /\ disk.tx = readTx

(* Every release the terminal can be sent back to is good and is cached.   *)
CacheShape ==
  /\ \A c \in Components : cache[c][current[c]] = "whole"
  /\ \A t \in TxIds : Ready(t) =>
       /\ points[t].pkgs = points[t].rel /\ points[t].pkgs \notin Defective
       /\ \A c \in Components : cache[c][points[t].pkgs[c]] = "whole"
  /\ pc = "cache" => \A c \in Components \ todo : cache[c][target[c]] = "whole"
  /\ pc \in {"publish", "confirm", "prune", "clean"} =>
       \A c \in Components : cache[c][target[c]] = "whole"

(* What is installed at each step. *)
InstallShape ==
  /\ pc \in {"stage", "mkpoint", "fillpoint", "begin"} => HealthOK(current)
  /\ pc \in {"cache", "publish", "confirm", "prune", "clean"} => HealthOK(target)
  /\ pc \in {"confirm", "prune", "clean"} => current = target
  /\ pc = "rb_unpack" =>
       \A c \in Components \ todo : installed[c].ver = points[tx].pkgs[c]
  /\ pc = "rb_configure" =>
       \A c \in Components : /\ installed[c].ver = points[tx].pkgs[c]
                             /\ c \notin todo => installed[c].conf
  /\ pc \in {"rb_health", "rb_release"} => HealthOK(points[tx].pkgs)
  /\ pc \in {"rb_block", "rb_record"} => HealthOK(current)
  /\ pc = "idle" /\ (boot = "done" \/ disk.status \notin Interrupted) => HealthOK(current)

AtomicInv == TypeInv /\ RecordShape /\ BootShape /\ CacheShape /\ InstallShape


----------------------------------------------------------------------------
LEMMA AtomicInvInit == Init => AtomicInv
  BY TypeInvInit, ConstantsOK
     DEF Init, AtomicInv, RecordShape, BootShape, CacheShape, InstallShape,
         Ready, HealthOK, Installed, NoPoint, UpdatePcs, RollbackPcs, Interrupted, TxIds

(* Writing into the cache spares the releases that can be gone back to.    *)
LEMMA ReleasesStayCached ==
  ASSUME AtomicInv, points' = points, current' = current,
         \A c \in Components, v \in Versions :
           cache[c][v] = "whole" => cache'[c][v] = "whole"
  PROVE  /\ \A c \in Components : cache'[c][current'[c]] = "whole"
         /\ \A t \in TxIds : Ready(t)' =>
              /\ points'[t].pkgs = points'[t].rel /\ points'[t].pkgs \notin Defective
              /\ \A c \in Components : cache'[c][points'[t].pkgs[c]] = "whole"
<1>1. current \in [Components -> Versions]
  BY ConstantsOK DEF AtomicInv, TypeInv, TypeOK
<1>2. \A t \in TxIds : Ready(t) => points[t].pkgs \in [Components -> Versions]
  BY DEF AtomicInv, TypeInv, PointsShape
<1>3. QED
  BY <1>1, <1>2 DEF AtomicInv, CacheShape, Ready

(* A whole .deb stays whole when a copy next to it is cut short. *)
LEMMA TornCopyHarmless ==
  ASSUME AtomicInv, MayTearCopy, points' = points, current' = current,
         pc' \notin {"cache", "publish", "confirm", "prune", "clean"}
  PROVE  CacheShape'
<1>1. \A c \in Components, v \in Versions :
        cache[c][v] = "whole" => cache'[c][v] = "whole"
  BY TearKeeps DEF AtomicInv
<1>2. QED
  BY <1>1, ReleasesStayCached DEF CacheShape

(* The candidate's .debs join the cache one by one. *)
LEMMA CandidateCached ==
  ASSUME AtomicInv, NEW c \in Components, CacheCandidate(c)
  PROVE  CacheShape'
<1>1. /\ points' = points /\ current' = current /\ target' = target
      /\ pc = "cache" /\ c \in todo
      /\ \/ todo = {c} /\ pc' = "publish"
         \/ pc' = "cache" /\ todo' = todo \ {c}
  BY DEF CacheCandidate, Done, Goto
<1>2. target \in [Components -> Versions]
  BY <1>1, ConstantsOK DEF AtomicInv, TypeInv, RunShape, UpdatePcs
<1>3. cache' = [cache EXCEPT ![c][target[c]] = "whole"]
  BY DEF CacheCandidate
<1>4. \A d \in Components, v \in Versions :
        cache[d][v] = "whole" => cache'[d][v] = "whole"
  BY <1>2, <1>3 DEF AtomicInv, TypeInv, TypeOK
<1>5. cache'[c][target[c]] = "whole"
  BY <1>2, <1>3 DEF AtomicInv, TypeInv, TypeOK
<1>6. \A d \in Components \ todo : cache[d][target[d]] = "whole"
  BY <1>1 DEF AtomicInv, CacheShape
<1>7. \A d \in (Components \ todo) \cup {c} : cache'[d][target[d]] = "whole"
  BY <1>2, <1>4, <1>5, <1>6
<1>8. QED
  BY <1>1, <1>4, <1>7, ReleasesStayCached DEF CacheShape

LEMMA AtomicInvNext ==
  ASSUME DocumentedUse, AtomicInv, [Next]_vars
  PROVE  AtomicInv'
<1> USE ConstantsOK
    DEF AtomicInv, RecordShape, BootShape, CacheShape, InstallShape, DocumentedUse,
        Ready, HealthOK, Installed, TxIds, Interrupted, UpdatePcs, RollbackPcs,
        onDisk, run, waiting, bounds, vars
<1> DEFINE Rest == RecordShape /\ BootShape /\ CacheShape /\ InstallShape
<1>0. TypeInv'
  BY TypeInvNext
<1> USE <1>0 DEF TypeInv, TypeOK, RunShape, PointsShape, DiskShape
<1>1. ASSUME StageBundle PROVE Rest'
  BY <1>1 DEF StageBundle, Goto
<1>2. ASSUME MakePointDirectory PROVE Rest'
  BY <1>2 DEF MakePointDirectory, Goto, EmptyDir, NoPoint
<1>3. ASSUME FillPoint PROVE Rest'
  BY <1>3 DEF FillPoint, Goto, RollbackPossible
<1>4. ASSUME AbortUpdate PROVE Rest'
  BY <1>4 DEF AbortUpdate, Release
<1>5. ASSUME BeginInstall PROVE Rest'
  BY <1>5 DEF BeginInstall, Goto, Record
<1>6. ASSUME NEW c \in Components, UnpackPackage(c) PROVE Rest'
  BY <1>6 DEF UnpackPackage, Done, Goto
<1>7. ASSUME NEW c \in Components, ConfigurePackage(c) PROVE Rest'
  BY <1>7 DEF ConfigurePackage, Done, Goto
<1>8. ASSUME NEW c \in Components, CacheCandidate(c) PROVE Rest'
  <2>1. RecordShape'
    BY <1>8 DEF CacheCandidate, Done, Goto
  <2>2. BootShape'
    BY <1>8 DEF CacheCandidate, Done, Goto
  <2>3. CacheShape'
    BY <1>8, CandidateCached
  <2>4. InstallShape'
    BY <1>8 DEF CacheCandidate, Done, Goto
  <2>5. QED
    BY <2>1, <2>2, <2>3, <2>4
<1>9. ASSUME RestartChanged PROVE Rest'
  BY <1>9 DEF RestartChanged, Goto, Record
<1>10. ASSUME PassHealthCheck PROVE Rest'
  BY <1>10 DEF PassHealthCheck, Goto
<1>11. ASSUME PublishRelease PROVE Rest'
  BY <1>11 DEF PublishRelease, Goto
<1>12. ASSUME Confirm PROVE Rest'
  BY <1>12 DEF Confirm, Goto, Record
<1>13. ASSUME LoseConfirmation PROVE Rest'
  BY <1>13 DEF LoseConfirmation, Release, Fault
<1>14. ASSUME PrunePoints PROVE Rest'
  <2>1. RecordShape'
    BY <1>14 DEF PrunePoints, Goto, Retained, NoPoint
  <2>2. BootShape'
    BY <1>14 DEF PrunePoints, Goto, Retained, NoPoint
  <2>3. CacheShape'
    <3>1. \A t \in TxIds : points'[t].kind = "ready" => points'[t] = points[t]
      BY <1>14, PruneKeeps
    <3>2. QED
      BY <1>14, <3>1 DEF PrunePoints, Goto
  <2>4. InstallShape'
    BY <1>14 DEF PrunePoints, Goto, Retained, NoPoint
  <2>5. QED
    BY <2>1, <2>2, <2>3, <2>4
<1>15. ASSUME LoseCleanup PROVE Rest'
  BY <1>15 DEF LoseCleanup, Release, Fault
<1>16. ASSUME RemoveStaging PROVE Rest'
  BY <1>16 DEF RemoveStaging, Release
<1>17. ASSUME FailUpdate PROVE Rest'
  <2>1. RecordShape'
    BY <1>17 DEF FailUpdate, UpdateStepFails, MayTearCopy, Record, Goto, Fault
  <2>2. BootShape'
    BY <1>17 DEF FailUpdate, UpdateStepFails, MayTearCopy, Record, Goto, Fault
  <2>3. CacheShape'
    BY <1>17, TornCopyHarmless DEF FailUpdate, Goto
  <2>4. InstallShape'
    BY <1>17 DEF FailUpdate, UpdateStepFails, MayTearCopy, Record, Goto, Fault
  <2>5. QED
    BY <2>1, <2>2, <2>3, <2>4
<1>18. ASSUME CheckRollback PROVE Rest'
  BY <1>18 DEF CheckRollback, Goto
<1>19. ASSUME PassRollbackCheck PROVE Rest'
  BY <1>19 DEF PassRollbackCheck, Goto
<1>20. ASSUME RestoreRelease PROVE Rest'
  BY <1>20 DEF RestoreRelease, Goto
<1>21. ASSUME BlockFailed PROVE Rest'
  BY <1>21 DEF BlockFailed, Goto
<1>22. ASSUME RecordRollback PROVE Rest'
  BY <1>22 DEF RecordRollback, Record, RollbackStatus, Release, BootOver
<1>23. ASSUME FailRollback PROVE Rest'
  <2>1. RecordShape'
    BY <1>23 DEF FailRollback, RollbackStepFails, Fault, Record, Release, BootOver
  <2>2. BootShape'
    BY <1>23 DEF FailRollback, RollbackStepFails, Fault, Record, Release, BootOver
  <2>3. CacheShape'
    BY <1>23 DEF FailRollback, RollbackStepFails, Fault, Record, Release, BootOver
  <2>4. InstallShape'
    BY <1>23 DEF FailRollback, RollbackStepFails, Fault, Record, Release, BootOver
  <2>5. QED
    BY <2>1, <2>2, <2>3, <2>4
<1>24. ASSUME NEW c \in Components, UnpackPrevious(c) PROVE Rest'
  BY <1>24 DEF UnpackPrevious, Done, Goto
<1>25. ASSUME NEW c \in Components, ConfigurePrevious(c) PROVE Rest'
  <2>1. RecordShape'
    BY <1>25 DEF ConfigurePrevious, Done, Goto
  <2>2. BootShape'
    BY <1>25 DEF ConfigurePrevious, Done, Goto
  <2>3. CacheShape'
    BY <1>25 DEF ConfigurePrevious, Done, Goto
  <2>4. InstallShape'
    <3>1. \A d \in Components : installed'[d].ver = installed[d].ver
      BY <1>25, ConfigureOne DEF ConfigurePrevious
    <3>2. installed'[c].conf /\ \A d \in Components \ {c} : installed'[d] = installed[d]
      BY <1>25, ConfigureOne DEF ConfigurePrevious
    <3>3. installed' \in [Components -> [ver : Versions, conf : BOOLEAN]]
      BY <1>25, ConfigureOne DEF ConfigurePrevious
    <3>4. /\ pc = "rb_configure" /\ c \in todo /\ points' = points /\ tx' = tx
          /\ points[tx].pkgs \notin Defective
      BY <1>25 DEF ConfigurePrevious, Done, Goto
    <3>5. \A d \in Components : /\ installed'[d].ver = points[tx].pkgs[d]
                                /\ d \notin todo \ {c} => installed'[d].conf
      BY <3>1, <3>2, <3>4
    <3>6. CASE todo = {c}
      <4>1. \A d \in Components : installed'[d] = [ver |-> points[tx].pkgs[d], conf |-> TRUE]
        BY <3>3, <3>5, <3>6
      <4>2. pc' = "rb_health"
        BY <1>25, <3>6 DEF ConfigurePrevious, Done, Goto
      <4>3. QED
        BY <3>4, <4>1, <4>2
    <3>7. CASE todo # {c}
      <4>1. pc' = "rb_configure" /\ todo' = todo \ {c}
        BY <1>25, <3>7 DEF ConfigurePrevious, Done, Goto
      <4>2. QED
        BY <3>4, <3>5, <4>1
    <3>8. QED
      BY <3>6, <3>7
  <2>5. QED
    BY <2>1, <2>2, <2>3, <2>4
<1>26. ASSUME ReadState PROVE Rest'
  BY <1>26 DEF ReadState
<1>27. ASSUME StartRecovery PROVE Rest'
  BY <1>27 DEF StartRecovery
<1>28. ASSUME RefuseRecovery PROVE Rest'
  BY <1>28 DEF RefuseRecovery
<1>29. ASSUME NEW p \in Admins, NEW m \in Manifests, VerifyManifest(p, m) PROVE Rest'
  BY <1>29 DEF VerifyManifest, MayRun
<1>30. ASSUME NEW p \in Admins, StartUpdate(p) PROVE Rest'
  BY <1>30 DEF StartUpdate, Record
<1>31. ASSUME NEW p \in Admins, RefuseUpdate(p) PROVE Rest'
  BY <1>31 DEF RefuseUpdate
<1>32. ASSUME NEW p \in Admins, StartRollback(p) PROVE Rest'
  BY <1>32 DEF StartRollback, MayRun, IsLatest
<1>33. ASSUME NEW p \in Admins, RestoreConfiguration(p) PROVE Rest'
  BY <1>33 DEF RestoreConfiguration, MayRun, IsLatest, Record
<1>34. ASSUME Interrupt PROVE FALSE
  BY <1>34 DEF Interrupt, Fault
<1>35. ASSUME Reboot PROVE Rest'
  <2>1. RecordShape'
    BY <1>35 DEF Reboot, Fault, MayTearCopy, Release
  <2>2. BootShape'
    BY <1>35 DEF Reboot, Fault, MayTearCopy, Release
  <2>3. CacheShape'
    BY <1>35, TornCopyHarmless DEF Reboot, Release
  <2>4. InstallShape'
    BY <1>35 DEF Reboot, Fault, MayTearCopy, Release
  <2>5. QED
    BY <2>1, <2>2, <2>3, <2>4
<1>36. CASE UNCHANGED vars
  BY <1>36
<1>37. QED
  BY <1>1, <1>2, <1>3, <1>4, <1>5, <1>6, <1>7, <1>8, <1>9, <1>10, <1>11,
     <1>12, <1>13, <1>14, <1>15, <1>16, <1>17, <1>18, <1>19, <1>20, <1>21,
     <1>22, <1>23, <1>24, <1>25, <1>26, <1>27, <1>28, <1>29, <1>30, <1>31,
     <1>32, <1>33, <1>34, <1>35, <1>36
     DEF Next, UpdateStep, RollbackStep, AdminStep, BootStep

----------------------------------------------------------------------------
(* The theorems. *)

LEMMA AtomicInvAlways ==
  ASSUME DocumentedUse
  PROVE  Spec => []AtomicInv
<1>1. Init => AtomicInv
  BY AtomicInvInit
<1>2. AtomicInv /\ [Next]_vars => AtomicInv'
  BY AtomicInvNext
<1>3. QED
  BY <1>1, <1>2, PTL DEF Spec

(* The component set is atomic across power losses and lost writes at any  *)
(* step: whenever no command runs and nothing is recorded for the next     *)
(* boot, every component is configured, the set is one signed release that *)
(* passes its health check, and current-release.json names it.             *)
THEOREM SetAlwaysAtomic ==
  ASSUME DocumentedUse
  PROVE  Spec => []SettledIsReleased
<1>1. AtomicInv => SettledIsReleased
  BY DEF AtomicInv, TypeInv, RunShape, InstallShape, SettledIsReleased, Settled
<1>2. QED
  BY <1>1, AtomicInvAlways, PTL

(* An update cut short after "installing" can be rolled back: its recovery *)
(* point is complete, its .debs are whole, and the release it leads to     *)
(* passes its health check.                                                *)
THEOREM InterruptedAlwaysRecoverable ==
  ASSUME DocumentedUse
  PROVE  Spec => []InterruptedIsRecoverable
<1>1. AtomicInv => InterruptedIsRecoverable
  BY DEF AtomicInv, TypeInv, DiskShape, PointsShape, CacheShape,
         InterruptedIsRecoverable
<1>2. QED
  BY <1>1, AtomicInvAlways, PTL

(* Every complete recovery point pairs the versions of one good release    *)
(* with that release's manifest: _create_recovery_point copies             *)
(* current-release.json while the installed versions are those it names.   *)
THEOREM PointsAlwaysKnownGood ==
  ASSUME DocumentedUse
  PROVE  Spec => []PointsAreKnownGood
<1>1. AtomicInv => PointsAreKnownGood
  BY DEF AtomicInv, CacheShape, PointsAreKnownGood
<1>2. QED
  BY <1>1, AtomicInvAlways, PTL
=============================================================================
