-------------------------- MODULE ProvisioningProofs ---------------------------
(***************************************************************************)
(* How a terminal comes to be, and that no cut on the way leaves it half   *)
(* made: for any disks under any names, any number of installations and    *)
(* wherever they stop, the boot chain on a disk is that of its root, and   *)
(* what the operator is told is complete is on the disk.                   *)
(***************************************************************************)
EXTENDS DeviceInstaller, FiniteSetTheorems, TLAPS

-----------------------------------------------------------------------------
(* The invariant. *)

Filling == {"mounted", "deployed", "kernel", "fstab", "grub", "esp", "bootable", "admin",
            "identity", "verified", "summarised"}

\* The places at which f has been written, to the cache at least.
After(f) ==
  CASE f = "tree"       -> Filling \ {"mounted"}
    [] f = "kernel"     -> Filling \ {"mounted", "deployed"}
    [] f = "fstab"      -> Filling \ {"mounted", "deployed", "kernel"}
    [] f = "grub"       -> Filling \ {"mounted", "deployed", "kernel", "fstab"}
    [] f = "chain"      -> {"esp", "bootable", "admin", "identity", "verified", "summarised"}
    [] f = "admin"      -> {"admin", "identity", "verified", "summarised"}
    [] f = "identity"   -> {"identity", "verified", "summarised"}
    [] f = "credential" -> {"verified", "summarised"}
    [] f = "summary"    -> {"summarised"}

\* While the program is on the disk, one disk has the chosen name.
OneTarget == OnDisk => installs > 0 /\ Chosen # {}

\* Between wipefs and the last mkfs nothing waits in the cache; partitions
\* that this installation has not formatted have an older UUID, and those it
\* has are empty.
Fresh ==
  /\ pc \notin Filling => \A i \in Partition : cache[i] = {}
  /\ pc = "partition" =>
       /\ disks[Target].table < 4
       /\ \A i \in Partition : disks[Target].fs[i].uuid < installs
  /\ pc \in Filling \cup {"format"} => disks[Target].table = 4
  /\ pc = "format" =>
       /\ \E k \in 0 .. 3 : Formatted = 1 .. k
       /\ \A i \in Formatted : disks[Target].fs[i].facts = {}
  /\ pc \in Filling => Formatted = Partition

\* Whatever the table of partitions shows of it.
Chained ==
  \A d \in Disk : "chain" \in disks[d].fs[ESP].facts =>
                    disks[d].fs[ROOT].uuid = disks[d].fs[ESP].names

\* What has been written is on the disk or in the cache.
Kept ==
  pc \in Filling =>
    \A i \in Partition : \A f \in Facts(i) :
      pc \in After(f) => f \in disks[Target].fs[i].facts \cup cache[i]

\* Nothing is chosen before the list.
Dialogue == pc \in {"start", "listed"} => target = None

AllFacts == {"chain", "tree", "kernel", "fstab", "grub", "admin", "identity", "credential",
             "summary"}
FileSystem == [uuid : 0 .. installs, facts : SUBSET AllFacts, names : 0 .. installs]
InstallerTypes ==
  /\ nodes \in Injections
  /\ disks \in [Disk -> [table : 0 .. 4, fs : [Partition -> FileSystem]]]
  /\ \A d \in Disk : \A i \in Partition : disks[d].fs[i].facts \subseteq Facts(i)
  /\ pc \in {"start", "listed", "summary", "answered", "wipe", "complete", "failed",
             "partition", "format"} \cup Filling
  /\ listed \subseteq [name : Name, size : Nat]
  /\ target \in listed \cup {None}
  /\ cache \in [Partition -> SUBSET AllFacts]
  /\ \A i \in Partition : cache[i] \subseteq Facts(i)
  /\ installs \in 0 .. MaxInstalls /\ replugs \in 0 .. MaxReplugs

InstallerInv == InstallerTypes /\ Dialogue /\ OneTarget /\ Fresh /\ Chained /\ Kept
                  /\ CompleteIsDurable

-----------------------------------------------------------------------------
(* What the operators do. *)

LEMMA Partitions ==
  /\ Partition = {1, 2, 3, 4} /\ ESP = 1 /\ ROOT = 2 /\ RECOVERY = 4
  /\ FormatOrder = <<1, 2, 3, 4>>
BY DEF Partition, ESP, ROOT, RECOVERY, FormatOrder

LEMMA FactsAre ==
  /\ \A i \in Partition : Facts(i) \in SUBSET AllFacts
  /\ \A i \in Partition : "chain" \in Facts(i) => i = ESP
  /\ \A i, j \in Partition : Facts(i) \cap Facts(j) # {} => i = j
BY Partitions DEF Facts, AllFacts

\* Who writes a fact, and where nothing has been written yet.
LEMMA Written ==
  /\ "tree" \in Facts(ROOT) /\ "kernel" \in Facts(ROOT) /\ "fstab" \in Facts(ROOT)
  /\ "grub" \in Facts(ROOT) /\ "admin" \in Facts(ROOT) /\ "identity" \in Facts(ROOT)
  /\ "credential" \in Facts(ROOT) /\ "chain" \in Facts(ESP) /\ "summary" \in Facts(RECOVERY)
  /\ ESP \in Partition /\ ROOT \in Partition /\ RECOVERY \in Partition
  /\ Filling = {"mounted", "deployed", "kernel", "fstab", "grub", "esp", "bootable", "admin",
                "identity", "verified", "summarised"}
BY Partitions DEF Facts, Filling

LEMMA AfterMounted == \A f \in AllFacts : "mounted" \notin After(f)
BY DEF AllFacts, After, Filling

\* The chosen disk is one, and does not change under the program.
LEMMA TargetIs ==
  ASSUME Chosen # {}
  PROVE  Target \in Disk /\ Target \in Chosen
BY DEF Target, Chosen

LEMMA TargetAlone ==
  ASSUME nodes \in Injections, NEW d \in Chosen
  PROVE  d = Target
BY TargetIs DEF Injections, Chosen

LEMMA TargetKept ==
  ASSUME UNCHANGED <<nodes, target>>
  PROVE  Chosen' = Chosen /\ Target' = Target
<1>1. Chosen' = Chosen
  BY DEF Chosen
<1> QED
  BY <1>1, Zenon DEF Target

LEMMA OnDiskIs ==
  OnDisk <=> pc \in {"partition", "format"} \cup Filling
BY DEF OnDisk, Filling

LEMMA FlushedIs ==
  ASSUME NEW fs \in FileSystem, NEW i, NEW facts \in SUBSET AllFacts, installs \in Nat
  PROVE  /\ Flushed(fs, i, facts) \in FileSystem
         /\ Flushed(fs, i, facts).uuid = fs.uuid
         /\ Flushed(fs, i, facts).facts = fs.facts \cup facts
         /\ Flushed(fs, i, facts).names = IF "chain" \in facts THEN installs ELSE fs.names
<1> DEFINE names == IF "chain" \in facts THEN installs ELSE fs.names
<1>1. names \in 0 .. installs
  BY DEF FileSystem
<1>2. Flushed(fs, i, facts) = [fs EXCEPT !.facts = fs.facts \cup facts, !.names = names]
  BY DEF Flushed
<1> HIDE DEF names
<1>3. /\ Flushed(fs, i, facts) \in FileSystem
      /\ Flushed(fs, i, facts).uuid = fs.uuid
      /\ Flushed(fs, i, facts).facts = fs.facts \cup facts
      /\ Flushed(fs, i, facts).names = names
  BY <1>1, <1>2 DEF FileSystem
<1> QED
  BY <1>3 DEF names

\* sync: what each partition holds then.
LEMMA SyncIs ==
  ASSUME InstallerTypes, Chosen # {}, Sync, UNCHANGED installs
  PROVE  /\ disks' \in [Disk -> [table : 0 .. 4, fs : [Partition -> FileSystem]]]
         /\ \A d \in Disk \ {Target} : disks'[d] = disks[d]
         /\ disks'[Target].table = disks[Target].table
         /\ \A i \in Partition :
              /\ disks'[Target].fs[i].uuid = disks[Target].fs[i].uuid
              /\ disks'[Target].fs[i].facts = disks[Target].fs[i].facts \cup cache[i]
              /\ disks'[Target].fs[i].names =
                   IF "chain" \in cache[i] THEN installs ELSE disks[Target].fs[i].names
              /\ cache'[i] = {}
         /\ cache' \in [Partition -> SUBSET AllFacts]
<1>1. Target \in Disk /\ installs \in Nat
  BY TargetIs DEF InstallerTypes
<1> DEFINE new == [i \in Partition |-> Flushed(disks[Target].fs[i], i, cache[i])]
<1>2. \A i \in Partition :
        /\ disks[Target].fs[i] \in FileSystem /\ cache[i] \in SUBSET AllFacts
  BY <1>1 DEF InstallerTypes
<1>3. /\ new \in [Partition -> FileSystem]
      /\ \A i \in Partition :
           /\ new[i].uuid = disks[Target].fs[i].uuid
           /\ new[i].facts = disks[Target].fs[i].facts \cup cache[i]
           /\ new[i].names = IF "chain" \in cache[i] THEN installs ELSE disks[Target].fs[i].names
  BY <1>1, <1>2, FlushedIs
<1>4. disks' = [disks EXCEPT ![Target].fs = new]
  BY DEF Sync
<1> HIDE DEF new
<1>5. /\ disks'[Target] = [disks[Target] EXCEPT !.fs = new]
      /\ \A d \in Disk \ {Target} : disks'[d] = disks[d]
      /\ disks' \in [Disk -> [table : 0 .. 4, fs : [Partition -> FileSystem]]]
  BY <1>1, <1>3, <1>4 DEF InstallerTypes
<1>6. disks'[Target].fs = new /\ disks'[Target].table = disks[Target].table
  BY <1>1, <1>5 DEF InstallerTypes
<1>7. cache' = [i \in Partition |-> {}]
  BY DEF Sync
<1> QED
  BY <1>3, <1>5, <1>6, <1>7

\* The other steps that change a disk.
DiskType(n) == [table : 0 .. 4, fs : [Partition -> [uuid : 0 .. n, facts : SUBSET AllFacts,
                                                    names : 0 .. n]]]

LEMMA WipeIs ==
  ASSUME InstallerTypes, Wipe
  PROVE  /\ installs' = installs + 1 /\ installs' \in 0 .. MaxInstalls /\ Chosen # {}
         /\ disks' \in [Disk -> DiskType(installs')]
         /\ \A d \in Disk : disks'[d].fs = disks[d].fs
         /\ \A d \in Chosen : disks'[d].table = 0
<1>1. installs' = installs + 1 /\ installs' \in 0 .. MaxInstalls /\ installs \in Nat /\ Chosen # {}
  BY InstallerAssumption DEF Wipe, InstallerTypes
<1>2. \A d \in Disk : disks[d] \in DiskType(installs')
  BY <1>1 DEF InstallerTypes, FileSystem, DiskType
<1>3. \A d \in Disk : [disks[d] EXCEPT !.table = 0] \in DiskType(installs')
                        /\ [disks[d] EXCEPT !.table = 0].fs = disks[d].fs
                        /\ [disks[d] EXCEPT !.table = 0].table = 0
  BY <1>2 DEF DiskType
<1>4. disks' = [d \in Disk |-> IF d \in Chosen THEN [disks[d] EXCEPT !.table = 0] ELSE disks[d]]
  BY DEF Wipe
<1>5. Chosen \subseteq Disk
  BY DEF Chosen
<1> HIDE DEF DiskType
<1> QED
  BY <1>1, <1>2, <1>3, <1>4, <1>5

LEMMA AddPartitionIs ==
  ASSUME InstallerTypes, Chosen # {}, AddPartition
  PROVE  /\ disks' \in [Disk -> DiskType(installs)]
         /\ \A d \in Disk : disks'[d].fs = disks[d].fs
         /\ disks'[Target].table = disks[Target].table + 1
         /\ disks[Target].table \in 0 .. 3
<1>1. Target \in Disk /\ disks[Target].table \in 0 .. 3
  BY TargetIs DEF InstallerTypes, AddPartition
<1>2. disks' = [disks EXCEPT ![Target] = [disks[Target] EXCEPT !.table = disks[Target].table + 1]]
  BY DEF AddPartition
<1>3. [disks[Target] EXCEPT !.table = disks[Target].table + 1] \in DiskType(installs)
  BY <1>1 DEF InstallerTypes, FileSystem, DiskType
<1> QED
  BY <1>1, <1>2, <1>3 DEF InstallerTypes, FileSystem, DiskType

LEMMA FormatIs ==
  ASSUME InstallerTypes, OneTarget, Fresh, Format
  PROVE  \E k \in 1 .. 4 :
           /\ Formatted = 1 .. (k - 1)
           /\ disks' \in [Disk -> DiskType(installs)]
           /\ \A d \in Disk \ {Target} : disks'[d] = disks[d]
           /\ disks'[Target].table = disks[Target].table
           /\ disks'[Target].fs[k].uuid = installs /\ disks'[Target].fs[k].facts = {}
           /\ \A i \in Partition \ {k} : disks'[Target].fs[i] = disks[Target].fs[i]
           /\ pc' = IF k = 4 THEN "mounted" ELSE "format"
<1>1. PICK j \in 0 .. 3 : Formatted = 1 .. j
  BY DEF Format, Fresh
<1> DEFINE k == j + 1
<1>2. Cardinality(Formatted) = j
  <2>1. j \in Int /\ 1 \in Int
    OBVIOUS
  <2>2. Cardinality(1 .. j) = IF 1 > j THEN 0 ELSE j - 1 + 1
    BY <2>1, FS_Interval, Zenon
  <2> QED BY <1>1, <2>2
<1>3. k \in Partition /\ FormatOrder[k] = k
  BY Partitions DEF Partition
<1>4. Target \in Disk /\ installs \in Nat
  BY OnDiskIs, TargetIs DEF Format, OneTarget, InstallerTypes
<1> DEFINE new == [Unformatted EXCEPT !.uuid = installs]
           fss == [disks[Target].fs EXCEPT ![k] = new]
<1>5. new \in FileSystem /\ new.uuid = installs /\ new.facts = {}
  BY <1>4 DEF Unformatted, FileSystem
<1>6. disks' = [disks EXCEPT ![Target].fs[k] = new]
  BY <1>2, <1>3 DEF Format
<1> HIDE DEF new
<1>7. disks' = [disks EXCEPT ![Target] = [disks[Target] EXCEPT !.fs = fss]]
  BY <1>6
<1>8. /\ fss \in [Partition -> FileSystem] /\ fss[k] = new
      /\ \A i \in Partition \ {k} : fss[i] = disks[Target].fs[i]
  BY <1>3, <1>4, <1>5 DEF InstallerTypes
<1> HIDE DEF fss
<1>9. /\ [disks[Target] EXCEPT !.fs = fss] \in DiskType(installs)
      /\ [disks[Target] EXCEPT !.fs = fss].fs = fss
      /\ [disks[Target] EXCEPT !.fs = fss].table = disks[Target].table
  BY <1>4, <1>8 DEF InstallerTypes, FileSystem, DiskType
<1>10. disks \in [Disk -> DiskType(installs)]
  BY DEF InstallerTypes, FileSystem, DiskType
<1>11. /\ disks' \in [Disk -> DiskType(installs)]
       /\ \A d \in Disk \ {Target} : disks'[d] = disks[d]
       /\ disks'[Target].fs = fss /\ disks'[Target].table = disks[Target].table
  BY <1>4, <1>7, <1>9, <1>10
<1>12. pc' = IF k = 4 THEN "mounted" ELSE "format"
  BY <1>2 DEF Format
<1>13. k \in 1 .. 4 /\ k - 1 = j
  OBVIOUS
<1> HIDE DEF k
<1> QED
  BY <1>1, <1>5, <1>8, <1>11, <1>12, <1>13

LEMMA WriteBackIs ==
  ASSUME InstallerTypes, Chosen # {}, WriteBack
  PROVE  \E i \in Partition : \E f \in cache[i] :
           /\ disks' \in [Disk -> DiskType(installs)]
           /\ \A d \in Disk \ {Target} : disks'[d] = disks[d]
           /\ disks'[Target].table = disks[Target].table
           /\ \A j \in Partition \ {i} : disks'[Target].fs[j] = disks[Target].fs[j]
           /\ disks'[Target].fs[i].uuid = disks[Target].fs[i].uuid
           /\ disks'[Target].fs[i].facts = disks[Target].fs[i].facts \cup {f}
           /\ disks'[Target].fs[i].names = IF f = "chain" THEN installs
                                           ELSE disks[Target].fs[i].names
           /\ cache' \in [Partition -> SUBSET AllFacts]
           /\ cache'[i] = cache[i] \ {f}
           /\ \A j \in Partition \ {i} : cache'[j] = cache[j]
<1>1. Target \in Disk /\ installs \in Nat
  BY TargetIs DEF InstallerTypes
<1>0. PICK i \in Partition : \E f \in cache[i] :
        /\ disks' = [disks EXCEPT ![Target].fs[i] = Flushed(@, i, {f})]
        /\ cache' = [cache EXCEPT ![i] = @ \ {f}]
  BY DEF WriteBack
<1>2. PICK f \in cache[i] :
        /\ disks' = [disks EXCEPT ![Target].fs[i] = Flushed(@, i, {f})]
        /\ cache' = [cache EXCEPT ![i] = @ \ {f}]
  BY <1>0
<1> DEFINE new == Flushed(disks[Target].fs[i], i, {f})
           fss == [disks[Target].fs EXCEPT ![i] = new]
<1>3. disks[Target].fs[i] \in FileSystem /\ {f} \in SUBSET AllFacts
  BY <1>1 DEF InstallerTypes
<1>4. /\ new \in FileSystem /\ new.uuid = disks[Target].fs[i].uuid
      /\ new.facts = disks[Target].fs[i].facts \cup {f}
      /\ new.names = IF f = "chain" THEN installs ELSE disks[Target].fs[i].names
  BY <1>1, <1>3, FlushedIs
<1>5. disks' = [disks EXCEPT ![Target] = [disks[Target] EXCEPT !.fs = fss]]
  BY <1>2
<1> HIDE DEF new
<1>6. /\ fss \in [Partition -> FileSystem] /\ fss[i] = new
      /\ \A j \in Partition \ {i} : fss[j] = disks[Target].fs[j]
  BY <1>1, <1>4 DEF InstallerTypes
<1> HIDE DEF fss
<1>7. /\ [disks[Target] EXCEPT !.fs = fss] \in DiskType(installs)
      /\ [disks[Target] EXCEPT !.fs = fss].fs = fss
      /\ [disks[Target] EXCEPT !.fs = fss].table = disks[Target].table
  BY <1>1, <1>6 DEF InstallerTypes, FileSystem, DiskType
<1>8. disks \in [Disk -> DiskType(installs)]
  BY DEF InstallerTypes, FileSystem, DiskType
<1>9. /\ disks' \in [Disk -> DiskType(installs)]
      /\ \A d \in Disk \ {Target} : disks'[d] = disks[d]
      /\ disks'[Target].fs = fss /\ disks'[Target].table = disks[Target].table
  BY <1>1, <1>5, <1>7, <1>8
<1>10. /\ cache' \in [Partition -> SUBSET AllFacts] /\ cache'[i] = cache[i] \ {f}
       /\ \A j \in Partition \ {i} : cache'[j] = cache[j]
  BY <1>2 DEF InstallerTypes
<1> QED
  BY <1>4, <1>6, <1>9, <1>10

-----------------------------------------------------------------------------
(* Every step keeps the invariant. *)

LEMMA InstallerInit == Init => InstallerInv
<1> SUFFICES ASSUME Init PROVE InstallerInv
  OBVIOUS
<1>1. disks \in [Disk -> [table : 0 .. 4, fs : [Partition -> FileSystem]]]
  BY DEF Init, Blank, Unformatted, FileSystem
<1>2. \A d \in Disk : \A i \in Partition : disks[d].fs[i].facts = {}
  BY DEF Init, Blank, Unformatted
<1>3. InstallerTypes
  BY <1>1, <1>2, InstallerAssumption DEF Init, InstallerTypes, Filling
<1>4. Chained
  BY <1>2, Partitions DEF Chained, Partition
<1> QED
  BY <1>3, <1>4, OnDiskIs
  DEF Init, InstallerInv, Dialogue, OneTarget, Fresh, Kept, CompleteIsDurable, Filling

\* Where the program is not on the disk, the invariant speaks of the disks only.
LEMMA OffDisk ==
  ASSUME InstallerInv, InstallerTypes', Dialogue', UNCHANGED <<disks, installs>>,
         pc' \notin {"partition", "format"} \cup Filling,
         \A i \in Partition : cache'[i] = {}, pc' = "complete" => pc = "complete"
  PROVE  InstallerInv'
<1>1. ~OnDisk'
  BY DEF OnDisk, Filling
<1>2. Fresh' /\ Kept' /\ OneTarget'
  BY <1>1 DEF Fresh, Kept, OneTarget
<1>3. Chained' /\ CompleteIsDurable'
  BY DEF InstallerInv, Chained, CompleteIsDurable
<1> QED
  BY <1>2, <1>3 DEF InstallerInv

LEMMA DialogueInv ==
  ASSUME InstallerInv,
         \/ ListDisks \/ SelectDisk \/ SelectionRefused \/ Confirm \/ Cancel \/ Preflight
         \/ StartAgain \/ PowerCut \/ Replug \/ (Fail /\ ~OnDisk)
  PROVE  InstallerInv'
<1> DEFINE Off == {"start", "listed", "summary", "answered", "wipe", "complete", "failed"}
<1>1. /\ UNCHANGED <<disks, installs>> /\ pc' \in Off
      /\ pc' = "complete" => pc = "complete"
      /\ replugs' \in 0 .. MaxReplugs
  <2>1. CASE Replug
    BY <2>1, OnDiskIs, InstallerAssumption DEF Replug, InstallerInv, InstallerTypes, Filling
  <2>2. CASE Fail /\ ~OnDisk
    BY <2>2 DEF Fail, InstallerInv, InstallerTypes
  <2>3. CASE \/ ListDisks \/ SelectDisk \/ SelectionRefused \/ Confirm \/ Cancel \/ Preflight
             \/ StartAgain \/ PowerCut
    BY <2>3 DEF ListDisks, SelectDisk, SelectionRefused, Confirm, Cancel, Preflight, StartAgain,
      PowerCut, Restarts, GoTo, InstallerInv, InstallerTypes
  <2> QED BY <2>1, <2>2, <2>3
<1>2. \/ cache' = [i \in Partition |-> {}]
      \/ cache' = cache /\ pc \notin {"partition", "format"} \cup Filling
  <2>1. CASE StartAgain \/ PowerCut
    BY <2>1 DEF StartAgain, PowerCut, Restarts
  <2>2. CASE Replug \/ (Fail /\ ~OnDisk)
    BY <2>2, OnDiskIs DEF Replug, Fail
  <2>3. CASE ListDisks \/ SelectDisk \/ SelectionRefused \/ Confirm \/ Cancel \/ Preflight
    BY <2>3 DEF ListDisks, SelectDisk, SelectionRefused, Confirm, Cancel, Preflight, GoTo, Filling
  <2> QED BY <2>1, <2>2, <2>3
<1>3. \A i \in Partition : cache'[i] = {}
  BY <1>2 DEF InstallerInv, Fresh
<1>4. /\ nodes' \in Injections /\ listed' \subseteq [name : Name, size : Nat]
      /\ target' \in listed' \cup {None} /\ Dialogue'
  <2>1. CASE ListDisks
    <3>1. \A d \in Disk : nodes[d] \in Name /\ Size[d] \in Nat
      BY InstallerAssumption DEF InstallerInv, InstallerTypes, Injections
    <3> QED BY <2>1, <3>1 DEF ListDisks, GoTo, InstallerInv, InstallerTypes, Dialogue
  <2>2. CASE SelectDisk
    BY <2>2 DEF SelectDisk, GoTo, InstallerInv, InstallerTypes, Dialogue
  <2>3. CASE \/ SelectionRefused \/ Confirm \/ Cancel \/ Preflight \/ Replug \/ (Fail /\ ~OnDisk)
    BY <2>3 DEF SelectionRefused, Confirm, Cancel, Preflight, GoTo, Replug, Fail, operatorVars,
      InstallerInv,      InstallerTypes, Dialogue
  <2>4. CASE StartAgain \/ PowerCut
    BY <2>4 DEF StartAgain, PowerCut, Restarts, InstallerInv, InstallerTypes, Dialogue
  <2> QED BY <2>1, <2>2, <2>3, <2>4
<1>5. InstallerTypes'
  <2>1. cache' \in [Partition -> SUBSET AllFacts]
    BY <1>2 DEF InstallerInv, InstallerTypes
  <2> QED BY <1>1, <1>3, <1>4, <2>1 DEF InstallerInv, InstallerTypes, FileSystem
<1> QED
  BY <1>1, <1>3, <1>4, <1>5, OffDisk DEF Filling

LEMMA WipeInv ==
  ASSUME InstallerInv, Wipe
  PROVE  InstallerInv'
<1>1. /\ InstallerTypes /\ pc = "wipe" /\ pc' = "partition"
      /\ UNCHANGED <<nodes, listed, target, cache, replugs>>
  BY DEF InstallerInv, Wipe, GoTo, operatorVars
<1>2. /\ installs \in Nat /\ installs' = installs + 1 /\ installs' \in 0 .. MaxInstalls
      /\ Chosen # {} /\ disks' \in [Disk -> DiskType(installs')]
      /\ \A d \in Disk : disks'[d].fs = disks[d].fs
      /\ \A d \in Chosen : disks'[d].table = 0
  BY <1>1, WipeIs DEF InstallerTypes
<1>3. Chosen' = Chosen /\ Target' = Target /\ Target \in Disk /\ Target \in Chosen
  BY <1>1, <1>2, TargetKept, TargetIs
<1>4. \A i \in Partition : cache[i] = {}
  BY <1>1 DEF InstallerInv, Fresh, Filling
<1>5. \A d \in Disk : \A i \in Partition : disks[d].fs[i].uuid \in 0 .. installs
  BY <1>1 DEF InstallerTypes, FileSystem
<1>6. InstallerTypes'
  BY <1>1, <1>2 DEF InstallerTypes, FileSystem, DiskType
<1>7. OneTarget'
  BY <1>2, <1>3 DEF OneTarget
<1>8. Fresh'
  BY <1>1, <1>2, <1>3, <1>4, <1>5 DEF Fresh, Filling
<1>9. Chained'
  BY <1>2 DEF InstallerInv, Chained
<1> QED
  BY <1>1, <1>6, <1>7, <1>8, <1>9 DEF InstallerInv, Dialogue, Kept, CompleteIsDurable, Filling

LEMMA AddPartitionInv ==
  ASSUME InstallerInv, AddPartition
  PROVE  InstallerInv'
<1>1. /\ InstallerTypes /\ pc = "partition"
      /\ pc' = IF disks[Target].table = 3 THEN "format" ELSE "partition"
      /\ UNCHANGED <<nodes, listed, target, cache, installs, replugs>>
  BY DEF InstallerInv, AddPartition, operatorVars
<1>2. installs > 0 /\ Chosen # {} /\ installs \in Nat
  BY <1>1, OnDiskIs DEF InstallerInv, OneTarget, InstallerTypes
<1>3. /\ disks' \in [Disk -> DiskType(installs)]
      /\ \A d \in Disk : disks'[d].fs = disks[d].fs
      /\ disks'[Target].table = disks[Target].table + 1 /\ disks[Target].table \in 0 .. 3
  BY <1>1, <1>2, AddPartitionIs
<1>4. Chosen' = Chosen /\ Target' = Target /\ Target \in Disk
  BY <1>1, <1>2, TargetKept, TargetIs
<1>5. \A i \in Partition : cache[i] = {} /\ disks[Target].fs[i].uuid < installs
  BY <1>1 DEF InstallerInv, Fresh, Filling
<1>6. InstallerTypes'
  BY <1>1, <1>3 DEF InstallerTypes, FileSystem, DiskType
<1>7. Formatted' = {}
  <2>1. \A i \in Partition : disks'[Target].fs[i].uuid # installs
    BY <1>2, <1>3, <1>4, <1>5 DEF InstallerTypes, InstallerInv, FileSystem
  <2> QED BY <1>1, <1>4, <2>1 DEF Formatted
<1>8. Fresh'
  <2>1. CASE disks[Target].table = 3
    <3>1. Formatted' = 1 .. 0 /\ 0 \in 0 .. 3
      BY <1>7
    <3> QED BY <1>1, <1>3, <1>4, <1>5, <2>1, <3>1 DEF Fresh, Filling
  <2>2. CASE disks[Target].table # 3
    BY <1>1, <1>3, <1>4, <1>5, <2>2 DEF Fresh, Filling
  <2> QED BY <2>1, <2>2
<1>9. Chained' /\ OneTarget'
  BY <1>1, <1>2, <1>3, <1>4 DEF InstallerInv, Chained, OneTarget
<1> QED
  BY <1>1, <1>6, <1>8, <1>9 DEF InstallerInv, Dialogue, Kept, CompleteIsDurable, Filling

LEMMA FormatInv ==
  ASSUME InstallerInv, Format
  PROVE  InstallerInv'
<1>1. /\ InstallerTypes /\ pc = "format"
      /\ UNCHANGED <<nodes, listed, target, cache, installs, replugs>>
  BY DEF InstallerInv, Format, operatorVars
<1>2. installs > 0 /\ Chosen # {} /\ installs \in Nat
  BY <1>1, OnDiskIs DEF InstallerInv, OneTarget, InstallerTypes
<1>3. Chosen' = Chosen /\ Target' = Target /\ Target \in Disk
  BY <1>1, <1>2, TargetKept, TargetIs
<1>4. PICK k \in 1 .. 4 :
        /\ Formatted = 1 .. (k - 1)
        /\ disks' \in [Disk -> DiskType(installs)]
        /\ \A d \in Disk \ {Target} : disks'[d] = disks[d]
        /\ disks'[Target].table = disks[Target].table
        /\ disks'[Target].fs[k].uuid = installs /\ disks'[Target].fs[k].facts = {}
        /\ \A i \in Partition \ {k} : disks'[Target].fs[i] = disks[Target].fs[i]
        /\ pc' = IF k = 4 THEN "mounted" ELSE "format"
  BY FormatIs DEF InstallerInv
<1>5. k \in Partition /\ \A i \in Partition : cache[i] = {}
  BY <1>1 DEF Partition, InstallerInv, Fresh, Filling
<1>6. Formatted' = 1 .. k
  <2>1. Formatted' = {i \in Partition : disks'[Target].fs[i].uuid = installs}
    BY <1>1, <1>3 DEF Formatted
  <2>2. \A i \in Partition : disks'[Target].fs[i].uuid = installs <=> i = k \/ i \in 1 .. (k - 1)
    BY <1>4, <1>5 DEF Formatted
  <2> QED BY <1>4, <2>1, <2>2 DEF Partition
<1>7. InstallerTypes'
  <2>1. \A d \in Disk : \A i \in Partition : disks'[d].fs[i].facts \subseteq Facts(i)
    BY <1>1, <1>4 DEF InstallerTypes
  <2>2. pc' \in {"format"} \cup Filling
    BY <1>4 DEF Filling
  <2> QED BY <1>1, <1>4, <2>1, <2>2 DEF InstallerTypes, FileSystem, DiskType
<1>8. Fresh'
  <2>1. disks[Target].table = 4
    BY <1>1 DEF InstallerInv, Fresh
  <2>2. pc' = "format" => k \in 0 .. 3
    BY <1>4
  <2>3. pc' \in Filling => Formatted' = Partition
    BY <1>4, <1>6 DEF Partition, Filling
  <2>4. pc' # "partition" /\ (pc' \in Filling \/ pc' = "format")
    BY <1>4 DEF Filling
  <2>5. \A i \in Formatted' : disks'[Target].fs[i].facts = {}
    <3>1. \A i \in Formatted : disks[Target].fs[i].facts = {} /\ i \in Partition
      BY <1>1 DEF InstallerInv, Fresh, Formatted
    <3>2. \A i \in 1 .. k : i = k \/ i \in Formatted
      BY <1>4
    <3> QED BY <1>4, <1>6, <3>1, <3>2
  <2> QED BY <1>1, <1>3, <1>4, <1>5, <1>6, <2>1, <2>2, <2>3, <2>4, <2>5 DEF Fresh
<1>9. Chained'
  <2> SUFFICES ASSUME NEW d \in Disk, "chain" \in disks'[d].fs[ESP].facts
               PROVE  disks'[d].fs[ROOT].uuid = disks'[d].fs[ESP].names
    BY DEF Chained
  <2>1. CASE d # Target
    BY <1>4, <2>1 DEF InstallerInv, Chained
  <2>2. CASE d = Target
    \* The ESP has been formatted first, and nothing can have been written to it.
    <3>1. k # 1
      BY <1>4, <2>2, Partitions
    <3>2. disks[Target].fs[ESP].facts = {}
      BY <1>1, <1>4, <3>1, Partitions DEF InstallerInv, Fresh
    <3>3. disks'[Target].fs[ESP] = disks[Target].fs[ESP]
      BY <1>4, <3>1, Partitions
    <3> QED BY <2>2, <3>2, <3>3
  <2> QED BY <2>1, <2>2
<1>10. OneTarget'
  BY <1>1, <1>2, <1>3 DEF OneTarget
<1>11. Kept'
  <2>1. pc' \in Filling => pc' = "mounted"
    BY <1>4 DEF Filling
  <2> QED BY <2>1, FactsAre, AfterMounted DEF Kept
<1>12. Dialogue' /\ CompleteIsDurable'
  <2>1. pc' \notin {"start", "listed", "complete"}
    BY <1>4
  <2> QED BY <2>1 DEF Dialogue, CompleteIsDurable
<1> QED
  BY <1>7, <1>8, <1>9, <1>10, <1>11, <1>12 DEF InstallerInv

\* A step of the installation writes one fact, and only to the cache.
LEMMA WritesInv ==
  ASSUME InstallerInv, NEW from \in Filling, NEW to \in Filling, NEW i \in Partition,
         NEW f \in Facts(i), Writes(from, to, i, f),
         \A g \in AllFacts : to \in After(g) => from \in After(g) \/ g = f
  PROVE  InstallerInv'
<1>1. /\ InstallerTypes /\ pc = from /\ pc' = to
      /\ cache' = [cache EXCEPT ![i] = cache[i] \cup {f}]
      /\ UNCHANGED <<nodes, disks, listed, target, installs, replugs>>
  BY DEF InstallerInv, Writes, GoTo, operatorVars
<1>2. /\ cache' \in [Partition -> SUBSET AllFacts] /\ cache'[i] = cache[i] \cup {f}
      /\ \A j \in Partition \ {i} : cache'[j] = cache[j]
  BY <1>1, FactsAre DEF InstallerTypes
<1>3. Chosen' = Chosen /\ Target' = Target
  BY <1>1, TargetKept
<1>4. Formatted' = Formatted
  BY <1>1, <1>3 DEF Formatted
<1>5. InstallerTypes'
  <2>1. \A j \in Partition : cache'[j] \subseteq Facts(j)
    BY <1>1, <1>2 DEF InstallerTypes
  <2> QED BY <1>1, <1>2, <2>1 DEF InstallerTypes, FileSystem
<1>6. OneTarget'
  BY <1>1, <1>3, OnDiskIs DEF InstallerInv, OneTarget
<1>7. Fresh'
  BY <1>1, <1>3, <1>4 DEF InstallerInv, Fresh, Filling
<1>8. Chained'
  BY <1>1 DEF InstallerInv, Chained
<1>9. Kept'
  <2> SUFFICES ASSUME NEW j \in Partition, NEW g \in Facts(j), to \in After(g)
               PROVE  g \in disks[Target].fs[j].facts \cup cache'[j]
    BY <1>1, <1>3 DEF Kept
  <2>1. CASE from \in After(g)
    BY <1>1, <1>2, <2>1 DEF InstallerInv, Kept
  <2>2. CASE g = f
    BY <1>2, <2>2, FactsAre
  <2> QED BY <2>1, <2>2, FactsAre
<1>10. Dialogue' /\ CompleteIsDurable'
  BY <1>1 DEF Dialogue, CompleteIsDurable, Filling
<1> QED
  BY <1>5, <1>6, <1>7, <1>8, <1>9, <1>10 DEF InstallerInv

\* What reaches the disk leaves the boot chain right: it is cached only after
\* all the partitions have been formatted.
LEMMA SyncInv ==
  ASSUME InstallerInv, OnDisk, Sync, UNCHANGED <<nodes, operatorVars, installs, replugs>>,
         pc' \in {"bootable", "complete", "failed"}
  PROVE  /\ InstallerTypes' /\ Dialogue' /\ Chained' /\ Target' = Target /\ Target \in Disk
         /\ Chosen' # {} /\ installs > 0
<1>1. /\ InstallerTypes /\ Chosen # {} /\ installs > 0
      /\ UNCHANGED <<nodes, listed, target, installs, replugs>>
  BY DEF InstallerInv, OneTarget, operatorVars
<1>2. Chosen' = Chosen /\ Target' = Target /\ Target \in Disk
  BY <1>1, TargetKept, TargetIs
<1>3. /\ disks' \in [Disk -> [table : 0 .. 4, fs : [Partition -> FileSystem]]]
      /\ \A d \in Disk \ {Target} : disks'[d] = disks[d]
      /\ \A i \in Partition :
           /\ disks'[Target].fs[i].uuid = disks[Target].fs[i].uuid
           /\ disks'[Target].fs[i].facts = disks[Target].fs[i].facts \cup cache[i]
           /\ disks'[Target].fs[i].names =
                IF "chain" \in cache[i] THEN installs ELSE disks[Target].fs[i].names
           /\ cache'[i] = {}
      /\ cache' \in [Partition -> SUBSET AllFacts]
  BY <1>1, SyncIs
<1>4. InstallerTypes'
  <2>1. \A d \in Disk : \A i \in Partition : disks'[d].fs[i].facts \subseteq Facts(i)
    BY <1>1, <1>3 DEF InstallerTypes
  <2>2. pc' \in {"complete", "failed"} \cup Filling
    BY DEF Filling
  <2> QED BY <1>1, <1>3, <2>1, <2>2 DEF InstallerTypes, FileSystem
<1>5. Chained'
  <2> SUFFICES ASSUME NEW d \in Disk, "chain" \in disks'[d].fs[ESP].facts
               PROVE  disks'[d].fs[ROOT].uuid = disks'[d].fs[ESP].names
    BY DEF Chained
  <2>1. CASE d # Target
    BY <1>3, <2>1 DEF InstallerInv, Chained
  <2>2. CASE d = Target /\ "chain" \in cache[ESP]
    <3>1. Formatted = Partition
      BY <2>2, Partitions DEF InstallerInv, Fresh
    <3> QED BY <1>3, <2>2, <3>1, Partitions DEF Formatted
  <2>3. CASE d = Target /\ "chain" \notin cache[ESP]
    BY <1>2, <1>3, <2>3, Partitions DEF InstallerInv, Chained
  <2> QED BY <2>1, <2>2, <2>3
<1> QED
  BY <1>1, <1>2, <1>4, <1>5 DEF Dialogue

LEMMA CheckEspInv ==
  ASSUME InstallerInv, CheckEsp
  PROVE  InstallerInv'
<1>1. /\ pc = "esp" /\ pc' = "bootable" /\ OnDisk /\ Sync
      /\ UNCHANGED <<nodes, operatorVars, installs, replugs>>
  BY DEF CheckEsp, GoTo, OnDisk
<1>2. /\ InstallerTypes' /\ Dialogue' /\ Chained' /\ Target' = Target /\ Target \in Disk
      /\ Chosen' # {} /\ installs > 0
  BY <1>1, SyncInv
<1>3. /\ disks'[Target].table = disks[Target].table
      /\ \A i \in Partition :
           /\ disks'[Target].fs[i].uuid = disks[Target].fs[i].uuid
           /\ disks'[Target].fs[i].facts = disks[Target].fs[i].facts \cup cache[i]
           /\ cache'[i] = {}
  BY <1>1, SyncIs DEF InstallerInv, OneTarget
<1>4. Formatted' = Formatted
  BY <1>1, <1>2, <1>3 DEF Formatted
<1>5. Fresh'
  BY <1>1, <1>2, <1>3, <1>4 DEF InstallerInv, Fresh, Filling
<1>6. Kept'
  <2>1. \A g \in AllFacts : "bootable" \in After(g) => "esp" \in After(g)
    BY DEF AllFacts, After, Filling
  <2> QED BY <1>1, <1>2, <1>3, <2>1, FactsAre DEF InstallerInv, Kept, Filling
<1> QED
  BY <1>1, <1>2, <1>5, <1>6 DEF InstallerInv, OneTarget, CompleteIsDurable

LEMMA CompleteInv ==
  ASSUME InstallerInv, Complete
  PROVE  InstallerInv'
<1>1. /\ pc = "summarised" /\ pc' = "complete" /\ OnDisk /\ Sync
      /\ UNCHANGED <<nodes, operatorVars, installs, replugs>>
  BY DEF Complete, GoTo, OnDisk
<1>2. /\ InstallerTypes' /\ Dialogue' /\ Chained' /\ Target' = Target /\ Target \in Disk
  BY <1>1, SyncInv
<1>3. /\ disks'[Target].table = disks[Target].table
      /\ \A i \in Partition :
           /\ disks'[Target].fs[i].uuid = disks[Target].fs[i].uuid
           /\ disks'[Target].fs[i].facts = disks[Target].fs[i].facts \cup cache[i]
           /\ cache'[i] = {}
  BY <1>1, SyncIs DEF InstallerInv, OneTarget
<1>4. CompleteIsDurable'
  <2>1. disks[Target].table = 4 /\ Formatted = Partition
    BY <1>1 DEF InstallerInv, Fresh, Filling
  <2>2. \A g \in AllFacts : "summarised" \in After(g)
    BY DEF AllFacts, After, Filling
  <2>3. \A i \in Partition : Facts(i) \subseteq disks[Target].fs[i].facts \cup cache[i]
    BY <1>1, <2>2, FactsAre DEF InstallerInv, Kept, Filling
  <2>4. \A i \in Partition : disks'[Target].fs[i].facts \subseteq Facts(i)
    BY <1>2 DEF InstallerTypes
  <2>5. \A i \in Partition : disks'[Target].fs[i].uuid = installs
                               /\ disks'[Target].fs[i].facts = Facts(i)
    BY <1>3, <2>1, <2>3, <2>4 DEF Formatted
  <2> QED BY <1>1, <1>2, <1>3, <2>1, <2>5 DEF CompleteIsDurable
<1>5. Fresh' /\ Kept' /\ OneTarget'
  BY <1>1, <1>3, OnDiskIs DEF Fresh, Kept, OneTarget, Filling, OnDisk
<1> QED
  BY <1>2, <1>4, <1>5 DEF InstallerInv

LEMMA FailInv ==
  ASSUME InstallerInv, Fail, OnDisk
  PROVE  InstallerInv'
<1>1. /\ pc' = "failed" /\ Sync /\ UNCHANGED <<nodes, operatorVars, installs, replugs>>
  BY DEF Fail
<1>2. /\ InstallerTypes' /\ Dialogue' /\ Chained'
  BY <1>1, SyncInv
<1>3. \A i \in Partition : cache'[i] = {}
  BY <1>1, SyncIs DEF InstallerInv, OneTarget
<1> QED
  BY <1>1, <1>2, <1>3 DEF InstallerInv, Fresh, Kept, OneTarget, CompleteIsDurable, Filling, OnDisk

LEMMA WriteBackInv ==
  ASSUME InstallerInv, WriteBack
  PROVE  InstallerInv'
<1>1. /\ InstallerTypes /\ OnDisk /\ Chosen # {}
      /\ UNCHANGED <<nodes, pc, listed, target, installs, replugs>>
  BY DEF InstallerInv, OneTarget, WriteBack, operatorVars
<1>2. PICK i \in Partition : \E f \in cache[i] :
        /\ disks' \in [Disk -> DiskType(installs)]
        /\ \A d \in Disk \ {Target} : disks'[d] = disks[d]
        /\ disks'[Target].table = disks[Target].table
        /\ \A j \in Partition \ {i} : disks'[Target].fs[j] = disks[Target].fs[j]
        /\ disks'[Target].fs[i].uuid = disks[Target].fs[i].uuid
        /\ disks'[Target].fs[i].facts = disks[Target].fs[i].facts \cup {f}
        /\ disks'[Target].fs[i].names = IF f = "chain" THEN installs
                                        ELSE disks[Target].fs[i].names
        /\ cache' \in [Partition -> SUBSET AllFacts]
        /\ cache'[i] = cache[i] \ {f}
        /\ \A j \in Partition \ {i} : cache'[j] = cache[j]
  BY <1>1, WriteBackIs
<1>3. PICK f \in cache[i] :
        /\ disks' \in [Disk -> DiskType(installs)]
        /\ \A d \in Disk \ {Target} : disks'[d] = disks[d]
        /\ disks'[Target].table = disks[Target].table
        /\ \A j \in Partition \ {i} : disks'[Target].fs[j] = disks[Target].fs[j]
        /\ disks'[Target].fs[i].uuid = disks[Target].fs[i].uuid
        /\ disks'[Target].fs[i].facts = disks[Target].fs[i].facts \cup {f}
        /\ disks'[Target].fs[i].names = IF f = "chain" THEN installs
                                        ELSE disks[Target].fs[i].names
        /\ cache' \in [Partition -> SUBSET AllFacts]
        /\ cache'[i] = cache[i] \ {f}
        /\ \A j \in Partition \ {i} : cache'[j] = cache[j]
  BY <1>2
<1>4. Chosen' = Chosen /\ Target' = Target /\ Target \in Disk
  BY <1>1, TargetKept, TargetIs
<1>5. pc \in Filling /\ Formatted = Partition
  BY <1>3 DEF InstallerInv, Fresh
<1>6. f \in Facts(i)
  BY <1>1, <1>3 DEF InstallerTypes
<1>7. \A j \in Partition : disks'[Target].fs[j].uuid = disks[Target].fs[j].uuid
  BY <1>3
<1>8. Formatted' = Formatted
  BY <1>1, <1>4, <1>7 DEF Formatted
<1>9. InstallerTypes'
  <2>1. \A d \in Disk : \A j \in Partition : disks'[d].fs[j].facts \subseteq Facts(j)
    BY <1>1, <1>3, <1>6 DEF InstallerTypes
  <2>2. \A j \in Partition : cache'[j] \subseteq Facts(j)
    BY <1>1, <1>3 DEF InstallerTypes
  <2> QED BY <1>1, <1>3, <2>1, <2>2 DEF InstallerTypes, FileSystem, DiskType
<1>10. OneTarget' /\ Dialogue' /\ CompleteIsDurable'
  BY <1>1, <1>4, <1>5, OnDiskIs DEF InstallerInv, OneTarget, Dialogue, CompleteIsDurable, Filling
<1>11. Fresh'
  BY <1>1, <1>3, <1>4, <1>5, <1>8 DEF InstallerInv, Fresh, Filling
<1>12. Chained'
  <2> SUFFICES ASSUME NEW d \in Disk, "chain" \in disks'[d].fs[ESP].facts
               PROVE  disks'[d].fs[ROOT].uuid = disks'[d].fs[ESP].names
    BY DEF Chained
  <2>1. CASE d # Target
    BY <1>3, <2>1 DEF InstallerInv, Chained
  <2>2. CASE d = Target /\ f = "chain"
    <3>1. i = ESP
      BY <1>6, <2>2, FactsAre
    <3> QED BY <1>3, <1>5, <1>7, <2>2, <3>1, Partitions DEF Formatted
  <2>3. CASE d = Target /\ f # "chain"
    <3>1. /\ "chain" \in disks[Target].fs[ESP].facts
          /\ disks'[Target].fs[ESP].names = disks[Target].fs[ESP].names
      BY <1>3, <2>3, Partitions
    <3> QED BY <1>4, <1>7, <2>3, <3>1, Partitions DEF InstallerInv, Chained
  <2> QED BY <2>1, <2>2, <2>3
<1>13. Kept'
  <2>1. \A j \in Partition : disks[Target].fs[j].facts \cup cache[j]
                               \subseteq disks'[Target].fs[j].facts \cup cache'[j]
    BY <1>3
  <2> QED BY <1>1, <1>4, <2>1 DEF InstallerInv, Kept
<1> QED
  BY <1>9, <1>10, <1>11, <1>12, <1>13 DEF InstallerInv

LEMMA InstallerStep == InstallerInv /\ [Next]_vars => InstallerInv'
<1> SUFFICES ASSUME InstallerInv, [Next]_vars PROVE InstallerInv'
  OBVIOUS
<1>1. CASE \/ ListDisks \/ SelectDisk \/ SelectionRefused \/ Confirm \/ Cancel \/ Preflight
           \/ StartAgain \/ PowerCut \/ Replug \/ (Fail /\ ~OnDisk)
  BY <1>1, DialogueInv
<1>2. CASE Wipe
  BY <1>2, WipeInv
<1>3. CASE AddPartition
  BY <1>3, AddPartitionInv
<1>4. CASE Format
  BY <1>4, FormatInv
<1>5. CASE DeployRootfs
  <2>1. \A g \in AllFacts : "deployed" \in After(g) => "mounted" \in After(g) \/ g = "tree"
    BY DEF AllFacts, After, Filling
  <2> QED BY <1>5, <2>1, WritesInv, Written DEF DeployRootfs
<1>6. CASE InstallKernel
  <2>1. \A g \in AllFacts : "kernel" \in After(g) => "deployed" \in After(g) \/ g = "kernel"
    BY DEF AllFacts, After, Filling
  <2> QED BY <1>6, <2>1, WritesInv, Written DEF InstallKernel
<1>7. CASE WriteFstab
  <2>1. \A g \in AllFacts : "fstab" \in After(g) => "kernel" \in After(g) \/ g = "fstab"
    BY DEF AllFacts, After, Filling
  <2> QED BY <1>7, <2>1, WritesInv, Written DEF WriteFstab
<1>8. CASE InstallGrub
  <2>1. \A g \in AllFacts : "grub" \in After(g) => "fstab" \in After(g) \/ g = "grub"
    BY DEF AllFacts, After, Filling
  <2> QED BY <1>8, <2>1, WritesInv, Written DEF InstallGrub
<1>9. CASE InstallShim
  <2>1. \A g \in AllFacts : "esp" \in After(g) => "grub" \in After(g) \/ g = "chain"
    BY DEF AllFacts, After, Filling
  <2> QED BY <1>9, <2>1, WritesInv, Written DEF InstallShim
<1>10. CASE CheckEsp
  BY <1>10, CheckEspInv
<1>11. CASE ActivateAdmin
  <2>1. \A g \in AllFacts : "admin" \in After(g) => "bootable" \in After(g) \/ g = "admin"
    BY DEF AllFacts, After, Filling
  <2> QED BY <1>11, <2>1, WritesInv, Written DEF ActivateAdmin
<1>12. CASE WriteIdentity
  <2>1. \A g \in AllFacts : "identity" \in After(g) => "admin" \in After(g) \/ g = "identity"
    BY DEF AllFacts, After, Filling
  <2> QED BY <1>12, <2>1, WritesInv, Written DEF WriteIdentity
<1>13. CASE VerifyInstallation
  <2>1. \A g \in AllFacts :
          "verified" \in After(g) => "identity" \in After(g) \/ g = "credential"
    BY DEF AllFacts, After, Filling
  <2> QED BY <1>13, <2>1, WritesInv, Written DEF VerifyInstallation
<1>14. CASE WriteSummary
  <2>1. \A g \in AllFacts :
          "summarised" \in After(g) => "verified" \in After(g) \/ g = "summary"
    BY DEF AllFacts, After, Filling
  <2> QED BY <1>14, <2>1, WritesInv, Written DEF WriteSummary
<1>15. CASE Complete
  BY <1>15, CompleteInv
<1>16. CASE Fail /\ OnDisk
  BY <1>16, FailInv
<1>17. CASE WriteBack
  BY <1>17, WriteBackInv
<1>18. CASE UNCHANGED vars
  <2>1. UNCHANGED <<nodes, disks, pc, listed, target, cache, installs, replugs>>
    BY <1>18 DEF vars, operatorVars
  <2>2. Chosen' = Chosen /\ Target' = Target
    BY <2>1, TargetKept
  <2>3. Formatted' = Formatted
    BY <2>1, <2>2 DEF Formatted
  <2>4. InstallerTypes' /\ Dialogue' /\ Chained' /\ CompleteIsDurable'
    BY <2>1 DEF InstallerInv, InstallerTypes, FileSystem, Dialogue, Chained, CompleteIsDurable
  <2>5. OneTarget'
    BY <2>1, <2>2 DEF InstallerInv, OneTarget, OnDisk
  <2>6. Fresh' /\ Kept'
    BY <2>1, <2>2, <2>3 DEF InstallerInv, Fresh, Kept
  <2> QED BY <2>4, <2>5, <2>6 DEF InstallerInv
<1> QED
  BY <1>1, <1>2, <1>3, <1>4, <1>5, <1>6, <1>7, <1>8, <1>9, <1>10, <1>11, <1>12, <1>13, <1>14,
     <1>15, <1>16, <1>17, <1>18 DEF Next

-----------------------------------------------------------------------------
(* The theorems. *)

LEMMA InstallerAlways == Spec => []InstallerInv
BY InstallerInit, InstallerStep, PTL DEF Spec

\* Of any number of disks, under names that change, each has the partitions
\* and the facts that an installation gives it, wherever installations stop.
THEOREM InstallerTypesCorrect == Spec => []TypeOK
<1>1. InstallerInv => TypeOK
  <2> SUFFICES ASSUME InstallerInv PROVE TypeOK
    OBVIOUS
  <2>1. \A d \in Disk :
          /\ disks[d].table \in 0 .. 4
          /\ \A i \in Partition :
               /\ disks[d].fs[i].uuid \in 0 .. installs /\ disks[d].fs[i].names \in 0 .. installs
               /\ disks[d].fs[i].facts \subseteq Facts(i)
    BY DEF InstallerInv, InstallerTypes, FileSystem
  <2> QED BY <2>1, OnDiskIs DEF InstallerInv, InstallerTypes, TypeOK
<1> QED
  BY <1>1, InstallerAlways, PTL

\* The boot chain in an ESP looks for the root that is beside it: an
\* installation formats both before it writes the chain, and a file reaches
\* the disk only after its file system was made.
THEOREM BootChainAlwaysWhole == Spec => []ChainNeverDangles
<1>1. InstallerInv => ChainNeverDangles
  BY DEF InstallerInv, Chained, ChainNeverDangles
<1> QED
  BY <1>1, InstallerAlways, PTL

\* "Installation complete" is said when everything is on the disk: all nine
\* steps have written what they write, and the last sync has returned.
THEOREM CompleteAlwaysDurable == Spec => []CompleteIsDurable
<1>1. InstallerInv => CompleteIsDurable
  BY DEF InstallerInv
<1> QED
  BY <1>1, InstallerAlways, PTL
=============================================================================
