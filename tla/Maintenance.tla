------------------------------ MODULE Maintenance ------------------------------
(***************************************************************************)
(* xaac-maintenance: the diagnostics bundle and the cleanup, run by        *)
(* administrators who do not know of each other.  No lock is held; the     *)
(* kill of a run, and a command that fails or times out, may come at any   *)
(* step.  While a run works the terminal goes on: units fail and recover,  *)
(* the updaters rewrite their state files.                                 *)
(*                                                                         *)
(* A bundle's name is the second in which its run began.  The wall clock   *)
(* may jump forwards; it is not set back.                                  *)
(***************************************************************************)
EXTENDS Integers

CONSTANTS
  Admins,          \* who may run a command at a time
  Retention,       \* diagnostics_retention_days, in units of the clock
  MaxRuns,         \* bound: commands begun
  MaxClock,        \* bound: the last instant
  MaxChanges       \* bound: changes of the terminal the reports look at

ASSUME RetentionAssumption == Retention \in Nat
ASSUME MaintenanceBounds == {MaxRuns, MaxClock, MaxChanges} \subseteq Nat

VARIABLES
  clock,
  level,           \* what each check of the health report would find
  update,          \* how often the updaters have rewritten their state files
  runs,            \* how many commands have begun
  bundle,          \* the bundle of each name
  dirs,            \* the build directories, by the run that made them
  state,           \* /var/lib/xaac-maintenance/state.json
  job,             \* what each administrator's command is doing
  shared,          \* history: names that two runs have taken
  cut,             \* history: runs of diagnostics killed, or whose name was taken
  changes

terminal == <<clock, level, update, changes>>
disk     == <<bundle, dirs, state>>
history  == <<runs, shared, cut>>
vars     == <<terminal, disk, history, job>>

Checks == {"storage", "system", "optional"}

\* A required unit is active or it is not, an optional one only warns.
Levels(c) == CASE c = "storage"  -> {"ok", "warning", "error"}
               [] c = "system"   -> {"ok", "error"}
               [] c = "optional" -> {"ok", "warning"}

Names == 0 .. MaxClock
NoBundle == [form |-> "none", at |-> 0, overall |-> "ok", seen |-> {}, status |-> 0, copies |-> 0]
Idle     == [pc |-> "idle", run |-> 0, name |-> 0, overall |-> "ok", seen |-> {},
             status |-> 0, copies |-> 0, cutoff |-> 0,
             copy |-> [cleanup |-> 0, bundle |-> -1]]

Init ==
  /\ clock = 0 /\ update = 0 /\ changes = 0
  /\ level = [c \in Checks |-> "ok"]
  /\ runs = 0 /\ shared = {} /\ cut = {}
  /\ bundle = [n \in Names |-> NoBundle]
  /\ dirs = {}
  /\ state = [cleanup |-> 0, bundle |-> -1]
  /\ job = [p \in Admins |-> Idle]

At(p, pc)   == job[p].pc = pc
Goes(p, pc) == job' = [job EXCEPT ![p].pc = pc]

\* What the reports said is not needed any more.
Ends(p, pc) == job' = [job EXCEPT ![p] =
                 [Idle EXCEPT !.pc = pc, !.run = job[p].run, !.name = job[p].name]]

\* Through a temporary file: state.json is never seen half written.
AtomicJson(s) == state' = s

\* What the checks find now.
Now == {<<c, level[c]>> : c \in Checks}

-----------------------------------------------------------------------------
(* The terminal. *)

Tick ==
  /\ clock' \in (clock + 1) .. MaxClock
  /\ UNCHANGED <<level, update, changes, disk, history, job>>

UpdaterRecords ==
  /\ changes < MaxChanges
  /\ changes' = changes + 1 /\ update' = update + 1
  /\ UNCHANGED <<clock, level, disk, history, job>>

Change(c) ==
  /\ changes < MaxChanges
  /\ \E l \in Levels(c) \ {level[c]} :
       /\ level' = [level EXCEPT ![c] = l]
       /\ job' = [p \in Admins |-> IF job[p].seen = {} THEN job[p]
                                   ELSE [job[p] EXCEPT !.seen = @ \cup {<<c, l>>}]]
  /\ changes' = changes + 1
  /\ UNCHANGED <<clock, update, disk, history>>

-----------------------------------------------------------------------------
(* diagnostics *)

Starts(p) == At(p, "idle") /\ runs < MaxRuns /\ runs' = runs + 1

BeginDiagnostics(p) ==
  /\ Starts(p) /\ bundle[clock].form = "none"
  /\ dirs' = dirs \cup {runs'}
  /\ job' = [job EXCEPT ![p] = [Idle EXCEPT !.pc = "status", !.run = runs',
                                            !.name = clock, !.seen = Now]]
  /\ shared' = shared \cup {job[q].name : q \in {q \in Admins : job[q].run \in dirs /\ job[q].name = clock}}
  /\ UNCHANGED <<terminal, bundle, state, cut>>

\* The directory is made before the name is looked at, and outside the try.
RefuseName(p) ==
  /\ Starts(p) /\ bundle[clock].form # "none"
  /\ dirs' = dirs \cup {runs'} /\ cut' = cut \cup {runs'}
  /\ UNCHANGED <<terminal, bundle, state, shared, job>>

ReportStatus(p) ==
  /\ At(p, "status")
  /\ job' = [job EXCEPT ![p].pc = "storage", ![p].status = update]
  /\ UNCHANGED <<terminal, disk, history>>

\* Mutant: the level of the last check.
WorseIsLast(overall, l) == l

\* The worst of what the checks have found so far.
Worse(overall, l) ==
  CASE l = "error"                             -> "error"
    [] l = "warning" /\ overall # "error"      -> "degraded"
    [] l = "ok" \/ (l = "warning" /\ overall = "error") -> overall

\* Mutant: a later check that is in order forgets the earlier ones.
CheckForgetting(p, c, next) ==
  /\ At(p, c)
  /\ job' = [job EXCEPT ![p].pc = next, ![p].overall = Worse("ok", level[c])]
  /\ UNCHANGED <<terminal, disk, history>>

\* health_report looks at one thing after the other.
Check(p, c, next) ==
  /\ At(p, c)
  /\ job' = [job EXCEPT ![p].pc = next, ![p].overall = Worse(@, level[c])]
  /\ UNCHANGED <<terminal, disk, history>>

ReportHealth(p) ==
  \/ Check(p, "storage", "system")
  \/ Check(p, "system", "optional")
  \/ Check(p, "optional", "rest")

\* Network, storage, services and journal: commands whose output is kept.
ReportRest(p) ==
  /\ At(p, "rest") /\ Goes(p, "copies")
  /\ UNCHANGED <<terminal, disk, history>>

\* The updaters' state files, the audit of dpkg and the manifest.
CopyStates(p) ==
  /\ At(p, "copies")
  /\ job' = [job EXCEPT ![p].pc = "tar", ![p].copies = update]
  /\ UNCHANGED <<terminal, disk, history>>

\* The archive is written under its final name; "w:gz" truncates what is there.
OpenBundle(p) ==
  /\ At(p, "tar") /\ Goes(p, "writing")
  /\ LET n == job[p].name
         others == {q \in Admins \ {p} : At(q, "writing") /\ job[q].name = n}
     IN  /\ bundle' = [bundle EXCEPT ![n] =
              [NoBundle EXCEPT !.form = IF others = {} THEN "partial" ELSE "mixed", !.at = clock]]
  /\ UNCHANGED <<terminal, dirs, state, history>>

\* Mutant: the size is looked at after the state has been written.
FinishBundleUnmeasured(p) ==
  LET n == job[p].name IN
  /\ At(p, "writing") /\ bundle[n].form # "none"
  /\ Ends(p, "load")
  /\ bundle' \in {bundle, [bundle EXCEPT ![n] = NoBundle]}
  /\ UNCHANGED <<terminal, dirs, state, history>>

FinishBundle(p) ==
  LET n == job[p].name IN
  /\ At(p, "writing") /\ bundle[n].form # "none"
  /\ Ends(p, "load")
  /\ bundle' = [bundle EXCEPT ![n] =
       [form    |-> IF @.form = "partial" THEN "whole" ELSE @.form,
        at      |-> clock, overall |-> job[p].overall, seen |-> job[p].seen,
        status  |-> job[p].status, copies |-> job[p].copies]]
  /\ UNCHANGED <<terminal, dirs, state, history>>

BundleTooLarge(p) ==
  /\ At(p, "writing") /\ Ends(p, "finally")
  /\ bundle' = [bundle EXCEPT ![job[p].name] = NoBundle]
  /\ UNCHANGED <<terminal, dirs, state, history>>

LoadState(p) ==
  /\ At(p, "load")
  /\ job' = [job EXCEPT ![p].pc = "record", ![p].copy = state]
  /\ UNCHANGED <<terminal, disk, history>>

RecordBundle(p) ==
  /\ At(p, "record") /\ Ends(p, "finally")
  /\ AtomicJson([job[p].copy EXCEPT !.bundle = job[p].name])
  /\ UNCHANGED <<terminal, bundle, dirs, history>>

\* A command that cannot be run or takes too long, reports that are too large, a
\* full disk, a bundle that another run has removed: finally comes next.
Raises(p) ==
  /\ job[p].pc \in {"status", "storage", "system", "optional", "rest", "copies", "tar",
                    "writing", "load", "record"}
  /\ Ends(p, "finally")
  /\ UNCHANGED <<terminal, disk, history>>

Finally(p) ==
  /\ At(p, "finally")
  /\ dirs' = dirs \ {job[p].run}
  /\ job' = [job EXCEPT ![p] = Idle]
  /\ UNCHANGED <<terminal, bundle, state, history>>

Diagnose(p) ==
  \/ BeginDiagnostics(p) \/ RefuseName(p) \/ ReportStatus(p) \/ ReportHealth(p)
  \/ ReportRest(p) \/ CopyStates(p) \/ OpenBundle(p) \/ FinishBundle(p)
  \/ BundleTooLarge(p) \/ LoadState(p) \/ RecordBundle(p) \/ Raises(p) \/ Finally(p)

-----------------------------------------------------------------------------
(* cleanup *)

BeginCleanup(p) ==
  /\ Starts(p)
  /\ job' = [job EXCEPT ![p] = [Idle EXCEPT !.pc = "removing", !.run = runs',
                                            !.cutoff = clock - Retention]]
  /\ UNCHANGED <<terminal, disk, shared, cut>>

Old(n, cutoff) == bundle[n].form # "none" /\ bundle[n].at < cutoff

RemoveOld(p) ==
  /\ At(p, "removing") /\ Goes(p, "journal")
  /\ bundle' = [n \in Names |-> IF Old(n, job[p].cutoff) THEN NoBundle ELSE bundle[n]]
  /\ UNCHANGED <<terminal, dirs, state, history>>

\* The journal is vacuumed and apt's cache emptied: both, then both are judged.
LimitJournal(p) ==
  /\ At(p, "journal")
  /\ Goes(p, "load_cleanup")
  /\ UNCHANGED <<terminal, disk, history>>

LoadForCleanup(p) ==
  /\ At(p, "load_cleanup")
  /\ job' = [job EXCEPT ![p].pc = "record_cleanup", ![p].copy = state]
  /\ UNCHANGED <<terminal, disk, history>>

RecordCleanup(p) ==
  /\ At(p, "record_cleanup")
  /\ AtomicJson([job[p].copy EXCEPT !.cleanup = clock])
  /\ job' = [job EXCEPT ![p] = Idle]
  /\ UNCHANGED <<terminal, bundle, dirs, history>>

CleanupRaises(p) ==
  /\ job[p].pc \in {"removing", "journal", "load_cleanup", "record_cleanup"}
  /\ job' = [job EXCEPT ![p] = Idle]
  /\ UNCHANGED <<terminal, disk, history>>

Clean(p) ==
  \/ BeginCleanup(p) \/ RemoveOld(p) \/ LimitJournal(p) \/ LoadForCleanup(p)
  \/ RecordCleanup(p) \/ CleanupRaises(p)

\* No finally clause runs: SIGKILL, or the power is cut.
Kill(p) ==
  /\ ~At(p, "idle")
  /\ cut' = cut \cup ({job[p].run} \cap dirs)
  /\ job' = [job EXCEPT ![p] = Idle]
  /\ UNCHANGED <<terminal, disk, runs, shared>>

Next ==
  \/ Tick \/ UpdaterRecords \/ \E c \in Checks : Change(c)
  \/ \E p \in Admins : Diagnose(p) \/ Clean(p) \/ Kill(p)

Spec == Init /\ [][Next]_vars

-----------------------------------------------------------------------------
\* The types of the variables.
Overalls == {"ok", "degraded", "error"}
States   == [cleanup : Names, bundle : Names \cup {-1}]
Seen     == SUBSET (Checks \X {"ok", "warning", "error"})

TypeOK ==
  /\ clock \in Names
  /\ level \in [Checks -> {"ok", "warning", "error"}]
  /\ update \in Nat /\ changes \in Nat /\ runs \in Nat
  /\ bundle \in [Names -> [form : {"none", "partial", "whole", "mixed"}, at : Names,
                           overall : Overalls, seen : Seen, status : Nat, copies : Nat]]
  /\ dirs \subseteq Nat /\ cut \subseteq Nat
  /\ state \in States
  /\ job \in [Admins ->
       [pc : {"idle", "status", "storage", "system", "optional", "rest", "copies", "tar",
              "writing", "load", "record", "finally", "removing", "journal",
              "load_cleanup", "record_cleanup"},
        run : Nat, name : Names, overall : Overalls, seen : Seen, status : Nat,
        copies : Nat, cutoff : Int, copy : States]]
  /\ shared \subseteq Names

(***************************************************************************)
(* last_diagnostics_bundle, which support is told to fetch, names a whole  *)
(* archive, or one that a cleanup has removed after the retention, however *)
(* runs of diagnostics and cleanup overlap and wherever they are killed:   *)
(* unless a second run began in the same second.                           *)
(***************************************************************************)
RecordedIsWhole ==
  LET n == state.bundle IN
  n # -1 => \/ bundle[n].form = "whole"
            \/ bundle[n].form = "none" /\ clock > n + Retention
            \/ n \in shared

(***************************************************************************)
(* What a whole bundle says did happen while its run lasted: "ok" only if  *)
(* each check was in order at some moment, an error or a warning only if   *)
(* there was one; and the copies of the updaters' states are not older     *)
(* than the status report beside them.                                     *)
(***************************************************************************)
Earned(b) ==
  /\ b.overall = "ok" => \A c \in Checks : <<c, "ok">> \in b.seen
  /\ b.overall = "error" => \E c \in Checks : <<c, "error">> \in b.seen
  /\ b.overall = "degraded" => \E c \in Checks : <<c, "warning">> \in b.seen
  /\ b.overall # "error" => \A c \in Checks : \E l \in {"ok", "warning"} : <<c, l>> \in b.seen
  /\ b.status <= b.copies

BundleIsEarned == \A n \in Names : bundle[n].form = "whole" => Earned(bundle[n])

=============================================================================
