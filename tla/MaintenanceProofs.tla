--------------------------- MODULE MaintenanceProofs ---------------------------
(***************************************************************************)
(* For any administrators, any number of commands and however the clock    *)
(* jumps: what is recorded as the last bundle is a whole one, and what a   *)
(* bundle says has happened.                                               *)
(***************************************************************************)
EXTENDS Maintenance, TLAPS

-----------------------------------------------------------------------------
(* The invariant. *)

\* The types, with a name for each.
Places == {"idle", "status", "storage", "system", "optional", "rest", "copies", "tar",
           "writing", "load", "record", "finally", "removing", "journal",
           "load_cleanup", "record_cleanup"}
Job    == [pc : Places, run : Nat, name : Names, overall : Overalls, seen : Seen, status : Nat,
           copies : Nat, cutoff : Int, copy : States]
Bundle == [form : {"none", "partial", "whole", "mixed"}, at : Names, overall : Overalls,
           seen : Seen, status : Nat, copies : Nat]

Typed ==
  /\ clock \in Names /\ level \in [Checks -> {"ok", "warning", "error"}]
  /\ update \in Nat /\ changes \in Nat /\ runs \in Nat
  /\ bundle \in [Names -> Bundle] /\ dirs \subseteq Nat /\ cut \subseteq Nat
  /\ state \in States /\ job \in [Admins -> Job] /\ shared \subseteq Names

\* A run of diagnostics, until its bundle is closed and until its finally.
Gathering  == {"status", "storage", "system", "optional", "rest", "copies", "tar", "writing"}
Diagnosing == Gathering \cup {"load", "record", "finally"}

\* Runs are told apart by their numbers; two that are at work under one name
\* have been noticed.
Apart ==
  /\ dirs \subseteq 1 .. runs
  /\ \A p \in Admins : job[p].run <= runs
  /\ \A p \in Admins : job[p].pc \in Diagnosing => job[p].run \in dirs /\ job[p].name <= clock
  /\ \A p, q \in Admins :
       p # q /\ job[p].pc \in Diagnosing /\ job[q].pc \in Diagnosing =>
         /\ job[p].run # job[q].run
         /\ job[p].name = job[q].name => job[p].name \in shared
  /\ \A p \in Admins : job[p].pc = "removing" => job[p].cutoff <= clock - Retention

\* A bundle is not closed before the second it is named after.
Dated == \A n \in Names : bundle[n].form # "none" => n <= bundle[n].at /\ bundle[n].at <= clock

\* What may be recorded of a name.
Good(n) == \/ bundle[n].form = "whole"
           \/ bundle[n].form = "none" /\ clock > n + Retention
           \/ n \in shared

\* Whatever a run is about to write to state.json may be there.
Copied ==
  /\ \A p \in Admins : job[p].pc \in {"record", "record_cleanup"} /\ job[p].copy.bundle # -1 =>
       Good(job[p].copy.bundle)
  /\ \A p \in Admins : job[p].pc \in {"load", "record"} => Good(job[p].name)

\* Until a run has closed its bundle nobody has heard of the name.
Unheard ==
  \A p \in Admins : job[p].pc \in Gathering /\ job[p].name \notin shared =>
    /\ bundle[job[p].name].form \in IF job[p].pc = "writing" THEN {"none", "partial"} ELSE {"none"}
    /\ state.bundle # job[p].name
    /\ \A q \in Admins : job[q].pc \in {"record", "record_cleanup"} =>
         job[q].copy.bundle # job[p].name

\* What a run has seen so far, and what it has made of it.
Checked(pc) == CASE pc \in {"status", "storage"} -> {}
                 [] pc = "system"                -> {"storage"}
                 [] pc = "optional"              -> {"storage", "system"}
                 [] OTHER                        -> Checks

Judged(overall, seen, done) ==
  /\ overall = "ok" => \A c \in done : <<c, "ok">> \in seen
  /\ overall = "error" => \E c \in Checks : <<c, "error">> \in seen
  /\ overall = "degraded" => \E c \in Checks : <<c, "warning">> \in seen
  /\ overall # "error" => \A c \in done : \E l \in {"ok", "warning"} : <<c, l>> \in seen

Watching ==
  \A p \in Admins : job[p].pc \in Gathering =>
    /\ \A c \in Checks : <<c, level[c]>> \in job[p].seen
    /\ Judged(job[p].overall, job[p].seen, Checked(job[p].pc))
    /\ job[p].status <= update
    /\ job[p].pc \in {"tar", "writing"} => job[p].status <= job[p].copies

Inv == /\ Typed /\ Apart /\ Dated /\ Copied /\ Unheard /\ RecordedIsWhole
       /\ Watching /\ BundleIsEarned

-----------------------------------------------------------------------------
(* What the operators do. *)

LEMMA TypeIs == TypeOK <=> Typed
BY DEF TypeOK, Typed, Job, Bundle, Places

LEMMA Bounds ==
  /\ Retention \in Nat /\ MaxClock \in Nat /\ 0 \in Names /\ Names \subseteq Nat
  /\ NoBundle \in Bundle /\ NoBundle.form = "none"
  /\ Idle \in Job /\ Idle.pc = "idle" /\ Idle.run = 0 /\ Idle.seen = {}
BY RetentionAssumption, MaintenanceBounds
DEF Names, NoBundle, Bundle, Idle, Job, Places, Overalls, Seen, States

\* A step of one administrator's command.
LEMMA TurnIs ==
  ASSUME job \in [Admins -> Job], NEW p \in Admins, NEW r \in Job, job' = [job EXCEPT ![p] = r]
  PROVE  /\ job' \in [Admins -> Job] /\ job'[p] = r
         /\ \A q \in Admins \ {p} : job'[q] = job[q]
OBVIOUS

\* The step of a command that ends its gathering, or itself.
LEMMA EndIs ==
  ASSUME job \in [Admins -> Job], NEW p \in Admins, NEW pc \in Places, Ends(p, pc)
  PROVE  /\ job' \in [Admins -> Job] /\ job'[p].pc = pc
         /\ job'[p].run = job[p].run /\ job'[p].name = job[p].name
         /\ \A q \in Admins \ {p} : job'[q] = job[q]
<1> DEFINE r == [Idle EXCEPT !.pc = pc, !.run = job[p].run, !.name = job[p].name]
<1>1. r \in Job /\ r.pc = pc /\ r.run = job[p].run /\ r.name = job[p].name
  BY Bounds DEF Job
<1>2. job' = [job EXCEPT ![p] = r]
  BY DEF Ends
<1> HIDE DEF r
<1> QED
  BY <1>1, <1>2, TurnIs

LEMMA GoIs ==
  ASSUME job \in [Admins -> Job], NEW p \in Admins, NEW pc \in Places, Goes(p, pc)
  PROVE  /\ job' \in [Admins -> Job] /\ job'[p] = [job[p] EXCEPT !.pc = pc]
         /\ [job[p] EXCEPT !.pc = pc] \in Job
         /\ \A q \in Admins \ {p} : job'[q] = job[q]
<1>1. [job[p] EXCEPT !.pc = pc] \in Job
  BY DEF Job
<1>2. job' = [job EXCEPT ![p] = [job[p] EXCEPT !.pc = pc]]
  BY DEF Goes
<1> QED
  BY <1>1, <1>2

\* The levels a check can find, and what is made of them.
LEMMA LevelsAre ==
  /\ Checks = {"storage", "system", "optional"}
  /\ \A c \in Checks : Levels(c) \in SUBSET {"ok", "warning", "error"}
BY DEF Checks, Levels

LEMMA WorseIs ==
  ASSUME NEW overall \in Overalls, NEW seen \in Seen, NEW done \in SUBSET Checks,
         NEW c \in Checks, NEW l \in {"ok", "warning", "error"},
         Judged(overall, seen, done), <<c, l>> \in seen
  PROVE  /\ Worse(overall, l) \in Overalls
         /\ Judged(Worse(overall, l), seen, done \cup {c})
<1>1. CASE l = "error"
  BY <1>1 DEF Worse, Judged, Overalls
<1>2. CASE l = "warning"
  <2>1. Worse(overall, l) = IF overall = "error" THEN "error" ELSE "degraded"
    BY <1>2 DEF Worse
  <2> QED BY <1>2, <2>1 DEF Judged, Overalls
<1>3. CASE l = "ok"
  <2>1. Worse(overall, l) = overall
    BY <1>3 DEF Worse
  <2> QED BY <1>3, <2>1 DEF Judged, Overalls
<1> QED
  BY <1>1, <1>2, <1>3

-----------------------------------------------------------------------------
(* Every step keeps the invariant. *)

LEMMA InvInit == Init => Inv
<1> SUFFICES ASSUME Init PROVE Inv
  OBVIOUS
<1>1. \A p \in Admins : job[p] = Idle
  BY DEF Init
<1>2. \A n \in Names : bundle[n] = NoBundle
  BY DEF Init
<1>3. Typed
  <2>1. level \in [Checks -> {"ok", "warning", "error"}] /\ state \in States
    BY Bounds DEF Init, States
  <2>2. bundle \in [Names -> Bundle] /\ job \in [Admins -> Job]
    BY Bounds DEF Init
  <2> QED BY <2>1, <2>2, Bounds DEF Init, Typed
<1>4. Apart /\ Dated /\ Copied /\ Unheard /\ Watching
  BY <1>1, <1>2, Bounds
  DEF Init, Apart, Dated, Copied, Unheard, Watching, Diagnosing, Gathering
<1>5. RecordedIsWhole /\ BundleIsEarned
  BY <1>2, Bounds DEF Init, RecordedIsWhole, BundleIsEarned
<1> QED
  BY <1>3, <1>4, <1>5 DEF Inv

\* A step that changes nothing but what one command knows.
LEMMA QuietInv ==
  ASSUME Inv, NEW p \in Admins,
         UNCHANGED <<clock, level, update, changes, bundle, dirs, state, runs, shared>>,
         cut' \subseteq Nat, job' \in [Admins -> Job], \A q \in Admins \ {p} : job'[q] = job[q],
         job'[p].run <= runs, job'[p].pc # "removing",
         job'[p].pc \in Diagnosing =>
           job[p].pc \in Diagnosing /\ job'[p].run = job[p].run /\ job'[p].name = job[p].name,
         job'[p].pc \in {"record", "record_cleanup"} => job'[p].copy = state,
         job'[p].pc \in {"load", "record"} => job[p].pc = "load",
         job'[p].pc \in Gathering =>
           /\ job[p].pc \in Gathering \ {"writing"} /\ job'[p].pc # "writing"
           /\ \A c \in Checks : <<c, level[c]>> \in job'[p].seen
           /\ Judged(job'[p].overall, job'[p].seen, Checked(job'[p].pc))
           /\ job'[p].status <= update
           /\ job'[p].pc = "tar" => job'[p].status <= job'[p].copies
  PROVE  Inv'
<1>1. Typed'
  BY DEF Inv, Typed
<1>2. Apart'
  BY DEF Inv, Apart
<1>3. Dated' /\ RecordedIsWhole' /\ BundleIsEarned'
  BY DEF Inv, Dated, RecordedIsWhole, BundleIsEarned, Earned
<1>4. \A n : Good(n)' <=> Good(n)
  BY DEF Good
<1>5. state.bundle # -1 => Good(state.bundle)
  BY DEF Inv, RecordedIsWhole, Good
<1>6. Copied'
  BY <1>4, <1>5 DEF Inv, Copied, Diagnosing
<1>7. Unheard'
  BY DEF Inv, Unheard, Gathering, Diagnosing
<1>8. Watching'
  BY DEF Inv, Watching, Gathering, Judged, Checked
<1> QED
  BY <1>1, <1>2, <1>3, <1>6, <1>7, <1>8 DEF Inv

LEMMA ReportStatusInv ==
  ASSUME Inv, NEW p \in Admins, ReportStatus(p)
  PROVE  Inv'
<1> DEFINE r == [job[p] EXCEPT !.pc = "storage", !.status = update]
<1>1. Typed /\ job \in [Admins -> Job] /\ update \in Nat /\ job[p] \in Job
  BY DEF Inv, Typed
<1>2. /\ r \in Job /\ r.pc = "storage" /\ r.status = update /\ r.run = job[p].run
      /\ r.name = job[p].name /\ r.overall = job[p].overall /\ r.seen = job[p].seen
  BY <1>1 DEF Job, Places
<1>3. job' = [job EXCEPT ![p] = r]
  BY <1>1 DEF ReportStatus
<1> HIDE DEF r
<1>4. job' \in [Admins -> Job] /\ job'[p] = r /\ \A q \in Admins \ {p} : job'[q] = job[q]
  BY <1>1, <1>2, <1>3, TurnIs
<1>5. /\ job[p].pc = "status"
      /\ UNCHANGED <<clock, level, update, changes, bundle, dirs, state, runs, shared, cut>>
  BY DEF ReportStatus, At, terminal, disk, history
<1>6. /\ \A c \in Checks : <<c, level[c]>> \in r.seen
      /\ Judged(r.overall, r.seen, Checked(r.pc))
  BY <1>2, <1>5 DEF Inv, Watching, Gathering, Checked
<1>7. r.run <= runs /\ cut' \subseteq Nat
  BY <1>1, <1>2, <1>5 DEF Inv, Apart, Typed
<1> QED
  BY <1>1, <1>2, <1>4, <1>5, <1>6, <1>7, QuietInv DEF Gathering, Diagnosing

LEMMA CheckInv ==
  ASSUME Inv, NEW p \in Admins, NEW c \in Checks, NEW next \in {"system", "optional", "rest"},
         Check(p, c, next), Checked(next) = Checked(c) \cup {c}
  PROVE  Inv'
<1> DEFINE o == Worse(job[p].overall, level[c])
           r == [job[p] EXCEPT !.pc = next, !.overall = o]
<1>1. Typed /\ job \in [Admins -> Job] /\ job[p] \in Job
  BY DEF Inv, Typed
<1>2. /\ job[p].pc = c /\ c \in Gathering \ {"writing", "status"}
      /\ UNCHANGED <<clock, level, update, changes, bundle, dirs, state, runs, shared, cut>>
  BY LevelsAre DEF Check, At, terminal, disk, history, Gathering
<1>3. /\ \A d \in Checks : <<d, level[d]>> \in job[p].seen
      /\ Judged(job[p].overall, job[p].seen, Checked(c)) /\ job[p].status <= update
  BY <1>2 DEF Inv, Watching
<1>4. Checked(c) \in SUBSET Checks
  BY LevelsAre DEF Checked
<1>5. o \in Overalls /\ Judged(o, job[p].seen, Checked(c) \cup {c})
  <2>1. job[p].overall \in Overalls /\ job[p].seen \in Seen
    BY <1>1 DEF Job
  <2>2. level[c] \in {"ok", "warning", "error"}
    BY <1>1 DEF Typed
  <2> QED BY <1>3, <1>4, <2>1, <2>2, WorseIs
<1>6. job' = [job EXCEPT ![p] = r]
  BY <1>1 DEF Check
<1> HIDE DEF o
<1>7. /\ r \in Job /\ r.pc = next /\ r.overall = o /\ r.run = job[p].run
      /\ r.name = job[p].name /\ r.seen = job[p].seen /\ r.status = job[p].status
  BY <1>1, <1>5 DEF Job, Places
<1> HIDE DEF r
<1>8. job' \in [Admins -> Job] /\ job'[p] = r /\ \A q \in Admins \ {p} : job'[q] = job[q]
  BY <1>1, <1>6, <1>7, TurnIs
<1>9. r.run <= runs /\ cut' \subseteq Nat
  BY <1>1, <1>2, <1>7 DEF Inv, Apart, Typed
<1>10. Judged(r.overall, r.seen, Checked(r.pc))
  BY <1>5, <1>7
<1>11. /\ r.pc \in Gathering \ {"writing", "tar"} /\ r.pc \notin {"record", "record_cleanup", "load"}
       /\ r.pc # "removing"
  BY <1>7 DEF Gathering
<1>12. job[p].pc \in Diagnosing
  BY <1>2 DEF Diagnosing
<1> QED
  BY <1>2, <1>3, <1>7, <1>8, <1>9, <1>10, <1>11, <1>12, QuietInv

LEMMA ReportHealthInv ==
  ASSUME Inv, NEW p \in Admins, ReportHealth(p)
  PROVE  Inv'
<1>1. /\ "storage" \in Checks /\ "system" \in Checks /\ "optional" \in Checks
      /\ Checked("system") = Checked("storage") \cup {"storage"}
      /\ Checked("optional") = Checked("system") \cup {"system"}
      /\ Checked("rest") = Checked("optional") \cup {"optional"}
  BY LevelsAre DEF Checked
<1> QED
  BY <1>1, CheckInv DEF ReportHealth

LEMMA ReportRestInv ==
  ASSUME Inv, NEW p \in Admins, ReportRest(p)
  PROVE  Inv'
<1> DEFINE r == [job[p] EXCEPT !.pc = "copies"]
<1>1. Typed /\ job \in [Admins -> Job] /\ job[p] \in Job /\ "copies" \in Places
  BY DEF Inv, Typed, Places
<1>2. /\ job[p].pc = "rest" /\ Goes(p, "copies")
      /\ UNCHANGED <<clock, level, update, changes, bundle, dirs, state, runs, shared, cut>>
  BY DEF ReportRest, At, terminal, disk, history
<1>3. job' \in [Admins -> Job] /\ job'[p] = r /\ \A q \in Admins \ {p} : job'[q] = job[q]
  BY <1>1, <1>2, GoIs
<1>4. /\ r.pc = "copies" /\ r.overall = job[p].overall /\ r.run = job[p].run
      /\ r.name = job[p].name /\ r.seen = job[p].seen /\ r.status = job[p].status
  BY <1>1 DEF Job
<1> HIDE DEF r
<1>5. /\ \A c \in Checks : <<c, level[c]>> \in r.seen
      /\ Judged(r.overall, r.seen, Checked(r.pc)) /\ r.status <= update
  BY <1>2, <1>4 DEF Inv, Watching, Gathering, Checked
<1>6. r.run <= runs /\ cut' \subseteq Nat
  BY <1>1, <1>2, <1>4 DEF Inv, Apart, Typed
<1> QED
  BY <1>2, <1>3, <1>4, <1>5, <1>6, QuietInv DEF Gathering, Diagnosing

LEMMA CopyStatesInv ==
  ASSUME Inv, NEW p \in Admins, CopyStates(p)
  PROVE  Inv'
<1> DEFINE r == [job[p] EXCEPT !.pc = "tar", !.copies = update]
<1>1. Typed /\ job \in [Admins -> Job] /\ update \in Nat /\ job[p] \in Job
  BY DEF Inv, Typed
<1>2. /\ r \in Job /\ r.pc = "tar" /\ r.copies = update /\ r.run = job[p].run
      /\ r.name = job[p].name /\ r.overall = job[p].overall /\ r.seen = job[p].seen
      /\ r.status = job[p].status
  BY <1>1 DEF Job, Places
<1>3. job' = [job EXCEPT ![p] = r]
  BY <1>1 DEF CopyStates
<1> HIDE DEF r
<1>4. job' \in [Admins -> Job] /\ job'[p] = r /\ \A q \in Admins \ {p} : job'[q] = job[q]
  BY <1>1, <1>2, <1>3, TurnIs
<1>5. /\ job[p].pc = "copies"
      /\ UNCHANGED <<clock, level, update, changes, bundle, dirs, state, runs, shared, cut>>
  BY DEF CopyStates, At, terminal, disk, history
<1>6. /\ \A c \in Checks : <<c, level[c]>> \in r.seen
      /\ Judged(r.overall, r.seen, Checked(r.pc)) /\ r.status <= update
  BY <1>2, <1>5 DEF Inv, Watching, Gathering, Checked
<1>7. r.run <= runs /\ cut' \subseteq Nat
  BY <1>1, <1>2, <1>5 DEF Inv, Apart, Typed
<1> QED
  BY <1>1, <1>2, <1>4, <1>5, <1>6, <1>7, QuietInv DEF Gathering, Diagnosing

\* The state is read.
LEMMA LoadInv ==
  ASSUME Inv, NEW p \in Admins, LoadState(p) \/ LoadForCleanup(p)
  PROVE  Inv'
<1> DEFINE pc == IF job[p].pc = "load" THEN "record" ELSE "record_cleanup"
           r == [job[p] EXCEPT !.pc = pc, !.copy = state]
<1>1. Typed /\ job \in [Admins -> Job] /\ state \in States /\ job[p] \in Job
  BY DEF Inv, Typed
<1>2. pc \in Places /\ pc \in {"record", "record_cleanup"}
  BY DEF Places
<1>3. /\ job' = [job EXCEPT ![p] = r] /\ job[p].pc \in {"load", "load_cleanup"}
      /\ UNCHANGED <<clock, level, update, changes, bundle, dirs, state, runs, shared, cut>>
  BY <1>1 DEF LoadState, LoadForCleanup, At, terminal, disk, history
<1>4. pc = "record" => job[p].pc = "load"
  OBVIOUS
<1> HIDE DEF pc
<1>5. r \in Job /\ r.pc = pc /\ r.copy = state /\ r.run = job[p].run /\ r.name = job[p].name
  BY <1>1, <1>2 DEF Job
<1> HIDE DEF r
<1>6. job' \in [Admins -> Job] /\ job'[p] = r /\ \A q \in Admins \ {p} : job'[q] = job[q]
  BY <1>1, <1>3, <1>5, TurnIs
<1>7. r.run <= runs /\ cut' \subseteq Nat
  BY <1>1, <1>3, <1>5 DEF Inv, Apart, Typed
<1> QED
  BY <1>2, <1>3, <1>4, <1>5, <1>6, <1>7, QuietInv DEF Gathering, Diagnosing

\* A command ends, or fails and goes to its finally.
LEMMA RaisesInv ==
  ASSUME Inv, NEW p \in Admins, Raises(p)
  PROVE  Inv'
<1>1. Typed /\ job \in [Admins -> Job] /\ "finally" \in Places
  BY DEF Inv, Typed, Places
<1>2. /\ job[p].pc \in Diagnosing /\ Ends(p, "finally")
      /\ UNCHANGED <<clock, level, update, changes, bundle, dirs, state, runs, shared, cut>>
  BY DEF Raises, terminal, disk, history, Gathering, Diagnosing
<1>3. /\ job' \in [Admins -> Job] /\ job'[p].pc = "finally"
      /\ job'[p].run = job[p].run /\ job'[p].name = job[p].name
      /\ \A q \in Admins \ {p} : job'[q] = job[q]
  BY <1>1, <1>2, EndIs
<1>4. job'[p].run <= runs /\ cut' \subseteq Nat
  BY <1>1, <1>2, <1>3 DEF Inv, Apart, Typed
<1> QED
  BY <1>2, <1>3, <1>4, QuietInv DEF Gathering, Diagnosing

LEMMA AwayInv ==
  ASSUME Inv, NEW p \in Admins, CleanupRaises(p) \/ Kill(p)
  PROVE  Inv'
<1>1. Typed /\ job \in [Admins -> Job] /\ runs \in Nat
  BY DEF Inv, Typed
<1>2. /\ job' = [job EXCEPT ![p] = Idle]
      /\ UNCHANGED <<clock, level, update, changes, bundle, dirs, state, runs, shared>>
      /\ cut' = cut \/ cut' = cut \cup ({job[p].run} \cap dirs)
  BY DEF CleanupRaises, Kill, terminal, disk, history
<1>3. job' \in [Admins -> Job] /\ job'[p] = Idle /\ \A q \in Admins \ {p} : job'[q] = job[q]
  BY <1>1, <1>2, Bounds, TurnIs
<1>4. cut' \subseteq Nat
  BY <1>1, <1>2 DEF Typed
<1> QED
  BY <1>1, <1>2, <1>3, <1>4, Bounds, QuietInv DEF Gathering, Diagnosing

LEMMA LimitJournalInv ==
  ASSUME Inv, NEW p \in Admins, LimitJournal(p)
  PROVE  Inv'
<1> DEFINE r == [job[p] EXCEPT !.pc = "load_cleanup"]
<1>1. Typed /\ job \in [Admins -> Job] /\ job[p] \in Job /\ "load_cleanup" \in Places
  BY DEF Inv, Typed, Places
<1>2. /\ Goes(p, "load_cleanup")
      /\ UNCHANGED <<clock, level, update, changes, bundle, dirs, state, runs, shared, cut>>
  BY DEF LimitJournal, terminal, disk, history
<1>3. job' \in [Admins -> Job] /\ job'[p] = r /\ \A q \in Admins \ {p} : job'[q] = job[q]
  BY <1>1, <1>2, GoIs
<1>4. r.pc = "load_cleanup" /\ r.run = job[p].run
  BY <1>1 DEF Job
<1> HIDE DEF r
<1>5. r.run <= runs /\ cut' \subseteq Nat
  BY <1>1, <1>2, <1>4 DEF Inv, Apart, Typed
<1> QED
  BY <1>2, <1>3, <1>4, <1>5, QuietInv DEF Gathering, Diagnosing

\* A run begins: it takes the name of this second, and nobody has heard of it
\* who is not in shared.
LEMMA BeginDiagnosticsInv ==
  ASSUME Inv, NEW p \in Admins, BeginDiagnostics(p)
  PROVE  Inv'
<1> DEFINE r == [Idle EXCEPT !.pc = "status", !.run = runs', !.name = clock, !.seen = Now]
<1>1. /\ Typed /\ job \in [Admins -> Job] /\ runs \in Nat /\ clock \in Names /\ dirs \subseteq 1 .. runs
      /\ level \in [Checks -> {"ok", "warning", "error"}] /\ update \in Nat
  BY DEF Inv, Typed, Apart
<1>2. /\ job[p].pc = "idle" /\ runs' = runs + 1 /\ bundle[clock].form = "none"
      /\ dirs' = dirs \cup {runs'} /\ job' = [job EXCEPT ![p] = r]
      /\ shared' = shared \cup {job[q].name : q \in {q \in Admins : job[q].run \in dirs
                                                                     /\ job[q].name = clock}}
      /\ UNCHANGED <<clock, level, update, changes, bundle, state, cut>>
  BY DEF BeginDiagnostics, Starts, At, terminal
<1>3. Now \in Seen
  BY <1>1 DEF Now, Seen
<1>4. /\ r \in Job /\ r.pc = "status" /\ r.run = runs + 1 /\ r.name = clock /\ r.seen = Now
      /\ r.overall = "ok" /\ r.status = 0
  <2>1. Idle \in Job /\ Idle.overall = "ok" /\ Idle.status = 0
    BY Bounds DEF Idle
  <2>2. runs' \in Nat /\ "status" \in Places
    BY <1>1, <1>2 DEF Places
  <2> QED BY <1>1, <1>2, <1>3, <2>1, <2>2 DEF Job
<1> HIDE DEF r
<1>5. job' \in [Admins -> Job] /\ job'[p] = r /\ \A q \in Admins \ {p} : job'[q] = job[q]
  BY <1>1, <1>2, <1>4, TurnIs
<1>6. /\ shared \subseteq shared' /\ shared' \subseteq Names
      /\ \A q \in Admins \ {p} : job[q].pc \in Diagnosing /\ job[q].name = clock => clock \in shared'
  <2>1. \A q \in Admins : job[q].pc \in Diagnosing => job[q].run \in dirs
    BY DEF Inv, Apart
  <2>2. shared \subseteq Names
    BY <1>1 DEF Typed
  <2> QED BY <1>1, <1>2, <2>1, <2>2
<1>7. Typed'
  <2>1. dirs' \subseteq Nat /\ cut' \subseteq Nat /\ runs' \in Nat
    BY <1>1, <1>2 DEF Typed
  <2> QED BY <1>1, <1>2, <1>5, <1>6, <2>1 DEF Typed
<1>8. Apart'
  <2>1. dirs' \subseteq 1 .. runs'
    BY <1>1, <1>2
  <2>2. \A q \in Admins : job'[q].run <= runs'
    BY <1>1, <1>2, <1>4, <1>5 DEF Inv, Apart, Job
  <2>3. \A q \in Admins : job'[q].pc \in Diagnosing => job'[q].run \in dirs' /\ job'[q].name <= clock'
    BY <1>1, <1>2, <1>4, <1>5, Bounds DEF Inv, Apart
  <2>4. \A q \in Admins \ {p} : job[q].run # runs + 1
    BY <1>1 DEF Inv, Apart, Job
  <2>5. \A q, s \in Admins :
          q # s /\ job'[q].pc \in Diagnosing /\ job'[s].pc \in Diagnosing =>
            /\ job'[q].run # job'[s].run
            /\ job'[q].name = job'[s].name => job'[q].name \in shared'
    <3> SUFFICES ASSUME NEW q \in Admins, NEW s \in Admins, q # s,
                        job'[q].pc \in Diagnosing, job'[s].pc \in Diagnosing
                 PROVE  /\ job'[q].run # job'[s].run
                        /\ job'[q].name = job'[s].name => job'[q].name \in shared'
      OBVIOUS
    <3>1. CASE q = p
      BY <1>4, <1>5, <1>6, <2>4, <3>1
    <3>2. CASE s = p
      BY <1>4, <1>5, <1>6, <2>4, <3>2
    <3>3. CASE q # p /\ s # p
      BY <1>5, <1>6, <3>3 DEF Inv, Apart
    <3> QED BY <3>1, <3>2, <3>3
  <2>6. \A q \in Admins : job'[q].pc = "removing" => job'[q].cutoff <= clock' - Retention
    BY <1>2, <1>4, <1>5 DEF Inv, Apart
  <2> QED BY <2>1, <2>2, <2>3, <2>5, <2>6 DEF Apart
<1>9. \A n : Good(n) => Good(n)'
  BY <1>2, <1>6 DEF Good
<1>10. clock \notin shared' => ~Good(clock)
  BY <1>1, <1>2, <1>6, Bounds DEF Good
<1>11. state.bundle # -1 => Good(state.bundle)
  BY DEF Inv, RecordedIsWhole, Good
<1>12. Copied'
  BY <1>4, <1>5, <1>9 DEF Inv, Copied
<1>13. Unheard'
  <2> SUFFICES ASSUME NEW q \in Admins, job'[q].pc \in Gathering, job'[q].name \notin shared'
               PROVE  /\ bundle[job'[q].name].form \in IF job'[q].pc = "writing" THEN {"none", "partial"}
                                                                            ELSE {"none"}
                      /\ state.bundle # job'[q].name
                      /\ \A s \in Admins : job'[s].pc \in {"record", "record_cleanup"} =>
                           job'[s].copy.bundle # job'[q].name
    BY <1>2 DEF Unheard
  <2>1. CASE q = p
    <3>1. clock # -1
      BY <1>1, Bounds
    <3>2. \A s \in Admins : job[s].pc \in {"record", "record_cleanup"} => job[s].copy.bundle # clock
      BY <1>4, <1>5, <1>10, <2>1, <3>1 DEF Inv, Copied
    <3> QED BY <1>2, <1>4, <1>5, <1>10, <1>11, <2>1, <3>1, <3>2
  <2>2. CASE q # p
    BY <1>4, <1>5, <1>6, <2>2 DEF Inv, Unheard
  <2> QED BY <2>1, <2>2
<1>14. RecordedIsWhole'
  <2>1. state.bundle # -1 => Good(state.bundle)'
    BY <1>2, <1>9, <1>11
  <2> QED BY <1>2, <2>1 DEF RecordedIsWhole, Good
<1>15. Dated' /\ BundleIsEarned'
  BY <1>2 DEF Inv, Dated, BundleIsEarned, Earned
<1>16. Watching'
  <2>1. /\ \A c \in Checks : <<c, level[c]>> \in Now
        /\ Judged("ok", Now, Checked("status"))
    BY DEF Now, Judged, Checked
  <2> QED BY <1>1, <1>2, <1>4, <1>5, <2>1 DEF Inv, Watching, Gathering
<1> QED
  BY <1>7, <1>8, <1>12, <1>13, <1>14, <1>15, <1>16 DEF Inv

LEMMA RefuseNameInv ==
  ASSUME Inv, NEW p \in Admins, RefuseName(p)
  PROVE  Inv'
<1>1. Typed /\ runs \in Nat
  BY DEF Inv, Typed
<1>2. /\ runs' = runs + 1 /\ dirs' = dirs \cup {runs'} /\ cut' = cut \cup {runs'}
      /\ UNCHANGED <<clock, level, update, changes, bundle, state, shared, job>>
  BY DEF RefuseName, Starts, terminal
<1>3. Typed'
  BY <1>1, <1>2 DEF Typed
<1>4. Apart'
  <2>1. dirs' \subseteq 1 .. runs' /\ \A q \in Admins : job[q].run <= runs'
    BY <1>1, <1>2 DEF Inv, Apart, Typed, Job
  <2> QED BY <1>2, <2>1 DEF Inv, Apart
<1>5. Dated' /\ Copied' /\ Unheard' /\ RecordedIsWhole'
  BY <1>2 DEF Inv, Dated, Copied, Unheard, RecordedIsWhole, Good
<1>6. Watching' /\ BundleIsEarned'
  BY <1>2 DEF Inv, Watching, Judged, BundleIsEarned, Earned
<1> QED
  BY <1>3, <1>4, <1>5, <1>6 DEF Inv

\* A run that has been gathering writes, closes or removes its bundle: others
\* stay, and this one's name is one that nobody has recorded.
LEMMA OwnBundleInv ==
  ASSUME Inv, NEW p \in Admins, NEW n \in Names, n = job[p].name, job[p].pc \in Gathering,
         job' \in [Admins -> Job], \A q \in Admins \ {p} : job'[q] = job[q],
         job'[p].pc \in {"writing", "load", "finally"}, job'[p].run = job[p].run, job'[p].name = n,
         bundle' \in [Names -> Bundle], \A m \in Names \ {n} : bundle'[m] = bundle[m],
         bundle'[n].form = "none" \/ bundle'[n].at = clock,
         job'[p].pc = "writing" /\ n \notin shared => bundle'[n].form \in {"none", "partial"},
         job'[p].pc = "load" => bundle'[n].form = "whole" \/ n \in shared,
         UNCHANGED <<clock, level, update, changes, dirs, state, runs, shared, cut>>
  PROVE  Typed' /\ Apart' /\ Dated' /\ Copied' /\ Unheard' /\ RecordedIsWhole'
<1>1. Typed /\ n \in Nat /\ clock \in Nat /\ n <= clock /\ (n \notin shared => state.bundle # n)
  BY Bounds DEF Inv, Typed, Apart, Unheard, Diagnosing
<1>2. Typed'
  BY <1>1 DEF Typed
<1>3. Apart'
  BY DEF Inv, Apart, Diagnosing
<1>4. Dated'
  BY <1>1 DEF Inv, Dated
<1>5. \A m \in Names : m # n \/ n \in shared => (Good(m) => Good(m)')
  BY DEF Good
<1>6. \A q \in Admins : job[q].pc \in {"record", "record_cleanup"} =>
         job[q].copy.bundle \in Names \cup {-1} /\ (n \notin shared => job[q].copy.bundle # n)
  BY <1>1 DEF Inv, Typed, Unheard, Job, States
<1>7. \A q \in Admins \ {p} : job[q].pc \in Diagnosing =>
         job[q].name \in Names /\ (n \notin shared => job[q].name # n)
  BY <1>1 DEF Inv, Typed, Apart, Diagnosing, Job
<1>8. Copied'
  <2>1. ASSUME NEW q \in Admins, job'[q].pc \in {"record", "record_cleanup"},
               job'[q].copy.bundle # -1
        PROVE  Good(job[q].copy.bundle)'
    <3>1. q # p /\ job'[q] = job[q]
      BY <2>1
    <3>2. Good(job[q].copy.bundle) /\ job[q].copy.bundle \in Names
      BY <1>6, <2>1, <3>1 DEF Inv, Copied
    <3>3. job[q].copy.bundle # n \/ n \in shared
      BY <1>6, <2>1, <3>1
    <3> QED BY <1>5, <3>1, <3>2, <3>3
  <2>2. ASSUME NEW q \in Admins, job'[q].pc \in {"load", "record"}
        PROVE  Good(job[q].name)'
    <3>1. CASE q = p
      BY <2>2, <3>1 DEF Good
    <3>2. CASE q # p
      <4>1. Good(job[q].name) /\ job[q].name \in Names /\ (job[q].name # n \/ n \in shared)
        BY <1>7, <2>2, <3>2 DEF Inv, Copied, Diagnosing
      <4> QED BY <1>5, <3>2, <4>1
    <3> QED BY <3>1, <3>2
  <2> QED BY <2>1, <2>2 DEF Copied
<1>9. Unheard'
  <2>1. \A q \in Admins \ {p} : job[q].pc \in Gathering /\ job[q].name \notin shared =>
          bundle'[job[q].name].form = bundle[job[q].name].form
    BY <1>7 DEF Diagnosing
  <2> QED BY <1>1, <1>6, <2>1 DEF Inv, Unheard, Gathering
<1>10. RecordedIsWhole'
  <2>1. state.bundle # -1 => state.bundle \in Names /\ Good(state.bundle)
    BY <1>1 DEF Inv, RecordedIsWhole, Good, Typed, States
  <2>2. state.bundle # -1 => Good(state.bundle)'
    BY <1>1, <1>5, <2>1
  <2> QED BY <2>2 DEF RecordedIsWhole, Good
<1> QED
  BY <1>2, <1>3, <1>4, <1>8, <1>9, <1>10

LEMMA OpenBundleInv ==
  ASSUME Inv, NEW p \in Admins, OpenBundle(p)
  PROVE  Inv'
<1> DEFINE n == job[p].name
           r == [job[p] EXCEPT !.pc = "writing"]
           form == IF {q \in Admins \ {p} : At(q, "writing") /\ job[q].name = n} = {}
                   THEN "partial" ELSE "mixed"
           b == [NoBundle EXCEPT !.form = form, !.at = clock]
<1>1. /\ Typed /\ job \in [Admins -> Job] /\ job[p] \in Job /\ "writing" \in Places
      /\ bundle \in [Names -> Bundle] /\ n \in Names /\ clock \in Names
  BY DEF Inv, Typed, Places, Job
<1>2. /\ job[p].pc = "tar" /\ Goes(p, "writing") /\ bundle' = [bundle EXCEPT ![n] = b]
      /\ UNCHANGED <<clock, level, update, changes, dirs, state, runs, shared, cut>>
  BY DEF OpenBundle, At, terminal, history
<1>3. job' \in [Admins -> Job] /\ job'[p] = r /\ \A q \in Admins \ {p} : job'[q] = job[q]
  BY <1>1, <1>2, GoIs
<1>4. /\ r.pc = "writing" /\ r.overall = job[p].overall /\ r.run = job[p].run
      /\ r.name = n /\ r.seen = job[p].seen /\ r.status = job[p].status
      /\ r.copies = job[p].copies
  BY <1>1 DEF Job
<1> HIDE DEF r
<1>5. form \in {"partial", "mixed"} /\ (n \notin shared => form = "partial")
  BY <1>2 DEF Inv, Apart, At, Gathering, Diagnosing
<1> HIDE DEF form
<1>6. b \in Bundle /\ b.form = form /\ b.at = clock
  BY <1>1, <1>5, Bounds DEF Bundle, NoBundle
<1> HIDE DEF b
<1>7. /\ bundle' \in [Names -> Bundle] /\ bundle'[n] = b
      /\ \A m \in Names \ {n} : bundle'[m] = bundle[m]
  BY <1>1, <1>2, <1>6
<1>8. Typed' /\ Apart' /\ Dated' /\ Copied' /\ Unheard' /\ RecordedIsWhole'
  BY <1>1, <1>2, <1>3, <1>4, <1>5, <1>6, <1>7, OwnBundleInv DEF Gathering
<1>9. Watching'
  <2>1. /\ \A c \in Checks : <<c, level[c]>> \in r.seen
        /\ Judged(r.overall, r.seen, Checked(r.pc)) /\ r.status <= update
        /\ r.status <= r.copies
    BY <1>2, <1>4 DEF Inv, Watching, Gathering, Checked
  <2> QED BY <1>2, <1>3, <2>1 DEF Inv, Watching
<1>10. BundleIsEarned'
  BY <1>5, <1>6, <1>7 DEF Inv, BundleIsEarned, Earned
<1> QED
  BY <1>8, <1>9, <1>10 DEF Inv

\* What goes into the bundle is what the run has watched.
LEMMA FinishBundleInv ==
  ASSUME Inv, NEW p \in Admins, FinishBundle(p)
  PROVE  Inv'
<1> DEFINE n == job[p].name
           form == IF bundle[n].form = "partial" THEN "whole" ELSE bundle[n].form
           b == [form    |-> form,
                 at      |-> clock, overall |-> job[p].overall, seen |-> job[p].seen,
                 status  |-> job[p].status, copies |-> job[p].copies]
<1>1. /\ Typed /\ job \in [Admins -> Job] /\ job[p] \in Job /\ "load" \in Places
      /\ bundle \in [Names -> Bundle] /\ n \in Names /\ clock \in Names
  BY DEF Inv, Typed, Places, Job
<1>2. /\ job[p].pc = "writing" /\ Ends(p, "load") /\ bundle' = [bundle EXCEPT ![n] = b]
      /\ bundle[n].form # "none"
      /\ UNCHANGED <<clock, level, update, changes, dirs, state, runs, shared, cut>>
  BY DEF FinishBundle, At, terminal, history
<1>3. /\ job' \in [Admins -> Job] /\ job'[p].pc = "load"
      /\ job'[p].run = job[p].run /\ job'[p].name = n
      /\ \A q \in Admins \ {p} : job'[q] = job[q]
  BY <1>1, <1>2, EndIs
<1>4. form \in {"whole", "mixed"} /\ (n \notin shared => form = "whole")
  BY <1>1, <1>2 DEF Inv, Unheard, Gathering, Bundle
<1> HIDE DEF form
<1>5. /\ b \in Bundle /\ b.form = form /\ b.at = clock /\ b.overall = job[p].overall
      /\ b.seen = job[p].seen /\ b.status = job[p].status /\ b.copies = job[p].copies
  BY <1>1, <1>4 DEF Bundle, Job
<1> HIDE DEF b
<1>6. /\ bundle' \in [Names -> Bundle] /\ bundle'[n] = b
      /\ \A m \in Names \ {n} : bundle'[m] = bundle[m]
  BY <1>1, <1>2, <1>5
<1>7. bundle'[n].form = "whole" \/ n \in shared
  BY <1>4, <1>5, <1>6
<1>8. Typed' /\ Apart' /\ Dated' /\ Copied' /\ Unheard' /\ RecordedIsWhole'
  <2> HIDE DEF n
  <2>1. job[p].pc \in Gathering /\ n = job[p].name
    BY <1>2 DEF Gathering, n
  <2> QED BY <1>1, <1>2, <1>3, <1>5, <1>6, <1>7, <2>1, OwnBundleInv
<1>9. Watching'
  BY <1>2, <1>3 DEF Inv, Watching, Gathering
<1>10. BundleIsEarned'
  <2>1. Earned(b)
    <3>1. /\ Judged(job[p].overall, job[p].seen, Checks) /\ job[p].status <= job[p].copies
      BY <1>2 DEF Inv, Watching, Gathering, Checked
    <3> QED BY <1>5, <3>1 DEF Earned, Judged
  <2>2. \A m \in Names : bundle'[m].form = "whole" => Earned(bundle'[m])
    BY <1>6, <2>1 DEF Inv, BundleIsEarned
  <2> QED BY <2>2 DEF BundleIsEarned, Earned
<1> QED
  BY <1>8, <1>9, <1>10 DEF Inv

LEMMA BundleTooLargeInv ==
  ASSUME Inv, NEW p \in Admins, BundleTooLarge(p)
  PROVE  Inv'
<1> DEFINE n == job[p].name
<1>1. /\ Typed /\ job \in [Admins -> Job] /\ job[p] \in Job /\ "finally" \in Places
      /\ bundle \in [Names -> Bundle] /\ n \in Names
  BY DEF Inv, Typed, Places, Job
<1>2. /\ job[p].pc = "writing" /\ Ends(p, "finally") /\ bundle' = [bundle EXCEPT ![n] = NoBundle]
      /\ UNCHANGED <<clock, level, update, changes, dirs, state, runs, shared, cut>>
  BY DEF BundleTooLarge, At, terminal, history
<1>3. /\ job' \in [Admins -> Job] /\ job'[p].pc = "finally"
      /\ job'[p].run = job[p].run /\ job'[p].name = n
      /\ \A q \in Admins \ {p} : job'[q] = job[q]
  BY <1>1, <1>2, EndIs
<1>4. /\ bundle' \in [Names -> Bundle] /\ bundle'[n].form = "none"
      /\ \A m \in Names \ {n} : bundle'[m] = bundle[m]
  BY <1>1, <1>2, Bounds
<1>5. Typed' /\ Apart' /\ Dated' /\ Copied' /\ Unheard' /\ RecordedIsWhole'
  <2> HIDE DEF n
  <2>1. job[p].pc \in Gathering /\ n = job[p].name
    BY <1>2 DEF Gathering, n
  <2> QED BY <1>1, <1>2, <1>3, <1>4, <2>1, OwnBundleInv
<1>6. Watching' /\ BundleIsEarned'
  BY <1>2, <1>3, <1>4 DEF Inv, Watching, BundleIsEarned, Earned, Gathering
<1> QED
  BY <1>5, <1>6 DEF Inv

\* What a run writes to state.json is what it has copied, or its own name.
LEMMA WrittenInv ==
  ASSUME Inv, NEW p \in Admins, job' \in [Admins -> Job], \A q \in Admins \ {p} : job'[q] = job[q],
         job'[p].run <= runs, job'[p].pc \in {"idle", "finally"},
         job'[p].pc = "finally" =>
           job[p].pc \in Diagnosing /\ job'[p].run = job[p].run /\ job'[p].name = job[p].name,
         state' \in States, state'.bundle # -1 => Good(state'.bundle),
         \A q \in Admins : job[q].pc \in Gathering /\ job[q].name \notin shared =>
           state'.bundle # job[q].name,
         UNCHANGED <<clock, level, update, changes, bundle, dirs, runs, shared, cut>>
  PROVE  Inv'
<1>1. Typed'
  BY DEF Inv, Typed
<1>2. Apart'
  BY DEF Inv, Apart, Diagnosing, Gathering
<1>3. Dated' /\ BundleIsEarned'
  BY DEF Inv, Dated, BundleIsEarned, Earned
<1>4. Copied'
  BY DEF Inv, Copied, Good
<1>5. Unheard'
  BY DEF Inv, Unheard, Gathering
<1>6. RecordedIsWhole'
  BY DEF RecordedIsWhole, Good
<1>7. Watching'
  BY DEF Inv, Watching, Gathering, Judged
<1> QED
  BY <1>1, <1>2, <1>3, <1>4, <1>5, <1>6, <1>7 DEF Inv

LEMMA RecordBundleInv ==
  ASSUME Inv, NEW p \in Admins, RecordBundle(p)
  PROVE  Inv'
<1> DEFINE s == [job[p].copy EXCEPT !.bundle = job[p].name]
<1>1. /\ Typed /\ job \in [Admins -> Job] /\ job[p] \in Job /\ "finally" \in Places
      /\ \A q \in Admins : job[q] \in Job
  BY DEF Inv, Typed, Places
<1>2. /\ job[p].pc = "record" /\ Ends(p, "finally") /\ state' = s
      /\ UNCHANGED <<clock, level, update, changes, bundle, dirs, runs, shared, cut>>
  BY DEF RecordBundle, AtomicJson, At, terminal, history
<1>3. /\ job' \in [Admins -> Job] /\ job'[p].pc = "finally"
      /\ job'[p].run = job[p].run /\ job'[p].name = job[p].name
      /\ \A q \in Admins \ {p} : job'[q] = job[q]
  BY <1>1, <1>2, EndIs
<1>4. s \in States /\ s.bundle = job[p].name
  BY <1>1 DEF Job, States
<1> HIDE DEF s
<1>5. job[p].pc \in Diagnosing /\ job[p].run <= runs
  BY <1>2 DEF Diagnosing, Inv, Apart
<1>6. Good(job[p].name)
  BY <1>2 DEF Inv, Copied
<1>7. \A q \in Admins : job[q].pc \in Gathering /\ job[q].name \notin shared =>
        job[p].name # job[q].name
  BY <1>2, <1>5 DEF Inv, Apart, Gathering, Diagnosing
<1>8. Good(state'.bundle)
  BY <1>2, <1>4, <1>6
<1> QED
  BY <1>2, <1>3, <1>4, <1>5, <1>7, <1>8, WrittenInv

LEMMA RecordCleanupInv ==
  ASSUME Inv, NEW p \in Admins, RecordCleanup(p)
  PROVE  Inv'
<1> DEFINE s == [job[p].copy EXCEPT !.cleanup = clock]
<1>1. /\ Typed /\ job \in [Admins -> Job] /\ job[p] \in Job /\ clock \in Names /\ runs \in Nat
  BY DEF Inv, Typed
<1>2. /\ job[p].pc = "record_cleanup" /\ job' = [job EXCEPT ![p] = Idle] /\ state' = s
      /\ UNCHANGED <<clock, level, update, changes, bundle, dirs, runs, shared, cut>>
  BY DEF RecordCleanup, AtomicJson, At, terminal, history
<1>3. job' \in [Admins -> Job] /\ job'[p] = Idle /\ \A q \in Admins \ {p} : job'[q] = job[q]
  BY <1>1, <1>2, Bounds, TurnIs
<1>4. s \in States /\ s.bundle = job[p].copy.bundle
  BY <1>1 DEF Job, States
<1> HIDE DEF s
<1>5. job[p].copy.bundle # -1 => Good(job[p].copy.bundle)
  BY <1>2 DEF Inv, Copied
<1>6. \A q \in Admins : job[q].pc \in Gathering /\ job[q].name \notin shared =>
        job[p].copy.bundle # job[q].name
  BY <1>2 DEF Inv, Unheard
<1>7. state'.bundle # -1 => Good(state'.bundle)
  BY <1>2, <1>4, <1>5
<1>8. /\ job'[p].pc = "idle" /\ job'[p].run <= runs
  BY <1>1, <1>3, Bounds
<1> QED
  BY <1>2, <1>3, <1>4, <1>6, <1>7, <1>8, WrittenInv

\* The finally clause of a run takes away a directory nobody else has.
LEMMA FinallyInv ==
  ASSUME Inv, NEW p \in Admins, Finally(p)
  PROVE  Inv'
<1>1. /\ Typed /\ job \in [Admins -> Job] /\ runs \in Nat
  BY DEF Inv, Typed
<1>2. /\ job[p].pc = "finally" /\ job' = [job EXCEPT ![p] = Idle] /\ dirs' = dirs \ {job[p].run}
      /\ UNCHANGED <<clock, level, update, changes, bundle, state, runs, shared, cut>>
  BY DEF Finally, At, terminal, history
<1>3. job' \in [Admins -> Job] /\ job'[p] = Idle /\ \A q \in Admins \ {p} : job'[q] = job[q]
  BY <1>1, <1>2, Bounds, TurnIs
<1>4. Typed'
  BY <1>1, <1>2, <1>3 DEF Typed
<1>5. \A q \in Admins \ {p} : job[q].pc \in Diagnosing => job[q].run # job[p].run
  BY <1>2 DEF Inv, Apart, Diagnosing
<1>6. Apart'
  <2>1. /\ dirs' \subseteq 1 .. runs'
        /\ \A q \in Admins : job'[q].run <= runs'
    <3>1. dirs' \subseteq 1 .. runs'
      BY <1>2 DEF Inv, Apart
    <3>2. \A q \in Admins : job'[q].run <= runs'
      BY <1>1, <1>2, <1>3, Bounds DEF Inv, Apart
    <3> QED BY <3>1, <3>2
  <2>2. Idle.pc \notin Diagnosing /\ Idle.pc # "removing"
    BY Bounds DEF Diagnosing, Gathering
  <2>3. \A q \in Admins : job'[q].pc \in Diagnosing => job'[q].run \in dirs' /\ job'[q].name <= clock'
    BY <1>2, <1>3, <1>5, <2>2 DEF Inv, Apart
  <2>4. \A q, t \in Admins :
          q # t /\ job'[q].pc \in Diagnosing /\ job'[t].pc \in Diagnosing =>
            /\ job'[q].run # job'[t].run
            /\ job'[q].name = job'[t].name => job'[q].name \in shared'
    BY <1>2, <1>3, <2>2 DEF Inv, Apart
  <2>5. \A q \in Admins : job'[q].pc = "removing" => job'[q].cutoff <= clock' - Retention
    BY <1>2, <1>3, <2>2 DEF Inv, Apart
  <2> QED BY <2>1, <2>3, <2>4, <2>5 DEF Apart
<1>7. Dated' /\ RecordedIsWhole' /\ BundleIsEarned'
  BY <1>2 DEF Inv, Dated, RecordedIsWhole, BundleIsEarned, Earned
<1>8. Copied' /\ Unheard' /\ Watching'
  BY <1>2, <1>3, Bounds DEF Inv, Copied, Good, Unheard, Watching, Judged, Gathering
<1> QED
  BY <1>4, <1>6, <1>7, <1>8 DEF Inv

-----------------------------------------------------------------------------
(* The cleanup, and what goes on meanwhile. *)

LEMMA BeginCleanupInv ==
  ASSUME Inv, NEW p \in Admins, BeginCleanup(p)
  PROVE  Inv'
<1> DEFINE r == [Idle EXCEPT !.pc = "removing", !.run = runs', !.cutoff = clock - Retention]
<1>1. Typed /\ job \in [Admins -> Job] /\ runs \in Nat /\ clock \in Nat
  BY Bounds DEF Inv, Typed
<1>2. /\ runs' = runs + 1 /\ job' = [job EXCEPT ![p] = r]
      /\ UNCHANGED <<clock, level, update, changes, bundle, dirs, state, shared, cut>>
  BY DEF BeginCleanup, Starts, terminal, disk
<1>3. r \in Job /\ r.pc = "removing" /\ r.run = runs + 1 /\ r.cutoff = clock - Retention
  <2>1. runs' \in Nat /\ clock - Retention \in Int /\ "removing" \in Places
    BY <1>1, <1>2, Bounds DEF Places
  <2> QED BY <1>2, <2>1, Bounds DEF Job
<1> HIDE DEF r
<1>4. job' \in [Admins -> Job] /\ job'[p] = r /\ \A q \in Admins \ {p} : job'[q] = job[q]
  BY <1>1, <1>2, <1>3, TurnIs
<1>5. Typed'
  BY <1>1, <1>2, <1>4 DEF Typed
<1>6. Apart'
  <2>1. dirs' \subseteq 1 .. runs'
    BY <1>1, <1>2 DEF Inv, Apart
  <2>2. \A q \in Admins : job'[q].run <= runs'
    BY <1>1, <1>2, <1>3, <1>4 DEF Inv, Apart, Job
  <2>3. r.pc \notin Diagnosing
    BY <1>3 DEF Diagnosing, Gathering
  <2>4. \A q \in Admins : job'[q].pc = "removing" => job'[q].cutoff <= clock' - Retention
    BY <1>1, <1>2, <1>3, <1>4, Bounds DEF Inv, Apart
  <2> QED BY <1>2, <1>4, <2>1, <2>2, <2>3, <2>4 DEF Inv, Apart
<1>7. Dated' /\ RecordedIsWhole' /\ BundleIsEarned'
  BY <1>2 DEF Inv, Dated, RecordedIsWhole, BundleIsEarned, Earned
<1>8. Copied' /\ Unheard' /\ Watching'
  BY <1>2, <1>3, <1>4 DEF Inv, Copied, Good, Unheard, Watching, Judged, Gathering
<1> QED
  BY <1>5, <1>6, <1>7, <1>8 DEF Inv

\* What a cleanup removes is older than the retention allows.
LEMMA RemoveOldInv ==
  ASSUME Inv, NEW p \in Admins, RemoveOld(p)
  PROVE  Inv'
<1> DEFINE r == [job[p] EXCEPT !.pc = "journal"]
<1>1. /\ Typed /\ job \in [Admins -> Job] /\ job[p] \in Job /\ "journal" \in Places
      /\ clock \in Nat /\ bundle \in [Names -> Bundle]
  BY Bounds DEF Inv, Typed, Places
<1>2. /\ job[p].pc = "removing" /\ Goes(p, "journal")
      /\ bundle' = [n \in Names |-> IF Old(n, job[p].cutoff) THEN NoBundle ELSE bundle[n]]
      /\ UNCHANGED <<clock, level, update, changes, dirs, state, runs, shared, cut>>
  BY DEF RemoveOld, At, terminal, history
<1>3. job' \in [Admins -> Job] /\ job'[p] = r /\ \A q \in Admins \ {p} : job'[q] = job[q]
  BY <1>1, <1>2, GoIs
<1>4. r.pc = "journal" /\ r.run = job[p].run
  BY <1>1 DEF Job
<1> HIDE DEF r
<1>5. bundle' \in [Names -> Bundle]
  BY <1>1, <1>2, Bounds
<1>6. \A n \in Names : bundle'[n] = bundle[n] \/ (bundle'[n] = NoBundle /\ clock > n + Retention)
  <2> SUFFICES ASSUME NEW n \in Names
               PROVE  bundle'[n] = bundle[n] \/ (bundle'[n] = NoBundle /\ clock > n + Retention)
    OBVIOUS
  <2>1. bundle'[n] = IF bundle[n].form # "none" /\ bundle[n].at < job[p].cutoff
                     THEN NoBundle ELSE bundle[n]
    BY <1>2 DEF Old
  <2>2. ASSUME bundle[n].form # "none", bundle[n].at < job[p].cutoff
        PROVE  clock > n + Retention
    <3>1. /\ n <= bundle[n].at /\ job[p].cutoff <= clock - Retention
      BY <1>2, <2>2 DEF Inv, Dated, Apart
    <3>2. n \in Nat /\ bundle[n].at \in Nat /\ job[p].cutoff \in Int
      BY <1>1, Bounds DEF Bundle, Job
    <3> QED BY <1>1, <2>2, <3>1, <3>2, Bounds
  <2>3. CASE bundle[n].form # "none" /\ bundle[n].at < job[p].cutoff
    BY <2>1, <2>2, <2>3
  <2>4. CASE ~(bundle[n].form # "none" /\ bundle[n].at < job[p].cutoff)
    BY <2>1, <2>4
  <2> QED BY <2>3, <2>4
<1>7. \A n \in Names : Good(n) => \/ bundle'[n].form = "whole"
                                  \/ bundle'[n].form = "none" /\ clock > n + Retention
                                  \/ n \in shared
  BY <1>6, Bounds DEF Good
<1>8. Typed'
  BY <1>1, <1>2, <1>3, <1>5 DEF Typed
<1>9. Apart'
  BY <1>2, <1>3, <1>4 DEF Inv, Apart, Diagnosing, Gathering
<1>10. Dated'
  BY <1>2, <1>6, Bounds DEF Inv, Dated
<1>11. Copied'
  <2>1. \A q \in Admins : job[q].name \in Names /\ job[q].copy.bundle \in Names \cup {-1}
    BY <1>1 DEF Job, States
  <2> QED BY <1>2, <1>3, <1>4, <1>7, <2>1 DEF Inv, Copied, Good
<1>12. Unheard'
  <2>1. \A q \in Admins : job[q].name \in Names
    BY <1>1 DEF Job
  <2>2. \A n \in Names : bundle'[n].form = bundle[n].form \/ bundle'[n].form = "none"
    BY <1>6, Bounds
  <2> QED BY <1>2, <1>3, <1>4, <2>1, <2>2 DEF Inv, Unheard, Gathering
<1>13. RecordedIsWhole'
  <2>1. state.bundle # -1 => state.bundle \in Names /\ Good(state.bundle)
    BY <1>1 DEF Inv, Typed, States, RecordedIsWhole, Good
  <2> QED BY <1>2, <1>7, <2>1 DEF RecordedIsWhole
<1>14. Watching' /\ BundleIsEarned'
  BY <1>2, <1>3, <1>4, <1>6, Bounds
  DEF Inv, Watching, Judged, Gathering, BundleIsEarned, Earned
<1> QED
  BY <1>8, <1>9, <1>10, <1>11, <1>12, <1>13, <1>14 DEF Inv

LEMMA TickInv == Inv /\ Tick => Inv'
<1> SUFFICES ASSUME Inv, Tick PROVE Inv'
  OBVIOUS
<1>1. Typed /\ clock \in Nat /\ job \in [Admins -> Job]
  BY Bounds DEF Inv, Typed
<1>2. /\ clock' \in Names /\ clock' > clock
      /\ UNCHANGED <<level, update, changes, bundle, dirs, state, job, runs, shared, cut>>
  <2>1. clock' \in (clock + 1) .. MaxClock
    BY DEF Tick
  <2> QED BY <1>1, <2>1, Bounds DEF Tick, disk, history, Names
<1>3. Typed'
  BY <1>1, <1>2 DEF Typed
<1>4. Apart'
  <2>1. \A q \in Admins : job[q].name \in Nat /\ job[q].cutoff \in Int
    BY <1>1, Bounds DEF Job
  <2> QED BY <1>1, <1>2, <2>1, Bounds DEF Inv, Apart
<1>5. Dated'
  <2>1. \A n \in Names : bundle[n].at \in Nat
    BY <1>1, Bounds DEF Typed, Bundle
  <2> QED BY <1>1, <1>2, <2>1, Bounds DEF Inv, Dated
<1>6. \A n \in Names : clock > n + Retention => clock' > n + Retention
  BY <1>1, <1>2, Bounds
<1>7. Copied'
  <2>1. \A q \in Admins : job[q].name \in Names /\ job[q].copy.bundle \in Names \cup {-1}
    BY <1>1 DEF Job, States
  <2> QED BY <1>2, <1>6, <2>1 DEF Inv, Copied, Good
<1>8. RecordedIsWhole'
  <2>1. state.bundle \in Names \cup {-1}
    BY <1>1 DEF Typed, States
  <2> QED BY <1>2, <1>6, <2>1 DEF Inv, RecordedIsWhole
<1>9. Unheard' /\ Watching' /\ BundleIsEarned'
  BY <1>2 DEF Inv, Unheard, Watching, Judged, BundleIsEarned, Earned
<1> QED
  BY <1>3, <1>4, <1>5, <1>7, <1>8, <1>9 DEF Inv

LEMMA UpdaterRecordsInv == Inv /\ UpdaterRecords => Inv'
<1> SUFFICES ASSUME Inv, UpdaterRecords PROVE Inv'
  OBVIOUS
<1>1. Typed /\ update \in Nat /\ job \in [Admins -> Job] /\ changes \in Nat
  BY DEF Inv, Typed
<1>2. /\ update' = update + 1 /\ changes' = changes + 1
      /\ UNCHANGED <<clock, level, bundle, dirs, state, job, runs, shared, cut>>
  BY DEF UpdaterRecords, disk, history
<1>3. Typed'
  BY <1>1, <1>2 DEF Typed
<1>4. Apart' /\ Dated' /\ Copied' /\ Unheard' /\ RecordedIsWhole' /\ BundleIsEarned'
  BY <1>2 DEF Inv, Apart, Dated, Copied, Good, Unheard, RecordedIsWhole, BundleIsEarned, Earned
<1>5. Watching'
  <2>1. \A q \in Admins : job[q].status \in Nat
    BY <1>1 DEF Job
  <2>2. \A q \in Admins : job[q].status <= update => job[q].status <= update'
    BY <1>1, <1>2, <2>1
  <2> QED BY <1>2, <2>2 DEF Inv, Watching, Judged
<1> QED
  BY <1>3, <1>4, <1>5 DEF Inv

\* The terminal changes under a report: what it saw before it has still seen.
LEMMA ChangeInv ==
  ASSUME Inv, NEW c \in Checks, Change(c)
  PROVE  Inv'
<1>1. Typed /\ job \in [Admins -> Job] /\ changes \in Nat
  BY DEF Inv, Typed
<1>2. PICK l \in Levels(c) :
        /\ level' = [level EXCEPT ![c] = l]
        /\ job' = [p \in Admins |-> IF job[p].seen = {} THEN job[p]
                                    ELSE [job[p] EXCEPT !.seen = @ \cup {<<c, l>>}]]
  BY DEF Change
<1>3. changes' = changes + 1 /\ UNCHANGED <<clock, update, bundle, dirs, state, runs, shared, cut>>
  BY DEF Change, disk, history
<1>4. l \in {"ok", "warning", "error"}
  BY LevelsAre
<1>5. \A p \in Admins :
        /\ job'[p] \in Job /\ job'[p].pc = job[p].pc /\ job'[p].run = job[p].run
        /\ job'[p].name = job[p].name /\ job'[p].cutoff = job[p].cutoff
        /\ job'[p].copy = job[p].copy /\ job'[p].overall = job[p].overall
        /\ job'[p].status = job[p].status /\ job'[p].copies = job[p].copies
        /\ job[p].seen \subseteq job'[p].seen
        /\ job[p].seen # {} => <<c, l>> \in job'[p].seen
  <2> SUFFICES ASSUME NEW p \in Admins
               PROVE  /\ job'[p] \in Job /\ job'[p].pc = job[p].pc /\ job'[p].run = job[p].run
                      /\ job'[p].name = job[p].name /\ job'[p].cutoff = job[p].cutoff
                      /\ job'[p].copy = job[p].copy /\ job'[p].overall = job[p].overall
                      /\ job'[p].status = job[p].status /\ job'[p].copies = job[p].copies
                      /\ job[p].seen \subseteq job'[p].seen
                      /\ job[p].seen # {} => <<c, l>> \in job'[p].seen
    OBVIOUS
  <2> DEFINE s == job[p].seen \cup {<<c, l>>}
             r == [job[p] EXCEPT !.seen = s]
  <2>1. job[p] \in Job /\ s \in Seen
    BY <1>1, <1>4 DEF Job, Seen
  <2>2. job'[p] = IF job[p].seen = {} THEN job[p] ELSE r
    BY <1>2
  <2>3. job[p].seen \subseteq s /\ <<c, l>> \in s
    OBVIOUS
  <2> HIDE DEF s
  <2>4. /\ r \in Job /\ r.pc = job[p].pc /\ r.run = job[p].run /\ r.name = job[p].name
        /\ r.cutoff = job[p].cutoff /\ r.copy = job[p].copy /\ r.overall = job[p].overall
        /\ r.status = job[p].status /\ r.copies = job[p].copies /\ r.seen = s
    BY <2>1 DEF Job
  <2> HIDE DEF r
  <2> QED BY <2>1, <2>2, <2>3, <2>4
<1>6. Typed'
  <2>1. level' \in [Checks -> {"ok", "warning", "error"}]
    BY <1>1, <1>2, <1>4 DEF Typed
  <2>2. job' \in [Admins -> Job]
    BY <1>2, <1>5
  <2> QED BY <1>1, <1>3, <2>1, <2>2 DEF Typed
<1>7. Apart' /\ Copied' /\ Unheard'
  BY <1>3, <1>5 DEF Inv, Apart, Copied, Good, Unheard
<1>8. Dated' /\ RecordedIsWhole' /\ BundleIsEarned'
  BY <1>3 DEF Inv, Dated, RecordedIsWhole, BundleIsEarned, Earned
<1>9. Watching'
  <2> SUFFICES ASSUME NEW p \in Admins, job[p].pc \in Gathering
               PROVE  /\ \A d \in Checks : <<d, level'[d]>> \in job'[p].seen
                      /\ Judged(job[p].overall, job'[p].seen, Checked(job[p].pc))
                      /\ job[p].status <= update
                      /\ job[p].pc \in {"tar", "writing"} => job[p].status <= job[p].copies
    BY <1>3, <1>5 DEF Watching
  <2>1. /\ \A d \in Checks : <<d, level[d]>> \in job[p].seen
        /\ Judged(job[p].overall, job[p].seen, Checked(job[p].pc))
        /\ job[p].status <= update
        /\ job[p].pc \in {"tar", "writing"} => job[p].status <= job[p].copies
    BY DEF Inv, Watching
  <2>2. job[p].seen # {}
    BY <2>1
  <2>3. \A d \in Checks : level'[d] = IF d = c THEN l ELSE level[d]
    BY <1>1, <1>2 DEF Typed
  <2>4. \A d \in Checks : <<d, level'[d]>> \in job'[p].seen
    BY <1>5, <2>1, <2>2, <2>3
  <2>5. Judged(job[p].overall, job'[p].seen, Checked(job[p].pc))
    BY <1>5, <2>1 DEF Judged
  <2> QED BY <2>1, <2>4, <2>5
<1> QED
  BY <1>6, <1>7, <1>8, <1>9 DEF Inv

LEMMA InvStep == Inv /\ [Next]_vars => Inv'
<1> SUFFICES ASSUME Inv, [Next]_vars PROVE Inv'
  OBVIOUS
<1>1. CASE Tick
  BY <1>1, TickInv
<1>2. CASE UpdaterRecords
  BY <1>2, UpdaterRecordsInv
<1>3. ASSUME NEW c \in Checks, Change(c) PROVE Inv'
  BY <1>3, ChangeInv
<1>4. ASSUME NEW p \in Admins, Diagnose(p) PROVE Inv'
  <2>1. CASE BeginDiagnostics(p)
    BY <2>1, BeginDiagnosticsInv
  <2>2. CASE RefuseName(p)
    BY <2>2, RefuseNameInv
  <2>3. CASE ReportStatus(p)
    BY <2>3, ReportStatusInv
  <2>4. CASE ReportHealth(p)
    BY <2>4, ReportHealthInv
  <2>5. CASE ReportRest(p)
    BY <2>5, ReportRestInv
  <2>6. CASE CopyStates(p)
    BY <2>6, CopyStatesInv
  <2>7. CASE OpenBundle(p)
    BY <2>7, OpenBundleInv
  <2>8. CASE FinishBundle(p)
    BY <2>8, FinishBundleInv
  <2>9. CASE BundleTooLarge(p)
    BY <2>9, BundleTooLargeInv
  <2>10. CASE LoadState(p)
    BY <2>10, LoadInv
  <2>11. CASE RecordBundle(p)
    BY <2>11, RecordBundleInv
  <2>12. CASE Raises(p)
    BY <2>12, RaisesInv
  <2>13. CASE Finally(p)
    BY <2>13, FinallyInv
  <2> QED
    BY <1>4, <2>1, <2>2, <2>3, <2>4, <2>5, <2>6, <2>7, <2>8, <2>9, <2>10, <2>11, <2>12, <2>13
    DEF Diagnose
<1>5. ASSUME NEW p \in Admins, Clean(p) PROVE Inv'
  <2>1. CASE BeginCleanup(p)
    BY <2>1, BeginCleanupInv
  <2>2. CASE RemoveOld(p)
    BY <2>2, RemoveOldInv
  <2>3. CASE LimitJournal(p)
    BY <2>3, LimitJournalInv
  <2>4. CASE LoadForCleanup(p)
    BY <2>4, LoadInv
  <2>5. CASE RecordCleanup(p)
    BY <2>5, RecordCleanupInv
  <2>6. CASE CleanupRaises(p)
    BY <2>6, AwayInv
  <2> QED
    BY <1>5, <2>1, <2>2, <2>3, <2>4, <2>5, <2>6 DEF Clean
<1>6. ASSUME NEW p \in Admins, Kill(p) PROVE Inv'
  BY <1>6, AwayInv
<1>7. CASE UNCHANGED vars
  BY <1>7 DEF vars, terminal, disk, history, Inv, Typed, Apart, Dated, Copied, Good, Unheard,
              RecordedIsWhole, Watching, Judged, BundleIsEarned, Earned
<1> QED
  BY <1>1, <1>2, <1>3, <1>4, <1>5, <1>6, <1>7 DEF Next

LEMMA InvAlways == Spec => []Inv
BY InvInit, InvStep, PTL DEF Spec

-----------------------------------------------------------------------------
(* What holds of the maintenance. *)

\* The variables keep their types.
THEOREM MaintenanceTypesCorrect == Spec => []TypeOK
<1>1. Inv => TypeOK
  BY TypeIs DEF Inv
<1> QED
  BY <1>1, InvAlways, PTL

\* last_diagnostics_bundle names a whole archive, one that was kept for the
\* retention, or one whose second two runs began in: whoever runs diagnostics
\* and cleanup beside each other, and wherever they are killed.
THEOREM RecordedAlwaysWhole == Spec => []RecordedIsWhole
<1>1. Inv => RecordedIsWhole
  BY DEF Inv
<1> QED
  BY <1>1, InvAlways, PTL

\* A whole bundle claims no health that was not there while its run lasted, and
\* no copies older than its status report.
THEOREM BundleAlwaysEarned == Spec => []BundleIsEarned
<1>1. Inv => BundleIsEarned
  BY DEF Inv
<1> QED
  BY <1>1, InvAlways, PTL
================================================================================
