---------------------------- MODULE RestartPolicy ----------------------------
(***************************************************************************)
(* The loop of the kiosk session supervisor, the shell program that        *)
(* session_supervisor.py generates: it starts the client, waits for it,    *)
(* and after a failure decides between another restart, with a backoff,    *)
(* and the degraded state.                                                 *)
(*                                                                         *)
(* Time is in seconds.  Every step that waits takes its duration from a    *)
(* set, so nothing ticks; sinceWindow and sinceStart are what the program  *)
(* computes from `date`, the two histories are measured in real time.      *)
(***************************************************************************)
EXTENDS Integers, FiniteSets, Sequences

CONSTANTS
  MaxRestarts, Window, InitialBackoff, MaxBackoff, ResetAfter,  \* the profile
  InteractiveTimeout,      \* interactive_window_timeout_seconds
  Voluntary, ExitCodes,    \* voluntary_exit_codes, and those this client returns
  GraphicsWaits,           \* how long the compositor's socket may take
  SplashWaits,             \* how long the startup surface may take
  SurfaceWaits,            \* how soon a window of the session may be mapped
  RunTimes,                \* how long the client may live after that
  ScreenCrashes,           \* how long a recovery screen lives that fails
  ClockSteps,              \* what a synchronisation may add to the clock
  MaxClockSteps,           \* bound: how often it does
  MaxEvents                \* max_events

\* What load_session_supervisor_profile accepts, of the values used here.
ProfileAccepted ==
  /\ {MaxRestarts, Window, InitialBackoff, MaxBackoff, ResetAfter,
      InteractiveTimeout, MaxEvents} \subseteq Nat \ {0}
  /\ InitialBackoff <= MaxBackoff /\ MaxRestarts <= 20
  /\ InteractiveTimeout \in 2 .. 60 /\ MaxEvents <= 4096
  /\ Voluntary # {} /\ Voluntary \subseteq 0 .. 255

ASSUME ProfileAssumption == ProfileAccepted

ASSUME DurationAssumption ==
  /\ GraphicsWaits \cup SplashWaits \cup RunTimes \cup ScreenCrashes \subseteq Nat
  /\ SurfaceWaits \subseteq 0 .. (InteractiveTimeout - 1)
  /\ ClockSteps \subseteq Int
  /\ MaxClockSteps \in Nat

VARIABLES
  pc,           \* where the loop is
  attempts, backoff,
  sinceWindow,  \* now - window_start
  sinceStart,   \* now - started
  status,       \* the status file (the shared state file has the same states)
  events,       \* the event directory, in the order of publication
  stamp,        \* what the next event's name may share with the last one's
  restarts,     \* history: ages of the restarts of the last Window seconds
  failures,     \* history: ages of the failures of the last Window seconds
  clockSteps

vars == <<pc, attempts, backoff, sinceWindow, sinceStart, status, events,
          stamp, restarts, failures, clockSteps>>
counters == <<attempts, backoff>>

Least(a, b) == IF a < b THEN a ELSE b

write_status(state) == status' = [state |-> state, attempts |-> attempts']

Lifecycle == {"session-starting", "session-running", "session-stopped",
              "session-failed", "session-recovering", "session-degraded"}
Events == Lifecycle \cup {"visual-handoff-degraded", "visual-interactive-timeout"}

(***************************************************************************)
(* The name of an event's file is <second>-<pid>-<sequence>.json, and the  *)
(* sequence is not padded: of one second, the events whose number has      *)
(* gained a digit (10 after 9) sort before those whose number had not.     *)
(* An event is kept with whether it is the first that was published in its *)
(* second, and whether its number had gained a digit in that second.  A    *)
(* restart takes a second, so that a second sees a handful of events and   *)
(* its numbers gain one digit at most.                                     *)
(*                                                                         *)
(* stamp is "old" when the second of the last publication is over, and     *)
(* else says whether a digit has been gained in it: "wide" or "narrow".    *)
(***************************************************************************)
Published == [event : Events, first : BOOLEAN, wide : BOOLEAN]

\* The events of the oldest second of a queue.
OldestSecond(q) == {i \in DOMAIN q : \A j \in 2 .. i : ~q[j].first}

\* The first file in the order of the names.
LeastName(q) ==
  LET wide == {i \in OldestSecond(q) : q[i].wide}
  IN  CHOOSE i \in DOMAIN q :
        IF wide = {} THEN i = 1 ELSE i \in wide /\ \A j \in wide : i <= j

Without(q, i) == [j \in 1 .. (Len(q) - 1) |-> IF j < i THEN q[j] ELSE q[j + 1]]

\* prune_events: the directory is in its bounds before each publication.
Pruned(q) == IF Len(q) > MaxEvents THEN Without(q, LeastName(q)) ELSE q

\* An event published d seconds after the last point the loop was at.
Publications(q, s, e, d) ==
  LET put(first, wide) ==
        [queue |-> Pruned(Append(q, [event |-> e, first |-> first, wide |-> wide])),
         stamp |-> IF wide THEN "wide" ELSE "narrow"]
  IN  {put(TRUE, FALSE)}
        \cup {put(FALSE, wide) : wide \in IF d > 0 \/ s = "old" THEN {} ELSE {s = "wide", TRUE}}

publish_event(e, d) ==
  \E p \in Publications(events, stamp, e, d) : events' = p.queue /\ stamp' = p.stamp

unpublished(d) ==
  /\ stamp' = IF d > 0 THEN "old" ELSE stamp
  /\ UNCHANGED events

(***************************************************************************)
(* The passage of d seconds.                                               *)
(***************************************************************************)
Aged(history, d) == {a \in {h + d : h \in history} : a <= Window}

Elapse(d) ==
  /\ sinceWindow' = sinceWindow + d
  /\ sinceStart' = sinceStart + d
  /\ restarts' = Aged(restarts, d)
  /\ failures' = Aged(failures, d)

(***************************************************************************)
(* attempts=0 and window_start=now come before wait_for_graphics, so the   *)
(* first window has been running while the compositor starts.              *)
(***************************************************************************)
Init ==
  /\ pc = "boot"
  /\ attempts = 0
  /\ backoff = InitialBackoff
  /\ sinceWindow = 0
  /\ sinceStart = 0
  /\ status = [state |-> "none", attempts |-> 0]
  /\ events = <<>>
  /\ stamp = "old"
  /\ restarts = {}
  /\ failures = {}
  /\ clockSteps = 0

GraphicsReady ==
  /\ pc = "boot"
  /\ pc' = "starting"
  /\ \E d \in GraphicsWaits : Elapse(d) /\ unpublished(d)
  /\ UNCHANGED <<counters, status, clockSteps>>

GraphicsMissing ==
  /\ pc = "boot"
  /\ pc' = "degraded"
  /\ UNCHANGED <<counters, sinceWindow, sinceStart, restarts, failures, clockSteps>>
  /\ write_status("degraded")
  /\ publish_event("session-degraded", 0)

StartSession ==
  /\ pc = "starting"
  /\ pc' = "splash"
  /\ sinceStart' = 0
  /\ UNCHANGED <<counters, sinceWindow, restarts, failures, clockSteps>>
  /\ write_status("starting")
  /\ publish_event("session-starting", 0)

\* wait_for_startup_surface: a surface that died or never came is reported,
\* and the client is started all the same.
LaunchClient ==
  /\ pc = "splash"
  /\ pc' = "client"
  /\ \E d \in SplashWaits :
       /\ Elapse(d)
       /\ unpublished(d) \/ publish_event("visual-handoff-degraded", d)
  /\ UNCHANGED <<counters, status, clockSteps>>

\* The end of the start: the splash goes and the session is running, whether
\* or not a window was found, and whether or not the client is still alive.
Running ==
  /\ pc' = "running"
  /\ UNCHANGED <<counters, clockSteps>>
  /\ write_status("running")

SurfaceMapped ==
  /\ pc = "client"
  /\ \E d \in SurfaceWaits : Elapse(d) /\ publish_event("session-running", d)
  /\ Running

\* wait_for_interactive_surface looks for windows only: a client that died
\* before mapping one is waited for until the timeout.
SurfaceTimeout ==
  /\ pc = "client"
  /\ Elapse(InteractiveTimeout)
  /\ Running
  /\ \E p \in Publications(events, stamp, "visual-interactive-timeout", InteractiveTimeout) :
       \E r \in Publications(p.queue, p.stamp, "session-running", 0) :
         events' = r.queue /\ stamp' = r.stamp

ExitVoluntary ==
  /\ pc = "running"
  /\ \E code \in ExitCodes : code \in Voluntary
  /\ \E d \in RunTimes : Elapse(d) /\ publish_event("session-stopped", d)
  /\ pc' = "stopped"
  /\ UNCHANGED <<counters, clockSteps>>
  /\ write_status("stopped")

\* The two resets, a stable run and a window that has passed.
Forgiven(runtime, elapsed) == runtime >= ResetAfter \/ elapsed > Window

\* Mutant: the failure leaves the status file as it was.
ExitFailedUnpublished ==
  /\ pc = "running"
  /\ \E code \in ExitCodes : code \notin Voluntary
  /\ \E d \in RunTimes : Elapse(d) /\ publish_event("session-failed", d)
  /\ attempts' = Least(attempts + 1, MaxRestarts)
  /\ pc' = "failed"
  /\ UNCHANGED <<backoff, status, clockSteps>>

ExitFailed ==
  /\ pc = "running"
  /\ \E code \in ExitCodes : code \notin Voluntary
  /\ \E d \in RunTimes :
       LET forgiven == Forgiven(sinceStart + d, sinceWindow + d)
       IN  /\ attempts' = (IF forgiven THEN 0 ELSE attempts) + 1
           /\ sinceWindow' = IF forgiven THEN 0 ELSE sinceWindow + d
           /\ sinceStart' = sinceStart + d
           /\ restarts' = Aged(restarts, d)
           /\ failures' = Aged(failures, d) \cup {0}
           /\ publish_event("session-failed", d)
  /\ pc' = "failed"
  /\ UNCHANGED <<backoff, clockSteps>>
  /\ write_status("failed")

\* Mutant: the last restart that is allowed is not made.
LimitReached == attempts >= MaxRestarts

LimitExceeded == attempts > MaxRestarts

GiveUp ==
  /\ pc = "failed"
  /\ LimitExceeded
  /\ pc' = "degraded"
  /\ UNCHANGED <<counters, sinceWindow, sinceStart, restarts, failures, clockSteps>>
  /\ write_status("degraded")
  /\ publish_event("session-degraded", 0)

NextBackoffOfWindow ==
  IF attempts = 1 THEN InitialBackoff ELSE Least(2 * backoff, MaxBackoff)

NextBackoff == Least(2 * backoff, MaxBackoff)

\* Mutant: the restart is not announced.
RecoverUnannounced(d) ==
  /\ pc = "failed"
  /\ ~LimitExceeded
  /\ pc' = "starting"
  /\ sinceWindow' = sinceWindow + d
  /\ sinceStart' = sinceStart + d
  /\ restarts' = Aged(restarts, d) \cup {0}
  /\ failures' = Aged(failures, d)
  /\ backoff' = NextBackoff
  /\ unpublished(d)
  /\ UNCHANGED <<attempts, status, clockSteps>>

\* The recovery is announced, and then the backoff is waited for.
RecoverAfter(d) ==
  /\ pc = "failed"
  /\ ~LimitExceeded
  /\ pc' = "starting"
  /\ sinceWindow' = sinceWindow + d
  /\ sinceStart' = sinceStart + d
  /\ restarts' = Aged(restarts, d) \cup {0}
  /\ failures' = Aged(failures, d)
  /\ backoff' = NextBackoff
  /\ UNCHANGED <<attempts, status, clockSteps>>
  /\ \E p \in Publications(events, stamp, "session-recovering", 0) : events' = p.queue
  /\ stamp' = "old"

RecoveryScreenShown == RecoverAfter(backoff)
RecoveryScreenFails == \E c \in ScreenCrashes : RecoverAfter(c + backoff)

\* The wall clock is set by network time synchronisation while the client runs.
ClockStep ==
  /\ pc = "running"
  /\ clockSteps < MaxClockSteps
  /\ clockSteps' = clockSteps + 1
  /\ \E s \in ClockSteps :
       /\ sinceWindow' = sinceWindow + s
       /\ sinceStart' = sinceStart + s
  /\ stamp' = "old"
  /\ UNCHANGED <<pc, counters, status, events, restarts, failures>>

Supervise ==
  \/ GraphicsReady \/ GraphicsMissing
  \/ StartSession \/ LaunchClient
  \/ SurfaceMapped \/ SurfaceTimeout
  \/ GiveUp \/ RecoveryScreenShown \/ RecoveryScreenFails

Exit == ExitVoluntary \/ ExitFailed

Next == Supervise \/ Exit \/ ClockStep

Spec == Init /\ [][Next]_vars

-----------------------------------------------------------------------------
\* The types of the variables: the counter and the backoff keep their bounds.
TypeOK ==
  /\ pc \in {"boot", "starting", "splash", "client", "running", "failed",
             "degraded", "stopped"}
  /\ attempts \in 0 .. (MaxRestarts + 1)
  /\ backoff \in InitialBackoff .. MaxBackoff
  /\ sinceWindow \in Int
  /\ sinceStart \in Int
  /\ status \in [state : {"none", "starting", "running", "failed", "degraded", "stopped"},
                 attempts : 0 .. (MaxRestarts + 1)]
  /\ events \in Seq(Published)
  /\ stamp \in {"old", "narrow", "wide"}
  /\ restarts \subseteq 0 .. Window
  /\ failures \subseteq 0 .. Window
  /\ clockSteps \in 0 .. MaxClockSteps

(***************************************************************************)
(* At most MaxRestarts restarts in any Window seconds, wherever they begin *)
(* and not only in the windows the program counts in: it is the backoff    *)
(* that bounds those that straddle two windows, so it must not start over  *)
(* when the counter does.                                                  *)
(***************************************************************************)
RestartsPerWindow == Cardinality(restarts) <= MaxRestarts

(***************************************************************************)
(* The loop gives up only on a client that failed more than MaxRestarts    *)
(* times in the last Window seconds: no older failure counts, and no       *)
(* failure counts that a stable run has made good.                         *)
(***************************************************************************)
DegradedIsJustified ==
  pc = "degraded" /\ attempts > 0 => Cardinality(failures) > MaxRestarts

\* The events that may follow an event.
EventSuccessors(e) ==
  CASE e = "session-starting"   -> {"session-running", "visual-handoff-degraded",
                                    "visual-interactive-timeout"}
    [] e = "visual-handoff-degraded" ->
         {"session-running", "visual-interactive-timeout"}
    [] e = "visual-interactive-timeout" -> {"session-running"}
    [] e = "session-running"    -> {"session-failed", "session-stopped"}
    [] e = "session-failed"     -> {"session-recovering", "session-degraded"}
    [] e = "session-recovering" -> {"session-starting"}
    [] e \in {"session-degraded", "session-stopped"} -> {}

(***************************************************************************)
(* What pruning has left of the event queue tells the session's story:     *)
(* every start after the first is announced by a recovery, a recovery or a *)
(* degradation by the failure that led to it.  Only the second it begins   *)
(* with may have lost an event from its middle or its end: those whose     *)
(* number gained a digit go before the earlier ones of their second.       *)
(***************************************************************************)
EventsTellTheStory ==
  \A i \in 1 .. (Len(events) - 1) :
    i \notin OldestSecond(events) =>
      events[i + 1].event \in EventSuccessors(events[i].event)

Shown == INSTANCE SessionStates WITH shown <- status.state

(***************************************************************************)
(* The status file goes through the states of a session in their order:    *)
(* the loop implements SessionStates.                                      *)
(***************************************************************************)
StatusFollowsSession == Shown!Spec

=============================================================================
