------------------------ MODULE SessionSupervisorProofs ------------------------
(***************************************************************************)
(* The session supervisor, for every profile that is accepted and any set  *)
(* of inodes: RestartPolicy, its loop and its counters in time, and        *)
(* StatePublication, the two processes that publish state.json.            *)
(***************************************************************************)
EXTENDS RestartPolicy, StatePublication, FiniteSetTheorems, SequenceTheorems,
        WellFoundedInduction, TLAPS

-----------------------------------------------------------------------------
(***************************************************************************)
(* The restart loop.                                                       *)
(***************************************************************************)

\* What the loader guarantees of each number of the profile.
LEMMA ProfileTypes ==
  /\ MaxRestarts \in Nat \ {0} /\ Window \in Nat \ {0} /\ InitialBackoff \in Nat \ {0}
  /\ MaxBackoff \in Nat \ {0} /\ ResetAfter \in Nat \ {0}
  /\ InteractiveTimeout \in Nat \ {0} /\ MaxEvents \in Nat \ {0}
  /\ InitialBackoff <= MaxBackoff
BY ProfileAssumption DEF ProfileAccepted

(***************************************************************************)
(* The two histories.                                                      *)
(***************************************************************************)
\* The failures that the counter stands for: those since window_start.
Counted(history, elapsed) == {a \in history : a <= elapsed}

\* The failures of a window are finitely many.
LEMMA CountedFinite ==
  ASSUME NEW F \in SUBSET (0 .. Window), NEW w
  PROVE  /\ Counted(F, w) \in SUBSET (0 .. Window)
         /\ IsFiniteSet(Counted(F, w))
         /\ Cardinality(Counted(F, w)) \in Nat
<1>1. Counted(F, w) \in SUBSET (0 .. Window)
  BY DEF Counted
<1>2. IsFiniteSet(0 .. Window)
  BY ProfileTypes, FS_Interval
<1>3. IsFiniteSet(Counted(F, w))
  BY <1>1, <1>2, FS_Subset
<1>4. QED
  BY <1>1, <1>3, FS_CardinalityType

\* A history stays within the window, and time makes every failure at least as old.
LEMMA AgedType ==
  ASSUME NEW F \in SUBSET (0 .. Window), NEW d \in Nat
  PROVE  /\ Aged(F, d) \in SUBSET (0 .. Window)
         /\ d > 0 \/ 0 \notin F => 0 \notin Aged(F, d)
<1>1. \A h \in F : h \in Nat /\ h + d \in Nat
  BY ProfileTypes
<1>2. \A a \in Aged(F, d) : \E h \in F : a = h + d /\ a <= Window
  BY DEF Aged
<1>3. QED
  BY <1>1, <1>2, ProfileTypes

\* As time passes, a failure of the current window stays one of it.
LEMMA AgedKeepsCounted ==
  ASSUME NEW F \in SUBSET (0 .. Window), NEW w \in Nat, NEW d \in Nat, w + d <= Window
  PROVE  Cardinality(Counted(F, w)) <= Cardinality(Counted(Aged(F, d), w + d))
<1> DEFINE S == Counted(F, w)
           T == Counted(Aged(F, d), w + d)
           f == [a \in S |-> a + d]
<1>2. IsFiniteSet(T)
  BY AgedType, CountedFinite
<1>3. f \in Injection(S, T)
  <2>1. \A a \in S : a + d \in T
    BY ProfileTypes DEF Counted, Aged
  <2>2. \A a, b \in S : a + d = b + d => a = b
    BY ProfileTypes DEF Counted
  <2>3. QED
    BY <2>1, <2>2 DEF Injection, IsInjective
<1>4. QED
  BY <1>2, <1>3, FS_Injection

\* A longer window holds no fewer failures.
LEMMA CountedMonotone ==
  ASSUME NEW F \in SUBSET (0 .. Window), NEW w \in Nat, NEW v \in Nat, w <= v
  PROVE  Cardinality(Counted(F, w)) <= Cardinality(Counted(F, v))
<1>1. Counted(F, w) \in SUBSET Counted(F, v)
  <2>1. \A a \in F : a \in Nat /\ (a <= w => a <= v)
    BY ProfileTypes
  <2>2. QED
    BY <2>1 DEF Counted
<1>2. IsFiniteSet(Counted(F, v))
  BY CountedFinite
<1>3. QED
  BY <1>1, <1>2, FS_Subset

\* A failure is one more, for every earlier one is at least a second old.
LEMMA FailureCounts ==
  ASSUME NEW F \in SUBSET (0 .. Window), 0 \notin F, NEW w \in Nat
  PROVE  Cardinality(Counted(F \cup {0}, w)) = Cardinality(Counted(F, w)) + 1
<1>1. Counted(F \cup {0}, w) = Counted(F, w) \cup {0} /\ 0 \notin Counted(F, w)
  BY DEF Counted
<1>2. IsFiniteSet(Counted(F, w))
  BY CountedFinite
<1>3. QED
  BY <1>1, <1>2, FS_AddElement

\* A set of naturals has a smallest member.
LEMMA SmallestMember ==
  ASSUME NEW T \in SUBSET Nat, T # {}
  PROVE  \E i \in T : \A j \in T : i <= j
<1> DEFINE less == {ss \in Nat \X Nat : ss[1] < ss[2]}
<1>0. IsWellFoundedOn(less, Nat)
  BY NatLessThanWellFounded DEF OpToRel
<1>1. \E i \in T : \A j \in T : <<j, i>> \notin less
  <2> HIDE DEF less
  <2>1. QED
    BY <1>0, WFMin
<1>2. \A i, j \in Nat : i < j => <<i, j>> \in less
  OBVIOUS
<1> HIDE DEF less
<1>3. \A i, j \in Nat : i <= j \/ j < i
  OBVIOUS
<1>4. QED
  BY <1>1, <1>2, <1>3

(***************************************************************************)
(* The event queue keeps its type through publication and pruning.         *)
(***************************************************************************)
LEMMA PrunedType ==
  ASSUME NEW q \in Seq(Published), NEW x \in Published
  PROVE  LET a == Append(q, x) IN
         /\ Pruned(a) \in Seq(Published)
         /\ \/ Len(a) <= MaxEvents /\ Pruned(a) = a
            \/ /\ Len(a) > MaxEvents
               /\ \E i \in OldestSecond(a) : Pruned(a) = Without(a, i)
<1> DEFINE a == Append(q, x)
<1>1. a \in Seq(Published) /\ Len(a) = Len(q) + 1 /\ Len(q) \in Nat /\ DOMAIN a = 1 .. Len(a)
  BY AppendProperties
<1> HIDE DEF a
<1>2. CASE Len(a) > MaxEvents
  <2> DEFINE wide == {i \in OldestSecond(a) : a[i].wide}
  <2>1. LeastName(a) \in OldestSecond(a)
    <3>1. 1 \in OldestSecond(a)
      BY <1>1 DEF OldestSecond
    <3>2. CASE wide = {}
      <4>1. LeastName(a) = CHOOSE i \in DOMAIN a : i = 1
        BY <3>2 DEF LeastName
      <4>2. LeastName(a) = 1
        BY <1>1, <4>1
      <4>3. QED
        BY <3>1, <4>2
    <3>3. CASE wide # {}
      <4>1. wide \in SUBSET Nat
        BY <1>1 DEF OldestSecond
      <4>2. \E i \in wide : \A j \in wide : i <= j
        BY <3>3, <4>1, SmallestMember
      <4>3. \E i \in DOMAIN a : i \in wide /\ \A j \in wide : i <= j
        BY <4>2 DEF OldestSecond
      <4>4. LeastName(a) = CHOOSE i \in DOMAIN a : i \in wide /\ \A j \in wide : i <= j
        BY <3>3 DEF LeastName
      <4>5. LeastName(a) \in wide
        BY <4>3, <4>4
      <4>6. QED
        BY <4>5
    <3>4. QED
      BY <3>2, <3>3
  <2>2. Pruned(a) = Without(a, LeastName(a))
    BY <1>2 DEF Pruned
  <2>3. Without(a, LeastName(a)) \in Seq(Published)
    <3>1. /\ Len(a) - 1 \in Nat
          /\ \A j \in 1 .. (Len(a) - 1) : a[j] \in Published /\ a[j + 1] \in Published
      BY <1>1
    <3>2. Without(a, LeastName(a)) \in [1 .. (Len(a) - 1) -> Published]
      BY <3>1 DEF Without
    <3>3. QED
      BY <3>1, <3>2
  <2>4. QED
    BY <1>2, <2>1, <2>2, <2>3 DEF a
<1>3. CASE ~(Len(a) > MaxEvents)
  BY <1>1, <1>3, ProfileTypes DEF Pruned, a
<1>4. QED
  BY <1>2, <1>3

\* One event goes in, under one name or another.
LEMMA PublicationsType ==
  ASSUME NEW q \in Seq(Published), NEW s, NEW e \in Events, NEW d, NEW p \in Publications(q, s, e, d)
  PROVE  /\ \E x \in Published : x.event = e /\ p.queue = Pruned(Append(q, x))
         /\ p.queue \in Seq(Published)
         /\ p.stamp \in {"old", "narrow", "wide"}
<1> DEFINE x(first, wide) == [event |-> e, first |-> first, wide |-> wide]
<1>1. \A first, wide \in BOOLEAN : x(first, wide) \in Published /\ x(first, wide).event = e
  BY DEF Published
<1>2. \E first, wide \in BOOLEAN : p = [queue |-> Pruned(Append(q, x(first, wide))),
                                        stamp |-> IF wide THEN "wide" ELSE "narrow"]
  BY DEF Publications
<1> HIDE DEF x
<1>3. QED
  BY <1>1, <1>2, PrunedType

(***************************************************************************)
(* Type correctness: the counter passes its limit only on the way to the   *)
(* degraded state.                                                         *)
(***************************************************************************)
LimitInv == pc \notin {"failed", "degraded"} => attempts <= MaxRestarts

TypeInv == TypeOK /\ LimitInv

\* The types hold at the start.
LEMMA TypeInitial == Init => TypeInv
BY ProfileTypes, DurationAssumption DEF Init, TypeInv, TypeOK, LimitInv

\* Time passing keeps the types of what it changes.
LEMMA ElapseType ==
  ASSUME TypeInv, NEW d \in Nat, Elapse(d)
  PROVE  /\ sinceWindow' \in Int /\ sinceStart' \in Int
         /\ restarts' \subseteq 0 .. Window /\ failures' \subseteq 0 .. Window
<1>1. restarts \in SUBSET (0 .. Window) /\ failures \in SUBSET (0 .. Window)
  BY DEF TypeInv, TypeOK
<1>2. Aged(restarts, d) \in SUBSET (0 .. Window) /\ Aged(failures, d) \in SUBSET (0 .. Window)
  BY <1>1, AgedType
<1>3. QED
  BY <1>2 DEF TypeInv, TypeOK, Elapse

\* Every step keeps the types.
LEMMA TypeInductive ==
  ASSUME TypeInv, [Next]_vars
  PROVE  TypeInv'
<1> USE ProfileTypes, DurationAssumption DEF TypeInv, TypeOK, LimitInv
<1>0. CASE UNCHANGED vars
  BY <1>0 DEF vars
<1>e. ASSUME NEW e \in Events, NEW d, publish_event(e, d)
      PROVE  events' \in Seq(Published) /\ stamp' \in {"old", "narrow", "wide"}
  BY <1>e, PublicationsType DEF publish_event
<1>u. ASSUME NEW d, unpublished(d)
      PROVE  events' \in Seq(Published) /\ stamp' \in {"old", "narrow", "wide"}
  BY <1>u DEF unpublished
<1>n. {"session-starting", "session-running", "session-stopped", "session-failed",
       "session-recovering", "session-degraded", "visual-handoff-degraded",
       "visual-interactive-timeout"} \subseteq Events
  BY DEF Events, Lifecycle
<1>1. CASE GraphicsReady
  <2>1. PICK d \in GraphicsWaits : Elapse(d) /\ unpublished(d)
    BY <1>1 DEF GraphicsReady
  <2>2. QED
    BY <1>1, <1>u, <2>1, ElapseType DEF GraphicsReady, counters
<1>2. CASE GraphicsMissing
  BY <1>2, <1>e, <1>n DEF GraphicsMissing, counters, write_status
<1>3. CASE StartSession
  BY <1>3, <1>e, <1>n DEF StartSession, counters, write_status
<1>4. CASE LaunchClient
  <2>1. PICK d \in SplashWaits :
          Elapse(d) /\ (unpublished(d) \/ publish_event("visual-handoff-degraded", d))
    BY <1>4 DEF LaunchClient
  <2>2. events' \in Seq(Published) /\ stamp' \in {"old", "narrow", "wide"}
    BY <2>1, <1>e, <1>u, <1>n
  <2>3. QED
    BY <1>4, <2>1, <2>2, ElapseType DEF LaunchClient, counters
<1>5. CASE SurfaceMapped
  <2>1. PICK d \in SurfaceWaits : Elapse(d) /\ publish_event("session-running", d) /\ d \in Nat
    BY <1>5 DEF SurfaceMapped
  <2>2. events' \in Seq(Published) /\ stamp' \in {"old", "narrow", "wide"}
    BY <2>1, <1>e, <1>n
  <2>3. QED
    BY <1>5, <2>1, <2>2, ElapseType DEF SurfaceMapped, Running, counters, write_status
<1>6. CASE SurfaceTimeout
  <2>1. events' \in Seq(Published) /\ stamp' \in {"old", "narrow", "wide"}
    <3>1. PICK p \in Publications(events, stamp, "visual-interactive-timeout", InteractiveTimeout) :
            \E r \in Publications(p.queue, p.stamp, "session-running", 0) :
              events' = r.queue /\ stamp' = r.stamp
      BY <1>6 DEF SurfaceTimeout
    <3>2. p.queue \in Seq(Published)
      BY <3>1, <1>n, PublicationsType
    <3>3. QED
      BY <3>1, <3>2, <1>n, PublicationsType
  <2>2. QED
    BY <1>6, <2>1, ElapseType DEF SurfaceTimeout, Running, counters, write_status
<1>7. CASE ExitVoluntary
  <2>1. PICK d \in RunTimes : Elapse(d) /\ publish_event("session-stopped", d)
    BY <1>7 DEF ExitVoluntary
  <2>2. events' \in Seq(Published) /\ stamp' \in {"old", "narrow", "wide"}
    BY <2>1, <1>e, <1>n
  <2>3. QED
    BY <1>7, <2>1, <2>2, ElapseType DEF ExitVoluntary, counters, write_status
<1>8. CASE ExitFailed
  <2>1. PICK d \in RunTimes :
          /\ attempts' \in {1, attempts + 1}
          /\ sinceWindow' \in {0, sinceWindow + d}
          /\ sinceStart' = sinceStart + d
          /\ restarts' = Aged(restarts, d)
          /\ failures' = Aged(failures, d) \cup {0}
          /\ publish_event("session-failed", d)
    BY <1>8 DEF ExitFailed
  <2>2. events' \in Seq(Published) /\ stamp' \in {"old", "narrow", "wide"}
    BY <2>1, <1>e, <1>n
  <2>3. attempts' \in 0 .. (MaxRestarts + 1)
    BY <1>8, <2>1 DEF ExitFailed
  <2>4. Aged(restarts, d) \in SUBSET (0 .. Window) /\ Aged(failures, d) \in SUBSET (0 .. Window)
    BY AgedType
  <2>5. QED
    BY <1>8, <2>1, <2>2, <2>3, <2>4 DEF ExitFailed, write_status
<1>9. CASE GiveUp
  BY <1>9, <1>e, <1>n DEF GiveUp, counters, write_status
<1>10. ASSUME NEW d \in Nat, RecoverAfter(d)
       PROVE  TypeInv'
  <2>1. events' \in Seq(Published) /\ stamp' = "old"
    BY <1>10, <1>n, PublicationsType DEF RecoverAfter
  <2>2. backoff' \in InitialBackoff .. MaxBackoff
    BY <1>10 DEF RecoverAfter, NextBackoff, Least
  <2>3. Aged(restarts, d) \in SUBSET (0 .. Window) /\ Aged(failures, d) \in SUBSET (0 .. Window)
    BY AgedType
  <2>4. QED
    BY <1>10, <2>1, <2>2, <2>3 DEF RecoverAfter, LimitExceeded
<1>11. CASE RecoveryScreenShown
  BY <1>10, <1>11 DEF RecoveryScreenShown
<1>12. CASE RecoveryScreenFails
  BY <1>10, <1>12 DEF RecoveryScreenFails
<1>13. CASE ClockStep
  BY <1>13 DEF ClockStep, counters
<1>14. QED
  BY <1>0, <1>1, <1>2, <1>3, <1>4, <1>5, <1>6, <1>7, <1>8, <1>9, <1>11, <1>12, <1>13
  DEF Next, Supervise, Exit

\* The types and the limit hold in every reachable state.
LEMMA TypeInvariant == Spec => []TypeInv
<1>1. TypeInv /\ [Next]_vars => TypeInv'
  BY TypeInductive
<1>2. QED
  BY <1>1, TypeInitial, PTL DEF Spec

(***************************************************************************)
(* The types of the supervisor's variables: in particular its counter      *)
(* never passes the limit by more than the failure that ends the loop, and *)
(* the backoff stays between its bounds.                                   *)
(***************************************************************************)
THEOREM RestartTypeCorrect == Spec => []TypeOK
<1>1. TypeInv => TypeOK
  BY DEF TypeInv
<1>2. QED
  BY <1>1, TypeInvariant, PTL

(***************************************************************************)
(* What the counter stands for while the clock is not set back: within a   *)
(* window, failures that lie in it, each of them a second of its own.      *)
(***************************************************************************)
CounterInv ==
  sinceWindow <= Window => attempts <= Cardinality(Counted(failures, sinceWindow))

WindowInv ==
  /\ sinceWindow \in Nat
  /\ pc = "boot" => attempts = 0
  /\ pc = "failed" => sinceWindow <= Window
  /\ pc \notin {"failed", "degraded"} => 0 \notin failures
  /\ pc = "degraded" /\ attempts > 0 => sinceWindow <= Window /\ attempts > MaxRestarts

\* Time passing keeps what the counter stands for.
LEMMA ElapseKeepsCounter ==
  ASSUME TypeInv, WindowInv, CounterInv, NEW d \in Nat, UNCHANGED attempts,
         sinceWindow' = sinceWindow + d, failures' = Aged(failures, d)
  PROVE  CounterInv' /\ sinceWindow' \in Nat /\ (d > 0 \/ 0 \notin failures => 0 \notin failures')
<1>1. failures \in SUBSET (0 .. Window) /\ sinceWindow \in Nat /\ attempts \in Nat
  BY DEF TypeInv, TypeOK, WindowInv
<1>2. d > 0 \/ 0 \notin failures => 0 \notin failures'
  BY <1>1, AgedType
<1>3. ASSUME sinceWindow' <= Window
      PROVE  attempts' <= Cardinality(Counted(failures', sinceWindow'))
  <2>1. sinceWindow + d <= Window /\ sinceWindow <= Window
    BY <1>1, <1>3, ProfileTypes
  <2>2. Cardinality(Counted(failures, sinceWindow))
          <= Cardinality(Counted(Aged(failures, d), sinceWindow + d))
    BY <1>1, <2>1, AgedKeepsCounted
  <2>3. Aged(failures, d) \in SUBSET (0 .. Window)
    BY <1>1, AgedType
  <2>4. /\ Cardinality(Counted(failures, sinceWindow)) \in Nat
        /\ Cardinality(Counted(Aged(failures, d), sinceWindow + d)) \in Nat
    BY <1>1, <2>3, CountedFinite
  <2>5. attempts <= Cardinality(Counted(failures, sinceWindow))
    BY <2>1 DEF CounterInv
  <2>6. QED
    BY <1>1, <2>2, <2>4, <2>5
<1>4. QED
  BY <1>1, <1>2, <1>3 DEF CounterInv

\* The first window begins with no failure.
LEMMA WindowInitial == Init => WindowInv /\ CounterInv
<1>1. ASSUME Init PROVE 0 <= Cardinality(Counted(failures, sinceWindow))
  <2>1. failures = {} /\ sinceWindow = 0
    BY <1>1 DEF Init
  <2>2. failures \in SUBSET (0 .. Window) /\ sinceWindow \in Int
    BY <2>1
  <2>3. Cardinality(Counted(failures, sinceWindow)) \in Nat
    BY <2>2, CountedFinite
  <2>4. QED
    BY <2>3
<1>2. QED
  BY <1>1, ProfileTypes DEF Init, WindowInv, CounterInv

\* Every step keeps what the counter stands for.
LEMMA WindowInductive ==
  ASSUME ClockSteps \subseteq Nat, TypeInv, WindowInv, CounterInv, [Next]_vars
  PROVE  (WindowInv /\ CounterInv)'
<1> USE ProfileTypes, DurationAssumption
<1>a. /\ failures \in SUBSET (0 .. Window) /\ sinceWindow \in Nat /\ attempts \in Nat
      /\ backoff \in Nat \ {0}
  BY DEF TypeInv, TypeOK, WindowInv
<1>0. CASE UNCHANGED vars
  BY <1>0 DEF vars, WindowInv, CounterInv
<1>1. CASE GraphicsReady
  <2>1. PICK d \in GraphicsWaits : Elapse(d)
    BY <1>1 DEF GraphicsReady
  <2>2. QED
    BY <1>1, <2>1, ElapseKeepsCounter DEF GraphicsReady, Elapse, counters, WindowInv
<1>2. CASE GraphicsMissing
  BY <1>2 DEF GraphicsMissing, counters, WindowInv, CounterInv
<1>3. CASE StartSession
  BY <1>3 DEF StartSession, counters, WindowInv, CounterInv
<1>4. CASE LaunchClient
  <2>1. PICK d \in SplashWaits : Elapse(d)
    BY <1>4 DEF LaunchClient
  <2>2. QED
    BY <1>4, <2>1, ElapseKeepsCounter DEF LaunchClient, Elapse, counters, WindowInv
<1>5. CASE SurfaceMapped
  <2>1. PICK d \in SurfaceWaits : Elapse(d) /\ d \in Nat
    BY <1>5 DEF SurfaceMapped
  <2>2. QED
    BY <1>5, <2>1, ElapseKeepsCounter DEF SurfaceMapped, Running, Elapse, counters, WindowInv
<1>6. CASE SurfaceTimeout
  BY <1>6, ElapseKeepsCounter DEF SurfaceTimeout, Running, Elapse, counters, WindowInv
<1>7. CASE ExitVoluntary
  <2>1. PICK d \in RunTimes : Elapse(d)
    BY <1>7 DEF ExitVoluntary
  <2>2. QED
    BY <1>7, <2>1, ElapseKeepsCounter DEF ExitVoluntary, Elapse, counters, WindowInv
<1>8. CASE ExitFailed
  <2>1. PICK d \in RunTimes :
          /\ attempts' = (IF Forgiven(sinceStart + d, sinceWindow + d) THEN 0 ELSE attempts) + 1
          /\ sinceWindow' = IF Forgiven(sinceStart + d, sinceWindow + d) THEN 0
                                                                      ELSE sinceWindow + d
          /\ failures' = Aged(failures, d) \cup {0}
    BY <1>8 DEF ExitFailed
  <2>2. pc' = "failed" /\ 0 \notin failures
    BY <1>8 DEF ExitFailed, WindowInv
  <2>3. Aged(failures, d) \in SUBSET (0 .. Window) /\ 0 \notin Aged(failures, d)
    BY <1>a, <2>2, AgedType
  <2>4. sinceWindow' \in Nat /\ sinceWindow' <= Window
    BY <1>a, <2>1 DEF Forgiven
  <2>5. Cardinality(Counted(failures', sinceWindow'))
          = Cardinality(Counted(Aged(failures, d), sinceWindow')) + 1
    BY <2>1, <2>3, <2>4, FailureCounts
  <2>6. Cardinality(Counted(Aged(failures, d), sinceWindow')) \in Nat
    BY <2>3, CountedFinite
  <2>7. CASE Forgiven(sinceStart + d, sinceWindow + d)
    BY <2>1, <2>2, <2>4, <2>5, <2>6, <2>7 DEF WindowInv, CounterInv
  <2>8. CASE ~Forgiven(sinceStart + d, sinceWindow + d)
    <3>1. sinceWindow + d <= Window /\ sinceWindow <= Window
      BY <1>a, <2>8 DEF Forgiven
    <3>2. Cardinality(Counted(failures, sinceWindow))
            <= Cardinality(Counted(Aged(failures, d), sinceWindow'))
      BY <1>a, <2>1, <2>8, <3>1, AgedKeepsCounted
    <3>3. /\ attempts <= Cardinality(Counted(failures, sinceWindow))
          /\ Cardinality(Counted(failures, sinceWindow)) \in Nat
      BY <1>a, <3>1, CountedFinite DEF CounterInv
    <3>4. attempts' <= Cardinality(Counted(failures', sinceWindow'))
      BY <1>a, <2>1, <2>5, <2>6, <2>8, <3>2, <3>3
    <3>5. QED
      BY <2>2, <2>4, <3>4 DEF WindowInv, CounterInv
  <2>9. QED
    BY <2>7, <2>8
<1>9. CASE GiveUp
  BY <1>9 DEF GiveUp, LimitExceeded, counters, WindowInv, CounterInv
<1>10. ASSUME NEW d \in Nat, d > 0, RecoverAfter(d)
       PROVE  (WindowInv /\ CounterInv)'
  <2>1. /\ pc' = "starting" /\ UNCHANGED attempts
        /\ sinceWindow' = sinceWindow + d /\ failures' = Aged(failures, d)
    BY <1>10 DEF RecoverAfter
  <2>2. CounterInv' /\ sinceWindow' \in Nat /\ 0 \notin failures'
    BY <1>10, <2>1, ElapseKeepsCounter
  <2>3. QED
    BY <2>1, <2>2 DEF WindowInv
<1>11. CASE RecoveryScreenShown
  BY <1>a, <1>10, <1>11 DEF RecoveryScreenShown
<1>12. CASE RecoveryScreenFails
  <2>1. PICK c \in ScreenCrashes : RecoverAfter(c + backoff)
    BY <1>12 DEF RecoveryScreenFails
  <2>2. c + backoff \in Nat /\ c + backoff > 0
    BY <1>a
  <2>3. QED
    BY <1>10, <2>1, <2>2
<1>13. CASE ClockStep
  <2>1. PICK s \in ClockSteps : sinceWindow' = sinceWindow + s
    BY <1>13 DEF ClockStep
  <2>2. pc = "running" /\ UNCHANGED <<pc, attempts, failures>> /\ s \in Nat
    BY <1>13 DEF ClockStep, counters
  <2>3. sinceWindow' \in Nat /\ sinceWindow <= sinceWindow'
    BY <1>a, <2>1, <2>2
  <2>4. Cardinality(Counted(failures, sinceWindow)) <= Cardinality(Counted(failures, sinceWindow'))
    BY <1>a, <2>3, CountedMonotone
  <2>5. /\ Cardinality(Counted(failures, sinceWindow)) \in Nat
        /\ Cardinality(Counted(failures, sinceWindow')) \in Nat
    BY <1>a, CountedFinite
  <2>6. CounterInv'
    BY <1>a, <2>2, <2>3, <2>4, <2>5 DEF CounterInv
  <2>7. QED
    BY <2>2, <2>3, <2>6 DEF WindowInv
<1>14. QED
  BY <1>0, <1>1, <1>2, <1>3, <1>4, <1>5, <1>6, <1>7, <1>8, <1>9, <1>11, <1>12, <1>13
  DEF Next, Supervise, Exit

(***************************************************************************)
(* Whatever the profile and the durations, a supervisor whose clock is not *)
(* set back gives up only on a client that has failed more than            *)
(* MaxRestarts times within the last Window seconds (the two resets and    *)
(* the limit of session_supervisor.py).                                    *)
(***************************************************************************)
THEOREM DegradedAlwaysJustified ==
  ASSUME ClockSteps \subseteq Nat
  PROVE  Spec => []DegradedIsJustified
<1>1. TypeInv /\ (WindowInv /\ CounterInv) /\ [Next]_vars => (WindowInv /\ CounterInv)'
  BY WindowInductive
<1>2. TypeInv /\ (WindowInv /\ CounterInv) => DegradedIsJustified
  <2>1. SUFFICES ASSUME TypeInv, WindowInv, CounterInv, pc = "degraded", attempts > 0
                 PROVE  Cardinality(failures) > MaxRestarts
    BY DEF DegradedIsJustified
  <2>2. failures \in SUBSET (0 .. Window) /\ attempts \in Nat /\ MaxRestarts \in Nat
    BY <2>1, ProfileTypes DEF TypeInv, TypeOK
  <2>3. IsFiniteSet(failures)
    <3>1. IsFiniteSet(0 .. Window)
      BY ProfileTypes, FS_Interval
    <3>2. QED
      BY <2>2, <3>1, FS_Subset
  <2>4. Counted(failures, sinceWindow) \in SUBSET failures
    BY DEF Counted
  <2>5. Cardinality(Counted(failures, sinceWindow)) <= Cardinality(failures)
    BY <2>3, <2>4, FS_Subset
  <2>6. attempts > MaxRestarts /\ attempts <= Cardinality(Counted(failures, sinceWindow))
    BY <2>1 DEF WindowInv, CounterInv
  <2>7. Cardinality(failures) \in Nat /\ Cardinality(Counted(failures, sinceWindow)) \in Nat
    BY <2>2, <2>3, FS_CardinalityType, CountedFinite
  <2>8. QED
    BY <2>2, <2>5, <2>6, <2>7
<1>3. QED
  BY <1>1, <1>2, WindowInitial, TypeInvariant, PTL DEF Spec

-----------------------------------------------------------------------------
(***************************************************************************)
(* The restarts.  The counter starts over with a new window, the backoff   *)
(* never does: it is what keeps the restarts that straddle two windows     *)
(* apart.                                                                  *)
(***************************************************************************)

\* The profiles for which it can: the backoff reaches its maximum within
\* MaxRestarts - 1 doublings, and two of the maximum fill the window.
BackoffCovers ==
  /\ MaxRestarts >= 3 /\ Window <= 2 * MaxBackoff
  /\ \E ramp \in [0 .. (MaxRestarts - 1) -> Nat] :
       /\ ramp[0] = InitialBackoff /\ ramp[MaxRestarts - 1] = MaxBackoff
       /\ \A j \in 1 .. (MaxRestarts - 1) : ramp[j] = Least(2 * ramp[j - 1], MaxBackoff)

\* config/session-supervisor.yaml is one of them.
LEMMA ShippedProfileCovers ==
  ASSUME MaxRestarts = 5, Window = 60, InitialBackoff = 2, MaxBackoff = 30
  PROVE  BackoffCovers
<1> DEFINE ramp == [j \in 0 .. 4 |-> IF j = 0 THEN 2 ELSE IF j = 1 THEN 4 ELSE
                                     IF j = 2 THEN 8 ELSE IF j = 3 THEN 16 ELSE 30]
<1>1. ramp \in [0 .. 4 -> Nat] /\ ramp[0] = 2 /\ ramp[4] = 30
  OBVIOUS
<1>2. \A j \in 1 .. 4 : ramp[j] = Least(2 * ramp[j - 1], 30)
  BY DEF Least
<1>3. 0 .. (MaxRestarts - 1) = 0 .. 4 /\ 1 .. (MaxRestarts - 1) = 1 .. 4 /\ MaxRestarts - 1 = 4
  OBVIOUS
<1> HIDE DEF ramp
<1>4. QED
  BY <1>1, <1>2, <1>3 DEF BackoffCovers

\* The restarts that are at most w old after d seconds were at most v old.
LEMMA AgedNoMore ==
  ASSUME NEW F \in SUBSET (0 .. Window), NEW d \in Nat, NEW w \in Int, NEW v \in Int, w - d <= v
  PROVE  /\ Cardinality(Counted(Aged(F, d), w)) <= Cardinality(Counted(F, v))
         /\ Cardinality(Counted(Aged(F, d), w)) \in Nat /\ Cardinality(Counted(F, v)) \in Nat
<1> DEFINE S == Counted(Aged(F, d), w)
           T == Counted(F, v)
           f == [a \in S |-> a - d]
<1>1. IsFiniteSet(T) /\ Cardinality(T) \in Nat /\ Cardinality(S) \in Nat
  BY AgedType, CountedFinite
<1>2. f \in Injection(S, T)
  <2>1. \A a \in S : a \in Nat /\ a - d \in T
    <3> TAKE a \in S
    <3>1. PICK h \in F : a = h + d /\ a <= w
      BY DEF Counted, Aged
    <3>2. h \in Nat
      BY ProfileTypes
    <3>3. a \in Nat /\ a - d = h /\ h <= v
      BY <3>1, <3>2
    <3>4. QED
      BY <3>3 DEF Counted
  <2>2. \A a, b \in S : a - d = b - d => a = b
    BY <2>1
  <2>3. QED
    BY <2>1, <2>2 DEF Injection, IsInjective
<1>3. QED
  BY <1>1, <1>2, FS_Injection

\* All restarts of a history, and those that another one at the maximum leaves.
LEMMA CountedAll == \A F \in SUBSET (0 .. Window) : Counted(F, Window) = F
<1>1. \A a \in 0 .. Window : a <= Window
  BY ProfileTypes
<1>2. QED
  BY <1>1 DEF Counted

Young == Counted(restarts, Window - MaxBackoff)

\* As often as the backoff has doubled, the loop has restarted; once it is at
\* its maximum, one restart less than the limit is recent enough to matter.
SpreadInv(ramp) ==
  \/ \E j \in 0 .. (MaxRestarts - 1) : backoff = ramp[j] /\ Cardinality(restarts) <= j
  \/ /\ backoff = MaxBackoff
     /\ Cardinality(restarts) <= MaxRestarts
     /\ Cardinality(Young) <= MaxRestarts - 1

\* Time passing takes restarts out of the window only.
LEMMA SpreadElapses ==
  ASSUME TypeInv, NEW ramp, SpreadInv(ramp), UNCHANGED backoff,
         restarts' = restarts \/ \E d \in Nat : restarts' = Aged(restarts, d)
  PROVE  SpreadInv(ramp)'
<1>1. restarts \in SUBSET (0 .. Window) /\ Window - MaxBackoff \in Int /\ Window \in Int
  BY ProfileTypes DEF TypeInv, TypeOK
<1>2. CASE restarts' = restarts
  BY <1>2 DEF SpreadInv, Young
<1>3. ASSUME NEW d \in Nat, restarts' = Aged(restarts, d)
      PROVE  SpreadInv(ramp)'
  <2>1. restarts' \in SUBSET (0 .. Window)
    BY <1>1, <1>3, AgedType
  <2>2. /\ Cardinality(restarts') <= Cardinality(restarts)
        /\ Cardinality(restarts') \in Nat /\ Cardinality(restarts) \in Nat
    <3>1. Window - d <= Window
      BY <1>1
    <3>2. QED
      BY <1>1, <1>3, <2>1, <3>1, AgedNoMore, CountedAll
  <2>3. /\ Cardinality(Young') <= Cardinality(Young)
        /\ Cardinality(Young') \in Nat /\ Cardinality(Young) \in Nat
    <3>1. (Window - MaxBackoff) - d <= Window - MaxBackoff
      BY <1>1
    <3>2. QED
      BY <1>1, <1>3, <3>1, AgedNoMore DEF Young
  <2>4. CASE \E j \in 0 .. (MaxRestarts - 1) : backoff = ramp[j] /\ Cardinality(restarts) <= j
    BY <2>2, <2>4 DEF SpreadInv
  <2>5. CASE /\ backoff = MaxBackoff
             /\ Cardinality(restarts) <= MaxRestarts
             /\ Cardinality(Young) <= MaxRestarts - 1
    BY <2>2, <2>3, <2>5, ProfileTypes DEF SpreadInv
  <2>6. QED
    BY <2>4, <2>5 DEF SpreadInv
<1>4. QED
  BY <1>2, <1>3

\* A restart after d seconds, of which the backoff is a part.
LEMMA SpreadRestarts ==
  ASSUME TypeInv, BackoffCovers, NEW ramp \in [0 .. (MaxRestarts - 1) -> Nat],
         ramp[MaxRestarts - 1] = MaxBackoff,
         \A j \in 1 .. (MaxRestarts - 1) : ramp[j] = Least(2 * ramp[j - 1], MaxBackoff),
         SpreadInv(ramp), NEW d \in Nat, d >= backoff, RecoverAfter(d)
  PROVE  SpreadInv(ramp)'
<1>1. /\ restarts \in SUBSET (0 .. Window) /\ Window - MaxBackoff \in Int /\ Window \in Int
      /\ MaxRestarts \in Nat /\ MaxBackoff \in Nat \ {0}
  BY ProfileTypes DEF TypeInv, TypeOK
<1>2. restarts' = Aged(restarts, d) \cup {0} /\ backoff' = Least(2 * backoff, MaxBackoff)
  BY DEF RecoverAfter, NextBackoff
<1>3. /\ Aged(restarts, d) \in SUBSET (0 .. Window) /\ IsFiniteSet(Aged(restarts, d))
      /\ Cardinality(restarts) \in Nat /\ Cardinality(Aged(restarts, d)) \in Nat
  <2>1. \A F \in SUBSET (0 .. Window) : IsFiniteSet(F) /\ Cardinality(F) \in Nat
    BY CountedAll, CountedFinite
  <2>2. Aged(restarts, d) \in SUBSET (0 .. Window)
    BY <1>1, AgedType
  <2>3. QED
    BY <1>1, <2>1, <2>2
<1>4. /\ Cardinality(restarts') <= Cardinality(Aged(restarts, d)) + 1
      /\ Cardinality(restarts') \in Nat
  <2>1. CASE 0 \in Aged(restarts, d)
    <3>1. restarts' = Aged(restarts, d)
      BY <1>2, <2>1
    <3>2. QED
      BY <1>3, <3>1
  <2>2. CASE 0 \notin Aged(restarts, d)
    <3>1. Cardinality(Aged(restarts, d) \cup {0}) = Cardinality(Aged(restarts, d)) + 1
      BY <1>3, <2>2, FS_AddElement
    <3>2. QED
      BY <1>2, <1>3, <3>1
  <2>3. QED
    BY <2>1, <2>2
<1>5. ASSUME NEW j \in 0 .. (MaxRestarts - 2), backoff = ramp[j], Cardinality(restarts) <= j
      PROVE  SpreadInv(ramp)'
  <2>1. Cardinality(Aged(restarts, d)) <= Cardinality(restarts)
    <3>1. Window - d <= Window
      BY <1>1
    <3>2. QED
      BY <1>1, <1>3, <3>1, AgedNoMore, CountedAll
  <2>2. Cardinality(restarts') <= j + 1
    BY <1>3, <1>4, <1>5, <2>1
  <2>3. j + 1 \in 1 .. (MaxRestarts - 1) /\ (j + 1) - 1 = j
    BY <1>1
  <2>4. backoff' = ramp[j + 1]
    BY <1>2, <1>5, <2>3
  <2>5. QED
    BY <2>2, <2>3, <2>4 DEF SpreadInv
<1>6. ASSUME backoff = MaxBackoff, Cardinality(Aged(restarts, d)) <= MaxRestarts - 1
      PROVE  SpreadInv(ramp)'
  <2>1. backoff' = MaxBackoff
    BY <1>1, <1>2, <1>6 DEF Least
  <2>2. Cardinality(restarts') <= MaxRestarts
    BY <1>1, <1>3, <1>4, <1>6
  <2>3. Young' \subseteq {0} \cup {MaxBackoff}
    <3> SUFFICES ASSUME NEW a \in Young' PROVE a \in {0} \cup {MaxBackoff}
      OBVIOUS
    <3>1. a \in restarts' /\ a <= Window - MaxBackoff
      BY DEF Young, Counted
    <3>2. CASE a = 0
      BY <3>2
    <3>3. CASE a # 0
      <4>1. PICK h \in restarts : a = h + d
        BY <1>2, <3>1, <3>3 DEF Aged
      <4>2. h \in Nat /\ d >= MaxBackoff /\ Window - MaxBackoff <= MaxBackoff
        BY <1>1, <1>6 DEF BackoffCovers
      <4>3. QED
        BY <1>1, <3>1, <4>1, <4>2
    <3>4. QED
      BY <3>2, <3>3
  <2>4. /\ IsFiniteSet({0} \cup {MaxBackoff})
        /\ Cardinality({0} \cup {MaxBackoff}) = 2
    <3>1. IsFiniteSet({0}) /\ Cardinality({0}) = 1
      BY FS_Singleton
    <3>2. /\ IsFiniteSet({0} \cup {MaxBackoff})
          /\ Cardinality({0} \cup {MaxBackoff}) = Cardinality({0}) + 1
      BY <1>1, <3>1, FS_AddElement
    <3>3. QED
      BY <3>1, <3>2
  <2>5. Cardinality(Young') <= 2 /\ Cardinality(Young') \in Nat
    <3>1. IsFiniteSet(Young') /\ Cardinality(Young') <= Cardinality({0} \cup {MaxBackoff})
      BY <2>3, <2>4, FS_Subset
    <3>2. Cardinality(Young') \in Nat /\ Cardinality({0} \cup {MaxBackoff}) \in Nat
      BY <2>4, <3>1, FS_CardinalityType
    <3>3. QED
      BY <2>4, <3>1, <3>2
  <2>6. 2 <= MaxRestarts - 1
    BY <1>1 DEF BackoffCovers
  <2>7. Cardinality(Young)' <= MaxRestarts - 1
    BY <1>1, <2>5, <2>6
  <2>8. QED
    BY <2>1, <2>2, <2>7 DEF SpreadInv
<1>7. CASE backoff = ramp[MaxRestarts - 1] /\ Cardinality(restarts) <= MaxRestarts - 1
  <2>1. Cardinality(Aged(restarts, d)) <= Cardinality(restarts)
    <3>1. Window - d <= Window
      BY <1>1
    <3>2. QED
      BY <1>1, <1>3, <3>1, AgedNoMore, CountedAll
  <2>2. QED
    BY <1>1, <1>3, <1>6, <1>7, <2>1
<1>8. CASE /\ backoff = MaxBackoff
           /\ Cardinality(restarts) <= MaxRestarts
           /\ Cardinality(Young) <= MaxRestarts - 1
  <2>1. Window - d <= Window - MaxBackoff
    BY <1>1, <1>8
  <2>2. /\ Cardinality(Aged(restarts, d)) <= Cardinality(Young)
        /\ Cardinality(Young) \in Nat
    BY <1>1, <1>3, <2>1, AgedNoMore, CountedAll DEF Young
  <2>3. QED
    BY <1>1, <1>3, <1>6, <1>8, <2>2
<1>9. \A j \in 0 .. (MaxRestarts - 1) : j \in 0 .. (MaxRestarts - 2) \/ j = MaxRestarts - 1
  BY <1>1
<1>10. QED
  BY <1>5, <1>7, <1>8, <1>9 DEF SpreadInv

\* Every other step lets time pass, or none.
LEMMA SpreadInductive ==
  ASSUME TypeInv, BackoffCovers, NEW ramp \in [0 .. (MaxRestarts - 1) -> Nat],
         ramp[MaxRestarts - 1] = MaxBackoff,
         \A j \in 1 .. (MaxRestarts - 1) : ramp[j] = Least(2 * ramp[j - 1], MaxBackoff),
         SpreadInv(ramp), [Next]_vars
  PROVE  SpreadInv(ramp)'
<1> USE DurationAssumption, ProfileTypes
<1>1. CASE RecoveryScreenShown \/ RecoveryScreenFails
  <2>1. backoff \in Nat
    BY DEF TypeInv, TypeOK
  <2>2. \E d \in Nat : d >= backoff /\ RecoverAfter(d)
    BY <1>1, <2>1 DEF RecoveryScreenShown, RecoveryScreenFails
  <2>3. QED
    BY <2>2, SpreadRestarts
<1>2. CASE GraphicsReady \/ LaunchClient \/ SurfaceMapped \/ SurfaceTimeout \/ ExitVoluntary
  <2>1. UNCHANGED backoff /\ \E d \in Nat : restarts' = Aged(restarts, d)
    BY <1>2 DEF GraphicsReady, LaunchClient, SurfaceMapped, SurfaceTimeout, ExitVoluntary,
      Running, Elapse, counters
  <2>2. QED
    BY <2>1, SpreadElapses
<1>3. CASE ExitFailed
  <2>1. UNCHANGED backoff /\ \E d \in Nat : restarts' = Aged(restarts, d)
    BY <1>3 DEF ExitFailed
  <2>2. QED
    BY <2>1, SpreadElapses
<1>4. CASE GraphicsMissing \/ StartSession \/ GiveUp \/ ClockStep \/ UNCHANGED vars
  <2>1. UNCHANGED backoff /\ restarts' = restarts
    BY <1>4 DEF GraphicsMissing, StartSession, GiveUp, ClockStep, vars, counters
  <2>2. QED
    BY <2>1, SpreadElapses
<1>5. QED
  BY <1>1, <1>2, <1>3, <1>4 DEF Next, Supervise, Exit

(***************************************************************************)
(* Under a profile whose backoff covers the window, as the shipped one's   *)
(* does, there are at most MaxRestarts restarts in any Window seconds,     *)
(* wherever they begin and whatever the clock is set to.                   *)
(***************************************************************************)
THEOREM RestartsAlwaysBounded ==
  ASSUME BackoffCovers
  PROVE  Spec => []RestartsPerWindow
<1>1. PICK ramp \in [0 .. (MaxRestarts - 1) -> Nat] :
        /\ ramp[0] = InitialBackoff /\ ramp[MaxRestarts - 1] = MaxBackoff
        /\ \A j \in 1 .. (MaxRestarts - 1) : ramp[j] = Least(2 * ramp[j - 1], MaxBackoff)
  BY DEF BackoffCovers
<1>2. Init => SpreadInv(ramp)
  <2>1. Cardinality({}) = 0
    BY FS_EmptySet
  <2>2. 0 \in 0 .. (MaxRestarts - 1)
    BY ProfileTypes
  <2>3. QED
    BY <1>1, <2>1, <2>2 DEF Init, SpreadInv
<1>3. TypeInv /\ SpreadInv(ramp) /\ [Next]_vars => SpreadInv(ramp)'
  BY <1>1, SpreadInductive
<1>4. TypeInv /\ SpreadInv(ramp) => RestartsPerWindow
  <2>1. SUFFICES ASSUME TypeInv, SpreadInv(ramp) PROVE Cardinality(restarts) <= MaxRestarts
    BY DEF RestartsPerWindow
  <2>2. Cardinality(restarts) \in Nat
    <3>1. restarts \in SUBSET (0 .. Window)
      BY <2>1 DEF TypeInv, TypeOK
    <3>2. QED
      BY <3>1, CountedAll, CountedFinite
  <2>3. QED
    BY <2>1, <2>2, ProfileTypes DEF SpreadInv
<1>5. QED
  BY <1>2, <1>3, <1>4, TypeInvariant, PTL DEF Spec

-----------------------------------------------------------------------------
(***************************************************************************)
(* The story the events tell, and the states they tell it of: where the    *)
(* loop is decides which event came last and which state is published.     *)
(***************************************************************************)
LastEvents(place) ==
  CASE place = "splash"   -> {"session-starting"}
    [] place = "client"   -> {"session-starting", "visual-handoff-degraded"}
    [] place = "running"  -> {"session-running"}
    [] place = "failed"   -> {"session-failed"}
    [] place = "starting" -> {"session-recovering"}
    [] place = "degraded" -> {"session-degraded"}
    [] place = "stopped"  -> {"session-stopped"}
    [] place = "boot"     -> {}

(***************************************************************************)
(* Only before the first start is there no event yet.  The last event that *)
(* was published is the last of the queue, unless it was the one that went *)
(* because its number had gained a digit; then all of the queue is of one  *)
(* second.                                                                 *)
(***************************************************************************)
OneSecond(q) == \A j \in 2 .. Len(q) : ~q[j].first

StoryInv ==
  /\ EventsTellTheStory
  /\ events = <<>> => pc \in {"boot", "starting"}
  /\ events = <<>> \/ OneSecond(events) \/ events[Len(events)].event \in LastEvents(pc)

\* A queue that tells the story after its first second.
Tells(q) ==
  \A i \in 1 .. (Len(q) - 1) :
    (\E j \in 2 .. i : q[j].first) => q[i + 1].event \in EventSuccessors(q[i].event)

LEMMA TellsIsStory == Tells(events) <=> EventsTellTheStory
<1>1. \A i \in 1 .. (Len(events) - 1) :
        i \notin OldestSecond(events) <=> \E j \in 2 .. i : events[j].first
  BY DEF OldestSecond
<1>2. QED
  BY <1>1 DEF Tells, EventsTellTheStory

\* An event that may follow the last one, at the end of the queue.
LEMMA TellsAppended ==
  ASSUME NEW q \in Seq(Published), Tells(q), NEW x \in Published,
         q = <<>> \/ OneSecond(q) \/ x.event \in EventSuccessors(q[Len(q)].event)
  PROVE  LET a == Append(q, x) IN
         /\ a \in Seq(Published) /\ Len(a) = Len(q) + 1 /\ Len(q) \in Nat
         /\ a[Len(a)] = x /\ Tells(a)
<1> DEFINE a == Append(q, x)
<1>1. /\ a \in Seq(Published) /\ Len(a) = Len(q) + 1 /\ Len(q) \in Nat /\ a[Len(a)] = x
      /\ \A i \in 1 .. Len(q) : a[i] = q[i]
  BY AppendProperties
<1> HIDE DEF a
<1>2. ASSUME NEW i \in 1 .. (Len(a) - 1), NEW j \in 2 .. i, a[j].first
      PROVE  a[i + 1].event \in EventSuccessors(a[i].event)
  <2>1. i \in 1 .. Len(q) /\ j \in 2 .. Len(q) /\ q[j].first /\ a[i] = q[i]
    BY <1>1, <1>2
  <2>2. CASE i = Len(q)
    <3>1. ~OneSecond(q) /\ q # <<>>
      BY <2>1 DEF OneSecond
    <3>2. a[i + 1] = x
      BY <1>1, <2>2
    <3>3. QED
      BY <2>1, <2>2, <3>1, <3>2
  <2>3. CASE i # Len(q)
    <3>1. i \in 1 .. (Len(q) - 1) /\ i + 1 \in 1 .. Len(q)
      BY <1>1, <2>1, <2>3
    <3>2. q[i + 1].event \in EventSuccessors(q[i].event)
      BY <2>1, <3>1 DEF Tells
    <3>3. QED
      BY <1>1, <2>1, <3>1, <3>2
  <2>4. QED
    BY <2>2, <2>3
<1>3. QED
  BY <1>1, <1>2 DEF Tells, a

\* With one event of its first second gone, a queue tells the story still.
LEMMA TellsWithout ==
  ASSUME NEW a \in Seq(Published), Tells(a), Len(a) > 1, NEW h \in OldestSecond(a)
  PROVE  LET r == Without(a, h) IN
         /\ Len(r) = Len(a) - 1 /\ Tells(r)
         /\ OneSecond(r) \/ r[Len(r)] = a[Len(a)]
<1> DEFINE r == Without(a, h)
           n == Len(a) - 1
<1>1. /\ Len(a) \in Nat /\ n \in Nat \ {0} /\ h \in 1 .. Len(a)
      /\ \A j \in 2 .. h : ~a[j].first
  BY DEF OldestSecond
<1>2. Len(r) = n /\ \A j \in 1 .. n : r[j] = IF j < h THEN a[j] ELSE a[j + 1]
  BY <1>1 DEF Without
<1> HIDE DEF r, n
<1>3. \A j \in 2 .. n : r[j].first => j >= h /\ a[j + 1].first
  <2>1. \A j \in 2 .. n : j < h => ~r[j].first
    BY <1>1, <1>2
  <2>2. QED
    BY <1>1, <1>2, <2>1
<1>4. ASSUME NEW i \in 1 .. (n - 1), NEW j \in 2 .. i, r[j].first
      PROVE  r[i + 1].event \in EventSuccessors(r[i].event)
  <2>1. j >= h /\ a[j + 1].first
    BY <1>1, <1>3, <1>4
  <2>2. r[i] = a[i + 1] /\ r[i + 1] = a[(i + 1) + 1]
    BY <1>1, <1>2, <2>1
  <2>3. i + 1 \in 1 .. (Len(a) - 1) /\ j + 1 \in 2 .. (i + 1)
    BY <1>1 DEF n
  <2>4. QED
    BY <2>1, <2>2, <2>3 DEF Tells
<1>5. CASE h = Len(a)
  <2>1. OneSecond(r)
    BY <1>1, <1>2, <1>3, <1>5 DEF OneSecond, n
  <2>2. QED
    BY <1>2, <1>4, <2>1 DEF Tells, r, n
<1>6. CASE h # Len(a)
  <2>1. n \in 1 .. n /\ ~(n < h) /\ n + 1 = Len(a)
    BY <1>1, <1>6 DEF n
  <2>2. r[n] = a[n + 1]
    BY <1>2, <2>1
  <2>3. QED
    BY <1>2, <1>4, <2>1, <2>2 DEF Tells, r, n
<1>7. QED
  BY <1>5, <1>6

\* So a queue that told the story does after a publication that may follow.
LEMMA TellsOn ==
  ASSUME NEW q \in Seq(Published), Tells(q), NEW e \in Events, NEW s, NEW d,
         q = <<>> \/ OneSecond(q) \/ e \in EventSuccessors(q[Len(q)].event),
         NEW p \in Publications(q, s, e, d)
  PROVE  /\ p.queue \in Seq(Published) /\ p.queue # <<>> /\ Tells(p.queue)
         /\ OneSecond(p.queue) \/ p.queue[Len(p.queue)].event = e
<1>1. PICK x \in Published : x.event = e /\ p.queue = Pruned(Append(q, x))
  BY PublicationsType
<1> DEFINE a == Append(q, x)
<1>2. /\ a \in Seq(Published) /\ Len(a) = Len(q) + 1 /\ Len(q) \in Nat
      /\ a[Len(a)] = x /\ Tells(a)
  BY <1>1, TellsAppended
<1>3. /\ Pruned(a) \in Seq(Published)
      /\ \/ Len(a) <= MaxEvents /\ Pruned(a) = a
         \/ /\ Len(a) > MaxEvents
            /\ \E i \in OldestSecond(a) : Pruned(a) = Without(a, i)
  BY PrunedType
<1> HIDE DEF a
<1>4. CASE Pruned(a) = a
  BY <1>1, <1>2, <1>4 DEF a
<1>5. ASSUME Len(a) > MaxEvents, NEW i \in OldestSecond(a), Pruned(a) = Without(a, i)
      PROVE  /\ Pruned(a) # <<>> /\ Tells(Pruned(a))
             /\ OneSecond(Pruned(a)) \/ Pruned(a)[Len(Pruned(a))] = x
  <2>1. Len(a) > 1
    BY <1>2, <1>5, ProfileTypes
  <2>2. Len(Pruned(a)) = Len(a) - 1 /\ Len(a) - 1 # 0
    BY <1>2, <1>5, <2>1, TellsWithout
  <2>3. QED
    BY <1>2, <1>3, <1>5, <2>1, <2>2, TellsWithout
<1>6. QED
  BY <1>1, <1>3, <1>4, <1>5 DEF a

\* A step that publishes an event which the place it comes from allows and the
\* place it goes to asks for.
LEMMA StoryGoesOn ==
  ASSUME TypeInv, StoryInv, NEW e \in Events, NEW d,
         NEW p \in Publications(events, stamp, e, d), events' = p.queue, e \in LastEvents(pc'),
         \A x \in LastEvents(pc) : e \in EventSuccessors(x)
  PROVE  StoryInv'
<1>1. events \in Seq(Published) /\ Tells(events)
  BY TellsIsStory DEF TypeInv, TypeOK, StoryInv
<1>2. events = <<>> \/ OneSecond(events) \/ e \in EventSuccessors(events[Len(events)].event)
  BY DEF StoryInv
<1>3. /\ Tells(events') /\ events' # <<>>
      /\ OneSecond(events') \/ events'[Len(events')].event = e
  BY <1>1, <1>2, TellsOn
<1>4. EventsTellTheStory'
  <2>1. (Tells(events) <=> EventsTellTheStory)'
    BY TellsIsStory, PTL
  <2>2. Tells(events)'
    BY <1>3 DEF Tells, EventSuccessors
  <2>3. QED
    BY <2>1, <2>2
<1>5. OneSecond(events)' \/ (events' # <<>> /\ events'[Len(events')].event \in LastEvents(pc)')
  BY <1>3 DEF OneSecond, LastEvents
<1>6. QED
  BY <1>3, <1>4, <1>5 DEF StoryInv

\* A step that publishes none.
LEMMA StoryStays ==
  ASSUME StoryInv, events' = events, LastEvents(pc) \subseteq LastEvents(pc'),
         pc \in {"boot", "starting"} => pc' \in {"boot", "starting"}
  PROVE  StoryInv'
BY DEF StoryInv, EventsTellTheStory, OneSecond, OldestSecond

\* Every step keeps the story.
LEMMA StoryInductive ==
  ASSUME TypeInv, StoryInv, [Next]_vars
  PROVE  StoryInv'
<1>n. {"session-starting", "session-running", "session-stopped", "session-failed",
       "session-recovering", "session-degraded", "visual-handoff-degraded",
       "visual-interactive-timeout"} \subseteq Events
  BY DEF Events, Lifecycle
<1>p. ASSUME NEW e \in Events, NEW d, publish_event(e, d), e \in LastEvents(pc'),
             \A x \in LastEvents(pc) : e \in EventSuccessors(x)
      PROVE  StoryInv'
  BY <1>p, StoryGoesOn DEF publish_event
<1>1. CASE GraphicsReady
  BY <1>1, StoryStays DEF GraphicsReady, LastEvents, unpublished
<1>2. CASE GraphicsMissing
  BY <1>2, <1>n, <1>p DEF GraphicsMissing, LastEvents
<1>3. CASE StartSession
  BY <1>3, <1>n, <1>p DEF StartSession, LastEvents, EventSuccessors
<1>4. CASE LaunchClient
  <2>1. pc = "splash" /\ pc' = "client"
    BY <1>4 DEF LaunchClient
  <2>2. PICK d : unpublished(d) \/ publish_event("visual-handoff-degraded", d)
    BY <1>4 DEF LaunchClient
  <2>3. CASE publish_event("visual-handoff-degraded", d)
    BY <2>1, <2>3, <1>n, <1>p DEF LastEvents, EventSuccessors
  <2>4. CASE unpublished(d)
    BY <2>1, <2>4, StoryStays DEF LastEvents, unpublished
  <2>5. QED
    BY <2>2, <2>3, <2>4
<1>5. CASE SurfaceMapped
  BY <1>5, <1>n, <1>p DEF SurfaceMapped, Running, LastEvents, EventSuccessors
<1>6. CASE SurfaceTimeout
  <2>1. PICK p \in Publications(events, stamp, "visual-interactive-timeout", InteractiveTimeout) :
          \E r \in Publications(p.queue, p.stamp, "session-running", 0) : events' = r.queue
    BY <1>6 DEF SurfaceTimeout
  <2>2. PICK r \in Publications(p.queue, p.stamp, "session-running", 0) : events' = r.queue
    BY <2>1
  <2>3. pc = "client" /\ pc' = "running"
    BY <1>6 DEF SurfaceTimeout, Running
  <2>4. events \in Seq(Published) /\ Tells(events)
    BY TellsIsStory DEF TypeInv, TypeOK, StoryInv
  <2>5. \/ events = <<>> \/ OneSecond(events)
        \/ "visual-interactive-timeout" \in EventSuccessors(events[Len(events)].event)
    BY <2>3 DEF StoryInv, LastEvents, EventSuccessors
  <2>6. /\ p.queue \in Seq(Published) /\ Tells(p.queue)
        /\ OneSecond(p.queue) \/ p.queue[Len(p.queue)].event = "visual-interactive-timeout"
    BY <2>1, <2>4, <2>5, <1>n, TellsOn
  <2>7. \/ OneSecond(p.queue)
        \/ "session-running" \in EventSuccessors(p.queue[Len(p.queue)].event)
    BY <2>6 DEF EventSuccessors
  <2>8. /\ Tells(events') /\ events' # <<>>
        /\ OneSecond(events') \/ events'[Len(events')].event = "session-running"
    BY <2>2, <2>6, <2>7, <1>n, TellsOn
  <2>9. EventsTellTheStory'
    <3>1. (Tells(events) <=> EventsTellTheStory)'
      BY TellsIsStory, PTL
    <3>2. Tells(events)'
      BY <2>8 DEF Tells, EventSuccessors
    <3>3. QED
      BY <3>1, <3>2
  <2>10. QED
    BY <2>3, <2>8, <2>9 DEF StoryInv, OneSecond, LastEvents
<1>7. CASE ExitVoluntary
  BY <1>7, <1>n, <1>p DEF ExitVoluntary, LastEvents, EventSuccessors
<1>8. CASE ExitFailed
  <2>1. pc = "running" /\ pc' = "failed" /\ \E d : publish_event("session-failed", d)
    BY <1>8 DEF ExitFailed
  <2>2. QED
    BY <2>1, <1>n, <1>p DEF LastEvents, EventSuccessors
<1>9. CASE GiveUp
  BY <1>9, <1>n, <1>p DEF GiveUp, LastEvents, EventSuccessors
<1>10. ASSUME NEW d, RecoverAfter(d)
       PROVE  StoryInv'
  <2>1. PICK p \in Publications(events, stamp, "session-recovering", 0) : events' = p.queue
    BY <1>10 DEF RecoverAfter
  <2>2. pc = "failed" /\ pc' = "starting"
    BY <1>10 DEF RecoverAfter
  <2>3. QED
    BY <2>1, <2>2, <1>n, StoryGoesOn DEF LastEvents, EventSuccessors
<1>11. CASE RecoveryScreenShown \/ RecoveryScreenFails
  BY <1>10, <1>11 DEF RecoveryScreenShown, RecoveryScreenFails
<1>12. CASE ClockStep \/ UNCHANGED vars
  BY <1>12, StoryStays DEF ClockStep, vars
<1>13. QED
  BY <1>1, <1>2, <1>3, <1>4, <1>5, <1>6, <1>7, <1>8, <1>9, <1>11, <1>12
  DEF Next, Supervise, Exit

(***************************************************************************)
(* While the clock is not set back, so that the files of later seconds     *)
(* have later names, what prune_events leaves of the event queue, of       *)
(* whatever size, tells the session's story; only in the second it begins  *)
(* with may an event be missing.                                           *)
(***************************************************************************)
THEOREM EventsAlwaysTellTheStory ==
  ASSUME ClockSteps \subseteq Nat
  PROVE  Spec => []EventsTellTheStory
<1>1. Init => StoryInv
  <2>1. Len(<<>>) = 0
    OBVIOUS
  <2>2. QED
    BY <2>1 DEF Init, StoryInv, EventsTellTheStory
<1>2. TypeInv /\ StoryInv /\ [Next]_vars => StoryInv'
  BY StoryInductive
<1>3. StoryInv => EventsTellTheStory
  BY DEF StoryInv
<1>4. QED
  BY <1>1, <1>2, <1>3, TypeInvariant, PTL DEF Spec

\* The state that is published at each place of the loop.
StatusInv ==
  /\ pc = "boot" => status.state = "none"
  /\ pc = "starting" => status.state \in {"none", "failed"}
  /\ pc \in {"splash", "client"} => status.state = "starting"
  /\ pc \in {"running", "failed"} => status.state = pc

(***************************************************************************)
(* The status file goes through the states of a session in their order:    *)
(* the restart loop implements SessionStates.                              *)
(***************************************************************************)
THEOREM StatusAlwaysFollowsSession == Spec => StatusFollowsSession
<1>1. Init => StatusInv /\ Shown!Init
  BY DEF Init, StatusInv, Shown!Init
<1>2. StatusInv /\ [Next]_vars => StatusInv' /\ [Shown!Show]_(status.state)
  <2>1. SUFFICES ASSUME StatusInv, [Next]_vars
                 PROVE  StatusInv' /\ [Shown!Show]_(status.state)
    OBVIOUS
  <2> USE DEF StatusInv, Shown!Show, Shown!Order
  <2>2. CASE GraphicsReady \/ LaunchClient \/ ClockStep \/ UNCHANGED vars
    BY <2>1, <2>2 DEF GraphicsReady, LaunchClient, ClockStep, vars
  <2>3. CASE GraphicsMissing
    BY <2>1, <2>3 DEF GraphicsMissing, write_status
  <2>4. CASE StartSession
    BY <2>1, <2>4 DEF StartSession, write_status
  <2>5. CASE SurfaceMapped \/ SurfaceTimeout
    BY <2>1, <2>5 DEF SurfaceMapped, SurfaceTimeout, Running, write_status
  <2>6. CASE ExitVoluntary
    BY <2>1, <2>6 DEF ExitVoluntary, write_status
  <2>7. CASE ExitFailed
    BY <2>1, <2>7 DEF ExitFailed, write_status
  <2>8. CASE GiveUp
    BY <2>1, <2>8 DEF GiveUp, write_status
  <2>9. CASE RecoveryScreenShown \/ RecoveryScreenFails
    BY <2>1, <2>9 DEF RecoveryScreenShown, RecoveryScreenFails, RecoverAfter
  <2>10. QED
    BY <2>1, <2>2, <2>3, <2>4, <2>5, <2>6, <2>7, <2>8, <2>9 DEF Next, Supervise, Exit
<1>3. QED
  BY <1>1, <1>2, PTL DEF Spec, StatusFollowsSession, Shown!Spec

-----------------------------------------------------------------------------
(***************************************************************************)
(* The publication of state.json.                                          *)
(***************************************************************************)

(***************************************************************************)
(* Who is where.  The heartbeat runs only while the supervisor waits for   *)
(* the client or is about to kill it, and all that time the latest         *)
(* publication is `running`.                                               *)
(***************************************************************************)
HeartbeatInv ==
  /\ hb # "none" => main \in {"waiting", "killing"}
  /\ main \in {"waiting", "killing", "ended"} => last = "running"

\* While a publication is under way it is of some state, and not yet published.
ProgressInv == ~Settled => last # "none" /\ ~published

\* A heartbeat that is writing is alone with the temporary file.
BeatInv ==
  /\ hb \in {"open", "write", "rename"} => ~orphan
  /\ hb = "write" => hbFd = tmp /\ tmp \in Inode
  /\ hb = "rename" => tmp \in Inode /\ content[tmp] = "running"

\* The two names never share an inode, and what the supervisor is writing to
\* is the temporary file or what a late `mv` has made of it.
NamesInv ==
  /\ tmp # None => tmp # shared
  /\ main = "write" => mainFd \in Inode /\ (mainFd = tmp \/ (tmp = None /\ mainFd = shared))
  /\ main = "rename" =>
       IF tmp = None THEN View = last ELSE content[tmp] = last

\* What a late `mv` would do after a publication that has succeeded.
OrphanInv ==
  Settled /\ published /\ orphan /\ tmp # None => content[tmp] = last

PublicationInv ==
  PublicationTypeOK /\ HeartbeatInv /\ ProgressInv /\ BeatInv /\ NamesInv
    /\ OrphanInv /\ LastPublicationStays

(***************************************************************************)
(* Where the reader stands against the supervisor, until a publication     *)
(* fails.                                                                  *)
(***************************************************************************)
SuccessorInv ==
  /\ main = "open" => <<seen, last>> \in Promised!Order
  /\ main \in {"write", "rename"} => seen = last \/ <<seen, last>> \in Promised!Order

ViewInv == View \in {seen, "empty"}

SettledInv ==
  Settled => published /\ seen = last

LateInv ==
  /\ main = "open" /\ orphan /\ tmp # None => content[tmp] = seen
  /\ main = "write" /\ mainFd = tmp => content[tmp] = "empty"

ReaderInv == ~skipped => SuccessorInv /\ ViewInv /\ SettledInv /\ LateInv

(***************************************************************************)
(* Every step keeps the invariant, one action at a time.                   *)
(***************************************************************************)
LEMMA PublicationInductive ==
  ASSUME PublicationInv, [PublicationNext]_publicationVars
  PROVE  PublicationInv'
<1> USE InodeAssumption DEF PublicationInv, PublicationTypeOK, HeartbeatInv, ProgressInv, BeatInv,
      NamesInv, OrphanInv, LastPublicationStays, Settled, View, Contents
<1>0. CASE UNCHANGED publicationVars
  BY <1>0 DEF publicationVars, files, mainVars, hbVars
<1>1. CASE NoGraphics /\ UNCHANGED skipped /\ Observe
  BY <1>1 DEF NoGraphics, Begin, Observe, files, mainVars, hbVars
<1>2. CASE BeginSession /\ UNCHANGED skipped /\ Observe
  BY <1>2 DEF BeginSession, Begin, Observe, files, mainVars, hbVars
<1>3. CASE ForkClient /\ UNCHANGED skipped /\ Observe
  BY <1>3 DEF ForkClient, Observe, files, mainVars, hbVars
<1>4. CASE SessionRunning /\ UNCHANGED skipped /\ Observe
  BY <1>4 DEF SessionRunning, Begin, Observe, files, mainVars, hbVars
<1>5. CASE StartHeartbeat /\ UNCHANGED skipped /\ Observe
  BY <1>5 DEF StartHeartbeat, Observe, files, mainVars, hbVars
<1>6. CASE ReapClient /\ UNCHANGED skipped /\ Observe
  BY <1>6 DEF ReapClient, Observe, files, mainVars, hbVars
<1>7. CASE KillHeartbeat /\ UNCHANGED skipped /\ Observe
  BY <1>7 DEF KillHeartbeat, Observe, files, mainVars, hbVars
<1>8. CASE SessionEnds /\ UNCHANGED skipped /\ Observe
  BY <1>8 DEF SessionEnds, Begin, Observe, files, mainVars, hbVars
<1>9. CASE Degrade /\ UNCHANGED skipped /\ Observe
  BY <1>9 DEF Degrade, Begin, Observe, files, mainVars, hbVars
<1>10. CASE OpenState /\ UNCHANGED skipped /\ Observe
  BY <1>10 DEF OpenState, OpenTmp, Observe, files, mainVars, hbVars
<1>11. CASE WriteState /\ UNCHANGED skipped /\ Observe
  BY <1>11 DEF WriteState, WriteTo, Observe, files, mainVars, hbVars
<1>12. CASE PublicationFails /\ Observe
  BY <1>12 DEF PublicationFails, Observe, files, mainVars, hbVars
<1>13. CASE RenameState /\ UNCHANGED skipped /\ Observe
  BY <1>13 DEF RenameState, RenameTmp, Observe, files, mainVars, hbVars
<1>14. CASE StateRenamedByOrphan /\ UNCHANGED skipped /\ Observe
  BY <1>14 DEF StateRenamedByOrphan, Observe, files, mainVars, hbVars
<1>15. CASE HeartbeatWakes /\ UNCHANGED skipped /\ Observe
  BY <1>15 DEF HeartbeatWakes, Beat, Observe, files, mainVars, hbVars
<1>16. CASE HeartbeatEnds /\ UNCHANGED skipped /\ Observe
  BY <1>16 DEF HeartbeatEnds, Beat, Observe, files, mainVars, hbVars
<1>17. CASE HeartbeatOpens /\ UNCHANGED skipped /\ Observe
  BY <1>17 DEF HeartbeatOpens, Beat, OpenTmp, Observe, files, mainVars, hbVars
<1>18. CASE HeartbeatWrites /\ UNCHANGED skipped /\ Observe
  BY <1>18 DEF HeartbeatWrites, Beat, WriteTo, Observe, files, mainVars, hbVars
<1>19. CASE HeartbeatWriteFails /\ UNCHANGED skipped /\ Observe
  BY <1>19 DEF HeartbeatWriteFails, Beat, Observe, files, mainVars, hbVars
<1>20. CASE HeartbeatRenames /\ UNCHANGED skipped /\ Observe
  BY <1>20 DEF HeartbeatRenames, Beat, RenameTmp, Observe, files, mainVars, hbVars
<1>21. CASE OrphanRenames /\ UNCHANGED skipped /\ Observe
  <2>1. CASE tmp = None
    <3>1. /\ UNCHANGED <<tmp, shared, content>>
          /\ orphan /\ orphan' = FALSE
          /\ UNCHANGED <<main, last, published, mainFd, hb, hbFd, client>>
      BY <1>21, <2>1 DEF OrphanRenames, RenameTmp, files, mainVars, hbVars
    <3>2. View' = View
      BY <3>1
    <3>3. seen' = seen \/ (seen' = View /\ View \notin {"none", "empty"})
      BY <1>21, <3>2 DEF Observe
    <3>4. View \in Contents \cup {"none"}
      OBVIOUS
    <3>5. seen' \in {"none", "starting", "running", "failed", "degraded", "stopped"}
      BY <3>3, <3>4
    <3>6. skipped' \in BOOLEAN
      BY <1>21
    <3>7. PublicationTypeOK'
      BY <3>1, <3>5, <3>6
    <3>8. QED
      BY <3>1, <3>2, <3>7
  <2>2. CASE tmp # None
    <3>1. /\ shared' = tmp /\ tmp' = None /\ content' = content
          /\ orphan /\ orphan' = FALSE
          /\ UNCHANGED <<main, last, published, mainFd, hb, hbFd, client>>
      BY <1>21, <2>2 DEF OrphanRenames, RenameTmp, files, mainVars, hbVars
    <3>2. tmp \in Inode /\ View' = content[tmp]
      BY <2>2, <3>1
    <3>3. hb \notin {"open", "write", "rename"}
      BY <3>1
    <3>4. PublicationTypeOK'
      BY <1>21, <3>1, <3>2 DEF Observe
    <3>5. HeartbeatInv' /\ ProgressInv' /\ BeatInv' /\ OrphanInv'
      BY <3>1, <3>3
    <3>6. NamesInv'
      BY <2>2, <3>1, <3>2
    <3>7. LastPublicationStays'
      BY <2>2, <3>1, <3>2
    <3>8. QED
      BY <3>4, <3>5, <3>6, <3>7
  <2>3. QED
    BY <2>1, <2>2
<1>22. CASE ClientDies /\ UNCHANGED skipped /\ Observe
  BY <1>22 DEF ClientDies, Observe, files, mainVars, hbVars
<1>23. QED
  BY <1>0, <1>1, <1>2, <1>3, <1>4, <1>5, <1>6, <1>7, <1>8, <1>9, <1>10, <1>11,
     <1>12, <1>13, <1>14, <1>15, <1>16, <1>17, <1>18, <1>19, <1>20, <1>21, <1>22
  DEF PublicationNext, SupervisorStep, Supervisor, Heartbeat

(***************************************************************************)
(* The same for the reader's side.                                         *)
(***************************************************************************)
LEMMA ReaderInductive ==
  ASSUME PublicationInv, ReaderInv, PublicationNext
  PROVE  ReaderInv' /\ [Promised!Show]_seen
<1> USE InodeAssumption DEF PublicationInv, PublicationTypeOK, HeartbeatInv, ProgressInv, BeatInv,
      NamesInv, OrphanInv, ReaderInv, SuccessorInv, ViewInv, SettledInv, LateInv,
      LastPublicationStays, Settled, View, Contents
<1>1. CASE NoGraphics /\ UNCHANGED skipped /\ Observe
  BY <1>1
  DEF NoGraphics, Begin, Observe,
      files, mainVars, hbVars, Promised!Order, Promised!Show
<1>2. CASE BeginSession /\ UNCHANGED skipped /\ Observe
  BY <1>2
  DEF BeginSession, Begin, Observe,
      files, mainVars, hbVars, Promised!Order, Promised!Show
<1>3. CASE ForkClient /\ UNCHANGED skipped /\ Observe
  BY <1>3
  DEF ForkClient, Observe,
      files, mainVars, hbVars, Promised!Order, Promised!Show
<1>4. CASE SessionRunning /\ UNCHANGED skipped /\ Observe
  BY <1>4
  DEF SessionRunning, Begin, Observe,
      files, mainVars, hbVars, Promised!Order, Promised!Show
<1>5. CASE StartHeartbeat /\ UNCHANGED skipped /\ Observe
  BY <1>5
  DEF StartHeartbeat, Observe,
      files, mainVars, hbVars, Promised!Order, Promised!Show
<1>6. CASE ReapClient /\ UNCHANGED skipped /\ Observe
  BY <1>6
  DEF ReapClient, Observe,
      files, mainVars, hbVars, Promised!Order, Promised!Show
<1>7. CASE KillHeartbeat /\ UNCHANGED skipped /\ Observe
  BY <1>7
  DEF KillHeartbeat, Observe,
      files, mainVars, hbVars, Promised!Order, Promised!Show
<1>8. CASE SessionEnds /\ UNCHANGED skipped /\ Observe
  BY <1>8
  DEF SessionEnds, Begin, Observe,
      files, mainVars, hbVars, Promised!Order, Promised!Show
<1>9. CASE Degrade /\ UNCHANGED skipped /\ Observe
  BY <1>9
  DEF Degrade, Begin, Observe,
      files, mainVars, hbVars, Promised!Order, Promised!Show
<1>10. CASE OpenState /\ UNCHANGED skipped /\ Observe
  BY <1>10
  DEF OpenState, OpenTmp, Observe,
      files, mainVars, hbVars, Promised!Order, Promised!Show
<1>11. CASE WriteState /\ UNCHANGED skipped /\ Observe
  BY <1>11
  DEF WriteState, WriteTo, Observe,
      files, mainVars, hbVars, Promised!Order, Promised!Show
<1>12. CASE PublicationFails /\ Observe
  BY <1>12
  DEF PublicationFails, Observe,
      files, mainVars, hbVars, Promised!Order, Promised!Show
<1>13. CASE RenameState /\ UNCHANGED skipped /\ Observe
  BY <1>13
  DEF RenameState, RenameTmp, Observe,
      files, mainVars, hbVars, Promised!Order, Promised!Show
<1>14. CASE StateRenamedByOrphan /\ UNCHANGED skipped /\ Observe
  BY <1>14
  DEF StateRenamedByOrphan, Observe,
      files, mainVars, hbVars, Promised!Order, Promised!Show
<1>15. CASE HeartbeatWakes /\ UNCHANGED skipped /\ Observe
  BY <1>15
  DEF HeartbeatWakes, Beat, Observe,
      files, mainVars, hbVars, Promised!Order, Promised!Show
<1>16. CASE HeartbeatEnds /\ UNCHANGED skipped /\ Observe
  BY <1>16
  DEF HeartbeatEnds, Beat, Observe,
      files, mainVars, hbVars, Promised!Order, Promised!Show
<1>17. CASE HeartbeatOpens /\ UNCHANGED skipped /\ Observe
  BY <1>17
  DEF HeartbeatOpens, Beat, OpenTmp, Observe,
      files, mainVars, hbVars, Promised!Order, Promised!Show
<1>18. CASE HeartbeatWrites /\ UNCHANGED skipped /\ Observe
  BY <1>18
  DEF HeartbeatWrites, Beat, WriteTo, Observe,
      files, mainVars, hbVars, Promised!Order, Promised!Show
<1>19. CASE HeartbeatWriteFails /\ UNCHANGED skipped /\ Observe
  BY <1>19
  DEF HeartbeatWriteFails, Beat, Observe,
      files, mainVars, hbVars, Promised!Order, Promised!Show
<1>20. CASE HeartbeatRenames /\ UNCHANGED skipped /\ Observe
  BY <1>20
  DEF HeartbeatRenames, Beat, RenameTmp, Observe,
      files, mainVars, hbVars, Promised!Order, Promised!Show
<1>21. CASE OrphanRenames /\ UNCHANGED skipped /\ Observe
  BY <1>21
  DEF OrphanRenames, RenameTmp, Observe,
      files, mainVars, hbVars, Promised!Order, Promised!Show
<1>22. CASE ClientDies /\ UNCHANGED skipped /\ Observe
  BY <1>22
  DEF ClientDies, Observe,
      files, mainVars, hbVars, Promised!Order, Promised!Show
<1>23. QED
  BY <1>1, <1>2, <1>3, <1>4, <1>5, <1>6, <1>7, <1>8, <1>9, <1>10, <1>11, <1>12,
     <1>13, <1>14, <1>15, <1>16, <1>17, <1>18, <1>19, <1>20, <1>21, <1>22
  DEF PublicationNext, SupervisorStep, Supervisor, Heartbeat

(***************************************************************************)
(* The initial state satisfies the invariant, and so does every other.     *)
(***************************************************************************)
LEMMA PublicationInitial == PublicationInit => PublicationInv
BY InodeAssumption
DEF PublicationInit, PublicationInv, PublicationTypeOK, HeartbeatInv, ProgressInv, BeatInv,
    NamesInv, OrphanInv, LastPublicationStays, Settled, View, Contents

\* Every reachable state satisfies the invariant.
LEMMA PublicationInvariant == PublicationSpec => []PublicationInv
<1>1. PublicationInit => PublicationInv
  BY PublicationInitial
<1>2. PublicationInv /\ [PublicationNext]_publicationVars => PublicationInv'
  BY PublicationInductive
<1>3. QED
  BY <1>1, <1>2, PTL DEF PublicationSpec

\* The variables keep their types: readers never find a state they do not know.
THEOREM PublicationTyped == PublicationSpec => []PublicationTypeOK
<1>1. PublicationInv => PublicationTypeOK
  BY DEF PublicationInv
<1>2. QED
  BY <1>1, PublicationInvariant, PTL

(***************************************************************************)
(* A publication that has succeeded stays what readers find until the next *)
(* one begins, whatever the heartbeat was doing when it was killed and     *)
(* whichever writes fail (session_supervisor.py, write_shared_state and    *)
(* heartbeat_loop).                                                        *)
(***************************************************************************)
THEOREM PublicationNeverOverwritten == PublicationSpec => []LastPublicationStays
<1>1. PublicationInv => LastPublicationStays
  BY DEF PublicationInv
<1>2. QED
  BY <1>1, PublicationInvariant, PTL

(***************************************************************************)
(* Until a publication fails, the supervisor and its heartbeat together    *)
(* show readers the states of a session in their order: they implement     *)
(* SessionStates.                                                          *)
(***************************************************************************)
THEOREM ReadersAlwaysFollowSession == PublicationSpec => ReadersFollowSession
<1>1. PublicationInit => PublicationInv /\ ReaderInv /\ Promised!Init
  BY PublicationInitial
  DEF PublicationInit, ReaderInv, SuccessorInv, ViewInv, SettledInv, LateInv, View, Settled,
      Promised!Init
<1>2. PublicationInv /\ ReaderInv /\ [PublicationNext]_publicationVars
        => ReaderInv' /\ [Promised!Show]_seen
  <2>1. SUFFICES ASSUME PublicationInv, ReaderInv, [PublicationNext]_publicationVars
                 PROVE  ReaderInv' /\ [Promised!Show]_seen
    OBVIOUS
  <2>2. CASE PublicationNext
    BY <2>1, <2>2, ReaderInductive
  <2>3. CASE UNCHANGED publicationVars
    BY <2>1, <2>3
    DEF publicationVars, files, mainVars, hbVars, ReaderInv, SuccessorInv, ViewInv, SettledInv,
        LateInv, View, Settled
  <2>4. QED
    BY <2>1, <2>2, <2>3
<1>3. PublicationSpec => []ReaderInv /\ [][Promised!Show]_seen
  BY <1>1, <1>2, PublicationInvariant, PTL DEF PublicationSpec
<1>4. QED
  BY <1>1, <1>3, PTL DEF PublicationSpec, ReadersFollowSession, Promised!Spec
================================================================================
