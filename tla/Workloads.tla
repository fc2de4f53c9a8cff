------------------------------ MODULE Workloads ------------------------------
(***************************************************************************)
(* slm_sim/workloads: the arrivals of an episode.  ScenarioComposer seeds  *)
(* one profile after the other (a process of exponential gaps with bursts, *)
(* or a periodic one with jitter, one of them with burst windows as well), *)
(* then, in burst_storm, all profiles again for short windows, and, in     *)
(* asymmetric, gives the arrivals a core.  A draw of the random generator  *)
(* is a choice from the values it can return.                              *)
(***************************************************************************)
EXTENDS NoneValue, Integers, Sequences, SequencesExt

CONSTANTS
  Scenarios,       \* records: profiles, a sequence of [component, intensity],
                   \* burst_overlay, affinity_map: component -> sequence of cores,
                   \* and the end of the episode, end_ns
  Interval,        \* component -> its period at intensity 1
  Gaps,            \* gaps the exponential distribution may give, jitter included
  BurstCounts, BurstOffsets,        \* of the anomaly detector's bursts
  BURST_INTERVAL_NS, BURST_DURATION_NS, BurstStep,   \* of pred_maint's windows
  BURST_OVERLAY_INTERVAL_NS, BURST_OVERLAY_DURATION_NS,
  MaxArrivals      \* bound on the arrivals

Periodic == {"pred_maint", "security_monitor", "system"}

ASSUME WorkloadAssumption ==
  /\ \A s \in Scenarios :
       /\ s.profiles \in Seq([component : STRING, intensity : Nat \ {0}])
       /\ s.burst_overlay \in BOOLEAN /\ s.end_ns \in Nat
       /\ \A c \in DOMAIN s.affinity_map : s.affinity_map[c] \in Seq(Nat) \ {<<>>}
  /\ \A c \in Periodic : Interval[c] \in Nat
  /\ Gaps \subseteq Nat \ {0} /\ BurstCounts \subseteq Nat /\ BurstOffsets \subseteq Nat
  /\ BURST_INTERVAL_NS \in Nat \ {0} /\ BURST_DURATION_NS \in Nat /\ BurstStep \in Nat
  /\ BURST_OVERLAY_INTERVAL_NS \in Nat \ {0} /\ BURST_OVERLAY_DURATION_NS \in Nat

(* A scenario that gives out cores seeds every component once, and its map *)
(* lists no core twice (SCENARIOS: asymmetric). *)
ASSUME AffinityAssumption ==
  \A s \in Scenarios : DOMAIN s.affinity_map # {} =>
    /\ ~s.burst_overlay
    /\ \A i, j \in DOMAIN s.profiles : s.profiles[i].component = s.profiles[j].component => i = j
    /\ \A c \in DOMAIN s.affinity_map : IsInjective(s.affinity_map[c])

VARIABLES
  scenario,   \* one of them
  todo,       \* the seedings to be made, the first one in progress
  t,          \* time in its loop; None: the loop has not begun
  window,     \* start of pred_maint's burst window, None in the periodic part
  arrivals,   \* the arrivals pushed so far
  patched     \* the affinity map has been applied
workloadVars == <<scenario, todo, t, window, arrivals, patched>>

profiles == scenario.profiles
burst_overlay == scenario.burst_overlay
affinity_map == scenario.affinity_map
end_ns == scenario.end_ns

ANY == -1      \* CPU_AFFINITY_ANY

Seeding(p, from, to, k) ==
  [component |-> p.component, intensity |-> p.intensity * k, from |-> from, to |-> to]
SeedAll(from, to, k) == [i \in DOMAIN profiles |-> Seeding(profiles[i], from, to, k)]

MinOf(a, b) == IF a < b THEN a ELSE b
(* _seed_burst_overlay: three times the rate during a short window. *)
OverlayWindows ==
  [i \in 1 .. (end_ns - 1) \div BURST_OVERLAY_INTERVAL_NS |->
     SeedAll(i * BURST_OVERLAY_INTERVAL_NS,
             MinOf(i * BURST_OVERLAY_INTERVAL_NS + BURST_OVERLAY_DURATION_NS, end_ns), 3)]

WorkloadInit ==
  /\ scenario \in Scenarios
  /\ todo = SeedAll(0, end_ns, 1) \o (IF burst_overlay THEN FlattenSeq(OverlayWindows) ELSE <<>>)
  /\ t = None /\ window = None /\ arrivals = <<>> /\ patched = FALSE

job == Head(todo)
Seeds(component) == todo # <<>> /\ job.component = component /\ Len(arrivals) < MaxArrivals

interval == Interval[job.component] \div job.intensity
Jitter(step) == -(step \div 10) .. step \div 10

(* allocate_task_id and push_event *)
Emit(times) ==
  arrivals' = arrivals \o
    [i \in DOMAIN times |->
       [task_id |-> Len(arrivals) + i, component |-> job.component, time |-> times[i],
        seeding |-> Len(todo), windowed |-> window # None, cpu_affinity |-> ANY]]

NextProfile == todo' = Tail(todo) /\ t' = None /\ window' = None

(* AnomalyDetectorWorkload: a burst follows one arrival in twenty; of the  *)
(* times that are drawn those before the end are kept. *)
BurstsOf(at, end) ==
  LET drawn == {at + o : o \in BurstOffsets}
      before == {x \in drawn : x < end}
      kept_of(k) == IF before = drawn THEN {k} ELSE 0 .. k
  IN  {<<>>} \cup UNION {[1 .. j -> before] : j \in UNION {kept_of(k) : k \in BurstCounts}}
AnomalyArrival ==
  /\ Seeds("anomaly_detector") /\ UNCHANGED patched
  /\ \E gap \in Gaps :
       LET now == (IF t = None THEN job.from ELSE t) + gap
       IN  IF now >= job.to THEN NextProfile /\ UNCHANGED arrivals
           ELSE /\ t' = now /\ UNCHANGED <<todo, window>>
                /\ \E b \in BurstsOf(now, job.to) : Emit(<<now>> \o b)

(* The periodic profiles: the phase is random, the jitter of an arrival    *)
(* does not move the next one. *)
BeginPeriod ==
  /\ \E c \in Periodic : Seeds(c)
  /\ t = None /\ t' \in job.from .. job.from + interval - 1
  /\ UNCHANGED <<todo, window, arrivals, patched>>
(* Mutation: the window's start is not looked at. *)
KeptBeforeEnd(arrival) == arrival < job.to
Kept(arrival) == job.from <= arrival /\ arrival < job.to
TickOf(step) ==
  \E jitter \in Jitter(step) :
    /\ Emit(IF Kept(t + jitter) THEN <<t + jitter>> ELSE <<>>)
    /\ t' = t + step
  /\ UNCHANGED <<todo, window, patched>>
Tick ==
  /\ \E c \in Periodic : Seeds(c)
  /\ t # None /\ window = None /\ t < job.to /\ TickOf(interval)

(* PredMaintWorkload: at most every BURST_INTERVAL_NS a window of arrivals *)
(* at the burst rate. *)
burst_interval == BURST_INTERVAL_NS \div job.intensity
BurstTick ==
  /\ Seeds("pred_maint") /\ t # None /\ window # None
  /\ t < MinOf(window + BURST_DURATION_NS, job.to) /\ TickOf(BurstStep \div job.intensity)
NextWindow ==
  /\ Seeds("pred_maint") /\ t # None
  /\ t >= IF window = None THEN job.to ELSE MinOf(window + BURST_DURATION_NS, job.to)
  /\ LET next == IF window = None THEN job.from + burst_interval ELSE window + burst_interval
     IN  IF next < job.to THEN window' = next /\ t' = next /\ UNCHANGED todo
         ELSE NextProfile
  /\ UNCHANGED <<arrivals, patched>>
PeriodEnds ==
  /\ \E c \in Periodic \ {"pred_maint"} : Seeds(c)
  /\ t # None /\ t >= job.to /\ NextProfile /\ UNCHANGED <<arrivals, patched>>

(* _apply_affinity_map *)
(* Mutation: the cores are counted from the first arrival that is read. *)
FirstCore(a) == affinity_map[a.component][1]
CoreFor(a) ==
  LET cores == affinity_map[a.component] IN cores[(a.task_id % Len(cores)) + 1]
ApplyAffinity ==
  /\ todo = <<>> /\ ~patched /\ patched' = TRUE
  /\ arrivals' = [i \in DOMAIN arrivals |->
       IF arrivals[i].component \in DOMAIN affinity_map
       THEN [arrivals[i] EXCEPT !.cpu_affinity = CoreFor(arrivals[i])] ELSE arrivals[i]]
  /\ UNCHANGED <<todo, t, window>>

WorkloadNext ==
  /\ \/ AnomalyArrival \/ BeginPeriod \/ Tick \/ BurstTick \/ NextWindow \/ PeriodEnds
     \/ ApplyAffinity
  /\ UNCHANGED scenario
WorkloadSpec == WorkloadInit /\ [][WorkloadNext]_workloadVars

-----------------------------------------------------------------------------
(* No arrival lies outside the window of its seeding, and no window outside*)
(* the episode, whatever the phases, the jitter and the bursts: an arrival *)
(* before 0 would set the clock back, one after the end never be handled   *)
(* (seed_events of the profiles, _seed_burst_overlay). *)
InWindow ==
  /\ todo # <<>> => \A i \in DOMAIN arrivals :
       arrivals[i].seeding = Len(todo) => arrivals[i].time \in job.from .. job.to - 1
  /\ \A i \in DOMAIN arrivals : arrivals[i].time \in 0 .. end_ns - 1

(* scenarios.py:205: "Round-robin assignment using task_id".  The arrivals *)
(* of a component are spread over its cores to within one, although the    *)
(* ids are given out over all components (_apply_affinity_map). *)
RoundRobin ==
  patched => \A c \in DOMAIN affinity_map :
    LET on(k) == Cardinality({i \in DOMAIN arrivals :
                   arrivals[i].component = c /\ arrivals[i].cpu_affinity = k})
        cores == Range(affinity_map[c])
    IN  /\ \A k, l \in cores : on(k) <= on(l) + 1
        /\ \A i \in DOMAIN arrivals : arrivals[i].component = c => arrivals[i].cpu_affinity \in cores
=============================================================================
