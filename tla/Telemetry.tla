------------------------------ MODULE Telemetry ------------------------------
(***************************************************************************)
(* What the tick loop measures of a workload and what it keeps when the    *)
(* workload ends: the dispatcher's sample tasks and their channel, the     *)
(* per-PID accumulator, the cold-load detector, the trajectory rings, and  *)
(* the loop over the exits of a tick that turns them into a run.           *)
(*                                                                         *)
(* A life is a process as the lifecycle tracker knows it: from the first   *)
(* snapshot that shows the PID to the first that does not.  Everything     *)
(* here is keyed by PID, so the lives of one PID follow one another in the *)
(* same slots, and sample tasks answer whenever they please.  Of a frame   *)
(* only its origin matters, not its numbers.  The kill path, the alerts    *)
(* and the run store that the same tick drives have modules of their own.  *)
(***************************************************************************)
EXTENDS Integers, Sequences, FiniteSets, FiniteSetsExt

CONSTANTS
  PIDs,               \* numbers
  AiPIDs,             \* bound: those of them an AI workload lands on
  CompletedHistory,   \* runtime.completed_history
  SamplesPerPid,      \* runtime.history_trajectory_samples_per_pid
  AuditHistory,       \* runtime.audit_history, the cap of state.regressions
  PlateauTicks,       \* PLATEAU_TICKS
  HardTimeout,        \* HARD_TIMEOUT, in ticks
  HasPower,           \* the host has a power or temperature reading
  MaxFindings,        \* regressions one run can show (one per metric)
  MaxLives,           \* bound: lives begun
  MaxTicks            \* bound: ticks

ASSUME TelemetryAssumption ==
  /\ PIDs \subseteq Nat /\ IsFiniteSet(PIDs) /\ AiPIDs \subseteq PIDs
  /\ CompletedHistory \in Nat /\ SamplesPerPid \in Nat \ {0} /\ AuditHistory \in Nat
  /\ PlateauTicks \in Nat \ {0} /\ HardTimeout \in Nat \ {0}
  /\ HasPower \in BOOLEAN
  /\ MaxFindings \in Nat /\ MaxLives \in Nat /\ MaxTicks \in Nat

VARIABLES
  tick_count,
  lives,              \* lives begun so far; a life is its number
  previous,           \* LifecycleTracker.previous, the running ones
  todo,               \* recent_exits not yet processed by this tick's loop
  tasks,              \* spawned sample tasks that have not finished
  frames,             \* the mpsc channel; a set, its order does not matter here
  by_pid,             \* TelemetryAccumulator.by_pid
  cold_load,          \* ColdLoadTracker.by_pid
  trajectories,       \* History.trajectories
  completed,          \* state.completed
  attribution,        \* state.recent_exit_attribution
  regressions,        \* the length of state.regressions
  regressions_count,  \* the sum of regressions_count, and what was archived
  detected            \* history: regressions pushed since the start

vars == <<tick_count, lives, previous, todo, tasks, frames, by_pid, cold_load,
          trajectories, completed, attribution, regressions, regressions_count,
          detected>>

None == "none"
Without(f, ps) == [q \in DOMAIN f \ ps |-> f[q]]

----------------------------------------------------------------------------
(* TelemetryAccumulator                                                    *)

\* PerPidStats::default
Stats == [samples |-> {}, steady |-> {}, steady_started |-> FALSE]

StatsOf(acc, p) == IF p \in DOMAIN acc THEN acc[p] ELSE Stats

\* PerPidStats::record of the frames fs: all of them count, and after the
\* cold load they count as steady too.
FoldIn(s, fs) ==
  [s EXCEPT !.samples = @ \cup fs, !.steady = IF s.steady_started THEN @ \cup fs ELSE @]

\* The frames of the channel, folded in at tick t under the PID they name.
Drained(acc, fs, t) ==
  [p \in DOMAIN acc \cup {f.pid : f \in fs} |->
     FoldIn(StatsOf(acc, p), {[life |-> f.life, at |-> t] : f \in {g \in fs : g.pid = p}})]

\* mark_steady_state of the PIDs ps.
Marked(acc, ps) ==
  [p \in DOMAIN acc \cup ps |->
     IF p \in ps THEN [StatsOf(acc, p) EXCEPT !.steady_started = TRUE] ELSE acc[p]]

----------------------------------------------------------------------------
(* ColdLoadTracker.  Of a reading of /proc/<pid>/io matters whether it is  *)
(* above the plateau rate, and whether the bytes read so far are enough to *)
(* be a model: many slow readings may add up to one.                       *)

Readings == [fast : BOOLEAN, enough : BOOLEAN]

\* State::new; the first reading is only the baseline.
NewLoad(t) == [started |-> t, rates |-> <<>>, loaded |-> FALSE, finalised |-> FALSE]

Window(rates) == IF Len(rates) > PlateauTicks THEN Tail(rates) ELSE rates

\* record, at tick t, until the load is final: by a plateau after a load, or
\* by age.
Reading(s, r, t) ==
  LET rates   == Window(Append(s.rates, r))
      loaded  == s.loaded \/ r.enough
      plateau == /\ Len(rates) >= PlateauTicks
                 /\ \A i \in DOMAIN rates : ~rates[i].fast
                 /\ loaded
      final   == plateau \/ t - s.started >= HardTimeout
  IN IF s.finalised THEN s
     ELSE [s EXCEPT !.rates = rates, !.loaded = loaded, !.finalised = final]

\* The tracker after the readings io of tick t.
Loads(cl, io, t) ==
  [p \in DOMAIN cl \cup DOMAIN io |->
     IF p \notin DOMAIN io THEN cl[p]
     ELSE IF p \in DOMAIN cl THEN Reading(cl[p], io[p], t)
     ELSE NewLoad(t)]

\* The PIDs whose load became final with this tick's reading.
JustLoaded(old, new) ==
  {p \in DOMAIN new : new[p].finalised /\ ~(p \in DOMAIN old /\ old[p].finalised)}

----------------------------------------------------------------------------
(* History and the rings of RuntimeState                                   *)

\* TrajectoryRing::push
RingPush(ring, x) ==
  Append(IF Len(ring) = SamplesPerPid THEN Tail(ring) ELSE ring, x)

RingOf(rings, p) == IF p \in DOMAIN rings THEN rings[p] ELSE <<>>

\* The while loop that trims completed and recent_exit_attribution together.
Trim(s) == IF Len(s) > CompletedHistory THEN Tail(s) ELSE s

\* Mutant: the attributions are not trimmed with the summaries.
AttributedAll(s, life, ai) == Append(s, IF ai THEN life ELSE None)

\* The placeholder pushed for the exit, or its classification once patched
\* back; a ring of length 0 has no back to patch.
Attributed(s, life, ai) == Trim(Append(s, IF ai THEN life ELSE None))

----------------------------------------------------------------------------
(* One tick.  The loop over its exits runs one exit at a time; the tasks   *)
(* of the tokio runtime go on meanwhile.                                   *)

Newcomers(live) == live \ DOMAIN previous

\* LifecycleTracker::update: who stays, who is new (classified now, once).
Updated(live, ai) ==
  [p \in live |->
     IF p \in DOMAIN previous THEN previous[p]
     ELSE [life |-> lives + Cardinality({q \in Newcomers(live) : q <= p}),
           ai   |-> p \in ai]]

\* tick, up to the exits: trackers and rings take the snapshot, the channel
\* is drained, a sample task is spawned per AI process, each gets its power
\* frame if the host has a reading, then disk I/O may end a cold load.
Tick(live, ai, io) ==
  LET now   == tick_count + 1
      prev  == Updated(live, ai)
      watts == IF HasPower THEN {[pid |-> p, life |-> prev[p].life] : p \in ai} ELSE {}
      loads == Loads(cold_load, io, now)
  IN
  /\ todo = <<>> /\ tick_count < MaxTicks
  /\ lives + Cardinality(Newcomers(live)) <= MaxLives
  /\ tick_count' = now
  /\ lives' = lives + Cardinality(Newcomers(live))
  /\ previous' = prev
  /\ todo' = Without(previous, live)
  /\ trajectories' = [p \in DOMAIN trajectories \cup ai |->
                        IF p \in ai
                        THEN RingPush(RingOf(trajectories, p), [life |-> prev[p].life, at |-> now])
                        ELSE trajectories[p]]
  /\ frames' = {}
  /\ tasks' = tasks \cup {[pid |-> p, life |-> prev[p].life, asked |-> now] : p \in ai}
  /\ cold_load' = loads
  /\ by_pid' = Marked(Drained(Drained(by_pid, frames, now), watts, now),
                      JustLoaded(cold_load, loads))
  /\ UNCHANGED <<completed, attribution, regressions, regressions_count, detected>>

\* TelemetryAccumulator::forget
Forget(acc, p) == Without(acc, {p})

\* Mutant: the cold-load slot outlives its process.
ForgetLoadNot(cl, p) == cl

\* ColdLoadTracker::forget
ForgetLoad(cl, p) == Without(cl, {p})

\* drain_trajectory
DrainRing(rings, p) == Without(rings, {p})

\* iter().skip(regs_before) over the ring that check_regressions pushed to.
Fresh(before, after) == after - before

\* The body of the loop over recent_exits for PID p, whose run shows `found`
\* regressions (0 when the process was not AI: it gets no record).
DrainExit(p, found) ==
  LET life  == todo[p].life
      ai    == todo[p].ai
      rings == Min({AuditHistory, regressions + found})
  IN
  /\ p \in DOMAIN todo
  /\ found > 0 => ai
  /\ completed' = Trim(Append(completed, [life |-> life, ai |-> ai,
                                          trajectory |-> RingOf(trajectories, p)]))
  /\ attribution' = Attributed(attribution, life, ai)
  /\ trajectories' = DrainRing(trajectories, p)
  /\ regressions' = rings
  /\ regressions_count' = regressions_count + Fresh(regressions, rings)
  /\ detected' = detected + found
  /\ by_pid' = Forget(by_pid, p)
  /\ cold_load' = ForgetLoad(cold_load, p)
  /\ todo' = Without(todo, {p})
  /\ UNCHANGED <<tick_count, lives, previous, tasks, frames>>

----------------------------------------------------------------------------
(* The tokio runtime                                                       *)

\* A task has got its source's lock and the sampler answered in time.
Answer(t) ==
  /\ t \in tasks
  /\ tasks' = tasks \ {t}
  /\ frames' = frames \cup {[pid |-> t.pid, life |-> t.life]}
  /\ UNCHANGED <<tick_count, lives, previous, todo, by_pid, cold_load, trajectories,
                 completed, attribution, regressions, regressions_count, detected>>

\* The source does not apply, the sample failed, or it ran into the timeout.
Drop(t) ==
  /\ t \in tasks
  /\ tasks' = tasks \ {t}
  /\ UNCHANGED <<tick_count, lives, previous, todo, frames, by_pid, cold_load, trajectories,
                 completed, attribution, regressions, regressions_count, detected>>

----------------------------------------------------------------------------
Init ==
  /\ tick_count = 0 /\ lives = 0
  /\ previous = <<>> /\ todo = <<>>
  /\ tasks = {} /\ frames = {}
  /\ by_pid = <<>> /\ cold_load = <<>> /\ trajectories = <<>>
  /\ completed = <<>> /\ attribution = <<>>
  /\ regressions = 0 /\ regressions_count = 0 /\ detected = 0

AnyTick ==
  \E live \in SUBSET PIDs : \E ai \in SUBSET (live \cap AiPIDs) : \E seen \in SUBSET ai :
    \E io \in [seen -> Readings] : Tick(live, ai, io)

AnyExit == \E p \in DOMAIN todo, found \in 0 .. MaxFindings : DrainExit(p, found)

Next ==
  \/ AnyTick
  \/ AnyExit
  \/ \E t \in tasks : Answer(t)
  \/ \E t \in tasks : Drop(t)

Spec == Init /\ [][Next]_vars

----------------------------------------------------------------------------
(* Properties                                                              *)

\* A recycled PID starts fresh: what the accumulator holds for a running
\* workload was sampled from that workload, and not from one that ran on its
\* PID before (Dispatcher::forget against the sample tasks still out).
\* The code breaks it (README.md, Observations).
FreshStart ==
  \A p \in DOMAIN previous \cap DOMAIN by_pid : \A f \in by_pid[p].samples :
    previous[p].ai => f.life = previous[p].life

\* The steady-state split of a PID and its cold-load slot tell one story: it
\* is steady exactly when its load is final, and then nothing folded in
\* before is in the steady share (record_disk_io, forget of both maps).
SteadyMeansLoaded ==
  /\ \A p \in PIDs : StatsOf(by_pid, p).steady_started
                       <=> p \in DOMAIN cold_load /\ cold_load[p].finalised
  /\ \A p \in DOMAIN by_pid : \A f \in by_pid[p].samples : \A g \in by_pid[p].steady :
       f.at > g.at => f \in by_pid[p].steady

\* completed and recent_exit_attribution stay in step: the n-th attribution
\* is of the n-th exit and exists for the AI ones, and the trajectory that an
\* exit carries was sampled from that very life, in order.
ExitsPaired ==
  /\ Len(attribution) = Len(completed)
  /\ \A i \in DOMAIN completed :
       LET c == completed[i] IN
       /\ attribution[i] = IF c.ai THEN c.life ELSE None
       /\ \A j \in DOMAIN c.trajectory :
            /\ c.trajectory[j].life = c.life
            /\ j > 1 => c.trajectory[j - 1].at < c.trajectory[j].at

\* Every regression detected is counted for the exporter and lands in the
\* archive exactly once (the skip over the ring in tick).
\* The code breaks it (README.md, Observations).
EachCounted == regressions_count = detected
=============================================================================
