------------------------------- MODULE Alerts -------------------------------
(***************************************************************************)
(* The alert banner's state machine, driven by the tick loop: pressure     *)
(* alerts that must last `Sustain` before they fire, alerts that fire at   *)
(* once, alerts about an exit, and the operator's acknowledgement.         *)
(*                                                                         *)
(* What a tick measures is the environment's choice.  Of an alert entry    *)
(* only its state matters here; its text and its place in the banner do    *)
(* not.  A PID is not reused.                                              *)
(***************************************************************************)
EXTENDS Integers, Sequences, FiniteSets, SequencesExt

CONSTANTS
  Pids,            \* positive numbers
  WorkloadAlerts,  \* the alerts observed per workload, GovernorArmed apart
  SystemAlerts,    \* the alerts observed for the host
  Sustain,         \* thresholds.alert_sustain_secs
  MaxTime,         \* bound: the clock
  MaxQueue         \* bound: exit events kept

Gated   == {"VramPressure", "RamPressure", "KvPressure"}   \* is_sustain_gated
OneShot == {"OomDetected", "WorkloadExited"}               \* is_one_shot_exit

ASSUME AlertAssumption == /\ Pids \subseteq Nat \ {0} /\ IsFiniteSet(Pids)
                          /\ WorkloadAlerts \subseteq {"VramPressure", "KvPressure"}
                          /\ SystemAlerts \subseteq {"RamPressure", "ThermalPressure"}
                          /\ Sustain \in Nat
                          /\ MaxTime \in Nat /\ MaxQueue \in Nat

System == 0
Nobody == 0
Keys   == ({System} \X SystemAlerts)
            \cup (Pids \X (WorkloadAlerts \cup {"GovernorArmed"} \cup OneShot))

VARIABLES
  clock,
  procs,           \* the AI workload on each PID, as of the last tick
  armed,           \* the PID of the open kill_confirm card, or Nobody
  slots,           \* AlertState.slots; Idle where the code has no slot
  queue,           \* pending_exit_alerts
  since,           \* history: when the unbroken breach of this workload began
  acked,           \* history: alerts acknowledged whose condition still holds
  ticked           \* history: the time of the last tick

vars == <<clock, procs, armed, slots, queue, since, acked, ticked>>

Idle       == [st |-> "Idle", at |-> 0]
Pending(t) == [st |-> "Pending", at |-> t]
Active     == [st |-> "Active", at |-> 0]
Suppressed == [st |-> "Suppressed", at |-> 0]
Not        == -1

\* "muted": a [[workloads]] rule with suppress_alerts.
Kinds == {"plain", "muted"}
Live(ps, p) == ps[p] \in Kinds

----------------------------------------------------------------------------
(* AlertState                                                              *)

\* Mutant: a breach that stops for a moment does not restart the window.
TransitionSticky(slot, alert, breaching) ==
  CASE slot = Idle /\ breaching -> IF alert \in Gated THEN Pending(clock) ELSE Active
    [] slot.st = "Pending" /\ breaching ->
         IF clock - slot.at >= Sustain THEN Active ELSE slot
    [] slot.st \in {"Active", "Suppressed"} /\ breaching -> slot
    [] slot.st = "Pending" /\ ~breaching -> slot
    [] OTHER -> Idle

\* Mutant: the window has to be exceeded.
TransitionLate(slot, alert, breaching) ==
  CASE ~breaching -> Idle
    [] slot = Idle /\ breaching -> IF alert \in Gated THEN Pending(clock) ELSE Active
    [] slot.st = "Pending" /\ breaching ->
         IF clock - slot.at > Sustain THEN Active ELSE slot
    [] slot.st \in {"Active", "Suppressed"} /\ breaching -> slot

Transition(slot, alert, breaching) ==
  CASE ~breaching -> Idle
    [] slot = Idle /\ breaching -> IF alert \in Gated THEN Pending(clock) ELSE Active
    [] slot.st = "Pending" /\ breaching ->
         IF clock - slot.at >= Sustain THEN Active ELSE slot
    [] slot.st \in {"Active", "Suppressed"} /\ breaching -> slot

\* ack_all
AckAll(ss) ==
  [k \in Keys |-> IF ss[k] # Active THEN ss[k]
                  ELSE IF k[2] \in OneShot THEN Idle ELSE Suppressed]

----------------------------------------------------------------------------
(* One tick                                                                *)

\* The keys observe_alerts looks at.
Observed(ps) ==
  ({System} \X SystemAlerts)
    \cup ({p \in Pids : ps[p] = "plain"} \X (WorkloadAlerts \cup {"GovernorArmed"}))

\* From one snapshot to the next a workload stays, goes or comes.
Step(ps) ==
  \A p \in Pids : \/ ps[p] = procs[p]
                  \/ procs[p] = "free" /\ Live(ps, p)
                  \/ Live(procs, p) /\ ps[p] = "gone"

Exits(ps) == {p \in Pids : Live(procs, p) /\ ~Live(ps, p)}

\* exit_alerts: which of the exits are worth an alert (all but a clean one).
Events(ps) == {E \in SUBSET (Exits(ps) \X OneShot) :
                 \A e, f \in E : e[1] = f[1] => e = f}

\* Mutant: the queue is observed and not drained.
DrainedNever(q) == q

\* The TUI loop drains the queue after each tick.
Drained(q) == <<>>

Tick(ps, breach, events) ==
  LET q       == queue \o SetToSeq(events)
      fired   == ToSet(q)
      holds(k) == IF k[2] = "GovernorArmed" THEN armed = k[1] ELSE k \in breach
      noted   == [k \in Keys |-> IF k \in fired THEN Active ELSE slots[k]]
  IN
  /\ Len(q) <= MaxQueue
  /\ procs' = ps
  /\ slots' = [k \in Keys |-> IF k \in Observed(ps)
                              THEN Transition(noted[k], k[2], holds(k))
                              ELSE noted[k]]
  /\ queue' = Drained(q)
  /\ since' = [k \in Keys |-> IF ~(k \in Observed(ps) /\ holds(k)) THEN Not
                              ELSE IF since[k] = Not THEN clock ELSE since[k]]
  /\ acked' = {k \in acked : \/ k[2] \in OneShot /\ k \notin events
                             \/ k \in Observed(ps) /\ holds(k) /\ since[k] # Not}
  /\ ticked' = clock
  /\ UNCHANGED <<clock, armed>>

----------------------------------------------------------------------------
(* The operator and the clock                                              *)

\* The `a` key.
Acknowledge ==
  /\ slots' = AckAll(slots)
  /\ acked' = acked \cup {k \in Keys : slots[k] = Active}
  /\ UNCHANGED <<clock, procs, armed, queue, since, ticked>>

\* The kill_confirm card opens on a workload, and closes.
Arm(p) ==
  /\ armed = Nobody
  /\ Live(procs, p)
  /\ armed' = p
  /\ UNCHANGED <<clock, procs, slots, queue, since, acked, ticked>>

Disarm ==
  /\ armed # Nobody
  /\ armed' = Nobody
  /\ UNCHANGED <<clock, procs, slots, queue, since, acked, ticked>>

Elapse ==
  /\ clock < MaxTime
  /\ clock' = clock + 1
  /\ UNCHANGED <<procs, armed, slots, queue, since, acked, ticked>>

----------------------------------------------------------------------------
Init ==
  /\ clock = 0
  /\ procs = [p \in Pids |-> "free"]
  /\ armed = Nobody
  /\ slots = [k \in Keys |-> Idle]
  /\ queue = <<>>
  /\ since = [k \in Keys |-> Not]
  /\ acked = {}
  /\ ticked = 0

AnyTick ==
  \E ps \in [Pids -> Kinds \cup {"free", "gone"}] :
    /\ Step(ps)
    /\ \E breach \in SUBSET Observed(ps), events \in Events(ps) : Tick(ps, breach, events)

Next ==
  \/ AnyTick
  \/ Acknowledge
  \/ \E p \in Pids : Arm(p)
  \/ Disarm
  \/ Elapse

Spec == Init /\ [][Next]_vars

----------------------------------------------------------------------------
(* Properties                                                              *)

\* A pressure alert enters the banner only after every tick of the last
\* Sustain seconds has measured the breach on this very workload.
SustainedAlert ==
  [][\A k \in Keys : k[2] \in Gated /\ slots[k] # Active /\ slots'[k] = Active =>
       since'[k] # Not /\ clock - since'[k] >= Sustain]_vars

\* A breach that has lasted Sustain by the last tick is in the banner, or the
\* operator has acknowledged it for this workload; a younger one is counted
\* from its very first tick, which even a window of 0 does not fire at (the
\* Pending arm of transition).
NoMissedAlert ==
  \A k \in Keys : since[k] # Not =>
    \/ slots[k] = Active
    \/ slots[k] = Suppressed /\ k \in acked
    \/ /\ slots[k] = Pending(since[k])
       /\ ticked - since[k] < Sustain \/ ticked = since[k]

\* Once acknowledged an alert stays away until its condition ends and comes
\* back; an exit that was acknowledged is not reported again.
AckRespected == \A k \in acked : slots[k] # Active
=============================================================================
