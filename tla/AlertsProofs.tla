---------------------------- MODULE AlertsProofs ----------------------------
(***************************************************************************)
(* Machine-checked results about Alerts, for any PIDs, any alerts and any  *)
(* sustain window, that of 0 seconds included: a pressure alert is shown   *)
(* after a whole window of breach, none is missed, and an acknowledged one *)
(* stays away.                                                             *)
(***************************************************************************)
EXTENDS Alerts, FiniteSetTheorems, SequenceTheorems, TLAPS

----------------------------------------------------------------------------
(* The inductive invariant                                                 *)

Slots == {Idle, Active, Suppressed} \cup {Pending(t) : t \in Nat}

\* The state is well formed; the queue is empty between two ticks.
TypeOK ==
  /\ clock \in Nat /\ ticked \in Nat
  /\ procs \in [Pids -> Kinds \cup {"free", "gone"}]
  /\ slots \in [Keys -> Slots]
  /\ queue = <<>>
  /\ since \in [Keys -> Nat \cup {Not}]
  /\ acked \subseteq Keys

\* A breach is under way only where the last tick looked.
SinceObserved == \A k \in Keys : since[k] # Not => k \in Observed(procs)

\* The keys the next tick may look at: a workload that is muted or gone stays so.
Watchable(k) == k[1] = System \/ procs[k[1]] \in {"free", "plain"}

\* Where no breach is under way, the next one starts from an idle slot.
FreshIdle ==
  \A k \in Keys : k[2] \notin OneShot /\ since[k] = Not /\ Watchable(k) => slots[k] = Idle

\* An acknowledged breach that goes on is held down.
AckedHeld ==
  \A k \in acked : k[2] \notin OneShot /\ since[k] # Not => slots[k] = Suppressed

AlertInv == SinceObserved /\ FreshIdle /\ AckedHeld /\ NoMissedAlert /\ AckRespected

----------------------------------------------------------------------------
(* Lemmas about the operators                                              *)

\* The states of a slot are told apart.
LEMMA SlotsDiffer ==
  /\ Idle # Active /\ Idle # Suppressed /\ Active # Suppressed
  /\ \A t \in Nat : /\ Pending(t) # Idle /\ Pending(t) # Active /\ Pending(t) # Suppressed
                    /\ Pending(t).st = "Pending" /\ Pending(t).at = t
  /\ Idle.st = "Idle" /\ Active.st = "Active" /\ Suppressed.st = "Suppressed"
  BY DEF Idle, Active, Suppressed, Pending

\* What the state machine does in each of its states.
LEMMA TransitionProperties ==
  ASSUME NEW alert, clock \in Nat
  PROVE  /\ \A slot \in Slots : Transition(slot, alert, FALSE) = Idle
         /\ Transition(Idle, alert, TRUE) = IF alert \in Gated THEN Pending(clock) ELSE Active
         /\ \A t \in Nat : Transition(Pending(t), alert, TRUE)
                             = IF clock - t >= Sustain THEN Active ELSE Pending(t)
         /\ Transition(Active, alert, TRUE) = Active
         /\ Transition(Suppressed, alert, TRUE) = Suppressed
<1>1. \A slot \in Slots : Transition(slot, alert, FALSE) = Idle
  BY DEF Transition
<1>2. Transition(Idle, alert, TRUE) = IF alert \in Gated THEN Pending(clock) ELSE Active
  BY SlotsDiffer DEF Transition
<1>3. ASSUME NEW t \in Nat
      PROVE  Transition(Pending(t), alert, TRUE)
               = IF clock - t >= Sustain THEN Active ELSE Pending(t)
  BY SlotsDiffer DEF Transition
<1>4. Transition(Active, alert, TRUE) = Active /\ Transition(Suppressed, alert, TRUE) = Suppressed
  BY SlotsDiffer DEF Transition
<1>5. QED BY <1>1, <1>2, <1>3, <1>4

\* The state machine stays among its states.
LEMMA TransitionType ==
  ASSUME clock \in Nat, NEW slot \in Slots, NEW alert, NEW breaching \in BOOLEAN
  PROVE  Transition(slot, alert, breaching) \in Slots
<1>1. /\ Idle \in Slots /\ Active \in Slots /\ Suppressed \in Slots
      /\ \A t \in Nat : Pending(t) \in Slots
  BY DEF Slots
<1>2. CASE breaching = FALSE
  BY <1>1, <1>2, TransitionProperties
<1>3. CASE breaching = TRUE
  <2>1. CASE slot \in {Idle, Active, Suppressed}
    BY <1>1, <1>3, <2>1, TransitionProperties
  <2>2. CASE \E t \in Nat : slot = Pending(t)
    <3>1. PICK t \in Nat : slot = Pending(t)
      BY <2>2
    <3>2. QED BY <1>1, <1>3, <3>1, TransitionProperties
  <2>3. QED BY <2>1, <2>2 DEF Slots
<1>4. QED BY <1>2, <1>3

\* A finite set written out as a sequence has no other elements.
LEMMA ToSetSetToSeq ==
  ASSUME NEW S, IsFiniteSet(S)
  PROVE  ToSet(<<>> \o SetToSeq(S)) \subseteq S
<1> DEFINE n == Cardinality(S)
           P(f) == IsInjective(f)
<1>1. n \in Nat /\ ExistsBijection(1 .. n, S)
  BY FS_CardinalityType
<1>2. \E f \in [1 .. n -> S] : P(f)
  BY <1>1 DEF ExistsBijection, Bijection, Injection, IsInjective
<1>3. SetToSeq(S) \in [1 .. n -> S]
  BY <1>2 DEF SetToSeq
<1>4. SetToSeq(S) \in Seq(S)
  BY <1>1, <1>3
<1>5. <<>> \o SetToSeq(S) = SetToSeq(S)
  BY <1>4
<1>6. QED BY <1>3, <1>5 DEF ToSet

\* Which keys a tick looks at.
LEMMA ObservedKeys ==
  ASSUME NEW ps, NEW k \in Keys
  PROVE  /\ k \in Observed(ps) => /\ k[2] \notin OneShot
                                  /\ k[1] = System \/ (k[1] \in Pids /\ ps[k[1]] = "plain")
         /\ k[2] \notin OneShot /\ k[1] = System => k \in Observed(ps)
         /\ k[1] # System => k[1] \in Pids
         /\ k[2] \notin OneShot /\ k[1] # System /\ ps[k[1]] = "plain" => k \in Observed(ps)
<1>1. 0 \notin Pids
  BY AlertAssumption
<1>2. CASE k \in {System} \X SystemAlerts
  <2>1. k[1] = System /\ k[2] \in SystemAlerts
    BY <1>2
  <2>2. k[2] \notin OneShot
    BY <2>1, AlertAssumption DEF OneShot
  <2>3. QED BY <1>2, <2>1, <2>2 DEF Observed
<1>3. CASE k \in Pids \X (WorkloadAlerts \cup {"GovernorArmed"} \cup OneShot)
  <2>1. /\ k[1] \in Pids /\ k[1] # System /\ k = <<k[1], k[2]>>
        /\ k[2] \in WorkloadAlerts \cup {"GovernorArmed"} \cup OneShot
    BY <1>1, <1>3 DEF System
  <2>2. \A a \in WorkloadAlerts \cup {"GovernorArmed"} : a \notin OneShot
    BY AlertAssumption DEF OneShot
  <2>3. k \in Observed(ps) <=> /\ ps[k[1]] = "plain"
                              /\ k[2] \in WorkloadAlerts \cup {"GovernorArmed"}
    BY <2>1 DEF Observed
  <2>4. QED BY <2>1, <2>2, <2>3
<1>4. QED BY <1>2, <1>3 DEF Keys

\* Is the condition of k measured?
Holds(k, breach) == IF k[2] = "GovernorArmed" THEN armed = k[1] ELSE k \in breach

\* What a tick does to one key: an exit event may raise a one-shot alert, any
\* other key moves only where the tick looks.
LEMMA TickKey ==
  ASSUME TypeOK, NEW ps, NEW breach, NEW events \in Events(ps), Tick(ps, breach, events),
         NEW k \in Keys
  PROVE  /\ Holds(k, breach) \in BOOLEAN
         /\ k[2] \notin OneShot =>
              slots'[k] = IF k \in Observed(ps) THEN Transition(slots[k], k[2], Holds(k, breach))
                          ELSE slots[k]
         /\ k[2] \in OneShot => slots'[k] = slots[k] \/ (k \in events /\ slots'[k] = Active)
         /\ since'[k] = IF ~(k \in Observed(ps) /\ Holds(k, breach)) THEN Not
                        ELSE IF since[k] = Not THEN clock ELSE since[k]
         /\ k \in acked' <=> /\ k \in acked
                             /\ \/ k[2] \in OneShot /\ k \notin events
                                \/ k \in Observed(ps) /\ Holds(k, breach) /\ since[k] # Not
<1>1. Holds(k, breach) \in BOOLEAN
  <2>1. (armed = k[1]) \in BOOLEAN /\ (k \in breach) \in BOOLEAN
    OBVIOUS
  <2>2. QED BY <2>1, Zenon DEF Holds
<1>2. events \subseteq Pids \X OneShot
  BY DEF Events, Exits
<1>3. IsFiniteSet(events)
  <2>1. OneShot = {"OomDetected"} \cup {"WorkloadExited"}
    BY DEF OneShot
  <2>2. IsFiniteSet(OneShot)
    BY <2>1, FS_Singleton, FS_Union
  <2>3. IsFiniteSet(Pids \X OneShot)
    BY <2>2, AlertAssumption, FS_Product
  <2>4. QED BY <1>2, <2>3, FS_Subset
<1> DEFINE fired == ToSet(queue \o SetToSeq(events))
           noted == [x \in Keys |-> IF x \in fired THEN Active ELSE slots[x]]
<1>4. fired \subseteq events
  BY <1>3, ToSetSetToSeq DEF TypeOK
<1> HIDE DEF fired
<1>5. slots'[k] = IF k \in Observed(ps) THEN Transition(noted[k], k[2], Holds(k, breach))
                  ELSE noted[k]
  BY DEF Tick, Holds, fired
<1>6. k[2] \notin OneShot =>
        slots'[k] = IF k \in Observed(ps) THEN Transition(slots[k], k[2], Holds(k, breach))
                    ELSE slots[k]
  <2>1. k[2] \notin OneShot => k \notin fired
    BY <1>2, <1>4
  <2>2. QED BY <1>5, <2>1
<1>7. k[2] \in OneShot => slots'[k] = slots[k] \/ (k \in events /\ slots'[k] = Active)
  <2>1. k[2] \in OneShot => k \notin Observed(ps)
    BY ObservedKeys
  <2>2. QED BY <1>4, <1>5, <2>1
<1>8. since'[k] = IF ~(k \in Observed(ps) /\ Holds(k, breach)) THEN Not
                  ELSE IF since[k] = Not THEN clock ELSE since[k]
  BY DEF Tick, Holds
<1>9. k \in acked' <=> /\ k \in acked
                       /\ \/ k[2] \in OneShot /\ k \notin events
                          \/ k \in Observed(ps) /\ Holds(k, breach) /\ since[k] # Not
  BY DEF Tick, Holds
<1>10. QED BY <1>1, <1>6, <1>7, <1>8, <1>9

----------------------------------------------------------------------------
(* The invariant is kept                                                   *)

\* A tick keeps the state well formed.
LEMMA TickType ==
  ASSUME TypeOK, NEW ps \in [Pids -> Kinds \cup {"free", "gone"}], NEW breach,
         NEW events \in Events(ps), Tick(ps, breach, events)
  PROVE  TypeOK'
<1>1. ASSUME NEW k \in Keys PROVE slots'[k] \in Slots
  <2>1. slots[k] \in Slots /\ clock \in Nat
    BY DEF TypeOK
  <2>2. Active \in Slots
    BY DEF Slots
  <2>3. CASE k[2] \in OneShot
    BY <2>1, <2>2, <2>3, TickKey
  <2>4. CASE k[2] \notin OneShot
    <3>1. Transition(slots[k], k[2], Holds(k, breach)) \in Slots
      BY <2>1, TickKey, TransitionType
    <3>2. QED BY <2>1, <2>4, <3>1, TickKey
  <2>5. QED BY <2>3, <2>4
<1>2. ASSUME NEW k \in Keys PROVE since'[k] \in Nat \cup {Not}
  BY TickKey DEF TypeOK
<1>3. slots' \in [Keys -> Slots]
  <2>1. slots' = [k \in Keys |-> slots'[k]]
    BY DEF Tick
  <2>2. QED BY <1>1, <2>1
<1>4. since' \in [Keys -> Nat \cup {Not}]
  <2>1. since' = [k \in Keys |-> since'[k]]
    BY DEF Tick
  <2>2. QED BY <1>2, <2>1
<1>5. acked' \subseteq Keys
  BY DEF Tick, TypeOK
<1>6. procs' = ps /\ queue' = <<>> /\ ticked' = clock /\ clock' = clock
  BY DEF Tick, Drained
<1>7. QED BY <1>3, <1>4, <1>5, <1>6 DEF TypeOK

\* Every step keeps the state well formed.
LEMMA NextType == ASSUME TypeOK, [Next]_vars PROVE TypeOK'
<1>1. CASE AnyTick
  BY <1>1, TickType DEF AnyTick
<1>2. CASE Acknowledge
  <2>1. Idle \in Slots /\ Suppressed \in Slots
    BY DEF Slots
  <2>2. AckAll(slots) \in [Keys -> Slots]
    BY <2>1 DEF AckAll, TypeOK
  <2>3. QED BY <1>2, <2>2 DEF Acknowledge, TypeOK
<1>3. CASE \E p \in Pids : Arm(p)
  BY <1>3 DEF Arm, TypeOK
<1>4. CASE Disarm \/ Elapse \/ UNCHANGED vars
  BY <1>4 DEF Disarm, Elapse, vars, TypeOK
<1>5. QED BY <1>1, <1>2, <1>3, <1>4 DEF Next

\* Type correctness, with the queue of exit events empty between two ticks.
THEOREM TypeCorrect == Spec => []TypeOK
<1>1. Init => TypeOK
  BY DEF Init, TypeOK, Slots, Kinds
<1>2. TypeOK /\ [Next]_vars => TypeOK'
  BY NextType
<1>3. QED BY <1>1, <1>2, PTL DEF Spec

\* A key that a tick looks at was either in a breach or idle.
LEMMA ObservedBefore ==
  ASSUME TypeOK, AlertInv, NEW ps, Step(ps), NEW k \in Keys, k \in Observed(ps), since[k] = Not
  PROVE  slots[k] = Idle
<1>1. k[2] \notin OneShot /\ (k[1] = System \/ (k[1] \in Pids /\ ps[k[1]] = "plain"))
  BY ObservedKeys
<1>2. k[1] # System => procs[k[1]] \in {"free", "plain"}
  <2>1. ASSUME k[1] \in Pids, ps[k[1]] = "plain" PROVE procs[k[1]] \in {"free", "plain"}
    BY <2>1 DEF Step
  <2>2. QED BY <1>1, <2>1
<1>3. QED BY <1>1, <1>2 DEF AlertInv, FreshIdle, Watchable

\* Where a breach is under way the slot is in the banner, held down, or
\* counting from the start of the breach.
LEMMA BreachSlot ==
  ASSUME TypeOK, AlertInv, NEW k \in Keys, since[k] # Not
  PROVE  /\ since[k] \in Nat
         /\ \/ slots[k] = Active /\ k \notin acked
            \/ slots[k] = Suppressed /\ k \in acked
            \/ slots[k] = Pending(since[k]) /\ k \notin acked
<1>1. since[k] \in Nat
  BY DEF TypeOK
<1>2. k[2] \notin OneShot
  BY ObservedKeys DEF AlertInv, SinceObserved
<1>3. k \in acked => slots[k] = Suppressed
  BY <1>2 DEF AlertInv, AckedHeld
<1>4. QED BY <1>1, <1>3, SlotsDiffer DEF AlertInv, NoMissedAlert

\* A tick keeps the invariant.
LEMMA TickInv ==
  ASSUME TypeOK, AlertInv, NEW ps \in [Pids -> Kinds \cup {"free", "gone"}], Step(ps),
         NEW breach, NEW events \in Events(ps), Tick(ps, breach, events)
  PROVE  AlertInv'
<1>0. /\ procs' = ps /\ ticked' = clock /\ clock' = clock /\ clock \in Nat
      /\ Sustain \in Nat /\ acked' \subseteq acked /\ acked \subseteq Keys
  BY AlertAssumption DEF Tick, TypeOK
<1>1. SinceObserved'
  BY <1>0, TickKey DEF SinceObserved
<1>2. FreshIdle'
  <2> SUFFICES ASSUME NEW k \in Keys, k[2] \notin OneShot, since'[k] = Not,
                      k[1] = System \/ ps[k[1]] \in {"free", "plain"}
               PROVE  slots'[k] = Idle
    BY <1>0 DEF FreshIdle, Watchable
  <2>1. CASE k \in Observed(ps)
    <3>1. Holds(k, breach) = FALSE
      BY <1>0, <2>1, TickKey DEF Not
    <3>2. slots'[k] = Transition(slots[k], k[2], Holds(k, breach))
      BY <2>1, TickKey
    <3>3. slots'[k] = Transition(slots[k], k[2], FALSE)
      BY <3>1, <3>2, Zenon
    <3>4. QED BY <1>0, <3>3, TransitionProperties DEF TypeOK
  <2>2. CASE k \notin Observed(ps)
    <3>1. k[1] \in Pids /\ ps[k[1]] = "free"
      BY <2>2, ObservedKeys
    <3>2. procs[k[1]] = "free"
      BY <3>1 DEF Step, Live, Kinds
    <3>3. k \notin Observed(procs)
      BY <3>1, <3>2, ObservedKeys, AlertAssumption DEF System
    <3>4. since[k] = Not
      BY <3>3 DEF AlertInv, SinceObserved
    <3>5. slots[k] = Idle
      BY <3>2, <3>4 DEF AlertInv, FreshIdle, Watchable
    <3>6. QED BY <2>2, <3>5, TickKey
  <2>3. QED BY <2>1, <2>2
<1>3. ASSUME NEW k \in Keys, since'[k] # Not
      PROVE  /\ k[2] \notin OneShot /\ k \in Observed(ps)
             /\ slots'[k] = Transition(slots[k], k[2], TRUE)
             /\ since'[k] = IF since[k] = Not THEN clock ELSE since[k]
             /\ since[k] # Not => (k \in acked' <=> k \in acked)
             /\ since[k] = Not => k \notin acked'
  <2>1. k \in Observed(ps) /\ Holds(k, breach) = TRUE
    BY <1>3, TickKey
  <2>2. k[2] \notin OneShot
    BY <2>1, ObservedKeys
  <2>3. slots'[k] = Transition(slots[k], k[2], Holds(k, breach))
    BY <2>1, <2>2, TickKey
  <2>4. slots'[k] = Transition(slots[k], k[2], TRUE)
    BY <2>1, <2>3, Zenon
  <2>5. QED BY <1>3, <2>1, <2>2, <2>4, TickKey
<1>4. AckedHeld'
  <2> SUFFICES ASSUME NEW k \in acked', k[2] \notin OneShot, since'[k] # Not
               PROVE  slots'[k] = Suppressed
    BY DEF AckedHeld
  <2>1. k \in Keys /\ k \in acked /\ since[k] # Not
    BY <1>0, <1>3
  <2>2. slots[k] = Suppressed
    BY <2>1 DEF AlertInv, AckedHeld
  <2>3. QED BY <1>0, <1>3, <2>1, <2>2, TransitionProperties
<1>5. NoMissedAlert'
  <2> SUFFICES ASSUME NEW k \in Keys, since'[k] # Not
               PROVE  \/ slots'[k] = Active
                      \/ slots'[k] = Suppressed /\ k \in acked'
                      \/ /\ slots'[k] = Pending(since'[k])
                         /\ clock - since'[k] < Sustain \/ clock = since'[k]
    BY <1>0 DEF NoMissedAlert
  <2>1. CASE since[k] = Not
    <3>1. slots[k] = Idle /\ since'[k] = clock
      BY <1>3, <2>1, ObservedBefore
    <3>2. QED BY <1>0, <1>3, <3>1, TransitionProperties
  <2>2. CASE since[k] # Not
    <3>1. since'[k] = since[k]
      BY <1>3, <2>2
    <3>2. CASE slots[k] = Active
      BY <1>0, <1>3, <3>2, TransitionProperties
    <3>3. CASE slots[k] = Suppressed /\ k \in acked
      BY <1>0, <1>3, <2>2, <3>3, TransitionProperties
    <3>4. CASE slots[k] = Pending(since[k])
      <4>1. since[k] \in Nat
        BY <2>2, BreachSlot
      <4>2. slots'[k] = IF clock - since[k] >= Sustain THEN Active ELSE Pending(since[k])
        BY <1>0, <1>3, <3>4, <4>1, TransitionProperties
      <4>3. QED BY <1>0, <3>1, <4>1, <4>2
    <3>5. QED BY <2>2, <3>2, <3>3, <3>4, BreachSlot
  <2>3. QED BY <2>1, <2>2
<1>6. AckRespected'
  <2> SUFFICES ASSUME NEW k \in acked' PROVE slots'[k] # Active
    BY DEF AckRespected
  <2>1. k \in Keys /\ k \in acked /\ slots[k] # Active
    BY <1>0 DEF AlertInv, AckRespected
  <2>2. CASE k[2] \in OneShot
    <3>1. k \notin events
      BY <2>1, <2>2, TickKey, ObservedKeys
    <3>2. QED BY <2>1, <2>2, <3>1, TickKey
  <2>3. CASE k[2] \notin OneShot
    <3>1. since'[k] # Not
      BY <2>1, <2>3, TickKey
    <3>2. QED BY <1>4, <2>3, <3>1, SlotsDiffer DEF AckedHeld
  <2>4. QED BY <2>2, <2>3
<1>7. QED BY <1>1, <1>2, <1>4, <1>5, <1>6 DEF AlertInv

\* The operator's key keeps the invariant.
LEMMA AcknowledgeInv == ASSUME TypeOK, AlertInv, Acknowledge PROVE AlertInv'
<1>1. /\ acked' = acked \cup {k \in Keys : slots[k] = Active}
      /\ UNCHANGED <<clock, procs, since, ticked>> /\ acked \subseteq Keys
  BY DEF Acknowledge, TypeOK
<1>2. \A k \in Keys : slots'[k] = IF slots[k] # Active THEN slots[k]
                                  ELSE IF k[2] \in OneShot THEN Idle ELSE Suppressed
  BY DEF Acknowledge, AckAll
<1>3. SinceObserved'
  BY <1>1 DEF AlertInv, SinceObserved
<1>4. FreshIdle'
  BY <1>1, <1>2, SlotsDiffer DEF AlertInv, FreshIdle, Watchable
<1>5. AckedHeld'
  BY <1>1, <1>2 DEF AlertInv, AckedHeld
<1>6. AckRespected'
  BY <1>1, <1>2, SlotsDiffer DEF AlertInv, AckRespected
<1>7. NoMissedAlert'
  <2> SUFFICES ASSUME NEW k \in Keys, since[k] # Not
               PROVE  \/ slots'[k] = Active
                      \/ slots'[k] = Suppressed /\ k \in acked'
                      \/ /\ slots'[k] = Pending(since[k])
                         /\ ticked - since[k] < Sustain \/ ticked = since[k]
    BY <1>1 DEF NoMissedAlert
  <2>1. k[2] \notin OneShot
    BY ObservedKeys DEF AlertInv, SinceObserved
  <2>2. CASE slots[k] = Active
    BY <1>1, <1>2, <2>1, <2>2
  <2>3. CASE slots[k] # Active
    BY <1>1, <1>2, <2>3 DEF AlertInv, NoMissedAlert
  <2>4. QED BY <2>2, <2>3
<1>8. QED BY <1>3, <1>4, <1>5, <1>6, <1>7 DEF AlertInv

\* Every step keeps the invariant.
LEMMA InvStep == ASSUME TypeOK, AlertInv, [Next]_vars PROVE AlertInv'
<1>1. CASE AnyTick
  BY <1>1, TickInv DEF AnyTick
<1>2. CASE Acknowledge
  BY <1>2, AcknowledgeInv
<1>3. CASE UNCHANGED <<procs, slots, since, acked, ticked>>
  BY <1>3 DEF AlertInv, SinceObserved, FreshIdle, Watchable, AckedHeld, NoMissedAlert,
              AckRespected
<1>4. QED BY <1>1, <1>2, <1>3 DEF Next, Arm, Disarm, Elapse, vars

\* The invariant holds at the start.
LEMMA InitInv == Init => AlertInv
  BY DEF Init, AlertInv, SinceObserved, FreshIdle, AckedHeld, NoMissedAlert, AckRespected

\* A breach that has lasted the sustain window by the last tick is in the
\* banner or acknowledged, a younger one counted from its first tick
\* (transition and ack_all).
THEOREM NoMissedAlertHolds == Spec => []NoMissedAlert
<1>1. TypeOK /\ AlertInv /\ [Next]_vars => AlertInv'
  BY InvStep
<1>2. AlertInv => NoMissedAlert
  BY DEF AlertInv
<1>3. QED BY <1>1, <1>2, InitInv, TypeCorrect, PTL DEF Spec

\* An acknowledged alert stays away until its condition ends and comes back;
\* an acknowledged exit is not reported again (ack_all, and the drained queue).
THEOREM AckRespectedHolds == Spec => []AckRespected
<1>1. TypeOK /\ AlertInv /\ [Next]_vars => AlertInv'
  BY InvStep
<1>2. AlertInv => AckRespected
  BY DEF AlertInv
<1>3. QED BY <1>1, <1>2, InitInv, TypeCorrect, PTL DEF Spec

\* The step that SustainedAlert allows.
LEMMA SustainedStep ==
  ASSUME TypeOK, AlertInv, [Next]_vars,
         NEW k \in Keys, k[2] \in Gated, slots[k] # Active, slots'[k] = Active
  PROVE  since'[k] # Not /\ clock - since'[k] >= Sustain
<1>0. k[2] \notin OneShot /\ k[2] \in Gated
  BY DEF Gated, OneShot
<1>1. AnyTick
  <2>1. ~Acknowledge
    BY SlotsDiffer DEF Acknowledge, AckAll
  <2>2. QED BY <2>1 DEF Next, Arm, Disarm, Elapse, vars
<1>2. PICK ps \in [Pids -> Kinds \cup {"free", "gone"}] :
        /\ Step(ps)
        /\ \E breach \in SUBSET Observed(ps), events \in Events(ps) : Tick(ps, breach, events)
  BY <1>1 DEF AnyTick
<1>3. PICK breach \in SUBSET Observed(ps), events \in Events(ps) : Tick(ps, breach, events)
  BY <1>2
<1>4. k \in Observed(ps) /\ slots'[k] = Transition(slots[k], k[2], Holds(k, breach))
  BY <1>0, <1>3, TickKey
<1>5. Holds(k, breach) = TRUE
  <2>1. ASSUME Holds(k, breach) = FALSE PROVE FALSE
    <3>1. slots'[k] = Transition(slots[k], k[2], FALSE)
      BY <1>4, <2>1, Zenon
    <3>2. slots'[k] = Idle
      BY <3>1, TransitionProperties DEF TypeOK
    <3>3. QED BY <3>2, SlotsDiffer
  <2>2. QED BY <1>3, <2>1, TickKey
<1>6. slots'[k] = Transition(slots[k], k[2], TRUE) /\ clock \in Nat
  BY <1>4, <1>5, Zenon DEF TypeOK
<1>7. since[k] # Not
  <2>1. ASSUME since[k] = Not PROVE FALSE
    <3>1. slots[k] = Idle
      BY <1>2, <1>4, <2>1, ObservedBefore
    <3>2. slots'[k] = Pending(clock)
      BY <1>0, <1>6, <3>1, TransitionProperties
    <3>3. QED BY <1>6, <3>2, SlotsDiffer
  <2>2. QED BY <2>1
<1>8. since'[k] = since[k]
  BY <1>3, <1>4, <1>5, <1>7, TickKey
<1>9. slots[k] = Pending(since[k]) /\ since[k] \in Nat
  <2>1. slots[k] # Suppressed
    BY <1>6, SlotsDiffer, TransitionProperties
  <2>2. QED BY <1>7, <2>1, BreachSlot
<1>10. clock - since[k] >= Sustain
  <2>1. slots'[k] = IF clock - since[k] >= Sustain THEN Active ELSE Pending(since[k])
    BY <1>6, <1>9, TransitionProperties
  <2>2. Pending(since[k]) # Active
    BY <1>9, SlotsDiffer
  <2>3. QED BY <2>1, <2>2
<1>11. QED BY <1>7, <1>8, <1>10

\* A pressure alert enters the banner only after every tick of a whole sustain
\* window has measured the breach on this very workload (transition, with
\* is_sustain_gated).
THEOREM SustainedAlertHolds == Spec => SustainedAlert
<1>1. TypeOK /\ AlertInv /\ [Next]_vars => AlertInv'
  BY InvStep
<1>2. TypeOK /\ AlertInv /\ [Next]_vars =>
        [\A k \in Keys : k[2] \in Gated /\ slots[k] # Active /\ slots'[k] = Active =>
           since'[k] # Not /\ clock - since'[k] >= Sustain]_vars
  BY SustainedStep
<1>3. QED BY <1>1, <1>2, InitInv, TypeCorrect, PTL DEF Spec, SustainedAlert

=============================================================================
