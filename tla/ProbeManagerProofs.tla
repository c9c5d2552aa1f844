------------------------- MODULE ProbeManagerProofs -------------------------
(***************************************************************************)
(* Machine-checked results about ProbeManager, for any PIDs, endpoints,    *)
(* debounce and counter width: the maps stay well formed whatever happens, *)
(* and a chip speaks of its own endpoint as long as no PID changes its     *)
(* endpoint while it is on the list or being probed.                       *)
(***************************************************************************)
EXTENDS ProbeManager, TLAPS

Entries == [endpoint : Endpoints, status : Statuses, consecutive_failures : 0 .. CounterMax]

----------------------------------------------------------------------------
(* Lemmas about the operators                                              *)

\* A map is a function on some of the PIDs.
LEMMA MapDef ==
  ASSUME NEW V, NEW f
  PROVE  f \in Maps(V) <=> DOMAIN f \subseteq Pids /\ f \in [DOMAIN f -> V]
  BY DEF Maps

\* The empty map is a map.
LEMMA NoMapType == ASSUME NEW V PROVE NoMap \in Maps(V) /\ DOMAIN NoMap = {}
<1>1. DOMAIN NoMap = {} /\ NoMap \in [{} -> V]
  BY DEF NoMap
<1>2. QED BY <1>1, MapDef

\* What TypeOK says of the entries and of the answers.
LEMMA EntriesType ==
  ASSUME TypeOK
  PROVE  /\ DOMAIN per_pid \subseteq Pids
         /\ per_pid \in [DOMAIN per_pid -> Entries]
         /\ DOMAIN results \subseteq DOMAIN targets
         /\ DOMAIN targets \subseteq Pids
         /\ results \in [DOMAIN results -> BOOLEAN]
<1>1. per_pid \in Maps(Entries)
  BY DEF TypeOK, Entries
<1>2. results \in Maps(BOOLEAN) /\ targets \in Maps(Endpoints)
  BY DEF TypeOK
<1>3. QED BY <1>1, <1>2, MapDef DEF TypeOK

\* A result leaves an entry an entry, of the same endpoint.
LEMMA RecordResultType ==
  ASSUME NEW entry \in Entries, NEW ok \in BOOLEAN
  PROVE  /\ RecordResult(entry, ok) \in Entries
         /\ RecordResult(entry, ok).endpoint = entry.endpoint
         /\ ok => /\ RecordResult(entry, ok).status = "Ok"
                  /\ RecordResult(entry, ok).consecutive_failures = 0
         /\ ~ok => LET n == Least(entry.consecutive_failures + 1, CounterMax)
                   IN  /\ RecordResult(entry, ok).consecutive_failures = n
                       /\ RecordResult(entry, ok).status =
                            IF n >= Debounce THEN "Unreachable" ELSE entry.status
<1> DEFINE n == Least(entry.consecutive_failures + 1, CounterMax)
<1>1. n \in 0 .. CounterMax /\ 0 \in 0 .. CounterMax
  BY ProbeAssumption DEF Entries, Least
<1>2. CASE ok
  <2>1. RecordResult(entry, ok) = [entry EXCEPT !.status = "Ok", !.consecutive_failures = 0]
    BY <1>2 DEF RecordResult
  <2>2. QED BY <1>1, <1>2, <2>1 DEF Entries, Statuses
<1>3. CASE ~ok
  <2> HIDE DEF n
  <2>1. RecordResult(entry, ok) =
          [entry EXCEPT !.consecutive_failures = n,
                        !.status = IF n >= Debounce THEN "Unreachable" ELSE @]
    BY <1>3 DEF RecordResult, n
  <2>2. (IF n >= Debounce THEN "Unreachable" ELSE entry.status) \in Statuses
    BY DEF Entries, Statuses
  <2>3. /\ RecordResult(entry, ok) \in Entries
        /\ RecordResult(entry, ok).endpoint = entry.endpoint
        /\ RecordResult(entry, ok).consecutive_failures = n
        /\ RecordResult(entry, ok).status = IF n >= Debounce THEN "Unreachable" ELSE entry.status
    BY <1>1, <2>1, <2>2 DEF Entries
  <2>4. QED BY <1>3, <2>3 DEF n
<1>4. QED BY <1>2, <1>3

\* The entries that Reconcile makes: one per PID that serves something, of
\* the endpoint it serves.
LEMMA ReconcileType ==
  ASSUME TypeOK
  PROVE  /\ Reconcile(serves) \in Maps(Entries)
         /\ DOMAIN Reconcile(serves) = {q \in Pids : serves[q] # NoEndpoint}
         /\ \A p \in DOMAIN Reconcile(serves) :
              /\ Reconcile(serves)[p].endpoint = serves[p]
              /\ Reconcile(serves)[p] =
                   IF p \in DOMAIN per_pid /\ per_pid[p].endpoint = serves[p]
                   THEN per_pid[p] ELSE Fresh(serves[p])
<1> DEFINE D == {q \in Pids : serves[q] # NoEndpoint}
<1>1. DOMAIN Reconcile(serves) = D
  BY DEF Reconcile
<1>2. ASSUME NEW p \in D
      PROVE  /\ Reconcile(serves)[p] =
                  IF p \in DOMAIN per_pid /\ per_pid[p].endpoint = serves[p]
                  THEN per_pid[p] ELSE Fresh(serves[p])
             /\ Reconcile(serves)[p].endpoint = serves[p]
             /\ Reconcile(serves)[p] \in Entries
  <2>1. Reconcile(serves)[p] = IF p \in DOMAIN per_pid /\ per_pid[p].endpoint = serves[p]
                               THEN per_pid[p] ELSE Fresh(serves[p])
    BY DEF Reconcile
  <2>2. serves[p] \in Endpoints
    BY DEF TypeOK
  <2>3. Fresh(serves[p]) \in Entries /\ Fresh(serves[p]).endpoint = serves[p]
    BY <2>2, ProbeAssumption DEF Fresh, Entries, Statuses
  <2>4. p \in DOMAIN per_pid => per_pid[p] \in Entries
    BY EntriesType
  <2>5. QED BY <2>1, <2>3, <2>4
<1>3. Reconcile(serves) \in [D -> Entries]
  BY <1>1, <1>2 DEF Reconcile
<1>4. QED BY <1>1, <1>2, <1>3, MapDef

----------------------------------------------------------------------------
(* Type correctness                                                        *)

\* The initial state is well formed.
LEMMA InitType == ASSUME Init PROVE TypeOK
<1>1. tried \in [Offers -> 0 .. Never]
  BY ProbeAssumption DEF Init, Never
<1>2. QED BY <1>1, NoMapType DEF Init, TypeOK

\* The counters of the history stay in range.
LEMMA TriedType ==
  ASSUME TypeOK, EndRound
  PROVE  tried' \in [Offers -> 0 .. Never]
<1>1. ASSUME NEW k \in Offers PROVE tried'[k] \in 0 .. Never
  <2>1. tried[k] \in 0 .. Never
    BY DEF TypeOK
  <2>2. /\ 0 \in 0 .. Never /\ 1 \in 0 .. Never
        /\ tried[k] # Never => Least(tried[k] + 1, Debounce) \in 0 .. Never
    BY <2>1, ProbeAssumption DEF Never, Least
  <2>3. QED BY <2>1, <2>2 DEF EndRound
<1>2. QED BY <1>1 DEF EndRound

\* Every step keeps the state well formed.
LEMMA NextType == ASSUME TypeOK, [Next]_vars PROVE TypeOK'
<1>1. ASSUME NEW e \in Endpoints, Toggle(e) PROVE TypeOK'
  BY <1>1 DEF Toggle, TypeOK
<1>2. ASSUME NEW p \in Pids, NEW e \in Endpoints, Start(p, e) PROVE TypeOK'
  BY <1>2 DEF Start, TypeOK
<1>3. ASSUME NEW p \in Pids, Stop(p) PROVE TypeOK'
  BY <1>3 DEF Stop, TypeOK
<1>4. CASE Tick
  <2>1. per_pid' \in Maps(Entries)
    BY <1>4, ReconcileType DEF Tick
  <2>2. DOMAIN per_pid' \subseteq Pids /\ \A p \in DOMAIN per_pid' : per_pid'[p] \in Entries
    BY <2>1, MapDef
  <2>3. probe_status' \in Maps(Statuses)
    BY <1>4, <2>2, MapDef DEF Tick, Entries
  <2>4. QED BY <1>4, <2>1, <2>3 DEF Tick, TypeOK, Entries
<1>5. CASE StartRound
  <2>1. targets' \in Maps(Endpoints)
    <3>1. \A p \in DOMAIN per_pid : per_pid[p].endpoint \in Endpoints
      BY EntriesType DEF Entries
    <3>2. targets' \in [DOMAIN per_pid -> Endpoints] /\ DOMAIN targets' = DOMAIN per_pid
      BY <1>5, <3>1 DEF StartRound
    <3>3. QED BY <3>2, EntriesType, MapDef
  <2>2. QED BY <1>5, <2>1, NoMapType DEF StartRound, TypeOK
<1>6. ASSUME NEW p \in Pids, Answer(p) PROVE TypeOK'
  <2>1. DOMAIN results \subseteq Pids /\ \A q \in DOMAIN results : results[q] \in BOOLEAN
    BY EntriesType
  <2>2. /\ DOMAIN results' = DOMAIN results \cup {p}
        /\ results' \in [DOMAIN results' -> BOOLEAN]
    <3>1. DOMAIN results' = DOMAIN results \cup {p}
      BY <1>6 DEF Answer
    <3>2. results' = [q \in DOMAIN results \cup {p} |->
                        IF q = p THEN targets[p] \in up ELSE results[q]]
      BY <1>6 DEF Answer
    <3>3. \A q \in DOMAIN results \cup {p} :
            (IF q = p THEN targets[p] \in up ELSE results[q]) \in BOOLEAN
      <4> SUFFICES ASSUME NEW q \in DOMAIN results \cup {p}
                   PROVE  (IF q = p THEN targets[p] \in up ELSE results[q]) \in BOOLEAN
        OBVIOUS
      <4>1. CASE q = p
        <5>1. (targets[p] \in up) \in BOOLEAN
          OBVIOUS
        <5>2. QED BY <4>1, <5>1, Zenon
      <4>2. CASE q # p
        <5>1. results[q] \in BOOLEAN
          BY <2>1, <4>2
        <5>2. QED BY <4>2, <5>1, Zenon
      <4>3. QED BY <4>1, <4>2, Zenon
    <3>4. QED BY <3>1, <3>2, <3>3
  <2>3. results' \in Maps(BOOLEAN) /\ DOMAIN results' \subseteq DOMAIN targets
    BY <1>6, <2>1, <2>2, MapDef DEF Answer, TypeOK
  <2>4. QED BY <1>6, <2>3 DEF Answer, TypeOK
<1>7. CASE EndRound
  <2>1. DOMAIN per_pid \subseteq Pids /\ \A p \in DOMAIN per_pid : per_pid[p] \in Entries
    BY EntriesType
  <2>2. \A p \in DOMAIN results : results[p] \in BOOLEAN
    BY EntriesType
  <2>3. per_pid' \in Maps(Entries)
    <3>1. DOMAIN per_pid' = DOMAIN per_pid
      BY <1>7 DEF EndRound
    <3>2. \A p \in DOMAIN per_pid : per_pid'[p] \in Entries
      BY <1>7, <2>1, <2>2, RecordResultType DEF EndRound
    <3>3. per_pid' \in [DOMAIN per_pid -> Entries]
      BY <1>7, <3>1, <3>2 DEF EndRound
    <3>4. QED BY <2>1, <3>1, <3>3, MapDef
  <2>4. QED BY <1>7, <2>3, TriedType, NoMapType DEF EndRound, TypeOK, Entries
<1>8. CASE UNCHANGED vars
  BY <1>8 DEF vars, TypeOK
<1>9. QED
  BY <1>1, <1>2, <1>3, <1>4, <1>5, <1>6, <1>7, <1>8 DEF Next, Environment, Task

\* Type correctness of the probe task and the tick loop, with PIDs reused or
\* not; the failure counter of a backend that stays down never overflows its
\* u8, whatever the debounce (saturating_add in record_result).
THEOREM TypeCorrect == Spec => []TypeOK
<1>1. Init => TypeOK
  BY InitType
<1>2. TypeOK /\ [Next]_vars => TypeOK'
  BY NextType
<1>3. QED BY <1>1, <1>2, PTL DEF Spec

----------------------------------------------------------------------------
(* A chip speaks of its own endpoint                                       *)

\* What a PID serves, what its entry names and what is being probed for it
\* are one endpoint, an offered one.
OneEndpoint ==
  /\ \A p \in Pids : serves[p] # NoEndpoint =>
       /\ <<p, serves[p]>> \in Offers
       /\ p \in DOMAIN per_pid => per_pid[p].endpoint = serves[p]
       /\ p \in DOMAIN targets => targets[p] = serves[p]
  /\ \A p \in DOMAIN per_pid :
       /\ <<p, per_pid[p].endpoint>> \in Offers
       /\ p \in DOMAIN targets => targets[p] = per_pid[p].endpoint

\* What an entry may claim after k failures in a row of its endpoint.  Its
\* counter never runs ahead of them, may lag behind after a restart, and is
\* exact once a probe has succeeded.
Backed(entry, k) ==
  /\ entry.status = "Unreachable" => k = Debounce
  /\ entry.status = "Ok" => k = entry.consecutive_failures /\ k < Debounce
  /\ entry.status = "Checking" => entry.consecutive_failures <= k
  /\ k = Never => entry.consecutive_failures = 0

EarnedInv == OneEndpoint /\ \A p \in DOMAIN per_pid : Backed(per_pid[p], Streak(p))

\* A result keeps a backed entry backed, with the count that EndRound writes.
LEMMA RecordResultBacked ==
  ASSUME NEW entry \in Entries, NEW ok \in BOOLEAN, NEW k \in 0 .. Never, Backed(entry, k)
  PROVE  Backed(RecordResult(entry, ok),
                IF ok THEN 0 ELSE IF k = Never THEN 1 ELSE Least(k + 1, Debounce))
<1> USE ProbeAssumption DEF Backed, Never
<1>1. CASE ok
  <2>1. /\ RecordResult(entry, ok).status = "Ok"
        /\ RecordResult(entry, ok).consecutive_failures = 0
    BY <1>1, RecordResultType
  <2>2. Backed(RecordResult(entry, ok), 0)
    BY <2>1
  <2>3. QED BY <1>1, <2>2
<1>2. CASE ~ok
  <2> DEFINE n  == Least(entry.consecutive_failures + 1, CounterMax)
             kk == IF k = Never THEN 1 ELSE Least(k + 1, Debounce)
  <2>0. entry.consecutive_failures \in 0 .. CounterMax /\ entry.status \in Statuses
    BY DEF Entries
  <2>1. n \in 1 .. CounterMax /\ kk \in 1 .. Debounce
    BY <2>0 DEF Least
  <2>2. n >= Debounce => kk = Debounce
    <3>1. CASE k = Never
      BY <2>0, <3>1 DEF Least
    <3>2. CASE k # Never /\ entry.status = "Unreachable"
      BY <2>0, <3>2 DEF Least
    <3>3. CASE k # Never /\ entry.status \in {"Ok", "Checking"}
      BY <2>0, <3>3 DEF Least
    <3>4. QED BY <2>0, <3>1, <3>2, <3>3 DEF Statuses
  <2>3. n < Debounce /\ entry.status = "Unreachable" => kk = Debounce
    BY <2>0 DEF Least
  <2>4. n < Debounce /\ entry.status = "Ok" => kk = n
    BY <2>0 DEF Least
  <2>5. n < Debounce /\ entry.status = "Checking" => n <= kk
    BY <2>0 DEF Least
  <2>6. /\ RecordResult(entry, ok).consecutive_failures = n
        /\ RecordResult(entry, ok).status = IF n >= Debounce THEN "Unreachable" ELSE entry.status
    BY <1>2, RecordResultType
  <2> HIDE DEF n, kk
  <2>7. Backed(RecordResult(entry, ok), kk)
    BY <2>0, <2>1, <2>2, <2>3, <2>4, <2>5, <2>6
  <2>8. QED BY <1>2, <2>7 DEF kk
<1>3. QED BY <1>1, <1>2

\* With no PID changing its endpoint under the task, OneEndpoint and the
\* backing of every entry are kept by each step.
LEMMA EarnedStep ==
  ASSUME "Reuse" \notin Faults, TypeOK, EarnedInv, [Next]_vars
  PROVE  EarnedInv'
<1> USE DEF EarnedInv
<1>1. ASSUME NEW e \in Endpoints, Toggle(e) PROVE EarnedInv'
  BY <1>1 DEF Toggle, OneEndpoint, Streak
<1>2. ASSUME NEW p \in Pids, NEW e \in Endpoints, Start(p, e) PROVE EarnedInv'
  <2>1. /\ <<p, e>> \in Offers
        /\ p \in DOMAIN targets => targets[p] = e
        /\ p \in DOMAIN per_pid => per_pid[p].endpoint = e
        /\ UNCHANGED <<per_pid, targets, tried>>
    BY <1>2 DEF Start
  <2>2. serves'[p] = e /\ \A q \in Pids \ {p} : serves'[q] = serves[q]
    BY <1>2 DEF Start, TypeOK
  <2>3. OneEndpoint'
    BY <2>1, <2>2 DEF OneEndpoint
  <2>4. QED BY <2>1, <2>3 DEF Streak
<1>3. ASSUME NEW p \in Pids, Stop(p) PROVE EarnedInv'
  <2>1. serves'[p] = NoEndpoint /\ \A q \in Pids \ {p} : serves'[q] = serves[q]
    BY <1>3 DEF Stop, TypeOK
  <2>2. OneEndpoint'
    BY <1>3, <2>1 DEF Stop, OneEndpoint
  <2>3. QED BY <1>3, <2>2 DEF Stop, Streak
<1>4. CASE Tick
  <2>1. /\ DOMAIN per_pid' = {q \in Pids : serves[q] # NoEndpoint}
        /\ \A p \in DOMAIN per_pid' :
             /\ per_pid'[p].endpoint = serves[p]
             /\ per_pid'[p] = IF p \in DOMAIN per_pid /\ per_pid[p].endpoint = serves[p]
                              THEN per_pid[p] ELSE Fresh(serves[p])
    BY <1>4, ReconcileType DEF Tick
  <2>2. OneEndpoint'
    BY <1>4, <2>1 DEF Tick, OneEndpoint
  <2>3. ASSUME NEW p \in DOMAIN per_pid' PROVE Backed(per_pid'[p], Streak(p)')
    <3>1. Streak(p)' = tried[<<p, serves[p]>>] /\ <<p, serves[p]>> \in Offers
      BY <1>4, <2>1 DEF Tick, Streak, OneEndpoint
    <3>2. CASE p \in DOMAIN per_pid /\ per_pid[p].endpoint = serves[p]
      BY <2>1, <3>1, <3>2 DEF Streak
    <3>3. CASE ~(p \in DOMAIN per_pid /\ per_pid[p].endpoint = serves[p])
      <4>1. per_pid'[p] = Fresh(serves[p])
        BY <2>1, <3>3
      <4>2. tried[<<p, serves[p]>>] \in 0 .. Never
        BY <3>1 DEF TypeOK
      <4>3. QED BY <3>1, <4>1, <4>2, ProbeAssumption DEF Backed, Fresh, Never
    <3>4. QED BY <3>2, <3>3
  <2>4. QED BY <2>2, <2>3
<1>5. CASE StartRound
  <2>1. OneEndpoint'
    BY <1>5 DEF StartRound, OneEndpoint
  <2>2. QED BY <1>5, <2>1 DEF StartRound, Streak
<1>6. ASSUME NEW p \in Pids, Answer(p) PROVE EarnedInv'
  BY <1>6 DEF Answer, OneEndpoint, Streak
<1>7. CASE EndRound
  <2>1. /\ DOMAIN per_pid' = DOMAIN per_pid
        /\ \A p \in DOMAIN per_pid :
             per_pid'[p] = IF p \in DOMAIN results THEN RecordResult(per_pid[p], results[p])
                           ELSE per_pid[p]
        /\ DOMAIN results = DOMAIN targets
        /\ DOMAIN targets' = {}
        /\ serves' = serves
    BY <1>7, NoMapType DEF EndRound
  <2>2. \A p \in DOMAIN per_pid : per_pid[p] \in Entries
    BY EntriesType
  <2>3. \A p \in DOMAIN results : results[p] \in BOOLEAN
    BY EntriesType
  <2>4. \A p \in DOMAIN per_pid : per_pid'[p].endpoint = per_pid[p].endpoint
    BY <2>1, <2>2, <2>3, RecordResultType
  <2>5. OneEndpoint'
    BY <2>1, <2>4 DEF OneEndpoint
  <2>6. ASSUME NEW p \in DOMAIN per_pid PROVE Backed(per_pid'[p], Streak(p)')
    <3> DEFINE k == <<p, per_pid[p].endpoint>>
    <3>1. k \in Offers /\ Streak(p) = tried[k] /\ Streak(p)' = tried'[k]
      BY <2>4 DEF OneEndpoint, Streak
    <3>2. k[1] = p /\ k[2] = per_pid[p].endpoint
      OBVIOUS
    <3> HIDE DEF k
    <3>3. tried[k] \in 0 .. Never
      BY <3>1 DEF TypeOK
    <3>4. CASE p \in DOMAIN targets
      <4>1. targets[p] = per_pid[p].endpoint
        BY <3>4 DEF OneEndpoint
      <4>2. tried'[k] = IF results[p] THEN 0
                        ELSE IF tried[k] = Never THEN 1 ELSE Least(tried[k] + 1, Debounce)
        BY <1>7, <3>1, <3>2, <3>4, <4>1 DEF EndRound
      <4>3. per_pid'[p] = RecordResult(per_pid[p], results[p])
        BY <2>1, <3>4
      <4>4. Backed(per_pid[p], tried[k])
        BY <3>1
      <4>5. per_pid[p] \in Entries /\ results[p] \in BOOLEAN
        BY <2>1, <2>2, <2>3, <3>4
      <4>6. QED BY <3>1, <3>3, <4>2, <4>3, <4>4, <4>5, RecordResultBacked
    <3>5. CASE p \notin DOMAIN targets
      <4>1. tried'[k] = tried[k]
        BY <1>7, <3>1, <3>2, <3>5 DEF EndRound
      <4>2. per_pid'[p] = per_pid[p]
        BY <2>1, <3>5
      <4>3. QED BY <3>1, <4>1, <4>2
    <3>6. QED BY <3>4, <3>5
  <2>7. QED BY <2>1, <2>5, <2>6
<1>8. CASE UNCHANGED vars
  BY <1>8 DEF vars, OneEndpoint, Streak
<1>9. QED
  BY <1>1, <1>2, <1>3, <1>4, <1>5, <1>6, <1>7, <1>8 DEF Next, Environment, Task

\* As long as no PID changes its endpoint while it is on the list or being
\* probed, "unreachable" and "ok" are said of the endpoint that was probed
\* (record_result, reconcile and the write-back after the probes).
THEOREM StatusEarnedHolds ==
  ASSUME "Reuse" \notin Faults
  PROVE  Spec => []StatusEarned
<1>1. Init => EarnedInv
  BY NoMapType DEF Init, EarnedInv, OneEndpoint
<1>2. TypeOK /\ EarnedInv /\ [Next]_vars => EarnedInv'
  BY EarnedStep
<1>3. EarnedInv => StatusEarned
  BY DEF EarnedInv, StatusEarned, Backed
<1>4. QED BY <1>1, <1>2, <1>3, TypeCorrect, PTL DEF Spec

=============================================================================
