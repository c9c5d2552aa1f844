---------------------------- MODULE ProbeManager ----------------------------
(***************************************************************************)
(* The connectivity chip of a model server.  An async task takes the list  *)
(* of endpoints, probes them all without holding the lock, and writes the  *)
(* results back; meanwhile the tick loop reconciles the same map with the  *)
(* processes it sees and copies the statuses to `probe_status`.  A backend *)
(* may answer or not at any moment.                                        *)
(***************************************************************************)
EXTENDS Naturals, FiniteSets

CONSTANTS
  Pids,
  Endpoints,       \* base URLs
  Offers,          \* which PID may serve which endpoint
  Debounce,        \* FAILURE_DEBOUNCE
  CounterMax,      \* the largest failure count the entry can hold: u8::MAX
  Faults           \* {"Reuse"}: a PID may be taken over by another server
                   \* while the old one is still on the list or being probed

NoEndpoint == "no endpoint"

ASSUME ProbeAssumption == /\ Debounce \in Nat \ {0}
                          /\ CounterMax \in Nat /\ Debounce <= CounterMax
                          /\ NoEndpoint \notin Endpoints
                          /\ Offers \subseteq Pids \X Endpoints
                          /\ Faults \subseteq {"Reuse"}

VARIABLES
  serves,          \* what each PID serves, NoEndpoint if nothing
  up,              \* the endpoints that answer with 2xx now
  per_pid,         \* ProbeState: pid -> [endpoint, status, consecutive_failures]
  targets,         \* the round under way: pid -> endpoint
  results,         \* its answers so far: pid -> BOOLEAN
  probe_status,    \* what the tick loop last copied: pid -> status
  tried            \* history: per <<pid, endpoint>>, failures since the last success

vars == <<serves, up, per_pid, targets, results, probe_status, tried>>

NoMap  == [p \in {} |-> {}]
Never  == Debounce + 1          \* no probe has succeeded or failed yet
Idle   == DOMAIN targets = {}

----------------------------------------------------------------------------
(* The machine                                                             *)

Toggle(e) ==
  /\ up' = IF e \in up THEN up \ {e} ELSE up \cup {e}
  /\ UNCHANGED <<serves, per_pid, targets, results, probe_status, tried>>

Start(p, e) ==
  /\ serves[p] = NoEndpoint
  /\ <<p, e>> \in Offers
  /\ \/ p \in DOMAIN targets /\ targets[p] # e
     \/ p \in DOMAIN per_pid /\ per_pid[p].endpoint # e
     => "Reuse" \in Faults
  /\ serves' = [serves EXCEPT ![p] = e]
  /\ UNCHANGED <<up, per_pid, targets, results, probe_status, tried>>

Stop(p) ==
  /\ serves[p] # NoEndpoint
  /\ serves' = [serves EXCEPT ![p] = NoEndpoint]
  /\ UNCHANGED <<up, per_pid, targets, results, probe_status, tried>>

----------------------------------------------------------------------------
(* The tick loop                                                           *)

Fresh(e) == [endpoint |-> e, status |-> "Checking", consecutive_failures |-> 0]

\* The entries of the PIDs that serve something; a new or changed endpoint
\* starts over.
Reconcile(endpoints) ==
  [p \in {q \in Pids : endpoints[q] # NoEndpoint} |->
     IF p \in DOMAIN per_pid /\ per_pid[p].endpoint = endpoints[p]
     THEN per_pid[p]
     ELSE Fresh(endpoints[p])]

\* Mutant: an entry is copied when it is new and not afterwards.
TickStale ==
  /\ per_pid' = Reconcile(serves)
  /\ probe_status' = [p \in DOMAIN per_pid' |->
                        IF p \in DOMAIN probe_status THEN probe_status[p]
                        ELSE per_pid'[p].status]
  /\ UNCHANGED <<serves, up, targets, results, tried>>

Tick ==
  /\ per_pid' = Reconcile(serves)
  /\ probe_status' = [p \in DOMAIN per_pid' |-> per_pid'[p].status]
  /\ UNCHANGED <<serves, up, targets, results, tried>>

----------------------------------------------------------------------------
(* The probe task                                                          *)

\* A round starts with a snapshot; with nothing to probe it is over at once.
StartRound ==
  /\ Idle
  /\ DOMAIN per_pid # {}
  /\ targets' = [p \in DOMAIN per_pid |-> per_pid[p].endpoint]
  /\ results' = NoMap
  /\ UNCHANGED <<serves, up, per_pid, probe_status, tried>>

\* One probe is answered, refused or times out.
Answer(p) ==
  /\ p \in DOMAIN targets \ DOMAIN results
  /\ results' = [q \in DOMAIN results \cup {p} |->
                   IF q = p THEN targets[p] \in up ELSE results[q]]
  /\ UNCHANGED <<serves, up, per_pid, targets, probe_status, tried>>

Least(a, b) == IF a < b THEN a ELSE b

\* Mutant: a plain increment, which overflows the u8.
RecordResultUncapped(entry, ok) ==
  LET n == entry.consecutive_failures + 1
  IN  IF ok
      THEN [entry EXCEPT !.status = "Ok", !.consecutive_failures = 0]
      ELSE [entry EXCEPT !.consecutive_failures = n,
                         !.status = IF n >= Debounce THEN "Unreachable" ELSE @]

\* Mutant: a success does not end the streak of failures.
RecordResultNoReset(entry, ok) ==
  IF ok
  THEN [entry EXCEPT !.status = "Ok"]
  ELSE LET n == Least(entry.consecutive_failures + 1, CounterMax)
       IN  [entry EXCEPT !.consecutive_failures = n,
                         !.status = IF n >= Debounce THEN "Unreachable" ELSE @]

\* ProbeState::record_result; `saturating_add` keeps the counter in its u8.
RecordResult(entry, ok) ==
  LET n == Least(entry.consecutive_failures + 1, CounterMax)
  IN  IF ok
      THEN [entry EXCEPT !.status = "Ok", !.consecutive_failures = 0]
      ELSE [entry EXCEPT !.consecutive_failures = n,
                         !.status = IF n >= Debounce THEN "Unreachable" ELSE @]

\* All answers are in: they are written under one lock, by PID.
EndRound ==
  /\ ~Idle
  /\ DOMAIN results = DOMAIN targets
  /\ per_pid' = [p \in DOMAIN per_pid |->
                   IF p \in DOMAIN results
                   THEN RecordResult(per_pid[p], results[p])
                   ELSE per_pid[p]]
  /\ tried' = [k \in Offers |->
                 IF k[1] \in DOMAIN targets /\ targets[k[1]] = k[2]
                 THEN IF results[k[1]] THEN 0
                      ELSE IF tried[k] = Never THEN 1 ELSE Least(tried[k] + 1, Debounce)
                 ELSE tried[k]]
  /\ targets' = NoMap
  /\ results' = NoMap
  /\ UNCHANGED <<serves, up, probe_status>>

----------------------------------------------------------------------------
Init ==
  /\ serves = [p \in Pids |-> NoEndpoint]
  /\ up \in SUBSET Endpoints
  /\ per_pid = NoMap
  /\ targets = NoMap
  /\ results = NoMap
  /\ probe_status = NoMap
  /\ tried = [k \in Offers |-> Never]

Environment ==
  \/ \E e \in Endpoints : Toggle(e)
  \/ \E p \in Pids, e \in Endpoints : Start(p, e)
  \/ \E p \in Pids : Stop(p)

Task == StartRound \/ (\E p \in Pids : Answer(p)) \/ EndRound

Next == Environment \/ Tick \/ Task

Spec == Init /\ [][Next]_vars

\* The tick loop and the probe task keep running: neither ever waits for the
\* other, the lock is held for a copy only and a probe ends by its timeout.
Fairness == /\ WF_vars(Tick)
            /\ WF_vars(StartRound)
            /\ \A p \in Pids : WF_vars(Answer(p))
            /\ WF_vars(EndRound)

FairSpec == Spec /\ Fairness

----------------------------------------------------------------------------
(* Properties                                                              *)

Statuses == {"Ok", "Checking", "Unreachable"}
Maps(V)  == UNION {[D -> V] : D \in SUBSET Pids}

\* The state is well formed: no failure count, however long a backend stays
\* down, leaves the range of its u8 (`saturating_add` in record_result).
TypeOK ==
  /\ serves \in [Pids -> Endpoints \cup {NoEndpoint}]
  /\ up \subseteq Endpoints
  /\ per_pid \in Maps([endpoint : Endpoints, status : Statuses,
                       consecutive_failures : 0 .. CounterMax])
  /\ targets \in Maps(Endpoints)
  /\ results \in Maps(BOOLEAN) /\ DOMAIN results \subseteq DOMAIN targets
  /\ probe_status \in Maps(Statuses)
  /\ tried \in [Offers -> 0 .. Never]

\* Failures in a row of the endpoint that the entry of p names.
Streak(p) == tried[<<p, per_pid[p].endpoint>>]

\* "Unreachable" is said only of an endpoint whose last Debounce probes all
\* failed, and "Ok" only of one that has answered and has not failed as often
\* since: a chip speaks of its own endpoint (the debounce in record_result,
\* the reset in reconcile, and the write-back after the probes).
StatusEarned ==
  \A p \in DOMAIN per_pid :
    /\ per_pid[p].status = "Unreachable" => Streak(p) = Debounce
    /\ per_pid[p].status = "Ok" => Streak(p) < Debounce

\* A server that stays up ends with an "ok" chip, one that stays down with
\* "unreachable", whatever rounds, ticks and restarts came before.
ChipSettles ==
  \A p \in Pids, e \in Endpoints :
    /\ <>[](serves[p] = e /\ e \in up)
         => <>[](p \in DOMAIN probe_status /\ probe_status[p] = "Ok")
    /\ <>[](serves[p] = e /\ e \notin up)
         => <>[](p \in DOMAIN probe_status /\ probe_status[p] = "Unreachable")

=============================================================================
