----------------------------- MODULE RunHistory -----------------------------
(***************************************************************************)
(* What a run store promises, without files, index or crashes: the runs on *)
(* record change only by recording a new run, or by evicting the oldest    *)
(* run of a model that is over its limit.  No run is lost, none comes back.*)
(***************************************************************************)
EXTENDS Naturals, FiniteSets

CONSTANTS
  Limit            \* storage.keep_runs_per_model

VARIABLES
  live,            \* the runs on record: [id, model, spawn]
  ever             \* the ids of all runs ever recorded

OfModel(m) == {r \in live : r.model = m}

Record(r) ==
  /\ r.id \notin ever
  /\ live' = live \cup {r}
  /\ ever' = ever \cup {r.id}

Evict(r) ==
  /\ r \in live
  /\ Cardinality(OfModel(r.model)) > Limit
  /\ \A s \in OfModel(r.model) : r.spawn <= s.spawn
  /\ live' = live \ {r}
  /\ UNCHANGED ever

Init == live = {} /\ ever = {}

Next ==
  \/ \E r \in live' : Record(r)
  \/ \E r \in live : Evict(r)

Spec == Init /\ [][Next]_<<live, ever>>
=============================================================================
