----------------------------- MODULE MCRunStore -----------------------------
(***************************************************************************)
(* RunStore for TLC, and the claim that a store with one writer, dying and *)
(* restarting at any point, is a RunHistory.                               *)
(***************************************************************************)
EXTENDS RunStore

\* A run is on record when the index names it and its file loads.
OnRecord ==
  {[id |-> r, model |-> runs[r].model, spawn |-> runs[r].spawn] :
     r \in {x \in LoadedIds : Readable(x)}}

Abstract == INSTANCE RunHistory
              WITH live <- OnRecord,
                   ever <- {r \in Runs : Entry(r) \in Lines}

\* A crash at any point of `append` or of its prune neither loses a recorded
\* run nor revives one: records appear once, and leave oldest first, only
\* while their model is over keep_runs_per_model.
ImplementsRunHistory == Abstract!Spec

=============================================================================
