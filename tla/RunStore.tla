------------------------------ MODULE RunStore ------------------------------
(***************************************************************************)
(* The on-disk run history: one JSON file per run, an append-only          *)
(* index.jsonl of entries and tombstones, an in-memory index per process,  *)
(* and the prune that keeps a model within `keep_runs_per_model`.          *)
(*                                                                         *)
(* Several processes may have the same store open: the monitor for as long *)
(* as it runs, and each `exec` wrapper for one append.  Any of them can die*)
(* between two system calls.  A run is a number; its path is determined by *)
(* it, so `by_id` is a set.  A line of the index is whole or junk; `frag`  *)
(* says that the file ends in a fragment with no newline.                  *)
(***************************************************************************)
EXTENDS Integers, Sequences, FiniteSets

CONSTANTS
  Models,          \* model keys
  Times,           \* spawn times, natural numbers
  Limit,           \* storage.keep_runs_per_model
  BaselineWindow,  \* regression.baseline_window
  MinSamples,      \* regression.min_baseline_samples
  Writers,         \* processes that open the store
  OneShot,         \* those of them that are exec wrappers
  Faults,          \* the environment faults this instance admits
  MaxRuns          \* bound: runs ever created

FaultKinds == {"Crash",        \* a process dies between two system calls
               "Torn",         \* and leaves half a line behind
               "DiskFull",     \* a write fails
               "DeleteFails"}  \* remove_file fails, other than with NotFound

ASSUME StoreAssumption == /\ Times \subseteq Nat
                          /\ Limit \in Nat \ {0}
                          /\ BaselineWindow \in Nat
                          /\ MinSamples \in Nat
                          /\ OneShot \subseteq Writers
                          /\ Faults \subseteq FaultKinds
                          /\ MaxRuns \in Nat

VARIABLES
  runs,            \* the runs created so far: [model, spawn]
  \* the disk
  files,           \* run -> "whole" or "torn": runs/<day>/run-<id>.json
  index, frag,     \* the lines of index.jsonl
  \* one RunStore per process
  pc, cur,         \* where `append` is, and for which run
  by_model, by_id,
  buf,             \* lines the BufWriter still holds
  todo, gone,      \* prune candidates left, and those deleted
  \* history, for the properties only
  acked,           \* runs whose append returned Ok
  pruned,          \* runs whose file a prune removed
  baseline         \* the runs the last regression check compared `of` with

diskVars == <<files, index, frag>>
procVars == <<pc, cur, by_model, by_id, buf, todo, gone>>
ghosts   == <<acked, pruned, baseline>>
vars     == <<runs, diskVars, procVars, ghosts>>

Runs  == 1 .. MaxRuns
NoRun == 0
Entry(r) == [kind |-> "entry", id |-> r]
Tomb(r)  == [kind |-> "tomb", id |-> r]
Junk     == [kind |-> "junk", id |-> NoRun]

----------------------------------------------------------------------------
(* The index file                                                          *)

\* What lands when lines are written: a fragment swallows the first of them.
Landed(lines) == IF frag /\ lines # <<>> THEN <<Junk>> \o Tail(lines) ELSE lines

Written(lines) ==
  /\ index' = index \o Landed(lines)
  /\ frag' = (frag /\ lines = <<>>)

Lines == {index[i] : i \in 1 .. Len(index)}

\* What a filter keeps of a sequence: the elements at the places P, in order.
Kept(s, P) ==
  LET place(n) == CHOOSE i \in P : Cardinality({j \in P : j < i}) = n - 1
  IN  [n \in 1 .. Cardinality(P) |-> s[place(n)]]

\* An entry the two-pass loader keeps.
Indexed(l) == l.kind = "entry" /\ Tomb(l.id) \notin Lines

\* load_index
LoadedModel(m) ==
  LET mine(l) == Indexed(l) /\ runs[l.id].model = m
      kept    == Kept(index, {i \in 1 .. Len(index) : mine(index[i])})
  IN  [i \in 1 .. Len(kept) |-> kept[i].id]

LoadedIds == {l.id : l \in {x \in Lines : Indexed(x)}}

----------------------------------------------------------------------------
(* Reading: get, recent and the regression check                           *)

Readable(r) == r \in DOMAIN files /\ files[r] = "whole"

\* get: the record loads.
Get(w, r) == r \in by_id[w] /\ Readable(r)

Place(s, r) == CHOOSE i \in 1 .. Len(s) : s[i] = r
Ids(s)      == {s[i] : i \in 1 .. Len(s)}

\* Mutant: oldest by append order.
BeforeByAppend(w, s, a, b) ==
  LET key(r) == IF Get(w, r) THEN 0 ELSE -1
  IN  key(a) < key(b) \/ (key(a) = key(b) /\ Place(s, a) < Place(s, b))

\* The order of prune: what does not load first, then the oldest spawn time;
\* sort_by_key is stable.
Before(w, s, a, b) ==
  LET key(r) == IF Get(w, r) THEN runs[r].spawn ELSE -1
  IN  key(a) < key(b) \/ (key(a) = key(b) /\ Place(s, a) < Place(s, b))

\* The order of recent: newest spawn time first, ties in append order.
Newer(s, a, b) ==
  \/ runs[a].spawn > runs[b].spawn
  \/ runs[a].spawn = runs[b].spawn /\ Place(s, a) < Place(s, b)

Recent(w, m, n) ==
  LET s      == by_model[w][m]
      loaded == {r \in Ids(s) : Get(w, r)}
      rank(r) == Cardinality({x \in loaded : Newer(s, x, r)})
      len    == IF Cardinality(loaded) < n THEN Cardinality(loaded) ELSE n
  IN  [i \in 1 .. len |-> CHOOSE r \in loaded : rank(r) = i - 1]

----------------------------------------------------------------------------
(* append                                                                  *)

\* Where append returns to: the monitor goes on to the regression check,
\* the exec wrapper ends.
Return(w) == IF w \in OneShot THEN "done" ELSE "compare"

Open(w) ==
  /\ pc[w] = "down"
  /\ pc' = [pc EXCEPT ![w] = "idle"]
  /\ by_model' = [by_model EXCEPT ![w] = [m \in Models |-> LoadedModel(m)]]
  /\ by_id' = [by_id EXCEPT ![w] = LoadedIds]
  /\ UNCHANGED <<runs, diskVars, cur, buf, todo, gone, ghosts>>

\* A process ended: the monitor saw the exit, or the wrapper's child returned.
\* Runs end in any order of their spawn times.
Begin(w, m, t) ==
  /\ pc[w] = "idle"
  /\ Len(runs) < MaxRuns
  /\ runs' = Append(runs, [model |-> m, spawn |-> t])
  /\ cur' = [cur EXCEPT ![w] = Len(runs) + 1]
  /\ pc' = [pc EXCEPT ![w] = "file"]
  /\ UNCHANGED <<diskVars, by_model, by_id, buf, todo, gone, ghosts>>

FileWith(r, content) ==
  [x \in DOMAIN files \cup {r} |-> IF x = r THEN content ELSE files[x]]

\* Mutant: the index entry is written before the record file.
WriteRecordLate(w) ==
  /\ pc[w] = "file"
  /\ Written(Append(buf[w], Entry(cur[w])))
  /\ pc' = [pc EXCEPT ![w] = "index"]
  /\ UNCHANGED <<runs, files, cur, by_model, by_id, buf, todo, gone, ghosts>>

\* Step 1: the record file.
WriteRecord(w) ==
  /\ pc[w] = "file"
  /\ files' = FileWith(cur[w], "whole")
  /\ pc' = [pc EXCEPT ![w] = "index"]
  /\ UNCHANGED <<runs, index, frag, cur, by_model, by_id, buf, todo, gone, ghosts>>

\* The file could not be created, or only a part of it was written.
WriteRecordFails(w) ==
  /\ "DiskFull" \in Faults
  /\ pc[w] = "file"
  /\ files' \in {files, FileWith(cur[w], "torn")}
  /\ pc' = [pc EXCEPT ![w] = Return(w)]
  /\ UNCHANGED <<runs, index, frag, cur, by_model, by_id, buf, todo, gone, ghosts>>

Remember(w, r) ==
  /\ by_model' = [by_model EXCEPT ![w][runs[r].model] = Append(@, r)]
  /\ by_id' = [by_id EXCEPT ![w] = @ \cup {r}]

\* Mutant: the flush after the entry is dropped.
AppendIndexUnflushed(w) ==
  /\ pc[w] = "index"
  /\ buf' = [buf EXCEPT ![w] = Append(@, Entry(cur[w]))]
  /\ Remember(w, cur[w])
  /\ pc' = [pc EXCEPT ![w] = "prune"]
  /\ UNCHANGED <<runs, diskVars, cur, todo, gone, ghosts>>

\* Steps 2 and 3: the index line, flushed, then the in-memory index.
AppendIndex(w) ==
  /\ pc[w] = "index"
  /\ Written(Append(buf[w], Entry(cur[w])))
  /\ buf' = [buf EXCEPT ![w] = <<>>]
  /\ Remember(w, cur[w])
  /\ pc' = [pc EXCEPT ![w] = "prune"]
  /\ UNCHANGED <<runs, files, cur, todo, gone, ghosts>>

\* The flush fails: append returns Err, the line stays in the BufWriter.
AppendIndexFails(w) ==
  /\ "DiskFull" \in Faults
  /\ pc[w] = "index"
  /\ buf' = [buf EXCEPT ![w] = Append(@, Entry(cur[w]))]
  /\ pc' = [pc EXCEPT ![w] = Return(w)]
  /\ UNCHANGED <<runs, diskVars, cur, by_model, by_id, todo, gone, ghosts>>

----------------------------------------------------------------------------
(* prune_if_needed                                                         *)

\* Mutant: what does not load is left out instead of being put first.
CandidatesLoaded(w) ==
  LET s    == by_model[w][runs[cur[w]].model]
      live == {r \in Ids(s) : Get(w, r)}
      rank(r) == Cardinality({x \in live : Before(w, s, x, r)})
      over == Len(s) - Limit
      n    == IF over < Cardinality(live) THEN over ELSE Cardinality(live)
  IN  [i \in 1 .. n |-> CHOOSE r \in live : rank(r) = i - 1]

\* Mutant: room is made for the record before it is counted.
CandidatesShort(w) ==
  LET s == by_model[w][runs[cur[w]].model]
      rank(r) == Cardinality({x \in Ids(s) : Before(w, s, x, r)})
  IN  [i \in 1 .. (Len(s) - Limit - 1) |-> CHOOSE r \in Ids(s) : rank(r) = i - 1]

\* The first `count - limit` runs of the model in prune order; none within it.
Candidates(w) ==
  LET s == by_model[w][runs[cur[w]].model]
      rank(r) == Cardinality({x \in Ids(s) : Before(w, s, x, r)})
  IN  [i \in 1 .. (Len(s) - Limit) |-> CHOOSE r \in Ids(s) : rank(r) = i - 1]

SelectVictims(w) ==
  /\ pc[w] = "prune"
  /\ todo' = [todo EXCEPT ![w] = Candidates(w)]
  /\ pc' = [pc EXCEPT ![w] = "evict"]
  /\ UNCHANGED <<runs, diskVars, cur, by_model, by_id, buf, gone, ghosts>>

RemoveFromIndex(w, r) ==
  LET m == runs[cur[w]].model
  IN  /\ by_model' = [by_model EXCEPT ![w][m] = Kept(@, {i \in 1 .. Len(@) : @[i] # r})]
      /\ by_id' = [by_id EXCEPT ![w] = @ \ {r}]

\* Mutant: the run leaves by_id but not by_model.
EvictOneStale(w) ==
  LET r == Head(todo[w]) IN
  /\ pc[w] = "evict"
  /\ todo[w] # <<>>
  /\ files' = [x \in DOMAIN files \ {r} |-> files[x]]
  /\ pruned' = pruned \cup ({r} \cap DOMAIN files)
  /\ by_id' = [by_id EXCEPT ![w] = @ \ {r}]
  /\ gone' = [gone EXCEPT ![w] = Append(@, r)]
  /\ todo' = [todo EXCEPT ![w] = Tail(@)]
  /\ UNCHANGED <<runs, index, frag, pc, cur, by_model, buf, acked, baseline>>

\* remove_file succeeds or finds nothing to remove.
EvictOne(w) ==
  LET r == Head(todo[w]) IN
  /\ pc[w] = "evict"
  /\ todo[w] # <<>>
  /\ files' = [x \in DOMAIN files \ {r} |-> files[x]]
  /\ pruned' = pruned \cup ({r} \cap DOMAIN files)
  /\ RemoveFromIndex(w, r)
  /\ gone' = [gone EXCEPT ![w] = Append(@, r)]
  /\ todo' = [todo EXCEPT ![w] = Tail(@)]
  /\ UNCHANGED <<runs, index, frag, pc, cur, buf, acked, baseline>>

\* Mutant: a run that could not be deleted is tombstoned as well.
EvictFailsGone(w) ==
  /\ "DeleteFails" \in Faults
  /\ pc[w] = "evict"
  /\ todo[w] # <<>>
  /\ Head(todo[w]) \in DOMAIN files
  /\ gone' = [gone EXCEPT ![w] = Append(@, Head(todo[w]))]
  /\ todo' = [todo EXCEPT ![w] = Tail(@)]
  /\ UNCHANGED <<runs, diskVars, pc, cur, by_model, by_id, buf, ghosts>>

\* The delete fails: the run stays indexed and a later append tries again.
EvictFails(w) ==
  /\ "DeleteFails" \in Faults
  /\ pc[w] = "evict"
  /\ todo[w] # <<>>
  /\ Head(todo[w]) \in DOMAIN files
  /\ todo' = [todo EXCEPT ![w] = Tail(@)]
  /\ UNCHANGED <<runs, diskVars, pc, cur, by_model, by_id, buf, gone, ghosts>>

Tombs(s) == [i \in 1 .. Len(s) |-> Tomb(s[i])]

\* The tombstones, one flush for all, whose failure is only logged; then
\* append returns Ok.
EndPrune(w) ==
  /\ pc[w] = "evict"
  /\ todo[w] = <<>>
  /\ \/ /\ Written(buf[w] \o Tombs(gone[w]))
        /\ buf' = [buf EXCEPT ![w] = <<>>]
     \/ /\ "DiskFull" \in Faults
        /\ buf' = [buf EXCEPT ![w] = @ \o Tombs(gone[w])]
        /\ UNCHANGED <<index, frag>>
  /\ acked' = acked \cup {cur[w]}
  /\ pc' = [pc EXCEPT ![w] = Return(w)]
  /\ gone' = [gone EXCEPT ![w] = <<>>]
  /\ UNCHANGED <<runs, files, cur, by_model, by_id, todo, pruned, baseline>>

----------------------------------------------------------------------------
(* After append                                                            *)

\* check_regressions runs whether append returned Ok or Err.  The record in
\* flight is dropped if it comes first.
Compare(w) ==
  LET recent  == Recent(w, runs[cur[w]].model, BaselineWindow + 1)
      history == IF recent # <<>> /\ recent[1] = cur[w] THEN Tail(recent) ELSE recent
  IN
  /\ pc[w] = "compare"
  /\ baseline' = IF recent = <<>> \/ Len(history) < MinSamples
                 THEN [of |-> NoRun, over |-> {}]
                 ELSE [of |-> cur[w], over |-> Ids(history)]
  /\ pc' = [pc EXCEPT ![w] = "idle"]
  /\ UNCHANGED <<runs, diskVars, cur, by_model, by_id, buf, todo, gone,
                 acked, pruned>>

Forget(w) ==
  /\ by_model' = [by_model EXCEPT ![w] = [m \in Models |-> <<>>]]
  /\ by_id' = [by_id EXCEPT ![w] = {}]
  /\ buf' = [buf EXCEPT ![w] = <<>>]
  /\ todo' = [todo EXCEPT ![w] = <<>>]
  /\ gone' = [gone EXCEPT ![w] = <<>>]
  /\ cur' = [cur EXCEPT ![w] = NoRun]
  /\ pc' = [pc EXCEPT ![w] = "down"]

\* An orderly end: dropping the BufWriter flushes it.
Close(w) ==
  /\ pc[w] = IF w \in OneShot THEN "done" ELSE "idle"
  /\ Written(buf[w])
  /\ Forget(w)
  /\ UNCHANGED <<runs, files, ghosts>>

\* A process dies.  While it wrote the record it may leave a part of it, and
\* while it flushed lines a fragment of the first.
Crash(w) ==
  /\ "Crash" \in Faults
  /\ pc[w] # "down"
  /\ Forget(w)
  /\ files' \in {files} \cup (IF pc[w] = "file" THEN {FileWith(cur[w], "torn")} ELSE {})
  /\ \/ UNCHANGED frag
     \/ /\ "Torn" \in Faults
        /\ pc[w] = "index" \/ (pc[w] = "evict" /\ todo[w] = <<>> /\ gone[w] # <<>>)
        /\ frag' = TRUE
  /\ UNCHANGED <<runs, index, ghosts>>

----------------------------------------------------------------------------
Init ==
  /\ runs = <<>>
  /\ files = [r \in {} |-> "whole"]
  /\ index = <<>>
  /\ frag = FALSE
  /\ pc = [w \in Writers |-> "down"]
  /\ cur = [w \in Writers |-> NoRun]
  /\ by_model = [w \in Writers |-> [m \in Models |-> <<>>]]
  /\ by_id = [w \in Writers |-> {}]
  /\ buf = [w \in Writers |-> <<>>]
  /\ todo = [w \in Writers |-> <<>>]
  /\ gone = [w \in Writers |-> <<>>]
  /\ acked = {}
  /\ pruned = {}
  /\ baseline = [of |-> NoRun, over |-> {}]

Step(w) ==
  \/ Open(w)
  \/ \E m \in Models, t \in Times : Begin(w, m, t)
  \/ WriteRecord(w)
  \/ WriteRecordFails(w)
  \/ AppendIndex(w)
  \/ AppendIndexFails(w)
  \/ SelectVictims(w)
  \/ EvictOne(w)
  \/ EvictFails(w)
  \/ EndPrune(w)
  \/ Compare(w)
  \/ Close(w)
  \/ Crash(w)

Next == \E w \in Writers : Step(w)

Spec == Init /\ [][Next]_vars

----------------------------------------------------------------------------
(* Properties                                                              *)

\* The index never points at a record that was not completely written: an
\* entry's file is whole unless a prune has removed it, whichever processes
\* died where and whatever failed (the order of steps 1 and 2 of `append`).
EntryHasFile == \A r \in Runs : Entry(r) \in Lines => Readable(r) \/ r \in pruned

\* A tombstone never hides a record that is still on disk: `prune_if_needed`
\* tombstones only what it deleted.
TombstoneIsGone == \A r \in Runs : Tomb(r) \in Lines => r \notin DOMAIN files

\* The two halves of the in-memory index name the same runs, each once.
IndexesAgree ==
  \A w \in Writers :
    /\ by_id[w] = UNION {Ids(by_model[w][m]) : m \in Models}
    /\ \A m \in Models : Cardinality(Ids(by_model[w][m])) = Len(by_model[w][m])

\* A run that is recorded and not pruned, but not found on the next open.
Lost == {r \in acked \ pruned : ~(r \in LoadedIds /\ Readable(r))}

\* Each half-written line costs at most one recorded run, the one whose entry
\* is glued to it; nothing else that `append` acknowledged is ever lost.
LossBounded ==
  Cardinality(Lost) <= Cardinality({i \in 1 .. Len(index) : index[i] = Junk})

\* run_store.rs:854-856: a half-written line is "safe to leave in place" and
\* "other records load normally". The code breaks it (README.md, Observations).
NothingLost == Lost = {}

\* runtime.rs:2747: a run is not averaged "into the very baseline it's being
\* compared against". The code breaks it (README.md, Observations).
BaselineExcludesSelf == baseline.of \notin baseline.over

\* When an append has returned and no other is under way, its model has at
\* most keep_runs_per_model records on disk.
HardCap ==
  \A w \in Writers :
    /\ pc[w] \in {"compare", "done"}
    /\ \A v \in Writers : pc[v] \in {"down", "idle", "compare", "done"}
    => Cardinality({r \in LoadedIds : Readable(r) /\ runs[r].model = runs[cur[w]].model})
        <= Limit

\* A prune removes a record only when its process has no dead pointer left to
\* drop instead: a ghost left by a crash before the tombstone costs no record.
GhostsGoFirst ==
  [][\A r \in DOMAIN files : r \notin DOMAIN files' =>
       \A w \in Writers : Len(gone'[w]) > Len(gone[w]) =>
         \A x \in Ids(by_model[w][runs[r].model]) : Get(w, x)]_vars

=============================================================================
