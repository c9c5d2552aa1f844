-------------------------------- MODULE Web ---------------------------------
(***************************************************************************)
(* The web companion: POST /api/settings (web/settings.rs), the cell it    *)
(* shares with the tick loop (web/tunables.rs), the config file it patches *)
(* and the monitor reads back when it starts (config.rs, thresholds.rs),   *)
(* and the snapshot stream (web/stream.rs).                                *)
(*                                                                         *)
(* Requests run on the two worker threads of the server's tokio runtime,   *)
(* the tick loop on the main thread.  A POST takes the tunables lock, lets *)
(* it go, takes it again and then takes WRITE_MUTEX: the steps of two      *)
(* POSTs and of the ticks interleave at those points.                      *)
(*                                                                         *)
(* A request body, the file and the settings in force are functions from   *)
(* keys to numbers; an absent key is not in the domain.  The three         *)
(* critical / attention pairs (VRAM, RAM, KV) obey the same rules and are  *)
(* one pair here.  A snapshot is known by the thresholds its rows were     *)
(* classified with.  Keys the web may not write never change and are left  *)
(* out.                                                                    *)
(***************************************************************************)
EXTENDS Naturals

CONSTANTS
  Clients,      \* browsers that POST
  Subscribers,  \* WebSocket clients of /api/stream
  Bodies,       \* the update requests they may send
  Files,        \* config files the operator may leave behind
  Defaults,     \* contract thresholds and the default kill_sustain_secs
  MaxPct,       \* 100 in the code
  MaxSustain,   \* 600 in the code
  Faults,       \* a subset of {"Crash", "WriteFails"}
  MaxPosts,     \* bound: requests in one behaviour
  MaxCrashes    \* bound: times the monitor dies

ThresholdKeys == {"amber", "red", "attention", "critical", "alert"}
Keys == ThresholdKeys \cup {"kill"}
NoOne == "no one"
IsPartial(f) == DOMAIN f \subseteq Keys /\ f \in [DOMAIN f -> Nat]

ASSUME WebAssumption ==
  /\ \A f \in Bodies \cup Files : IsPartial(f)
  /\ Defaults \in [Keys -> Nat]
  /\ NoOne \notin Clients
  /\ MaxPct \in Nat /\ MaxSustain \in Nat
  /\ MaxPosts \in Nat /\ MaxCrashes \in Nat

VARIABLES
  file,          \* the keys set in the config file
  up,            \* the monitor runs
  tunables,      \* SharedTunables
  applied,       \* state.thresholds and config.governor.kill_sustain_secs
  alert_sustain, \* AlertState.sustain_secs
  req,           \* the POST each client has under way
  write_mutex,   \* the client that holds WRITE_MUTEX
  frame,         \* the snapshot in the watch channel
  published,     \* a tick has sent one since the server started
  sub,           \* the stream of each subscriber
  saved,         \* per key, the value last reported as persisted or edited in
  posts, crashes

fileVars == <<file, saved>>
runVars  == <<tunables, applied, alert_sustain>>
reqVars  == <<req, write_mutex>>
webVars  == <<frame, published, sub>>
vars     == <<fileVars, up, runVars, reqVars, webVars, posts, crashes>>

Empty  == [k \in {} |-> 0]
Idle   == [pc |-> "idle", body |-> Empty, new |-> Defaults, doc |-> Empty]
Closed == [pc |-> "closed", changed |-> FALSE, shown |-> Empty]

----------------------------------------------------------------------------
(* Values                                                                  *)

\* `base` with the keys of `patch` overwritten.
Over(base, patch) ==
  [k \in DOMAIN base \cup DOMAIN patch |->
     IF k \in DOMAIN patch THEN patch[k] ELSE base[k]]

ThresholdsOf(settings) == [k \in ThresholdKeys |-> settings[k]]

\* What a section means: missing keys take the contract's defaults.
Resolve(section) == Over(Defaults, section)

\* EffectiveThresholds::validate.
Ordered(t) ==
  /\ t["amber"] > 0
  /\ t["red"] > t["amber"]
  /\ t["critical"] >= t["attention"]
  /\ t["critical"] <= MaxPct
  /\ t["alert"] \in 1 .. MaxSustain

\* The kill window may not undercut the alert window.
Sustained(t) == t["kill"] >= t["alert"]

\* The checks a file passes at start: from_file, then Runtime::new.
Loads(f) == Ordered(Resolve(f)) /\ Sustained(Resolve(f))

----------------------------------------------------------------------------
(* POST /api/settings                                                      *)

\* The settings a body asks for: its thresholds over the defaults, its kill
\* window or else the one in force.
Proposed(body) ==
  Over(Resolve(body), [k \in {"kill"} \ DOMAIN body |-> tunables["kill"]])

\* Step (1) of update_settings; the read lock is released before the check.
Post(c, body) ==
  LET new == Proposed(body)
  IN  /\ up /\ req[c].pc = "idle" /\ posts < MaxPosts
      /\ posts' = posts + 1
      /\ IF Ordered(new) /\ Sustained(new)
         THEN req' = [req EXCEPT ![c] = [Idle EXCEPT !.pc = "checked", !.body = body, !.new = new]]
         ELSE req' = req
      /\ UNCHANGED <<fileVars, up, runVars, write_mutex, webVars, crashes>>

\* Mutant: a body without a kill window leaves the field of the cell alone.
SwappedPartly(c) ==
  IF "kill" \in DOMAIN req[c].body THEN req[c].new
  ELSE [req[c].new EXCEPT !["kill"] = tunables["kill"]]

\* The value that step (2) leaves in the shared cell.
Swapped(c) == req[c].new

\* Step (2): both fields under one write lock.
Swap(c) ==
  /\ req[c].pc = "checked"
  /\ tunables' = Swapped(c)
  /\ req' = [req EXCEPT ![c].pc = "swapped"]
  /\ UNCHANGED <<fileVars, up, applied, alert_sustain, write_mutex, webVars, posts, crashes>>

\* Mutant: the file is patched without the mutex.
MayLockAlways == TRUE

\* WRITE_MUTEX.lock() returns.
MayLock == write_mutex = NoOne

\* Step (3), persist_partial_toml: take WRITE_MUTEX, read and parse the file.
Lock(c) ==
  /\ req[c].pc = "swapped"
  /\ MayLock
  /\ write_mutex' = c
  /\ req' = [req EXCEPT ![c].pc = "locked", ![c].doc = file]
  /\ UNCHANGED <<fileVars, up, runVars, webVars, posts, crashes>>

\* The request is answered; the guard on WRITE_MUTEX drops on every path out.
Answer(c) ==
  /\ write_mutex' = NoOne
  /\ req' = [req EXCEPT ![c] = Idle]

\* Mutant: the early return on an error leaves WRITE_MUTEX locked.
AnswerHolding(c) ==
  /\ write_mutex' = write_mutex
  /\ req' = [req EXCEPT ![c] = Idle]

\* The `?` of a failed read, write or rename unlocks as well.
AnswerOnError(c) == Answer(c)

\* Rename the patched copy over the file and report `persisted: true`.
Save(c) ==
  /\ req[c].pc = "locked"
  /\ file'  = Over(req[c].doc, req[c].body)
  /\ saved' = Over(saved, req[c].body)
  /\ Answer(c)
  /\ UNCHANGED <<up, runVars, webVars, posts, crashes>>

\* Reading, writing or renaming fails: `persisted: false`.
SaveFails(c) ==
  /\ "WriteFails" \in Faults
  /\ req[c].pc = "locked"
  /\ AnswerOnError(c)
  /\ UNCHANGED <<fileVars, up, runVars, webVars, posts, crashes>>

----------------------------------------------------------------------------
(* The tick loop                                                           *)

\* apply_pending_tunables.
Pending == tunables

\* A tick takes the shared settings over, classifies with them and sends the
\* snapshot.  A failed tick does so too.
Tick ==
  /\ up
  /\ applied' = Pending
  /\ frame' = ThresholdsOf(applied')
  /\ published' = TRUE
  /\ sub' = [s \in Subscribers |-> [sub[s] EXCEPT !.changed = (sub[s].pc = "open")]]
  /\ UNCHANGED <<fileVars, up, tunables, alert_sustain, reqVars, posts, crashes>>

----------------------------------------------------------------------------
(* GET /api/stream                                                         *)

\* pump sends the current snapshot ...
Connect(s) ==
  /\ up /\ sub[s].pc = "closed"
  /\ sub' = [sub EXCEPT ![s] = [pc |-> "greeted", changed |-> FALSE, shown |-> frame]]
  /\ UNCHANGED <<fileVars, up, runVars, reqVars, frame, published, posts, crashes>>

\* Mutant: a new subscription counts the value in the channel as seen.
UnseenNot == FALSE

\* ... and then clones the server's receiver, which never marks a value seen:
\* changed() is ready at once if anything was ever sent.
Unseen == published

Subscribe(s) ==
  /\ sub[s].pc = "greeted"
  /\ sub' = [sub EXCEPT ![s].pc = "open", ![s].changed = Unseen]
  /\ UNCHANGED <<fileVars, up, runVars, reqVars, frame, published, posts, crashes>>

\* changed() resolves: borrow_and_update and send.
Deliver(s) ==
  /\ sub[s].pc = "open" /\ sub[s].changed
  /\ sub' = [sub EXCEPT ![s].changed = FALSE, ![s].shown = frame]
  /\ UNCHANGED <<fileVars, up, runVars, reqVars, frame, published, posts, crashes>>

\* The client closes, or a send fails.
Disconnect(s) ==
  /\ sub[s].pc # "closed"
  /\ sub' = [sub EXCEPT ![s] = Closed]
  /\ UNCHANGED <<fileVars, up, runVars, reqVars, frame, published, posts, crashes>>

----------------------------------------------------------------------------
(* Start and stop                                                          *)

\* The monitor ends with whatever its handlers were doing.
Crash ==
  /\ "Crash" \in Faults /\ up /\ crashes < MaxCrashes
  /\ crashes' = crashes + 1
  /\ up' = FALSE
  /\ req' = [c \in Clients |-> Idle] /\ write_mutex' = NoOne
  /\ sub' = [s \in Subscribers |-> Closed]
  /\ UNCHANGED <<fileVars, runVars, frame, published, posts>>

\* It starts only from a file that loads; the tunables, the runtime's own copy
\* and the alert window all come from it.
Start ==
  /\ ~up /\ Loads(file)
  /\ up' = TRUE
  /\ tunables' = Resolve(file)
  /\ applied' = Resolve(file)
  /\ alert_sustain' = Resolve(file)["alert"]
  /\ frame' = Empty /\ published' = FALSE
  /\ UNCHANGED <<fileVars, reqVars, sub, posts, crashes>>

\* While it is down the operator may put another file in place.
Edit ==
  /\ ~up
  /\ file' \in Files
  /\ saved' = file'
  /\ UNCHANGED <<up, runVars, reqVars, webVars, posts, crashes>>

----------------------------------------------------------------------------
Init ==
  /\ file \in Files /\ saved = file
  /\ up = FALSE
  /\ tunables = Defaults /\ applied = Defaults /\ alert_sustain = Defaults["alert"]
  /\ req = [c \in Clients |-> Idle] /\ write_mutex = NoOne
  /\ frame = Empty /\ published = FALSE
  /\ sub = [s \in Subscribers |-> Closed]
  /\ posts = 0 /\ crashes = 0

Handle(c) == Swap(c) \/ Lock(c) \/ Save(c) \/ SaveFails(c)

Pump(s) == Subscribe(s) \/ Deliver(s)

Next ==
  \/ \E c \in Clients : Handle(c) \/ \E body \in Bodies : Post(c, body)
  \/ \E s \in Subscribers : Pump(s) \/ Connect(s) \/ Disconnect(s)
  \/ Tick \/ Crash \/ Start \/ Edit

Spec == Init /\ [][Next]_vars

\* The tick loop ticks as long as it runs, and the executor polls every ready
\* task; nothing says that anyone POSTs, connects, crashes or restarts.
FairSpec ==
  /\ Spec
  /\ WF_vars(Tick)
  /\ \A c \in Clients : WF_vars(Handle(c))
  /\ \A s \in Subscribers : WF_vars(Pump(s))

----------------------------------------------------------------------------
(* Properties                                                              *)

\* Whatever POSTs overlap, the settings a tick works with are one validated
\* set: thresholds in order and in range, and a kill window no shorter than
\* the alert window that was checked with it (update_settings swaps both
\* fields, apply_pending_tunables copies both).
AppliedValid == up => \A t \in {tunables, applied} : Ordered(t) /\ Sustained(t)

\* `persisted: true` is kept: the file holds, key by key, what the last POST
\* that reported it had saved there, through overlapping POSTs, failed writes
\* and crashes.
SavedKeysStay == file = saved

\* A stream that waits for changed() is showing the latest snapshot: none is
\* lost between the greeting and the subscription, or while one is being sent.
NothingMissed ==
  \A s \in Subscribers : sub[s].pc = "open" /\ ~sub[s].changed => sub[s].shown = frame

\* When the requests stop, every POST has been answered, the tick loop works
\* with the settings last swapped in and every open stream shows their effect.
Settles ==
  <>[](up => /\ \A c \in Clients : req[c] = Idle
             /\ applied = tunables
             /\ \A s \in Subscribers :
                  sub[s].pc = "open" => sub[s].shown = ThresholdsOf(tunables))

\* settings.rs:34: the sustain check runs "on the merged config"; what a POST
\* leaves in the file loads again at the next start. The code breaks it
\* (README.md, Observations).
MergedLoads == up => Loads(file)

\* settings.rs:184: "The kill path must never undercut the alert-smoothing
\* window."
KillNeverUndercutsAlert == up => applied["kill"] >= alert_sustain

=============================================================================
