------------------------------ MODULE Governor ------------------------------
(***************************************************************************)
(* The kill path of Raqib: the per-tick governor decision, its actuation   *)
(* under `auto_actuate`, the SIGTERM -> SIGKILL escalation with the        *)
(* PID-reuse guard, and the operator's manual kill, running against an     *)
(* operating system whose processes come and go between any two system     *)
(* calls of the monitor.                                                   *)
(*                                                                         *)
(* A process is an INSTANCE (a number never used twice, the role of        *)
(* /proc/<pid>/stat starttime) that occupies a PID while it lives.  The    *)
(* monitor only ever sees PIDs; which instance it hits is what the         *)
(* properties are about.  HashMaps are partial functions: `contains_key`   *)
(* is membership in DOMAIN.                                                *)
(*                                                                         *)
(* Instants are kept as ages.  An age stops growing where no comparison in *)
(* the code can tell two values apart any more, so the model has no time   *)
(* horizon.  A unit of time is longer than one pass of the actuator.       *)
(***************************************************************************)
EXTENDS Integers, Sequences, FiniteSets

CONSTANTS
  Pids,            \* PIDs, natural numbers: `evaluate` sorts them
  Programs,        \* process names
  AI,              \* the programs the classifier gives an AI category
  Whitelist,       \* policy.whitelist_names
  Blacklist,       \* policy.blacklist_names
  DefaultAiAction, \* policy.default_ai_action: "Allow" or "Kill"
  Denied,          \* programs of another user: kill(2) answers EPERM
  AutoActuate,     \* config governor.auto_actuate
  Grace,           \* policy.sigterm_grace_period_secs
  Sustain,         \* config governor.kill_sustain_secs
  MaxKills,        \* policy.rate_limit_max_kills (0 switches the limit off)
  Window,          \* policy.rate_limit_window_secs
  Captures,        \* what identity capture can yield on this kernel
  Faults,          \* the environment faults this instance admits
  MaxInst,         \* bound: process instances ever spawned
  MaxManual        \* bound: operator kill commands

Instances == 1 .. MaxInst
Never     == -1                         \* no SIGTERM has reached it
Tokens    == {"pidfd", "starttime", "none"}
FaultKinds == {"TickFails",    \* collect_snapshot returns Err
               "ReadMisses",   \* a live process is skipped by the collector
               "FastReuse"}    \* a PID is reused while still tracked

ASSUME PidsAssumption    == Pids \subseteq Nat
ASSUME ProgramAssumption == /\ AI \subseteq Programs
                            /\ Denied \subseteq Programs
                            /\ DefaultAiAction \in {"Allow", "Kill"}
ASSUME FlagAssumption    == /\ AutoActuate \in BOOLEAN
                            /\ Captures \subseteq Tokens
                            /\ Faults \subseteq FaultKinds
ASSUME NumberAssumption  == /\ Grace \in Nat
                            /\ Sustain \in Nat
                            /\ MaxKills \in Nat
                            /\ Window \in Nat
                            /\ MaxInst \in Nat
                            /\ MaxManual \in Nat

VARIABLES
  \* the operating system
  proc,                 \* PID -> the instance living there
  spawned,              \* instances created so far
  \* Runtime: what the last successful tick left behind
  lifecycle,            \* last_lifecycle.processes
  annotated,            \* state.annotated
  thermal,              \* host thermal breach in last_snapshot
  breach_since,         \* PID -> age of the breach
  decisions,            \* state.decisions
  \* GovernorExecutor and the attribution map
  pending_kills,        \* PID -> PendingKill
  recent_kills,         \* ages, oldest first
  governor_killed_pids,
  \* where the (single) monitor thread is
  pc, todo, shot,
  due,                  \* the tick interval has elapsed since the last tick
  manualOps,
  \* history, for the properties only
  termed,               \* instance -> age of the last SIGTERM it got
  terms,                \* SIGTERMs delivered within the last Window
  streak,               \* instance -> consecutive breaching snapshots
  delivered,            \* the signal the last step delivered
  exits                 \* classified exits of AI instances

osVars   == <<proc, spawned>>
tickVars == <<lifecycle, annotated, thermal, breach_since, decisions>>
govVars  == <<pending_kills, recent_kills, governor_killed_pids>>
ctlVars  == <<pc, todo, shot, due>>
vars     == <<osVars, tickVars, govVars, ctlVars, manualOps,
              termed, terms, streak, delivered, exits>>

Nothing == [sig |-> "none", by |-> "auto", via |-> "none", inst |-> 0]
NoShot  == [pid |-> 0, by |-> "auto", token |-> "none", inst |-> 0]

----------------------------------------------------------------------------
(* Helpers on maps and ages                                                *)

Put(f, k, v)   == [x \in DOMAIN f \cup {k} |-> IF x = k THEN v ELSE f[x]]
Without(f, K)  == [x \in DOMAIN f \ K |-> f[x]]
Older(a, cap)  == IF a < cap THEN a + 1 ELSE cap
Fault(k)       == k \in Faults

\* How many entries `while front < cutoff { pop_front }` removes.
Stale(ages) ==
  CHOOSE n \in 0 .. Len(ages) :
    /\ \A i \in 1 .. n : ages[i] > Window
    /\ n < Len(ages) => ages[n + 1] <= Window

\* Mutant: the window is never aged.
TrimmedNever(ages) == ages

\* trim_rate_limit_window
Trimmed(ages) == SubSeq(ages, Stale(ages) + 1, Len(ages))

\* Mutant: off by one.
RateLimitExceededLate(s) == MaxKills > 0 /\ Len(s) > MaxKills

\* rate_limit_exceeded, on an already trimmed window
RateLimitExceeded(s) == MaxKills > 0 /\ Len(s) >= MaxKills

\* Mutant: the whitelist is not consulted.
PolicyEvaluateUnlisted(name) ==
  IF name \in Blacklist THEN "Kill"
  ELSE IF name \in AI THEN DefaultAiAction
  ELSE "Allow"

\* GovernorPolicy::evaluate
PolicyEvaluate(name) ==
  IF name \in Whitelist THEN "Allow"
  ELSE IF name \in Blacklist THEN "Kill"
  ELSE IF name \in AI THEN DefaultAiAction
  ELSE "Allow"

\* Mutant: no AlreadyPending short-circuit.
EvaluateProcessAgain(p, lc, pend, breach, window) ==
  IF lc.exited THEN "AlreadyExited"
  ELSE IF PolicyEvaluate(lc.name) = "Allow" THEN "Whitelisted"
  ELSE IF ~breach THEN "Skipped"
  ELSE IF RateLimitExceeded(window) THEN "RateLimited"
  ELSE "SignalTermSent"

\* GovernorExecutor::evaluate_process; `breach` is any of VRAM, RAM, thermal
EvaluateProcess(p, lc, pend, breach, window) ==
  IF lc.exited THEN "AlreadyExited"
  ELSE IF p \in pend THEN "AlreadyPending"
  ELSE IF PolicyEvaluate(lc.name) = "Allow" THEN "Whitelisted"
  ELSE IF ~breach THEN "Skipped"
  ELSE IF RateLimitExceeded(window) THEN "RateLimited"
  ELSE "SignalTermSent"

\* Mutant: the grace period is not waited for.
GraceIgnored == {p \in DOMAIN pending_kills : ~pending_kills[p].sigkill}

\* PendingKill::should_send_kill over the whole map
GraceExpired ==
  {p \in DOMAIN pending_kills :
     ~pending_kills[p].sigkill /\ pending_kills[p].age >= Grace}

----------------------------------------------------------------------------
(* The operating system                                                    *)

\* A PID is given out again only after the tracker has forgotten it, unless
\* the run admits FastReuse.
Spawn(p, name) ==
  /\ p \notin DOMAIN proc
  /\ spawned < MaxInst
  /\ Fault("FastReuse") \/ p \notin DOMAIN lifecycle
  /\ proc' = Put(proc, p, [inst |-> spawned + 1, name |-> name, doomed |-> FALSE])
  /\ spawned' = spawned + 1
  /\ delivered' = Nothing
  /\ UNCHANGED <<tickVars, govVars, ctlVars, manualOps, termed, terms, streak, exits>>

\* Any process may end on its own; a SIGKILLed one does in the end.
Exit(p) ==
  /\ p \in DOMAIN proc
  /\ proc' = Without(proc, {p})
  /\ delivered' = Nothing
  /\ UNCHANGED <<spawned, tickVars, govVars, ctlVars, manualOps,
                 termed, terms, streak, exits>>

Elapse ==
  /\ pc = "idle"
  /\ breach_since' = [p \in DOMAIN breach_since |-> Older(breach_since[p], Sustain)]
  /\ pending_kills' = [p \in DOMAIN pending_kills |->
                         [pending_kills[p] EXCEPT !.age = Older(@, Grace)]]
  /\ recent_kills' = [i \in DOMAIN recent_kills |-> Older(recent_kills[i], Window + 1)]
  /\ termed' = [i \in Instances |->
                  IF termed[i] = Never THEN Never ELSE Older(termed[i], Grace)]
  /\ LET older == [i \in DOMAIN terms |-> [terms[i] EXCEPT !.age = Older(@, Window + 1)]]
         ages  == [i \in DOMAIN older |-> older[i].age]
     IN  terms' = SubSeq(older, Stale(ages) + 1, Len(older))
  /\ due' = TRUE
  /\ delivered' = Nothing
  /\ UNCHANGED <<osVars, lifecycle, annotated, thermal, decisions,
                 governor_killed_pids, pc, todo, shot, manualOps, streak, exits>>

----------------------------------------------------------------------------
(* Runtime::tick, the part that feeds the governor                         *)

Candidates(d) == {p \in DOMAIN d : d[p] = "SignalTermSent"}

\* record_governor_audit starts on whatever decisions the state holds.
StartActuation(d) ==
  /\ due' = FALSE
  /\ pc' = IF AutoActuate THEN "actuate" ELSE "idle"
  /\ todo' = IF AutoActuate THEN Candidates(d) ELSE {}
  /\ shot' = NoShot

\* The PIDs the previous snapshot shows in breach.
Breaching ==
  {p \in DOMAIN annotated :
     annotated[p].over \/ (thermal /\ annotated[p].name \in AI)}

\* LifecycleTracker::update.  `inst` is history: the instance last seen there.
Exited(seen) == {p \in DOMAIN lifecycle \ seen : ~lifecycle[p].exited}

Tracked(seen) ==
  [p \in seen \cup Exited(seen) |->
     IF p \in Exited(seen) THEN [lifecycle[p] EXCEPT !.exited = TRUE]
     ELSE IF p \in DOMAIN lifecycle /\ ~lifecycle[p].exited
          THEN [lifecycle[p] EXCEPT !.inst = proc[p].inst]
          ELSE [name |-> proc[p].name, exited |-> FALSE, inst |-> proc[p].inst]]

\* Mutant: the exit drain forgets pending_kills.
ClearPendingNot(gone) == pending_kills

\* clear_pending for every exit of this tick
ClearPending(gone) == Without(pending_kills, gone)

\* One successful tick: snapshot, tracker, exit drain, breaches of the
\* PREVIOUS snapshot, sustain clock, decisions.
Tick(seen, over, hot) ==
  LET gone   == Exited(seen)
      goneAi == {p \in gone : lifecycle[p].name \in AI}
      lc     == Tracked(seen)
      pend   == DOMAIN pending_kills \ gone
      window == Trimmed(recent_kills)
      breach(p) == thermal \/ (p \in DOMAIN annotated /\ annotated[p].over)
      breachingInst == {annotated[p].inst : p \in Breaching}
  IN
  /\ pc = "idle" /\ due
  /\ lifecycle' = lc
  /\ pending_kills' = ClearPending(gone)
  /\ governor_killed_pids' = governor_killed_pids \ goneAi
  /\ exits' = exits \cup {[inst |-> lifecycle[p].inst,
                           governor |-> p \in governor_killed_pids] : p \in goneAi}
  /\ breach_since' = [p \in Breaching |->
                        IF p \in DOMAIN breach_since THEN breach_since[p] ELSE 0]
  /\ recent_kills' = window
  /\ decisions' = [p \in DOMAIN lc |-> EvaluateProcess(p, lc[p], pend, breach(p), window)]
  /\ annotated' = [p \in seen |-> [name |-> proc[p].name, inst |-> proc[p].inst,
                                   over |-> p \in over]]
  /\ thermal' = hot
  /\ streak' = [i \in Instances |->
                  IF i \in breachingInst THEN Older(streak[i], 2) ELSE 0]
  /\ StartActuation(decisions')
  /\ delivered' = Nothing
  /\ UNCHANGED <<osVars, manualOps, termed, terms>>

TickSucceeds ==
  \E seen \in SUBSET DOMAIN proc :
    /\ Fault("ReadMisses") \/ seen = DOMAIN proc
    /\ \E over \in SUBSET seen, hot \in BOOLEAN : Tick(seen, over, hot)

\* tick() returns Err before it touches the state; both loops log the error
\* and call record_governor_audit all the same.
TickFails ==
  /\ Fault("TickFails")
  /\ pc = "idle" /\ due
  /\ StartActuation(decisions)
  /\ delivered' = Nothing
  /\ UNCHANGED <<osVars, tickVars, govVars, manualOps, termed, terms, streak, exits>>

----------------------------------------------------------------------------
(* send_sigterm and send_sigkill                                           *)

\* The identity token captured just before the SIGTERM.
Capture(p, by, token) ==
  /\ shot' = [pid |-> p, by |-> by,
              token |-> IF p \in DOMAIN proc THEN token ELSE "none",
              inst |-> IF p \in DOMAIN proc /\ token # "none" THEN proc[p].inst ELSE 0]
  /\ pc' = "term"

Deliverable(p) == p \in DOMAIN proc /\ proc[p].name \notin Denied

After(by) == IF by = "auto" THEN (IF pc = "term" THEN "actuate" ELSE "escalate") ELSE "idle"

\* Mutant: the entry is filed under the identity token.
RegisterByToken(p) ==
  Put(pending_kills, shot.inst, [age |-> 0, sigkill |-> FALSE,
                                 token |-> shot.token, inst |-> shot.inst])

\* pending_kills.insert: a new entry replaces an old one for the same PID.
Register(p) ==
  Put(pending_kills, p, [age |-> 0, sigkill |-> FALSE,
                         token |-> shot.token, inst |-> shot.inst])

\* Mutant: the operator's kills are not tagged.
TagAutomated(p, by) ==
  IF by = "auto" THEN governor_killed_pids \cup {p} ELSE governor_killed_pids

\* A confirmed kill tags the PID for the exit classifier, whoever sent it.
Tag(p, by) == governor_killed_pids \cup {p}

\* kill(pid, SIGTERM) by number, then the bookkeeping of a delivered kill.
TermDelivered ==
  LET p == shot.pid
      i == proc[p].inst
  IN
  /\ pc = "term"
  /\ Deliverable(p)
  /\ recent_kills' = Append(recent_kills, 0)
  /\ pending_kills' = Register(p)
  /\ governor_killed_pids' = Tag(p, shot.by)
  /\ termed' = [termed EXCEPT ![i] = 0]
  /\ terms' = Append(terms, [by |-> shot.by, age |-> 0])
  /\ delivered' = [sig |-> "TERM", by |-> shot.by, via |-> "none", inst |-> i]
  /\ pc' = After(shot.by)
  /\ shot' = NoShot
  /\ UNCHANGED <<osVars, tickVars, todo, due, manualOps, streak, exits>>

\* ESRCH or EPERM: nothing is counted, nothing becomes pending.
TermFailed ==
  /\ pc = "term"
  /\ ~Deliverable(shot.pid)
  /\ pc' = After(shot.by)
  /\ shot' = NoShot
  /\ delivered' = Nothing
  /\ UNCHANGED <<osVars, tickVars, govVars, todo, due, manualOps,
                 termed, terms, streak, exits>>

\* A SIGKILL that reached the process now living at p.
KillReaches(p, by, via) ==
  /\ proc' = [proc EXCEPT ![p].doomed = TRUE]
  /\ pending_kills' = [pending_kills EXCEPT ![p].sigkill = TRUE]
  /\ governor_killed_pids' = Tag(p, by)
  /\ delivered' = [sig |-> "KILL", by |-> by, via |-> via, inst |-> proc[p].inst]

\* PidReusedAborted: the entry is marked so that it is not tried again.
KillAborted(p) ==
  /\ pending_kills' = IF p \in DOMAIN pending_kills
                      THEN [pending_kills EXCEPT ![p].sigkill = TRUE]
                      ELSE pending_kills
  /\ delivered' = Nothing
  /\ UNCHANGED <<proc, governor_killed_pids>>

\* EPERM and the like: sigkill_time stays None, the next pass tries again.
KillErrs ==
  /\ delivered' = Nothing
  /\ UNCHANGED <<proc, pending_kills, governor_killed_pids>>

Alive(p, i) == p \in DOMAIN proc /\ proc[p].inst = i

\* send_sigkill: a pidfd names the instance, so check and signal are one
\* step; a starttime is compared first and the raw kill(2) follows later.
SendSigkill(p, by, done) ==
  LET held == p \in DOMAIN pending_kills
      pk   == pending_kills[p]
      byStart == held /\ pk.token = "starttime" /\ Alive(p, pk.inst)
      byFd    == held /\ pk.token = "pidfd" /\ Alive(p, pk.inst)
  IN
  /\ IF byStart
     THEN /\ pc' = "kill"
          /\ shot' = [pid |-> p, by |-> by, token |-> pk.token, inst |-> pk.inst]
          /\ delivered' = Nothing
          /\ UNCHANGED <<proc, pending_kills, governor_killed_pids>>
     ELSE /\ pc' = done
          /\ shot' = NoShot
          /\ IF byFd THEN IF Deliverable(p) THEN KillReaches(p, by, pk.token) ELSE KillErrs
                     ELSE KillAborted(p)
  /\ UNCHANGED <<spawned, tickVars, recent_kills, due, termed, terms, streak, exits>>

\* The starttime fallback's kill(pid, SIGKILL).
RawKill ==
  LET p == shot.pid IN
  /\ pc = "kill"
  /\ \/ p \in DOMAIN proc /\ Deliverable(p) /\ KillReaches(p, shot.by, shot.token)
     \/ p \in DOMAIN proc /\ ~Deliverable(p) /\ KillErrs
     \/ p \notin DOMAIN proc /\ KillAborted(p)
  /\ pc' = After(shot.by)
  /\ shot' = NoShot
  /\ UNCHANGED <<spawned, tickVars, recent_kills, todo, due, manualOps,
                 termed, terms, streak, exits>>

----------------------------------------------------------------------------
(* Runtime::record_governor_audit                                          *)

\* Mutant: any breach counts as sustained.
SustainSkipped(p) == p \in DOMAIN breach_since /\ p \in DOMAIN annotated

\* The sustain gate and the annotated row, in the code's order.
SustainMet(p) ==
  /\ p \in DOMAIN breach_since
  /\ breach_since[p] >= Sustain
  /\ p \in DOMAIN annotated

\* The next candidate, lowest PID first.
NextCandidate(p) == pc = "actuate" /\ p \in todo /\ \A q \in todo : p <= q

\* `continue`: held for sustain, or deferred by the actuation-site limiter.
Hold(p) ==
  /\ NextCandidate(p)
  /\ ~SustainMet(p) \/ RateLimitExceeded(Trimmed(recent_kills))
  /\ recent_kills' = IF SustainMet(p) THEN Trimmed(recent_kills) ELSE recent_kills
  /\ todo' = todo \ {p}
  /\ delivered' = Nothing
  /\ UNCHANGED <<osVars, tickVars, pending_kills, governor_killed_pids, pc, shot,
                 due, manualOps, termed, terms, streak, exits>>

Fire(p, token) ==
  /\ NextCandidate(p)
  /\ SustainMet(p)
  /\ ~RateLimitExceeded(Trimmed(recent_kills))
  /\ recent_kills' = Trimmed(recent_kills)
  /\ Capture(p, "auto", token)
  /\ todo' = todo \ {p}
  /\ delivered' = Nothing
  /\ UNCHANGED <<osVars, tickVars, pending_kills, governor_killed_pids,
                 due, manualOps, termed, terms, streak, exits>>

\* execute_after_grace collects its PIDs once, then signals them in map order.
StartEscalation ==
  /\ pc = "actuate"
  /\ todo = {}
  /\ pc' = "escalate"
  /\ todo' = GraceExpired
  /\ delivered' = Nothing
  /\ UNCHANGED <<osVars, tickVars, govVars, shot, due, manualOps,
                 termed, terms, streak, exits>>

Escalate(p) ==
  /\ pc = "escalate"
  /\ p \in todo
  /\ SendSigkill(p, "auto", "escalate")
  /\ todo' = todo \ {p}
  /\ UNCHANGED manualOps

EndActuation ==
  /\ pc = "escalate"
  /\ todo = {}
  /\ pc' = "idle"
  /\ delivered' = Nothing
  /\ UNCHANGED <<osVars, tickVars, govVars, todo, shot, due, manualOps,
                 termed, terms, streak, exits>>

----------------------------------------------------------------------------
(* The operator: manual_kill and manual_force_kill                         *)

\* find_by_pid looks in the last snapshot, exited rows included; neither the
\* allowlist nor the rate limit stops an operator.
ManualKill(p, token) ==
  /\ pc = "idle"
  /\ manualOps < MaxManual
  /\ p \in DOMAIN lifecycle
  /\ Capture(p, "manual", token)
  /\ manualOps' = manualOps + 1
  /\ delivered' = Nothing
  /\ UNCHANGED <<osVars, tickVars, govVars, todo, due, termed, terms, streak, exits>>

\* The Waiting card is dismissed once its row has left the snapshot.
ManualForceKill(p) ==
  /\ pc = "idle"
  /\ manualOps < MaxManual
  /\ p \in DOMAIN lifecycle
  /\ SendSigkill(p, "manual", "idle")
  /\ manualOps' = manualOps + 1
  /\ UNCHANGED todo

----------------------------------------------------------------------------
EmptyMap == [p \in {} |-> 0]

Init ==
  /\ proc = EmptyMap
  /\ spawned = 0
  /\ lifecycle = EmptyMap
  /\ annotated = EmptyMap
  /\ thermal = FALSE
  /\ breach_since = EmptyMap
  /\ decisions = EmptyMap
  /\ pending_kills = EmptyMap
  /\ recent_kills = <<>>
  /\ governor_killed_pids = {}
  /\ pc = "idle"
  /\ todo = {}
  /\ shot = NoShot
  /\ due = TRUE
  /\ manualOps = 0
  /\ termed = [i \in Instances |-> Never]
  /\ terms = <<>>
  /\ streak = [i \in Instances |-> 0]
  /\ delivered = Nothing
  /\ exits = {}

OperatingSystem ==
  \/ \E p \in Pids, name \in Programs : Spawn(p, name)
  \/ \E p \in Pids : Exit(p)
  \/ Elapse

Actuator ==
  \/ \E p \in Pids : Hold(p)
  \/ \E p \in Pids, token \in Captures : Fire(p, token)
  \/ TermDelivered
  \/ TermFailed
  \/ StartEscalation
  \/ \E p \in Pids : Escalate(p)
  \/ RawKill
  \/ EndActuation

Operator ==
  \/ \E p \in Pids, token \in Captures : ManualKill(p, token)
  \/ \E p \in Pids : ManualForceKill(p)

Next == OperatingSystem \/ TickSucceeds \/ TickFails \/ Actuator \/ Operator

Spec == Init /\ [][Next]_vars

(***************************************************************************)
(* Fairness: time passes; the loop ticks once per interval and never       *)
(* parks inside the actuator; the kernel ends a SIGKILLed process.         *)
(***************************************************************************)
Fairness ==
  /\ WF_vars(Elapse)
  /\ WF_vars(TickSucceeds)
  /\ WF_vars(Actuator)
  /\ \A p \in Pids : WF_vars(Exit(p) /\ proc[p].doomed)

FairSpec == Spec /\ Fairness

----------------------------------------------------------------------------
(* Properties                                                              *)

PidMap(f, S) == DOMAIN f \subseteq Pids /\ f \in [DOMAIN f -> S]

Sources  == {"auto", "manual"}
Process  == [inst : Instances, name : Programs, doomed : BOOLEAN]
Row      == [name : Programs, exited : BOOLEAN, inst : Instances]
Reading  == [name : Programs, inst : Instances, over : BOOLEAN]
Pending  == [age : 0 .. Grace, sigkill : BOOLEAN, token : Tokens,
             inst : Instances \cup {0}]
Verdicts == {"AlreadyExited", "AlreadyPending", "Whitelisted", "Skipped",
             "RateLimited", "SignalTermSent"}

\* The shape of the state: every map is keyed by PIDs, ages stay in range.
TypeOK ==
  /\ PidMap(proc, Process)
  /\ spawned \in 0 .. MaxInst
  /\ PidMap(lifecycle, Row)
  /\ PidMap(annotated, Reading)
  /\ thermal \in BOOLEAN
  /\ PidMap(breach_since, 0 .. Sustain)
  /\ PidMap(decisions, Verdicts)
  /\ PidMap(pending_kills, Pending)
  /\ recent_kills \in Seq(0 .. Window + 1)
  /\ governor_killed_pids \subseteq Pids
  /\ pc \in {"idle", "actuate", "term", "escalate", "kill"}
  /\ todo \subseteq Pids
  /\ shot \in [pid : Pids \cup {0}, by : Sources, token : Tokens,
               inst : Instances \cup {0}]
  /\ due \in BOOLEAN
  /\ manualOps \in 0 .. MaxManual
  /\ termed \in [Instances -> {Never} \cup 0 .. Grace]
  /\ terms \in Seq([by : Sources, age : 0 .. Window + 1])
  /\ streak \in [Instances -> 0 .. 2]
  /\ delivered \in [sig : {"none", "TERM", "KILL"}, by : Sources, via : Tokens,
                    inst : Instances \cup {0}]
  /\ exits \subseteq [inst : Instances, governor : BOOLEAN]

\* "Max 3 automated kills / 60s": at no moment have more than MaxKills
\* automated SIGTERMs been delivered within the last Window, whatever the
\* operator kills, ticks fail or PIDs do in between (rate_limit_would_block
\* at the actuation site, counted in send_sigterm).
RateLimit ==
  MaxKills > 0 =>
    Cardinality({j \in 1 .. Len(terms) : terms[j].by = "auto"}) <= MaxKills

\* "SIGTERM before SIGKILL" and the PID-reuse guard: a SIGKILL only ever
\* reaches an instance that this monitor has SIGTERMed, and an automated one
\* only after that instance has had the whole grace period since its last
\* SIGTERM (execute_after_grace through send_sigkill).
KilledInTurn ==
  /\ termed[delivered.inst] # Never
  /\ delivered.by = "auto" => termed[delivered.inst] >= Grace

SigkillSafe == delivered.sig = "KILL" => KilledInTurn

\* The same for the SIGKILLs sent through a pidfd, which name an instance
\* and not a number: this half of the guard needs no assumption on PID reuse,
\* failed ticks or missed processes.
PidfdKillSafe == delivered.sig = "KILL" /\ delivered.via = "pidfd" => KilledInTurn

AutoTerm == delivered.sig = "TERM" /\ delivered.by = "auto"

\* "Allowlisted processes never killed": the instance an automated SIGTERM
\* reaches runs no allowlisted program, and one that is blocklisted or an AI
\* workload the default action kills.
PolicyObeyed ==
  AutoTerm => \E p \in DOMAIN proc :
                /\ proc[p].inst = delivered.inst
                /\ proc[p].name \notin Whitelist
                /\ \/ proc[p].name \in Blacklist
                   \/ proc[p].name \in AI /\ DefaultAiAction = "Kill"

\* "A momentary breach must never fire": the very instance an automated
\* SIGTERM reaches was in breach in at least two consecutive snapshots
\* (breach_since, its retain and the sustain gate).
SustainedOnly == AutoTerm /\ Sustain > 0 => streak[delivered.inst] >= 2

\* An automated SIGTERM is never sent to an instance that already had one,
\* from the governor or from the operator (the AlreadyPending short-circuit
\* keeps a stubborn process from draining the kill budget).
NoSecondTerm ==
  [][delivered'.sig = "TERM" /\ delivered'.by = "auto"
       => termed[delivered'.inst] = Never]_vars

\* No kill of ours is reported as a crash or a clean end: an AI instance that
\* a signal of this monitor had reached leaves as GovernorKill, whoever sent
\* the signal and however many ticks and other exits come in between
\* (governor_killed_pids, kept until the exit drain takes it).
KillsAttributed ==
  \A e \in exits : termed[e.inst] # Never => e.governor

\* "a stale entry would mis-attribute the new process's exit as a governor
\* kill": GovernorKill is said of exactly the AI instances that a signal of
\* this monitor had reached (the exit drain removes the tag). The code breaks it
\* (README.md, Observations).
AttributionExact ==
  \A e \in exits : e.governor <=> termed[e.inst] # Never

\* A pending kill belongs to the instance the tracker still shows running
\* at that PID: the exit drain leaves nothing for a successor to inherit.
PendingIsTracked ==
  \A p \in DOMAIN pending_kills :
    /\ p \in DOMAIN lifecycle
    /\ ~lifecycle[p].exited
    /\ pending_kills[p].token # "none" => pending_kills[p].inst = lifecycle[p].inst

\* Every delivered SIGTERM is followed through: under auto_actuate the entry
\* leaves pending_kills, because the process ended or was SIGKILLed.
PendingResolved ==
  \A p \in Pids : p \in DOMAIN pending_kills ~> p \notin DOMAIN pending_kills

\* A process the policy wants killed and the kernel lets us signal does not
\* stay in breach for ever: sustain, rate limit and escalation all let go.
SustainedBreachEnds ==
  \A p \in Pids :
    ~<>[](/\ p \in Breaching
          /\ PolicyEvaluate(annotated[p].name) = "Kill"
          /\ annotated[p].name \notin Denied)
=============================================================================
