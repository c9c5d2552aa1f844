# TLA+ verification of Raqib

Raqib watches the AI workloads of one Linux host: it samples `/proc` and the
GPU once per tick, classifies processes, shows them in a terminal and a web
page, keeps a history of runs, and, when `auto_actuate` is on, terminates
processes that stay over their limits. This directory holds TLA+ modules of
the parts where ordering, failure and time decide whether it is right, the TLC
configurations that check them and TLAPS proofs about them. Paths below are
relative to the repository root (`src/runtime.rs` etc.).

## 1. Inventory

| Component | State | Operations | Hard behaviour | What makes it right |
|---|---|---|---|---|
| Kill governor (`src/governor/`) | `pending_kills`, `recent_kills`, policy | `evaluate`, `send_sigterm`, `send_sigkill`, `execute_after_grace`, `clear_pending` | PIDs are numbers that the kernel reuses between any two system calls; grace periods and windows over several ticks | budget kept, SIGTERM and grace before SIGKILL, the right process hit, policy obeyed |
| Tick loop (`src/runtime.rs`, `src/ui/mod.rs`, `src/main.rs`) | `state` (annotated, decisions, lifecycle, ...), `breach_since`, `governor_killed_pids` | `tick`, `record_governor_audit`, `manual_kill`, `manual_force_kill` | a failed tick leaves old decisions in place; operator keys between ticks | decisions are acted on once, on fresh evidence |
| Lifecycle tracker (`src/lifecycle/`) | `previous` | `update` | exits and PID reuse seen only through snapshots | each process instance has one life |
| Run store (`src/storage/run_store.rs`) | one file per run, `index.jsonl`, two in-memory maps, a `BufWriter` | `open`, `append` (with prune), `recent`, `get` | death between system calls, full disk, failing delete, two processes | nothing acknowledged is lost, nothing pruned returns, the cap holds |
| Regression check (`check_regressions`, `src/analysis/`) | none | compare with the recent runs | exit order differs from spawn order | a run is not its own baseline |
| Exec wrapper (`src/exec_wrapper.rs`) | the child, its pipes, `stderr_tail`, `interrupt_count` | `run_exec`, the reader tasks, the Ctrl-C handler, one append to the run store | the child dies before its last lines are read, helpers keep the pipe, a second writer of the store | the record reflects the last lines written, the wrapper ends |
| Alerts (`src/ui/alerts.rs`, `observe_alerts`) | slots per (scope, alert) | `observe`, `observe_exit`, `ack_all` | sustain windows across ticks, acknowledgements, exits | fires after a whole window, none missed, acknowledged stays quiet |
| Connectivity probes (`src/telemetry/probe_manager.rs`) | map behind an `RwLock` | probe round, `reconcile` | async task against the tick loop, results late | a chip speaks of its own endpoint and settles |
| Telemetry dispatcher, accumulator, cold-load detector, samplers (`src/telemetry/`) | a channel of frames, per-PID accumulators and cold-load slots | `tick`, `record_system_power`, `record_disk_io`, `forget` | tasks answer late or never, PIDs are reused, the load ends by plateau or by age | a recycled PID starts fresh, the steady share starts with the end of the load |
| History ring (`src/history/`) | bounded rings per PID, event archive | `record_sample`, `drain_trajectory`, `record_event` | bounds, hand-over at exit | bounded, a summary carries its own process's samples |
| Exit drain of `tick` | `completed`, `recent_exit_attribution`, `regressions`, `regressions_count` | one pass per exit | several rings trimmed and patched in step | the n-th attribution is of the n-th exit, every regression counts once |
| Web server (`src/web/`) and configuration (`src/config.rs`, `src/thresholds.rs`) | the shared tunables, the config file, `WRITE_MUTEX`, the watch channel | settings write, start-up load, stream | overlapping POSTs, failing writes, death between swap and save | one validated set in force, saved keys stay, the latest snapshot shown |
| Kill card and keys (`src/ui/app.rs`, `src/ui/input.rs`) | overlay stack, Confirm/Waiting card | key actions | target exits while the card is open | no kill of a process the operator did not name |
| Audit trail and summary log (`src/governor/audit.rs`, `src/storage/log_store.rs`) | two JSONL files | `append`, `replay` | crash between a signal and its line, torn tail | every signal has a line |
| Exit classification (`src/exit_classify.rs`) | none of its own; the kernel's log | `classify_exit`, `read_recent_kernel_log` | evidence shared by all processes, read once, for a few seconds back | "out of memory" when the kernel says so of this process, and whenever it does |
| Classifier, platform collectors, configuration, panels, recommendations, fingerprints, onboarding | none that matters here | parsing, formatting, rendering | | outside a model checker's reach |

Interactions. One thread runs the loop: keys, then `tick` (collect, probes,
tracker, exit drain, governor decisions, alerts), then
`record_governor_audit` (actuation and escalation), then publication to the
web. Beside it run the tokio tasks of the dispatcher (samplers and probes,
shared maps behind locks), the web server (tunables behind an `RwLock`) and
other processes: the kernel's process table, and `raqib exec` wrappers that
write to the same run store.

## 2. Modules

| Module | Models |
|---|---|
| `Governor` | the kill path: tick, decisions, actuation, escalation, operator kills, over an operating system that starts, ends and reuses PIDs at any step |
| `MCGovernor` | the module TLC runs for it |
| `GovernorProofs` | its theorems |
| `RunHistory` | what a run store promises: record, and evict the oldest above the limit |
| `RunStore` | the store as it is on disk and in memory, several processes, crashes and I/O failures |
| `MCRunStore` | the refinement mapping to `RunHistory` |
| `RunStoreProofs` | theorems of `RunStore`, the refinement of `RunHistory` among them |
| `Alerts`, `AlertsProofs` | the alert slots under the tick loop |
| `ProbeManager`, `MCProbeManager`, `ProbeManagerProofs` | the probe task and the tick loop on the shared map |
| `Tui`, `TuiProofs` | the terminal front end: cursor, kill prompt, overlays, Esc cascade, under the tick loop |
| `Telemetry`, `TelemetryProofs` | the dispatcher's tasks, accumulator, cold-load detector, trajectory rings, and the exit drain that turns them into a run |
| `Web`, `MCWeb`, `WebProofs` | POST settings, the shared tunables, the config file over restarts, the snapshot stream |
| `PostMortem`, `PostMortemProofs` | how processes end, the monitor's verdict from the kernel log, the exec wrapper and its verdict from status and stderr |

Each `...Proofs` module extends the component's module and holds its theorems.
A definition marked "Mutant" is a plausible bug in the definition that follows
it. It is part of no specification; substituted for the original it makes the
property named for it in `PROJECT.json` fail.

### Governor

An instance is a process life (what `starttime` identifies), a PID is where it
lives. `proc` is the kernel's table; `lifecycle`, `annotated`, `decisions`,
`breach_since`, `pending_kills`, `recent_kills`, `governor_killed_pids` are the
fields of the same name; `pc`, `todo`, `shot` say how far
`record_governor_audit` has got, because processes may end and PIDs be reused
between its system calls. Actions: `TickSucceeds`, `TickFails`,
`StartActuation`, `Hold`, `Fire`, `StartEscalation`, `Escalate`, `RawKill`,
`EndActuation`, `ManualKill`, `ManualForceKill`, and the environment's
`Spawn`, `Exit`, `Elapse`. Times are ages that stop where no comparison can
tell them apart, so there is no horizon. `termed`, `terms`, `streak`,
`delivered`, `exits` are history, read by properties only.

Simplifications: `governor_killed_pids` receives escalated PIDs one by one
(the code inserts them after the batch; nothing reads it in between); the
forced kill is offered for any tracked PID, without the card that leads to it;
zombies, the audit file and steps of the wall clock are left out; which
process breaches is the environment's choice. `Tag` is the insertion into
`governor_killed_pids` that the automated and the operator's path share.

### RunStore

A run is a number. `files` and `index` are the disk (a line is an entry, a
tombstone or junk; `frag` says the file ends in half a line), `by_model`,
`by_id`, `buf` the fields of a `RunStore` in each process, `pc`, `cur`,
`todo`, `gone` the progress of `append` and its prune. `Open`, `Begin`,
`WriteRecord`, `AppendIndex`, `SelectVictims`, `EvictOne`, `EndPrune`,
`Compare`, `Close` are one system call each, with the failing variants
`WriteRecordFails`, `AppendIndexFails`, `EvictFails` and `Crash` at any point.
`acked`, `pruned`, `baseline` are history.

Simplifications: a flush lands whole, fails whole, or (under `Torn`) leaves a
part of its first line; dates and paths are determined by the run; serde
errors of well-formed values do not occur.

### Alerts

`slots` with `Idle` for an absent slot; `procs` is what the last tick saw on
each PID. `Tick` is the alert part of `Runtime::tick` (exit events, then
`observe_alerts`) with the drain the TUI loop does after it; `Acknowledge`,
`Arm`, `Disarm` are the operator. The order of the banner and its texts are
left out. The headless loop, which never drains the exit events, is not
modelled. A PID is not reused: `observe_alerts` visits only workloads of the
current snapshot, so the slot of one that exits while an alert is pending,
active or suppressed stays as it is (the banner keeps an active one until it is
acknowledged), and a later process on that PID would inherit it.

### ProbeManager

`per_pid` is the shared map, `targets`/`results` the round under way,
`probe_status` the tick loop's copy. `StartRound`, `Answer`, `EndRound` are
the steps of the task between which it holds no lock; `Tick` is reconcile and
copy under one lock. `tried` is history. The failure counter saturates at
`CounterMax`, which stands for `u8::MAX`: the runs give it 3, one more than the
debounce, so that it is reached and goes on being incremented. A poisoned lock
is left out.

### Tui

`selected` to `history_events_browse` are the fields of `App` (and of
`run_loop` for `live_detail`); `status` is the status of each row as of the
last tick, `exited` the rows the tracker keeps for one tick after the process has
gone (a waiting card outlives its process by that tick, and a kill confirmed in
it still leaves an event), `log` counts the events recorded, `alerts` says
whether any is active. One action per key (`SelectDown`, `SelectUp`, `KillOrConfirm`,
`OpenDetail`, `ToggleHistory`, `ToggleHistoryEvents`, `Reload`, `ToggleHelp`,
`AcknowledgeAlerts`, `Quit`, `EscapeCascade`), each with the routing that
`translate` does for an open overlay; `AnyTick` is a pass of the loop with
`auto_dismiss_waiting_card_if_target_exited`, `ExpireDetail` the 30 s of the
detail card. `consent` and `sent`, the signal of the last step, are history.

Simplifications: rows are of one category and rank critical, healthy or loading
(attention sorts between the first two and adds nothing); a row leaves warm-up
at a tick; a failed tick changes nothing here and is a stutter; a PID is not
reused. The activity browser is left out because `translate` binds no key to
`ToggleActivityBrowse`, the post-mortem card because `handle_open_detail`
reaches it only for a focused row without a process. The sort of the top
processes and the status footer touch nothing else.

### Telemetry

A life is what the tracker takes for one process: from the first snapshot with
the PID to the first without. `tasks` are the sample tasks spawned and not
finished, `frames` the channel, `by_pid`, `cold_load`, `trajectories`,
`completed`, `attribution`, `regressions` the fields of those names. `Tick` is
`Runtime::tick` up to the exits (tracker, trajectory samples, drain of the
channel, one task per AI process, power frames, disk I/O), `DrainExit` one pass
of the loop over `recent_exits`, in any order (the tracker lists exits in hash
order); `Answer` and `Drop` are the ends of a task, at any time, also between
two exits. `detected` is history.

Simplifications: the sources of a PID are one; of a frame only its life and the
tick it was folded in are kept; of a reading of `/proc/<pid>/io` whether it is
above the plateau rate and whether the bytes read so far amount to a model,
which slow readings can reach too; a PID that is reused between two snapshots is one
life here, as it is for the tracker; whether a process is AI is settled by the
tick's classification. The kill bookkeeping and the run store, which the same
loop drives, are in `Governor` and `RunStore`.

### Web

`tunables` is the cell behind the `RwLock`, `applied` what
`apply_pending_tunables` last copied (`state.thresholds` and
`config.governor.kill_sustain_secs`), `alert_sustain` the window inside
`state.alerts`, `file` the keys set in the config file. A POST is `Post`
(validate, read the kill window), `Swap`, `Lock` (`WRITE_MUTEX`, read and
parse), then `Save` or `SaveFails`: the points where it holds no lock, or where
the file system decides. `Tick` copies, classifies and publishes; `Connect`,
`Subscribe`, `Deliver`, `Disconnect` are `pump`; `Crash`, `Start` and `Edit`
are the life of the process and its file. `saved` is history: per key the value
last reported as persisted.

Simplifications: the VRAM, RAM and KV pairs obey one rule and are one pair; the
temporary file and the rename are one step, since only the rename is visible;
keys the web cannot write are constant; the token check precedes everything and
changes nothing; a server without a config path does not occur (the web refuses
to start on built-in defaults).

### PostMortem

`fate` is what became of each process, `klog` the age of the kernel's line
about it; `tracked` and `governor_killed_pids` are the monitor's, `verdict` the
reasons its exit drain gave; `pc`, `pipe`, `reading`, `stderr_tail`,
`interrupts` and `record` are `run_exec` and its stderr task. `Tick` is the
snapshot and the exit drain; `Signal` a kill by governor or operator; `Exec`,
`ReadLine`, `EndOfFile`, `CtrlC`, `Wait`, `Finish` are the steps of the wrapper
between which its tasks interleave; `Spawn`, `Die`, `OomKill`, `Write`, `Fork`,
`HelperEnds`, `Elapse` are the environment. A line is of a kind: one the
classifier looks for, any other text, empty (which `record_stderr_line` skips)
or not UTF-8 (which ends the reader). `blind` is history, and so are `said`, the
lines with text written so far, and the length of `said` that goes with each
line in the pipe.
`LineNames` is the substring match of the code on numbers: the digits of one
PID begin with those of the other. The monitor has neither a status nor stderr
lines to go by: it does not wait for the processes it watches, and
`Runtime::record_stderr_line` has no caller.

Simplifications: a PID is used once; the stdout pipe, which behaves like the
stderr pipe and feeds only metrics, the append to the store (`RunStore`), the
wire strings and the exit code the wrapper returns are left out; a kernel log
that cannot be read is an empty one, as in the code.

## 3. Runs

| Run | Instance | Shows |
|---|---|---|
| `governor_safe` | 2 PIDs, 2 instances, an AI program and one that is not, pidfd or starttime, one operator kill, PIDs reused only once forgotten, ticks succeed | `RateLimit`, `SigkillSafe`, `PolicyObeyed`, `SustainedOnly`, `NoSecondTerm`, `KillsAttributed`, `PendingIsTracked` |
| `governor_faults` | 1 PID reused by 2 instances, all faults, all identity captures, EPERM | `TypeOK`, `PidfdKillSafe` survive everything |
| `governor_live` | 2 PIDs, budget 1, fair | every pending kill is resolved, no killable process breaches for ever |
| `runstore_crash` | 1 process, 2 models, 3 runs, cap 1, crashes anywhere | refinement of `RunHistory`, `GhostsGoFirst`, `HardCap` |
| `runstore_faults` | monitor and wrapper, 3 runs, every fault | `EntryHasFile`, `TombstoneIsGone`, `IndexesAgree`, `LossBounded` |
| `alerts` | 2 workloads, a gated, an instant and a system alert, window of 1 in 2 units | `SustainedAlert`, `NoMissedAlert`, `AckRespected` |
| `probes` | 2 PIDs, 2 endpoints, counter up to 3, fair | `TypeOK`, `StatusEarned`, `ChipSettles` |
| `tui` | 2 workloads, archive of 2 in 4 events, fair | `Consented`, `CursorFollows`, `WaitingEnds` |
| `telemetry` | 2 PIDs, one of them AI, 3 lives, 5 ticks, rings of 2 | `SteadyMeansLoaded`, `ExitsPaired` |
| `web` | 2 clients, 3 POSTs out of 9 bodies, 1 stream, 1 crash, 2 files, failing writes, fair | `AppliedValid`, `SavedKeysStay`, `NothingMissed`, `Settles` |
| `web_undercut` | the same, without fairness | **fails**: `KillNeverUndercutsAlert` |
| `postmortem` | PIDs 1 and 12, both AI, the first under the wrapper, 3 kinds of lines, 2 of them, tail of 1, lookback of 1, fair | `OomSeen`, `RecordHearsAll`, `WrapperEnds` |

Why the bounds are enough. Two instances are what reuse of a PID needs; a
budget of one with a window of two units puts the rate limit at its edge after
one kill; grace and sustain of one unit separate "before", "at" and "after".
Three runs with a cap of one make a prune, a crash in it, and a second prune
that meets the ghost it left. A sustain window of one with one unit to spare
lets a breach start, stop and start again. Two probe PIDs let one answer wait
for the other, two endpoints let a PID return as another server. Two rows let
the cursor and the order of the rows disagree; four events with an archive of
two are a SIGTERM, a SIGKILL and two exits, so that the event under the cursor
ages out. Three lives on two PIDs are a reuse with another process beside it;
five ticks are a
load, its plateau (two ticks) or its timeout (three), an exit and a successor;
two samples and two summaries fill their rings. Ticks are bounded, so the run
may stop (`CHECK_DEADLOCK FALSE`). Three POSTs are two that overlap and one that
meets what they left; the nine bodies hold the empty one, each kind of partial
update and one violation of each rule; two files are the defaults and an
operator's longer windows. PIDs 1 and 12 let one be the beginning of the other;
a lookback of one unit has a kill inside it, at its edge and beyond it; two
lines through a tail of one overflow it, and an empty one or one that ends the
reader can be either of them; other kinds would say what these say.

Fairness. `governor_live` assumes that time passes, that the loop ticks and
finishes each pass (it is one thread that waits only in `event::poll` with a
timeout), and that the kernel ends a process it has delivered SIGKILL to. It
assumes nothing of processes that ignore SIGTERM. `probes` assumes that both
loops keep running and that a probe ends, which its 500 ms timeout gives. `tui`
assumes that the loop keeps ticking with success now and then: `event::poll`
returns at the latest when the next tick is due, whatever keys come. `web`
assumes that the loop ticks while the monitor is up, that the executor polls
ready handlers and streams, and that a write returns; nobody has to POST,
connect or restart. `postmortem` assumes that the wrapper's executor polls the
reader and the main task; no process has to end, and no tick to come.

The run that fails, `web_undercut`, states what a comment of the repository says;
`PROJECT.json` quotes it. A POST that shortens the kill window is checked against
the default alert window, and the alert machine keeps the window it was built
with: a process can be killed before its alert shows.

### Observations

Other places where the code and what is said of it part ways. The properties
below are in the modules and in no run, since the code breaks them: TLC finds
the counterexample when the property is put into the configuration named, with
the change named.

| Property | Configuration | What the code does | What is said |
|---|---|---|---|
| `AttributionExact` | `governor_safe` | the exit drain takes the governor's tag away for AI exits only (`src/runtime.rs:1386`); after an operator kill of another process it waits for the next AI process on that PID. The other direction, `KillsAttributed`, holds and is proved | `src/runtime.rs:1902` "the stale entry would mis-attribute the new process's exit as a governor kill"; 4898 "MUST `.remove()` the entry for the exited PID" |
| `SigkillSafe` | `governor_safe`, `Faults = {"FastReuse"}` | without a pidfd the starttime check and `kill(2)` are two system calls (`src/governor/executor.rs:474`) | `src/runtime.rs:2312` "SIGKILLing a recycled PID — is structurally impossible" |
| `PolicyObeyed` | the same | the SIGTERM goes to a PID number decided on earlier, without an identity check (`src/governor/executor.rs:371`) | `docs/state/PENDING.md:583` "whitelisted PIDs are structurally unreachable by the actuation loop" |
| `PendingIsTracked` | the same | the tracker knows a process by PID alone and sees no exit (`src/lifecycle/tracker.rs:39`) | `src/runtime.rs:2329` "a recycled PID later can re-enter `pending_kills` clean" |
| `SustainedOnly` | `governor_safe`, `Faults = {"TickFails"}` | `record_governor_audit` runs after a failed tick (`src/main.rs:1152`), `breach_since` keeps its start while the clock runs, and one breaching snapshot fires | `src/runtime.rs:2151` "a momentary breach [...] must never fire" |
| `NoSecondTerm` | the same | the old decisions are acted on again | |
| `NothingLost` | `runstore_faults` | a torn last line of `index.jsonl` swallows the next entry (`src/storage/run_store.rs:474`); `LossBounded` says that each tear costs one run at most | 855 "other records load normally", 857 "safe to leave in place" |
| `BaselineExcludesSelf` | `runstore_crash`, `Limit = 3` | a run that started before one already recorded is part of its own baseline (`src/runtime.rs:2766`) | 2749 "otherwise the new run would average itself into the very baseline it's being compared against" |
| `StatusEarned` | `probes`, `Faults = {"Reuse"}` | the answer of a PID's old endpoint is recorded for the new one (`src/telemetry/probe_manager.rs:260`) | 116 "PIDs whose endpoint CHANGED [...] reset the streak + status" |
| `EscCancelsKill` | `tui` | with the detail card (`src/ui/mod.rs:460`) or the event list open, Esc leaves the kill prompt armed | `src/ui/app.rs:717` "an Esc with a pending kill must always cancel the kill before being routed to any other overlay"; the comment at 742 wants the list first |
| `FreshStart` | `telemetry` | a frame of a task that outlives its process is folded into the PID's next life (`src/telemetry/dispatcher.rs:192`) | 371 "Prevents stale data leaking into a recycled PID" |
| `EachCounted` | `telemetry` | regressions found with the ring at its cap are neither counted nor archived (`src/runtime.rs:1530`) | 1526 "the `iter().skip(regs_before)` slice is exactly the events `check_regressions` added on this tick" |
| `MergedLoads` | `web` | two POSTs, each checked alone, leave a file that the loader refuses: with a kill window of 3 in force, `alert = 3`, then `kill = 2` | `src/web/settings.rs:34` "on the merged config" |
| `OomTruthful` | `postmortem` | a workload whose PID is the beginning of another's gets the other's OOM kill, whatever ended it (`src/exit_classify.rs:152`) | 22 "unless the dmesg line names this PID *exactly*" |

Without a property of their own:

* Two writers of the run store exceed the cap (`HardCap` with both writers).
* A second `k` may name another row than the first, because arming moves the
  target's row; the code means it to retarget, so no property forbids it.
* Nothing bounds the sample tasks that wait for a slow source's mutex.
* A POST also resets the thresholds it does not name to the contract's defaults
  (`resolve_proposed`; the doc of `SettingsUpdate` says "missing fields keep
  their current resolved value"), a kill window read before another POST's swap
  is written back over it, and two POSTs may swap in one order and save in the
  other. `kill_sustain_secs` has no upper bound and is written with `as i64`.
* A stderr line that is not UTF-8 ends the reader (`src/exec_wrapper.rs:160`):
  later lines are neither shown nor classified and the child meets a closed
  pipe; `RecordHearsAll` fails without its condition on `garbled`. A CUDA OOM
  line in the tail makes a run that recovered and returned 0 "out of memory". A
  helper that keeps the pipe keeps the wrapper from returning, and a Ctrl-C that
  comes while it waits goes to a PID already reaped. An OOM kill of a process
  the monitor has signalled is recorded as the governor's. A wrapped child that
  the monitor also watches is recorded twice, each time with its own reason.
* Read, not modelled: samplers with an endpoint cache per
  PID (`vllm`, `llama_cpp`, `ollama`, `agent_claude`, `embeddings`) do not
  override `on_forget`; in headless mode nothing drains
  `pending_exit_alerts`, which every tick observes again.

## 4. Proofs

A theorem holds for every value of the constants that satisfies the named
`ASSUME`s of its module: any number of PIDs, instances, clients, models, any
window, cap or budget. Constants that bound the runs (`MaxInst`, `MaxRuns`, ...)
are arbitrary numbers in the proofs. Each invariant below was also model-checked
on the instance of the run that checks the property.

Every safety property the passing runs check is a theorem, except those listed
under "Only model-checked".

### Governor

Under every combination of faults:

* `TypeCorrect`: `Spec => []TypeOK`.
* `RateLimitHolds`. `RateLimit` counts deliveries, the code counts its own list,
  which it trims only when it looks; `WindowInv` relates the two. `Aligned`: the
  automated deliveries still inside the window are embedded, in order, in
  `recent_kills`, at ages no smaller; `Counted`: their number is within the
  budget. A delivery is preceded by the trim and the test; time only ages both;
  operator kills touch neither count.
* `PidfdKillSafeHolds`. `KillInv` carries an identity from capture to use: a
  live instance has one PID (`OneHome`), the pidfd or starttime of a pending
  entry, and of the kill in flight, is of an instance that lives at that PID or
  nowhere and was SIGTERMed as long ago as the entry says (`IdOfEntry`,
  `IdOfShot`), and a kill the escalation sends has an expired entry
  (`Escalating`).

The others need what the environment must not do. A theorem names it, and none
of the hypotheses can be left out: with that one fault in `governor_faults`
(and `Denied = {}` where it matters) TLC finds the property violated.

| Theorem | Faults it admits | Excluded |
|---|---|---|
| `PolicyObeyedHolds` | failed ticks, missed processes | reuse under the tracker |
| `SustainedOnlyHolds` | missed processes | reuse under the tracker, failed ticks |
| `SigkillSafeHolds`, `PendingIsTrackedHolds` | failed ticks | reuse under the tracker, missed processes |
| `KillsAttributedHolds` | failed ticks, reuse under the tracker, AI and other programs side by side | missed processes |
| `NoSecondTermHolds` | reuse under the tracker | failed ticks, missed processes |

The argument. `Steps` sorts the steps: a spawn, a tick, a unit of time, a
capture, a delivered SIGTERM, or a `Minor` step, which only gets on with a list.
`SameLife`: a row whose PID is in use is of the process that lives there.
`CandidateInv`: what the actuator aims at is tracked, running and of a program
the policy kills, so that `SameLife` carries the verdict from the row to the
process hit. `SustainInv`: a breach clock runs for the instance of its row and,
while the actuator is at work, stands for two snapshots if it has run at all; it
is the failed tick that would start the actuator on a clock that ran without a
snapshot. `TrackInv`: a row is marked exited only when its process has gone, a
pending kill is of a running row and the kill in flight of a pending entry; with
`IdOfEntry` this covers the two-step SIGKILL by starttime. `AttributionInv`: the
PID of an instance that has had a signal is tagged while the instance lives, and
while a running row shows it, so that the tick that notices its exit finds the
tag; an instance that left a row or an exit behind lives nowhere else. Nothing
is said of tags without such an instance: they are the finding. `OnceInv`: what has had a SIGTERM is pending, what is aimed at is not.

### RunStore

For any number of processes on one store, with crashes, torn lines, failed
writes and failed deletes:

* `EntryHasFileHolds`, `TombstoneIsGoneHolds` and `IndexesAgreeHolds` are parts
  of one invariant, `StoreInv`: a run belongs to the one append that numbered it
  (`CurInv`), every line, in the file or still in somebody's buffer, names a run
  whose record has been dealt with (`NamedInv`), each run has one entry at most,
  in the file or in one buffer (`OnceInv`), the two maps of a process agree
  (`MemInv`), every entry has a whole record unless it was pruned and every
  tombstone none (`DiskInv`). Buffered lines are needed because a later append
  flushes what an earlier one failed to.
* `LossBoundedHolds`. `LossInv` charges every run that has got past the index
  and has no entry to a junk line: the two grow together, in the append whose
  entry is glued to a fragment. By `StoreInv` nothing else is lost.

For one process at a time (`OneProcess`: the monitor without a wrapper beside
it, or the reverse), since each process prunes by its own memory:

* `GhostsGoFirstHolds`, with every fault. `GoneInv`: a pruned record never comes
  back, and what is indexed was recorded. `PruneInv`: what is left to evict is
  in the order of `prune_if_needed`, that is, whatever does not load is ahead of
  every record that does. It rests on `Ranks`: in a finite set with a strict
  total order the ranks are the numbers from 0, each once, and follow the order.
* `HardCapHolds`, with crashes and torn lines. `CountInv`: the model is over the
  limit by exactly what is left to evict; `KnownInv`: what the index names and
  loads is in memory.
* `StoreImplementsRunHistory`, with crashes: the refinement of `RunHistory`.
  `WrittenInv` adds that what is in memory is in the file and that the run whose
  entry comes next has its record. `AppendIndex` maps to `Record`, the
  `EvictOne` of a record that loads to `Evict`, every other step, `Crash` and
  the tombstones included, to a stutter.

TLC shows that no hypothesis can be left out: with two processes each of the
three fails, `HardCap` also with failed writes or failed deletes alone, and the
refinement with those or with torn lines.

A filter (`remove_from_index`, the loader) is written as the elements at the
kept places, in order (`Kept`), since `SelectSeq` is recursive and cannot be
reasoned about here.

### Alerts

`TypeCorrect`, `NoMissedAlertHolds`, `AckRespectedHolds` and the action property
`SustainedAlertHolds`. `AlertInv` adds to the two invariants that a running
window is not older than the workload's breach, that a fresh PID has no slots,
and that what is acknowledged is held back in its slot. The proof showed that a
sustain window of zero still needs a second tick, because `observe` goes from
Idle to Pending before it looks at the window; `NoMissedAlert` says so.

### ProbeManager

`TypeCorrect` with and without reuse, for every maximum of the failure counter
that is at least the debounce; `StatusEarnedHolds` without reuse: the invariant
follows a result from the answer through the round's list to the map and the
tick loop's copy, each time with the endpoint it was tried on.

### Telemetry

`TypeCorrect`, `SteadyMeansLoadedHolds` (the two per-PID maps are forgotten
together, and nothing is folded in before its tick) and `ExitsPairedHolds` (the
rings are trimmed to the same length at every pass of the drain, and a
trajectory holds samples of one life, in order).

### Web

`TypeCorrect`, `AppliedValidHolds` (a request past its check carries a valid
set, and the kill window it read was valid with the thresholds it resolved),
`SavedKeysStayHolds` (the holder of `WRITE_MUTEX` has read the file as it is)
and `NothingMissedHolds` (a subscribed stream has seen no version beyond the one
it shows, or is told of it).

### Tui

The action properties `ConsentedHolds` and `CursorFollowsHolds`. `ConsentInv`
ties the card to the row that was in focus at the last `k`; the cursor is found
by the key of its event, which a reload keeps.

### PostMortem

`TypeCorrect`, `OomSeenHolds` (a kill not yet seen is younger
than the last tick, while no tick was late or blind) and `RecordHearsAllHolds`
(what the reader has kept and what is still in the pipe are the last lines
written).

### Only model-checked

* `PendingResolved`, `SustainedBreachEnds`, `ChipSettles`, `WaitingEnds`,
  `Settles`, `WrapperEnds`: liveness under fairness is out of the prover's
  reach.
* `KillNeverUndercutsAlert` fails and is a finding; the properties listed under
  "Observations" fail there, and where one of them is also a theorem, the theorem
  has the hypothesis that excludes the case.

## 5. Plan

1. Done: the modules, their runs, and the theorems above.
2. Next: what the prune keeps of the limit with several processes, and
   `recent` (the baseline is the newest runs by spawn time), from `Ranks`.
3. `Tui` composed with the operator's actions of `Governor`: a PID reused
   behind an open prompt.

## 6. Not modelled

Parsing of `/proc`, NVML, Prometheus text, TOML and cmdlines; the classifier's
string heuristics; floating-point statistics; rendering and the wire layout; the web
front end; the HTTP samplers; fingerprints; the CLI subcommands; wall-clock
steps; panics and poisoned locks. The audit and summary logs are written line by
line and read back by nobody in the monitor; a crash between a signal and its
line loses the line, and no state of the monitor could tell.

The components are listed in `PROJECT.json` with the reason for each. About two
thirds of the lines of the Rust files are tests and comments; of the rest the
larger part is the layout, parsing and text named above, which holds no state
across steps. The modules cover the control of what does.
