-------------------------------- MODULE Tui ---------------------------------
(***************************************************************************)
(* The terminal front end: the row cursor, the kill prompt with its two    *)
(* stages, the overlays, the Esc cascade, and what the tick does to them.  *)
(*                                                                         *)
(* A PID is never reused here (see Governor for that).  Events are         *)
(* numbered in the order they happen; a number stands for the composite    *)
(* key of an event.  The activity browser and the post-mortem card are     *)
(* left out: no key opens the first, and the second opens only on a focused *)
(* row without a process, which the list does not show.                    *)
(***************************************************************************)
EXTENDS Integers, Sequences, FiniteSets, SequencesExt

CONSTANTS
  Pids,           \* positive numbers
  ArchiveMax,     \* history_event_archive_cap
  MaxEvents       \* bound: events recorded

ASSUME TuiAssumption == /\ Pids \subseteq Nat \ {0} /\ IsFiniteSet(Pids)
                        /\ ArchiveMax \in Nat \ {0}
                        /\ MaxEvents \in Nat

VARIABLES
  life,                   \* the processes: "new", "alive", "dead"
  status,                 \* status of each workload the last tick saw
  exited,                 \* rows of last_lifecycle.processes that have exited
  log,                    \* number of events recorded so far
  alerts,                 \* is any alert active
  selected, show_help, quit_requested, kill_confirm, live_detail, history,
  history_events_browse,
  consent,                \* history: what the operator has asked for
  sent                    \* history: the signal the last step delivered

procVars == <<life, status, exited, log, alerts>>
appVars  == <<selected, show_help, quit_requested, kill_confirm, live_detail,
              history, history_events_browse>>
vars     == <<procVars, appVars, consent, sent>>

None     == 0
NoCard   == [pid |-> None, stage |-> "Closed"]
Closed   == [open |-> FALSE, events |-> <<>>, selected_key |-> None]
NoSignal == [sig |-> "none", pid |-> None]
Nothing  == [pid |-> None, enters |-> 0]

Statuses == {"Critical", "Healthy", "Loading"}

\* No signal is sent and the operator's wish stands.
Silent == sent' = NoSignal /\ UNCHANGED consent

----------------------------------------------------------------------------
(* What the panels show                                                    *)

\* compute_workload_status: the prompt's target is critical, unless loading.
StatusFor(p) == IF kill_confirm.pid = p /\ status[p] # "Loading" THEN "Critical"
                ELSE status[p]

Priority(s) == CASE s = "Critical" -> 0 [] s = "Healthy" -> 2 [] s = "Loading" -> 3

\* ordered_rows, one category: by status, then by PID.
Rows ==
  LET before(p, q) == \/ Priority(StatusFor(p)) < Priority(StatusFor(q))
                      \/ Priority(StatusFor(p)) = Priority(StatusFor(q)) /\ p < q
  IN  SetToSortSeq(DOMAIN status, before)

\* selected_pid; the index is not clamped when rows go away.
Focused == IF selected < Len(Rows) THEN Rows[selected + 1] ELSE None

\* The event archive, newest first.
Archive == [i \in 1 .. (IF log < ArchiveMax THEN log ELSE ArchiveMax) |-> log + 1 - i]

\* current_events_browse_index
CursorIndex(b) == IF b.selected_key \in ToSet(b.events)
                  THEN CHOOSE i \in DOMAIN b.events : b.events[i] = b.selected_key
                  ELSE 1

----------------------------------------------------------------------------
(* Keys.  translate first gives the open list overlay its keys.            *)

Captured == history \/ history_events_browse.open

\* Mutant: the prompt survives a move of the cursor.
SelectKeeps(i) == selected' = i /\ UNCHANGED kill_confirm

\* A move of the cursor dismisses the prompt.
Select(i) == selected' = i /\ kill_confirm' = NoCard

SelectNext(n) == IF selected + 1 < n - 1 THEN selected + 1 ELSE n - 1

\* history_events_browse_next and _prev
MoveCursor(d) ==
  LET b == history_events_browse
      n == Len(b.events)
      i == CursorIndex(b) + d
      j == IF i < 1 THEN 1 ELSE IF i > n THEN n ELSE i
  IN  history_events_browse' =
        [b EXCEPT !.selected_key = IF n = 0 THEN None ELSE b.events[j]]

\* `j`
SelectDown ==
  /\ ~quit_requested
  /\ ~history
  /\ \/ /\ history_events_browse.open
        /\ MoveCursor(1)
        /\ UNCHANGED <<selected, kill_confirm, consent>>
     \/ /\ ~history_events_browse.open
        /\ IF Rows = <<>>
           THEN selected' = 0 /\ UNCHANGED <<kill_confirm, consent>>
           ELSE Select(SelectNext(Len(Rows))) /\ consent' = Nothing
        /\ UNCHANGED history_events_browse
  /\ sent' = NoSignal
  /\ UNCHANGED <<procVars, show_help, quit_requested, live_detail, history>>

\* `K`
SelectUp ==
  /\ ~quit_requested
  /\ ~history
  /\ \/ /\ history_events_browse.open
        /\ MoveCursor(-1)
        /\ UNCHANGED <<selected, kill_confirm, consent>>
     \/ /\ ~history_events_browse.open
        /\ Select(IF selected > 0 THEN selected - 1 ELSE selected)
        /\ consent' = Nothing
        /\ UNCHANGED history_events_browse
  /\ sent' = NoSignal
  /\ UNCHANGED <<procVars, show_help, quit_requested, live_detail, history>>

\* `k`
KillOrConfirm ==
  /\ ~quit_requested
  /\ ~Captured
  /\ Focused # None
  /\ kill_confirm' = [pid |-> Focused, stage |-> "Confirm"]
  /\ consent' = [pid |-> Focused, enters |-> 0]
  /\ UNCHANGED <<procVars, selected, show_help, quit_requested, live_detail, history,
                 history_events_browse>>
  /\ sent' = NoSignal

\* last_lifecycle.processes: an exit keeps its row for one more tick.
Lifecycle == DOMAIN status \cup exited

\* Every attempt is an event; the bound leaves room for the exits.
Recorded ==
  /\ log + Cardinality({p \in Pids : life[p] # "dead" \/ p \in DOMAIN status}) < MaxEvents
  /\ log' = log + 1

\* manual_kill and manual_force_kill reach only a process that is there; the
\* kernel may refuse even then (EPERM).
Reached(p) == IF p \in DOMAIN status /\ life[p] = "alive" THEN BOOLEAN ELSE {FALSE}

\* confirm_kill_from_card
ConfirmKill ==
  /\ kill_confirm.stage = "Confirm"
  /\ LET p == kill_confirm.pid IN
     /\ IF p \in Lifecycle THEN Recorded ELSE UNCHANGED log
     /\ \/ /\ TRUE \in Reached(p)
           /\ kill_confirm' = [pid |-> p, stage |-> "Waiting"]
           /\ sent' = [sig |-> "TERM", pid |-> p]
           /\ consent' = [consent EXCEPT !.enters = 1]
        \/ /\ FALSE \in Reached(p)
           /\ kill_confirm' = NoCard
           /\ Silent
  /\ UNCHANGED life

\* force_kill_from_card; SIGKILL ends the process
ForceKill ==
  /\ kill_confirm.stage = "Waiting"
  /\ LET p == kill_confirm.pid IN
     /\ kill_confirm' = NoCard
     /\ Recorded
     /\ \/ /\ TRUE \in Reached(p)
           /\ sent' = [sig |-> "KILL", pid |-> p]
           /\ life' = [life EXCEPT ![p] = "dead"]
        \/ /\ FALSE \in Reached(p)
           /\ sent' = NoSignal
           /\ UNCHANGED life
  /\ UNCHANGED consent

\* handle_open_detail
ToggleDetail ==
  /\ kill_confirm = NoCard
  /\ \/ live_detail # None /\ live_detail' = None
     \/ live_detail = None /\ Focused # None /\ live_detail' = Focused
  /\ UNCHANGED <<life, log, kill_confirm>>
  /\ Silent

\* Enter
OpenDetail ==
  /\ ~quit_requested
  /\ ~Captured
  /\ \/ (ConfirmKill \/ ForceKill) /\ UNCHANGED live_detail
     \/ ToggleDetail
  /\ UNCHANGED <<status, exited, alerts, selected, show_help, quit_requested, history,
                 history_events_browse>>

\* `h`, and `q` over the open overlay
ToggleHistory ==
  /\ ~quit_requested
  /\ \/ history /\ history' = FALSE
     \/ ~Captured /\ Focused # None /\ history' = TRUE
  /\ UNCHANGED <<procVars, selected, show_help, quit_requested, kill_confirm, live_detail,
                 history_events_browse>>
  /\ Silent

\* `H`, and `q` over the open overlay; opening takes a snapshot
ToggleHistoryEvents ==
  /\ ~quit_requested
  /\ ~history
  /\ history_events_browse' =
       IF history_events_browse.open THEN Closed
       ELSE [open |-> TRUE, events |-> Archive, selected_key |-> None]
  /\ UNCHANGED <<procVars, selected, show_help, quit_requested, kill_confirm, live_detail,
                 history>>
  /\ Silent

\* Mutant: a reload forgets the cursor.
ReloadedFresh(b) == [b EXCEPT !.events = Archive, !.selected_key = None]

\* reload_history_events_browse
Reloaded(b) == [b EXCEPT !.events = Archive]

\* `r`
Reload ==
  /\ ~quit_requested
  /\ history_events_browse.open
  /\ history_events_browse' = Reloaded(history_events_browse)
  /\ UNCHANGED <<procVars, selected, show_help, quit_requested, kill_confirm, live_detail,
                 history>>
  /\ Silent

\* `?`
ToggleHelp ==
  /\ ~quit_requested
  /\ ~Captured
  /\ show_help' = ~show_help
  /\ UNCHANGED <<procVars, selected, quit_requested, kill_confirm, live_detail, history,
                 history_events_browse>>
  /\ Silent

\* `a`
AcknowledgeAlerts ==
  /\ ~quit_requested
  /\ ~Captured
  /\ alerts' = FALSE
  /\ UNCHANGED <<life, status, exited, log, appVars>>
  /\ Silent

\* `q` and Ctrl-C
Quit ==
  /\ ~quit_requested
  /\ quit_requested' = TRUE
  /\ UNCHANGED <<procVars, selected, show_help, kill_confirm, live_detail, history,
                 history_events_browse>>
  /\ Silent

\* What the cascade can take away, in the order it does.
Cascade == <<"detail", "events", "card", "history", "help", "alerts">>

Shown(l) == CASE l = "detail"  -> live_detail # None
              [] l = "events"  -> history_events_browse.open
              [] l = "card"    -> kill_confirm # NoCard
              [] l = "history" -> history
              [] l = "help"    -> show_help
              [] l = "alerts"  -> alerts

\* Those that are there now.
Layers == {i \in 1 .. 6 : Shown(Cascade[i])}

\* The front of the cascade; with nothing left Esc quits.
Peels == IF Layers = {} THEN "quit" ELSE Cascade[Min(Layers)]

\* EscapeCascade: the detail card here, the rest in handle_escape
EscapeCascade ==
  /\ ~quit_requested
  /\ live_detail' = IF Peels = "detail" THEN None ELSE live_detail
  /\ history_events_browse' = IF Peels = "events" THEN Closed ELSE history_events_browse
  /\ kill_confirm' = IF Peels = "card" THEN NoCard ELSE kill_confirm
  /\ history' = (history /\ Peels # "history")
  /\ show_help' = (show_help /\ Peels # "help")
  /\ alerts' = (alerts /\ Peels # "alerts")
  /\ quit_requested' = (Peels = "quit")
  /\ UNCHANGED <<life, status, exited, log, selected>>
  /\ Silent

----------------------------------------------------------------------------
(* The loop                                                                *)

\* Mutant: a waiting card stays up.
AutoDismissNever(rows) == kill_confirm

\* auto_dismiss_waiting_card_if_target_exited
AutoDismiss(rows) ==
  IF kill_confirm.stage = "Waiting" /\ kill_confirm.pid \notin rows
  THEN NoCard ELSE kill_confirm

\* A tick: the workloads of the snapshot with their statuses, an event for
\* each exit and perhaps one for a regression or a kill of the governor's own,
\* the alerts of the moment.
Tick(st, more, al) ==
  /\ ~quit_requested
  /\ exited' = DOMAIN status \ DOMAIN st
  /\ log' = log + Cardinality(exited') + more
  /\ more = 1 => log + 1 + Cardinality({p \in Pids : life[p] # "dead"
                                                        \/ p \in DOMAIN status}) <= MaxEvents
  /\ status' = st
  /\ alerts' = al
  /\ kill_confirm' = AutoDismiss(Lifecycle')
  /\ UNCHANGED <<life, selected, show_help, quit_requested, live_detail, history,
                 history_events_browse>>
  /\ Silent

AnyTick ==
  LET living == {p \in Pids : life[p] = "alive"}
      warm   == {p \in DOMAIN status : status[p] # "Loading"}
  IN  \E st \in [living -> Statuses], more \in {0, 1}, al \in BOOLEAN :
        /\ \A p \in living \cap warm : st[p] # "Loading"
        /\ Tick(st, more, al)

\* The detail card closes by itself.
ExpireDetail ==
  /\ ~quit_requested
  /\ live_detail # None
  /\ live_detail' = None
  /\ UNCHANGED <<procVars, selected, show_help, quit_requested, kill_confirm, history,
                 history_events_browse>>
  /\ Silent

Spawn(p) ==
  /\ ~quit_requested
  /\ life[p] = "new"
  /\ life' = [life EXCEPT ![p] = "alive"]
  /\ UNCHANGED <<status, exited, log, alerts, appVars>>
  /\ Silent

Exit(p) ==
  /\ ~quit_requested
  /\ life[p] = "alive"
  /\ life' = [life EXCEPT ![p] = "dead"]
  /\ UNCHANGED <<status, exited, log, alerts, appVars>>
  /\ Silent

----------------------------------------------------------------------------
Init ==
  /\ life \in [Pids -> {"new", "alive"}]
  /\ status = <<>> /\ exited = {}
  /\ log = 0 /\ alerts = FALSE
  /\ selected = 0 /\ show_help = FALSE /\ quit_requested = FALSE
  /\ kill_confirm = NoCard /\ live_detail = None /\ history = FALSE
  /\ history_events_browse = Closed
  /\ consent = Nothing /\ sent = NoSignal

Key ==
  \/ EscapeCascade \/ Quit
  \/ SelectDown \/ SelectUp \/ KillOrConfirm \/ OpenDetail
  \/ ToggleHistory \/ ToggleHistoryEvents \/ Reload \/ ToggleHelp
  \/ AcknowledgeAlerts

Next ==
  \/ Key
  \/ AnyTick
  \/ ExpireDetail
  \/ \E p \in Pids : Spawn(p) \/ Exit(p)

Spec == Init /\ [][Next]_vars

\* The loop ticks as long as it runs: event::poll returns at the latest when
\* the next tick is due.
FairSpec == Spec /\ WF_vars(AnyTick)

----------------------------------------------------------------------------
(* Properties                                                              *)

\* Every signal answers keys of its own: SIGTERM goes to the row that was in
\* focus when `k` was last pressed, with the cursor not moved since, and
\* SIGKILL to the one that Enter has just sent a SIGTERM.
Consented ==
  [][sent' # NoSignal =>
       /\ sent'.pid = consent.pid
       /\ (sent'.sig = "KILL") <=> (consent.enters = 1)]_vars

\* "An Esc with a pending kill must always cancel the kill before being routed
\* to any other overlay" (App::handle_escape). The code breaks it (README.md, Observations).
EscCancelsKill ==
  [][EscapeCascade /\ kill_confirm # NoCard => kill_confirm' = NoCard]_vars

\* Over the frozen list, once the operator has moved the cursor, it stays on
\* the same event until moved again: through ticks, and through a reload
\* unless the event has aged out.
CursorFollows ==
  [][LET key == history_events_browse.selected_key
         kept == /\ history_events_browse.open /\ history_events_browse'.open
                 /\ key \in ToSet(history_events_browse'.events)
                 /\ ~SelectDown /\ ~SelectUp
     IN  kept => history_events_browse'.events[CursorIndex(history_events_browse')] = key]_vars

\* A waiting card whose process has exited goes away without a key.
WaitingEnds ==
  \A p \in Pids :
    (kill_confirm = [pid |-> p, stage |-> "Waiting"] /\ life[p] = "dead")
      ~> (quit_requested \/ kill_confirm # [pid |-> p, stage |-> "Waiting"])
=============================================================================
