------------------------------ MODULE TuiProofs ------------------------------
(***************************************************************************)
(* Machine-checked results about Tui, for any number of workloads: a       *)
(* signal answers the keys that asked for it, and the cursor of the event  *)
(* list stays on its event.                                                *)
(***************************************************************************)
EXTENDS Tui, TLAPS

----------------------------------------------------------------------------
(* Consent                                                                 *)

\* The prompt speaks of what the operator asked for: it waits for the first
\* Enter, or for the second after the first has been answered with SIGTERM.
ConsentInv ==
  /\ kill_confirm.stage = "Confirm" => consent = [pid |-> kill_confirm.pid, enters |-> 0]
  /\ kill_confirm.stage = "Waiting" => consent = [pid |-> kill_confirm.pid, enters |-> 1]

LEMMA NextConsent == ConsentInv /\ [Next]_vars => ConsentInv'
<1> SUFFICES ASSUME ConsentInv, [Next]_vars PROVE ConsentInv'
  OBVIOUS
<1>1. CASE kill_confirm' = kill_confirm /\ consent' = consent
  BY <1>1 DEF ConsentInv
<1>2. CASE kill_confirm' = NoCard
  BY <1>2 DEF ConsentInv, NoCard
<1>3. CASE SelectDown \/ SelectUp
  BY <1>1, <1>2, <1>3 DEF SelectDown, SelectUp, Select
<1>4. CASE KillOrConfirm
  BY <1>4 DEF KillOrConfirm, ConsentInv
<1>5. CASE OpenDetail
  <2>1. CASE ConfirmKill
    <3>1. CASE kill_confirm' = [pid |-> kill_confirm.pid, stage |-> "Waiting"]
               /\ consent' = [consent EXCEPT !.enters = 1]
      <4>1. consent = [pid |-> kill_confirm.pid, enters |-> 0]
        BY <2>1 DEF ConfirmKill, ConsentInv
      <4>2. QED BY <3>1, <4>1 DEF ConsentInv
    <3>2. QED BY <1>2, <2>1, <3>1 DEF ConfirmKill
  <2>2. CASE ForceKill
    BY <1>2, <2>2 DEF ForceKill
  <2>3. CASE ToggleDetail
    BY <1>1, <2>3 DEF ToggleDetail, Silent
  <2>4. QED BY <1>5, <2>1, <2>2, <2>3 DEF OpenDetail
<1>6. CASE EscapeCascade
  BY <1>1, <1>2, <1>6 DEF EscapeCascade, Silent
<1>7. CASE AnyTick
  BY <1>1, <1>2, <1>7 DEF AnyTick, Tick, AutoDismiss, Silent
<1>8. CASE UNCHANGED vars
  BY <1>1, <1>8 DEF vars, appVars, Silent
<1>9. QED
  BY <1>1, <1>3, <1>4, <1>5, <1>6, <1>7, <1>8
  DEF Next, Key, ToggleHistory, ToggleHistoryEvents, Reload, ToggleHelp, AcknowledgeAlerts, Quit,
      ExpireDetail, Spawn, Exit, appVars, Silent

\* A signal is only ever sent by an Enter on the prompt, to its target.
LEMMA SentByEnter ==
  ASSUME Next, sent' # NoSignal
  PROVE  \/ kill_confirm.stage = "Confirm" /\ sent' = [sig |-> "TERM", pid |-> kill_confirm.pid]
         \/ kill_confirm.stage = "Waiting" /\ sent' = [sig |-> "KILL", pid |-> kill_confirm.pid]
<1>1. ConfirmKill \/ ForceKill
  BY DEF Next, Key, SelectDown, SelectUp, KillOrConfirm, OpenDetail, ToggleDetail, ToggleHistory,
         ToggleHistoryEvents, Reload, ToggleHelp, AcknowledgeAlerts, Quit, EscapeCascade, AnyTick,
         Tick, ExpireDetail, Spawn, Exit, Silent
<1>2. QED BY <1>1 DEF ConfirmKill, ForceKill, Silent

\* SIGTERM goes to the row in focus at the last `k`, SIGKILL to the one that
\* Enter has just sent SIGTERM (confirm_kill_from_card, force_kill_from_card),
\* whatever exits, ticks, overlays and Esc come in between.
THEOREM ConsentedHolds == Spec => Consented
<1>1. Init => ConsentInv
  BY DEF Init, ConsentInv, NoCard
<1>2. ConsentInv /\ [Next]_vars =>
        [sent' # NoSignal => /\ sent'.pid = consent.pid
                             /\ (sent'.sig = "KILL") <=> (consent.enters = 1)]_vars
  BY SentByEnter DEF ConsentInv
<1>3. QED BY <1>1, <1>2, NextConsent, PTL DEF Spec, Consented

----------------------------------------------------------------------------
(* The cursor of the event list                                            *)

\* Without a move, an overlay that stays open keeps the key under the cursor.
LEMMA KeyKept ==
  ASSUME [Next]_vars, ~SelectDown, ~SelectUp,
         history_events_browse.open, history_events_browse'.open
  PROVE  history_events_browse'.selected_key = history_events_browse.selected_key
<1>1. Closed.open = FALSE
  BY DEF Closed
<1>2. CASE Reload
  BY <1>2 DEF Reload, Reloaded
<1>3. CASE ToggleHistoryEvents
  BY <1>1, <1>3 DEF ToggleHistoryEvents
<1>4. CASE EscapeCascade
  BY <1>1, <1>4 DEF EscapeCascade
<1>5. QED
  BY <1>2, <1>3, <1>4
  DEF Next, Key, KillOrConfirm, OpenDetail, ToggleHistory, ToggleHelp, AcknowledgeAlerts, Quit,
      AnyTick, Tick, ExpireDetail, Spawn, Exit, vars, appVars

\* The event that the operator moved to stays the current one through ticks
\* and reloads for as long as the list holds it
\* (current_events_browse_index, reload_history_events_browse).
THEOREM CursorFollowsHolds == Spec => CursorFollows
<1>1. ASSUME NEW b, NEW key, b.selected_key = key, key \in ToSet(b.events)
      PROVE  b.events[CursorIndex(b)] = key
  BY <1>1 DEF CursorIndex, ToSet
<1> DEFINE kept == /\ history_events_browse.open /\ history_events_browse'.open
                   /\ history_events_browse.selected_key \in ToSet(history_events_browse'.events)
                   /\ ~SelectDown /\ ~SelectUp
           same == history_events_browse'.events[CursorIndex(history_events_browse')]
                     = history_events_browse.selected_key
<1>2. ASSUME [Next]_vars, kept PROVE same
  BY <1>1, <1>2, KeyKept
<1>3. [Next]_vars => [kept => same]_vars
  BY <1>2
<1>4. QED BY <1>3, PTL DEF Spec, CursorFollows
=============================================================================
