----------------------------- MODULE WebProofs ------------------------------
(***************************************************************************)
(* Machine-checked results about Web, for any number of clients and        *)
(* streams, any request bodies and any files: the settings in force are    *)
(* always one validated set, a key reported as persisted stays in the file *)
(* and a stream that waits is up to date.                                  *)
(***************************************************************************)
EXTENDS Web, TLAPS

----------------------------------------------------------------------------
(* The inductive invariant                                                 *)

Partial  == UNION {[D -> Nat] : D \in SUBSET Keys}
Full     == [Keys -> Nat]
Requests == [pc : {"idle", "checked", "swapped", "locked"},
             body : Partial, new : Full, doc : Partial]
Streams  == [pc : {"closed", "greeted", "open"}, changed : BOOLEAN, shown : Partial]

\* The state is well formed.
TypeOK ==
  /\ file \in Partial /\ saved \in Partial
  /\ up \in BOOLEAN
  /\ tunables \in Full /\ applied \in Full /\ alert_sustain \in Nat
  /\ req \in [Clients -> Requests]
  /\ write_mutex \in Clients \cup {NoOne}
  /\ frame \in Partial /\ published \in BOOLEAN
  /\ sub \in [Subscribers -> Streams]
  /\ posts \in Nat /\ crashes \in Nat

Valid(t) == Ordered(t) /\ Sustained(t)

\* What a request carries past its check has passed it.
CheckedIsValid == \A c \in Clients : req[c].pc = "checked" => Valid(req[c].new)

\* The mutex is held by the one request that patches the file, whose copy is
\* what the file still holds.
HolderIsCurrent ==
  \A c \in Clients : req[c].pc = "locked" => write_mutex = c /\ req[c].doc = file

\* Nobody is served while the monitor is down.
DownIsQuiet ==
  ~up => /\ \A c \in Clients : req[c].pc = "idle"
         /\ \A s \in Subscribers : sub[s].pc = "closed"

\* A greeted client has the snapshot in the channel, unless one was published,
\* which the subscription to come will count as unseen.
GreetedIsCurrent ==
  \A s \in Subscribers : sub[s].pc = "greeted" /\ ~published => sub[s].shown = frame

SettingsInv == CheckedIsValid /\ AppliedValid
FileInv     == HolderIsCurrent /\ DownIsQuiet /\ SavedKeysStay
StreamInv   == GreetedIsCurrent /\ DownIsQuiet /\ NothingMissed

----------------------------------------------------------------------------
(* Lemmas about the values                                                 *)

USE DEF Full

\* The empty section, the idle request and the closed stream are of their types.
LEMMA ValuesType == Empty \in Partial /\ Idle \in Requests /\ Closed \in Streams
<1>1. Empty \in [{} -> Nat] /\ {} \in SUBSET Keys
  BY DEF Empty
<1>2. Empty \in Partial
  BY <1>1 DEF Partial
<1>3. QED BY <1>2, WebAssumption DEF Idle, Closed, Requests, Streams

\* A body or a file is a partial assignment of the keys.
LEMMA InputsType == Bodies \subseteq Partial /\ Files \subseteq Partial
  BY WebAssumption DEF Partial, IsPartial

\* A patched section is a section; a patched full set of settings is full.
LEMMA OverType ==
  ASSUME NEW patch \in Partial
  PROVE  /\ \A base \in Partial : Over(base, patch) \in Partial
         /\ \A base \in Full : Over(base, patch) \in Full
<1>1. PICK P \in SUBSET Keys : patch \in [P -> Nat]
  BY DEF Partial
<1>2. ASSUME NEW base \in Partial PROVE Over(base, patch) \in Partial
  <2>1. PICK B \in SUBSET Keys : base \in [B -> Nat]
    BY DEF Partial
  <2>2. Over(base, patch) \in [B \cup P -> Nat] /\ B \cup P \in SUBSET Keys
    BY <1>1, <2>1 DEF Over
  <2>3. QED BY <2>2 DEF Partial
<1>3. ASSUME NEW base \in Full PROVE Over(base, patch) \in Full
  BY <1>1, <1>3 DEF Over
<1>4. QED BY <1>2, <1>3

\* What a section means is a full set of settings.
LEMMA ResolveType == ASSUME NEW f \in Partial PROVE Resolve(f) \in Full
  BY OverType, WebAssumption DEF Resolve

\* What a body asks for is a full set of settings.
LEMMA ProposedType == ASSUME TypeOK, NEW body \in Partial PROVE Proposed(body) \in Full
<1> DEFINE kill == [k \in {"kill"} \ DOMAIN body |-> tunables["kill"]]
<1>1. kill \in [{"kill"} \ DOMAIN body -> Nat] /\ {"kill"} \ DOMAIN body \in SUBSET Keys
  BY DEF TypeOK, Keys
<1>2. kill \in Partial
  BY <1>1 DEF Partial
<1>3. QED BY <1>2, OverType, ResolveType DEF Proposed

\* The thresholds among the settings are a section of their own.
LEMMA ThresholdsType == ASSUME NEW t \in Full PROVE ThresholdsOf(t) \in Partial
<1>1. ThresholdsOf(t) \in [ThresholdKeys -> Nat] /\ ThresholdKeys \in SUBSET Keys
  BY DEF ThresholdsOf, Keys
<1>2. QED BY <1>1 DEF Partial

----------------------------------------------------------------------------
(* Type correctness                                                        *)

USE DEF vars, fileVars, runVars, reqVars, webVars

\* The initial state is well formed.
LEMMA InitType == ASSUME Init PROVE TypeOK
<1>1. Defaults["alert"] \in Nat
  BY WebAssumption DEF Keys, ThresholdKeys
<1>2. QED BY <1>1, ValuesType, InputsType, WebAssumption DEF Init, TypeOK

\* A POST keeps the state well formed.
LEMMA PostType ==
  ASSUME TypeOK, NEW c \in Clients, NEW body \in Bodies, Post(c, body) PROVE TypeOK'
<1> DEFINE new == Proposed(body)
<1>1. body \in Partial /\ new \in Full
  BY InputsType, ProposedType
<1>2. [Idle EXCEPT !.pc = "checked", !.body = body, !.new = new] \in Requests
  BY <1>1, ValuesType DEF Requests
<1>3. req' \in [Clients -> Requests]
  BY <1>2 DEF Post, TypeOK
<1>4. posts' \in Nat
  BY DEF Post, TypeOK
<1>5. QED BY <1>3, <1>4 DEF Post, TypeOK

\* So does every later step of it.
LEMMA HandleType == ASSUME TypeOK, NEW c \in Clients, Handle(c) PROVE TypeOK'
<1>0. req[c] \in Requests
  BY DEF TypeOK
<1>1. CASE Swap(c)
  <2>1. tunables' \in Full
    BY <1>0, <1>1 DEF Swap, Swapped, Requests
  <2>2. req' \in [Clients -> Requests]
    BY <1>0, <1>1 DEF Swap, TypeOK, Requests
  <2>3. QED BY <1>1, <2>1, <2>2 DEF Swap, TypeOK
<1>2. CASE Lock(c)
  <2>1. req' \in [Clients -> Requests]
    BY <1>0, <1>2 DEF Lock, TypeOK, Requests
  <2>2. QED BY <1>2, <2>1 DEF Lock, TypeOK
<1>3. CASE Save(c)
  <2>1. file' \in Partial /\ saved' \in Partial
    BY <1>0, <1>3, OverType DEF Save, TypeOK, Requests
  <2>2. QED BY <1>3, <2>1, ValuesType DEF Save, Answer, TypeOK
<1>4. CASE SaveFails(c)
  BY <1>4, ValuesType DEF SaveFails, AnswerOnError, Answer, TypeOK
<1>5. QED BY <1>1, <1>2, <1>3, <1>4 DEF Handle

\* The steps of a stream keep the state well formed.
LEMMA StreamType ==
  ASSUME TypeOK, NEW s \in Subscribers, Pump(s) \/ Connect(s) \/ Disconnect(s) PROVE TypeOK'
<1>0. sub[s] \in Streams
  BY DEF TypeOK
<1>1. CASE Subscribe(s)
  <2>1. sub' \in [Subscribers -> Streams]
    BY <1>0, <1>1 DEF Subscribe, Unseen, TypeOK, Streams
  <2>2. QED BY <1>1, <2>1 DEF Subscribe, TypeOK
<1>2. CASE Deliver(s)
  <2>1. sub' \in [Subscribers -> Streams]
    BY <1>0, <1>2 DEF Deliver, TypeOK, Streams
  <2>2. QED BY <1>2, <2>1 DEF Deliver, TypeOK
<1>3. CASE Connect(s)
  <2>1. sub' \in [Subscribers -> Streams]
    BY <1>3 DEF Connect, TypeOK, Streams
  <2>2. QED BY <1>3, <2>1 DEF Connect, TypeOK
<1>4. CASE Disconnect(s)
  BY <1>4, ValuesType DEF Disconnect, TypeOK
<1>5. QED BY <1>1, <1>2, <1>3, <1>4 DEF Pump

\* A tick keeps the state well formed.
LEMMA TickType == ASSUME TypeOK, Tick PROVE TypeOK'
<1>1. applied' \in Full
  BY DEF Tick, Pending, TypeOK
<1>2. frame' \in Partial
  BY <1>1, ThresholdsType DEF Tick
<1>3. sub' \in [Subscribers -> Streams]
  BY DEF Tick, TypeOK, Streams
<1>4. QED BY <1>1, <1>2, <1>3 DEF Tick, TypeOK

\* Every step keeps the state well formed.
LEMMA NextType == ASSUME TypeOK, [Next]_vars PROVE TypeOK'
<1>1. CASE \E c \in Clients : Handle(c) \/ \E body \in Bodies : Post(c, body)
  BY <1>1, HandleType, PostType
<1>2. CASE \E s \in Subscribers : Pump(s) \/ Connect(s) \/ Disconnect(s)
  BY <1>2, StreamType
<1>3. CASE Tick
  BY <1>3, TickType
<1>4. CASE Crash
  <2>1. req' \in [Clients -> Requests] /\ sub' \in [Subscribers -> Streams]
    BY <1>4, ValuesType DEF Crash
  <2>2. crashes' \in Nat
    BY <1>4 DEF Crash, TypeOK
  <2>3. QED BY <1>4, <2>1, <2>2, Zenon DEF Crash, TypeOK
<1>5. CASE Start
  <2>1. Resolve(file) \in Full
    BY ResolveType DEF TypeOK
  <2>2. Resolve(file)["alert"] \in Nat
    BY <2>1 DEF Keys, ThresholdKeys
  <2>3. QED BY <1>5, <2>1, <2>2, ValuesType DEF Start, TypeOK
<1>6. CASE Edit
  BY <1>6, InputsType DEF Edit, TypeOK
<1>7. CASE UNCHANGED vars
  BY <1>7 DEF TypeOK
<1>8. QED BY <1>1, <1>2, <1>3, <1>4, <1>5, <1>6, <1>7 DEF Next

\* Type correctness of the web companion.
THEOREM TypeCorrect == Spec => []TypeOK
<1>1. Init => TypeOK
  BY InitType
<1>2. TypeOK /\ [Next]_vars => TypeOK'
  BY NextType
<1>3. QED BY <1>1, <1>2, PTL DEF Spec

----------------------------------------------------------------------------
(* The settings in force                                                   *)

\* A request that has passed its check carries a valid set; the cell and the
\* runtime's copy take their values from such requests, from a file that
\* loads, and from each other.
LEMMA SettingsStep ==
  ASSUME TypeOK, SettingsInv, [Next]_vars PROVE SettingsInv'
<1> USE DEF SettingsInv, CheckedIsValid, AppliedValid, Valid
<1>1. ASSUME NEW c \in Clients, NEW body \in Bodies, Post(c, body) PROVE SettingsInv'
  <2>1. CASE req' = req
    BY <1>1, <2>1 DEF Post, Ordered, Sustained
  <2>2. CASE req' # req
    <3> DEFINE new == Proposed(body)
    <3>1. Ordered(new) /\ Sustained(new)
      BY <1>1, <2>2 DEF Post
    <3>2. req' = [req EXCEPT ![c] = [Idle EXCEPT !.pc = "checked", !.body = body, !.new = new]]
      BY <1>1, <3>1 DEF Post
    <3>3. req'[c].new = new
      BY <3>2 DEF TypeOK, Idle
    <3>4. \A d \in Clients \ {c} : req'[d] = req[d]
      BY <3>2 DEF TypeOK
    <3>5. \A d \in Clients : req'[d].pc = "checked" => Ordered(req'[d].new) /\ Sustained(req'[d].new)
      BY <3>1, <3>3, <3>4
    <3>6. tunables' = tunables /\ applied' = applied /\ up' = up
      BY <1>1 DEF Post
    <3>7. QED BY <3>5, <3>6 DEF Ordered, Sustained
  <2>3. QED BY <2>1, <2>2
<1>2. ASSUME NEW c \in Clients, Swap(c) PROVE SettingsInv'
  <2>1. tunables' = req[c].new /\ Ordered(req[c].new) /\ Sustained(req[c].new)
    BY <1>2 DEF Swap, Swapped
  <2>2. \A d \in Clients : req'[d].pc = "checked" => req'[d] = req[d]
    BY <1>2 DEF Swap, TypeOK, Requests
  <2>3. applied' = applied /\ up' = up
    BY <1>2 DEF Swap
  <2>4. QED BY <2>1, <2>2, <2>3 DEF Ordered, Sustained
<1>3. ASSUME NEW c \in Clients, Lock(c) PROVE SettingsInv'
  <2>1. \A d \in Clients : req'[d].pc = "checked" => req'[d] = req[d]
    BY <1>3 DEF Lock, TypeOK, Requests
  <2>2. QED BY <1>3, <2>1 DEF Lock, Ordered, Sustained
<1>4. ASSUME NEW c \in Clients, Answer(c), UNCHANGED <<up, runVars>> PROVE SettingsInv'
  <2>1. \A d \in Clients : req'[d].pc = "checked" => req'[d] = req[d]
    BY <1>4 DEF Answer, TypeOK, Idle
  <2>2. QED BY <1>4, <2>1 DEF Ordered, Sustained
<1>5. CASE Tick
  BY <1>5 DEF Tick, Pending, Ordered, Sustained
<1>6. CASE Crash
  BY <1>6 DEF Crash, Idle
<1>7. CASE Start
  BY <1>7 DEF Start, Loads, Ordered, Sustained
<1>8. CASE UNCHANGED <<up, runVars, req>>
  BY <1>8 DEF Ordered, Sustained
<1>9. QED
  BY <1>1, <1>2, <1>3, <1>4, <1>5, <1>6, <1>7, <1>8
  DEF Next, Handle, Save, SaveFails, AnswerOnError, Pump, Subscribe, Deliver, Connect,
      Disconnect, Edit

\* Whatever POSTs overlap, the settings a tick works with are one validated
\* set (update_settings, apply_pending_tunables).
THEOREM AppliedValidHolds == Spec => []AppliedValid
<1>1. Init => SettingsInv
  BY DEF Init, SettingsInv, CheckedIsValid, AppliedValid, Idle
<1>2. TypeOK /\ SettingsInv /\ [Next]_vars => SettingsInv'
  BY SettingsStep
<1>3. SettingsInv => AppliedValid
  BY DEF SettingsInv
<1>4. QED BY <1>1, <1>2, <1>3, TypeCorrect, PTL DEF Spec

----------------------------------------------------------------------------
(* The file                                                                *)

\* While a request holds the mutex nobody else touches the file, so what it
\* renames into place is the file with its own keys overwritten.
LEMMA FileStep == ASSUME TypeOK, FileInv, [Next]_vars PROVE FileInv'
<1> USE DEF FileInv, HolderIsCurrent, SavedKeysStay
<1>1. ASSUME NEW c \in Clients, NEW body \in Bodies, Post(c, body) PROVE FileInv'
  <2>1. up /\ up' = up /\ file' = file /\ saved' = saved /\ write_mutex' = write_mutex
    BY <1>1 DEF Post
  <2>2. \A d \in Clients : req'[d].pc = "locked" => req'[d] = req[d]
    BY <1>1 DEF Post, TypeOK, Idle
  <2>3. QED BY <2>1, <2>2 DEF DownIsQuiet
<1>2. ASSUME NEW c \in Clients, Swap(c) PROVE FileInv'
  <2>1. up' = up /\ file' = file /\ saved' = saved /\ write_mutex' = write_mutex /\ sub' = sub
    BY <1>2 DEF Swap
  <2>2. \A d \in Clients : req'[d].pc = "locked" => req'[d] = req[d]
    BY <1>2 DEF Swap, TypeOK, Requests
  <2>3. up
    BY <1>2 DEF Swap, DownIsQuiet
  <2>4. QED BY <2>1, <2>2, <2>3 DEF DownIsQuiet
<1>3. ASSUME NEW c \in Clients, Lock(c) PROVE FileInv'
  <2>1. up' = up /\ file' = file /\ saved' = saved /\ write_mutex' = c /\ write_mutex = NoOne
    BY <1>3 DEF Lock, MayLock
  <2>2. req'[c].doc = file /\ \A d \in Clients \ {c} : req'[d] = req[d]
    BY <1>3 DEF Lock, TypeOK, Requests
  <2>3. \A d \in Clients : req[d].pc # "locked"
    BY <2>1, WebAssumption
  <2>4. up
    BY <1>3 DEF Lock, DownIsQuiet
  <2>5. QED BY <2>1, <2>2, <2>3, <2>4 DEF DownIsQuiet
<1>4. ASSUME NEW c \in Clients, req[c].pc = "locked", Answer(c), UNCHANGED <<up, sub>>
      PROVE  /\ up
             /\ DownIsQuiet'
             /\ \A d \in Clients : req'[d].pc # "locked"
  <2>1. \A d \in Clients \ {c} : req[d].pc # "locked"
    BY <1>4
  <2>2. req'[c].pc = "idle" /\ \A d \in Clients \ {c} : req'[d] = req[d]
    BY <1>4 DEF Answer, TypeOK, Idle
  <2>3. QED BY <1>4, <2>1, <2>2 DEF DownIsQuiet
<1>5. ASSUME NEW c \in Clients, Save(c) PROVE FileInv'
  BY <1>4, <1>5 DEF Save
<1>6. ASSUME NEW c \in Clients, SaveFails(c) PROVE FileInv'
  BY <1>4, <1>6 DEF SaveFails, AnswerOnError
<1>7. ASSUME NEW s \in Subscribers, Pump(s) \/ Connect(s) \/ Disconnect(s) PROVE FileInv'
  <2>1. UNCHANGED <<file, saved, up, req, write_mutex>>
    BY <1>7 DEF Pump, Subscribe, Deliver, Connect, Disconnect
  <2>2. up
    BY <1>7 DEF DownIsQuiet, Pump, Subscribe, Deliver, Connect, Disconnect
  <2>3. QED BY <2>1, <2>2 DEF DownIsQuiet
<1>8. CASE Tick
  BY <1>8 DEF Tick, DownIsQuiet
<1>9. CASE Crash
  BY <1>9 DEF Crash, DownIsQuiet, Idle, Closed
<1>10. CASE Start
  BY <1>10 DEF Start, DownIsQuiet
<1>11. CASE Edit
  BY <1>11 DEF Edit, DownIsQuiet
<1>12. CASE UNCHANGED vars
  BY <1>12 DEF DownIsQuiet
<1>13. QED
  BY <1>1, <1>2, <1>3, <1>5, <1>6, <1>7, <1>8, <1>9, <1>10, <1>11, <1>12 DEF Next, Handle

\* The file holds, key by key, what was last reported as persisted, through
\* overlapping POSTs, failed writes and crashes (persist_partial_toml under
\* WRITE_MUTEX).
THEOREM SavedKeysStayHolds == Spec => []SavedKeysStay
<1>1. Init => FileInv
  BY DEF Init, FileInv, HolderIsCurrent, DownIsQuiet, SavedKeysStay, Idle, Closed
<1>2. TypeOK /\ FileInv /\ [Next]_vars => FileInv'
  BY FileStep
<1>3. FileInv => SavedKeysStay
  BY DEF FileInv
<1>4. QED BY <1>1, <1>2, <1>3, TypeCorrect, PTL DEF Spec

----------------------------------------------------------------------------
(* The stream                                                              *)

\* A tick marks every open stream; one that is greeted but not yet open will
\* find the channel's value unseen.
LEMMA StreamStep == ASSUME TypeOK, FileInv, StreamInv, [Next]_vars PROVE StreamInv'
<1> USE DEF StreamInv, GreetedIsCurrent, NothingMissed
<1>0. DownIsQuiet'
  BY FileStep DEF FileInv
<1>1. ASSUME NEW s \in Subscribers, Subscribe(s) PROVE StreamInv'
  <2>1. frame' = frame /\ published' = published
    BY <1>1 DEF Subscribe
  <2>2. /\ sub'[s].pc = "open" /\ sub'[s].changed = published /\ sub'[s].shown = sub[s].shown
        /\ \A u \in Subscribers \ {s} : sub'[u] = sub[u]
    BY <1>1 DEF Subscribe, Unseen, TypeOK, Streams
  <2>3. sub[s].pc = "greeted"
    BY <1>1 DEF Subscribe
  <2>4. QED BY <1>0, <2>1, <2>2, <2>3
<1>2. ASSUME NEW s \in Subscribers, Deliver(s) PROVE StreamInv'
  <2>1. frame' = frame /\ published' = published
    BY <1>2 DEF Deliver
  <2>2. /\ sub'[s].shown = frame
        /\ \A u \in Subscribers \ {s} : sub'[u] = sub[u]
    BY <1>2 DEF Deliver, TypeOK, Streams
  <2>3. QED BY <1>0, <2>1, <2>2
<1>3. ASSUME NEW s \in Subscribers, Connect(s) PROVE StreamInv'
  <2>1. frame' = frame /\ published' = published
    BY <1>3 DEF Connect
  <2>2. /\ sub'[s].shown = frame
        /\ \A u \in Subscribers \ {s} : sub'[u] = sub[u]
    BY <1>3 DEF Connect, TypeOK
  <2>3. QED BY <1>0, <2>1, <2>2
<1>4. ASSUME NEW s \in Subscribers, Disconnect(s) PROVE StreamInv'
  <2>1. frame' = frame /\ published' = published
    BY <1>4 DEF Disconnect
  <2>2. /\ sub'[s].pc = "closed"
        /\ \A u \in Subscribers \ {s} : sub'[u] = sub[u]
    BY <1>4 DEF Disconnect, TypeOK, Closed
  <2>3. QED BY <1>0, <2>1, <2>2
<1>5. CASE Tick
  <2>1. published'
    BY <1>5 DEF Tick
  <2>2. \A s \in Subscribers : sub'[s].pc = sub[s].pc /\ sub'[s].changed = (sub[s].pc = "open")
    BY <1>5 DEF Tick, TypeOK, Streams
  <2>3. QED BY <1>0, <2>1, <2>2
<1>6. CASE Crash
  BY <1>0, <1>6 DEF Crash, Closed
<1>7. CASE Start
  <2>1. \A s \in Subscribers : sub'[s].pc = "closed"
    BY <1>7 DEF Start, DownIsQuiet
  <2>2. QED BY <1>0, <2>1
<1>8. CASE UNCHANGED <<frame, published, sub>>
  BY <1>0, <1>8
<1>9. QED
  BY <1>1, <1>2, <1>3, <1>4, <1>5, <1>6, <1>7, <1>8
  DEF Next, Handle, Pump, Post, Swap, Lock, Save, SaveFails, Edit

\* A stream that waits for changed() shows the latest snapshot (pump).
THEOREM NothingMissedHolds == Spec => []NothingMissed
<1>1. Init => FileInv /\ StreamInv
  BY DEF Init, FileInv, HolderIsCurrent, DownIsQuiet, SavedKeysStay, StreamInv,
         GreetedIsCurrent, NothingMissed, Idle, Closed
<1>2. TypeOK /\ FileInv /\ StreamInv /\ [Next]_vars => FileInv' /\ StreamInv'
  BY FileStep, StreamStep
<1>3. StreamInv => NothingMissed
  BY DEF StreamInv
<1>4. QED BY <1>1, <1>2, <1>3, TypeCorrect, PTL DEF Spec

=============================================================================
