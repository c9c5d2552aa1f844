--------------------------- MODULE GovernorProofs ---------------------------
(***************************************************************************)
(* Machine-checked results about Governor, for every value of its          *)
(* constants.  Under every combination of environment faults: type         *)
(* correctness, the kill budget and the pidfd half of the PID-reuse guard. *)
(* While no PID is reused under the tracker, each with the faults it       *)
(* admits: the policy, the sustain gate, the whole of the PID-reuse guard, *)
(* the pending kills and the attribution of exits; and, whatever PIDs do,  *)
(* at most one automated SIGTERM per process.                              *)
(***************************************************************************)
EXTENDS Governor, FiniteSetTheorems, WellFoundedInduction, TLAPS

USE DEF Never, Sources

----------------------------------------------------------------------------
(* Lemmas about the operators                                              *)

\* Inserting a well-typed entry keeps a PID map a PID map.
LEMMA PutType ==
  ASSUME NEW S, NEW f, PidMap(f, S), NEW k \in Pids, NEW v \in S
  PROVE  PidMap(Put(f, k, v), S)
  BY DEF PidMap, Put

\* Removing entries keeps a PID map a PID map.
LEMMA WithoutType ==
  ASSUME NEW S, NEW f, PidMap(f, S), NEW K
  PROVE  PidMap(Without(f, K), S)
  BY DEF PidMap, Without

\* An age stays within its cap.
LEMMA OlderType ==
  ASSUME NEW cap \in Nat, NEW a \in 0 .. cap
  PROVE  Older(a, cap) \in 0 .. cap
  BY DEF Older

\* The pop_front loop stops at the first entry inside the window.
LEMMA StaleChoice ==
  ASSUME NEW ages \in Seq(Int)
  PROVE  /\ Stale(ages) \in 0 .. Len(ages)
         /\ \A i \in 1 .. Stale(ages) : ages[i] > Window
         /\ Stale(ages) < Len(ages) => ages[Stale(ages) + 1] <= Window
<1> DEFINE Stops(n) == /\ \A i \in 1 .. n : ages[i] > Window
                       /\ n < Len(ages) => ages[n + 1] <= Window
           Fresh == {i \in 1 .. Len(ages) : ages[i] <= Window}
<1>1. \E n \in 0 .. Len(ages) : Stops(n)
  <2>1. CASE Fresh = {}
    <3>1. Len(ages) \in 0 .. Len(ages) /\ Stops(Len(ages))
      BY <2>1, NumberAssumption
    <3>2. QED BY <3>1
  <2>2. CASE Fresh # {}
    <3>1. Fresh \subseteq Nat
      OBVIOUS
    <3>2. PICK m \in Fresh : \A y \in Fresh : ~(<<y, m>> \in OpToRel(<, Nat))
      BY <2>2, <3>1, NatLessThanWellFounded, WFMin, Zenon
    <3>3. \A y \in Fresh : m <= y
      <4> SUFFICES ASSUME NEW y \in Fresh, y < m PROVE FALSE
        BY <3>1
      <4>1. y \in Nat /\ m \in Nat
        BY <3>1
      <4>2. <<y, m>> \in Nat \X Nat /\ <<y, m>>[1] < <<y, m>>[2]
        BY <4>1
      <4>3. <<y, m>> \in OpToRel(<, Nat)
        BY <4>2, Zenon DEF OpToRel
      <4>4. QED BY <3>2, <4>3, Zenon
    <3>4. m - 1 \in 0 .. Len(ages) /\ Stops(m - 1)
      BY <3>3, NumberAssumption
    <3>5. QED BY <3>4
  <2>3. QED BY <2>1, <2>2
<1>2. Stale(ages) = CHOOSE n \in 0 .. Len(ages) : Stops(n)
  BY DEF Stale
<1>3. Stale(ages) \in 0 .. Len(ages) /\ Stops(Stale(ages))
  BY <1>1, <1>2
<1>4. QED BY <1>3

\* What dropping a prefix of n entries leaves.
LEMMA DropType ==
  ASSUME NEW S, NEW s \in Seq(S), NEW n \in 0 .. Len(s)
  PROVE  LET rest == SubSeq(s, n + 1, Len(s))
         IN  /\ rest \in Seq(S)
             /\ Len(rest) = Len(s) - n
             /\ \A i \in 1 .. Len(rest) : rest[i] = s[n + i]
<1> DEFINE rest == SubSeq(s, n + 1, Len(s))
<1>1. Len(s) \in Nat /\ n \in Nat /\ n <= Len(s) /\ n + 1 \in 1 .. Len(s) + 1
  OBVIOUS
<1>2. Len(rest) = Len(s) - n
  BY <1>1
<1>3. rest \in Seq(S)
  BY <1>1
<1>4. \A i \in 1 .. Len(rest) : rest[i] = s[n + i]
  BY <1>1, <1>2
<1>5. QED BY <1>2, <1>3, <1>4

\* Trimming drops a prefix and keeps the order of the rest.
LEMMA TrimmedType ==
  ASSUME NEW ages \in Seq(0 .. Window + 1)
  PROVE  /\ Trimmed(ages) \in Seq(0 .. Window + 1)
         /\ Len(Trimmed(ages)) = Len(ages) - Stale(ages)
         /\ \A i \in 1 .. Len(Trimmed(ages)) : Trimmed(ages)[i] = ages[Stale(ages) + i]
<1>1. ages \in Seq(Int)
  BY NumberAssumption
<1>2. Stale(ages) \in 0 .. Len(ages)
  BY <1>1, StaleChoice
<1>3. LET rest == SubSeq(ages, Stale(ages) + 1, Len(ages))
      IN  /\ rest \in Seq(0 .. Window + 1)
          /\ Len(rest) = Len(ages) - Stale(ages)
          /\ \A i \in 1 .. Len(rest) : rest[i] = ages[Stale(ages) + i]
  BY <1>2, DropType, Zenon
<1>4. QED
  BY <1>3, Zenon DEF Trimmed

\* Ageing every entry keeps a sequence of ages what it is, only older.
LEMMA AgedType ==
  ASSUME NEW cap \in Nat, NEW s \in Seq(0 .. cap)
  PROVE  LET aged == [i \in DOMAIN s |-> Older(s[i], cap)]
         IN  /\ aged \in Seq(0 .. cap)
             /\ Len(aged) = Len(s)
             /\ \A i \in 1 .. Len(s) : aged[i] = Older(s[i], cap)
  BY DEF Older

Term == [by : Sources, age : 0 .. Window + 1]

\* The same for the record of delivered SIGTERMs, and what dropping its stale
\* prefix leaves.
LEMMA AgedTerms ==
  ASSUME NEW s \in Seq(Term)
  PROVE  LET older == [i \in DOMAIN s |-> [s[i] EXCEPT !.age = Older(@, Window + 1)]]
             ages  == [i \in DOMAIN older |-> older[i].age]
             rest  == SubSeq(older, Stale(ages) + 1, Len(older))
         IN  /\ ages \in Seq(Int) /\ Len(ages) = Len(s)
             /\ \A i \in 1 .. Len(s) : ages[i] = Older(s[i].age, Window + 1)
             /\ rest \in Seq(Term)
             /\ Len(rest) = Len(s) - Stale(ages)
             /\ \A i \in 1 .. Len(rest) :
                  /\ rest[i].age = ages[Stale(ages) + i]
                  /\ rest[i].by = s[Stale(ages) + i].by
<1> DEFINE older == [i \in DOMAIN s |-> [s[i] EXCEPT !.age = Older(@, Window + 1)]]
           ages  == [i \in DOMAIN older |-> older[i].age]
           rest  == SubSeq(older, Stale(ages) + 1, Len(older))
<1> HIDE DEF ages, rest
<1>1. /\ Len(s) \in Nat /\ DOMAIN s = 1 .. Len(s)
      /\ \A i \in 1 .. Len(s) : s[i] \in Term
  OBVIOUS
<1>2. /\ older \in Seq(Term) /\ Len(older) = Len(s)
      /\ \A i \in 1 .. Len(s) : /\ Older(s[i].age, Window + 1) \in 0 .. Window + 1
                                 /\ older[i].age = Older(s[i].age, Window + 1)
                                 /\ older[i].by = s[i].by
  <2>1. ASSUME NEW i \in 1 .. Len(s)
        PROVE  /\ Older(s[i].age, Window + 1) \in 0 .. Window + 1
               /\ [s[i] EXCEPT !.age = Older(@, Window + 1)] \in Term
               /\ [s[i] EXCEPT !.age = Older(@, Window + 1)].age
                    = Older(s[i].age, Window + 1)
               /\ [s[i] EXCEPT !.age = Older(@, Window + 1)].by = s[i].by
    <3>1. s[i] \in Term BY <1>1
    <3>a. s[i].age \in 0 .. Window + 1 BY <3>1 DEF Term
    <3>b. Window + 1 \in Nat BY NumberAssumption
    <3>2. Older(s[i].age, Window + 1) \in 0 .. Window + 1
      BY <3>a, <3>b DEF Older
    <3>3. QED BY <3>1, <3>2 DEF Term
  <2>2. older = [i \in 1 .. Len(s) |-> [s[i] EXCEPT !.age = Older(@, Window + 1)]]
    BY <1>1
  <2> HIDE DEF older
  <2>3. \A i \in 1 .. Len(s) : older[i] = [s[i] EXCEPT !.age = Older(@, Window + 1)]
    BY <2>2
  <2>4. older \in Seq(Term) /\ Len(older) = Len(s)
    <3>1. older \in [1 .. Len(s) -> Term] BY <2>1, <2>2
    <3>2. QED BY <1>1, <3>1
  <2>5. QED BY <2>1, <2>3, <2>4
<1> HIDE DEF older
<1>3. /\ ages \in Seq(Int) /\ Len(ages) = Len(s)
      /\ \A i \in 1 .. Len(s) : ages[i] = Older(s[i].age, Window + 1)
  <2>1. ages = [i \in 1 .. Len(s) |-> older[i].age]
    BY <1>2 DEF ages
  <2>2. \A i \in 1 .. Len(s) : older[i].age \in Int
    BY <1>2, NumberAssumption
  <2>3. ages \in [1 .. Len(s) -> Int]
    BY <2>1, <2>2
  <2>4. QED BY <1>1, <1>2, <2>1, <2>3
<1>4. Stale(ages) \in 0 .. Len(ages)
  BY <1>3, StaleChoice
<1>5. /\ rest \in Seq(Term)
      /\ Len(rest) = Len(s) - Stale(ages)
      /\ \A i \in 1 .. Len(rest) : rest[i] = older[Stale(ages) + i]
  <2>1. Stale(ages) \in 0 .. Len(older) BY <1>2, <1>3, <1>4
  <2>2. QED BY <1>2, <2>1, DropType DEF rest
<1>6. \A i \in 1 .. Len(rest) : /\ rest[i].age = ages[Stale(ages) + i]
                                 /\ rest[i].by = s[Stale(ages) + i].by
  <2> SUFFICES ASSUME NEW i \in 1 .. Len(rest)
               PROVE  /\ rest[i].age = ages[Stale(ages) + i]
                      /\ rest[i].by = s[Stale(ages) + i].by
    OBVIOUS
  <2> DEFINE j == Stale(ages) + i
  <2>1. j \in 1 .. Len(s) BY <1>3, <1>4, <1>5
  <2>2. rest[i] = older[j] BY <1>5
  <2> HIDE DEF j
  <2>3. older[j].age = ages[j] /\ older[j].by = s[j].by
    BY <1>2, <1>3, <2>1
  <2>4. QED BY <2>2, <2>3 DEF j
<1>7. QED BY <1>3, <1>5, <1>6 DEF rest, ages, older

----------------------------------------------------------------------------
(* Type correctness                                                        *)

Shot == [pid : Pids \cup {0}, by : Sources, token : Tokens, inst : Instances \cup {0}]
Signal == [sig : {"none", "TERM", "KILL"}, by : Sources, via : Tokens,
           inst : Instances \cup {0}]

LEMMA ConstantTypes ==
  /\ NoShot \in Shot
  /\ Nothing \in Signal
  /\ Window + 1 \in Nat
  BY NumberAssumption DEF NoShot, Nothing, Shot, Signal, Tokens

LEMMA EmptyMapType == ASSUME NEW S PROVE PidMap(EmptyMap, S)
  BY DEF PidMap, EmptyMap

LEMMA InitType == Init => TypeOK
<1> SUFFICES ASSUME Init PROVE TypeOK
  OBVIOUS
<1>1. /\ recent_kills \in Seq(0 .. Window + 1)
      /\ terms \in Seq([by : Sources, age : 0 .. Window + 1])
  BY DEF Init
<1>2. /\ PidMap(proc, Process) /\ PidMap(lifecycle, Row) /\ PidMap(annotated, Reading)
      /\ PidMap(breach_since, 0 .. Sustain) /\ PidMap(decisions, Verdicts)
      /\ PidMap(pending_kills, Pending)
  BY EmptyMapType DEF Init
<1>3. /\ termed \in [Instances -> {Never} \cup 0 .. Grace]
      /\ streak \in [Instances -> 0 .. 2]
  BY DEF Init
<1>4. /\ shot \in Shot /\ delivered \in Signal
      /\ thermal \in BOOLEAN /\ due \in BOOLEAN
      /\ pc \in {"idle", "actuate", "term", "escalate", "kill"}
  BY ConstantTypes, Zenon DEF Init
<1>7. spawned \in 0 .. MaxInst /\ manualOps \in 0 .. MaxManual
  BY NumberAssumption DEF Init
<1>5. /\ governor_killed_pids \subseteq Pids /\ todo \subseteq Pids
      /\ exits \subseteq [inst : Instances, governor : BOOLEAN]
  BY DEF Init
<1>6. QED
  BY <1>1, <1>2, <1>3, <1>4, <1>5, <1>7 DEF TypeOK, Shot, Signal

\* Identity capture leaves a well-formed shot.
LEMMA CaptureType ==
  ASSUME TypeOK, NEW p \in Pids, NEW by \in Sources, NEW token \in Captures,
         Capture(p, by, token)
  PROVE  shot' \in Shot /\ pc' = "term"
  BY FlagAssumption DEF Capture, TypeOK, PidMap, Process, Shot, Tokens

\* Marking an entry as escalated keeps the map's type.
LEMMA MarkType ==
  ASSUME NEW M, PidMap(M, Pending), NEW p
  PROVE  PidMap([M EXCEPT ![p].sigkill = TRUE], Pending)
<1> DEFINE N == [M EXCEPT ![p].sigkill = TRUE]
<1>1. DOMAIN N = DOMAIN M /\ DOMAIN M \subseteq Pids
  BY DEF PidMap
<1>2. ASSUME NEW q \in DOMAIN M PROVE N[q] \in Pending
  <2>1. M[q] \in Pending BY DEF PidMap
  <2>2. [M[q] EXCEPT !.sigkill = TRUE] \in Pending BY <2>1 DEF Pending
  <2>3. N[q] = IF q = p THEN [M[q] EXCEPT !.sigkill = TRUE] ELSE M[q] OBVIOUS
  <2>4. QED BY <2>1, <2>2, <2>3
<1>3. QED BY <1>1, <1>2 DEF PidMap

\* What a SIGKILL that arrives does to the maps.
LEMMA ReachType ==
  ASSUME TypeOK, NEW p \in DOMAIN proc, NEW by \in Sources, NEW via \in Tokens,
         KillReaches(p, by, via)
  PROVE  /\ PidMap(proc', Process) /\ PidMap(pending_kills', Pending)
         /\ governor_killed_pids' \subseteq Pids /\ delivered' \in Signal
<1>1. p \in Pids /\ proc[p] \in Process
  BY DEF TypeOK, PidMap
<1>2. PidMap(proc', Process)
  BY <1>1 DEF KillReaches, Tag, TypeOK, PidMap, Process
<1>3. PidMap(pending_kills', Pending)
  <2>1. PidMap(pending_kills, Pending) BY DEF TypeOK
  <2>2. \/ pending_kills' = pending_kills
        \/ pending_kills' = [pending_kills EXCEPT ![p].sigkill = TRUE]
    BY DEF KillReaches, Tag
  <2>3. QED BY <2>1, <2>2, MarkType
<1>4. QED
  BY <1>1, <1>2, <1>3 DEF KillReaches, Tag, TypeOK, Signal, Process

\* What an aborted SIGKILL does to the maps.
LEMMA AbortType ==
  ASSUME TypeOK, NEW p, KillAborted(p)
  PROVE  /\ PidMap(proc', Process) /\ PidMap(pending_kills', Pending)
         /\ governor_killed_pids' \subseteq Pids /\ delivered' \in Signal
<1>1. PidMap(pending_kills', Pending)
  <2>1. PidMap(pending_kills, Pending) BY DEF TypeOK
  <2>2. \/ pending_kills' = pending_kills
        \/ pending_kills' = [pending_kills EXCEPT ![p].sigkill = TRUE]
    BY DEF KillAborted
  <2>3. QED BY <2>1, <2>2, MarkType
<1>2. QED
  BY <1>1, ConstantTypes DEF KillAborted, TypeOK, PidMap

\* send_sigkill as a whole.
LEMMA SigkillType ==
  ASSUME TypeOK, NEW p \in Pids, NEW by \in Sources,
         NEW done \in {"idle", "escalate"}, SendSigkill(p, by, done)
  PROVE  /\ PidMap(proc', Process) /\ PidMap(pending_kills', Pending)
         /\ governor_killed_pids' \subseteq Pids /\ delivered' \in Signal
         /\ pc' \in {"idle", "kill", "escalate"} /\ shot' \in Shot
         /\ UNCHANGED <<spawned, lifecycle, annotated, thermal, breach_since, decisions,
                        recent_kills, due, termed, terms, streak, exits>>
<1> DEFINE pk == pending_kills[p]
           byStart == /\ p \in DOMAIN pending_kills /\ pk.token = "starttime"
                      /\ Alive(p, pk.inst)
<1>1. CASE byStart
  <2>1. pk \in Pending BY <1>1 DEF TypeOK, PidMap
  <2>2. shot' = [pid |-> p, by |-> by, token |-> pk.token, inst |-> pk.inst]
    BY <1>1 DEF SendSigkill
  <2>3. shot' \in Shot BY <2>1, <2>2 DEF Shot, Pending
  <2>4. /\ pc' = "kill" /\ delivered' = Nothing
        /\ UNCHANGED <<proc, pending_kills, governor_killed_pids>>
    BY <1>1 DEF SendSigkill
  <2>5. QED BY <2>3, <2>4, ConstantTypes DEF SendSigkill, tickVars, TypeOK, PidMap
<1>2. CASE ~byStart
  <2>1. pc' = done /\ shot' = NoShot
    BY <1>2 DEF SendSigkill
  <2>2. \/ p \in DOMAIN proc /\ KillReaches(p, by, "pidfd")
        \/ KillErrs
        \/ KillAborted(p)
    BY <1>2 DEF SendSigkill, Alive
  <2>3. /\ PidMap(proc', Process) /\ PidMap(pending_kills', Pending)
        /\ governor_killed_pids' \subseteq Pids /\ delivered' \in Signal
    <3>1. CASE p \in DOMAIN proc /\ KillReaches(p, by, "pidfd")
      BY <3>1, ReachType DEF Tokens
    <3>2. CASE KillErrs
      BY <3>2, ConstantTypes DEF KillErrs, TypeOK, PidMap
    <3>3. CASE KillAborted(p)
      BY <3>3, AbortType
    <3>4. QED BY <2>2, <3>1, <3>2, <3>3
  <2>4. QED BY <2>1, <2>3, ConstantTypes DEF SendSigkill, tickVars
<1>3. QED BY <1>1, <1>2

LEMMA NextType == TypeOK /\ [Next]_vars => TypeOK'
<1> SUFFICES ASSUME TypeOK, [Next]_vars PROVE TypeOK'
  OBVIOUS
<1> USE ConstantTypes, NumberAssumption DEF osVars, tickVars, govVars, ctlVars
<1>1. ASSUME NEW p \in Pids, NEW name \in Programs, Spawn(p, name)
      PROVE  TypeOK'
  <2>1. PidMap(proc', Process) /\ spawned' \in 0 .. MaxInst
    <3>1. spawned + 1 \in Instances /\ spawned' = spawned + 1
      BY <1>1 DEF Spawn, TypeOK, Instances
    <3>2. [inst |-> spawned + 1, name |-> name, doomed |-> FALSE] \in Process
      BY <3>1 DEF Process
    <3>3. QED BY <1>1, <3>1, <3>2, PutType DEF Spawn, TypeOK, Instances
  <2>2. QED BY <1>1, <2>1 DEF Spawn, TypeOK, Signal
<1>2. ASSUME NEW p \in Pids, Exit(p)
      PROVE  TypeOK'
  BY <1>2, WithoutType DEF Exit, TypeOK, Signal
<1>3. CASE Elapse
  <2>1. PidMap(breach_since', 0 .. Sustain)
    BY <1>3, OlderType DEF Elapse, TypeOK, PidMap
  <2>2. PidMap(pending_kills', Pending)
    <3>1. /\ DOMAIN pending_kills \subseteq Pids
          /\ \A p \in DOMAIN pending_kills : pending_kills[p] \in Pending
      BY DEF TypeOK, PidMap
    <3>2. \A r \in Pending : [r EXCEPT !.age = Older(@, Grace)] \in Pending
      BY OlderType DEF Pending
    <3>3. pending_kills' = [p \in DOMAIN pending_kills |->
                              [pending_kills[p] EXCEPT !.age = Older(@, Grace)]]
      BY <1>3 DEF Elapse
    <3>4. QED BY <3>1, <3>2, <3>3, Zenon DEF PidMap
  <2>3. recent_kills' \in Seq(0 .. Window + 1)
    BY <1>3, AgedType DEF Elapse, TypeOK
  <2>4. termed' \in [Instances -> {Never} \cup 0 .. Grace]
    BY <1>3, OlderType DEF Elapse, TypeOK
  <2>5. terms' \in Seq([by : Sources, age : 0 .. Window + 1])
    BY <1>3, AgedTerms DEF Elapse, TypeOK, Term
  <2>6. QED
    BY <1>3, <2>1, <2>2, <2>3, <2>4, <2>5 DEF Elapse, TypeOK, Signal
<1>4. CASE TickSucceeds
  <2>0. PICK seen \in SUBSET DOMAIN proc :
          \E over \in SUBSET seen, hot \in BOOLEAN : Tick(seen, over, hot)
    BY <1>4 DEF TickSucceeds
  <2>1. PICK over \in SUBSET seen, hot \in BOOLEAN : Tick(seen, over, hot)
    BY <2>0
  <2>2. PidMap(lifecycle', Row)
    <3>1. lifecycle' = Tracked(seen) BY <2>1 DEF Tick
    <3>2. /\ Exited(seen) \subseteq DOMAIN lifecycle /\ DOMAIN lifecycle \subseteq Pids
          /\ \A p \in DOMAIN lifecycle : lifecycle[p] \in Row
      BY DEF Exited, TypeOK, PidMap
    <3>3. seen \subseteq Pids /\ \A p \in seen : proc[p] \in Process
      BY DEF TypeOK, PidMap
    <3>4. DOMAIN Tracked(seen) = seen \cup Exited(seen)
      BY DEF Tracked
    <3>5. ASSUME NEW p \in seen \cup Exited(seen)
          PROVE  Tracked(seen)[p] \in Row
      <4>1. CASE p \in Exited(seen)
        BY <3>2, <4>1 DEF Tracked, Row
      <4>2. CASE p \notin Exited(seen) /\ p \in DOMAIN lifecycle /\ ~lifecycle[p].exited
        BY <3>2, <3>3, <4>2 DEF Tracked, Row, Process
      <4>3. CASE /\ p \notin Exited(seen)
                 /\ ~(p \in DOMAIN lifecycle /\ ~lifecycle[p].exited)
        BY <3>3, <4>3 DEF Tracked, Row, Process
      <4>4. QED BY <4>1, <4>2, <4>3
    <3>6. Tracked(seen) \in [DOMAIN Tracked(seen) -> Row]
      <4>1. Tracked(seen) = [p \in DOMAIN Tracked(seen) |-> Tracked(seen)[p]]
        BY DEF Tracked
      <4>2. QED BY <3>4, <3>5, <4>1
    <3>7. QED BY <3>1, <3>2, <3>3, <3>4, <3>6 DEF PidMap
  <2>3. PidMap(pending_kills', Pending)
    BY <2>1, WithoutType DEF Tick, ClearPending, TypeOK
  <2>4. /\ recent_kills' = Trimmed(recent_kills)
        /\ recent_kills' \in Seq(0 .. Window + 1)
    BY <2>1, TrimmedType DEF Tick, TypeOK
  <2>5. PidMap(breach_since', 0 .. Sustain)
    BY <2>1 DEF Tick, Breaching, TypeOK, PidMap
  <2>6. PidMap(decisions', Verdicts)
    BY <2>1, <2>2 DEF Tick, EvaluateProcess, Verdicts, PidMap
  <2>7. PidMap(annotated', Reading)
    BY <2>1 DEF Tick, TypeOK, PidMap, Reading, Process
  <2>8. streak' \in [Instances -> 0 .. 2]
    <3>1. streak' = [i \in Instances |->
                       IF i \in {annotated[p].inst : p \in Breaching}
                       THEN Older(streak[i], 2) ELSE 0]
      BY <2>1 DEF Tick
    <3>2. ASSUME NEW i \in Instances PROVE Older(streak[i], 2) \in 0 .. 2
      <4>1. streak[i] \in 0 .. 2 BY DEF TypeOK
      <4>2. QED BY <4>1 DEF Older
    <3>3. 0 \in 0 .. 2 OBVIOUS
    <3>4. QED BY <3>1, <3>2, <3>3, Zenon
  <2>9. exits' \subseteq [inst : Instances, governor : BOOLEAN]
    <3>1. exits' = exits \cup {[inst |-> lifecycle[p].inst,
                                governor |-> p \in governor_killed_pids] :
                               p \in {q \in Exited(seen) : lifecycle[q].name \in AI}}
      BY <2>1 DEF Tick
    <3>2. \A p \in Exited(seen) : lifecycle[p].inst \in Instances
      BY DEF Exited, TypeOK, PidMap, Row
    <3>3. exits \subseteq [inst : Instances, governor : BOOLEAN]
      BY DEF TypeOK
    <3>4. \A p \in Exited(seen) :
            [inst |-> lifecycle[p].inst, governor |-> p \in governor_killed_pids]
              \in [inst : Instances, governor : BOOLEAN]
      BY <3>2
    <3>5. QED BY <3>1, <3>3, <3>4, Zenon
  <2>10. /\ pc' \in {"idle", "actuate", "term", "escalate", "kill"}
         /\ todo' \subseteq Pids /\ shot' \in Shot /\ due' \in BOOLEAN
    <3>1. StartActuation(decisions') BY <2>1 DEF Tick
    <3>2. Candidates(decisions') \subseteq Pids
      BY <2>6 DEF Candidates, PidMap
    <3>3. QED BY <3>1, <3>2 DEF StartActuation
  <2>11. /\ governor_killed_pids' \subseteq Pids /\ thermal' \in BOOLEAN
         /\ delivered' \in Signal
    BY <2>1 DEF Tick, TypeOK
  <2>12. UNCHANGED <<proc, spawned, manualOps, termed, terms>>
    BY <2>1 DEF Tick
  <2>13. QED
    BY <2>2, <2>3, <2>4, <2>5, <2>6, <2>7, <2>8, <2>9, <2>10, <2>11, <2>12
    DEF TypeOK, Shot, Signal
<1>5. CASE TickFails
  BY <1>5 DEF TickFails, TypeOK, Signal, StartActuation, Shot, Candidates, PidMap
<1>6. ASSUME NEW p \in Pids, Hold(p)
      PROVE  TypeOK'
  BY <1>6, TrimmedType DEF Hold, TypeOK, Signal
<1>7. ASSUME NEW p \in Pids, NEW token \in Captures, Fire(p, token)
      PROVE  TypeOK'
  <2>1. shot' \in Shot /\ pc' = "term"
    BY <1>7, CaptureType DEF Fire
  <2>2. recent_kills' \in Seq(0 .. Window + 1)
    BY <1>7, TrimmedType DEF Fire, TypeOK
  <2>3. QED
    BY <1>7, <2>1, <2>2 DEF Fire, TypeOK, Shot, Signal
<1>8. CASE TermDelivered
  <2>1. shot.pid \in DOMAIN proc /\ shot.pid \in Pids /\ proc[shot.pid].inst \in Instances
    BY <1>8 DEF TermDelivered, Deliverable, TypeOK, PidMap, Process
  <2>2. PidMap(pending_kills', Pending)
    <3>1. [age |-> 0, sigkill |-> FALSE, token |-> shot.token, inst |-> shot.inst]
            \in Pending
      BY DEF TypeOK, Pending
    <3>2. QED BY <1>8, <2>1, <3>1, PutType DEF TermDelivered, Tag, Register, TypeOK
  <2>3. recent_kills' \in Seq(0 .. Window + 1)
    BY <1>8 DEF TermDelivered, Tag, TypeOK
  <2>4. terms' \in Seq([by : Sources, age : 0 .. Window + 1])
    BY <1>8 DEF TermDelivered, Tag, TypeOK
  <2>5. termed' \in [Instances -> {Never} \cup 0 .. Grace]
    BY <1>8, <2>1 DEF TermDelivered, Tag, TypeOK
  <2>6. delivered' \in Signal
    BY <1>8, <2>1 DEF TermDelivered, Tag, TypeOK, Signal, Tokens
  <2>7. QED
    BY <1>8, <2>1, <2>2, <2>3, <2>4, <2>5, <2>6
    DEF TermDelivered, Tag, TypeOK, Shot, Signal, After
<1>9. CASE TermFailed
  BY <1>9 DEF TermFailed, TypeOK, Signal, Shot, After
<1>10. CASE StartEscalation
  BY <1>10 DEF StartEscalation, TypeOK, Signal, GraceExpired, PidMap
<1>11. ASSUME NEW p \in Pids, Escalate(p)
       PROVE  TypeOK'
  <2>1. SendSigkill(p, "auto", "escalate") BY <1>11 DEF Escalate
  <2>2. QED BY <1>11, <2>1, SigkillType DEF Escalate, TypeOK, Shot, Signal
<1>12. CASE RawKill
  <2>1. /\ PidMap(proc', Process) /\ PidMap(pending_kills', Pending)
        /\ governor_killed_pids' \subseteq Pids /\ delivered' \in Signal
    <3>1. CASE shot.pid \in DOMAIN proc /\ KillReaches(shot.pid, shot.by, shot.token)
      BY <3>1, ReachType DEF TypeOK
    <3>2. CASE KillErrs
      BY <3>2 DEF KillErrs, TypeOK, PidMap
    <3>3. CASE KillAborted(shot.pid)
      BY <3>3, AbortType
    <3>4. QED BY <1>12, <3>1, <3>2, <3>3 DEF RawKill
  <2>2. QED BY <1>12, <2>1 DEF RawKill, After, TypeOK, Shot, Signal
<1>13. CASE EndActuation
  BY <1>13 DEF EndActuation, TypeOK, Signal
<1>14. ASSUME NEW p \in Pids, NEW token \in Captures, ManualKill(p, token)
       PROVE  TypeOK'
  <2>1. shot' \in Shot /\ pc' = "term"
    BY <1>14, CaptureType DEF ManualKill, Sources
  <2>2. QED
    BY <1>14, <2>1 DEF ManualKill, TypeOK, Shot, Signal
<1>15. ASSUME NEW p \in Pids, ManualForceKill(p)
       PROVE  TypeOK'
  <2>1. SendSigkill(p, "manual", "idle") BY <1>15 DEF ManualForceKill
  <2>2. QED BY <1>15, <2>1, SigkillType DEF ManualForceKill, TypeOK, Shot, Signal
<1>16. CASE UNCHANGED vars
  <2>1. /\ UNCHANGED <<proc, spawned, lifecycle, annotated, thermal, breach_since>>
        /\ UNCHANGED <<decisions, pending_kills, recent_kills, governor_killed_pids>>
        /\ UNCHANGED <<pc, todo, shot, due, manualOps, termed, terms, streak>>
        /\ UNCHANGED <<delivered, exits>>
    BY <1>16 DEF vars
  <2>2. /\ PidMap(proc, Process)' /\ PidMap(lifecycle, Row)' /\ PidMap(annotated, Reading)'
        /\ PidMap(breach_since, 0 .. Sustain)' /\ PidMap(decisions, Verdicts)'
        /\ PidMap(pending_kills, Pending)'
    BY <2>1 DEF TypeOK, PidMap
  <2>3. QED BY <2>1, <2>2 DEF TypeOK
<1>17. QED
  BY <1>1, <1>2, <1>3, <1>4, <1>5, <1>6, <1>7, <1>8, <1>9, <1>10, <1>11, <1>12,
     <1>13, <1>14, <1>15, <1>16 DEF Next, OperatingSystem, Actuator, Operator

\* Every state the governor reaches is well typed: each map is keyed by PIDs
\* and every age stays within its cap, for all constants and all faults.
THEOREM TypeCorrect == Spec => []TypeOK
  BY InitType, NextType, PTL DEF Spec

----------------------------------------------------------------------------
(* The kill budget                                                         *)

\* recent_kills is the record of delivered SIGTERMs behind a stale prefix the
\* limiter has not popped yet.
Aligned ==
  LET d == Len(recent_kills) - Len(terms) IN
  /\ d >= 0
  /\ \A i \in 1 .. Len(terms) : /\ recent_kills[d + i] = terms[i].age
                                 /\ terms[i].age <= Window
  /\ \A i \in 1 .. d : recent_kills[i] > Window
  /\ \A i, j \in 1 .. Len(terms) : i <= j => terms[i].age >= terms[j].age

\* Automated SIGTERMs sit among the first MaxKills places of that record, and
\* one in flight has found room.
Counted ==
  MaxKills > 0 =>
    /\ \A j \in 1 .. Len(terms) : terms[j].by = "auto" => j <= MaxKills
    /\ pc = "term" /\ shot.by = "auto" => Len(terms) < MaxKills

WindowInv == Aligned /\ Counted

\* What TypeOK says of the two sequences.
LEMMA WindowTypes ==
  ASSUME TypeOK
  PROVE  /\ recent_kills \in Seq(0 .. Window + 1) /\ recent_kills \in Seq(Int)
         /\ terms \in Seq(Term)
         /\ Len(recent_kills) \in Nat /\ Len(terms) \in Nat
         /\ \A i \in 1 .. Len(recent_kills) : recent_kills[i] \in 0 .. Window + 1
         /\ \A i \in 1 .. Len(terms) : terms[i].age \in 0 .. Window + 1
<1>1. recent_kills \in Seq(0 .. Window + 1) /\ terms \in Seq(Term)
  BY DEF TypeOK, Term
<1>2. recent_kills \in Seq(Int)
  BY <1>1, NumberAssumption
<1>3. \A i \in 1 .. Len(terms) : terms[i] \in Term
  BY <1>1
<1>4. \A i \in 1 .. Len(terms) : terms[i].age \in 0 .. Window + 1
  BY <1>3 DEF Term
<1>5. /\ Len(recent_kills) \in Nat /\ Len(terms) \in Nat
  BY <1>1
<1>6. \A i \in 1 .. Len(recent_kills) : recent_kills[i] \in 0 .. Window + 1
  BY <1>1, NumberAssumption
<1>7. QED BY <1>1, <1>2, <1>4, <1>5, <1>6

\* The limiter pops exactly the entries that have left the window.
LEMMA TrimAligned ==
  ASSUME TypeOK, Aligned
  PROVE  /\ Len(Trimmed(recent_kills)) = Len(terms)
         /\ \A i \in 1 .. Len(terms) : Trimmed(recent_kills)[i] = terms[i].age
<1> DEFINE n == Stale(recent_kills)
           d == Len(recent_kills) - Len(terms)
<1>1. /\ n \in 0 .. Len(recent_kills)
      /\ \A i \in 1 .. n : recent_kills[i] > Window
      /\ n < Len(recent_kills) => recent_kills[n + 1] <= Window
  BY WindowTypes, StaleChoice
<1>2. /\ d \in 0 .. Len(recent_kills)
      /\ \A i \in 1 .. Len(terms) : /\ recent_kills[d + i] = terms[i].age
                                     /\ terms[i].age <= Window
      /\ \A i \in 1 .. d : recent_kills[i] > Window
  BY WindowTypes DEF Aligned
<1>3. /\ Len(Trimmed(recent_kills)) = Len(recent_kills) - n
      /\ \A i \in 1 .. Len(Trimmed(recent_kills)) :
           Trimmed(recent_kills)[i] = recent_kills[n + i]
  BY WindowTypes, TrimmedType
<1> HIDE DEF n
<1>4. n = d
  <2>1. ASSUME n < d PROVE FALSE
    <3>1. n + 1 \in 1 .. d BY <1>1, <1>2, <2>1
    <3>2. n < Len(recent_kills) BY <1>1, <1>2, <2>1
    <3>3. recent_kills[n + 1] > Window /\ recent_kills[n + 1] <= Window
      BY <1>1, <1>2, <3>1, <3>2
    <3>4. recent_kills[n + 1] \in Int
      BY <1>1, <3>2, WindowTypes
    <3>5. QED BY <3>3, <3>4, NumberAssumption
  <2>2. ASSUME d < n PROVE FALSE
    <3>1. d + 1 \in 1 .. n /\ 1 \in 1 .. Len(terms)
      BY <1>1, <1>2, <2>2, WindowTypes
    <3>2. recent_kills[d + 1] > Window /\ recent_kills[d + 1] <= Window
      BY <1>1, <1>2, <3>1
    <3>3. recent_kills[d + 1] \in Int
      BY <1>2, <3>1, WindowTypes
    <3>4. QED BY <3>2, <3>3, NumberAssumption
  <2>3. QED BY <1>1, <1>2, <2>1, <2>2
<1>5. Len(Trimmed(recent_kills)) = Len(terms)
  BY <1>3, <1>4, WindowTypes
<1>6. \A i \in 1 .. Len(terms) : Trimmed(recent_kills)[i] = recent_kills[d + i]
  BY <1>3, <1>4, <1>5
<1>7. QED BY <1>2, <1>5, <1>6

\* Hence a trim keeps the two sequences aligned.
LEMMA TrimKeeps ==
  ASSUME TypeOK, Aligned, recent_kills' = Trimmed(recent_kills), UNCHANGED terms
  PROVE  Aligned'
<1>1. /\ Len(recent_kills') = Len(terms)
      /\ \A i \in 1 .. Len(terms) : recent_kills'[i] = terms[i].age
  BY TrimAligned
<1>2. /\ Len(terms) \in Nat
      /\ \A i \in 1 .. Len(terms) : terms[i].age <= Window
      /\ \A i, j \in 1 .. Len(terms) : i <= j => terms[i].age >= terms[j].age
  BY WindowTypes DEF Aligned
<1>3. QED BY <1>1, <1>2 DEF Aligned

\* Older is monotone, which keeps the oldest entry at the front.
LEMMA OlderMonotone ==
  ASSUME NEW cap \in Nat, NEW a \in 0 .. cap, NEW b \in 0 .. cap, a >= b
  PROVE  Older(a, cap) >= Older(b, cap)
  BY DEF Older

\* Time passes: both sequences age together, and the SIGTERMs that leave the
\* window join the stale prefix.
LEMMA ElapseKeeps ==
  ASSUME TypeOK, Aligned, Elapse
  PROVE  /\ Aligned'
         /\ \E n \in 0 .. Len(terms) :
              /\ Len(terms') = Len(terms) - n
              /\ \A i \in 1 .. Len(terms') : terms'[i].by = terms[n + i].by
<1> DEFINE older == [i \in DOMAIN terms |-> [terms[i] EXCEPT !.age = Older(@, Window + 1)]]
           ages  == [i \in DOMAIN older |-> older[i].age]
           n     == Stale(ages)
           d     == Len(recent_kills) - Len(terms)
           R     == Len(recent_kills)
           T     == Len(terms)
<1>1. terms \in Seq(Term) BY WindowTypes
<1>2. terms' = SubSeq(older, n + 1, Len(older))
  BY DEF Elapse
<1>3. /\ ages \in Seq(Int) /\ Len(ages) = T
      /\ \A i \in 1 .. T : ages[i] = Older(terms[i].age, Window + 1)
      /\ Len(terms') = T - n
      /\ \A i \in 1 .. Len(terms') : /\ terms'[i].age = ages[n + i]
                                      /\ terms'[i].by = terms[n + i].by
  BY <1>1, <1>2, AgedTerms
<1> HIDE DEF ages, older
<1>4. /\ n \in 0 .. T
      /\ \A i \in 1 .. n : ages[i] > Window
      /\ n < T => ages[n + 1] <= Window
  BY <1>3, StaleChoice
<1> HIDE DEF n
<1>5. /\ Len(recent_kills') = R
      /\ \A i \in 1 .. R : recent_kills'[i] = Older(recent_kills[i], Window + 1)
  BY WindowTypes, AgedType, ConstantTypes DEF Elapse
<1>6. /\ d \in Nat /\ T \in Nat /\ R = d + T
      /\ \A i \in 1 .. T : /\ recent_kills[d + i] = terms[i].age
                            /\ terms[i].age \in 0 .. Window + 1
      /\ \A i \in 1 .. d : recent_kills[i] > Window
      /\ \A i, j \in 1 .. T : i <= j => terms[i].age >= terms[j].age
  BY WindowTypes DEF Aligned
<1>7. \A i \in 1 .. R : recent_kills[i] \in 0 .. Window + 1
  BY WindowTypes
<1> HIDE DEF R, T, d
<1>8. Len(recent_kills') - Len(terms') = d + n
  BY <1>3, <1>4, <1>5, <1>6
<1>9. \A i \in 1 .. T : recent_kills'[d + i] = ages[i] /\ ages[i] \in 0 .. Window + 1
  <2> SUFFICES ASSUME NEW i \in 1 .. T
               PROVE  recent_kills'[d + i] = ages[i] /\ ages[i] \in 0 .. Window + 1
    OBVIOUS
  <2>1. d + i \in 1 .. R BY <1>6
  <2>2. recent_kills'[d + i] = ages[i]
    BY <1>3, <1>5, <1>6, <2>1
  <2>3. ages[i] \in 0 .. Window + 1
    <3>1. terms[i].age \in 0 .. Window + 1 /\ Window + 1 \in Nat
      BY <1>6, ConstantTypes
    <3>2. Older(terms[i].age, Window + 1) \in 0 .. Window + 1
      BY <3>1, OlderType
    <3>3. QED BY <1>3, <3>2
  <2>4. QED BY <2>2, <2>3
<1>10. \A i, j \in 1 .. T : i <= j => ages[i] >= ages[j]
  BY <1>3, <1>6, OlderMonotone, ConstantTypes
<1>11. \A i \in 1 .. Len(terms') : /\ recent_kills'[d + n + i] = terms'[i].age
                                   /\ terms'[i].age <= Window
  <2> SUFFICES ASSUME NEW i \in 1 .. Len(terms')
               PROVE  /\ recent_kills'[d + n + i] = terms'[i].age
                      /\ terms'[i].age <= Window
    OBVIOUS
  <2>1. n + i \in 1 .. T /\ n + 1 \in 1 .. T /\ n < T /\ n + 1 <= n + i
    BY <1>3, <1>4, <1>6
  <2>2. recent_kills'[d + (n + i)] = ages[n + i] /\ terms'[i].age = ages[n + i]
    BY <1>3, <1>9, <2>1
  <2>3. ages[n + i] <= ages[n + 1] /\ ages[n + 1] <= Window
    BY <1>4, <1>10, <2>1
  <2>4. ages[n + i] <= Window
    BY <1>9, <2>1, <2>3, NumberAssumption
  <2>5. d + n + i = d + (n + i) BY <1>4, <1>6
  <2>6. QED BY <2>2, <2>4, <2>5
<1>12. \A i \in 1 .. d + n : recent_kills'[i] > Window
  <2> SUFFICES ASSUME NEW i \in 1 .. d + n PROVE recent_kills'[i] > Window
    OBVIOUS
  <2>1. CASE i <= d
    <3>1. i \in 1 .. R /\ i \in 1 .. d BY <1>6, <2>1
    <3>2. recent_kills[i] = Window + 1
      BY <1>6, <1>7, <3>1, NumberAssumption
    <3>3. QED BY <1>5, <3>1, <3>2, NumberAssumption DEF Older
  <2>2. CASE ~(i <= d)
    <3>1. i - d \in 1 .. n /\ i - d \in 1 .. T BY <1>4, <1>6, <2>2
    <3>2. recent_kills'[d + (i - d)] > Window BY <1>4, <1>9, <3>1
    <3>3. d + (i - d) = i BY <1>6
    <3>4. QED BY <3>2, <3>3
  <2>3. QED BY <2>1, <2>2
<1>13. \A i, j \in 1 .. Len(terms') : i <= j => terms'[i].age >= terms'[j].age
  <2> SUFFICES ASSUME NEW i \in 1 .. Len(terms'), NEW j \in 1 .. Len(terms'), i <= j
               PROVE  terms'[i].age >= terms'[j].age
    OBVIOUS
  <2>1. n + i \in 1 .. T /\ n + j \in 1 .. T /\ n + i <= n + j
    BY <1>3, <1>4, <1>6
  <2>2. QED BY <1>3, <1>10, <2>1
<1>14. Aligned'
  <2> DEFINE e == d + n
  <2>1. e \in Nat BY <1>4, <1>6
  <2>2. Len(recent_kills') - Len(terms') = e BY <1>8
  <2>3. /\ \A i \in 1 .. Len(terms') : /\ recent_kills'[e + i] = terms'[i].age
                                         /\ terms'[i].age <= Window
        /\ \A i \in 1 .. e : recent_kills'[i] > Window
    BY <1>11, <1>12
  <2> HIDE DEF e
  <2>4. Len(recent_kills') - Len(terms') >= 0 BY <2>1, <2>2
  <2>5. ASSUME NEW i \in 1 .. Len(terms')
        PROVE  /\ recent_kills'[(Len(recent_kills') - Len(terms')) + i] = terms'[i].age
               /\ terms'[i].age <= Window
    BY <2>2, <2>3
  <2>6. ASSUME NEW i \in 1 .. (Len(recent_kills') - Len(terms'))
        PROVE  recent_kills'[i] > Window
    BY <2>2, <2>3
  <2>7. QED BY <1>13, <2>4, <2>5, <2>6, Zenon DEF Aligned
<1>15. QED BY <1>3, <1>4, <1>14 DEF T

\* A delivered SIGTERM joins both sequences at the young end.
LEMMA TermKeeps ==
  ASSUME TypeOK, Aligned, TermDelivered
  PROVE  Aligned'
<1> DEFINE R == Len(recent_kills)
           T == Len(terms)
           d == R - T
<1>1. /\ recent_kills' = Append(recent_kills, 0)
      /\ terms' = Append(terms, [by |-> shot.by, age |-> 0])
  BY DEF TermDelivered
<1>2. /\ Len(recent_kills') = R + 1 /\ recent_kills'[R + 1] = 0
      /\ \A i \in 1 .. R : recent_kills'[i] = recent_kills[i]
  BY <1>1, WindowTypes
<1>3. /\ Len(terms') = T + 1 /\ terms'[T + 1] = [by |-> shot.by, age |-> 0]
      /\ \A i \in 1 .. T : terms'[i] = terms[i]
  BY <1>1, WindowTypes
<1>4. /\ d \in Nat /\ T \in Nat /\ R = d + T
      /\ \A i \in 1 .. T : /\ recent_kills[d + i] = terms[i].age
                            /\ terms[i].age <= Window
                            /\ terms[i].age \in 0 .. Window + 1
      /\ \A i \in 1 .. d : recent_kills[i] > Window
      /\ \A i, j \in 1 .. T : i <= j => terms[i].age >= terms[j].age
  <2>1. /\ d >= 0
        /\ \A i \in 1 .. T : /\ recent_kills[d + i] = terms[i].age
                              /\ terms[i].age <= Window
        /\ \A i \in 1 .. d : recent_kills[i] > Window
        /\ \A i, j \in 1 .. T : i <= j => terms[i].age >= terms[j].age
    BY Zenon DEF Aligned
  <2>2. R \in Nat /\ T \in Nat /\ \A i \in 1 .. T : terms[i].age \in 0 .. Window + 1
    BY WindowTypes, Zenon
  <2>3. d \in Nat /\ R = d + T
    <3> HIDE DEF R, T
    <3> QED BY <2>1, <2>2
  <2>4. QED BY <2>1, <2>2, <2>3, Zenon
<1>5. terms'[T + 1].age = 0 BY <1>3
<1> HIDE DEF R, T
<1>6. \A i \in 1 .. Len(terms') : /\ recent_kills'[d + i] = terms'[i].age
                                  /\ terms'[i].age <= Window
  <2> SUFFICES ASSUME NEW i \in 1 .. Len(terms')
               PROVE  /\ recent_kills'[d + i] = terms'[i].age
                      /\ terms'[i].age <= Window
    OBVIOUS
  <2>1. CASE i \in 1 .. T
    <3>1. d + i \in 1 .. R BY <1>4, <2>1
    <3>2. QED BY <1>2, <1>3, <1>4, <2>1, <3>1, Zenon
  <2>2. CASE i = T + 1
    <3>1. d + (T + 1) = R + 1 BY <1>4
    <3>2. QED BY <1>2, <1>5, <2>2, <3>1, NumberAssumption
  <2>3. QED BY <1>3, <1>4, <2>1, <2>2
<1>7. \A i, j \in 1 .. Len(terms') : i <= j => terms'[i].age >= terms'[j].age
  <2> SUFFICES ASSUME NEW i \in 1 .. Len(terms'), NEW j \in 1 .. Len(terms'), i <= j
               PROVE  terms'[i].age >= terms'[j].age
    OBVIOUS
  <2>1. CASE j \in 1 .. T
    <3>1. i \in 1 .. T BY <1>4, <2>1
    <3>2. terms'[i].age = terms[i].age /\ terms'[j].age = terms[j].age
      BY <1>3, <2>1, <3>1
    <3>3. terms[i].age >= terms[j].age BY <1>4, <2>1, <3>1
    <3>4. QED BY <3>2, <3>3
  <2>2. CASE i \in 1 .. T /\ j = T + 1
    <3>1. terms'[i] = terms[i] BY <1>3, <2>2
    <3>2. terms[i].age \in 0 .. Window + 1 BY <1>4, <2>2
    <3>3. terms'[i].age >= 0 BY <3>1, <3>2, NumberAssumption
    <3>4. QED BY <1>5, <2>2, <3>3
  <2>3. CASE i = T + 1 /\ j = T + 1
    BY <1>5, <2>3
  <2>4. QED BY <1>3, <1>4, <2>1, <2>2, <2>3
<1>8. Len(recent_kills') - Len(terms') = d
  <2>1. (R + 1) - (T + 1) = d BY <1>4
  <2>2. QED BY <1>2, <1>3, <2>1, Zenon
<1>9. \A i \in 1 .. d : recent_kills'[i] > Window
  <2> SUFFICES ASSUME NEW i \in 1 .. d PROVE recent_kills'[i] > Window
    OBVIOUS
  <2>1. i \in 1 .. R BY <1>4
  <2>2. recent_kills[i] > Window BY <1>4
  <2>3. QED BY <1>2, <2>1, <2>2
<1>10. QED BY <1>4, <1>6, <1>7, <1>8, <1>9 DEF Aligned

\* The four ways a step can move the window.
LEMMA NextAligned ==
  ASSUME TypeOK, Aligned, [Next]_vars
  PROVE  Aligned'
<1>1. \/ Elapse
      \/ TermDelivered
      \/ recent_kills' = Trimmed(recent_kills) /\ UNCHANGED terms
      \/ UNCHANGED <<recent_kills, terms>>
  BY DEF Next, OperatingSystem, Actuator, Operator, vars, govVars, Spawn, Exit,
         TickSucceeds, Tick, TickFails, Hold, Fire, TermFailed, StartEscalation,
         Escalate, SendSigkill, RawKill, EndActuation, ManualKill, ManualForceKill
<1>2. QED
  BY <1>1, ElapseKeeps, TermKeeps, TrimKeeps DEF Aligned

\* The budget: only Fire puts an automated SIGTERM in flight, and only after
\* the trimmed window has room.
LEMMA NextCounted ==
  ASSUME TypeOK, WindowInv, [Next]_vars, MaxKills > 0
  PROVE  /\ \A j \in 1 .. Len(terms') : terms'[j].by = "auto" => j <= MaxKills
         /\ pc' = "term" /\ shot'.by = "auto" => Len(terms') < MaxKills
<1>1. /\ \A j \in 1 .. Len(terms) : terms[j].by = "auto" => j <= MaxKills
      /\ pc = "term" /\ shot.by = "auto" => Len(terms) < MaxKills
  BY DEF WindowInv, Counted
<1>2. CASE Elapse
  <2>1. PICK n \in 0 .. Len(terms) :
          /\ Len(terms') = Len(terms) - n
          /\ \A i \in 1 .. Len(terms') : terms'[i].by = terms[n + i].by
    BY <1>2, ElapseKeeps DEF WindowInv
  <2>2. Len(terms) \in Nat BY WindowTypes
  <2>3. ASSUME NEW j \in 1 .. Len(terms'), terms'[j].by = "auto"
        PROVE  j <= MaxKills
    <3>1. n + j \in 1 .. Len(terms) /\ terms[n + j].by = "auto"
      BY <2>1, <2>2, <2>3
    <3>2. QED BY <1>1, <2>2, <3>1, NumberAssumption
  <2>4. pc' = "idle" BY <1>2 DEF Elapse
  <2>5. QED BY <2>3, <2>4
<1>3. CASE TermDelivered
  <2>1. terms' = Append(terms, [by |-> shot.by, age |-> 0]) /\ pc = "term"
    BY <1>3 DEF TermDelivered
  <2>2. /\ Len(terms) \in Nat /\ Len(terms') = Len(terms) + 1
        /\ terms'[Len(terms) + 1] = [by |-> shot.by, age |-> 0]
        /\ \A i \in 1 .. Len(terms) : terms'[i] = terms[i]
    BY <2>1, WindowTypes
  <2>3. terms'[Len(terms) + 1].by = shot.by BY <2>2
  <2>4. pc' # "term" BY <1>3 DEF TermDelivered, After
  <2>5. ASSUME NEW j \in 1 .. Len(terms'), terms'[j].by = "auto"
        PROVE  j <= MaxKills
    <3>1. CASE j \in 1 .. Len(terms) BY <1>1, <2>2, <2>5, <3>1
    <3>2. CASE j = Len(terms) + 1
      BY <1>1, <2>1, <2>2, <2>3, <2>5, <3>2, NumberAssumption
    <3>3. QED BY <2>2, <3>1, <3>2
  <2>6. QED BY <2>4, <2>5
<1>4. ASSUME NEW p \in Pids, NEW token \in Captures, Fire(p, token)
      PROVE  UNCHANGED terms /\ Len(terms) < MaxKills
  <2>1. UNCHANGED terms /\ ~RateLimitExceeded(Trimmed(recent_kills))
    BY <1>4 DEF Fire
  <2>2. Len(Trimmed(recent_kills)) = Len(terms)
    BY TrimAligned DEF WindowInv
  <2>3. QED BY <2>1, <2>2, WindowTypes, NumberAssumption DEF RateLimitExceeded
<1>5. ASSUME NEW p \in Pids, NEW token \in Captures, ManualKill(p, token)
      PROVE  UNCHANGED terms /\ shot'.by = "manual"
  BY <1>5 DEF ManualKill, Capture
<1>6. \/ Elapse
      \/ TermDelivered
      \/ \E p \in Pids, token \in Captures : Fire(p, token)
      \/ \E p \in Pids, token \in Captures : ManualKill(p, token)
      \/ UNCHANGED terms /\ (pc' # "term" \/ UNCHANGED <<pc, shot>>)
  BY DEF Next, OperatingSystem, Actuator, Operator, vars, ctlVars, Spawn, Exit,
         TickSucceeds, Tick, TickFails, StartActuation, Hold, TermFailed, After,
         StartEscalation, Escalate, SendSigkill, RawKill, EndActuation, ManualForceKill
<1>7. QED
  BY <1>1, <1>2, <1>3, <1>4, <1>5, <1>6

\* Among places 1 .. MaxKills there are at most MaxKills automated SIGTERMs.
LEMMA WindowImpliesRateLimit ==
  ASSUME TypeOK, WindowInv
  PROVE  RateLimit
<1> SUFFICES ASSUME MaxKills > 0
             PROVE  Cardinality({j \in 1 .. Len(terms) : terms[j].by = "auto"}) <= MaxKills
  BY DEF RateLimit
<1> DEFINE A == {j \in 1 .. Len(terms) : terms[j].by = "auto"}
<1>1. A \subseteq 1 .. MaxKills
  BY WindowTypes, NumberAssumption DEF WindowInv, Counted
<1>2. IsFiniteSet(1 .. MaxKills) /\ Cardinality(1 .. MaxKills) = MaxKills
  <2>1. 1 \in Int /\ MaxKills \in Int BY NumberAssumption
  <2>2. /\ IsFiniteSet(1 .. MaxKills)
        /\ Cardinality(1 .. MaxKills) = IF 1 > MaxKills THEN 0 ELSE MaxKills - 1 + 1
    BY <2>1, FS_Interval
  <2>3. QED BY <2>2, NumberAssumption
<1>3. Cardinality(A) <= Cardinality(1 .. MaxKills)
  BY <1>1, <1>2, FS_Subset
<1>4. QED BY <1>2, <1>3

\* The rate limit holds for every window, budget and grace period, with the
\* operator killing at will, ticks failing, processes being missed and PIDs
\* being reused: never more than MaxKills automated SIGTERMs per window.
THEOREM RateLimitHolds == Spec => []RateLimit
<1>1. Init => WindowInv
  BY DEF Init, WindowInv, Aligned, Counted
<1>2. TypeOK /\ WindowInv /\ [Next]_vars => WindowInv'
  <2> SUFFICES ASSUME TypeOK, WindowInv, [Next]_vars PROVE WindowInv'
    OBVIOUS
  <2>1. Aligned' BY NextAligned DEF WindowInv
  <2>2. Counted' BY NextCounted DEF Counted
  <2>3. QED BY <2>1, <2>2 DEF WindowInv
<1>3. TypeOK /\ WindowInv => RateLimit
  BY WindowImpliesRateLimit
<1>4. QED
  BY <1>1, <1>2, <1>3, TypeCorrect, PTL DEF Spec

----------------------------------------------------------------------------
(* The PID-reuse guard through a pidfd                                     *)

\* Instances are never shared; a captured identity (pidfd or starttime) is of
\* an instance that lives, if at all, at the PID it was captured for and whose
\* last SIGTERM is as old as the entry; and the PIDs still to escalate have had
\* their grace period.
OneHome ==
  /\ \A p \in DOMAIN proc : proc[p].inst <= spawned
  /\ \A p, q \in DOMAIN proc : proc[p].inst = proc[q].inst => p = q

IdOfEntry ==
  \A p \in DOMAIN pending_kills : pending_kills[p].token # "none" =>
    /\ pending_kills[p].inst <= spawned
    /\ \A q \in DOMAIN proc : proc[q].inst = pending_kills[p].inst =>
         q = p /\ termed[proc[q].inst] = pending_kills[p].age

IdOfShot ==
  pc = "term" /\ shot.token # "none" =>
    /\ shot.inst <= spawned
    /\ \A q \in DOMAIN proc : proc[q].inst = shot.inst => q = shot.pid

Escalating ==
  /\ pc = "kill" => shot.token = "starttime"
  /\ pc = "escalate" \/ (pc = "kill" /\ shot.by = "auto") =>
       \A p \in todo : p \in DOMAIN pending_kills /\ pending_kills[p].age >= Grace

KillInv == OneHome /\ IdOfEntry /\ IdOfShot /\ Escalating

\* A step that starts no process, delivers no SIGTERM and lets no time pass:
\* processes may leave and entries may leave, what stays keeps its identity.
Quiet ==
  /\ spawned' = spawned /\ termed' = termed
  /\ DOMAIN proc' \subseteq DOMAIN proc
  /\ \A p \in DOMAIN proc' : proc'[p].inst = proc[p].inst
  /\ DOMAIN pending_kills' \subseteq DOMAIN pending_kills
  /\ \A p \in DOMAIN pending_kills' :
       /\ pending_kills'[p].age = pending_kills[p].age
       /\ pending_kills'[p].token = pending_kills[p].token
       /\ pending_kills'[p].inst = pending_kills[p].inst

LEMMA QuietKeeps ==
  ASSUME OneHome, IdOfEntry, Quiet
  PROVE  OneHome' /\ IdOfEntry'
  BY DEF OneHome, IdOfEntry, Quiet

LEMMA QuietShot ==
  ASSUME IdOfShot, Quiet, pc' # "term" \/ UNCHANGED <<pc, shot>>
  PROVE  IdOfShot'
  BY DEF IdOfShot, Quiet

\* Marking an entry, and dooming a process, change no identity.
LEMMA ReachQuiet ==
  ASSUME TypeOK, NEW p, NEW by, NEW via, KillReaches(p, by, via), UNCHANGED <<spawned, termed>>
  PROVE  Quiet /\ DOMAIN pending_kills' = DOMAIN pending_kills
  BY DEF KillReaches, Quiet, TypeOK, PidMap, Process, Pending

LEMMA AbortQuiet ==
  ASSUME TypeOK, NEW p, KillAborted(p), UNCHANGED <<spawned, termed>>
  PROVE  Quiet /\ DOMAIN pending_kills' = DOMAIN pending_kills
  BY DEF KillAborted, Quiet, TypeOK, PidMap, Pending

\* send_sigkill: what it leaves alone, and that through a pidfd it only
\* reaches the instance of the entry.
LEMMA SigkillQuiet ==
  ASSUME TypeOK, IdOfEntry, NEW p \in Pids, NEW by \in Sources, NEW done,
         SendSigkill(p, by, done),
         by = "auto" => p \in DOMAIN pending_kills /\ pending_kills[p].age >= Grace
  PROVE  /\ Quiet /\ DOMAIN pending_kills' = DOMAIN pending_kills
         /\ \/ pc' = done
            \/ pc' = "kill" /\ shot'.token = "starttime" /\ shot'.by = by
         /\ PidfdKillSafe'
<1> DEFINE pk == pending_kills[p]
           byStart == /\ p \in DOMAIN pending_kills /\ pk.token = "starttime"
                      /\ Alive(p, pk.inst)
           byFd == /\ p \in DOMAIN pending_kills /\ pk.token = "pidfd"
                   /\ Alive(p, pk.inst)
<1>0. UNCHANGED <<spawned, termed>>
  BY DEF SendSigkill
<1>1. CASE byStart
  <2>1. /\ pc' = "kill" /\ delivered' = Nothing
        /\ shot' = [pid |-> p, by |-> by, token |-> pk.token, inst |-> pk.inst]
        /\ UNCHANGED <<proc, pending_kills>>
    BY <1>1 DEF SendSigkill
  <2>2. Quiet BY <1>0, <2>1 DEF Quiet
  <2>3. QED BY <1>1, <2>1, <2>2 DEF PidfdKillSafe, Nothing
<1>2. CASE ~byStart /\ byFd /\ KillReaches(p, by, "pidfd")
  <2>1. /\ p \in DOMAIN proc /\ proc[p].inst = pk.inst
        /\ termed[proc[p].inst] = pk.age
    BY <1>2 DEF Alive, IdOfEntry
  <2>2. delivered' = [sig |-> "KILL", by |-> by, via |-> "pidfd", inst |-> proc[p].inst]
    BY <1>2 DEF KillReaches
  <2>3. pk.age \in Nat BY <1>2 DEF TypeOK, PidMap, Pending
  <2>4. KilledInTurn'
    BY <1>0, <2>1, <2>2, <2>3 DEF KilledInTurn
  <2>5. pc' = done BY <1>2 DEF SendSigkill
  <2>6. QED BY <1>0, <1>2, <2>4, <2>5, ReachQuiet DEF PidfdKillSafe
<1>3. CASE ~byStart /\ KillErrs
  <2>1. pc' = done BY <1>3 DEF SendSigkill
  <2>2. QED BY <1>0, <1>3, <2>1 DEF KillErrs, Quiet, PidfdKillSafe, Nothing
<1>4. CASE ~byStart /\ KillAborted(p)
  <2>1. pc' = done BY <1>4 DEF SendSigkill
  <2>2. QED BY <1>0, <1>4, <2>1, AbortQuiet DEF KillAborted, PidfdKillSafe, Nothing
<1>5. QED
  BY <1>1, <1>2, <1>3, <1>4 DEF SendSigkill

LEMMA NextKill ==
  ASSUME TypeOK, KillInv, [Next]_vars
  PROVE  KillInv'
<1> USE DEF osVars, tickVars, govVars, ctlVars
<1>0. OneHome /\ IdOfEntry /\ IdOfShot /\ Escalating
  BY DEF KillInv
<1>1. ASSUME NEW p \in Pids, NEW name \in Programs, Spawn(p, name)
      PROVE  KillInv'
  <2>1. /\ DOMAIN proc' = DOMAIN proc \cup {p} /\ p \notin DOMAIN proc
        /\ proc'[p].inst = spawned + 1 /\ spawned' = spawned + 1
        /\ \A q \in DOMAIN proc : proc'[q] = proc[q]
        /\ UNCHANGED <<pending_kills, termed, pc, todo, shot>>
    BY <1>1 DEF Spawn, Put
  <2>2. /\ spawned \in Nat
        /\ \A q \in DOMAIN proc : proc[q].inst \in Nat
        /\ \A q \in DOMAIN pending_kills : pending_kills[q].inst \in Nat
        /\ shot.inst \in Nat
    <3>1. Instances \cup {0} \subseteq Nat BY NumberAssumption DEF Instances
    <3>2. \A q \in DOMAIN proc : proc[q].inst \in Instances
      BY DEF TypeOK, PidMap, Process
    <3>3. \A q \in DOMAIN pending_kills : pending_kills[q].inst \in Instances \cup {0}
      BY DEF TypeOK, PidMap, Pending
    <3>4. shot.inst \in Instances \cup {0} /\ spawned \in Nat
      BY NumberAssumption DEF TypeOK
    <3>5. QED BY <3>1, <3>2, <3>3, <3>4
  <2>3. OneHome'
    BY <1>0, <2>1, <2>2 DEF OneHome
  <2>4. IdOfEntry'
    BY <1>0, <2>1, <2>2 DEF IdOfEntry
  <2>5. IdOfShot'
    BY <1>0, <2>1, <2>2 DEF IdOfShot
  <2>6. Escalating'
    BY <1>0, <2>1 DEF Escalating
  <2>7. QED BY <2>3, <2>4, <2>5, <2>6 DEF KillInv
<1>2. ASSUME NEW p \in Pids, Exit(p)
      PROVE  KillInv'
  <2>1. Quiet /\ UNCHANGED <<pc, shot, todo, pending_kills>>
    BY <1>2 DEF Exit, Without, Quiet
  <2>2. Escalating' BY <1>0, <2>1 DEF Escalating
  <2>3. QED BY <1>0, <2>1, <2>2, QuietKeeps, QuietShot DEF KillInv
<1>3. CASE Elapse
  <2>1. /\ pc' = "idle" /\ UNCHANGED <<proc, spawned>>
        /\ pending_kills' = [p \in DOMAIN pending_kills |->
                               [pending_kills[p] EXCEPT !.age = Older(@, Grace)]]
        /\ termed' = [i \in Instances |->
                        IF termed[i] = Never THEN Never ELSE Older(termed[i], Grace)]
    BY <1>3 DEF Elapse
  <2>2. \A p \in DOMAIN pending_kills :
          /\ pending_kills'[p].age = Older(pending_kills[p].age, Grace)
          /\ pending_kills'[p].token = pending_kills[p].token
          /\ pending_kills'[p].inst = pending_kills[p].inst
          /\ pending_kills[p].age \in Nat
    BY <2>1 DEF TypeOK, PidMap, Pending
  <2>3. \A q \in DOMAIN proc : proc[q].inst \in Instances
    BY DEF TypeOK, PidMap, Process
  <2>4. ASSUME NEW p \in DOMAIN pending_kills, NEW q \in DOMAIN proc,
               termed[proc[q].inst] = pending_kills[p].age
        PROVE  termed'[proc[q].inst] = pending_kills'[p].age
    BY <2>1, <2>2, <2>3, <2>4
  <2>5. DOMAIN pending_kills' = DOMAIN pending_kills BY <2>1
  <2>6. IdOfEntry'
    <3>1. ASSUME NEW p \in DOMAIN pending_kills', pending_kills'[p].token # "none"
          PROVE  /\ pending_kills'[p].inst <= spawned'
                 /\ \A q \in DOMAIN proc' : proc'[q].inst = pending_kills'[p].inst =>
                      q = p /\ termed'[proc'[q].inst] = pending_kills'[p].age
      <4>1. p \in DOMAIN pending_kills BY <2>5
      <4>2. /\ pending_kills'[p].inst = pending_kills[p].inst
            /\ pending_kills[p].token # "none"
        BY <2>2, <3>1, <4>1
      <4>3. /\ pending_kills[p].inst <= spawned
            /\ \A q \in DOMAIN proc : proc[q].inst = pending_kills[p].inst =>
                 q = p /\ termed[proc[q].inst] = pending_kills[p].age
        BY <1>0, <4>1, <4>2 DEF IdOfEntry
      <4>4. proc' = proc /\ spawned' = spawned BY <2>1
      <4>5. ASSUME NEW q \in DOMAIN proc, proc[q].inst = pending_kills[p].inst
            PROVE  q = p /\ termed'[proc[q].inst] = pending_kills'[p].age
        BY <2>4, <4>1, <4>3, <4>5
      <4>6. QED BY <4>2, <4>3, <4>4, <4>5
    <3>2. QED BY <3>1, Zenon DEF IdOfEntry
  <2>7. QED BY <1>0, <2>1, <2>6 DEF KillInv, OneHome, IdOfShot, Escalating
<1>4. CASE TickSucceeds
  <2>1. PICK seen : \E over, hot : Tick(seen, over, hot)
    BY <1>4 DEF TickSucceeds
  <2>2. /\ UNCHANGED <<proc, spawned, termed>> /\ pc' \in {"idle", "actuate"}
        /\ pending_kills' = Without(pending_kills, Exited(seen))
    BY <2>1 DEF Tick, ClearPending, StartActuation
  <2>3. Quiet BY <2>2 DEF Quiet, Without
  <2>4. QED BY <1>0, <2>2, <2>3, QuietKeeps, QuietShot DEF KillInv, Escalating
<1>5. CASE TickFails
  <2>1. Quiet /\ pc' \in {"idle", "actuate"}
    BY <1>5 DEF TickFails, Quiet, StartActuation
  <2>2. QED BY <1>0, <2>1, QuietKeeps, QuietShot DEF KillInv, Escalating
<1>6. ASSUME NEW p \in Pids, Hold(p)
      PROVE  KillInv'
  <2>1. Quiet /\ UNCHANGED <<pc, shot>> /\ pc = "actuate"
    BY <1>6 DEF Hold, Quiet, NextCandidate
  <2>2. QED BY <1>0, <2>1, QuietKeeps, QuietShot DEF KillInv, Escalating
<1>7. ASSUME NEW p \in Pids, NEW token \in Captures, NEW by \in Sources,
             Capture(p, by, token), UNCHANGED <<proc, spawned, pending_kills, termed>>
      PROVE  KillInv'
  <2>1. Quiet /\ pc' = "term"
    BY <1>7 DEF Quiet, Capture
  <2>2. IdOfShot'
    <3>1. shot'.pid = p /\ (p \notin DOMAIN proc => shot'.token = "none")
      BY <1>7 DEF Capture
    <3>2. shot'.token # "none" => p \in DOMAIN proc /\ shot'.inst = proc[p].inst
      BY <1>7 DEF Capture
    <3>3. QED BY <1>0, <1>7, <3>1, <3>2 DEF IdOfShot, OneHome
  <2>3. QED BY <1>0, <2>1, <2>2, QuietKeeps DEF KillInv, Escalating
<1>8. CASE TermDelivered
  <2> DEFINE p == shot.pid
             i == proc[p].inst
  <2>1. /\ pc = "term" /\ p \in DOMAIN proc /\ i \in Instances
        /\ UNCHANGED <<proc, spawned>> /\ termed' = [termed EXCEPT ![i] = 0]
        /\ pc' \in {"idle", "actuate"}
    BY <1>8 DEF TermDelivered, Deliverable, TypeOK, PidMap, Process, After
  <2>2. /\ DOMAIN pending_kills' = DOMAIN pending_kills \cup {p}
        /\ pending_kills'[p] = [age |-> 0, sigkill |-> FALSE,
                                token |-> shot.token, inst |-> shot.inst]
        /\ \A q \in DOMAIN pending_kills : q # p => pending_kills'[q] = pending_kills[q]
    BY <1>8 DEF TermDelivered, Register, Put
  <2>3. termed'[i] = 0 /\ \A k \in Instances : k # i => termed'[k] = termed[k]
    BY <2>1 DEF TypeOK
  <2>4. \A q \in DOMAIN proc : proc[q].inst \in Instances
    BY DEF TypeOK, PidMap, Process
  <2>5. ASSUME NEW e \in DOMAIN pending_kills', pending_kills'[e].token # "none"
        PROVE  /\ pending_kills'[e].inst <= spawned
               /\ \A q \in DOMAIN proc : proc[q].inst = pending_kills'[e].inst =>
                    q = e /\ termed'[proc[q].inst] = pending_kills'[e].age
    <3>1. CASE e = p
      <4>1. shot.token # "none" /\ pending_kills'[e].inst = shot.inst
            /\ pending_kills'[e].age = 0
        BY <2>2, <2>5, <3>1
      <4>2. QED BY <1>0, <2>1, <2>3, <3>1, <4>1 DEF IdOfShot
    <3>2. CASE e # p
      <4>1. e \in DOMAIN pending_kills /\ pending_kills'[e] = pending_kills[e]
        BY <2>2, <3>2
      <4>2. /\ pending_kills[e].inst <= spawned
            /\ \A q \in DOMAIN proc : proc[q].inst = pending_kills[e].inst =>
                 q = e /\ termed[proc[q].inst] = pending_kills[e].age
        BY <1>0, <2>5, <4>1 DEF IdOfEntry
      <4>3. \A q \in DOMAIN proc : proc[q].inst = pending_kills[e].inst =>
              proc[q].inst # i
        BY <1>0, <2>1, <3>2, <4>2 DEF OneHome
      <4>4. QED BY <2>3, <2>4, <4>1, <4>2, <4>3
    <3>3. QED BY <3>1, <3>2
  <2>6. IdOfEntry' BY <2>1, <2>5 DEF IdOfEntry
  <2>7. QED BY <1>0, <2>1, <2>6 DEF KillInv, OneHome, IdOfShot, Escalating
<1>9. CASE TermFailed
  <2>1. Quiet /\ pc' \in {"idle", "actuate"}
    BY <1>9 DEF TermFailed, Quiet, After
  <2>2. QED BY <1>0, <2>1, QuietKeeps, QuietShot DEF KillInv, Escalating
<1>10. CASE StartEscalation
  <2>1. Quiet /\ pc' = "escalate" /\ UNCHANGED pending_kills /\ todo' = GraceExpired
    BY <1>10 DEF StartEscalation, Quiet
  <2>2. Escalating' BY <2>1 DEF Escalating, GraceExpired
  <2>3. QED BY <1>0, <2>1, <2>2, QuietKeeps, QuietShot DEF KillInv
<1>11. ASSUME NEW p \in Pids, Escalate(p)
       PROVE  KillInv'
  <2>1. /\ pc = "escalate" /\ p \in todo /\ todo' = todo \ {p}
        /\ SendSigkill(p, "auto", "escalate")
    BY <1>11 DEF Escalate
  <2>2. \A q \in todo : q \in DOMAIN pending_kills /\ pending_kills[q].age >= Grace
    BY <1>0, <2>1 DEF Escalating
  <2>3. /\ Quiet /\ DOMAIN pending_kills' = DOMAIN pending_kills
        /\ \/ pc' = "escalate"
           \/ pc' = "kill" /\ shot'.token = "starttime" /\ shot'.by = "auto"
    BY <1>0, <2>1, <2>2, SigkillQuiet
  <2>4. Escalating' BY <2>1, <2>2, <2>3 DEF Escalating, Quiet
  <2>5. QED BY <1>0, <2>3, <2>4, QuietKeeps, QuietShot DEF KillInv
<1>12. CASE RawKill
  <2>1. UNCHANGED <<spawned, termed, todo>> /\ pc = "kill"
        /\ pc' \in {"idle", "escalate"} /\ (pc' = "escalate" => shot.by = "auto")
    BY <1>12 DEF RawKill, After
  <2>2. Quiet /\ DOMAIN pending_kills' = DOMAIN pending_kills
    <3>1. CASE KillReaches(shot.pid, shot.by, shot.token)
      BY <2>1, <3>1, ReachQuiet
    <3>2. CASE KillErrs
      BY <2>1, <3>2 DEF KillErrs, Quiet
    <3>3. CASE KillAborted(shot.pid)
      BY <2>1, <3>3, AbortQuiet
    <3>4. QED BY <1>12, <3>1, <3>2, <3>3 DEF RawKill
  <2>3. Escalating' BY <1>0, <2>1, <2>2 DEF Escalating, Quiet
  <2>4. QED BY <1>0, <2>1, <2>2, <2>3, QuietKeeps, QuietShot DEF KillInv
<1>13. CASE EndActuation
  <2>1. Quiet /\ pc' = "idle"
    BY <1>13 DEF EndActuation, Quiet
  <2>2. QED BY <1>0, <2>1, QuietKeeps, QuietShot DEF KillInv, Escalating
<1>14. ASSUME NEW p \in Pids, NEW token \in Captures,
              Fire(p, token) \/ ManualKill(p, token)
       PROVE  KillInv'
  <2>1. UNCHANGED <<proc, spawned, pending_kills, termed>>
    BY <1>14 DEF Fire, ManualKill
  <2>2. \E by \in Sources : Capture(p, by, token)
    BY <1>14 DEF Fire, ManualKill
  <2>3. QED BY <1>7, <2>1, <2>2
<1>15. ASSUME NEW p \in Pids, ManualForceKill(p)
       PROVE  KillInv'
  <2>1. SendSigkill(p, "manual", "idle") BY <1>15 DEF ManualForceKill
  <2>2. /\ Quiet /\ DOMAIN pending_kills' = DOMAIN pending_kills
        /\ \/ pc' = "idle"
           \/ pc' = "kill" /\ shot'.token = "starttime" /\ shot'.by = "manual"
    BY <1>0, <2>1, SigkillQuiet
  <2>3. QED BY <1>0, <2>2, QuietKeeps, QuietShot DEF KillInv, Escalating
<1>16. CASE UNCHANGED vars
  <2>1. Quiet /\ UNCHANGED <<pc, shot, todo, pending_kills>>
    BY <1>16 DEF vars, Quiet
  <2>2. Escalating' BY <1>0, <2>1 DEF Escalating
  <2>3. QED BY <1>0, <2>1, <2>2, QuietKeeps, QuietShot DEF KillInv
<1>17. QED
  BY <1>1, <1>2, <1>3, <1>4, <1>5, <1>6, <1>8, <1>9, <1>10, <1>11, <1>12,
     <1>13, <1>14, <1>15, <1>16 DEF Next, OperatingSystem, Actuator, Operator

\* Only send_sigkill reports a SIGKILL through a pidfd.
LEMMA NextPidfd ==
  ASSUME TypeOK, KillInv, PidfdKillSafe, [Next]_vars
  PROVE  PidfdKillSafe'
<1>1. ASSUME NEW p \in Pids, Escalate(p)
      PROVE  PidfdKillSafe'
  <2>1. /\ pc = "escalate" /\ p \in todo /\ SendSigkill(p, "auto", "escalate")
    BY <1>1 DEF Escalate
  <2>2. p \in DOMAIN pending_kills /\ pending_kills[p].age >= Grace
    BY <2>1 DEF KillInv, Escalating
  <2>3. QED BY <2>1, <2>2, SigkillQuiet DEF KillInv
<1>2. ASSUME NEW p \in Pids, ManualForceKill(p)
      PROVE  PidfdKillSafe'
  <2>1. SendSigkill(p, "manual", "idle") BY <1>2 DEF ManualForceKill
  <2>2. QED BY <2>1, SigkillQuiet DEF KillInv
<1>3. CASE RawKill
  <2>1. shot.token = "starttime"
    BY <1>3 DEF RawKill, KillInv, Escalating
  <2>2. delivered' = Nothing \/ delivered'.via = "starttime"
    BY <1>3, <2>1 DEF RawKill, KillReaches, KillErrs, KillAborted
  <2>3. QED BY <2>2 DEF PidfdKillSafe, Nothing
<1>4. CASE UNCHANGED vars
  BY <1>4 DEF vars, PidfdKillSafe, KilledInTurn
<1>5. CASE TermDelivered
  BY <1>5 DEF TermDelivered, PidfdKillSafe
<1>6. CASE delivered' = Nothing
  BY <1>6 DEF Nothing, PidfdKillSafe
<1>7. QED
  BY <1>1, <1>2, <1>3, <1>4, <1>5, <1>6
  DEF Next, OperatingSystem, Actuator, Operator, Spawn, Exit, Elapse, TickSucceeds,
      Tick, TickFails, Hold, Fire, TermFailed, StartEscalation, EndActuation, ManualKill

\* The pidfd half of the PID-reuse guard is unconditional: whatever PIDs are
\* reused, ticks fail or processes are missed, a SIGKILL sent through a pidfd
\* reaches a process this monitor has SIGTERMed, and an automated one only
\* after the whole grace period.
THEOREM PidfdKillSafeHolds == Spec => []PidfdKillSafe
<1>1. Init => KillInv /\ PidfdKillSafe
  BY DEF Init, KillInv, OneHome, IdOfEntry, IdOfShot, Escalating, EmptyMap, NoShot,
         PidfdKillSafe, Nothing
<1>2. TypeOK /\ KillInv /\ [Next]_vars => KillInv'
  BY NextKill
<1>3. TypeOK /\ KillInv /\ PidfdKillSafe /\ [Next]_vars => PidfdKillSafe'
  BY NextPidfd
<1>4. QED
  BY <1>1, <1>2, <1>3, TypeCorrect, PTL DEF Spec

----------------------------------------------------------------------------
(* The tracker and the processes it shows                                  *)

\* While no PID is reused under the tracker, a row whose PID is in use is of
\* the process that lives there.
SameLife ==
  \A p \in DOMAIN lifecycle : p \in DOMAIN proc =>
    lifecycle[p].inst = proc[p].inst /\ lifecycle[p].name = proc[p].name

\* record_governor_audit is at work on the decisions.
Actuating == pc = "actuate" \/ (pc = "term" /\ shot.by = "auto")

\* The PIDs it still has to signal, the one in hand included.
Aimed == IF pc = "term" THEN todo \cup {shot.pid} ELSE todo

\* A step that neither starts a process, nor ticks, nor lets time pass, nor
\* captures an identity or delivers a SIGTERM: what the tracker shows stays,
\* what is pending stays, and the actuator only gets on with its list.
Minor ==
  /\ Quiet /\ DOMAIN pending_kills' = DOMAIN pending_kills
  /\ \A p \in DOMAIN proc' : proc'[p].name = proc[p].name
  /\ UNCHANGED <<lifecycle, annotated, breach_since, decisions, streak, exits>>
  /\ pc' = "term" => UNCHANGED <<pc, shot, todo>>
  /\ pc' = "actuate" => Actuating /\ todo' \subseteq todo

\* A SIGKILL, sent, refused or aborted, renames nobody.
LEMMA SigkillMinor ==
  ASSUME TypeOK, KillInv, NEW p \in Pids, NEW by \in Sources, NEW done \in {"idle", "escalate"},
         SendSigkill(p, by, done),
         by = "auto" => p \in DOMAIN pending_kills /\ pending_kills[p].age >= Grace
  PROVE  Minor
<1> USE DEF tickVars
<1>1. Quiet /\ DOMAIN pending_kills' = DOMAIN pending_kills /\ pc' \in {done, "kill"}
  BY SigkillQuiet DEF KillInv
<1>2. UNCHANGED <<lifecycle, annotated, breach_since, decisions, streak, exits>>
  BY DEF SendSigkill
<1>3. UNCHANGED proc \/ proc' = [proc EXCEPT ![p].doomed = TRUE]
  BY DEF SendSigkill, KillReaches, KillErrs, KillAborted
<1>4. \A q \in DOMAIN proc : proc[q] \in Process
  BY DEF TypeOK, PidMap
<1>5. \A q \in DOMAIN proc' : proc'[q].name = proc[q].name
  BY <1>3, <1>4 DEF Process
<1>6. QED BY <1>1, <1>2, <1>5 DEF Minor

\* What a step can be.
LEMMA Steps ==
  ASSUME TypeOK, KillInv, [Next]_vars
  PROVE  \/ \E p \in Pids, name \in Programs : Spawn(p, name)
         \/ TickSucceeds
         \/ TickFails
         \/ Elapse
         \/ \E p \in Pids, token \in Captures : Fire(p, token) \/ ManualKill(p, token)
         \/ TermDelivered
         \/ Minor
<1> USE DEF osVars, tickVars, govVars, ctlVars
<1>1. ASSUME NEW p \in Pids, Exit(p) PROVE Minor
  <2>1. proc' = Without(proc, {p}) /\ UNCHANGED <<spawned, termed, pending_kills>>
    BY <1>1 DEF Exit
  <2>2. Quiet /\ \A q \in DOMAIN proc' : proc'[q] = proc[q]
    BY <2>1 DEF Quiet, Without
  <2>3. UNCHANGED <<lifecycle, annotated, breach_since, decisions, streak, exits, pc, todo, shot>>
    BY <1>1 DEF Exit
  <2>4. QED BY <2>1, <2>2, <2>3 DEF Minor, Actuating
<1>2. ASSUME NEW p \in Pids, Hold(p) PROVE Minor
  BY <1>2 DEF Hold, NextCandidate, Minor, Quiet, Actuating
<1>3. CASE TermFailed
  <2>1. pc = "term" /\ pc' = After(shot.by) /\ UNCHANGED todo BY <1>3 DEF TermFailed
  <2>2. pc' # "term" /\ (pc' = "actuate" => Actuating) BY <2>1 DEF After, Actuating
  <2>3. QED BY <1>3, <2>1, <2>2 DEF TermFailed, Minor, Quiet
<1>4. CASE StartEscalation
  BY <1>4 DEF StartEscalation, Minor, Quiet
<1>5. ASSUME NEW p \in Pids, Escalate(p) PROVE Minor
  <2>1. pc = "escalate" /\ p \in todo /\ SendSigkill(p, "auto", "escalate")
    BY <1>5 DEF Escalate
  <2>2. p \in DOMAIN pending_kills /\ pending_kills[p].age >= Grace
    BY <2>1 DEF KillInv, Escalating
  <2>3. QED BY <2>1, <2>2, SigkillMinor
<1>6. CASE RawKill
  <2>1. /\ pc = "kill" /\ pc' = After(shot.by) /\ UNCHANGED <<spawned, termed>>
        /\ UNCHANGED <<lifecycle, annotated, breach_since, decisions, streak, exits>>
    BY <1>6 DEF RawKill
  <2>2. pc' \in {"idle", "escalate"} BY <2>1 DEF After
  <2>3. /\ Quiet /\ DOMAIN pending_kills' = DOMAIN pending_kills
        /\ \A q \in DOMAIN proc' : proc'[q].name = proc[q].name
    <3>1. CASE KillReaches(shot.pid, shot.by, shot.token)
      <4>1. Quiet /\ DOMAIN pending_kills' = DOMAIN pending_kills
        BY <2>1, <3>1, ReachQuiet
      <4>2. proc' = [proc EXCEPT ![shot.pid].doomed = TRUE] BY <3>1 DEF KillReaches
      <4>3. \A q \in DOMAIN proc : proc[q] \in Process BY DEF TypeOK, PidMap
      <4>4. QED BY <4>1, <4>2, <4>3 DEF Process
    <3>2. CASE KillErrs
      BY <2>1, <3>2 DEF KillErrs, Quiet
    <3>3. CASE KillAborted(shot.pid)
      <4>1. Quiet /\ DOMAIN pending_kills' = DOMAIN pending_kills
        BY <2>1, <3>3, AbortQuiet
      <4>2. QED BY <3>3, <4>1 DEF KillAborted
    <3>4. QED BY <1>6, <3>1, <3>2, <3>3 DEF RawKill
  <2>4. QED BY <2>1, <2>2, <2>3 DEF Minor
<1>7. CASE EndActuation
  BY <1>7 DEF EndActuation, Minor, Quiet
<1>8. ASSUME NEW p \in Pids, ManualForceKill(p) PROVE Minor
  <2>1. SendSigkill(p, "manual", "idle") BY <1>8 DEF ManualForceKill
  <2>2. QED BY <2>1, SigkillMinor
<1>9. CASE UNCHANGED vars
  BY <1>9 DEF vars, Minor, Quiet, Actuating
<1>10. QED
  BY <1>1, <1>2, <1>3, <1>4, <1>5, <1>6, <1>7, <1>8, <1>9
  DEF Next, OperatingSystem, Actuator, Operator
----------------------------------------------------------------------------
\* What a tick leaves in the tracker: the rows of what it saw are of what
\* lives there, and those it did not see are marked.
LEMMA TickRows ==
  ASSUME TypeOK, NEW seen \in SUBSET DOMAIN proc
  PROVE  /\ DOMAIN Tracked(seen) = seen \cup Exited(seen)
         /\ \A p \in seen : /\ p \notin Exited(seen)
                            /\ SameLife => Tracked(seen)[p].name = proc[p].name
                            /\ Tracked(seen)[p].inst = proc[p].inst
                            /\ ~Tracked(seen)[p].exited
         /\ \A p \in Exited(seen) : /\ p \in DOMAIN lifecycle /\ p \notin seen
                                    /\ ~lifecycle[p].exited
                                    /\ Tracked(seen)[p].name = lifecycle[p].name
                                    /\ Tracked(seen)[p].inst = lifecycle[p].inst
                                    /\ Tracked(seen)[p].exited
<1> DEFINE lc == Tracked(seen)
<1>1. \A p \in DOMAIN lifecycle : lifecycle[p] \in Row
  BY DEF TypeOK, PidMap
<1>2. DOMAIN lc = seen \cup Exited(seen)
  BY DEF Tracked
<1>3. ASSUME NEW p \in seen
      PROVE  /\ p \notin Exited(seen)
             /\ SameLife => lc[p].name = proc[p].name
             /\ lc[p].inst = proc[p].inst /\ ~lc[p].exited
  <2>1. p \notin Exited(seen) BY DEF Exited
  <2>2. lc[p] = IF p \in DOMAIN lifecycle /\ ~lifecycle[p].exited
                THEN [lifecycle[p] EXCEPT !.inst = proc[p].inst]
                ELSE [name |-> proc[p].name, exited |-> FALSE, inst |-> proc[p].inst]
    BY <2>1 DEF Tracked
  <2>3. CASE p \in DOMAIN lifecycle /\ ~lifecycle[p].exited
    <3>1. SameLife => lifecycle[p].name = proc[p].name BY <2>3 DEF SameLife
    <3>2. lifecycle[p] \in Row BY <1>1, <2>3
    <3>3. lc[p] = [lifecycle[p] EXCEPT !.inst = proc[p].inst] BY <2>2, <2>3
    <3>4. /\ lc[p].name = lifecycle[p].name /\ lc[p].inst = proc[p].inst
          /\ lc[p].exited = lifecycle[p].exited
      BY <3>2, <3>3 DEF Row
    <3>5. QED BY <2>1, <2>3, <3>1, <3>4
  <2>4. CASE ~(p \in DOMAIN lifecycle /\ ~lifecycle[p].exited)
    BY <2>1, <2>2, <2>4
  <2>5. QED BY <2>3, <2>4
<1>4. ASSUME NEW p \in Exited(seen)
      PROVE  /\ p \in DOMAIN lifecycle /\ p \notin seen /\ ~lifecycle[p].exited
             /\ lc[p].name = lifecycle[p].name /\ lc[p].inst = lifecycle[p].inst
             /\ lc[p].exited
  <2>1. p \in DOMAIN lifecycle /\ p \notin seen /\ ~lifecycle[p].exited BY DEF Exited
  <2>2. lc[p] = [lifecycle[p] EXCEPT !.exited = TRUE] BY DEF Tracked
  <2>3. QED BY <1>1, <2>1, <2>2 DEF Row
<1>5. QED BY <1>2, <1>3, <1>4

\* A row stays with the life it was opened for: a process is only started
\* where the tracker shows nothing.
LEMMA NextSameLife ==
  ASSUME "FastReuse" \notin Faults, TypeOK, KillInv, SameLife, [Next]_vars
  PROVE  SameLife'
<1> USE DEF osVars, tickVars, govVars, ctlVars
<1>1. ASSUME NEW p \in Pids, NEW name \in Programs, Spawn(p, name) PROVE SameLife'
  <2>1. /\ p \notin DOMAIN lifecycle /\ UNCHANGED lifecycle
        /\ DOMAIN proc' = DOMAIN proc \cup {p}
        /\ \A q \in DOMAIN proc : q # p => proc'[q] = proc[q]
    BY <1>1 DEF Spawn, Put, Fault
  <2>2. QED BY <2>1 DEF SameLife
<1>2. CASE TickSucceeds
  <2>1. PICK seen \in SUBSET DOMAIN proc : \E over, hot : Tick(seen, over, hot)
    BY <1>2 DEF TickSucceeds
  <2>2. lifecycle' = Tracked(seen) /\ UNCHANGED proc
    BY <2>1 DEF Tick
  <2>3. ASSUME NEW p \in DOMAIN lifecycle', p \in DOMAIN proc
        PROVE  lifecycle'[p].inst = proc[p].inst /\ lifecycle'[p].name = proc[p].name
    <3>1. DOMAIN Tracked(seen) = seen \cup Exited(seen) BY TickRows
    <3>5. p \in seen \/ p \in Exited(seen) BY <2>2, <3>1
    <3>2. CASE p \in seen BY <2>2, <3>2, TickRows
    <3>3. CASE p \in Exited(seen)
      <4>1. /\ p \in DOMAIN lifecycle /\ lifecycle'[p].name = lifecycle[p].name
            /\ lifecycle'[p].inst = lifecycle[p].inst
        BY <2>2, <3>3, TickRows
      <4>2. QED BY <2>3, <4>1 DEF SameLife
    <3>4. QED BY <3>2, <3>3, <3>5
  <2>4. QED BY <2>2, <2>3 DEF SameLife
<1>3. CASE Minor
  BY <1>3 DEF Minor, Quiet, SameLife
<1>4. CASE UNCHANGED <<proc, lifecycle>>
  BY <1>4 DEF SameLife
<1>5. QED
  BY <1>1, <1>2, <1>3, <1>4, Steps DEF TickFails, Elapse, Fire, ManualKill, TermDelivered
----------------------------------------------------------------------------
(* The policy                                                              *)

\* A candidate is tracked, running, and of a program the policy kills; the
\* actuator aims at candidates only.
Listed ==
  \A p \in Candidates(decisions) :
    /\ p \in DOMAIN lifecycle /\ ~lifecycle[p].exited
    /\ PolicyEvaluate(lifecycle[p].name) = "Kill"

OnTarget == Actuating => Aimed \subseteq Candidates(decisions)

CandidateInv == Listed /\ OnTarget

\* Only a tick touches rows and decisions.
LEMMA RowsKept ==
  ASSUME TypeOK, KillInv, [Next]_vars
  PROVE  TickSucceeds \/ UNCHANGED <<lifecycle, annotated, decisions, streak, exits>>
<1> USE DEF tickVars
<1>1. QED
  BY Steps DEF Spawn, TickFails, Elapse, Fire, ManualKill, TermDelivered, Minor

LEMMA NextListed ==
  ASSUME TypeOK, KillInv, Listed, [Next]_vars
  PROVE  Listed'
<1>1. CASE TickSucceeds
  <2>1. PICK seen, over, hot : Tick(seen, over, hot)
    BY <1>1 DEF TickSucceeds
  <2> DEFINE lc == Tracked(seen)
             pend == DOMAIN pending_kills \ Exited(seen)
             window == Trimmed(recent_kills)
             breach(p) == thermal \/ (p \in DOMAIN annotated /\ annotated[p].over)
  <2>2. /\ lifecycle' = lc
        /\ decisions' = [p \in DOMAIN lc |-> EvaluateProcess(p, lc[p], pend, breach(p), window)]
    BY <2>1 DEF Tick
  <2>3. ASSUME NEW p \in DOMAIN lc,
               EvaluateProcess(p, lc[p], pend, breach(p), window) = "SignalTermSent"
        PROVE  ~lc[p].exited /\ PolicyEvaluate(lc[p].name) = "Kill"
    <3>1. ~lc[p].exited /\ PolicyEvaluate(lc[p].name) # "Allow"
      BY <2>3 DEF EvaluateProcess
    <3>2. QED BY <3>1, ProgramAssumption DEF PolicyEvaluate
  <2> HIDE DEF lc, pend, window, breach
  <2>4. QED BY <2>2, <2>3 DEF Listed, Candidates
<1>2. CASE UNCHANGED <<lifecycle, decisions>>
  BY <1>2 DEF Listed, Candidates
<1>3. QED BY <1>1, <1>2, RowsKept

LEMMA NextOnTarget ==
  ASSUME TypeOK, KillInv, OnTarget, [Next]_vars
  PROVE  OnTarget'
<1> USE DEF osVars, tickVars, govVars, ctlVars
<1>1. CASE TickSucceeds \/ TickFails
  <2>1. StartActuation(decisions')
    BY <1>1 DEF TickSucceeds, Tick, TickFails
  <2>2. QED BY <2>1 DEF StartActuation, OnTarget, Actuating, Aimed, Candidates
<1>2. CASE UNCHANGED <<pc, todo, shot, decisions>>
  BY <1>2 DEF OnTarget, Actuating, Aimed, Candidates
<1>3. CASE \E p \in Pids, token \in Captures : Fire(p, token)
  <2>1. PICK p \in Pids, token \in Captures : Fire(p, token) BY <1>3
  <2>2. /\ pc = "actuate" /\ p \in todo /\ todo' = todo \ {p} /\ UNCHANGED decisions
        /\ pc' = "term" /\ shot'.pid = p
    BY <2>1 DEF Fire, NextCandidate, Capture
  <2>3. todo \subseteq Candidates(decisions) BY <2>2 DEF OnTarget, Actuating, Aimed, Candidates
  <2>4. QED BY <2>2, <2>3 DEF OnTarget, Aimed, Candidates
<1>4. CASE \E p \in Pids, token \in Captures : ManualKill(p, token)
  <2>1. pc' = "term" /\ shot'.by = "manual" BY <1>4 DEF ManualKill, Capture
  <2>2. QED BY <2>1 DEF OnTarget, Actuating
<1>5. CASE TermDelivered
  <2>1. /\ pc = "term" /\ pc' = After(shot.by) /\ UNCHANGED <<todo, decisions>>
    BY <1>5 DEF TermDelivered
  <2>2. pc' \in {"idle", "actuate"} /\ (pc' = "actuate" => Actuating)
    BY <2>1 DEF After, Actuating
  <2>3. QED BY <2>1, <2>2 DEF OnTarget, Actuating, Aimed, Candidates
<1>6. CASE Minor
  BY <1>6 DEF Minor, OnTarget, Actuating, Aimed
<1>7. QED BY <1>1, <1>2, <1>3, <1>4, <1>5, <1>6, Steps DEF Spawn, Elapse

\* Only send_sigterm delivers a SIGTERM.
LEMMA TermSteps ==
  ASSUME [Next]_vars
  PROVE  TermDelivered \/ UNCHANGED vars \/ delivered'.sig # "TERM"
<1>1. ASSUME NEW p, NEW by, NEW done, SendSigkill(p, by, done)
      PROVE  delivered'.sig # "TERM"
  BY <1>1 DEF SendSigkill, KillReaches, KillErrs, KillAborted, Nothing
<1>2. CASE RawKill
  BY <1>2 DEF RawKill, KillReaches, KillErrs, KillAborted, Nothing
<1>3. CASE delivered' = Nothing
  BY <1>3 DEF Nothing
<1>4. QED
  BY <1>1, <1>2, <1>3
  DEF Next, OperatingSystem, Actuator, Operator, Spawn, Exit, Elapse, TickSucceeds,
      Tick, TickFails, Hold, Fire, TermFailed, StartEscalation, EndActuation, ManualKill,
      Escalate, ManualForceKill

\* An automated SIGTERM goes to a candidate, and reaches the life its row
\* shows.
LEMMA TermHits ==
  ASSUME TypeOK, SameLife, CandidateInv, TermDelivered, AutoTerm'
  PROVE  LET p == shot.pid IN
         /\ pc = "term" /\ shot.by = "auto" /\ delivered'.inst = proc[p].inst
         /\ p \in DOMAIN proc /\ p \in DOMAIN lifecycle /\ UNCHANGED proc
         /\ lifecycle[p].inst = proc[p].inst
         /\ PolicyEvaluate(proc[p].name) = "Kill"
<1> DEFINE p == shot.pid
<1>1. /\ pc = "term" /\ p \in DOMAIN proc /\ UNCHANGED proc
      /\ delivered' = [sig |-> "TERM", by |-> shot.by, via |-> "none", inst |-> proc[p].inst]
  BY DEF TermDelivered, Deliverable, osVars
<1>2. shot.by = "auto" BY <1>1 DEF AutoTerm
<1>3. p \in Candidates(decisions)
  BY <1>1, <1>2 DEF CandidateInv, OnTarget, Actuating, Aimed
<1>4. p \in DOMAIN lifecycle /\ PolicyEvaluate(lifecycle[p].name) = "Kill"
  BY <1>3 DEF CandidateInv, Listed
<1>5. QED BY <1>1, <1>2, <1>4 DEF SameLife

LEMMA NextPolicy ==
  ASSUME TypeOK, SameLife, CandidateInv, PolicyObeyed, [Next]_vars
  PROVE  PolicyObeyed'
<1>1. CASE UNCHANGED vars
  BY <1>1 DEF vars, osVars, PolicyObeyed, AutoTerm
<1>2. CASE delivered'.sig # "TERM"
  BY <1>2 DEF PolicyObeyed, AutoTerm
<1>3. CASE TermDelivered
  <2> SUFFICES ASSUME AutoTerm' PROVE PolicyObeyed'
    BY DEF PolicyObeyed
  <2> DEFINE p == shot.pid
  <2>1. /\ delivered'.inst = proc[p].inst /\ p \in DOMAIN proc /\ UNCHANGED proc
        /\ PolicyEvaluate(proc[p].name) = "Kill"
    BY <1>3, TermHits
  <2>2. /\ proc[p].name \notin Whitelist
        /\ proc[p].name \in Blacklist \/ (proc[p].name \in AI /\ DefaultAiAction = "Kill")
    BY <2>1 DEF PolicyEvaluate
  <2>3. QED BY <2>1, <2>2 DEF PolicyObeyed
<1>4. QED BY <1>1, <1>2, <1>3, TermSteps

\* The policy is obeyed however ticks fail and processes are missed, as long
\* as no PID is given out again while the tracker still shows its last
\* holder: an automated SIGTERM never reaches an allowlisted program.
THEOREM PolicyObeyedHolds ==
  ASSUME "FastReuse" \notin Faults
  PROVE  Spec => []PolicyObeyed
<1> DEFINE Inv == KillInv /\ SameLife /\ CandidateInv /\ PolicyObeyed
<1>1. Init => Inv
  BY DEF Init, KillInv, OneHome, IdOfEntry, IdOfShot, Escalating, EmptyMap, NoShot,
         SameLife, CandidateInv, Listed, OnTarget, Actuating, Candidates, PolicyObeyed,
         AutoTerm, Nothing
<1>2. TypeOK /\ Inv /\ [Next]_vars => Inv'
  BY NextKill, NextSameLife, NextListed, NextOnTarget, NextPolicy DEF CandidateInv
<1>3. QED
  BY <1>1, <1>2, TypeCorrect, PTL DEF Spec

----------------------------------------------------------------------------
(* The sustain clock                                                       *)

\* A snapshot's readings are of the rows; the clock of a PID runs for the
\* instance its row shows, which breached in the last snapshot; while the
\* actuator is at work, one that has run since an earlier tick counts two; and
\* what is in hand has passed the gate.
Read ==
  \A p \in DOMAIN annotated :
    /\ p \in DOMAIN lifecycle /\ ~lifecycle[p].exited
    /\ annotated[p].inst = lifecycle[p].inst

Clocked ==
  \A p \in DOMAIN breach_since :
    /\ p \in DOMAIN lifecycle
    /\ streak[lifecycle[p].inst] >= 1
    /\ Actuating /\ breach_since[p] >= 1 => streak[lifecycle[p].inst] >= 2

Gated == pc = "term" /\ shot.by = "auto" => SustainMet(shot.pid)

SustainInv == Read /\ Clocked /\ Gated

\* A tick: the readings are of the new rows, a breach of the last snapshot
\* counts for the life it was read of, whether that is still there or not.
LEMMA TickClocks ==
  ASSUME TypeOK, SameLife, Read, Clocked, NEW seen \in SUBSET DOMAIN proc, NEW over, NEW hot,
         Tick(seen, over, hot)
  PROVE  Read' /\ Clocked'
<1>1. /\ lifecycle' = Tracked(seen)
      /\ annotated' = [p \in seen |-> [name |-> proc[p].name, inst |-> proc[p].inst,
                                       over |-> p \in over]]
      /\ breach_since' = [p \in Breaching |->
                            IF p \in DOMAIN breach_since THEN breach_since[p] ELSE 0]
      /\ streak' = [i \in Instances |->
                      IF i \in {annotated[p].inst : p \in Breaching}
                      THEN Older(streak[i], 2) ELSE 0]
  BY DEF Tick
<1>2. /\ DOMAIN Tracked(seen) = seen \cup Exited(seen)
      /\ \A p \in seen : /\ Tracked(seen)[p].inst = proc[p].inst
                         /\ ~Tracked(seen)[p].exited
      /\ \A p \in Exited(seen) : Tracked(seen)[p].inst = lifecycle[p].inst
  BY TickRows
<1>3. Read'
  BY <1>1, <1>2 DEF Read
<1>4. ASSUME NEW p \in Breaching
      PROVE  /\ p \in DOMAIN lifecycle' /\ p \in DOMAIN lifecycle
             /\ lifecycle'[p].inst = lifecycle[p].inst
             /\ lifecycle[p].inst = annotated[p].inst
             /\ annotated[p].inst \in Instances
  <2>1. p \in DOMAIN annotated BY DEF Breaching
  <2>2. /\ p \in DOMAIN lifecycle /\ ~lifecycle[p].exited
        /\ annotated[p].inst = lifecycle[p].inst
    BY <2>1 DEF Read
  <2>3. annotated[p].inst \in Instances
    BY <2>1 DEF TypeOK, PidMap, Reading
  <2>4. CASE p \in seen
    BY <1>1, <1>2, <2>2, <2>3, <2>4 DEF SameLife
  <2>5. CASE p \notin seen
    <3>1. p \in Exited(seen) BY <2>2, <2>5 DEF Exited
    <3>2. QED BY <1>1, <1>2, <2>2, <2>3, <3>1
  <2>6. QED BY <2>4, <2>5
<1>5. \A i \in Instances : streak[i] \in 0 .. 2
  BY DEF TypeOK
<1>6. ASSUME NEW p \in Breaching
      PROVE  /\ streak'[lifecycle'[p].inst] >= 1
             /\ breach_since'[p] >= 1 => streak'[lifecycle'[p].inst] >= 2
  <2> DEFINE i == annotated[p].inst
  <2>1. i \in Instances /\ lifecycle'[p].inst = i /\ lifecycle[p].inst = i
    BY <1>4
  <2>2. streak'[i] = Older(streak[i], 2) BY <1>1, <2>1
  <2>3. breach_since'[p] >= 1 => p \in DOMAIN breach_since BY <1>1
  <2>4. p \in DOMAIN breach_since => streak[i] >= 1 BY <2>1 DEF Clocked
  <2>5. streak[i] \in 0 .. 2 BY <1>5, <2>1
  <2> HIDE DEF i
  <2>6. QED BY <2>1, <2>2, <2>3, <2>4, <2>5 DEF Older
<1>7. DOMAIN breach_since' = Breaching BY <1>1
<1>8. Clocked' BY <1>4, <1>6, <1>7 DEF Clocked
<1>9. QED BY <1>3, <1>8

LEMMA NextSustain ==
  ASSUME "FastReuse" \notin Faults, "TickFails" \notin Faults, TypeOK, KillInv, SameLife,
         SustainInv, [Next]_vars
  PROVE  SustainInv'
<1> USE DEF osVars, tickVars, govVars, ctlVars
<1>0. Read /\ Clocked /\ Gated BY DEF SustainInv
<1>1. CASE TickSucceeds
  <2>1. PICK seen \in SUBSET DOMAIN proc : \E over, hot : Tick(seen, over, hot)
    BY <1>1 DEF TickSucceeds
  <2>2. Read' /\ Clocked' BY <1>0, <2>1, TickClocks
  <2>3. pc' # "term" BY <2>1 DEF Tick, StartActuation
  <2>4. QED BY <2>2, <2>3 DEF SustainInv, Gated
<1>2. CASE Elapse
  <2>1. /\ pc' = "idle" /\ UNCHANGED <<lifecycle, annotated, streak>>
        /\ DOMAIN breach_since' = DOMAIN breach_since
    BY <1>2 DEF Elapse
  <2>2. QED BY <1>0, <2>1 DEF SustainInv, Read, Clocked, Gated, Actuating
<1>3. CASE \E p \in Pids, token \in Captures : Fire(p, token)
  <2>1. PICK p \in Pids, token \in Captures : Fire(p, token) BY <1>3
  <2>2. /\ pc = "actuate" /\ SustainMet(p) /\ shot'.pid = p
        /\ UNCHANGED <<lifecycle, annotated, streak, breach_since>>
    BY <2>1 DEF Fire, NextCandidate, Capture
  <2>3. QED BY <1>0, <2>2 DEF SustainInv, Read, Clocked, Gated, Actuating, SustainMet
<1>4. CASE \E p \in Pids, token \in Captures : ManualKill(p, token)
  <2>1. /\ pc' = "term" /\ shot'.by = "manual"
        /\ UNCHANGED <<lifecycle, annotated, streak, breach_since>>
    BY <1>4 DEF ManualKill, Capture
  <2>2. QED BY <1>0, <2>1 DEF SustainInv, Read, Clocked, Gated, Actuating
<1>5. CASE TermDelivered
  <2>1. /\ pc = "term" /\ pc' = After(shot.by)
        /\ UNCHANGED <<lifecycle, annotated, streak, breach_since>>
    BY <1>5 DEF TermDelivered
  <2>2. pc' # "term" /\ (pc' = "actuate" => Actuating) BY <2>1 DEF After, Actuating
  <2>3. QED BY <1>0, <2>1, <2>2 DEF SustainInv, Read, Clocked, Gated, Actuating
<1>6. CASE Minor
  <2>1. /\ UNCHANGED <<lifecycle, annotated, streak, breach_since>>
        /\ pc' = "term" => UNCHANGED <<pc, shot>>
        /\ pc' = "actuate" => Actuating
    BY <1>6 DEF Minor
  <2>2. QED BY <1>0, <2>1 DEF SustainInv, Read, Clocked, Gated, Actuating, SustainMet
<1>7. CASE \E p \in Pids, name \in Programs : Spawn(p, name)
  <2>1. UNCHANGED <<lifecycle, annotated, streak, breach_since, pc, shot>>
    BY <1>7 DEF Spawn
  <2>2. QED BY <1>0, <2>1 DEF SustainInv, Read, Clocked, Gated, Actuating, SustainMet
<1>8. ~TickFails BY DEF TickFails, Fault
<1>9. QED BY <1>1, <1>2, <1>3, <1>4, <1>5, <1>6, <1>7, <1>8, Steps

LEMMA NextSustained ==
  ASSUME TypeOK, SameLife, CandidateInv, SustainInv, SustainedOnly, [Next]_vars
  PROVE  SustainedOnly'
<1>1. CASE UNCHANGED vars
  BY <1>1 DEF vars, SustainedOnly, AutoTerm
<1>2. CASE delivered'.sig # "TERM"
  BY <1>2 DEF SustainedOnly, AutoTerm
<1>3. CASE TermDelivered
  <2> SUFFICES ASSUME AutoTerm', Sustain > 0 PROVE streak'[delivered'.inst] >= 2
    BY DEF SustainedOnly
  <2> DEFINE p == shot.pid
  <2>1. /\ pc = "term" /\ shot.by = "auto"
        /\ delivered'.inst = proc[p].inst /\ lifecycle[p].inst = proc[p].inst
    BY <1>3, TermHits
  <2>2. p \in DOMAIN breach_since /\ breach_since[p] >= Sustain
    BY <2>1 DEF SustainInv, Gated, SustainMet
  <2>3. breach_since[p] \in Nat BY <2>2, NumberAssumption DEF TypeOK, PidMap
  <2>4. streak[lifecycle[p].inst] >= 2
    BY <2>1, <2>2, <2>3, NumberAssumption DEF SustainInv, Clocked, Actuating
  <2>5. UNCHANGED streak BY <1>3 DEF TermDelivered
  <2>6. QED BY <2>1, <2>4, <2>5
<1>4. QED BY <1>1, <1>2, <1>3, TermSteps

\* "A momentary breach must never fire": for every sustain window and tick
\* pattern, with processes missed by the collector, operator kills and exits
\* in between, an automated SIGTERM reaches an instance seen in breach twice
\* running.  Failed ticks and reuse under the tracker are excluded: with them
\* it does not hold.
THEOREM SustainedOnlyHolds ==
  ASSUME "FastReuse" \notin Faults, "TickFails" \notin Faults
  PROVE  Spec => []SustainedOnly
<1> DEFINE Inv == KillInv /\ SameLife /\ CandidateInv /\ SustainInv /\ SustainedOnly
<1>1. Init => Inv
  BY DEF Init, KillInv, OneHome, IdOfEntry, IdOfShot, Escalating, EmptyMap, NoShot,
         SameLife, CandidateInv, Listed, OnTarget, Actuating, Candidates,
         SustainInv, Read, Clocked, Gated, SustainedOnly, AutoTerm, Nothing
<1>2. TypeOK /\ Inv /\ [Next]_vars => Inv'
  BY NextKill, NextSameLife, NextListed, NextOnTarget, NextSustain, NextSustained
  DEF CandidateInv
<1>3. QED
  BY <1>1, <1>2, TypeCorrect, PTL DEF Spec

----------------------------------------------------------------------------
(* The pending kills                                                       *)

\* A row is marked as exited only when its process is gone.
ExitedGone == \A p \in DOMAIN lifecycle : lifecycle[p].exited => p \notin DOMAIN proc

\* The identity in hand is that of the row.
ShotTracked ==
  pc = "term" => /\ shot.pid \in DOMAIN lifecycle
                 /\ shot.token # "none" => shot.inst = lifecycle[shot.pid].inst

\* The entry whose starttime was compared is still there.
KillHeld ==
  pc = "kill" => /\ shot.pid \in DOMAIN pending_kills
                 /\ pending_kills[shot.pid].token = "starttime"
                 /\ shot.by = "auto" => pending_kills[shot.pid].age >= Grace

TrackInv == ExitedGone /\ ShotTracked /\ KillHeld /\ PendingIsTracked

\* With every process seen, a tick marks only what is gone, and drops the
\* pending kills of what it marks.
LEMMA TickTracks ==
  ASSUME "ReadMisses" \notin Faults, TypeOK, SameLife, TrackInv, TickSucceeds
  PROVE  ExitedGone' /\ PendingIsTracked'
<1>1. PICK over, hot : Tick(DOMAIN proc, over, hot)
  BY DEF TickSucceeds, Fault
<1> DEFINE gone == Exited(DOMAIN proc)
<1>2. /\ lifecycle' = Tracked(DOMAIN proc) /\ UNCHANGED proc
      /\ pending_kills' = Without(pending_kills, gone)
  BY <1>1 DEF Tick, ClearPending, osVars
<1>3. /\ DOMAIN lifecycle' = DOMAIN proc \cup gone
      /\ \A p \in DOMAIN proc : /\ p \notin gone /\ ~lifecycle'[p].exited
                                /\ lifecycle'[p].inst = proc[p].inst
      /\ \A p \in gone : p \notin DOMAIN proc /\ lifecycle'[p].exited
  BY <1>2, TickRows
<1>4. ExitedGone' BY <1>2, <1>3 DEF ExitedGone
<1>5. ASSUME NEW p \in DOMAIN pending_kills'
      PROVE  /\ p \in DOMAIN lifecycle' /\ ~lifecycle'[p].exited
             /\ pending_kills'[p].token # "none" => pending_kills'[p].inst = lifecycle'[p].inst
  <2>1. p \in DOMAIN pending_kills /\ p \notin gone /\ pending_kills'[p] = pending_kills[p]
    BY <1>2 DEF Without
  <2>2. /\ p \in DOMAIN lifecycle /\ ~lifecycle[p].exited
        /\ pending_kills[p].token # "none" => pending_kills[p].inst = lifecycle[p].inst
    BY <2>1 DEF TrackInv, PendingIsTracked
  <2>3. p \in DOMAIN proc BY <2>1, <2>2 DEF Exited
  <2>4. QED BY <1>3, <2>1, <2>2, <2>3 DEF SameLife
<1>6. QED BY <1>4, <1>5 DEF PendingIsTracked

\* The start of a SIGKILL by starttime.
LEMMA SigkillHeld ==
  ASSUME TypeOK, NEW p \in Pids, NEW by \in Sources, NEW done \in {"idle", "escalate"},
         SendSigkill(p, by, done),
         by = "auto" => p \in DOMAIN pending_kills /\ pending_kills[p].age >= Grace
  PROVE  KillHeld'
<1> DEFINE pk == pending_kills[p]
           byStart == /\ p \in DOMAIN pending_kills /\ pk.token = "starttime"
                      /\ Alive(p, pk.inst)
<1>1. CASE byStart
  <2>1. /\ shot'.pid = p /\ shot'.by = by /\ UNCHANGED pending_kills
    BY <1>1 DEF SendSigkill
  <2>2. QED BY <1>1, <2>1 DEF KillHeld
<1>2. CASE ~byStart
  BY <1>2 DEF SendSigkill, KillHeld
<1>3. QED BY <1>1, <1>2

LEMMA NextKillHeld ==
  ASSUME TypeOK, KillInv, KillHeld, [Next]_vars
  PROVE  KillHeld'
<1> USE DEF osVars, tickVars, govVars, ctlVars
<1>1. ASSUME NEW p \in Pids, Escalate(p) PROVE KillHeld'
  <2>1. pc = "escalate" /\ p \in todo /\ SendSigkill(p, "auto", "escalate")
    BY <1>1 DEF Escalate
  <2>2. p \in DOMAIN pending_kills /\ pending_kills[p].age >= Grace
    BY <2>1 DEF KillInv, Escalating
  <2>3. QED BY <2>1, <2>2, SigkillHeld
<1>2. ASSUME NEW p \in Pids, ManualForceKill(p) PROVE KillHeld'
  <2>1. SendSigkill(p, "manual", "idle") BY <1>2 DEF ManualForceKill
  <2>2. QED BY <2>1, SigkillHeld
<1>3. CASE UNCHANGED <<pc, shot, pending_kills>>
  BY <1>3 DEF KillHeld
<1>4. CASE pc' # "kill"
  BY <1>4 DEF KillHeld
<1>5. ASSUME NEW p \in Pids, Hold(p) PROVE pc' # "kill"
  BY <1>5 DEF Hold, NextCandidate
<1>6. ASSUME NEW p \in Pids, NEW token \in Captures, Fire(p, token) \/ ManualKill(p, token)
      PROVE  pc' # "kill"
  BY <1>6 DEF Fire, ManualKill, Capture
<1>7. CASE TermDelivered \/ TermFailed \/ RawKill
  BY <1>4, <1>7 DEF TermDelivered, TermFailed, RawKill, After
<1>8. CASE Elapse \/ TickSucceeds \/ TickFails
  BY <1>4, <1>8 DEF Elapse, TickSucceeds, Tick, TickFails, StartActuation
<1>9. QED
  BY <1>1, <1>2, <1>3, <1>4, <1>5, <1>6, <1>7, <1>8
  DEF Next, OperatingSystem, Actuator, Operator, Spawn, Exit, StartEscalation, EndActuation, vars

LEMMA NextTracked ==
  ASSUME "FastReuse" \notin Faults, "ReadMisses" \notin Faults, TypeOK, KillInv, SameLife,
         CandidateInv, TrackInv, [Next]_vars
  PROVE  TrackInv'
<1> USE DEF osVars, tickVars, govVars, ctlVars
<1>0. /\ ExitedGone /\ ShotTracked /\ PendingIsTracked /\ KillHeld'
  BY NextKillHeld DEF TrackInv
<1>1. CASE TickSucceeds
  <2>1. pc' # "term" BY <1>1 DEF TickSucceeds, Tick, StartActuation
  <2>2. QED BY <1>0, <1>1, <2>1, TickTracks DEF TrackInv, ShotTracked
<1>2. CASE Elapse
  <2>1. /\ pc' = "idle" /\ UNCHANGED <<lifecycle, proc>>
        /\ pending_kills' = [p \in DOMAIN pending_kills |->
                               [pending_kills[p] EXCEPT !.age = Older(@, Grace)]]
    BY <1>2 DEF Elapse
  <2>2. \A p \in DOMAIN pending_kills : /\ pending_kills'[p].token = pending_kills[p].token
                                        /\ pending_kills'[p].inst = pending_kills[p].inst
    BY <2>1 DEF TypeOK, PidMap, Pending
  <2>3. DOMAIN pending_kills' = DOMAIN pending_kills BY <2>1
  <2>4. QED BY <1>0, <2>1, <2>2, <2>3 DEF TrackInv, ExitedGone, ShotTracked, PendingIsTracked
<1>3. ASSUME NEW p \in Pids, NEW token \in Captures, Fire(p, token) \/ ManualKill(p, token)
      PROVE  TrackInv'
  <2>1. UNCHANGED <<lifecycle, proc, pending_kills>>
    BY <1>3 DEF Fire, ManualKill
  <2>2. \E by \in Sources : Capture(p, by, token)
    BY <1>3 DEF Fire, ManualKill
  <2>3. p \in DOMAIN lifecycle
    <3>1. CASE Fire(p, token)
      <4>1. pc = "actuate" /\ p \in todo BY <3>1 DEF Fire, NextCandidate
      <4>2. p \in Candidates(decisions) BY <4>1 DEF CandidateInv, OnTarget, Actuating, Aimed
      <4>3. QED BY <4>2 DEF CandidateInv, Listed
    <3>2. CASE ManualKill(p, token) BY <3>2 DEF ManualKill
    <3>3. QED BY <1>3, <3>1, <3>2
  <2>4. /\ shot'.pid = p
        /\ shot'.token # "none" => p \in DOMAIN proc /\ shot'.inst = proc[p].inst
    BY <2>2 DEF Capture
  <2>5. ShotTracked' BY <2>1, <2>3, <2>4 DEF ShotTracked, SameLife
  <2>6. QED BY <1>0, <2>1, <2>5 DEF TrackInv, ExitedGone, PendingIsTracked
<1>4. CASE TermDelivered
  <2> DEFINE p == shot.pid
  <2>1. /\ pc = "term" /\ p \in DOMAIN proc /\ pc' = After(shot.by)
        /\ UNCHANGED <<lifecycle, proc>>
    BY <1>4 DEF TermDelivered, Deliverable
  <2>2. pc' # "term" BY <2>1 DEF After
  <2>3. /\ DOMAIN pending_kills' = DOMAIN pending_kills \cup {p}
        /\ pending_kills'[p].token = shot.token /\ pending_kills'[p].inst = shot.inst
        /\ \A q \in DOMAIN pending_kills : q # p => pending_kills'[q] = pending_kills[q]
    BY <1>4 DEF TermDelivered, Register, Put
  <2>4. p \in DOMAIN lifecycle /\ ~lifecycle[p].exited
    BY <1>0, <2>1 DEF ShotTracked, ExitedGone
  <2>5. shot.token # "none" => shot.inst = lifecycle[p].inst
    BY <1>0, <2>1 DEF ShotTracked
  <2> HIDE DEF p
  <2>6. PendingIsTracked' BY <1>0, <2>1, <2>3, <2>4, <2>5 DEF PendingIsTracked
  <2>7. QED BY <1>0, <2>1, <2>2, <2>6 DEF TrackInv, ExitedGone, ShotTracked
<1>5. CASE Minor
  <2>1. ExitedGone' BY <1>0, <1>5 DEF Minor, Quiet, ExitedGone
  <2>2. ShotTracked' BY <1>0, <1>5 DEF Minor, ShotTracked
  <2>3. PendingIsTracked' BY <1>0, <1>5 DEF Minor, Quiet, PendingIsTracked
  <2>4. QED BY <1>0, <2>1, <2>2, <2>3 DEF TrackInv
<1>6. ASSUME NEW p \in Pids, NEW name \in Programs, Spawn(p, name) PROVE TrackInv'
  <2>1. /\ p \notin DOMAIN lifecycle /\ DOMAIN proc' = DOMAIN proc \cup {p}
        /\ UNCHANGED <<lifecycle, pending_kills, pc, shot>>
    BY <1>6 DEF Spawn, Fault, Put
  <2>2. QED BY <1>0, <2>1 DEF TrackInv, ExitedGone, ShotTracked, PendingIsTracked
<1>7. CASE TickFails
  <2>1. pc' # "term" /\ UNCHANGED <<lifecycle, pending_kills, proc>>
    BY <1>7 DEF TickFails, StartActuation
  <2>2. QED BY <1>0, <2>1 DEF TrackInv, ExitedGone, ShotTracked, PendingIsTracked
<1>8. QED BY <1>1, <1>2, <1>3, <1>4, <1>5, <1>6, <1>7, Steps

\* A SIGKILL by starttime: the entry is of the row, the row of the process.
LEMMA RawKillSafe ==
  ASSUME TypeOK, KillInv, SameLife, TrackInv, RawKill
  PROVE  SigkillSafe'
<1> DEFINE p == shot.pid
<1>1. /\ pc = "kill" /\ UNCHANGED termed
      /\ delivered' = Nothing \/ (p \in DOMAIN proc /\ KillReaches(p, shot.by, shot.token))
  BY DEF RawKill, KillErrs, KillAborted
<1>2. CASE delivered' = Nothing BY <1>2 DEF SigkillSafe, Nothing
<1>3. CASE p \in DOMAIN proc /\ KillReaches(p, shot.by, shot.token)
  <2>1. /\ p \in DOMAIN pending_kills /\ pending_kills[p].token = "starttime"
        /\ shot.by = "auto" => pending_kills[p].age >= Grace
    BY <1>1 DEF TrackInv, KillHeld
  <2>2. p \in DOMAIN lifecycle /\ pending_kills[p].inst = lifecycle[p].inst
    BY <2>1 DEF TrackInv, PendingIsTracked
  <2>3. proc[p].inst = pending_kills[p].inst BY <1>3, <2>2 DEF SameLife
  <2>4. termed[proc[p].inst] = pending_kills[p].age
    BY <1>3, <2>1, <2>3 DEF KillInv, IdOfEntry
  <2>5. pending_kills[p].age \in Nat BY <2>1 DEF TypeOK, PidMap, Pending
  <2>6. delivered' = [sig |-> "KILL", by |-> shot.by, via |-> shot.token, inst |-> proc[p].inst]
    BY <1>3 DEF KillReaches
  <2>7. QED BY <1>1, <2>1, <2>4, <2>5, <2>6 DEF SigkillSafe, KilledInTurn
<1>4. QED BY <1>1, <1>2, <1>3

LEMMA NextSigkillSafe ==
  ASSUME TypeOK, KillInv, SameLife, TrackInv, PidfdKillSafe, SigkillSafe, [Next]_vars
  PROVE  SigkillSafe'
<1>1. PidfdKillSafe' BY NextPidfd
<1>2. ASSUME NEW p, NEW by, NEW done, SendSigkill(p, by, done)
      PROVE  SigkillSafe'
  <2>1. delivered' = Nothing \/ delivered'.via = "pidfd"
    BY <1>2 DEF SendSigkill, KillReaches, KillErrs, KillAborted
  <2>2. QED BY <1>1, <2>1 DEF SigkillSafe, PidfdKillSafe, Nothing
<1>3. CASE RawKill BY <1>3, RawKillSafe
<1>4. CASE UNCHANGED vars BY <1>4 DEF vars, SigkillSafe, KilledInTurn
<1>5. CASE TermDelivered BY <1>5 DEF TermDelivered, SigkillSafe
<1>6. CASE delivered' = Nothing BY <1>6 DEF Nothing, SigkillSafe
<1>7. QED
  BY <1>2, <1>3, <1>4, <1>5, <1>6
  DEF Next, OperatingSystem, Actuator, Operator, Spawn, Exit, Elapse, TickSucceeds,
      Tick, TickFails, Hold, Fire, TermFailed, StartEscalation, EndActuation, ManualKill,
      Escalate, ManualForceKill

\* What the two theorems below share.
GuardInv == KillInv /\ SameLife /\ CandidateInv /\ TrackInv

LEMMA GuardInvHolds ==
  ASSUME "FastReuse" \notin Faults, "ReadMisses" \notin Faults
  PROVE  Spec => []GuardInv
<1>1. Init => GuardInv
  BY DEF Init, GuardInv, KillInv, OneHome, IdOfEntry, IdOfShot, Escalating, EmptyMap, NoShot,
         SameLife, CandidateInv, Listed, OnTarget, Actuating, Candidates,
         TrackInv, ExitedGone, ShotTracked, KillHeld, PendingIsTracked
<1>2. TypeOK /\ GuardInv /\ [Next]_vars => GuardInv'
  BY NextKill, NextSameLife, NextListed, NextOnTarget, NextTracked DEF GuardInv, CandidateInv
<1>3. QED
  BY <1>1, <1>2, TypeCorrect, PTL DEF Spec

\* The exit drain leaves nothing for a successor to inherit: whatever the
\* operator does and however many ticks fail, a pending kill is of the life
\* the tracker shows running there.
THEOREM PendingIsTrackedHolds ==
  ASSUME "FastReuse" \notin Faults, "ReadMisses" \notin Faults
  PROVE  Spec => []PendingIsTracked
<1>1. GuardInv => PendingIsTracked BY DEF GuardInv, TrackInv
<1>2. QED BY <1>1, GuardInvHolds, PTL

\* "SIGTERM before SIGKILL", also where only a starttime guards the PID: every
\* SIGKILL reaches a process this monitor has SIGTERMed, and an automated one
\* after its whole grace period, for every identity capture and grace period.
THEOREM SigkillSafeHolds ==
  ASSUME "FastReuse" \notin Faults, "ReadMisses" \notin Faults
  PROVE  Spec => []SigkillSafe
<1>1. Init => SigkillSafe BY DEF Init, SigkillSafe, Nothing
<1>2. TypeOK /\ GuardInv /\ PidfdKillSafe /\ SigkillSafe /\ [Next]_vars => SigkillSafe'
  BY NextSigkillSafe DEF GuardInv
<1>3. QED
  BY <1>1, <1>2, GuardInvHolds, PidfdKillSafeHolds, TypeCorrect, PTL DEF Spec

----------------------------------------------------------------------------
(* Attribution                                                             *)

\* A PID is tagged if the instance that lives there, or the one its running
\* row shows, has had a signal (the converse fails: a non-AI exit leaves its
\* tag); an instance not yet started has had none; one that left a row or an
\* exit behind has been started, and lives nowhere else.
Tagged ==
  /\ \A p \in DOMAIN proc : termed[proc[p].inst] # Never => p \in governor_killed_pids
  /\ \A p \in DOMAIN lifecycle :
       ~lifecycle[p].exited /\ termed[lifecycle[p].inst] # Never => p \in governor_killed_pids

Untouched == \A i \in Instances : i > spawned => termed[i] = Never

RowHome ==
  \A p \in DOMAIN lifecycle :
    /\ lifecycle[p].inst <= spawned
    /\ \A q \in DOMAIN proc : proc[q].inst = lifecycle[p].inst => q = p

Buried ==
  \A e \in exits : e.inst <= spawned /\ \A p \in DOMAIN proc : proc[p].inst # e.inst

AttributionInv == Tagged /\ Untouched /\ RowHome /\ Buried /\ KillsAttributed

\* Time only ages what has been signalled.
LEMMA ElapseTermed ==
  ASSUME TypeOK, Elapse
  PROVE  \A i \in Instances : termed'[i] = Never <=> termed[i] = Never
<1>1. termed' = [i \in Instances |->
                   IF termed[i] = Never THEN Never ELSE Older(termed[i], Grace)]
  BY DEF Elapse
<1>2. \A i \in Instances : termed[i] \in {Never} \cup 0 .. Grace BY DEF TypeOK
<1>3. QED BY <1>1, <1>2, NumberAssumption DEF Older

\* Only a tick takes a tag away.
LEMMA TagSteps ==
  ASSUME [Next]_vars
  PROVE  TickSucceeds \/ governor_killed_pids \subseteq governor_killed_pids'
<1> USE DEF govVars
<1>1. ASSUME NEW p, NEW by, NEW done, SendSigkill(p, by, done)
      PROVE  governor_killed_pids \subseteq governor_killed_pids'
  BY <1>1 DEF SendSigkill, KillReaches, Tag, KillErrs, KillAborted
<1>2. CASE RawKill
  BY <1>2 DEF RawKill, KillReaches, Tag, KillErrs, KillAborted
<1>3. CASE TermDelivered BY <1>3 DEF TermDelivered, Tag
<1>4. QED
  BY <1>1, <1>2, <1>3
  DEF Next, OperatingSystem, Actuator, Operator, Spawn, Exit, Elapse, TickFails, Hold, Fire,
      TermFailed, StartEscalation, EndActuation, ManualKill, Escalate, ManualForceKill, vars

\* A tick drops the tags of what has gone and classifies it by them.
LEMMA TickTags ==
  ASSUME "ReadMisses" \notin Faults, TypeOK, KillInv, AttributionInv, TickSucceeds
  PROVE  AttributionInv'
<1>1. PICK over, hot : Tick(DOMAIN proc, over, hot)
  BY DEF TickSucceeds, Fault
<1> DEFINE gone == Exited(DOMAIN proc)
<1>2. \A p \in gone : p \in DOMAIN lifecycle /\ ~lifecycle[p].exited /\ p \notin DOMAIN proc
  BY DEF Exited
<1> DEFINE goneAi == {p \in gone : lifecycle[p].name \in AI}
<1>4. /\ lifecycle' = Tracked(DOMAIN proc) /\ UNCHANGED <<proc, spawned, termed>>
      /\ governor_killed_pids' = governor_killed_pids \ goneAi
      /\ exits' = exits \cup {[inst |-> lifecycle[p].inst,
                               governor |-> p \in governor_killed_pids] : p \in goneAi}
  BY <1>1 DEF Tick, osVars
<1>5. /\ DOMAIN lifecycle' = DOMAIN proc \cup gone
      /\ \A p \in DOMAIN proc : /\ p \notin gone /\ ~lifecycle'[p].exited
                                /\ lifecycle'[p].inst = proc[p].inst
      /\ \A p \in gone : lifecycle'[p].exited /\ lifecycle'[p].inst = lifecycle[p].inst
  BY <1>4, TickRows
<1>3. goneAi \subseteq gone OBVIOUS
<1> HIDE DEF gone, goneAi
<1>6. OneHome /\ Tagged /\ Untouched /\ RowHome /\ Buried /\ KillsAttributed
  BY DEF KillInv, AttributionInv
<1>7. ASSUME NEW p \in DOMAIN proc, termed[proc[p].inst] # Never
      PROVE  p \in governor_killed_pids'
  BY <1>3, <1>4, <1>5, <1>6, <1>7 DEF Tagged
<1>9. Tagged' BY <1>4, <1>5, <1>7 DEF Tagged
<1>10. Untouched' BY <1>4, <1>5, <1>6 DEF Untouched
<1>11. RowHome' BY <1>2, <1>4, <1>5, <1>6 DEF RowHome, OneHome
<1>12. ASSUME NEW p \in gone
       PROVE  /\ lifecycle[p].inst <= spawned /\ \A q \in DOMAIN proc : proc[q].inst # lifecycle[p].inst
              /\ termed[lifecycle[p].inst] # Never => p \in governor_killed_pids
  BY <1>2, <1>6 DEF RowHome, Tagged
<1>13. Buried' BY <1>3, <1>4, <1>6, <1>12 DEF Buried
<1>14. KillsAttributed'
  <2>1. ASSUME NEW e \in exits'
        PROVE  termed[e.inst] # Never => e.governor
    <3>1. CASE e \in exits BY <1>6, <3>1 DEF KillsAttributed
    <3>2. CASE e \notin exits
      <4>1. PICK p \in goneAi : e = [inst |-> lifecycle[p].inst,
                                     governor |-> p \in governor_killed_pids]
        BY <1>4, <3>2
      <4>2. e.inst = lifecycle[p].inst /\ e.governor = (p \in governor_killed_pids)
        BY <4>1, Zenon
      <4>3. QED BY <1>3, <1>12, <4>2, Zenon
    <3>3. QED BY <3>1, <3>2
  <2>2. QED BY <1>4, <2>1, Zenon DEF KillsAttributed
<1>15. QED BY <1>9, <1>10, <1>11, <1>13, <1>14 DEF AttributionInv

LEMMA NextAttributed ==
  ASSUME "ReadMisses" \notin Faults, TypeOK, KillInv, AttributionInv, [Next]_vars
  PROVE  AttributionInv'
<1> USE DEF osVars, tickVars, govVars, ctlVars
<1>0. OneHome /\ Tagged /\ Untouched /\ RowHome /\ Buried /\ KillsAttributed
  BY DEF KillInv, AttributionInv
<1>t. /\ \A p \in DOMAIN proc : proc[p].inst \in Instances
      /\ \A p \in DOMAIN lifecycle : lifecycle[p].inst \in Instances
      /\ \A e \in exits : e.inst \in Instances
      /\ Instances \subseteq Nat /\ spawned \in Nat
  <2>1. \A p \in DOMAIN proc : proc[p].inst \in Instances BY DEF TypeOK, PidMap, Process
  <2>2. \A p \in DOMAIN lifecycle : lifecycle[p].inst \in Instances BY DEF TypeOK, PidMap, Row
  <2>3. \A e \in exits : e.inst \in Instances BY DEF TypeOK
  <2>4. Instances \subseteq Nat /\ spawned \in Nat BY NumberAssumption DEF Instances, TypeOK
  <2>5. QED BY <2>1, <2>2, <2>3, <2>4
<1>1. CASE TickSucceeds BY <1>1, TickTags
<1>2. ASSUME NEW p \in Pids, NEW name \in Programs, Spawn(p, name) PROVE AttributionInv'
  <2>1. /\ DOMAIN proc' = DOMAIN proc \cup {p} /\ p \notin DOMAIN proc
        /\ proc'[p].inst = spawned + 1 /\ spawned' = spawned + 1 /\ spawned < MaxInst
        /\ \A q \in DOMAIN proc : proc'[q] = proc[q]
        /\ UNCHANGED <<lifecycle, governor_killed_pids, termed, exits>>
    BY <1>2 DEF Spawn, Put
  <2>2. spawned + 1 \in Instances BY <1>t, <2>1, NumberAssumption DEF Instances
  <2>3. Tagged' BY <1>0, <1>t, <2>1, <2>2 DEF Tagged, Untouched
  <2>4. Untouched' BY <1>0, <1>t, <2>1 DEF Untouched
  <2>5. RowHome'
    <3>1. ASSUME NEW r \in DOMAIN lifecycle
          PROVE  /\ lifecycle[r].inst <= spawned + 1
                 /\ \A q \in DOMAIN proc' : proc'[q].inst = lifecycle[r].inst => q = r
      <4>1. lifecycle[r].inst \in Nat /\ lifecycle[r].inst <= spawned BY <1>0, <1>t DEF RowHome
      <4>2. lifecycle[r].inst <= spawned + 1 /\ lifecycle[r].inst # spawned + 1 BY <1>t, <4>1
      <4>3. \A q \in DOMAIN proc : proc[q].inst = lifecycle[r].inst => q = r BY <1>0 DEF RowHome
      <4>4. QED BY <2>1, <4>2, <4>3
    <3>2. QED BY <2>1, <3>1 DEF RowHome
  <2>6. Buried'
    <3>1. ASSUME NEW e \in exits
          PROVE  e.inst <= spawned + 1 /\ \A q \in DOMAIN proc' : proc'[q].inst # e.inst
      <4>1. e.inst \in Nat /\ e.inst <= spawned BY <1>0, <1>t DEF Buried
      <4>2. e.inst <= spawned + 1 /\ e.inst # spawned + 1 BY <1>t, <4>1
      <4>3. \A q \in DOMAIN proc : proc[q].inst # e.inst BY <1>0 DEF Buried
      <4>4. QED BY <2>1, <4>2, <4>3
    <3>2. QED BY <2>1, <3>1 DEF Buried
  <2>7. KillsAttributed' BY <1>0, <2>1, Zenon DEF KillsAttributed
  <2>8. QED BY <2>3, <2>4, <2>5, <2>6, <2>7 DEF AttributionInv
<1>3. CASE TermDelivered
  <2> DEFINE p == shot.pid
             i == proc[p].inst
  <2>1. /\ pc = "term" /\ p \in DOMAIN proc
        /\ UNCHANGED <<proc, spawned, lifecycle, exits>>
        /\ governor_killed_pids' = governor_killed_pids \cup {p}
        /\ termed' = [termed EXCEPT ![i] = 0]
    BY <1>3 DEF TermDelivered, Tag, Deliverable
  <2>2. i \in Instances /\ i <= spawned BY <1>0, <1>t, <2>1 DEF OneHome
  <2>3. termed'[i] = 0 /\ \A k \in Instances : k # i => termed'[k] = termed[k]
    BY <2>1, <2>2 DEF TypeOK
  <2>5. \A q \in DOMAIN lifecycle : q # p => lifecycle[q].inst # i
    BY <1>0, <2>1 DEF RowHome
  <2>6. \A q \in DOMAIN proc : q # p => proc[q].inst # i
    BY <1>0, <2>1 DEF OneHome
  <2>7. \A e \in exits : e.inst # i /\ termed'[e.inst] = termed[e.inst]
    BY <1>0, <1>t, <2>1, <2>3 DEF Buried
  <2> HIDE DEF i, p
  <2>8. Tagged' BY <1>0, <1>t, <2>1, <2>3, <2>5, <2>6 DEF Tagged
  <2>9. Untouched' BY <1>0, <1>t, <2>1, <2>2, <2>3 DEF Untouched
  <2>10. RowHome' /\ Buried' BY <1>0, <2>1 DEF RowHome, Buried
  <2>11. KillsAttributed' BY <1>0, <2>1, <2>7, Zenon DEF KillsAttributed
  <2>12. QED BY <2>8, <2>9, <2>10, <2>11 DEF AttributionInv
<1>4. CASE Elapse
  <2>1. UNCHANGED <<proc, spawned, lifecycle, exits, governor_killed_pids>>
    BY <1>4 DEF Elapse
  <2>2. \A i \in Instances : termed'[i] = Never <=> termed[i] = Never
    BY <1>4, ElapseTermed
  <2>3. Tagged' BY <1>0, <1>t, <2>1, <2>2 DEF Tagged
  <2>4. Untouched' BY <1>0, <1>t, <2>1, <2>2 DEF Untouched
  <2>5. RowHome' /\ Buried' BY <1>0, <2>1 DEF RowHome, Buried
  <2>6. KillsAttributed' BY <1>0, <1>t, <2>1, <2>2, Zenon DEF KillsAttributed
  <2>7. QED BY <2>3, <2>4, <2>5, <2>6 DEF AttributionInv
<1>5. CASE /\ UNCHANGED <<spawned, termed, lifecycle, exits>>
           /\ governor_killed_pids \subseteq governor_killed_pids'
           /\ DOMAIN proc' \subseteq DOMAIN proc
           /\ \A p \in DOMAIN proc' : proc'[p].inst = proc[p].inst
  <2>1. Tagged' BY <1>0, <1>5 DEF Tagged
  <2>2. Untouched' BY <1>0, <1>5 DEF Untouched
  <2>3. RowHome' /\ Buried' BY <1>0, <1>5 DEF RowHome, Buried
  <2>4. KillsAttributed' BY <1>0, <1>5, Zenon DEF KillsAttributed
  <2>5. QED BY <2>1, <2>2, <2>3, <2>4 DEF AttributionInv
<1>6. TickSucceeds \/ governor_killed_pids \subseteq governor_killed_pids'
  BY TagSteps
<1>7. CASE Minor
  BY <1>1, <1>3, <1>5, <1>6, <1>7 DEF Minor, Quiet
<1>8. QED
  BY <1>0, <1>1, <1>2, <1>3, <1>4, <1>5, <1>7, Steps DEF TickFails, Fire, ManualKill

\* Every AI process that a signal of this monitor had reached leaves as
\* GovernorKill, whatever other programs run beside it, however PIDs are reused
\* and whichever ticks fail, as long as no process is missed.
THEOREM KillsAttributedHolds ==
  ASSUME "ReadMisses" \notin Faults
  PROVE  Spec => []KillsAttributed
<1>1. Init => KillInv /\ AttributionInv
  BY DEF Init, KillInv, OneHome, IdOfEntry, IdOfShot, Escalating, EmptyMap, NoShot,
         AttributionInv, Tagged, Untouched, RowHome, Buried, KillsAttributed
<1>2. TypeOK /\ KillInv /\ [Next]_vars => KillInv'
  BY NextKill
<1>3. TypeOK /\ KillInv /\ AttributionInv /\ [Next]_vars => AttributionInv'
  BY NextAttributed
<1>4. AttributionInv => KillsAttributed BY DEF AttributionInv
<1>5. QED
  BY <1>1, <1>2, <1>3, <1>4, TypeCorrect, PTL DEF Spec

----------------------------------------------------------------------------
(* One SIGTERM each                                                        *)

\* An instance not yet started has had no SIGTERM, one that lives and has had
\* one is pending, and nothing that is aimed at is.
Remembered ==
  /\ \A i \in Instances : i > spawned => termed[i] = Never
  /\ \A p \in DOMAIN proc : termed[proc[p].inst] # Never => p \in DOMAIN pending_kills

FirstShot ==
  /\ Actuating => \A p \in Aimed : p \notin DOMAIN pending_kills
  /\ pc = "term" /\ shot.by = "auto" => shot.pid \notin todo

OnceInv == Remembered /\ FirstShot

LEMMA NextRemembered ==
  ASSUME "ReadMisses" \notin Faults, TypeOK, KillInv, Remembered, [Next]_vars
  PROVE  Remembered'
<1> USE DEF osVars, tickVars, govVars, ctlVars
<1>t. /\ \A p \in DOMAIN proc : proc[p].inst \in Instances
      /\ Instances \subseteq Nat /\ spawned \in Nat
  <2>1. \A p \in DOMAIN proc : proc[p].inst \in Instances BY DEF TypeOK, PidMap, Process
  <2>2. Instances \subseteq Nat /\ spawned \in Nat BY NumberAssumption DEF Instances, TypeOK
  <2>3. QED BY <2>1, <2>2
<1>1. CASE TickSucceeds
  <2>1. PICK over, hot : Tick(DOMAIN proc, over, hot)
    BY <1>1 DEF TickSucceeds, Fault
  <2>2. /\ pending_kills' = Without(pending_kills, Exited(DOMAIN proc))
        /\ UNCHANGED <<proc, spawned, termed>>
    BY <2>1 DEF Tick, ClearPending
  <2>3. DOMAIN pending_kills' = DOMAIN pending_kills \ Exited(DOMAIN proc)
    BY <2>2 DEF Without
  <2>4. QED BY <2>2, <2>3 DEF Remembered, Exited
<1>2. ASSUME NEW p \in Pids, NEW name \in Programs, Spawn(p, name) PROVE Remembered'
  <2>1. /\ DOMAIN proc' = DOMAIN proc \cup {p} /\ p \notin DOMAIN proc
        /\ proc'[p].inst = spawned + 1 /\ spawned' = spawned + 1 /\ spawned < MaxInst
        /\ \A q \in DOMAIN proc : proc'[q] = proc[q]
        /\ UNCHANGED <<termed, pending_kills>>
    BY <1>2 DEF Spawn, Put
  <2>2. spawned + 1 \in Instances BY <1>t, <2>1, NumberAssumption DEF Instances
  <2>3. QED BY <1>t, <2>1, <2>2 DEF Remembered
<1>3. CASE TermDelivered
  <2> DEFINE p == shot.pid
             i == proc[p].inst
  <2>1. /\ p \in DOMAIN proc /\ UNCHANGED <<proc, spawned>>
        /\ termed' = [termed EXCEPT ![i] = 0]
        /\ DOMAIN pending_kills' = DOMAIN pending_kills \cup {p}
    BY <1>3 DEF TermDelivered, Deliverable, Register, Put
  <2>2. i \in Instances /\ i <= spawned BY <1>t, <2>1 DEF KillInv, OneHome
  <2>3. \A k \in Instances : k # i => termed'[k] = termed[k]
    BY <2>1, <2>2 DEF TypeOK
  <2>4. \A q \in DOMAIN proc : q # p => proc[q].inst # i
    BY <2>1 DEF KillInv, OneHome
  <2> HIDE DEF i, p
  <2>5. QED BY <1>t, <2>1, <2>2, <2>3, <2>4 DEF Remembered
<1>4. CASE Elapse
  <2>1. UNCHANGED <<proc, spawned>> /\ DOMAIN pending_kills' = DOMAIN pending_kills
    BY <1>4 DEF Elapse
  <2>2. \A i \in Instances : termed'[i] = Never <=> termed[i] = Never
    BY <1>4, ElapseTermed
  <2>3. QED BY <1>t, <2>1, <2>2 DEF Remembered
<1>5. CASE Minor
  BY <1>5 DEF Minor, Quiet, Remembered
<1>6. CASE UNCHANGED <<proc, spawned, termed, pending_kills>>
  BY <1>6 DEF Remembered
<1>7. QED
  BY <1>1, <1>2, <1>3, <1>4, <1>5, <1>6, Steps DEF TickFails, Fire, ManualKill

LEMMA NextFirstShot ==
  ASSUME "TickFails" \notin Faults, TypeOK, KillInv, FirstShot, [Next]_vars
  PROVE  FirstShot'
<1> USE DEF osVars, tickVars, govVars, ctlVars
<1>1. CASE TickSucceeds
  <2>1. PICK seen, over, hot : Tick(seen, over, hot)
    BY <1>1 DEF TickSucceeds
  <2> DEFINE lc == Tracked(seen)
             pend == DOMAIN pending_kills \ Exited(seen)
             window == Trimmed(recent_kills)
             breach(p) == thermal \/ (p \in DOMAIN annotated /\ annotated[p].over)
  <2>2. /\ decisions' = [p \in DOMAIN lc |-> EvaluateProcess(p, lc[p], pend, breach(p), window)]
        /\ pending_kills' = Without(pending_kills, Exited(seen))
        /\ StartActuation(decisions')
    BY <2>1 DEF Tick, ClearPending
  <2>3. ASSUME NEW p \in DOMAIN lc,
               EvaluateProcess(p, lc[p], pend, breach(p), window) = "SignalTermSent"
        PROVE  p \notin pend
    BY <2>3 DEF EvaluateProcess
  <2>4. DOMAIN pending_kills' = pend BY <2>2 DEF Without
  <2> HIDE DEF lc, pend, window, breach
  <2>5. \A p \in Candidates(decisions') : p \notin DOMAIN pending_kills'
    BY <2>2, <2>3, <2>4 DEF Candidates
  <2>6. pc' # "term" /\ (pc' = "actuate" => todo' = Candidates(decisions'))
    BY <2>2 DEF StartActuation
  <2>7. QED BY <2>5, <2>6 DEF FirstShot, Actuating, Aimed
<1>2. CASE \E p \in Pids, name \in Programs : Spawn(p, name)
  BY <1>2 DEF Spawn, FirstShot, Actuating, Aimed
<1>3. CASE Elapse
  BY <1>3 DEF Elapse, FirstShot, Actuating
<1>4. CASE \E p \in Pids, token \in Captures : Fire(p, token)
  <2>1. PICK p \in Pids, token \in Captures : Fire(p, token) BY <1>4
  <2>2. /\ pc = "actuate" /\ p \in todo /\ todo' = todo \ {p} /\ UNCHANGED pending_kills
        /\ pc' = "term" /\ shot'.pid = p
    BY <2>1 DEF Fire, NextCandidate, Capture
  <2>3. QED BY <2>2 DEF FirstShot, Actuating, Aimed
<1>5. CASE \E p \in Pids, token \in Captures : ManualKill(p, token)
  <2>1. pc' = "term" /\ shot'.by = "manual" BY <1>5 DEF ManualKill, Capture
  <2>2. QED BY <2>1 DEF FirstShot, Actuating
<1>6. CASE TermDelivered
  <2>1. /\ pc = "term" /\ pc' = After(shot.by) /\ UNCHANGED todo
        /\ DOMAIN pending_kills' = DOMAIN pending_kills \cup {shot.pid}
    BY <1>6 DEF TermDelivered, Register, Put
  <2>2. pc' \in {"idle", "actuate"} /\ (pc' = "actuate" => shot.by = "auto")
    BY <2>1 DEF After
  <2>3. QED BY <2>1, <2>2 DEF FirstShot, Actuating, Aimed
<1>7. CASE Minor
  BY <1>7 DEF Minor, FirstShot, Actuating, Aimed
<1>8. ~TickFails BY DEF TickFails, Fault
<1>9. QED BY <1>1, <1>2, <1>3, <1>4, <1>5, <1>6, <1>7, <1>8, Steps

\* What NoSecondTerm says of a step.
FirstTerm ==
  delivered'.sig = "TERM" /\ delivered'.by = "auto" => termed[delivered'.inst] = Never

\* No process gets a second SIGTERM from the governor, not even after one
\* from the operator, however PIDs are reused; it takes failed ticks or missed
\* processes for that.
THEOREM NoSecondTermHolds ==
  ASSUME "TickFails" \notin Faults, "ReadMisses" \notin Faults
  PROVE  Spec => NoSecondTerm
<1>1. Init => KillInv /\ OnceInv
  BY DEF Init, KillInv, OneHome, IdOfEntry, IdOfShot, Escalating, EmptyMap, NoShot,
         OnceInv, Remembered, FirstShot, Actuating
<1>2. TypeOK /\ KillInv /\ OnceInv /\ [Next]_vars => KillInv' /\ OnceInv'
  BY NextKill, NextRemembered, NextFirstShot DEF OnceInv
<1>3. TypeOK /\ OnceInv /\ [Next]_vars => [FirstTerm]_vars
  <2> SUFFICES ASSUME TypeOK, OnceInv, [Next]_vars, ~UNCHANGED vars PROVE FirstTerm
    OBVIOUS
  <2>1. CASE delivered'.sig # "TERM" BY <2>1 DEF FirstTerm
  <2>2. CASE TermDelivered
    <3> SUFFICES ASSUME delivered'.by = "auto" PROVE termed[delivered'.inst] = Never
      BY DEF FirstTerm
    <3>1. /\ pc = "term" /\ shot.pid \in DOMAIN proc
          /\ delivered' = [sig |-> "TERM", by |-> shot.by, via |-> "none",
                           inst |-> proc[shot.pid].inst]
      BY <2>2 DEF TermDelivered, Deliverable
    <3>2. shot.pid \notin DOMAIN pending_kills
      BY <3>1 DEF OnceInv, FirstShot, Actuating, Aimed
    <3>3. QED BY <3>1, <3>2 DEF OnceInv, Remembered
  <2>3. QED BY <2>1, <2>2, TermSteps
<1>4. QED
  BY <1>1, <1>2, <1>3, TypeCorrect, PTL DEF Spec, NoSecondTerm, FirstTerm
=============================================================================
