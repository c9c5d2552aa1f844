--------------------------- MODULE TelemetryProofs ---------------------------
(***************************************************************************)
(* Machine-checked results about Telemetry, for any PIDs, ring lengths and *)
(* timeouts: the steady share of a workload is what came after its cold    *)
(* load, and the two rings of exits stay in step.                          *)
(***************************************************************************)
EXTENDS Telemetry, FiniteSetTheorems, SequenceTheorems, TLAPS

----------------------------------------------------------------------------
(* The inductive invariants                                                *)

Procs       == [life : Nat, ai : BOOLEAN]
Samples     == [life : Nat, at : Nat]
FrameSet    == [pid : PIDs, life : Nat]
TaskSet     == [pid : PIDs, life : Nat, asked : Nat]
StatsSet    == [samples : SUBSET Samples, steady : SUBSET Samples, steady_started : BOOLEAN]
LoadSet     == [started : Nat, rates : Seq(Readings), loaded : BOOLEAN, finalised : BOOLEAN]
Rings       == Seq(Samples)
Completions == [life : Nat, ai : BOOLEAN, trajectory : Rings]

\* A map keyed by PID.
PidMap(f, S) == DOMAIN f \subseteq PIDs /\ f \in [DOMAIN f -> S]

\* The state is well formed; a process that has just ended runs no longer.
TypeOK ==
  /\ tick_count \in Nat /\ lives \in Nat
  /\ PidMap(previous, Procs) /\ PidMap(todo, Procs)
  /\ DOMAIN todo \cap DOMAIN previous = {}
  /\ tasks \subseteq TaskSet /\ frames \subseteq FrameSet
  /\ PidMap(by_pid, StatsSet)
  /\ PidMap(cold_load, LoadSet)
  /\ PidMap(trajectories, Rings)
  /\ completed \in Seq(Completions)
  /\ attribution \in Seq(Nat \cup {None})
  /\ regressions \in Nat /\ regressions_count \in Int /\ detected \in Nat

\* What an accumulator slot holds came in by tick hi; what is in its steady
\* share is everything from some tick on.
GoodStats(s, hi) ==
  /\ \A f \in s.samples : f.at <= hi
  /\ ~s.steady_started => s.steady = {}
  /\ \A f \in s.samples : \A g \in s.steady : f.at > g.at => f \in s.steady

AccInv == \A p \in PIDs : GoodStats(StatsOf(by_pid, p), tick_count)

\* Is the load of p final?
Loaded(cl, p) == p \in DOMAIN cl /\ cl[p].finalised

\* A slot is steady exactly when its load is final.
LoadInv == \A p \in PIDs : StatsOf(by_pid, p).steady_started <=> Loaded(cold_load, p)

\* The samples of one life, in order, the last of them at tick t or before.
OneLife(ring, life, t) ==
  /\ \A j \in 1 .. Len(ring) : ring[j].life = life /\ ring[j].at <= t
  /\ \A j \in 2 .. Len(ring) : ring[j - 1].at < ring[j].at

\* A ring belongs to the process that runs on its PID, or that has just ended.
RingsOwned ==
  \A p \in DOMAIN trajectories :
    \/ p \in DOMAIN previous /\ OneLife(trajectories[p], previous[p].life, tick_count)
    \/ p \in DOMAIN todo /\ OneLife(trajectories[p], todo[p].life, tick_count)

PairInv == RingsOwned /\ ExitsPaired

----------------------------------------------------------------------------
(* Lemmas about the operators                                              *)

\* The least of two numbers.
LEMMA MinOfTwo ==
  ASSUME NEW a \in Nat, NEW b \in Nat
  PROVE  Min({a, b}) = IF a <= b THEN a ELSE b
<1> DEFINE S == {a, b}
           P(x) == \A y \in S : x <= y
<1>1. \E x \in S : P(x)
  OBVIOUS
<1>2. Min(S) \in S /\ P(Min(S))
  BY <1>1 DEF Min
<1>3. QED BY <1>2

\* Removing keys from a map.
LEMMA WithoutProperties ==
  ASSUME NEW f, NEW S, NEW ps, PidMap(f, S)
  PROVE  /\ PidMap(Without(f, ps), S)
         /\ DOMAIN Without(f, ps) = DOMAIN f \ ps
         /\ \A p \in DOMAIN f \ ps : Without(f, ps)[p] = f[p]
  BY DEF Without, PidMap

\* A slot that is not there is an empty one.
LEMMA StatsOfType ==
  ASSUME NEW acc, PidMap(acc, StatsSet), NEW p
  PROVE  StatsOf(acc, p) \in StatsSet
<1>1. Stats \in StatsSet
  BY DEF Stats, StatsSet
<1>2. QED BY <1>1 DEF StatsOf, PidMap

\* Folding frames in.
LEMMA FoldInProperties ==
  ASSUME NEW s \in StatsSet, NEW fs \in SUBSET Samples
  PROVE  /\ FoldIn(s, fs) \in StatsSet
         /\ FoldIn(s, fs).samples = s.samples \cup fs
         /\ FoldIn(s, fs).steady = IF s.steady_started THEN s.steady \cup fs ELSE s.steady
         /\ FoldIn(s, fs).steady_started = s.steady_started
         /\ FoldIn(s, {}) = s
<1>1. FoldIn(s, fs).steady_started = s.steady_started
  BY DEF FoldIn, StatsSet
<1>2. FoldIn(s, fs).samples = s.samples \cup fs
  BY DEF FoldIn, StatsSet
<1>3. FoldIn(s, fs).steady = IF s.steady_started THEN s.steady \cup fs ELSE s.steady
  BY DEF FoldIn, StatsSet
<1>4. FoldIn(s, fs) \in StatsSet
  BY DEF FoldIn, StatsSet
<1>5. FoldIn(s, {}) = s
  <2>1. FoldIn(s, {}) = [s EXCEPT !.samples = s.samples, !.steady = s.steady]
    BY DEF FoldIn, StatsSet
  <2>2. QED BY <2>1 DEF StatsSet
<1>6. QED BY <1>1, <1>2, <1>3, <1>4, <1>5

\* A slot stays good when frames of the latest tick are folded in.
LEMMA FoldInGood ==
  ASSUME NEW s \in StatsSet, NEW fs \in SUBSET Samples, NEW hi \in Nat, NEW t \in Nat,
         GoodStats(s, hi), hi <= t, \A f \in fs : f.at = t
  PROVE  GoodStats(FoldIn(s, fs), t)
<1> DEFINE n == FoldIn(s, fs)
<1>1. /\ n.samples = s.samples \cup fs
      /\ n.steady = IF s.steady_started THEN s.steady \cup fs ELSE s.steady
      /\ n.steady_started = s.steady_started
  BY FoldInProperties
<1>2. \A f \in s.samples : f.at \in Nat
  BY DEF StatsSet, Samples
<1> HIDE DEF n
<1>3. \A f \in n.samples : f.at <= t
  BY <1>1, <1>2 DEF GoodStats
<1>4. ~n.steady_started => n.steady = {}
  BY <1>1 DEF GoodStats
<1>5. \A f \in n.samples : \A g \in n.steady : f.at > g.at => f \in n.steady
  <2>1. CASE ~s.steady_started
    BY <1>1, <2>1 DEF GoodStats
  <2>2. CASE s.steady_started
    <3> SUFFICES ASSUME NEW f \in s.samples, NEW g \in s.steady \cup fs, f.at > g.at
                 PROVE  f \in s.steady
      BY <1>1, <2>2
    <3>1. g \notin fs
      BY <1>2 DEF GoodStats
    <3>2. QED BY <3>1 DEF GoodStats
  <2>3. QED BY <2>1, <2>2
<1>6. QED BY <1>3, <1>4, <1>5 DEF GoodStats, n

\* The frames of a channel that name p, stamped with the tick t.
Stamped(fs, p, t) == {[life |-> f.life, at |-> t] : f \in {g \in fs : g.pid = p}}

\* Draining the channel folds into each slot the frames that name its PID.
LEMMA DrainedProperties ==
  ASSUME NEW acc, PidMap(acc, StatsSet), NEW fs \in SUBSET FrameSet, NEW t \in Nat
  PROVE  /\ PidMap(Drained(acc, fs, t), StatsSet)
         /\ \A p \in PIDs : /\ Stamped(fs, p, t) \in SUBSET Samples
                            /\ \A f \in Stamped(fs, p, t) : f.at = t
                            /\ StatsOf(Drained(acc, fs, t), p)
                                 = FoldIn(StatsOf(acc, p), Stamped(fs, p, t))
<1> DEFINE D == DOMAIN acc \cup {f.pid : f \in fs}
           new == Drained(acc, fs, t)
<1>1. D \subseteq PIDs
  BY DEF PidMap, FrameSet
<1>2. ASSUME NEW p
      PROVE  Stamped(fs, p, t) \in SUBSET Samples /\ \A f \in Stamped(fs, p, t) : f.at = t
  BY DEF Stamped, Samples, FrameSet
<1>3. new = [p \in D |-> FoldIn(StatsOf(acc, p), Stamped(fs, p, t))]
  BY DEF Drained, Stamped
<1>4. ASSUME NEW p PROVE FoldIn(StatsOf(acc, p), Stamped(fs, p, t)) \in StatsSet
  BY <1>2, StatsOfType, FoldInProperties
<1> HIDE DEF D, new
<1>5. PidMap(new, StatsSet)
  BY <1>1, <1>3, <1>4 DEF PidMap
<1>6. ASSUME NEW p \in PIDs
      PROVE  StatsOf(new, p) = FoldIn(StatsOf(acc, p), Stamped(fs, p, t))
  <2>1. CASE p \in D
    BY <1>3, <2>1 DEF StatsOf
  <2>2. CASE p \notin D
    <3>1. StatsOf(new, p) = Stats /\ StatsOf(acc, p) = Stats
      BY <1>3, <2>2 DEF StatsOf, D
    <3>2. Stamped(fs, p, t) = {}
      BY <2>2 DEF D, Stamped
    <3>3. Stats \in StatsSet
      BY DEF Stats, StatsSet
    <3>4. FoldIn(Stats, {}) = Stats
      BY <3>3, FoldInProperties
    <3>5. QED BY <3>1, <3>2, <3>4
  <2>3. QED BY <2>1, <2>2
<1>7. QED BY <1>2, <1>5, <1>6 DEF new

\* Marking slots steady touches the mark and nothing else.
LEMMA MarkedProperties ==
  ASSUME NEW acc, PidMap(acc, StatsSet), NEW ps \in SUBSET PIDs
  PROVE  /\ PidMap(Marked(acc, ps), StatsSet)
         /\ \A p \in PIDs :
              /\ StatsOf(Marked(acc, ps), p).samples = StatsOf(acc, p).samples
              /\ StatsOf(Marked(acc, ps), p).steady = StatsOf(acc, p).steady
              /\ StatsOf(Marked(acc, ps), p).steady_started
                   <=> (StatsOf(acc, p).steady_started \/ p \in ps)
<1> DEFINE mark(p) == [StatsOf(acc, p) EXCEPT !.steady_started = TRUE]
           new == Marked(acc, ps)
<1>1. ASSUME NEW p
      PROVE  /\ mark(p) \in StatsSet /\ mark(p).steady_started = TRUE
             /\ mark(p).samples = StatsOf(acc, p).samples
             /\ mark(p).steady = StatsOf(acc, p).steady
  <2>1. StatsOf(acc, p) \in StatsSet
    BY StatsOfType
  <2>2. QED BY <2>1 DEF StatsSet
<1>2. new = [p \in DOMAIN acc \cup ps |-> IF p \in ps THEN mark(p) ELSE acc[p]]
  BY DEF Marked
<1> HIDE DEF mark, new
<1>3. PidMap(new, StatsSet)
  BY <1>1, <1>2 DEF PidMap
<1>4. ASSUME NEW p \in PIDs
      PROVE  StatsOf(new, p) = IF p \in ps THEN mark(p) ELSE StatsOf(acc, p)
  BY <1>2 DEF StatsOf
<1>5. QED BY <1>1, <1>3, <1>4 DEF new

\* One reading: the slot stays well formed, and a final load stays final.
LEMMA ReadingProperties ==
  ASSUME NEW s \in LoadSet, NEW r \in Readings, NEW t \in Nat
  PROVE  Reading(s, r, t) \in LoadSet /\ (s.finalised => Reading(s, r, t).finalised)
<1> DEFINE rates   == Window(Append(s.rates, r))
           loaded  == s.loaded \/ r.enough
           plateau == /\ Len(rates) >= PlateauTicks
                      /\ \A i \in DOMAIN rates : ~rates[i].fast
                      /\ loaded
           final   == plateau \/ t - s.started >= HardTimeout
<1>1. Append(s.rates, r) \in Seq(Readings) /\ Append(s.rates, r) # <<>>
  BY AppendProperties, SMT DEF LoadSet
<1>2. rates \in Seq(Readings)
  BY <1>1, HeadTailProperties, SMT DEF Window
<1>3. loaded \in BOOLEAN
  BY DEF LoadSet, Readings
<1>4. final \in BOOLEAN
  OBVIOUS
<1> HIDE DEF rates, loaded, plateau, final
<1>5. [s EXCEPT !.rates = rates, !.loaded = loaded, !.finalised = final] \in LoadSet
  BY <1>2, <1>3, <1>4 DEF LoadSet
<1>6. Reading(s, r, t)
        = IF s.finalised THEN s
          ELSE [s EXCEPT !.rates = rates, !.loaded = loaded, !.finalised = final]
  BY DEF Reading, rates, loaded, plateau, final
<1>7. QED BY <1>5, <1>6

\* A tick's readings: what becomes final is what was and what has just become.
LEMMA LoadsProperties ==
  ASSUME NEW cl, PidMap(cl, LoadSet), NEW io, PidMap(io, Readings), NEW t \in Nat
  PROVE  LET new == Loads(cl, io, t) IN
         /\ PidMap(new, LoadSet)
         /\ JustLoaded(cl, new) \subseteq PIDs
         /\ \A p \in PIDs : Loaded(new, p) <=> Loaded(cl, p) \/ p \in JustLoaded(cl, new)
<1> DEFINE new == Loads(cl, io, t)
<1>1. NewLoad(t) \in LoadSet
  BY DEF NewLoad, LoadSet
<1>2. /\ DOMAIN new = DOMAIN cl \cup DOMAIN io
      /\ \A p \in DOMAIN new : new[p] = IF p \notin DOMAIN io THEN cl[p]
                                        ELSE IF p \in DOMAIN cl THEN Reading(cl[p], io[p], t)
                                        ELSE NewLoad(t)
      /\ new = [p \in DOMAIN new |-> new[p]]
  BY DEF Loads
<1> HIDE DEF new
<1>3. \A p \in DOMAIN cl : cl[p] \in LoadSet
  BY DEF PidMap
<1>4. \A p \in DOMAIN io : io[p] \in Readings
  BY DEF PidMap
<1>5. \A p \in DOMAIN new : new[p] \in LoadSet
  BY <1>1, <1>2, <1>3, <1>4, ReadingProperties
<1>6. PidMap(new, LoadSet)
  BY <1>2, <1>5 DEF PidMap
<1>7. \A p \in DOMAIN cl : p \in DOMAIN new /\ (cl[p].finalised => new[p].finalised)
  BY <1>2, <1>3, <1>4, ReadingProperties
<1>8. JustLoaded(cl, new) \subseteq PIDs
  BY <1>6 DEF JustLoaded, PidMap
<1>9. \A p \in PIDs : Loaded(new, p) <=> Loaded(cl, p) \/ p \in JustLoaded(cl, new)
  BY <1>7 DEF Loaded, JustLoaded
<1>10. QED BY <1>6, <1>8, <1>9 DEF new

\* The ring's push keeps the samples of one life in order.
LEMMA RingPushProperties ==
  ASSUME NEW ring \in Rings, NEW x \in Samples
  PROVE  /\ RingPush(ring, x) \in Rings
         /\ \A t \in Nat : OneLife(ring, x.life, t) /\ t < x.at
                             => OneLife(RingPush(ring, x), x.life, x.at)
<1> DEFINE kept == IF Len(ring) = SamplesPerPid THEN Tail(ring) ELSE ring
           d    == IF Len(ring) = SamplesPerPid THEN 1 ELSE 0
           new  == Append(kept, x)
<1>0. ring \in Seq(Samples) /\ Len(ring) \in Nat /\ SamplesPerPid \in Nat \ {0}
  BY TelemetryAssumption DEF Rings
<1>1. kept \in Seq(Samples) /\ Len(kept) = Len(ring) - d /\ Len(ring) - d \in Nat
  <2>1. CASE Len(ring) = SamplesPerPid
    <3>1. ring # <<>>
      BY <1>0, <2>1
    <3>2. QED BY <1>0, <2>1, <3>1, HeadTailProperties, SMT
  <2>2. CASE Len(ring) # SamplesPerPid
    BY <1>0, <2>2
  <2>3. QED BY <2>1, <2>2
<1>2. \A j \in 1 .. Len(ring) - d : kept[j] = ring[j + d]
  <2>1. CASE Len(ring) = SamplesPerPid
    <3>1. ring # <<>>
      BY <1>0, <2>1
    <3>2. QED BY <1>0, <2>1, <3>1, HeadTailProperties, SMT
  <2>2. CASE Len(ring) # SamplesPerPid
    BY <1>0, <2>2
  <2>3. QED BY <2>1, <2>2
<1>3. d \in {0, 1}
  OBVIOUS
<1> HIDE DEF kept, d
<1>4. /\ new \in Seq(Samples) /\ Len(new) = Len(kept) + 1
      /\ \A j \in 1 .. Len(kept) : new[j] = kept[j]
      /\ new[Len(kept) + 1] = x
  BY <1>1, AppendProperties, SMT
<1>5. RingPush(ring, x) = new
  BY DEF RingPush, kept
<1> HIDE DEF new
<1>6. ASSUME NEW t \in Nat, OneLife(ring, x.life, t), t < x.at
      PROVE  OneLife(new, x.life, x.at)
  <2> DEFINE m == Len(ring) - d
  <2>1. m \in Nat /\ Len(new) = m + 1 /\ new[m + 1] = x
    BY <1>1, <1>4
  <2>2. ASSUME NEW j \in 1 .. m PROVE new[j] = ring[j + d] /\ j + d \in 1 .. Len(ring)
    BY <1>0, <1>1, <1>2, <1>3, <1>4, <2>2
  <2>3. \A j \in 1 .. Len(ring) : ring[j].at \in Nat
    <3>1. \A j \in 1 .. Len(ring) : ring[j] \in Samples
      BY <1>0
    <3>2. \A y \in Samples : y.at \in Nat
      BY DEF Samples
    <3>3. QED BY <3>1, <3>2
  <2>4. x.at \in Nat
    BY DEF Samples
  <2> HIDE DEF m
  <2>5. ASSUME NEW j \in 1 .. m PROVE new[j].life = x.life /\ new[j].at < x.at
    BY <1>6, <2>2, <2>3, <2>4 DEF OneLife
  <2>6. \A j \in 1 .. Len(new) : new[j].life = x.life /\ new[j].at <= x.at
    <3> SUFFICES ASSUME NEW j \in 1 .. m + 1 PROVE new[j].life = x.life /\ new[j].at <= x.at
      BY <2>1
    <3>1. CASE j \in 1 .. m
      <4>1. new[j].at \in Nat
        BY <2>2, <2>3, <3>1
      <4>2. QED BY <2>4, <2>5, <3>1, <4>1
    <3>2. CASE j = m + 1
      BY <2>1, <2>4, <3>2
    <3>3. QED BY <2>1, <3>1, <3>2
  <2>7. \A j \in 2 .. Len(new) : new[j - 1].at < new[j].at
    <3> SUFFICES ASSUME NEW j \in 2 .. m + 1 PROVE new[j - 1].at < new[j].at
      BY <2>1
    <3>1. CASE j \in 2 .. m
      <4>1. /\ j \in 1 .. m /\ j - 1 \in 1 .. m /\ (j - 1) + d = (j + d) - 1
        BY <1>3, <2>1, <3>1
      <4>2. /\ new[j] = ring[j + d] /\ new[j - 1] = ring[(j + d) - 1]
            /\ j + d \in 2 .. Len(ring)
        BY <1>0, <1>3, <2>1, <2>2, <3>1, <4>1
      <4>3. QED BY <1>6, <4>2 DEF OneLife
    <3>2. CASE j = m + 1
      <4>1. j - 1 \in 1 .. m
        BY <2>1, <3>2
      <4>2. QED BY <2>1, <2>5, <3>2, <4>1
    <3>3. QED BY <2>1, <3>1, <3>2
  <2>8. QED BY <2>6, <2>7 DEF OneLife
<1>7. QED BY <1>4, <1>5, <1>6 DEF Rings

\* A ring that is not there is an empty one.
LEMMA RingOfType ==
  ASSUME NEW rings, PidMap(rings, Rings), NEW p
  PROVE  RingOf(rings, p) \in Rings
<1>1. <<>> \in Rings
  BY DEF Rings
<1>2. QED BY <1>1 DEF RingOf, PidMap

\* The sequence after an append and a trim: its end is the new element, what
\* is before it was there, one place further on if the trim took one.
LEMMA TrimProperties ==
  ASSUME NEW S, NEW s \in Seq(S), NEW x \in S
  PROVE  LET d == IF Len(s) + 1 > CompletedHistory THEN 1 ELSE 0
             new == Trim(Append(s, x))
         IN  /\ new \in Seq(S) /\ Len(new) = Len(s) + 1 - d
             /\ \A i \in 1 .. Len(s) + 1 - d : new[i] = IF i + d = Len(s) + 1 THEN x ELSE s[i + d]
<1> DEFINE d == IF Len(s) + 1 > CompletedHistory THEN 1 ELSE 0
           a == Append(s, x)
           new == Trim(a)
<1>0. Len(s) \in Nat /\ CompletedHistory \in Nat
  BY TelemetryAssumption
<1>1. /\ a \in Seq(S) /\ Len(a) = Len(s) + 1
      /\ \A j \in 1 .. Len(s) : a[j] = s[j]
      /\ a[Len(s) + 1] = x
  BY AppendProperties, SMT
<1>2. a # <<>>
  BY <1>0, <1>1
<1> HIDE DEF a
<1>3. Tail(a) \in Seq(S) /\ Len(Tail(a)) = Len(a) - 1 /\ \A j \in 1 .. Len(a) - 1 : Tail(a)[j] = a[j + 1]
  BY <1>1, <1>2, HeadTailProperties, SMT
<1>4. new \in Seq(S) /\ Len(new) = Len(s) + 1 - d
  BY <1>0, <1>1, <1>3 DEF Trim
<1>5. ASSUME NEW i \in 1 .. Len(s) + 1 - d PROVE new[i] = a[i + d]
  BY <1>0, <1>1, <1>3 DEF Trim
<1> HIDE DEF new
<1>6. d \in {0, 1}
  OBVIOUS
<1> HIDE DEF d
<1>7. ASSUME NEW i \in 1 .. Len(s) + 1 - d
      PROVE  new[i] = IF i + d = Len(s) + 1 THEN x ELSE s[i + d]
  <2>1. i + d = Len(s) + 1 \/ i + d \in 1 .. Len(s)
    BY <1>0, <1>6
  <2>2. QED BY <1>0, <1>1, <1>5, <2>1
<1>8. QED BY <1>4, <1>7 DEF d, new, a

----------------------------------------------------------------------------
(* The state is well formed                                                *)

\* The inputs of a tick.
TickInput(live, ai, io) ==
  /\ live \subseteq PIDs /\ ai \subseteq live
  /\ DOMAIN io \subseteq ai /\ io \in [DOMAIN io -> Readings]

\* Who runs after a tick: those who stay as they were, and newcomers.
LEMMA UpdatedProperties ==
  ASSUME TypeOK, NEW live \in SUBSET PIDs, NEW ai
  PROVE  /\ PidMap(Updated(live, ai), Procs) /\ DOMAIN Updated(live, ai) = live
         /\ \A p \in live \cap DOMAIN previous : Updated(live, ai)[p] = previous[p]
         /\ Cardinality(Newcomers(live)) \in Nat
<1> DEFINE born(p) == [life |-> lives + Cardinality({q \in Newcomers(live) : q <= p}),
                       ai   |-> p \in ai]
<1>1. ASSUME NEW X \in SUBSET Newcomers(live) PROVE Cardinality(X) \in Nat
  <2>1. X \subseteq PIDs
    BY DEF Newcomers
  <2>2. IsFiniteSet(X)
    BY <2>1, TelemetryAssumption, FS_Subset
  <2>3. QED BY <2>2, FS_CardinalityType
<1>2. ASSUME NEW p PROVE born(p) \in Procs
  <2>1. {q \in Newcomers(live) : q <= p} \in SUBSET Newcomers(live)
    OBVIOUS
  <2>2. Cardinality({q \in Newcomers(live) : q <= p}) \in Nat
    BY <1>1, <2>1
  <2>3. (p \in ai) \in BOOLEAN
    OBVIOUS
  <2>4. lives + Cardinality({q \in Newcomers(live) : q <= p}) \in Nat
    BY <2>2 DEF TypeOK
  <2>5. QED BY <2>3, <2>4 DEF Procs
<1>3. Updated(live, ai) = [p \in live |-> IF p \in DOMAIN previous THEN previous[p] ELSE born(p)]
  BY DEF Updated
<1> HIDE DEF born
<1>4. PidMap(Updated(live, ai), Procs)
  BY <1>2, <1>3 DEF TypeOK, PidMap
<1>5. Cardinality(Newcomers(live)) \in Nat
  BY <1>1
<1>6. QED BY <1>3, <1>4, <1>5

\* The power frames of a tick, and the accumulator after it.
Watts(prev, ai) == IF HasPower THEN {[pid |-> p, life |-> prev[p].life] : p \in ai} ELSE {}

Folded(prev, ai, now) == Drained(Drained(by_pid, frames, now), Watts(prev, ai), now)

\* The accumulator after a tick: slot by slot two folds of frames stamped with
\* the tick, and a mark where the load has just become final.
LEMMA TickSlots ==
  ASSUME TypeOK, NEW live, NEW ai, NEW io, TickInput(live, ai, io), Tick(live, ai, io)
  PROVE  /\ tick_count' = tick_count + 1
         /\ PidMap(by_pid', StatsSet) /\ PidMap(cold_load', LoadSet)
         /\ \A p \in PIDs : Loaded(cold_load', p)
                              <=> Loaded(cold_load, p) \/ p \in JustLoaded(cold_load, cold_load')
         /\ \A p \in PIDs : \E f, g \in SUBSET Samples :
              LET s == FoldIn(FoldIn(StatsOf(by_pid, p), f), g)
                  n == StatsOf(by_pid', p)
              IN  /\ \A x \in f \cup g : x.at = tick_count + 1
                  /\ n.samples = s.samples /\ n.steady = s.steady
                  /\ n.steady_started <=> s.steady_started
                                            \/ p \in JustLoaded(cold_load, cold_load')
<1> DEFINE now  == tick_count + 1
           prev == Updated(live, ai)
           one  == Drained(by_pid, frames, now)
           two  == Folded(prev, ai, now)
           just == JustLoaded(cold_load, cold_load')
<1>1. /\ tick_count' = now /\ cold_load' = Loads(cold_load, io, now)
      /\ by_pid' = Marked(two, just)
  BY DEF Tick, Folded, Watts
<1>2. now \in Nat /\ PidMap(by_pid, StatsSet) /\ frames \in SUBSET FrameSet /\ PidMap(cold_load, LoadSet)
  BY DEF TypeOK
<1>3. PidMap(io, Readings)
  BY DEF TickInput, PidMap
<1>4. /\ PidMap(cold_load', LoadSet) /\ just \subseteq PIDs
      /\ \A p \in PIDs : Loaded(cold_load', p) <=> Loaded(cold_load, p) \/ p \in just
  BY <1>1, <1>2, <1>3, LoadsProperties
<1>5. Watts(prev, ai) \in SUBSET FrameSet
  <2>1. live \in SUBSET PIDs
    BY DEF TickInput
  <2>2. PidMap(prev, Procs) /\ DOMAIN prev = live
    BY <2>1, UpdatedProperties
  <2> HIDE DEF prev
  <2>3. \A p \in ai : p \in PIDs /\ prev[p].life \in Nat
    BY <2>2 DEF TickInput, PidMap, Procs
  <2>4. QED BY <2>3 DEF Watts, FrameSet
<1> HIDE DEF now, prev, just
<1>6. /\ PidMap(one, StatsSet)
      /\ \A p \in PIDs : /\ Stamped(frames, p, now) \in SUBSET Samples
                         /\ \A f \in Stamped(frames, p, now) : f.at = now
                         /\ StatsOf(one, p) = FoldIn(StatsOf(by_pid, p), Stamped(frames, p, now))
  BY <1>2, DrainedProperties
<1> HIDE DEF one
<1>7. /\ PidMap(two, StatsSet)
      /\ \A p \in PIDs : /\ Stamped(Watts(prev, ai), p, now) \in SUBSET Samples
                         /\ \A f \in Stamped(Watts(prev, ai), p, now) : f.at = now
                         /\ StatsOf(two, p) = FoldIn(StatsOf(one, p), Stamped(Watts(prev, ai), p, now))
  <2> DEFINE W == Watts(prev, ai)
             new == Drained(one, W, now)
  <2>1. two = new
    BY DEF Folded, one
  <2>2. W \in SUBSET FrameSet /\ PidMap(one, StatsSet) /\ now \in Nat
    BY <1>2, <1>5, <1>6
  <2> HIDE DEF two, W
  <2>3. /\ PidMap(new, StatsSet)
        /\ \A p \in PIDs : /\ Stamped(W, p, now) \in SUBSET Samples
                           /\ \A f \in Stamped(W, p, now) : f.at = now
                           /\ StatsOf(new, p) = FoldIn(StatsOf(one, p), Stamped(W, p, now))
    BY <2>2, DrainedProperties
  <2> HIDE DEF new
  <2>4. QED BY <2>1, <2>3 DEF W
<1> HIDE DEF two
<1>8. /\ PidMap(by_pid', StatsSet)
      /\ \A p \in PIDs :
           /\ StatsOf(by_pid', p).samples = StatsOf(two, p).samples
           /\ StatsOf(by_pid', p).steady = StatsOf(two, p).steady
           /\ StatsOf(by_pid', p).steady_started
                <=> (StatsOf(two, p).steady_started \/ p \in just)
  <2>1. just \in SUBSET PIDs
    BY <1>4
  <2>2. QED BY <1>1, <1>7, <2>1, MarkedProperties
<1>9. ASSUME NEW p \in PIDs
      PROVE  \E f, g \in SUBSET Samples :
               LET s == FoldIn(FoldIn(StatsOf(by_pid, p), f), g)
                   n == StatsOf(by_pid', p)
               IN  /\ \A x \in f \cup g : x.at = now
                   /\ n.samples = s.samples /\ n.steady = s.steady
                   /\ n.steady_started <=> s.steady_started \/ p \in just
  <2> DEFINE f == Stamped(frames, p, now)
             g == Stamped(Watts(prev, ai), p, now)
  <2>1. f \in SUBSET Samples /\ \A x \in f : x.at = now
    BY <1>6
  <2>2. g \in SUBSET Samples /\ \A x \in g : x.at = now
    BY <1>7
  <2>3. StatsOf(two, p) = FoldIn(FoldIn(StatsOf(by_pid, p), f), g)
    BY <1>6, <1>7
  <2> HIDE DEF f, g
  <2>4. QED BY <1>8, <2>1, <2>2, <2>3
<1>10. QED BY <1>1, <1>4, <1>8, <1>9 DEF now, just

\* A tick keeps the state well formed.
LEMMA TickType ==
  ASSUME TypeOK, NEW live, NEW ai, NEW io, TickInput(live, ai, io), Tick(live, ai, io)
  PROVE  TypeOK'
<1> DEFINE now  == tick_count + 1
           prev == Updated(live, ai)
<1>1. live \in SUBSET PIDs /\ ai \subseteq live
  BY DEF TickInput
<1>2. PidMap(prev, Procs) /\ DOMAIN prev = live /\ Cardinality(Newcomers(live)) \in Nat
  BY <1>1, UpdatedProperties
<1>3. tick_count' \in Nat /\ lives' \in Nat
  BY <1>2 DEF Tick, TypeOK
<1>4. PidMap(previous', Procs) /\ DOMAIN previous' = live
  BY <1>2 DEF Tick
<1>5. PidMap(todo', Procs) /\ DOMAIN todo' \cap DOMAIN previous' = {}
  <2>1. todo' = Without(previous, live) /\ PidMap(previous, Procs)
    BY DEF Tick, TypeOK
  <2>2. PidMap(Without(previous, live), Procs)
        /\ DOMAIN Without(previous, live) = DOMAIN previous \ live
    BY <2>1, WithoutProperties
  <2>3. QED BY <1>4, <2>1, <2>2
<1>6. PidMap(by_pid', StatsSet) /\ PidMap(cold_load', LoadSet)
  BY TickSlots
<1> HIDE DEF prev
<1>7. \A p \in ai : p \in PIDs /\ prev[p].life \in Nat
  BY <1>1, <1>2 DEF PidMap, Procs
<1>8. tasks' \subseteq TaskSet /\ frames' \subseteq FrameSet
  <2>1. tasks' = tasks \cup {[pid |-> p, life |-> prev[p].life, asked |-> now] : p \in ai}
    BY DEF Tick, prev
  <2>2. QED BY <1>7, <2>1 DEF Tick, TypeOK, TaskSet
<1>9. PidMap(trajectories', Rings)
  <2> DEFINE x(p) == [life |-> prev[p].life, at |-> now]
             push(p) == RingPush(RingOf(trajectories, p), x(p))
  <2>1. trajectories' = [p \in DOMAIN trajectories \cup ai |->
                           IF p \in ai THEN push(p) ELSE trajectories[p]]
    BY DEF Tick, prev
  <2>2. PidMap(trajectories, Rings)
    BY DEF TypeOK
  <2>3. ASSUME NEW p \in ai PROVE push(p) \in Rings
    <3>1. x(p) \in Samples
      BY <1>7 DEF TypeOK, Samples
    <3>2. RingOf(trajectories, p) \in Rings
      BY <2>2, RingOfType
    <3> HIDE DEF x
    <3>3. QED BY <3>1, <3>2, RingPushProperties
  <2> HIDE DEF push
  <2>4. QED BY <1>1, <2>1, <2>2, <2>3 DEF PidMap
<1>10. UNCHANGED <<completed, attribution, regressions, regressions_count, detected>>
  BY DEF Tick
<1>11. QED BY <1>3, <1>4, <1>5, <1>6, <1>8, <1>9, <1>10 DEF TypeOK

\* The ring of regressions after an exit.
Ringed(found) == Min({AuditHistory, regressions + found})

\* It is full, or longer by what was found.
LEMMA RingedValue ==
  ASSUME TypeOK, NEW found \in Nat
  PROVE  /\ Ringed(found) = IF AuditHistory <= regressions + found THEN AuditHistory
                            ELSE regressions + found
         /\ Ringed(found) \in Nat
<1>1. AuditHistory \in Nat /\ regressions + found \in Nat
  BY TelemetryAssumption DEF TypeOK
<1>2. QED BY <1>1, MinOfTwo DEF Ringed

\* An exit keeps the state well formed.
LEMMA ExitType ==
  ASSUME TypeOK, NEW p \in DOMAIN todo, NEW found \in Nat, DrainExit(p, found)
  PROVE  TypeOK'
<1>1. p \in PIDs /\ todo[p] \in Procs
  BY DEF TypeOK, PidMap
<1>2. todo[p].life \in Nat /\ todo[p].ai \in BOOLEAN
  BY <1>1 DEF Procs
<1>3. /\ PidMap(by_pid', StatsSet) /\ PidMap(cold_load', LoadSet) /\ PidMap(trajectories', Rings)
      /\ PidMap(todo', Procs) /\ DOMAIN todo' \subseteq DOMAIN todo
  <2>1. /\ by_pid' = Without(by_pid, {p}) /\ cold_load' = Without(cold_load, {p})
        /\ trajectories' = Without(trajectories, {p}) /\ todo' = Without(todo, {p})
    BY DEF DrainExit, Forget, ForgetLoad, DrainRing
  <2>2. /\ PidMap(by_pid, StatsSet) /\ PidMap(cold_load, LoadSet) /\ PidMap(trajectories, Rings)
        /\ PidMap(todo, Procs)
    BY DEF TypeOK
  <2>3. PidMap(by_pid', StatsSet)
    BY <2>1, <2>2, WithoutProperties
  <2>4. PidMap(cold_load', LoadSet)
    BY <2>1, <2>2, WithoutProperties
  <2>5. PidMap(trajectories', Rings)
    BY <2>1, <2>2, WithoutProperties
  <2>6. PidMap(todo', Procs) /\ DOMAIN todo' = DOMAIN todo \ {p}
    BY <2>1, <2>2, WithoutProperties
  <2>7. QED BY <2>3, <2>4, <2>5, <2>6
<1>4. regressions' \in Nat /\ regressions_count' \in Int /\ detected' \in Nat
  <2>1. /\ regressions' = Ringed(found) /\ detected' = detected + found
        /\ regressions_count' = regressions_count + (Ringed(found) - regressions)
    BY DEF DrainExit, Fresh, Ringed
  <2>2. Ringed(found) \in Nat
    BY RingedValue
  <2>3. QED BY <2>1, <2>2 DEF TypeOK
<1>5. completed' \in Seq(Completions)
  <2> DEFINE c == [life |-> todo[p].life, ai |-> todo[p].ai, trajectory |-> RingOf(trajectories, p)]
  <2>1. RingOf(trajectories, p) \in Rings
    BY RingOfType DEF TypeOK
  <2>2. c \in Completions
    BY <1>2, <2>1 DEF Completions
  <2>3. completed' = Trim(Append(completed, c)) /\ completed \in Seq(Completions)
    BY DEF DrainExit, TypeOK
  <2> HIDE DEF c
  <2>4. QED BY <2>2, <2>3, TrimProperties
<1>6. attribution' \in Seq(Nat \cup {None})
  <2> DEFINE a == IF todo[p].ai THEN todo[p].life ELSE None
  <2>1. a \in Nat \cup {None}
    BY <1>2
  <2>2. attribution' = Trim(Append(attribution, a)) /\ attribution \in Seq(Nat \cup {None})
    BY DEF DrainExit, Attributed, TypeOK
  <2> HIDE DEF a
  <2>3. QED BY <2>1, <2>2, TrimProperties
<1>7. UNCHANGED <<tick_count, lives, previous, tasks, frames>>
  BY DEF DrainExit
<1>8. QED BY <1>3, <1>4, <1>5, <1>6, <1>7 DEF TypeOK

\* The steps, with the inputs that a tick and an exit get.
LEMMA NextCases ==
  ASSUME [Next]_vars
  PROVE  \/ \E live, ai, io : TickInput(live, ai, io) /\ Tick(live, ai, io)
         \/ \E p \in DOMAIN todo, found \in Nat : DrainExit(p, found)
         \/ \E t \in tasks : Answer(t) \/ Drop(t)
         \/ UNCHANGED vars
<1>1. CASE AnyTick
  <2>1. PICK live \in SUBSET PIDs : \E ai \in SUBSET (live \cap AiPIDs) :
          \E seen \in SUBSET ai : \E io \in [seen -> Readings] : Tick(live, ai, io)
    BY <1>1 DEF AnyTick
  <2>2. PICK ai \in SUBSET (live \cap AiPIDs) :
          \E seen \in SUBSET ai : \E io \in [seen -> Readings] : Tick(live, ai, io)
    BY <2>1
  <2>3. PICK seen \in SUBSET ai : \E io \in [seen -> Readings] : Tick(live, ai, io)
    BY <2>2
  <2>4. PICK io \in [seen -> Readings] : Tick(live, ai, io)
    BY <2>3
  <2>5. TickInput(live, ai, io)
    BY DEF TickInput
  <2>6. QED BY <2>4, <2>5
<1>2. CASE AnyExit
  BY <1>2, TelemetryAssumption DEF AnyExit
<1>3. QED BY <1>1, <1>2 DEF Next

\* Every step keeps the state well formed.
LEMMA NextType == ASSUME TypeOK, [Next]_vars PROVE TypeOK'
<1>1. ASSUME NEW live, NEW ai, NEW io, TickInput(live, ai, io), Tick(live, ai, io) PROVE TypeOK'
  BY <1>1, TickType
<1>2. ASSUME NEW p \in DOMAIN todo, NEW found \in Nat, DrainExit(p, found) PROVE TypeOK'
  BY <1>2, ExitType
<1>3. ASSUME NEW t \in tasks, Answer(t) \/ Drop(t) PROVE TypeOK'
  <2>1. t.pid \in PIDs /\ t.life \in Nat
    BY DEF TypeOK, TaskSet
  <2>2. [pid |-> t.pid, life |-> t.life] \in FrameSet
    BY <2>1 DEF FrameSet
  <2>3. tasks' \subseteq TaskSet /\ frames' \subseteq FrameSet
    BY <1>3, <2>2 DEF Answer, Drop, TypeOK
  <2>4. UNCHANGED <<tick_count, lives, previous, todo, by_pid, cold_load, trajectories,
                    completed, attribution, regressions, regressions_count, detected>>
    BY <1>3 DEF Answer, Drop
  <2>5. QED BY <2>3, <2>4 DEF TypeOK
<1>4. CASE UNCHANGED vars
  BY <1>4 DEF TypeOK, vars
<1>5. QED BY <1>1, <1>2, <1>3, <1>4, NextCases

\* The state is well formed at the start.
LEMMA InitType == Init => TypeOK
<1>1. ASSUME NEW S PROVE PidMap(<<>>, S)
  BY DEF PidMap
<1>2. QED BY <1>1 DEF Init, TypeOK

\* Type correctness of the trackers, the rings and the channel.
THEOREM TypeCorrect == Spec => []TypeOK
<1>1. TypeOK /\ [Next]_vars => TypeOK'
  BY NextType
<1>2. QED BY <1>1, InitType, PTL DEF Spec

----------------------------------------------------------------------------
(* The accumulator                                                         *)

\* The slots after an exit: that of the PID is gone from both maps.
LEMMA ExitSlots ==
  ASSUME TypeOK, NEW p \in DOMAIN todo, NEW found \in Nat, DrainExit(p, found), NEW q \in PIDs
  PROVE  /\ StatsOf(by_pid', q) = IF q = p THEN Stats ELSE StatsOf(by_pid, q)
         /\ Loaded(cold_load', q) <=> q # p /\ Loaded(cold_load, q)
         /\ tick_count' = tick_count
<1>1. by_pid' = Without(by_pid, {p}) /\ cold_load' = Without(cold_load, {p})
  BY DEF DrainExit, Forget, ForgetLoad
<1>2. StatsOf(by_pid', q) = IF q = p THEN Stats ELSE StatsOf(by_pid, q)
  BY <1>1 DEF StatsOf, Without
<1>3. Loaded(cold_load', q) <=> q # p /\ Loaded(cold_load, q)
  BY <1>1 DEF Loaded, Without
<1>4. QED BY <1>2, <1>3 DEF DrainExit

\* An empty slot is good.
LEMMA EmptyIsGood == ASSUME NEW hi PROVE GoodStats(Stats, hi)
  BY DEF GoodStats, Stats

\* A tick folds in frames of its own number, an exit empties the slot.
LEMMA AccStep == ASSUME TypeOK, AccInv, [Next]_vars PROVE AccInv'
<1>1. ASSUME NEW live, NEW ai, NEW io, TickInput(live, ai, io), Tick(live, ai, io) PROVE AccInv'
  <2> DEFINE now == tick_count + 1
  <2>1. tick_count' = now /\ tick_count \in Nat /\ now \in Nat /\ tick_count <= now /\ now <= now
    BY <1>1, TickSlots DEF TypeOK
  <2> SUFFICES ASSUME NEW p \in PIDs PROVE GoodStats(StatsOf(by_pid', p), now)
    BY <2>1 DEF AccInv
  <2> DEFINE old == StatsOf(by_pid, p)
             n   == StatsOf(by_pid', p)
  <2>2. GoodStats(old, tick_count) /\ old \in StatsSet
    BY StatsOfType DEF AccInv, TypeOK
  <2>3. PICK f, g \in SUBSET Samples :
          /\ \A x \in f \cup g : x.at = now
          /\ n.samples = FoldIn(FoldIn(old, f), g).samples
          /\ n.steady = FoldIn(FoldIn(old, f), g).steady
          /\ n.steady_started <=> FoldIn(FoldIn(old, f), g).steady_started
                                    \/ p \in JustLoaded(cold_load, cold_load')
    BY <1>1, TickSlots
  <2> HIDE DEF old, n, now
  <2> DEFINE one == FoldIn(old, f)
             two == FoldIn(one, g)
  <2>4. one \in StatsSet /\ GoodStats(one, now)
    <3>1. \A x \in f : x.at = now
      BY <2>3
    <3>2. one \in StatsSet
      BY <2>2, FoldInProperties
    <3>3. GoodStats(one, now)
      BY <2>1, <2>2, <3>1, FoldInGood
    <3>4. QED BY <3>2, <3>3
  <2> HIDE DEF one
  <2>5. GoodStats(two, now)
    BY <2>1, <2>3, <2>4, FoldInGood
  <2>6. n.samples = two.samples /\ n.steady = two.steady /\ (two.steady_started => n.steady_started)
    BY <2>3 DEF one
  <2> HIDE DEF two
  <2>7. GoodStats(n, now)
    BY <2>5, <2>6 DEF GoodStats
  <2>8. QED BY <2>7 DEF n
<1>2. ASSUME NEW p \in DOMAIN todo, NEW found \in Nat, DrainExit(p, found) PROVE AccInv'
  <2> SUFFICES ASSUME NEW q \in PIDs PROVE GoodStats(StatsOf(by_pid', q), tick_count')
    BY DEF AccInv
  <2>1. CASE q = p
    BY <1>2, <2>1, ExitSlots, EmptyIsGood
  <2>2. CASE q # p
    BY <1>2, <2>2, ExitSlots DEF AccInv
  <2>3. QED BY <2>1, <2>2
<1>3. CASE UNCHANGED <<tick_count, by_pid>>
  BY <1>3 DEF AccInv
<1>4. QED BY <1>1, <1>2, <1>3, NextCases DEF Answer, Drop, vars

\* At the start the accumulator is empty.
LEMMA AccInit == Init => AccInv
<1>1. ASSUME NEW p PROVE StatsOf(<<>>, p) = Stats
  BY DEF StatsOf
<1>2. QED BY <1>1, EmptyIsGood DEF Init, AccInv

\* The mark of a slot and the state of its load move together.
LEMMA LoadStep == ASSUME TypeOK, LoadInv, [Next]_vars PROVE LoadInv'
<1>1. ASSUME NEW live, NEW ai, NEW io, TickInput(live, ai, io), Tick(live, ai, io),
             NEW p \in PIDs
      PROVE  StatsOf(by_pid', p).steady_started <=> Loaded(cold_load', p)
  <2> DEFINE old == StatsOf(by_pid, p)
  <2>1. PICK f, g \in SUBSET Samples :
          StatsOf(by_pid', p).steady_started
            <=> FoldIn(FoldIn(old, f), g).steady_started
                  \/ p \in JustLoaded(cold_load, cold_load')
    BY <1>1, TickSlots
  <2>2. old \in StatsSet
    BY StatsOfType DEF TypeOK
  <2> HIDE DEF old
  <2>3. FoldIn(old, f) \in StatsSet /\ FoldIn(old, f).steady_started = old.steady_started
    BY <2>2, FoldInProperties
  <2>4. FoldIn(FoldIn(old, f), g).steady_started = FoldIn(old, f).steady_started
    BY <2>3, FoldInProperties
  <2>5. old.steady_started <=> Loaded(cold_load, p)
    BY DEF LoadInv, old
  <2>6. Loaded(cold_load', p) <=> Loaded(cold_load, p) \/ p \in JustLoaded(cold_load, cold_load')
    BY <1>1, TickSlots
  <2>7. QED BY <2>1, <2>3, <2>4, <2>5, <2>6
<1>2. ASSUME NEW p \in DOMAIN todo, NEW found \in Nat, DrainExit(p, found), NEW q \in PIDs
      PROVE  StatsOf(by_pid', q).steady_started <=> Loaded(cold_load', q)
  <2>1. CASE q = p
    <3>1. StatsOf(by_pid', q) = Stats /\ ~Loaded(cold_load', q)
      BY <1>2, <2>1, ExitSlots
    <3>2. QED BY <3>1 DEF Stats
  <2>2. CASE q # p
    BY <1>2, <2>2, ExitSlots DEF LoadInv
  <2>3. QED BY <2>1, <2>2
<1>3. CASE UNCHANGED <<by_pid, cold_load>>
  BY <1>3 DEF LoadInv
<1>4. QED BY <1>1, <1>2, <1>3, NextCases DEF Answer, Drop, vars, LoadInv

\* A workload is steady exactly when its cold load is final, and its steady
\* share is everything folded in from then on (record_disk_io and the two
\* forgets).
THEOREM SteadyMeansLoadedHolds == Spec => []SteadyMeansLoaded
<1>1. TypeOK /\ AccInv /\ [Next]_vars => AccInv'
  BY AccStep
<1>2. Init => LoadInv
  <2>1. ASSUME NEW p PROVE StatsOf(<<>>, p) = Stats /\ ~Loaded(<<>>, p)
    BY DEF StatsOf, Loaded
  <2>2. ~Stats.steady_started
    BY DEF Stats
  <2>3. QED BY <2>1, <2>2 DEF Init, LoadInv
<1>3. TypeOK /\ LoadInv /\ [Next]_vars => LoadInv'
  BY LoadStep
<1>4. TypeOK /\ AccInv /\ LoadInv => SteadyMeansLoaded
  <2> SUFFICES ASSUME TypeOK, AccInv, LoadInv PROVE SteadyMeansLoaded
    OBVIOUS
  <2>1. \A p \in PIDs : StatsOf(by_pid, p).steady_started
                          <=> p \in DOMAIN cold_load /\ cold_load[p].finalised
    BY DEF LoadInv, Loaded
  <2>2. ASSUME NEW p \in DOMAIN by_pid, NEW f \in by_pid[p].samples, NEW g \in by_pid[p].steady,
               f.at > g.at
        PROVE  f \in by_pid[p].steady
    <3>1. p \in PIDs /\ StatsOf(by_pid, p) = by_pid[p]
      BY DEF TypeOK, PidMap, StatsOf
    <3>2. GoodStats(by_pid[p], tick_count)
      BY <3>1 DEF AccInv
    <3>3. QED BY <2>2, <3>2 DEF GoodStats
  <2>3. QED BY <2>1, <2>2 DEF SteadyMeansLoaded
<1>5. QED BY <1>1, <1>2, <1>3, <1>4, AccInit, TypeCorrect, PTL DEF Spec

----------------------------------------------------------------------------
(* The rings of exits                                                      *)

\* Samples of one life by tick t are so by a later one; no samples are of any.
LEMMA OneLifeLater ==
  ASSUME NEW ring \in Rings, NEW life, NEW t \in Nat, NEW u \in Nat, t <= u,
         OneLife(ring, life, t)
  PROVE  OneLife(ring, life, u)
<1>1. ASSUME NEW j \in 1 .. Len(ring) PROVE ring[j].at \in Nat
  <2>1. ring[j] \in Samples
    BY DEF Rings
  <2>2. QED BY <2>1 DEF Samples
<1>2. QED BY <1>1 DEF OneLife

LEMMA OneLifeEmpty == ASSUME NEW life, NEW t PROVE OneLife(<<>>, life, t)
  BY DEF OneLife

\* A ring goes with the process it was sampled from.
LEMMA OwnedStep == ASSUME TypeOK, RingsOwned, [Next]_vars PROVE RingsOwned'
<1>1. ASSUME NEW live, NEW ai, NEW io, TickInput(live, ai, io), Tick(live, ai, io)
      PROVE  RingsOwned'
  <2> DEFINE now  == tick_count + 1
             prev == Updated(live, ai)
             x(p) == [life |-> prev[p].life, at |-> now]
  <2>1. live \in SUBSET PIDs /\ ai \subseteq live /\ tick_count \in Nat /\ now \in Nat
    BY <1>1 DEF TickInput, TypeOK
  <2>2. /\ PidMap(prev, Procs) /\ DOMAIN prev = live
        /\ \A p \in live \cap DOMAIN previous : prev[p] = previous[p]
    BY <2>1, UpdatedProperties
  <2>3. /\ tick_count' = now /\ previous' = prev /\ todo' = Without(previous, live)
        /\ DOMAIN todo = {}
        /\ DOMAIN trajectories' = DOMAIN trajectories \cup ai
        /\ \A p \in DOMAIN trajectories \cup ai :
             trajectories'[p] = IF p \in ai THEN RingPush(RingOf(trajectories, p), x(p))
                                ELSE trajectories[p]
    BY <1>1 DEF Tick
  <2>4. /\ DOMAIN todo' = DOMAIN previous \ live
        /\ \A p \in DOMAIN previous \ live : todo'[p] = previous[p]
    <3>1. PidMap(previous, Procs) /\ todo' = Without(previous, live)
      BY <2>3 DEF TypeOK
    <3>2. QED BY <3>1, WithoutProperties
  <2>5. ASSUME NEW p \in DOMAIN trajectories
        PROVE  /\ trajectories[p] \in Rings /\ p \in DOMAIN previous
               /\ OneLife(trajectories[p], previous[p].life, tick_count)
    BY <2>3 DEF TypeOK, PidMap, RingsOwned
  <2> HIDE DEF prev, now
  <2> SUFFICES ASSUME NEW p \in DOMAIN trajectories \cup ai
               PROVE  \/ p \in DOMAIN previous' /\ OneLife(trajectories'[p], previous'[p].life, now)
                      \/ p \in DOMAIN todo' /\ OneLife(trajectories'[p], todo'[p].life, now)
    BY <2>3 DEF RingsOwned
  <2>6. CASE p \in ai
    <3> DEFINE ring == RingOf(trajectories, p)
    <3>1. x(p) \in Samples /\ x(p).life = prev[p].life /\ x(p).at = now
      <4>1. prev[p] \in Procs
        BY <2>1, <2>2, <2>6 DEF PidMap
      <4>2. prev[p].life \in Nat
        BY <4>1 DEF Procs
      <4>3. QED BY <2>1, <4>2 DEF Samples
    <3>2. ring \in Rings
      BY RingOfType DEF TypeOK
    <3>3. OneLife(ring, prev[p].life, tick_count)
      <4>1. CASE p \in DOMAIN trajectories
        BY <2>1, <2>2, <2>5, <2>6, <4>1 DEF RingOf
      <4>2. CASE p \notin DOMAIN trajectories
        BY <4>2, OneLifeEmpty DEF RingOf
      <4>3. QED BY <4>1, <4>2
    <3>4. tick_count < now
      BY <2>1 DEF now
    <3>5. trajectories'[p] = RingPush(ring, x(p))
      BY <2>3, <2>6
    <3> HIDE DEF ring, x
    <3>6. OneLife(RingPush(ring, x(p)), x(p).life, x(p).at)
      BY <2>1, <3>1, <3>2, <3>3, <3>4, RingPushProperties
    <3>7. QED BY <2>1, <2>2, <2>3, <2>6, <3>1, <3>5, <3>6
  <2>7. CASE p \notin ai
    <3>1. p \in DOMAIN trajectories /\ trajectories'[p] = trajectories[p]
      BY <2>3, <2>7
    <3>2. tick_count <= now
      BY <2>1 DEF now
    <3>3. p \in DOMAIN previous /\ OneLife(trajectories'[p], previous[p].life, now)
      BY <2>1, <2>5, <3>1, <3>2, OneLifeLater
    <3>4. CASE p \in live
      BY <2>2, <2>3, <3>3, <3>4
    <3>5. CASE p \notin live
      BY <2>4, <3>3, <3>5
    <3>6. QED BY <3>4, <3>5
  <2>8. QED BY <2>6, <2>7
<1>2. ASSUME NEW p \in DOMAIN todo, NEW found \in Nat, DrainExit(p, found) PROVE RingsOwned'
  <2>1. /\ trajectories' = Without(trajectories, {p}) /\ todo' = Without(todo, {p})
        /\ UNCHANGED <<tick_count, previous>>
    BY <1>2 DEF DrainExit, DrainRing
  <2>2. /\ DOMAIN trajectories' = DOMAIN trajectories \ {p}
        /\ \A q \in DOMAIN trajectories \ {p} : trajectories'[q] = trajectories[q]
    BY <2>1, WithoutProperties DEF TypeOK
  <2>3. /\ DOMAIN todo' = DOMAIN todo \ {p}
        /\ \A q \in DOMAIN todo \ {p} : todo'[q] = todo[q]
    BY <2>1, WithoutProperties DEF TypeOK
  <2>4. QED BY <2>1, <2>2, <2>3 DEF RingsOwned
<1>3. CASE UNCHANGED <<tick_count, previous, todo, trajectories>>
  BY <1>3 DEF RingsOwned
<1>4. QED BY <1>1, <1>2, <1>3, NextCases DEF Answer, Drop, vars

\* A completed exit and its attribution, as ExitsPaired wants them.
Paired(c, a) ==
  /\ a = IF c.ai THEN c.life ELSE None
  /\ \A j \in DOMAIN c.trajectory :
       /\ c.trajectory[j].life = c.life
       /\ j > 1 => c.trajectory[j - 1].at < c.trajectory[j].at

\* The exit that is appended to both rings is paired.
LEMMA ExitPaired ==
  ASSUME TypeOK, RingsOwned, NEW p \in DOMAIN todo
  PROVE  Paired([life |-> todo[p].life, ai |-> todo[p].ai,
                 trajectory |-> RingOf(trajectories, p)],
                IF todo[p].ai THEN todo[p].life ELSE None)
<1> DEFINE ring == RingOf(trajectories, p)
<1>1. ring \in Rings
  BY RingOfType DEF TypeOK
<1>2. OneLife(ring, todo[p].life, tick_count)
  <2>1. CASE p \in DOMAIN trajectories
    <3>1. p \notin DOMAIN previous
      BY DEF TypeOK
    <3>2. QED BY <2>1, <3>1 DEF RingsOwned, RingOf
  <2>2. CASE p \notin DOMAIN trajectories
    BY <2>2, OneLifeEmpty DEF RingOf
  <2>3. QED BY <2>1, <2>2
<1> HIDE DEF ring
<1>3. DOMAIN ring = 1 .. Len(ring) /\ Len(ring) \in Nat
  BY <1>1 DEF Rings
<1>4. ASSUME NEW j \in DOMAIN ring
      PROVE  ring[j].life = todo[p].life /\ (j > 1 => ring[j - 1].at < ring[j].at)
  <2>1. j \in 1 .. Len(ring) /\ (j > 1 => j \in 2 .. Len(ring))
    BY <1>3
  <2>2. QED BY <1>2, <2>1 DEF OneLife
<1> DEFINE c == [life |-> todo[p].life, ai |-> todo[p].ai, trajectory |-> ring]
<1>5. c.life = todo[p].life /\ c.ai = todo[p].ai /\ c.trajectory = ring
  OBVIOUS
<1> HIDE DEF c
<1>6. Paired(c, IF todo[p].ai THEN todo[p].life ELSE None)
  BY <1>4, <1>5 DEF Paired
<1>7. QED BY <1>6 DEF c, ring

\* Both rings are appended to and trimmed together.
LEMMA PairStep == ASSUME TypeOK, PairInv, [Next]_vars PROVE PairInv'
<1>1. RingsOwned'
  BY OwnedStep DEF PairInv
<1>2. ASSUME NEW p \in DOMAIN todo, NEW found \in Nat, DrainExit(p, found) PROVE ExitsPaired'
  <2> DEFINE c == [life |-> todo[p].life, ai |-> todo[p].ai, trajectory |-> RingOf(trajectories, p)]
             a == IF todo[p].ai THEN todo[p].life ELSE None
             d == IF Len(completed) + 1 > CompletedHistory THEN 1 ELSE 0
             n == Len(completed)
  <2>1. /\ completed' = Trim(Append(completed, c)) /\ completed \in Seq(Completions)
        /\ attribution' = Trim(Append(attribution, a)) /\ attribution \in Seq(Nat \cup {None})
        /\ n \in Nat /\ Len(attribution) = n /\ DOMAIN completed = 1 .. n
    BY <1>2 DEF DrainExit, Attributed, TypeOK, PairInv, ExitsPaired
  <2>2. todo[p] \in Procs
    BY DEF TypeOK, PidMap
  <2>3. a \in Nat \cup {None}
    BY <2>2 DEF Procs
  <2>4. c \in Completions
    <3>1. RingOf(trajectories, p) \in Rings
      BY RingOfType DEF TypeOK
    <3>2. QED BY <2>2, <3>1 DEF Procs, Completions
  <2>5. Paired(c, a)
    BY ExitPaired DEF PairInv
  <2>6. \A i \in 1 .. n : Paired(completed[i], attribution[i])
    BY <2>1 DEF PairInv, ExitsPaired, Paired
  <2> HIDE DEF a, c
  <2>7. /\ completed' \in Seq(Completions) /\ Len(completed') = n + 1 - d
        /\ \A i \in 1 .. n + 1 - d : completed'[i] = IF i + d = n + 1 THEN c ELSE completed[i + d]
    <3> DEFINE new == Trim(Append(completed, c))
    <3>1. completed \in Seq(Completions) /\ c \in Completions
      BY <2>1, <2>4
    <3>2. /\ new \in Seq(Completions) /\ Len(new) = n + 1 - d
          /\ \A i \in 1 .. n + 1 - d : new[i] = IF i + d = n + 1 THEN c ELSE completed[i + d]
      BY <3>1, TrimProperties, Zenon
    <3> HIDE DEF new, d, n
    <3>3. completed' = new
      BY <2>1 DEF new
    <3>4. QED BY <3>2, <3>3
  <2>8. /\ Len(attribution') = n + 1 - d
        /\ \A i \in 1 .. n + 1 - d : attribution'[i] = IF i + d = n + 1 THEN a ELSE attribution[i + d]
    <3> DEFINE new == Trim(Append(attribution, a))
    <3>1. attribution \in Seq(Nat \cup {None}) /\ a \in Nat \cup {None}
      BY <2>1, <2>3
    <3> DEFINE k == Len(attribution)
               e == IF Len(attribution) + 1 > CompletedHistory THEN 1 ELSE 0
    <3>2. /\ Len(new) = k + 1 - e
          /\ \A i \in 1 .. k + 1 - e : new[i] = IF i + e = k + 1 THEN a ELSE attribution[i + e]
      BY <3>1, TrimProperties, Zenon
    <3>3. k = n /\ e = d
      BY <2>1
    <3> HIDE DEF new, d, n, e, k
    <3>4. attribution' = new
      BY <2>1 DEF new
    <3>5. QED BY <3>2, <3>3, <3>4
  <2>9. d \in {0, 1}
    OBVIOUS
  <2> HIDE DEF d, n
  <2>10. ASSUME NEW i \in 1 .. n + 1 - d PROVE Paired(completed'[i], attribution'[i])
    <3>1. CASE i + d = n + 1
      BY <2>5, <2>7, <2>8, <3>1
    <3>2. CASE i + d # n + 1
      <4>1. i + d \in 1 .. n
        BY <2>1, <2>9, <3>2
      <4>2. completed'[i] = completed[i + d] /\ attribution'[i] = attribution[i + d]
        BY <2>7, <2>8, <3>2
      <4>3. QED BY <2>6, <4>1, <4>2
    <3>3. QED BY <3>1, <3>2
  <2>11. DOMAIN completed' = 1 .. n + 1 - d /\ Len(attribution') = Len(completed')
    BY <2>7, <2>8
  <2>12. QED BY <2>10, <2>11 DEF ExitsPaired, Paired
<1>3. CASE UNCHANGED <<completed, attribution>>
  <2>1. ExitsPaired'
    BY <1>3 DEF PairInv, ExitsPaired
  <2>2. QED BY <1>1, <2>1 DEF PairInv
<1>4. QED BY <1>1, <1>2, <1>3, NextCases DEF Tick, Answer, Drop, vars, PairInv

\* completed and recent_exit_attribution stay in step, and the trajectory of
\* an exit was sampled from that very life, in order (the exit drain of tick).
THEOREM ExitsPairedHolds == Spec => []ExitsPaired
<1>1. Init => PairInv
  BY DEF Init, PairInv, RingsOwned, ExitsPaired
<1>2. TypeOK /\ PairInv /\ [Next]_vars => PairInv'
  BY PairStep
<1>3. PairInv => ExitsPaired
  BY DEF PairInv
<1>4. QED BY <1>1, <1>2, <1>3, TypeCorrect, PTL DEF Spec

=============================================================================
