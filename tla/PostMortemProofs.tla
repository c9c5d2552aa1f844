-------------------------- MODULE PostMortemProofs --------------------------
(***************************************************************************)
(* Machine-checked results about PostMortem, for any PIDs, lines, lookback *)
(* and length of the tail: no OOM kill escapes the monitor's verdict, and   *)
(* the wrapper's record is about the last lines written.                   *)
(***************************************************************************)
EXTENDS PostMortem, SequenceTheorems, TLAPS

----------------------------------------------------------------------------
(* The inductive invariants                                                *)

Fates   == {Unborn, Alive} \cup Ends
Reasons == [kind : {"None", "GovernorKill", "Segfault", "OutOfMemory", "CudaError",
                    "UserSignal", "CleanExit", "Crash", "Unknown"},
            ram : BOOLEAN, vram : BOOLEAN]

\* A line in the pipe, and how many lines with text were written before it.
Written == [line : LineKinds, before : Nat]

\* The state is well formed.
TypeOK ==
  /\ fate \in [Pids -> Fates]
  /\ klog \in [Pids -> Never .. Old]
  /\ tracked \subseteq Pids /\ governor_killed_pids \subseteq Pids /\ blind \subseteq Pids
  /\ verdict \in [Pids -> Reasons]
  /\ gap \in 0 .. Old
  /\ pc \in {"off", "running", "draining", "done", "aborted"}
  /\ pipe \in Seq(Written) /\ said \in Seq(LineKinds) /\ stderr_tail \in Seq(LineKinds)
  /\ reading \in BOOLEAN /\ helper \in BOOLEAN
  /\ interrupts \in Nat
  /\ record \in Reasons

\* The wrapper starts its child once, and drains the pipe of a dead one.
ChildInv ==
  /\ pc = "off" => fate[Child] = Unborn
  /\ pc \in {"draining", "done"} => Dead(Child)

\* A verdict is passed once, on a process that has ended.
JudgedOnce == \A p \in Pids : verdict[p] # None => Dead(p) /\ p \notin tracked

\* The OOM line of a process that the last tick still saw alive is no older
\* than that tick.
LogCurrent ==
  \A p \in tracked : /\ fate[p] # Unborn
                     /\ fate[p] = "oom" => klog[p] # Never /\ klog[p] <= gap

SeenInv == JudgedOnce /\ LogCurrent /\ OomSeen

\* How many lines with text had been written before the i-th in the pipe; the
\* one after the last is the next to be written.
Before(i) == IF i \in 1 .. Len(pipe) THEN pipe[i].before ELSE Len(said)

\* The lines with text read so far.
Heard == Before(1)

\* The i-th line in the pipe is the next line with text, or has none.
LineFaithful(i) ==
  /\ pipe[i].before <= Len(said)
  /\ IF pipe[i].line = "empty" THEN Before(i + 1) = pipe[i].before
     ELSE /\ Before(i + 1) = pipe[i].before + 1
          /\ pipe[i].before + 1 \in 1 .. Len(said)
          /\ pipe[i].line = said[pipe[i].before + 1]

\* While the reader lives, what was written is what it has read followed by
\* what is in the pipe, and its tail is the end of what it has read; it stops
\* with the pipe empty.
PipeFaithful ==
  "garbled" \notin ToSet(said) /\ pc \in {"running", "draining", "done"} =>
    /\ \A i \in 1 .. Len(pipe) : LineFaithful(i)
    /\ stderr_tail = LastOf(SubSeq(said, 1, Heard), StderrTail)
    /\ ~reading => pipe = <<>>

\* The order of run_exec: nothing is written before the start, and the record
\* comes last.
WrapperOrder ==
  /\ pc = "off" => said = <<>> /\ pipe = <<>> /\ stderr_tail = <<>> /\ ~reading
  /\ pc = "done" => ~reading
  /\ record # None => pc = "done"

HearInv == WrapperOrder /\ PipeFaithful /\ RecordHearsAll

----------------------------------------------------------------------------
(* Lemmas about the operators                                              *)

\* The classifier returns a reason.
LEMMA ClassifyType ==
  ASSUME NEW pid, NEW status \in {Status(e) : e \in Ends} \cup {NoStatus}, NEW governor \in BOOLEAN,
         NEW log, NEW lines
  PROVE  ClassifyExit(pid, status, governor, log, lines) \in Reasons
<1>1. /\ Reason("GovernorKill") \in Reasons /\ Reason("Segfault") \in Reasons
      /\ Reason("CudaError") \in Reasons
      /\ \A k \in {"Segfault", "UserSignal", "CleanExit", "Crash", "Unknown"} : Reason(k) \in Reasons
  BY DEF Reason, Reasons, None
<1>2. \A a, b \in BOOLEAN : OutOfMemory(a, b) \in Reasons
  BY DEF OutOfMemory, Reasons
<1>3. FromSummary(status) \in Reasons
  BY <1>1 DEF FromSummary, Status, Ends, NoStatus, Never
<1> DEFINE kernel_oom == status.signal \in {0, 9} /\ DmesgKilledPid(log, pid)
           cuda_oom   == CudaOom(lines)
<1>4. kernel_oom \in BOOLEAN /\ cuda_oom \in BOOLEAN
  BY DEF CudaOom, DmesgKilledPid
<1>5. OutOfMemory(kernel_oom, cuda_oom) \in Reasons
  BY <1>2, <1>4
<1>6. QED BY <1>1, <1>3, <1>5 DEF ClassifyExit

\* The monitor, without status and stderr, says "out of memory" exactly when
\* the log names the PID and it has not signalled the process itself.
LEMMA MonitorVerdict ==
  ASSUME NEW pid, NEW governor \in BOOLEAN, NEW log
  PROVE  LET v == ClassifyExit(pid, NoStatus, governor, log, <<>>)
         IN  /\ v.kind = "OutOfMemory" => DmesgKilledPid(log, pid)
             /\ ~governor /\ DmesgKilledPid(log, pid) => v = OutOfMemory(TRUE, FALSE)
<1> DEFINE v == ClassifyExit(pid, NoStatus, governor, log, <<>>)
<1>1. ~CudaOom(<<>>) /\ ~CudaError(<<>>)
  BY DEF CudaOom, CudaError, ToSet
<1>2. NoStatus.signal = 0 /\ NoStatus.code = Never
  BY DEF NoStatus
<1>3. FromSummary(NoStatus) = Reason("Unknown")
  BY <1>2 DEF FromSummary, Never, NoStatus
<1>4. CASE governor
  <2>1. v = Reason("GovernorKill")
    BY <1>4 DEF ClassifyExit
  <2>2. QED BY <1>4, <2>1 DEF Reason, None
<1>5. CASE ~governor /\ DmesgKilledPid(log, pid)
  <2>1. (NoStatus.signal \in {0, 9} /\ DmesgKilledPid(log, pid)) = TRUE /\ CudaOom(<<>>) = FALSE
    BY <1>1, <1>2, <1>5 DEF CudaOom
  <2>2. v = OutOfMemory(NoStatus.signal \in {0, 9} /\ DmesgKilledPid(log, pid), CudaOom(<<>>))
    BY <1>2, <1>5 DEF ClassifyExit
  <2>3. v = OutOfMemory(TRUE, FALSE)
    BY <2>1, <2>2, Zenon
  <2>4. QED BY <1>5, <2>3
<1>6. CASE ~governor /\ ~DmesgKilledPid(log, pid)
  <2>1. v = Reason("Unknown")
    BY <1>1, <1>2, <1>3, <1>6 DEF ClassifyExit
  <2>2. QED BY <1>6, <2>1 DEF Reason, None
<1>7. QED BY <1>4, <1>5, <1>6

\* The last n elements of a sequence.
LEMMA LastOfProperties ==
  ASSUME NEW S, NEW s \in Seq(S), NEW n \in Nat
  PROVE  LET d == IF Len(s) > n THEN Len(s) - n ELSE 0
         IN  /\ LastOf(s, n) \in Seq(S)
             /\ Len(LastOf(s, n)) = Len(s) - d
             /\ \A i \in 1 .. Len(s) - d : LastOf(s, n)[i] = s[d + i]
<1> DEFINE d == IF Len(s) > n THEN Len(s) - n ELSE 0
<1>1. d \in 0 .. Len(s) /\ LastOf(s, n) = SubSeq(s, 1 + d, Len(s))
  BY DEF LastOf
<1> HIDE DEF d
<1>2. 1 + d \in 1 .. Len(s) + 1 /\ Len(s) \in (1 + d) - 1 .. Len(s)
  BY <1>1
<1>3. LastOf(s, n) \in Seq(S)
  BY <1>1, <1>2
<1>4. Len(LastOf(s, n)) = Len(s) - d
  BY <1>1, <1>2
<1>5. \A i \in 1 .. Len(s) - d : LastOf(s, n)[i] = s[d + i]
  BY <1>1, <1>2
<1>6. QED BY <1>3, <1>4, <1>5 DEF d

\* Keeping the last n of the last n and one more is keeping the last n of all.
LEMMA LastOfAppend ==
  ASSUME NEW S, NEW s \in Seq(S), NEW x \in S, NEW n \in Nat \ {0}
  PROVE  LastOf(Append(LastOf(s, n), x), n) = LastOf(Append(s, x), n)
<1> DEFINE t == LastOf(s, n)
           u == Append(t, x)
           w == Append(s, x)
           a == LastOf(u, n)
           b == LastOf(w, n)
           d == IF Len(s) > n THEN Len(s) - n ELSE 0
           e == IF Len(w) > n THEN Len(w) - n ELSE 0
           g == IF Len(u) > n THEN Len(u) - n ELSE 0
<1>0. n \in Nat /\ Len(s) \in Nat
  OBVIOUS
<1>1. /\ t \in Seq(S) /\ Len(t) = Len(s) - d
      /\ \A i \in 1 .. Len(s) - d : t[i] = s[d + i]
  BY <1>0, LastOfProperties
<1> HIDE DEF t
<1>2. /\ u \in Seq(S) /\ Len(u) = Len(t) + 1
      /\ \A i \in 1 .. Len(t) : u[i] = t[i]
      /\ u[Len(t) + 1] = x
      /\ w \in Seq(S) /\ Len(w) = Len(s) + 1
      /\ \A i \in 1 .. Len(s) : w[i] = s[i]
      /\ w[Len(s) + 1] = x
  <2> HIDE DEF a, b, d, e, g
  <2>1. t \in Seq(S)
    BY <1>1
  <2>2. /\ u \in Seq(S) /\ Len(u) = Len(t) + 1
        /\ \A i \in 1 .. Len(t) : u[i] = t[i]
        /\ u[Len(t) + 1] = x
    BY <2>1, AppendProperties, SMT
  <2>3. /\ w \in Seq(S) /\ Len(w) = Len(s) + 1
        /\ \A i \in 1 .. Len(s) : w[i] = s[i]
        /\ w[Len(s) + 1] = x
    BY AppendProperties, SMT
  <2>4. QED BY <2>2, <2>3, Zenon
<1> HIDE DEF u, w
<1>3. /\ a \in Seq(S) /\ Len(a) = Len(u) - g
      /\ \A i \in 1 .. Len(u) - g : a[i] = u[g + i]
  BY <1>0, <1>2, LastOfProperties
<1>4. /\ b \in Seq(S) /\ Len(b) = Len(w) - e
      /\ \A i \in 1 .. Len(w) - e : b[i] = w[e + i]
  BY <1>0, <1>2, LastOfProperties
<1> HIDE DEF a, b
<1>5. d \in 0 .. Len(s) /\ e = d + g /\ g \in Nat /\ Len(t) \in Nat
  <2>1. CASE Len(s) > n
    <3>1. d = Len(s) - n /\ Len(t) = n /\ Len(u) = n + 1 /\ Len(w) = Len(s) + 1
      BY <1>0, <1>1, <1>2, <2>1
    <3>2. g = 1 /\ e = Len(s) + 1 - n
      BY <1>0, <2>1, <3>1
    <3>3. QED BY <1>0, <2>1, <3>1, <3>2
  <2>2. CASE ~(Len(s) > n)
    <3>1. d = 0 /\ Len(t) = Len(s) /\ Len(u) = Len(s) + 1 /\ Len(w) = Len(s) + 1
      BY <1>0, <1>1, <1>2, <2>2
    <3>2. QED BY <1>0, <2>2, <3>1
  <2>3. QED BY <2>1, <2>2
<1> HIDE DEF d, e, g
<1>6. Len(a) = Len(b)
  BY <1>0, <1>1, <1>2, <1>3, <1>4, <1>5
<1>7. ASSUME NEW i \in 1 .. Len(a) PROVE a[i] = b[i]
  <2>1. a[i] = u[g + i] /\ b[i] = w[d + g + i]
    BY <1>3, <1>4, <1>5, <1>6
  <2>2. i \in Nat /\ i >= 1 /\ g + i <= Len(t) + 1
    BY <1>0, <1>1, <1>2, <1>3, <1>5
  <2>3. CASE g + i <= Len(t)
    <3>1. g + i \in 1 .. Len(t) /\ d + (g + i) \in 1 .. Len(s)
      BY <1>0, <1>1, <1>5, <2>2, <2>3
    <3>2. u[g + i] = s[d + (g + i)] /\ w[d + (g + i)] = s[d + (g + i)]
      BY <1>1, <1>2, <3>1
    <3>3. QED BY <1>0, <1>5, <2>1, <2>2, <3>2
  <2>4. CASE g + i = Len(t) + 1
    <3>1. d + g + i = Len(s) + 1
      BY <1>0, <1>1, <1>5, <2>2, <2>4
    <3>2. QED BY <1>2, <2>1, <2>4, <3>1
  <2>5. QED BY <1>5, <2>2, <2>3, <2>4
<1>8. a = b
  BY <1>3, <1>4, <1>6, <1>7, SeqEqual
<1>9. QED BY <1>8 DEF a, b, t, u, w

----------------------------------------------------------------------------
(* Type correctness                                                        *)

USE DEF vars, monitor, wrapper

\* The initial state is well formed.
LEMMA InitType == ASSUME Init PROVE TypeOK
<1>1. None \in Reasons /\ <<>> \in Seq(LineKinds) /\ <<>> \in Seq(Written)
  BY DEF None, Reasons
<1>2. Never \in Never .. Old /\ 0 \in 0 .. Old
  BY PostMortemAssumption DEF Never, Old
<1>3. QED BY <1>1, <1>2 DEF Init, TypeOK, Fates

\* An age stays in range, and a recorded one stays recorded.
LEMMA OlderType ==
  ASSUME NEW a \in Never .. Old
  PROVE  /\ Older(a) \in Never .. Old
         /\ a \in 0 .. Old => Older(a) \in 0 .. Old
         /\ Older(a) = Never <=> a = Never
         /\ \A b \in 0 .. Old : a # Never /\ a <= b => Older(a) <= Older(b)
  BY PostMortemAssumption DEF Older, Never, Old

\* A tick keeps the state well formed.
LEMMA TickType == ASSUME TypeOK, NEW journal \in BOOLEAN, Tick(journal) PROVE TypeOK'
<1> DEFINE log == IF journal THEN RecentKernelLog ELSE {}
<1>1. ASSUME NEW p \in Pids
      PROVE  ClassifyExit(p, NoStatus, p \in governor_killed_pids, log, <<>>) \in Reasons
  <2>1. (p \in governor_killed_pids) \in BOOLEAN
    OBVIOUS
  <2>2. QED BY <2>1, ClassifyType
<1>2. verdict' \in [Pids -> Reasons]
  BY <1>1 DEF Tick, TypeOK
<1>3. tracked' \subseteq Pids /\ governor_killed_pids' \subseteq Pids
  BY DEF Tick, TypeOK
<1>4. blind' \subseteq Pids
  BY DEF Tick, TypeOK, Exits
<1>5. gap' \in 0 .. Old
  BY PostMortemAssumption DEF Tick, Old
<1>6. UNCHANGED <<fate, klog, wrapper, helper, said>>
  BY DEF Tick
<1>7. QED BY <1>2, <1>3, <1>4, <1>5, <1>6 DEF TypeOK

\* Every step keeps the state well formed.
LEMMA NextType == ASSUME TypeOK, ChildInv, [Next]_vars PROVE TypeOK'
<1>1. ASSUME NEW p \in Pids, Spawn(p) PROVE TypeOK'
  BY <1>1 DEF Spawn, TypeOK, Fates
<1>2. ASSUME NEW p \in Pids, OomKill(p) PROVE TypeOK'
  <2>1. 0 \in Never .. Old /\ "oom" \in Fates
    BY PostMortemAssumption DEF Never, Old, Fates, Ends
  <2>2. QED BY <1>2, <2>1 DEF OomKill, TypeOK
<1>3. ASSUME NEW p \in Pids, Signal(p) PROVE TypeOK'
  BY <1>3 DEF Signal, TypeOK
<1>4. ASSUME NEW p \in Pids, NEW end \in Ends \ {"oom"}, Die(p, end) PROVE TypeOK'
  <2>1. end \in Fates
    BY DEF Fates
  <2>2. QED BY <1>4, <2>1 DEF Die, TypeOK
<1>5. ASSUME NEW line \in Lines, Write(line) PROVE TypeOK'
  <2>1. line \in LineKinds
    BY PostMortemAssumption
  <2>2. [line |-> line, before |-> Len(said)] \in Written /\ Append(said, line) \in Seq(LineKinds)
    BY <2>1 DEF TypeOK, Written
  <2>3. Append(pipe, [line |-> line, before |-> Len(said)]) \in Seq(Written)
    BY <2>2 DEF TypeOK
  <2>4. QED BY <1>5, <2>2, <2>3 DEF Write, TypeOK
<1>6. CASE Fork \/ HelperEnds
  BY <1>6 DEF Fork, HelperEnds, TypeOK
<1>7. CASE Elapse
  <2>1. gap' \in 0 .. Old
    BY <1>7, OlderType, PostMortemAssumption DEF Elapse, TypeOK, Never, Old
  <2>2. klog' \in [Pids -> Never .. Old]
    BY <1>7, OlderType DEF Elapse, TypeOK
  <2>3. QED BY <1>7, <2>1, <2>2 DEF Elapse, TypeOK
<1>8. CASE AnyTick
  BY <1>8, TickType DEF AnyTick
<1>9. CASE Exec
  BY <1>9, PostMortemAssumption DEF Exec, TypeOK, Fates
<1>10. CASE ReadLine
  <2>1. pipe # <<>>
    BY <1>10 DEF ReadLine
  <2>2. Head(pipe) \in Written /\ Tail(pipe) \in Seq(Written)
    BY <2>1, HeadTailProperties DEF TypeOK
  <2>3. Append(stderr_tail, Head(pipe).line) \in Seq(LineKinds)
    BY <2>2 DEF TypeOK, Written
  <2>4. RecordStderrLine(stderr_tail, Head(pipe).line) \in Seq(LineKinds)
    BY <2>3, LastOfProperties, PostMortemAssumption DEF RecordStderrLine, TypeOK
  <2>5. CASE Head(pipe).line = "garbled"
    <3>1. <<>> \in Seq(Written)
      OBVIOUS
    <3>2. QED BY <1>10, <2>5, <3>1 DEF ReadLine, TypeOK
  <2>6. CASE Head(pipe).line # "garbled"
    BY <1>10, <2>2, <2>4, <2>6 DEF ReadLine, TypeOK
  <2>7. QED BY <2>5, <2>6
<1>11. CASE EndOfFile
  BY <1>11 DEF EndOfFile, TypeOK
<1>12. CASE CtrlC
  <2>1. interrupts' \in Nat
    BY <1>12 DEF CtrlC, TypeOK
  <2>2. pc' \in {"off", "running", "draining", "done", "aborted"} /\ reading' \in BOOLEAN
    BY <1>12 DEF CtrlC, TypeOK
  <2>3. pipe' \in Seq(Written)
    <3>1. <<>> \in Seq(Written) /\ (pipe' = pipe \/ pipe' = <<>>)
      BY <1>12 DEF CtrlC
    <3>2. QED BY <3>1 DEF TypeOK
  <2>4. UNCHANGED <<fate, klog, gap, monitor, stderr_tail, record, helper, said>>
    BY <1>12 DEF CtrlC
  <2>5. QED BY <2>1, <2>2, <2>3, <2>4 DEF TypeOK
<1>13. CASE Wait
  BY <1>13 DEF Wait, TypeOK
<1>14. CASE Finish
  <2>1. fate[Child] \in Ends
    BY <1>14 DEF Finish, ChildInv, Dead
  <2>2. record' \in Reasons
    BY <1>14, <2>1, ClassifyType DEF Finish
  <2>3. QED BY <1>14, <2>2 DEF Finish, TypeOK
<1>15. CASE UNCHANGED vars
  BY <1>15 DEF TypeOK
<1>16. QED
  BY <1>1, <1>2, <1>3, <1>4, <1>5, <1>6, <1>7, <1>8, <1>9, <1>10, <1>11, <1>12, <1>13,
     <1>14, <1>15 DEF Next

\* A process that has ended stays as it ended, and one that has begun has.
LEMMA FateStable ==
  ASSUME TypeOK, ChildInv, [Next]_vars, NEW p \in Pids
  PROVE  /\ Dead(p) => fate'[p] = fate[p]
         /\ fate[p] # Unborn => fate'[p] # Unborn
         /\ fate[p] # "oom" /\ fate'[p] = "oom" => OomKill(p)
<1> USE DEF Unborn, Alive, Ends, Dead
<1>1. ASSUME NEW q \in Pids, Spawn(q) \/ OomKill(q)
      PROVE  /\ Dead(p) => fate'[p] = fate[p]
             /\ fate[p] # Unborn => fate'[p] # Unborn
             /\ fate[p] # "oom" /\ fate'[p] = "oom" => OomKill(p)
  BY <1>1 DEF Spawn, OomKill, TypeOK
<1>2. ASSUME NEW q \in Pids, NEW end \in Ends \ {"oom"}, Die(q, end)
      PROVE  /\ Dead(p) => fate'[p] = fate[p]
             /\ fate[p] # Unborn => fate'[p] # Unborn
             /\ fate[p] # "oom" => fate'[p] # "oom"
  BY <1>2 DEF Die, TypeOK
<1>3. CASE Exec
  BY <1>3 DEF Exec, TypeOK, ChildInv
<1>4. CASE fate' = fate
  BY <1>4
<1>5. QED
  BY <1>1, <1>2, <1>3, <1>4
  DEF Next, Signal, Write, Fork, HelperEnds, Elapse, AnyTick, Tick, ReadLine, EndOfFile,
      CtrlC, Wait, Finish

\* The order of the wrapper's states is kept.
LEMMA ChildStep == ASSUME TypeOK, ChildInv, [Next]_vars PROVE ChildInv'
<1>1. Child \in Pids
  BY PostMortemAssumption
<1>2. Dead(Child) => Dead(Child)'
  BY <1>1, FateStable DEF Dead
<1>3. CASE pc' = pc
  <2>1. pc = "off" => fate'[Child] = fate[Child]
    <3>1. ASSUME NEW p \in Pids, Spawn(p) PROVE fate'[Child] = fate[Child]
      BY <3>1 DEF Spawn, TypeOK
    <3>2. ASSUME pc = "off", NEW p \in Pids, OomKill(p) PROVE fate'[Child] = fate[Child]
      BY <1>1, <3>2 DEF OomKill, TypeOK, ChildInv, Unborn, Alive
    <3>3. ASSUME pc = "off", NEW p \in Pids, NEW end \in Ends \ {"oom"}, Die(p, end)
          PROVE  fate'[Child] = fate[Child]
      BY <1>1, <3>3 DEF Die, TypeOK, ChildInv, Unborn, Alive
    <3>4. CASE Exec
      BY <1>3, <3>4 DEF Exec
    <3>5. CASE fate' = fate
      BY <3>5
    <3>6. QED
      BY <3>1, <3>2, <3>3, <3>4, <3>5
      DEF Next, Signal, Write, Fork, HelperEnds, Elapse, AnyTick, Tick, ReadLine, EndOfFile,
          CtrlC, Wait, Finish
  <2>2. QED BY <1>2, <1>3, <2>1 DEF ChildInv
<1>4. CASE Exec \/ CtrlC
  BY <1>2, <1>4 DEF Exec, CtrlC, ChildInv
<1>5. CASE Wait
  BY <1>2, <1>5 DEF Wait, ChildInv
<1>6. CASE Finish
  BY <1>2, <1>6 DEF Finish, ChildInv
<1>7. QED
  BY <1>3, <1>4, <1>5, <1>6
  DEF Next, Spawn, OomKill, Signal, Die, Write, Fork, HelperEnds, Elapse, AnyTick, Tick,
      ReadLine, EndOfFile

\* Type correctness of the processes, the monitor and the wrapper.
THEOREM TypeCorrect == Spec => [](TypeOK /\ ChildInv)
<1>1. Init => TypeOK /\ ChildInv
  BY InitType, PostMortemAssumption DEF Init, ChildInv
<1>2. TypeOK /\ ChildInv /\ [Next]_vars => (TypeOK /\ ChildInv)'
  BY NextType, ChildStep
<1>3. QED BY <1>1, <1>2, PTL DEF Spec

----------------------------------------------------------------------------
(* No OOM kill goes unseen                                                 *)

\* A line in the log names its own PID.
LEMMA NamesItself == \A p \in Pids : LineNames(p, p)
  BY PostMortemAssumption DEF LineNames

\* The tick that misses a process finds its OOM line in the lookback.
LEMMA SeenTick ==
  ASSUME TypeOK, ChildInv, SeenInv, NEW journal \in BOOLEAN, Tick(journal)
  PROVE  SeenInv'
<1> USE DEF SeenInv
<1> DEFINE log == IF journal THEN RecentKernelLog ELSE {}
<1>0. fate' = fate /\ klog' = klog /\ tracked' = {p \in Pids : fate[p] = Alive}
  BY DEF Tick
<1>1. LogCurrent'
  BY <1>0 DEF LogCurrent, Alive, Unborn
<1>2. ASSUME NEW p \in Pids
      PROVE  verdict'[p] = IF p \in Exits \cap AiPids
                           THEN ClassifyExit(p, NoStatus, p \in governor_killed_pids, log, <<>>)
                           ELSE verdict[p]
  BY DEF Tick
<1>3. JudgedOnce'
  <2> SUFFICES ASSUME NEW p \in Pids, verdict'[p] # None
               PROVE  Dead(p)' /\ p \notin tracked'
    BY DEF JudgedOnce
  <2>1. Dead(p)
    BY <1>2 DEF JudgedOnce, Exits
  <2>2. QED BY <1>0, <2>1 DEF Dead, Ends, Alive
<1>4. OomSeen'
  <2> SUFFICES ASSUME NEW p \in Pids, fate[p] = "oom", verdict'[p] # None, p \notin blind'
               PROVE  verdict'[p] = OutOfMemory(TRUE, FALSE)
    BY <1>0 DEF OomSeen
  <2>1. CASE p \in Exits \cap AiPids
    <3>1. journal /\ gap <= Lookback /\ p \notin governor_killed_pids
      BY <2>1 DEF Tick
    <3>2. klog[p] # Never /\ klog[p] <= gap
      BY <2>1 DEF LogCurrent, Exits
    <3>3. klog[p] <= Lookback
      BY <3>1, <3>2, PostMortemAssumption DEF TypeOK, Never, Old
    <3>4. p \in log
      BY <3>1, <3>2, <3>3 DEF RecentKernelLog
    <3>5. DmesgKilledPid(log, p)
      BY <3>4, NamesItself DEF DmesgKilledPid
    <3>6. (p \in governor_killed_pids) \in BOOLEAN
      OBVIOUS
    <3>7. QED BY <1>2, <2>1, <3>1, <3>5, <3>6, MonitorVerdict
  <2>2. CASE p \notin Exits \cap AiPids
    <3>1. verdict'[p] = verdict[p] /\ p \notin blind
      BY <1>2, <2>2 DEF Tick
    <3>2. QED BY <3>1 DEF OomSeen
  <2>3. QED BY <2>1, <2>2
<1>5. QED BY <1>1, <1>3, <1>4

\* Between two ticks nothing but the ages moves.
LEMMA SeenStep == ASSUME TypeOK, ChildInv, SeenInv, [Next]_vars PROVE SeenInv'
<1> USE DEF SeenInv
<1>1. CASE AnyTick
  BY <1>1, SeenTick DEF AnyTick
<1>2. CASE ~AnyTick
  <2>0. UNCHANGED <<verdict, tracked, blind>>
    BY <1>2
    DEF Next, Spawn, OomKill, Signal, Die, Write, Fork, HelperEnds, Elapse, Exec, ReadLine,
        EndOfFile, CtrlC, Wait, Finish
  <2>1. \A p \in Pids : Dead(p) => fate'[p] = fate[p]
    BY FateStable
  <2>2. JudgedOnce'
    BY <2>0, <2>1 DEF JudgedOnce, Dead
  <2>3. OomSeen'
    BY <2>0, <2>1 DEF OomSeen, JudgedOnce
  <2>4. LogCurrent'
    <3> SUFFICES ASSUME NEW p \in tracked
                 PROVE  /\ fate'[p] # Unborn
                        /\ fate'[p] = "oom" => klog'[p] # Never /\ klog'[p] <= gap'
      BY <2>0 DEF LogCurrent
    <3>0. p \in Pids
      BY DEF TypeOK
    <3>1. fate'[p] # Unborn
      BY <3>0, FateStable DEF LogCurrent
    <3>2. ASSUME OomKill(p) PROVE klog'[p] # Never /\ klog'[p] <= gap'
      BY <3>0, <3>2, PostMortemAssumption DEF OomKill, TypeOK, Never, Old
    <3>3. ASSUME NEW q \in Pids \ {p}, OomKill(q), fate[p] = "oom"
          PROVE  klog'[p] # Never /\ klog'[p] <= gap'
      BY <3>0, <3>3 DEF OomKill, TypeOK, LogCurrent
    <3>4. ASSUME Elapse, fate[p] = "oom" PROVE klog'[p] # Never /\ klog'[p] <= gap'
      BY <3>0, <3>4, OlderType DEF Elapse, TypeOK, LogCurrent
    <3>5. ASSUME UNCHANGED <<klog, gap>>, fate[p] = "oom"
          PROVE  klog'[p] # Never /\ klog'[p] <= gap'
      BY <3>5 DEF LogCurrent
    <3>6. fate[p] = "oom" => klog'[p] # Never /\ klog'[p] <= gap'
      BY <1>2, <3>2, <3>3, <3>4, <3>5
      DEF Next, Spawn, Signal, Die, Write, Fork, HelperEnds, Exec, ReadLine, EndOfFile,
          CtrlC, Wait, Finish
    <3>7. QED BY <3>0, <3>1, <3>2, <3>6, FateStable
  <2>5. QED BY <2>2, <2>3, <2>4
<1>3. QED BY <1>1, <1>2

\* While ticks are at most Lookback apart and the journal answers, an OOM kill
\* of a workload that the monitor had not signalled is seen as one
\* (read_recent_kernel_log and classify_exit in the exit drain).
THEOREM OomSeenHolds == Spec => []OomSeen
<1>1. Init => SeenInv
  BY DEF Init, SeenInv, JudgedOnce, LogCurrent, OomSeen
<1>2. TypeOK /\ ChildInv /\ SeenInv /\ [Next]_vars => SeenInv'
  BY SeenStep
<1>3. SeenInv => OomSeen
  BY DEF SeenInv
<1>4. QED BY <1>1, <1>2, <1>3, TypeCorrect, PTL DEF Spec

----------------------------------------------------------------------------
(* The wrapper hears all                                                   *)

\* The prefix that is one longer.
LEMMA PrefixNext ==
  ASSUME NEW S, NEW s \in Seq(S), NEW k \in Nat, k < Len(s)
  PROVE  /\ SubSeq(s, 1, k) \in Seq(S)
         /\ SubSeq(s, 1, k + 1) = Append(SubSeq(s, 1, k), s[k + 1])
<1> DEFINE a == SubSeq(s, 1, k + 1)
           t == SubSeq(s, 1, k)
           b == Append(t, s[k + 1])
<1>1. s[k + 1] \in S
  OBVIOUS
<1>2. t \in Seq(S) /\ Len(t) = k /\ \A i \in 1 .. k : t[i] = s[i]
  OBVIOUS
<1>3. a \in Seq(S) /\ Len(a) = k + 1 /\ \A i \in 1 .. k + 1 : a[i] = s[i]
  OBVIOUS
<1> HIDE DEF t, a
<1>4. b \in Seq(S) /\ Len(b) = k + 1 /\ b[k + 1] = s[k + 1] /\ \A i \in 1 .. k : b[i] = t[i]
  BY <1>1, <1>2, AppendProperties, SMT
<1> HIDE DEF b
<1>5. ASSUME NEW i \in 1 .. Len(a) PROVE a[i] = b[i]
  BY <1>2, <1>3, <1>4
<1>6. a = b
  BY <1>3, <1>4, <1>5, SeqEqual
<1>7. QED BY <1>2, <1>6 DEF a, b, t

\* Appending to a sequence keeps its prefixes and its elements.
LEMMA PrefixKept ==
  ASSUME NEW S, NEW s \in Seq(S), NEW x \in S, NEW k \in 0 .. Len(s)
  PROVE  /\ SubSeq(Append(s, x), 1, k) = SubSeq(s, 1, k)
         /\ \A y : y \notin ToSet(Append(s, x)) => y \notin ToSet(s)
<1> DEFINE w == Append(s, x)
           a == SubSeq(w, 1, k)
           b == SubSeq(s, 1, k)
<1>1. w \in Seq(S) /\ Len(w) = Len(s) + 1 /\ \A i \in 1 .. Len(s) : w[i] = s[i]
  BY AppendProperties, SMT
<1> HIDE DEF w
<1>2. a \in Seq(S) /\ Len(a) = k /\ \A i \in 1 .. k : a[i] = w[i]
  BY <1>1
<1>3. b \in Seq(S) /\ Len(b) = k /\ \A i \in 1 .. k : b[i] = s[i]
  OBVIOUS
<1> HIDE DEF a, b
<1>4. ASSUME NEW i \in 1 .. Len(a) PROVE a[i] = b[i]
  BY <1>1, <1>2, <1>3
<1>5. a = b
  BY <1>2, <1>3, <1>4, SeqEqual
<1>6. \A y : y \notin ToSet(w) => y \notin ToSet(s)
  BY <1>1 DEF ToSet
<1>7. QED BY <1>5, <1>6 DEF a, b, w

\* The lines in the pipe are numbered.
LEMMA WrittenBefore ==
  ASSUME NEW s \in Seq(Written), NEW i \in 1 .. Len(s)
  PROVE  s[i].before \in Nat
<1>1. s[i] \in Written
  OBVIOUS
<1>2. QED BY <1>1 DEF Written

\* The pipe and the tail are as they were.
LEMMA PipeKept ==
  ASSUME PipeFaithful, UNCHANGED <<pipe, said, stderr_tail>>,
         pc' \in {"running", "draining", "done"} => pc \in {"running", "draining", "done"},
         ~reading' => ~reading \/ pipe = <<>>
  PROVE  PipeFaithful' /\ Heard' = Heard
<1>1. \A i : Before(i)' = Before(i)
  BY DEF Before
<1>2. \A i : LineFaithful(i) => LineFaithful(i)'
  BY <1>1 DEF LineFaithful
<1>3. Heard' = Heard
  BY <1>1 DEF Heard
<1>4. QED BY <1>2, <1>3 DEF PipeFaithful

\* A line is written: into the pipe, and to what there is to hear.
LEMMA HearWrite ==
  ASSUME TypeOK, HearInv, NEW line \in Lines, Write(line)
  PROVE  HearInv'
<1> USE DEF HearInv
<1>0. line \in LineKinds
  BY PostMortemAssumption
<1> DEFINE new == [line |-> line, before |-> Len(said)]
<1>1. /\ reading /\ pipe' = Append(pipe, new)
      /\ said' = IF line = "empty" THEN said ELSE Append(said, line)
      /\ UNCHANGED <<pc, reading, stderr_tail, record, fate>>
  BY DEF Write
<1>2. pc # "off" /\ pc # "done" /\ record = None
  BY <1>1 DEF WrapperOrder
<1>3. WrapperOrder' /\ RecordHearsAll'
  BY <1>1, <1>2 DEF WrapperOrder, RecordHearsAll
<1>4. ASSUME "garbled" \notin ToSet(said'), pc \in {"running", "draining", "done"}
      PROVE  /\ \A i \in 1 .. Len(pipe') : LineFaithful(i)'
             /\ stderr_tail = LastOf(SubSeq(said', 1, Heard'), StderrTail)
  <2> DEFINE m == Len(pipe)
             n == Len(said)
  <2>1. /\ pipe \in Seq(Written) /\ said \in Seq(LineKinds) /\ m \in Nat /\ n \in Nat
        /\ new \in Written /\ new.line = line /\ new.before = n
    BY <1>0 DEF TypeOK, Written
  <2> HIDE DEF new
  <2>2. /\ Len(pipe') = m + 1 /\ pipe'[m + 1] = new
        /\ \A i \in 1 .. m : pipe'[i] = pipe[i]
    BY <1>1, <2>1, AppendProperties, SMT
  <2>3. /\ said' = said \/ said' = Append(said, line)
        /\ Len(said') = IF line = "empty" THEN n ELSE n + 1
        /\ line # "empty" => said'[n + 1] = line
        /\ \A i \in 1 .. n : said'[i] = said[i]
    BY <1>0, <1>1, <2>1, AppendProperties, SMT
  <2>4. "garbled" \notin ToSet(said)
    <3>1. 0 \in 0 .. n
      BY <2>1
    <3>2. QED BY <1>0, <1>4, <2>1, <2>3, <3>1, PrefixKept
  <2>5. /\ \A i \in 1 .. m : LineFaithful(i)
        /\ stderr_tail = LastOf(SubSeq(said, 1, Heard), StderrTail)
    BY <1>4, <2>4 DEF PipeFaithful
  <2> HIDE DEF m, n
  <2>6. ASSUME NEW i \in 1 .. m + 1 PROVE Before(i)' = Before(i)
    <3>1. CASE i \in 1 .. m
      BY <2>1, <2>2, <3>1 DEF Before, m
    <3>2. CASE i = m + 1
      BY <2>1, <2>2, <3>2 DEF Before, m, n
    <3>3. QED BY <2>1, <3>1, <3>2
  <2>7. Before(m + 1) = n /\ \A i \in Nat : i > m + 1 => Before(i)' = Len(said')
    BY <2>1, <2>2 DEF Before, m, n
  <2>8. Heard' = Heard /\ Heard \in 0 .. n
    <3>1. 1 \in 1 .. m + 1
      BY <2>1
    <3>2. CASE m = 0
      BY <2>1, <2>6, <2>7, <3>1, <3>2 DEF Heard
    <3>3. CASE m # 0
      <4>1. 1 \in 1 .. m
        BY <2>1, <3>3
      <4>2. pipe[1].before \in Nat
        BY <2>1, <4>1, WrittenBefore DEF m
      <4>3. QED BY <2>1, <2>5, <2>6, <3>1, <4>1, <4>2 DEF Heard, Before, LineFaithful, m, n
    <3>4. QED BY <3>2, <3>3
  <2>9. SubSeq(said', 1, Heard') = SubSeq(said, 1, Heard)
    BY <1>0, <2>1, <2>3, <2>8, PrefixKept DEF n
  <2>10. ASSUME NEW i \in 1 .. m + 1 PROVE LineFaithful(i)'
    <3>1. CASE i \in 1 .. m
      <4>1. i + 1 \in 1 .. m + 1 /\ pipe[i].before \in Nat /\ pipe'[i] = pipe[i]
        BY <2>1, <2>2, <3>1, WrittenBefore DEF m
      <4>2. Before(i + 1)' = Before(i + 1)
        BY <2>6, <4>1
      <4>3. LineFaithful(i)
        BY <2>5, <3>1
      <4>4. n <= Len(said') /\ Len(said') \in Nat
        BY <2>1, <2>3
      <4>5. QED BY <2>1, <2>3, <4>1, <4>2, <4>3, <4>4 DEF LineFaithful, n
    <3>2. CASE i = m + 1
      <4>1. pipe'[i] = new /\ Before(i + 1)' = Len(said')
        <5>1. i + 1 \in Nat /\ i + 1 > m + 1
          BY <2>1, <3>2
        <5>2. QED BY <2>2, <2>7, <3>2, <5>1
      <4>2. QED BY <2>1, <2>3, <4>1 DEF LineFaithful
    <3>3. QED BY <2>1, <3>1, <3>2
  <2>11. QED BY <2>2, <2>5, <2>8, <2>9, <2>10
<1>5. PipeFaithful'
  BY <1>1, <1>4 DEF PipeFaithful
<1>6. QED BY <1>3, <1>5

\* The reader takes the next line and, if it has text, keeps the last
\* StderrTail of them.
LEMMA HearRead == ASSUME TypeOK, HearInv, ReadLine PROVE HearInv'
<1> USE DEF HearInv
<1>1. reading /\ pipe # <<>> /\ UNCHANGED <<pc, record, fate, said>>
  BY DEF ReadLine
<1>2. pc # "off" /\ pc # "done" /\ record = None
  BY <1>1 DEF WrapperOrder
<1>3. WrapperOrder' /\ RecordHearsAll'
  BY <1>1, <1>2 DEF WrapperOrder, RecordHearsAll
<1>4. ASSUME "garbled" \notin ToSet(said), pc \in {"running", "draining", "done"}
      PROVE  /\ \A i \in 1 .. Len(pipe') : LineFaithful(i)'
             /\ stderr_tail' = LastOf(SubSeq(said, 1, Heard'), StderrTail)
             /\ reading'
  <2> DEFINE m == Len(pipe)
             n == Len(said)
             line == Head(pipe).line
  <2>1. /\ \A i \in 1 .. m : LineFaithful(i)
        /\ stderr_tail = LastOf(SubSeq(said, 1, Heard), StderrTail)
    BY <1>4 DEF PipeFaithful
  <2>2. pipe \in Seq(Written) /\ said \in Seq(LineKinds) /\ m \in Nat /\ n \in Nat
    BY DEF TypeOK
  <2>3. /\ m > 0 /\ Head(pipe) = pipe[1] /\ Tail(pipe) \in Seq(Written)
        /\ Len(Tail(pipe)) = m - 1
        /\ \A i \in 1 .. m - 1 : Tail(pipe)[i] = pipe[i + 1]
    BY <1>1, <2>2, HeadTailProperties, SMT
  <2>4. Heard = pipe[1].before /\ pipe[1].before \in Nat /\ LineFaithful(1) /\ line = pipe[1].line
    <3>1. 1 \in 1 .. m
      BY <2>2, <2>3
    <3>2. QED BY <2>1, <2>2, <2>3, <3>1, WrittenBefore DEF Heard, Before
  <2> HIDE DEF m, n, line
  <2>5. line = "empty" \/ (Heard + 1 \in 1 .. n /\ line = said[Heard + 1])
    BY <2>4 DEF LineFaithful, n
  <2>6. line # "garbled"
    <3>1. \A k \in 1 .. n : said[k] \in ToSet(said)
      BY <2>2 DEF ToSet, n
    <3>2. QED BY <1>4, <2>5, <3>1
  <2>7. /\ pipe' = Tail(pipe) /\ reading'
        /\ stderr_tail' = RecordStderrLine(stderr_tail, line)
    BY <1>1, <2>6 DEF ReadLine, line
  <2>8. Len(pipe') = m - 1 /\ \A i \in 1 .. m - 1 : pipe'[i] = pipe[i + 1]
    BY <2>3, <2>7
  <2>9. ASSUME NEW i \in 1 .. m PROVE Before(i)' = Before(i + 1)
    <3>1. CASE i \in 1 .. m - 1
      BY <2>2, <2>8, <3>1 DEF Before, m
    <3>2. CASE i = m
      BY <1>1, <2>2, <2>8, <3>2 DEF Before, m
    <3>3. QED BY <2>2, <3>1, <3>2
  <2>10. Heard' = IF line = "empty" THEN Heard ELSE Heard + 1
    <3>1. 1 \in 1 .. m /\ 1 + 1 = 2
      BY <2>2, <2>3
    <3>2. Heard' = Before(2)
      BY <2>9, <3>1 DEF Heard
    <3>3. QED BY <2>4, <3>1, <3>2 DEF LineFaithful
  <2>11. stderr_tail' = LastOf(SubSeq(said, 1, Heard'), StderrTail)
    <3>1. CASE line = "empty"
      BY <2>1, <2>7, <2>10, <3>1 DEF RecordStderrLine
    <3>2. CASE line # "empty"
      <4>1. /\ SubSeq(said, 1, Heard) \in Seq(LineKinds)
            /\ SubSeq(said, 1, Heard + 1) = Append(SubSeq(said, 1, Heard), said[Heard + 1])
        <5>1. Heard \in Nat /\ Heard < n
          BY <2>2, <2>4, <2>5, <3>2
        <5>2. QED BY <2>2, <2>5, <3>2, <5>1, PrefixNext DEF n
      <4>2. said[Heard + 1] \in LineKinds
        BY <2>2, <2>5, <3>2 DEF n
      <4>3. StderrTail \in Nat \ {0}
        BY PostMortemAssumption
      <4>4. LastOf(Append(LastOf(SubSeq(said, 1, Heard), StderrTail), said[Heard + 1]), StderrTail)
              = LastOf(Append(SubSeq(said, 1, Heard), said[Heard + 1]), StderrTail)
        BY <4>1, <4>2, <4>3, LastOfAppend
      <4>5. stderr_tail' = LastOf(Append(stderr_tail, line), StderrTail) /\ line = said[Heard + 1]
        BY <2>5, <2>7, <3>2 DEF RecordStderrLine
      <4>6. Heard' = Heard + 1
        BY <2>10, <3>2
      <4>7. QED BY <2>1, <4>1, <4>4, <4>5, <4>6, Zenon
    <3>3. QED BY <3>1, <3>2
  <2>12. ASSUME NEW i \in 1 .. m - 1 PROVE LineFaithful(i)'
    <3>1. i \in 1 .. m /\ i + 1 \in 1 .. m /\ (i + 1) + 1 = i + 2 /\ pipe'[i] = pipe[i + 1]
      BY <2>2, <2>8
    <3>2. Before(i + 1)' = Before(i + 2) /\ LineFaithful(i + 1)
      BY <2>1, <2>9, <3>1 DEF m
    <3>3. QED BY <1>1, <3>1, <3>2 DEF LineFaithful
  <2>13. QED BY <2>7, <2>8, <2>11, <2>12
<1>5. PipeFaithful'
  BY <1>1, <1>4 DEF PipeFaithful
<1>6. QED BY <1>3, <1>5

\* The steps of the wrapper that neither write nor read a line.
LEMMA HearWrapper ==
  ASSUME TypeOK, ChildInv, HearInv, Exec \/ EndOfFile \/ CtrlC \/ Wait \/ Finish
  PROVE  HearInv'
<1> USE DEF HearInv
<1>1. CASE Exec
  <2>1. /\ pc = "off" /\ pc' = "running" /\ said' = <<>> /\ pipe' = <<>> /\ stderr_tail' = <<>>
        /\ record = None /\ record' = None /\ reading'
    BY <1>1 DEF Exec, WrapperOrder
  <2>2. WrapperOrder' /\ RecordHearsAll'
    BY <2>1 DEF WrapperOrder, RecordHearsAll
  <2>3. Heard' = 0
    BY <2>1 DEF Heard, Before
  <2>4. SubSeq(<<>>, 1, 0) = <<>> /\ LastOf(<<>>, StderrTail) = <<>>
    BY PostMortemAssumption DEF LastOf
  <2>5. PipeFaithful'
    <3>1. Len(pipe') = 0 /\ Len(said') = 0
      BY <2>1
    <3>2. stderr_tail' = LastOf(SubSeq(said', 1, Heard'), StderrTail)
      BY <2>1, <2>3, <2>4, Zenon
    <3>3. QED BY <2>1, <3>1, <3>2 DEF PipeFaithful
  <2>6. QED BY <2>2, <2>5
<1>2. CASE EndOfFile
  <2>1. /\ reading /\ pipe = <<>> /\ ~reading'
        /\ UNCHANGED <<pc, pipe, said, stderr_tail, record, fate>>
    BY <1>2 DEF EndOfFile
  <2>2. WrapperOrder' /\ RecordHearsAll'
    BY <2>1 DEF WrapperOrder, RecordHearsAll
  <2>3. PipeFaithful'
    BY <2>1, PipeKept
  <2>4. QED BY <2>2, <2>3
<1>3. CASE CtrlC
  <2>1. pc \in {"running", "draining"} /\ record = None /\ record' = None
    BY <1>3 DEF CtrlC, WrapperOrder
  <2>2. CASE pc' = "aborted"
    BY <2>1, <2>2 DEF WrapperOrder, PipeFaithful, RecordHearsAll
  <2>3. CASE UNCHANGED <<pc, pipe, reading>>
    <3>1. UNCHANGED <<said, stderr_tail, fate>>
      BY <1>3 DEF CtrlC
    <3>2. PipeFaithful'
      BY <2>3, <3>1, PipeKept
    <3>3. QED BY <2>1, <2>3, <3>1, <3>2 DEF WrapperOrder, RecordHearsAll
  <2>4. QED BY <1>3, <2>2, <2>3 DEF CtrlC
<1>4. CASE Wait
  <2>1. /\ pc = "running" /\ pc' = "draining"
        /\ UNCHANGED <<pipe, reading, said, stderr_tail, record, fate>>
    BY <1>4 DEF Wait
  <2>2. PipeFaithful'
    BY <2>1, PipeKept
  <2>3. QED BY <2>1, <2>2 DEF WrapperOrder, RecordHearsAll
<1>5. CASE Finish
  <2>1. /\ pc = "draining" /\ pc' = "done" /\ ~reading
        /\ record' = ClassifyExit(Child, Status(fate[Child]), FALSE, {}, stderr_tail)
        /\ UNCHANGED <<pipe, reading, said, stderr_tail, fate>>
    BY <1>5 DEF Finish
  <2>2. WrapperOrder' /\ PipeFaithful'
    BY <2>1, PipeKept DEF WrapperOrder
  <2>3. ASSUME "garbled" \notin ToSet(said) PROVE stderr_tail = LastOf(said, StderrTail)
    <3>1. pipe = <<>> /\ stderr_tail = LastOf(SubSeq(said, 1, Heard), StderrTail)
      BY <2>1, <2>3 DEF PipeFaithful
    <3>2. said \in Seq(LineKinds) /\ Heard = Len(said)
      BY <3>1 DEF TypeOK, Heard, Before
    <3>3. SubSeq(said, 1, Len(said)) = said
      BY <3>2, SubSeqFull
    <3>4. QED BY <3>1, <3>2, <3>3
  <2>4. RecordHearsAll'
    BY <2>1, <2>3 DEF RecordHearsAll
  <2>5. QED BY <2>2, <2>4
<1>6. QED BY <1>1, <1>2, <1>3, <1>4, <1>5

\* The processes and the monitor leave the pipe and the wrapper alone, and a
\* dead child stays as it died.
LEMMA HearStep == ASSUME TypeOK, ChildInv, HearInv, [Next]_vars PROVE HearInv'
<1>1. ASSUME UNCHANGED <<pc, pipe, reading, stderr_tail, record, said>> PROVE HearInv'
  <2>1. Child \in Pids
    BY PostMortemAssumption
  <2>2. record # None => fate'[Child] = fate[Child]
    BY <2>1, FateStable DEF HearInv, WrapperOrder, ChildInv
  <2>3. RecordHearsAll'
    BY <1>1, <2>2 DEF HearInv, RecordHearsAll
  <2>4. WrapperOrder' /\ PipeFaithful'
    BY <1>1, PipeKept DEF HearInv, WrapperOrder
  <2>5. QED BY <2>3, <2>4 DEF HearInv
<1>2. ASSUME NEW line \in Lines, Write(line) PROVE HearInv'
  BY <1>2, HearWrite
<1>3. CASE ReadLine
  BY <1>3, HearRead
<1>4. CASE Exec \/ EndOfFile \/ CtrlC \/ Wait \/ Finish
  BY <1>4, HearWrapper
<1>5. QED
  BY <1>1, <1>2, <1>3, <1>4
  DEF Next, vars, wrapper, Spawn, OomKill, Signal, Die, Fork, HelperEnds, Elapse, AnyTick, Tick

\* The wrapper's record is the verdict on the last StderrTail lines ever
\* written, those in the pipe when the child died included (run_exec).
THEOREM RecordHearsAllHolds == Spec => []RecordHearsAll
<1>1. Init => HearInv
  BY DEF Init, HearInv, WrapperOrder, PipeFaithful, RecordHearsAll
<1>2. TypeOK /\ ChildInv /\ HearInv /\ [Next]_vars => HearInv'
  BY HearStep
<1>3. HearInv => RecordHearsAll
  BY DEF HearInv
<1>4. QED BY <1>1, <1>2, <1>3, TypeCorrect, PTL DEF Spec

=============================================================================
