----------------------------- MODULE PostMortem -----------------------------
(***************************************************************************)
(* Why did this die?  A process ends and two observers pass judgement,     *)
(* each from its own evidence: the monitor, which sees a PID missing from  *)
(* a snapshot and consults the kernel log of the last seconds, and the     *)
(* exec wrapper, which has the exit status and the stderr of its child.    *)
(*                                                                         *)
(* A process stands for its PID, which is not reused.  Of a line of text   *)
(* only what the classifier looks for matters.  What else the monitor does *)
(* with an exit is in Telemetry and Alerts, the store both observers write *)
(* to in RunStore.                                                         *)
(***************************************************************************)
EXTENDS Integers, Sequences, SequencesExt

CONSTANTS
  Pids,            \* positive numbers, as the kernel prints them
  AiPids,          \* those the classifier takes for AI workloads
  Child,           \* the one `exec` starts
  Lines,           \* bound: the kinds of stderr lines the child writes
  Lookback,        \* the seconds of kernel log a tick reads
  StderrTail,      \* STDERR_TAIL
  MaxLines         \* bound: lines in the pipe at a time, and lines with text in all

LineKinds == {"cuda_oom", "cuda_error", "plain", "empty", "garbled"}  \* garbled: not UTF-8

ASSUME PostMortemAssumption ==
  /\ Pids \subseteq Nat \ {0} /\ AiPids \subseteq Pids /\ Child \in Pids
  /\ Lines \subseteq LineKinds
  /\ Lookback \in Nat /\ StderrTail \in Nat \ {0} /\ MaxLines \in Nat

VARIABLES
  fate,            \* per process: Unborn, Alive, or how it ended
  klog,            \* age of the kernel's "Killed process" line for each PID
  tracked,         \* LifecycleTracker.previous, the running ones
  governor_killed_pids,
  verdict,         \* the monitor's ExitReason of each AI process that ended
  gap,             \* time since the last tick
  blind,           \* history: exits judged too late, without the kernel log, or
                   \* after a signal of this monitor
  pc,              \* the wrapper: "off", "running", "draining", "done", "aborted"
  pipe,            \* the child's stderr pipe: lines, each with the length of said
                   \* when it was written (history)
  reading,         \* the reader task still holds the other end of it
  stderr_tail,     \* ExecStats.stderr_tail
  helper,          \* a process the child started has inherited the pipe
  interrupts,      \* interrupt_count
  record,          \* the exit_reason of the wrapper's RunRecord
  said             \* history: the lines with text that went into the pipe

monitor == <<tracked, governor_killed_pids, verdict, blind>>
wrapper == <<pc, pipe, reading, stderr_tail, interrupts, record>>
vars == <<fate, klog, gap, monitor, wrapper, helper, said>>

Unborn == "unborn"
Alive  == "alive"
Ends   == {"exit0", "exit1", "segv", "sigkill", "sigint", "sigpipe", "oom"}
Dead(p) == fate[p] \in Ends
Never  == -1
Old    == Lookback + 1

None   == [kind |-> "None", ram |-> FALSE, vram |-> FALSE]
Reason(k) == [None EXCEPT !.kind = k]
OutOfMemory(ram, vram) == [kind |-> "OutOfMemory", ram |-> ram, vram |-> vram]

----------------------------------------------------------------------------
(* exit_classify: the evidence is the exit status, the kernel log as the   *)
(* set of PIDs its OOM lines name, and the stderr lines.                   *)

NoStatus == [signal |-> 0, code |-> Never]

\* What wait(2) reports.
Status(end) ==
  CASE end = "exit0"   -> [signal |-> 0,  code |-> 0]
    [] end = "exit1"   -> [signal |-> 0,  code |-> 1]
    [] end = "segv"    -> [signal |-> 11, code |-> Never]
    [] end = "sigint"  -> [signal |-> 2,  code |-> Never]
    [] end = "sigpipe" -> [signal |-> 13, code |-> Never]
    [] end \in {"sigkill", "oom"} -> [signal |-> 9, code |-> Never]

\* line.contains("process <pid>"): the digits of named start with
\* those of pid (a PID has at most seven).
LineNames(named, pid) == \E k \in 0 .. 6 : named \div 10^k = pid

DmesgKilledPid(log, pid) == \E named \in log : LineNames(named, pid)

CudaOom(lines)   == "cuda_oom" \in ToSet(lines)
CudaError(lines) == "cuda_error" \in ToSet(lines)

\* ExitReason::from_summary
FromSummary(status) ==
  CASE status.signal = 11 -> Reason("Segfault")
    [] status.signal \notin {0, 11} -> Reason("UserSignal")
    [] status.signal = 0 /\ status.code = 0 -> Reason("CleanExit")
    [] status.signal = 0 /\ status.code > 0 -> Reason("Crash")
    [] status = NoStatus -> Reason("Unknown")

ClassifyExit(pid, status, governor, log, lines) ==
  LET kernel_oom == status.signal \in {0, 9} /\ DmesgKilledPid(log, pid)
      cuda_oom   == CudaOom(lines)
  IN  IF governor THEN Reason("GovernorKill")
      ELSE IF status.signal = 11 THEN Reason("Segfault")
      ELSE IF kernel_oom \/ cuda_oom THEN OutOfMemory(kernel_oom, cuda_oom)
      ELSE IF CudaError(lines) THEN Reason("CudaError")
      ELSE FromSummary(status)

----------------------------------------------------------------------------
(* The kernel and the processes                                            *)

Spawn(p) ==
  /\ fate[p] = Unborn /\ p # Child
  /\ fate' = [fate EXCEPT ![p] = Alive]
  /\ UNCHANGED <<klog, gap, monitor, wrapper, helper, said>>

\* The status of a process that is not the child is nobody's to see.
MayEnd(p, end) ==
  \/ end = "exit0"
  \/ p = Child /\ end \in {"exit1", "segv", "sigkill"}
  \/ p = Child /\ end = "sigint" /\ interrupts > 0
  \/ p = Child /\ end = "sigpipe" /\ ~reading

Die(p, end) ==
  /\ fate[p] = Alive /\ MayEnd(p, end)
  /\ fate' = [fate EXCEPT ![p] = end]
  /\ UNCHANGED <<klog, gap, monitor, wrapper, helper, said>>

\* "Out of memory: Killed process ..."
OomKill(p) ==
  /\ fate[p] = Alive
  /\ fate' = [fate EXCEPT ![p] = "oom"]
  /\ klog' = [klog EXCEPT ![p] = 0]
  /\ UNCHANGED <<gap, monitor, wrapper, helper, said>>

Older(age) == IF age \in {Never, Old} THEN age ELSE age + 1

Elapse ==
  /\ gap' = Older(gap)
  /\ klog' = [p \in Pids |-> Older(klog[p])]
  /\ UNCHANGED <<fate, monitor, wrapper, helper, said>>

\* The child, or a helper of its own, writes a line to stderr.
Write(line) ==
  /\ fate[Child] = Alive \/ helper
  /\ reading /\ Len(said) < MaxLines /\ Len(pipe) < MaxLines
  /\ pipe' = Append(pipe, [line |-> line, before |-> Len(said)])
  /\ said' = IF line = "empty" THEN said ELSE Append(said, line)
  /\ UNCHANGED <<fate, klog, gap, monitor, pc, reading, stderr_tail, interrupts, record, helper>>

Fork ==
  /\ fate[Child] = Alive /\ ~helper
  /\ helper' = TRUE
  /\ UNCHANGED <<fate, klog, gap, monitor, wrapper, said>>

HelperEnds ==
  /\ helper
  /\ helper' = FALSE
  /\ UNCHANGED <<fate, klog, gap, monitor, wrapper, said>>

----------------------------------------------------------------------------
(* The monitor                                                             *)

\* A signal of the governor or of the operator that kill(2) took, which it
\* also does for a process that has died since the last tick.
Signal(p) ==
  /\ p \in tracked
  /\ governor_killed_pids' = governor_killed_pids \cup {p}
  /\ UNCHANGED <<fate, klog, gap, tracked, verdict, blind, wrapper, helper, said>>

\* Mutant: the lookback does not reach to the previous tick.
RecentKernelLogShort == {p \in Pids : klog[p] # Never /\ klog[p] < Lookback}

\* read_recent_kernel_log
RecentKernelLog == {p \in Pids : klog[p] # Never /\ klog[p] <= Lookback}

Exits == {p \in tracked : Dead(p)}

\* One tick: the snapshot, the tracker's exits, and a verdict on each exit of
\* an AI workload.  journal: journalctl works.
Tick(journal) ==
  LET log    == IF journal THEN RecentKernelLog ELSE {}
      judged == Exits \cap AiPids
  IN
  /\ tracked' = {p \in Pids : fate[p] = Alive}
  /\ verdict' = [p \in Pids |->
       IF p \in judged
       THEN ClassifyExit(p, NoStatus, p \in governor_killed_pids, log, <<>>)
       ELSE verdict[p]]
  /\ governor_killed_pids' = governor_killed_pids \ judged
  /\ blind' = blind \cup (IF journal /\ gap <= Lookback
                          THEN Exits \cap governor_killed_pids ELSE Exits)
  /\ gap' = 0
  /\ UNCHANGED <<fate, klog, wrapper, helper, said>>

----------------------------------------------------------------------------
(* The exec wrapper                                                        *)

\* run_exec spawns the child and the reader task.
Exec ==
  /\ pc = "off"
  /\ pc' = "running"
  /\ fate' = [fate EXCEPT ![Child] = Alive]
  /\ reading' = TRUE
  /\ UNCHANGED <<klog, gap, monitor, pipe, stderr_tail, interrupts, record, helper, said>>

LastOf(lines, n) == SubSeq(lines, 1 + (IF Len(lines) > n THEN Len(lines) - n ELSE 0), Len(lines))

\* record_stderr_line, which skips a line without text
RecordStderrLine(tail, line) ==
  IF line = "empty" THEN tail ELSE LastOf(Append(tail, line), StderrTail)

\* One turn of the reader task; a line it cannot decode ends it, and its end
\* of the pipe is dropped.
ReadLine ==
  /\ reading /\ pipe # <<>>
  /\ IF Head(pipe).line = "garbled"
     THEN /\ reading' = FALSE
          /\ pipe' = <<>>
          /\ UNCHANGED stderr_tail
     ELSE /\ pipe' = Tail(pipe)
          /\ stderr_tail' = RecordStderrLine(stderr_tail, Head(pipe).line)
          /\ UNCHANGED reading
  /\ UNCHANGED <<fate, klog, gap, monitor, pc, interrupts, record, helper, said>>

\* Mutant: the end of the file is not noticed.
EndOfFileMissed == FALSE /\ UNCHANGED vars

\* The pipe is empty and nobody holds its other end.
EndOfFile ==
  /\ reading /\ pipe = <<>> /\ ~helper /\ fate[Child] # Alive
  /\ reading' = FALSE
  /\ UNCHANGED <<fate, klog, gap, monitor, pc, pipe, stderr_tail, interrupts, record, helper, said>>

\* Ctrl-C: forwarded to the child the first time, the end of the wrapper the
\* second.
CtrlC ==
  /\ pc \in {"running", "draining"}
  /\ interrupts' = interrupts + 1
  /\ IF interrupts = 0
     THEN UNCHANGED <<pc, pipe, reading>>
     ELSE pc' = "aborted" /\ reading' = FALSE /\ pipe' = <<>>
  /\ UNCHANGED <<fate, klog, gap, monitor, stderr_tail, record, helper, said>>

\* child.wait()
Wait ==
  /\ pc = "running" /\ Dead(Child)
  /\ pc' = "draining"
  /\ UNCHANGED <<fate, klog, gap, monitor, pipe, reading, stderr_tail, interrupts, record, helper, said>>

\* Mutant: the verdict does not wait for the reader.
FinishEarly ==
  /\ pc = "draining"
  /\ pc' = "done"
  /\ record' = ClassifyExit(Child, Status(fate[Child]), FALSE, {}, stderr_tail)
  /\ UNCHANGED <<fate, klog, gap, monitor, pipe, reading, stderr_tail, interrupts, helper, said>>

\* The reader has been awaited: classify, append to the store, return.
Finish ==
  /\ pc = "draining" /\ ~reading
  /\ pc' = "done"
  /\ record' = ClassifyExit(Child, Status(fate[Child]), FALSE, {}, stderr_tail)
  /\ UNCHANGED <<fate, klog, gap, monitor, pipe, reading, stderr_tail, interrupts, helper, said>>

----------------------------------------------------------------------------
Init ==
  /\ fate = [p \in Pids |-> Unborn]
  /\ klog = [p \in Pids |-> Never]
  /\ tracked = {} /\ governor_killed_pids = {}
  /\ verdict = [p \in Pids |-> None]
  /\ gap = 0 /\ blind = {}
  /\ pc = "off" /\ pipe = <<>> /\ reading = FALSE /\ stderr_tail = <<>>
  /\ interrupts = 0 /\ record = None
  /\ helper = FALSE /\ said = <<>>

AnyTick == \E journal \in BOOLEAN : Tick(journal)

Next ==
  \/ \E p \in Pids : Spawn(p) \/ OomKill(p) \/ Signal(p)
  \/ \E p \in Pids, end \in Ends \ {"oom"} : Die(p, end)
  \/ \E line \in Lines : Write(line)
  \/ Fork \/ HelperEnds
  \/ Elapse
  \/ AnyTick
  \/ Exec \/ ReadLine \/ EndOfFile \/ CtrlC \/ Wait \/ Finish

Spec == Init /\ [][Next]_vars

\* The wrapper's runtime polls its tasks.
Fairness == WF_vars(ReadLine) /\ WF_vars(EndOfFile) /\ WF_vars(Wait) /\ WF_vars(Finish)

FairSpec == Spec /\ Fairness

----------------------------------------------------------------------------
(* Properties                                                              *)

\* The monitor says "out of memory" of a process only when the kernel's OOM
\* killer took that very process (classify_exit with dmesg_killed_pid; the log
\* is shared by all processes). The code breaks it (README.md, Observations).
OomTruthful == \A p \in Pids : verdict[p].kind = "OutOfMemory" => fate[p] = "oom"

\* Conversely no OOM kill goes unseen: as long as ticks are at most Lookback
\* apart and the journal answers, the verdict on an AI workload that the
\* kernel took, and that no signal of this monitor had reached, says so.
OomSeen ==
  \A p \in Pids :
    fate[p] = "oom" /\ verdict[p] # None /\ p \notin blind =>
      verdict[p] = OutOfMemory(TRUE, FALSE)

\* The wrapper's record is the verdict on the last StderrTail lines with text
\* that the child and its helpers ever wrote, those still in the pipe when the
\* child died included (wait, then both readers, then classify_exit).
RecordHearsAll ==
  record # None /\ "garbled" \notin ToSet(said) =>
    record = ClassifyExit(Child, Status(fate[Child]), FALSE, {}, LastOf(said, StderrTail))

\* Once the child is dead and no helper holds its pipe, the wrapper gets to
\* its record, or the operator interrupts it twice.
WrapperEnds ==
  (Dead(Child) /\ ~helper /\ pc # "off") ~> pc \in {"done", "aborted"}
=============================================================================
