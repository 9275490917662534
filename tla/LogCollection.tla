--------------------------- MODULE LogCollection ---------------------------
(***************************************************************************)
(* The lines containers write, and how they get into table                 *)
(* docker_log_lines (internal/telemetry/docker_mon.go), on top of module   *)
(* Scheduler: a log loop per process fetches what running containers have  *)
(* written since its last look, and whoever stops a container or writes    *)
(* the end of its task fetches the last lines once more.                   *)
(*                                                                         *)
(* The lines of a task are numbered.  Times appear as the number of lines  *)
(* written by then.  Losses says what may fail on the way.  A line that a  *)
(* broken answer ends in is not read.  The statistics loop, which has no   *)
(* memory, is left out; processes live.                                    *)
(***************************************************************************)
EXTENDS Scheduler

CONSTANTS
  TailLines,      \* telemetry.docker_log_tail_lines: 0 is the default
  FlushLines,     \* telemetry.docker_log_terminal_flush_lines: 0 is the default
  Losses,         \* what may fail: "insert" and "read", an insert and a read of the
                  \* log loop; "flush", either of them in FinalFlushDockerLogs
  LongLines,      \* the lines <<task, number>> longer than the scanner takes, 1 MiB
  StderrLines,    \* the lines written to stderr; the others are written to stdout
  MaxLines        \* bound: lines the containers write

ASSUME LogAssumption ==
  /\ TailLines \in Int /\ FlushLines \in Int /\ MaxLines \in Nat
  /\ Losses \subseteq {"insert", "read", "flush"}
  /\ LongLines \subseteq TaskIds \X Nat /\ StderrLines \subseteq TaskIds \X Nat
  /\ Faults = {}

VARIABLES
  written,    \* written[t]: how many lines the container of t has written
  stored,     \* stored[t]: the lines of t in docker_log_lines
  lost,       \* lost[t]: the lines of t that were asked for and did not arrive
  since,      \* since[w][t]: sinceByID, -1 if the container has no entry
  look,       \* look[w]: the round of the log loop of w
  owed        \* owed[s]: the row whose last lines s collects next

logVars == <<written, stored, lost, since, look, owed>>

\* What a round of the log loop knows: the time it began, the rows it has still to
\* ask about, and the lines it has gathered.
NoLook == [now |-> <<>>, todo |-> {}, batch |-> {}]

\* Who collects last lines: claim loops, reconcilers, runtime sweepers, reapers.
Flushers ==
  (Workers \X {"claim"}) \cup (Processes \X {"tick", "sweep"})
    \cup (Processes \X TaskIds \X {"reap"})

LogInit ==
  /\ Init
  /\ written = [t \in TaskIds |-> 0]
  /\ stored = [t \in TaskIds |-> {}] /\ lost = [t \in TaskIds |-> {}]
  /\ since = [w \in Processes |-> [t \in TaskIds |-> -1]]
  /\ look = [w \in Processes |-> NoLook]
  /\ owed = [s \in Flushers |-> NoTask]

----------------------------------------------------------------------------
FirstTail == IF TailLines <= 0 THEN 500 ELSE TailLines

\* effectiveTerminalFlushTail.
DefaultFlushLines == 20000
MaxFlushLines == 1000000
FlushTail ==
  IF FlushLines < 0 THEN 0
  ELSE IF FlushLines = 0 THEN DefaultFlushLines
  ELSE IF FlushLines > MaxFlushLines THEN MaxFlushLines ELSE FlushLines

\* The engine's answer to Tail and to Since, while it has the container.
Readable(t) == container[t] \notin {"none", "removed"}
LastLines(t, n) == {i \in 1 .. written[t] : i > written[t] - n}
LinesSince(t, n) == {i \in 1 .. written[t] : i > n}

\* What StdCopy gets of the lines asked for: all of them or, where an answer may break
\* off (its error is dropped), those before some line.
Reads(asked, loss) ==
  {asked} \cup {{i \in asked : i < cut} : cut \in {n \in asked : loss \in Losses}}

\* appendDockerLogStreamLines, for both streams: from a line on that is too long, the
\* scanner gives nothing more of the stream, and nobody looks at its Err.
Scan(t, read) ==
  {i \in read : \A j \in read : <<t, j>> \in LongLines /\ j <= i =>
                   (<<t, i>> \in StderrLines <=> <<t, j>> \notin StderrLines)}

Written == {line \in TaskIds \X (1 .. MaxLines) : line[2] <= written[line[1]]}

WriteLine(t) ==
  /\ container[t] = "running" /\ Cardinality(Written) < MaxLines
  /\ written' = [written EXCEPT ![t] = @ + 1]
  /\ UNCHANGED <<vars, stored, lost, since, look, owed>>

----------------------------------------------------------------------------
(* runLogLoop *)

ListDockerRunning ==
  {t \in RunningRowsWithRef : req[t].provider = "docker"}

LookBegin(w) ==
  /\ look[w] = NoLook /\ ListDockerRunning # {}
  /\ look' = [look EXCEPT ![w] = [now |-> written, todo |-> ListDockerRunning, batch |-> {}]]
  /\ UNCHANGED <<vars, written, stored, lost, since, owed>>

\* What the loop asks for: what came since its last look or, without an entry in
\* sinceByID, the last lines.
Asked(w, t) ==
  IF since[w][t] >= 0 THEN LinesSince(t, since[w][t]) ELSE LastLines(t, FirstTail)

\* Mutant: the time is that of the fetch's end, some lines later.
LookFetchLate(w) ==
  /\ \E t \in look[w].todo :
       /\ look' = [look EXCEPT ![w].todo = @ \ {t},
                               ![w].batch = @ \cup ({t} \X Scan(t, Asked(w, t)))]
       /\ lost' = [lost EXCEPT ![t] = @ \cup (Asked(w, t) \ Scan(t, Asked(w, t)))]
       /\ \E later \in {0, 1} :
            /\ later = 1 => container[t] = "running" /\ Cardinality(Written) < MaxLines
            /\ written' = [written EXCEPT ![t] = @ + later]
       /\ since' = [since EXCEPT ![w][t] = written'[t]]
  /\ UNCHANGED <<vars, stored, owed>>

\* The entry moves on to the time the round began, whatever was read of the answer.
LookFetch(w) ==
  /\ \E t \in look[w].todo :
       \/ \E read \in Reads(Asked(w, t), "read") :
            /\ Readable(t)
            /\ look' = [look EXCEPT ![w].todo = @ \ {t},
                                    ![w].batch = @ \cup ({t} \X Scan(t, read))]
            /\ lost' = [lost EXCEPT ![t] = @ \cup (Asked(w, t) \ Scan(t, read))]
            /\ since' = [since EXCEPT ![w][t] = look[w].now[t]]
       \/ /\ ~Readable(t) \/ "read" \in Losses
          /\ look' = [look EXCEPT ![w].todo = @ \ {t}]
          /\ UNCHANGED <<lost, since>>
  /\ UNCHANGED <<vars, written, stored, owed>>

\* Nobody goes back to a batch that could not be inserted: since has moved on.
LookInsert(w) ==
  /\ look[w] # NoLook /\ look[w].todo = {}
  /\ LET added(old) ==
           [t \in TaskIds |-> old[t] \cup {n \in 1 .. MaxLines : <<t, n>> \in look[w].batch}]
     IN  \/ stored' = added(stored) /\ UNCHANGED lost
         \/ "insert" \in Losses /\ lost' = added(lost) /\ UNCHANGED stored
  /\ look' = [look EXCEPT ![w] = NoLook]
  /\ UNCHANGED <<vars, written, since, owed>>

LogLoop(w) == LookBegin(w) \/ LookFetch(w) \/ LookInsert(w)

----------------------------------------------------------------------------
(* The last lines.  FinalFlushDockerLogs works on the copy of the row the  *)
(* caller has, and does nothing if that has no runtime_ref.                *)

\* Flusher s takes its next step, after which it owes the last lines of row t.
Owes(s, t) ==
  /\ owed[s] = NoTask
  /\ owed' = [owed EXCEPT ![s] = t]
  /\ UNCHANGED <<written, stored, lost, since, look>>

WorkAndLog(w) ==
  /\ Work(w)
  /\ Owes(<<w, "claim">>, IF pc[w] = "stop" /\ pc'[w] = "mark" /\ seenRef[w]
                          THEN Target(w) ELSE NoTask)

SweepAndLog(w) ==
  /\ Sweep(w)
  /\ Owes(<<w, "sweep">>, IF sweepPc[w] = "stop" THEN sweepItem'[w] ELSE NoTask)

\* Mutant: the last lines are collected after the status is written.
ReconcileFlushLate(w) ==
  /\ Reconcile(w)
  /\ Owes(<<w, "tick">>, verdict[w].task)

ReconcileAndLog(w) ==
  /\ Reconcile(w)
  /\ Owes(<<w, "tick">>, IF verdict[w] = NoVerdict THEN verdict'[w].task ELSE NoTask)

ReapAndLog(w, t) ==
  /\ ReapOrphan(w, t)
  /\ Owes(<<w, t, "reap">>, IF reap[w][t] = "stop" /\ runtimeRef[t] THEN t ELSE NoTask)

\* FinalFlushDockerLogs tries its best: what fails on the way, it leaves.
FinalFlush(s) ==
  /\ owed[s] # NoTask
  /\ \E t \in TaskIds :
       /\ t = owed[s]
       /\ IF Readable(t) /\ req[t].provider = "docker"
          THEN \E read \in Reads(LastLines(t, FlushTail), "flush") :
                 /\ stored' = [stored EXCEPT ![t] = @ \cup Scan(t, read)]
                 /\ lost' = [lost EXCEPT ![t] = @ \cup (LastLines(t, FlushTail) \ Scan(t, read))]
          ELSE UNCHANGED <<stored, lost>>
  /\ owed' = [owed EXCEPT ![s] = NoTask]
  /\ UNCHANGED <<vars, written, since, look>>

----------------------------------------------------------------------------
LogNext ==
  \/ (Control \/ SweepAdmitted \/ \E t \in TaskIds : Exit(t)) /\ UNCHANGED logVars
  \/ \E w \in Workers : WorkAndLog(w)
  \/ \E w \in Processes :
       \/ ReconcileAndLog(w) \/ SweepAndLog(w) \/ LogLoop(w)
       \/ \E t \in TaskIds : ReapAndLog(w, t)
  \/ \E t \in TaskIds : WriteLine(t)
  \/ \E s \in Flushers : FinalFlush(s)

LogSpec == LogInit /\ [][LogNext]_<<vars, logVars>>

----------------------------------------------------------------------------
\* The end of a log is not missed: when the row says succeeded and the container is
\* still there, its last lines are in the table (Tick collects them after the
\* container has ended and before it writes the status), as far as the scanner gets in
\* them and no last fetch fails.
EndOfLogKept ==
  \A t \in TaskIds :
    status[t] = "succeeded" /\ Readable(t) =>
      Scan(t, LastLines(t, FlushTail)) \subseteq stored[t]

\* With one process, the log loop skips nothing by what it asks for: behind a line that
\* was asked for, all are, up to the time its next round asks from, for that is the
\* time the last round began.  So a line in between that is missing was on its way and
\* got lost: in an answer that broke off, behind a line that is too long, or with a
\* failed insert.  Nobody asks for it again.
NothingSkipped ==
  \A w \in Processes, t \in TaskIds :
    LET asked == stored[t] \cup lost[t] \cup {n \in 1 .. MaxLines : <<t, n>> \in look[w].batch}
    IN  \A m \in asked : m + 1 .. since[w][t] \subseteq asked
=============================================================================
