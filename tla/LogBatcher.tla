----------------------------- MODULE LogBatcher ----------------------------
(***************************************************************************)
(* The log batcher of a process (internal/telemetry/logger.go): slog rows  *)
(* are gathered in a buffer and inserted into ClickHouse by whoever fills  *)
(* the buffer, by the flusher goroutine at each tick, and by drain, which  *)
(* main defers.  All of them hold the mutex while the insert is under way. *)
(* A row that comes after drain is dropped, which is no step here.         *)
(***************************************************************************)
EXTENDS Integers, Sequences

CONSTANTS
  Rows,         \* the rows there are to log
  BatchSize,    \* telemetry.log_batch_size
  Unsure,       \* may an insert that reports an error have been done?
  MaxRows,      \* bound: rows logged
  MaxTable      \* bound: the table's length up to which such an insert is done

ASSUME BatcherAssumption ==
  BatchSize \in Nat \ {0} /\ MaxRows \in Nat /\ MaxTable \in Nat /\ Unsure \in BOOLEAN

VARIABLES
  buf,        \* logBatcher.buf
  closed,     \* logBatcher.closed
  mu,         \* who holds logBatcher.mu to insert batch: "none", "logger", ...
  batch,      \* the rows flushUnlocked has taken out of buf
  flusher,    \* does runFlusher still run?
  main,       \* main: "running", "cancelled", "draining", "drained", "closed"
  up,         \* does the process live?
  accepted,   \* the rows addRow has taken, in order
  table       \* scheduler_logs, in the order of insertion

memory == <<buf, closed, mu, batch, flusher, main, up>>
vars == <<memory, accepted, table>>

Init ==
  /\ buf = <<>> /\ batch = <<>> /\ accepted = <<>> /\ table = <<>>
  /\ mu = "none"
  /\ main = "running"
  /\ closed = FALSE /\ flusher = TRUE /\ up = TRUE

----------------------------------------------------------------------------
\* Mutant: the rows taken out stay in the buffer.
FlushCopy(who, rows) == mu' = who /\ batch' = rows /\ buf' = rows

\* flushUnlocked, up to the insert.
Flush(who, rows) == mu' = who /\ batch' = rows /\ buf' = <<>>

AddRow(r) ==
  /\ up /\ mu = "none" /\ ~closed
  /\ Len(accepted) < MaxRows
  /\ accepted' = Append(accepted, r)
  /\ IF Len(buf) + 1 >= BatchSize
     THEN Flush("logger", Append(buf, r))
     ELSE buf' = Append(buf, r) /\ UNCHANGED <<mu, batch>>
  /\ UNCHANGED <<closed, flusher, main, up, table>>

\* Mutant: a tick flushes full buffers only.
TickWhenFull ==
  /\ up /\ flusher /\ mu = "none" /\ Len(buf) >= BatchSize
  /\ Flush("flusher", buf)
  /\ UNCHANGED <<closed, flusher, main, up, accepted, table>>

Tick ==
  /\ up /\ flusher /\ mu = "none" /\ buf # <<>>
  /\ Flush("flusher", buf)
  /\ UNCHANGED <<closed, flusher, main, up, accepted, table>>

\* The lock is given back; drain goes on to close the connection.
Unlock ==
  /\ mu' = "none"
  /\ batch' = <<>>
  /\ main' = IF mu = "main" THEN "drained" ELSE main

InsertDone ==
  /\ up /\ mu # "none" /\ main # "closed"
  /\ table' = table \o batch
  /\ Unlock
  /\ UNCHANGED <<buf, closed, flusher, up, accepted>>

\* What an insert that reports an error, or whose process dies, has done.
Leftover ==
  \/ UNCHANGED table
  \/ /\ Unsure /\ main # "closed" /\ Len(table) + Len(batch) <= MaxTable
     /\ table' = table \o batch

\* Mutant: the rows are not put back.
InsertErrorDrops ==
  /\ up /\ mu # "none"
  /\ Leftover
  /\ Unlock
  /\ UNCHANGED <<buf, closed, flusher, up, accepted>>

\* The rows go back in front of the buffer, which has no limit.
InsertError ==
  /\ up /\ mu # "none"
  /\ Leftover
  /\ buf' = batch \o buf
  /\ Unlock
  /\ UNCHANGED <<closed, flusher, up, accepted>>

----------------------------------------------------------------------------
\* The signal that ends the process.
Cancel ==
  /\ up /\ main = "running"
  /\ main' = "cancelled"
  /\ UNCHANGED <<buf, closed, mu, batch, flusher, up, accepted, table>>

\* runFlusher sees it, but may take a tick first.
StopFlusher ==
  /\ up /\ main # "running" /\ flusher /\ mu # "flusher"
  /\ flusher' = FALSE
  /\ UNCHANGED <<buf, closed, mu, batch, main, up, accepted, table>>

Drain ==
  /\ up /\ main = "cancelled" /\ mu = "none"
  /\ closed' = TRUE
  /\ IF buf = <<>>
     THEN main' = "drained" /\ UNCHANGED <<buf, mu, batch>>
     ELSE main' = "draining" /\ Flush("main", buf)
  /\ UNCHANGED <<flusher, up, accepted, table>>

CloseConn ==
  /\ up /\ main = "drained"
  /\ main' = "closed"
  /\ UNCHANGED <<buf, closed, mu, batch, flusher, up, accepted, table>>

\* The end, in good order or not: os.Exit runs no deferred call, a crash neither.
Exit ==
  /\ up
  /\ up' = FALSE
  /\ IF mu = "none" THEN UNCHANGED table ELSE Leftover
  /\ UNCHANGED <<buf, closed, mu, batch, flusher, main, accepted>>

----------------------------------------------------------------------------
Next ==
  \/ \E r \in Rows : AddRow(r)
  \/ Tick \/ InsertDone \/ InsertError
  \/ Cancel \/ StopFlusher \/ Drain \/ CloseConn \/ Exit

Spec == Init /\ [][Next]_vars

\* The ticker ticks, an insert ends (after 8 seconds in an error), and the table is
\* not out of order for ever.
Fairness == WF_vars(Tick) /\ WF_vars(InsertDone \/ InsertError) /\ SF_vars(InsertDone)

FairSpec == Spec /\ Fairness

----------------------------------------------------------------------------
\* How many of the accepted rows are known to have been inserted.
Upto == Len(accepted) - Len(batch) - Len(buf)

Pipe == INSTANCE LogPipe WITH upto <- Upto

\* The batcher keeps what LogPipe promises: rows arrive in order and without a gap,
\* whatever inserts fail, whoever flushes, and however the process ends.
PipePromise == Pipe!Spec

\* The rows that are not known to have been inserted are in memory, in order, and
\* nobody adds to the buffer while a batch is being inserted (flushUnlocked).
KeptInOrder ==
  /\ batch # <<>> => buf = <<>>
  /\ batch \o buf = SubSeq(accepted, Upto + 1, Len(accepted))

\* Inductive: what is in hand while nobody inserts, and while somebody does.
BatcherInv ==
  /\ {buf, batch, accepted, table} \subseteq Seq(Rows)
  /\ mu = "none" <=> batch = <<>>
  /\ Upto >= 0
  /\ KeptInOrder

\* Every row arrives, if the process runs on: a row that does not fill the buffer is
\* taken along by the next tick, one that could not be inserted by another attempt.
EveryRowArrives ==
  \A n \in 1 .. MaxRows :
    Len(accepted) >= n ~> Upto >= n \/ main # "running" \/ ~up
=============================================================================
