----------------------------- MODULE Controller ----------------------------
(***************************************************************************)
(* The mp-controller processes (internal/controller, Pipeline.Submit):     *)
(* they insert rows and keep no state, except that a restart of a live     *)
(* task is two inserts with a gap between them.  restarts holds, for each  *)
(* restart of a live task, the ids of its answer: the stop request and the *)
(* new start, NoTask until that is inserted.                               *)
(***************************************************************************)
EXTENDS TaskTable

CONSTANTS
  Requests,   \* the requests clients post to /tasks
  Calls       \* which of the other calls, "stop" and "restart", clients make

ASSUME ClientAssumption ==
  Requests \subseteq Request /\ Calls \subseteq {"stop", "restart"}

VARIABLE restarts

ControllerInit == restarts = {}

ControllerTypeOK ==
  restarts \in SUBSET [stop : TaskIds, clone : TaskIds \cup {NoTask}]

----------------------------------------------------------------------------
\* Enqueue: a start, or a stop of any row there is or of none, even of one that
\* is no start task.  A stop that names no target is refused.
Enqueue(t) ==
  /\ \E r \in Requests :
       /\ r.op = "stop" => r.target \in Rows \cup {UnknownTask}
       /\ Create(t, r)
  /\ UNCHANGED restarts

\* The stop request made for a start task takes provider and class over.
StopRequestFor(u) ==
  [op |-> "stop", class |-> req[u].class, provider |-> req[u].provider,
   gpu |-> FALSE, target |-> u]

EnqueueStopForTarget(t, u) ==
  /\ "stop" \in Calls
  /\ u \in Rows /\ IsStart(u)
  /\ Create(t, StopRequestFor(u))
  /\ UNCHANGED restarts

\* RestartStartWorkload of task u: a finished task is only cloned, a live one is
\* asked to stop first; a queued one is refused.  The live one may have ended
\* since the restart looked at it.
CloneOf(u) == [req[u] EXCEPT !.op = "start", !.target = NoTask]

RestartFinished(t, u) ==
  /\ "restart" \in Calls
  /\ status[u] \in Terminal /\ IsStart(u)
  /\ Create(t, CloneOf(u))
  /\ UNCHANGED restarts

RestartLive(t, u) ==
  /\ "restart" \in Calls
  /\ status[u] \in SlotStatuses \cup Terminal /\ IsStart(u)
  /\ Create(t, StopRequestFor(u))
  /\ restarts' = restarts \cup {[stop |-> t, clone |-> NoTask]}

\* One controller reads the clock for both rows, so the clone is the younger.
RestartSubmit(t, s) ==
  /\ [stop |-> s, clone |-> NoTask] \in restarts
  /\ t > s
  /\ Create(t, CloneOf(req[s].target))
  /\ restarts' = (restarts \ {[stop |-> s, clone |-> NoTask]})
                    \cup {[stop |-> s, clone |-> t]}

\* The second insert fails, or its controller dies: only the stop is queued.
RestartAbandon(s) ==
  /\ [stop |-> s, clone |-> NoTask] \in restarts
  /\ restarts' = restarts \ {[stop |-> s, clone |-> NoTask]}
  /\ UNCHANGED tableVars

ControllerStep ==
  \/ \E t \in TaskIds :
       \/ Enqueue(t)
       \/ \E u \in TaskIds : EnqueueStopForTarget(t, u)
       \/ \E u \in TaskIds : RestartFinished(t, u)
       \/ \E u \in TaskIds : RestartLive(t, u)
       \/ \E s \in TaskIds : RestartSubmit(t, s)
  \/ \E s \in TaskIds : RestartAbandon(s)
=============================================================================
