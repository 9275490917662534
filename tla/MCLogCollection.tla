-------------------------- MODULE MCLogCollection --------------------------
(* LogCollection with the constants of MCScheduler, for the runs of TLC. *)
EXTENDS LogCollection, MCScheduler

\* CONFIG.md:174: the last lines are collected before a container is stopped, so the
\* table has them when a stop request is recorded as ok.  Refuted with one worker:
\* executeStop collects them after Stop has removed the container.
StopKeepsLog ==
  \A s \in TaskIds : stopRecord[s] = "ok" =>
    LET t == req[s].target IN LastLines(t, FlushTail) \subseteq stored[t]

\* Lines of run logs: the first is too long, the third is on the other stream.
Line1 == TaskIds \X {1}
Line3 == TaskIds \X {3}

\* Bound of run logs: one container, and requests to stop it.
OneStart == Cardinality({t \in TaskIds : status[t] # "none" /\ req[t].op = "start"}) <= 1
=============================================================================
