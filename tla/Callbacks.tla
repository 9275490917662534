----------------------------- MODULE Callbacks -----------------------------
(***************************************************************************)
(* The HTTP calls that tell the business application what becomes of its   *)
(* tasks (internal/callback/client.go and its callers), on top of module   *)
(* Scheduler.  A loop that has written a status reads the row again, sends *)
(* event and row, and goes on when the call has been answered; in between  *)
(* the row may be written by others, who send events of their own.  There  *)
(* is no retry: the module is about the application that answers, and      *)
(* about processes that live.                                              *)
(***************************************************************************)
EXTENDS Scheduler, Sequences

\* Of the ends the admitted sweeper writes nobody hears, so it does not run here.
ASSUME CallbackAssumption == Faults \subseteq {"engine"} /\ ~AdmittedSweepEnable

VARIABLES
  due,    \* due[s]: the events sender s has still to send, in order
  told    \* told[t]: the ends heard of t: events, with the status in their body

tellVars == <<due, told>>

\* A process sends from its claim loop, its reconciler and its runtime sweeper.
Senders == (Workers \X {"claim"}) \cup (Processes \X {"tick", "sweep"})

\* Pipeline.fire: the row is still to be read.
Unread == "unread"
Event(t, event, body) == [task |-> t, event |-> event, body |-> body]
Fire(t, event) == Event(t, event, Unread)

ToldInit ==
  /\ Init
  /\ due = [s \in Senders |-> <<>>]
  /\ told = [t \in TaskIds |-> {}]

----------------------------------------------------------------------------
(* What the next step of a loop makes it send.  Events that are no end     *)
(* (pending, processing, admitted, running) are left out: they only make   *)
(* their sender wait, and a loop may take its time between any two steps.  *)

\* Mutant: a stop request is answered before its target is marked.
WorkEventsEarly(w) ==
  CASE pc[w] = "mark" -> <<Fire(cur[w], "succeeded")>>
    [] pc[w] = "audit" -> <<Fire(Target(w), "stopped")>>
    [] pc[w] = "auditfail" -> <<Fire(cur[w], "failed")>>
    [] OTHER -> <<>>

WorkEvents(w) ==
  CASE pc[w] = "fail" -> <<Fire(cur[w], "failed")>>
    [] pc[w] = "audit" -> <<Fire(Target(w), "stopped"), Fire(cur[w], "succeeded")>>
    [] pc[w] = "auditfail" -> <<Fire(cur[w], "failed")>>
    [] OTHER -> <<>>

\* Mutant: Tick sends the row as it has listed it.
TickEventsListed(w) ==
  IF verdict[w] = NoVerdict THEN <<>>
  ELSE <<Event(verdict[w].task, verdict[w].phase, "running")>>

TickEvents(w) ==
  IF verdict[w] = NoVerdict THEN <<>> ELSE <<Fire(verdict[w].task, verdict[w].phase)>>

SweepEvents(w) ==
  IF sweepPc[w] = "fail" THEN <<Fire(sweepItem[w], "timeout")>> ELSE <<>>

----------------------------------------------------------------------------
\* Sender s takes a step once all it had to send is sent.
Sends(s, events) ==
  /\ due[s] = <<>>
  /\ due' = [due EXCEPT ![s] = events]
  /\ UNCHANGED told

WorkAndTell(w)      == Sends(<<w, "claim">>, WorkEvents(w)) /\ Work(w)
ReconcileAndTell(w) == Sends(<<w, "tick">>, TickEvents(w)) /\ Reconcile(w)
SweepAndTell(w)     == Sends(<<w, "sweep">>, SweepEvents(w)) /\ Sweep(w)

SubmitQuietly == Control /\ UNCHANGED tellVars
ExitQuietly(t) == Exit(t) /\ UNCHANGED tellVars
ReapQuietly(w, t) == ReapOrphan(w, t) /\ UNCHANGED tellVars

\* Pipeline.fire reads the row.
ReadBody(s) ==
  /\ due[s] # <<>> /\ Head(due[s]).body = Unread
  /\ due' = [due EXCEPT ![s][1] = Event(@.task, @.event, status[@.task])]
  /\ UNCHANGED <<vars, told>>

\* The application has answered.
Deliver(s) ==
  /\ due[s] # <<>> /\ Head(due[s]).body # Unread
  /\ LET e == Head(due[s])
     IN  told' = [told EXCEPT ![e.task] = @ \cup {[event |-> e.event, body |-> e.body]}]
  /\ due' = [due EXCEPT ![s] = Tail(@)]
  /\ UNCHANGED vars

Send(s) == ReadBody(s) \/ Deliver(s)

ToldNext ==
  \/ SubmitQuietly
  \/ \E w \in Workers : WorkAndTell(w)
  \/ \E w \in Processes :
       ReconcileAndTell(w) \/ SweepAndTell(w) \/ \E t \in TaskIds : ReapQuietly(w, t)
  \/ \E t \in TaskIds : ExitQuietly(t)
  \/ \E s \in Senders : Send(s)

toldVars == <<vars, tellVars>>

\* A loop takes its steps and sends its events in turn; a call ends, for the client has
\* a timeout; a sweep that has begun goes on; and a workload that occupies a slot ends
\* some day.  One whose row is final may run for ever.
WorkLoop(w)      == WorkAndTell(w) \/ Send(<<w, "claim">>)
ReconcileLoop(w) == ReconcileAndTell(w) \/ Send(<<w, "tick">>)
SweepLoop(w)     ==
  \/ (overdue[w] # {} \/ sweepPc[w] # "stop") /\ SweepAndTell(w)
  \/ Send(<<w, "sweep">>)

ToldFairness ==
  /\ \A w \in Workers : WF_toldVars(WorkLoop(w))
  /\ \A w \in Processes :
       /\ WF_toldVars(ReconcileLoop(w)) /\ WF_toldVars(SweepLoop(w))
       /\ \A t \in TaskIds : WF_toldVars(ReapQuietly(w, t))
  /\ \A t \in TaskIds : WF_toldVars(t \in SlotRows /\ ExitQuietly(t))

ToldSpec == ToldInit /\ [][ToldNext]_toldVars /\ ToldFairness

----------------------------------------------------------------------------
\* Somebody has something left to do or to say about t.
Unsettled(t) ==
  \/ \E s \in Senders : \E n \in DOMAIN due[s] : due[s][n].task = t
  \/ \E w \in Workers : pc[w] \in Stopping /\ t \in {cur[w], Target(w)}

\* The end of a task has been told, when the dust has settled: whoever writes a final
\* status reads the row after his write, so the one who writes last tells it, in
\* whatever order the calls of the others arrive.
FinalTold ==
  \A t \in TaskIds :
    status[t] \in Terminal /\ ~Unsettled(t)
      => \E heard \in told[t] : heard.body = status[t]

\* Every request is answered: sooner or later it ends, and the application hears of an
\* end, although each loop waits for the application before it goes on.
EveryRequestAnswered ==
  \A t \in TaskIds :
    status[t] = "pending" ~> \E heard \in told[t] : heard.body \in Terminal

\* The answer to a stop request is unambiguous: event, row and audit trail agree
\* (executeStop writes row and trail before it sends, and nobody else touches either).
StopAnswersAgree ==
  \A s \in TaskIds : status[s] # "none" /\ ~IsStart(s) =>
    \A heard \in told[s] :
      /\ heard.event = "succeeded" => heard.body = "succeeded" /\ stopRecord[s] = "ok"
      /\ heard.event = "failed" => heard.body = "failed" /\ stopRecord[s] = "failed"
----------------------------------------------------------------------------
(* Why FinalTold and StopAnswersAgree hold: the inductive invariant of     *)
(* CallbackProofs.                                                         *)

Heard  == [event : {"succeeded", "failed", "stopped", "timeout"}, body : Status]
Events == [task : TaskIds, event : {"succeeded", "failed", "stopped", "timeout"},
           body : Status \cup {Unread}]

\* w has marked the target of the stop request it carries out, and not told yet.
Marked(w) == pc[w] \in {"finish", "audit"}

\* The end row t tells of has been heard or is on its way.
OnItsWay(t) ==
  \/ \E heard \in told[t] : heard.body = status[t]
  \/ \E s \in Senders : \E n \in DOMAIN due[s] :
       due[s][n].task = t /\ due[s][n].body \in {Unread, status[t]}

\* It is the next thing a worker says.
ToBeSaid(t) ==
  \E w \in Workers : (Marked(w) /\ t = Target(w)) \/ (pc[w] \in Auditing /\ t = cur[w])

\* An answer e about row t: of a stop request it comes after the audit row.
Sound(t, e) ==
  e.event \in {"succeeded", "failed"} =>
    /\ status[t] # "none"
    /\ ~IsStart(t) => /\ stopRecord[t] = IF e.event = "succeeded" THEN "ok" ELSE "failed"
                      /\ e.body \in {Unread, e.event}

AnswersSound ==
  /\ \A s \in Senders : \A n \in DOMAIN due[s] : Sound(due[s][n].task, due[s][n])
  /\ \A t \in TaskIds : \A heard \in told[t] : Sound(t, heard)

AnswerInv ==
  /\ due \in [Senders -> Seq(Events)] /\ told \in [TaskIds -> SUBSET Heard]
  /\ \A w \in Workers : Marked(w) => Target(w) \in TaskIds
  /\ \A t \in TaskIds : status[t] \in Terminal => OnItsWay(t) \/ ToBeSaid(t)
  /\ AnswersSound
=============================================================================
