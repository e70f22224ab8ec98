----------------------------- MODULE AskSession -----------------------------
(***************************************************************************)
(* One question over HTTP: backend/api/sse.py and session_manager.py.      *)
(* POST /ask/stream registers an AskSession and starts a task; every POST  *)
(* /ask/resume of the session starts another.  Each request has its own    *)
(* task, queue and client reading the queue.  asyncio interleaves them     *)
(* where a coroutine really waits: between super-steps of the graph and at *)
(* the exit of "async with async_session_factory()".  Everything between   *)
(* two such points is one action; Queue.put on an unbounded queue does not *)
(* wait.                                                                   *)
(***************************************************************************)
EXTENDS Naturals, Sequences

CONSTANTS MaxStreams,    \* bound: the requests of the session that are looked at
          LastStep       \* super-steps of the graph for this question

ASSUME SizesAssumption == MaxStreams \in Nat \ {0} /\ LastStep \in Nat

Streams == 1..MaxStreams     \* 1 is /ask/stream, the others are /ask/resume

VARIABLES
  session,  \* _sessions[session_id]; status "none" while it is not registered
  step,     \* super-steps in the graph's checkpoint (MemorySaver)
  task,     \* stream -> state of its asyncio task
  queue,    \* stream -> the events in its queue
  client,   \* stream -> state of the HTTP client that reads it
  last      \* stream -> history: the last event the client received

vars == <<session, step, task, queue, client, last>>

Events == {"STATUS", "SNAPSHOT", "PAUSED", "ERROR", "DONE"}
End == "None"                \* put(None): the reader stops
Silence == "nothing"

Statuses == {"none", "running", "paused", "done", "error"}
TaskStates == {"idle", "created", "started", "running", "closing", "refused",
               "finished", "rejected"}
ClientStates == {"idle", "open", "closed", "gone"}

-----------------------------------------------------------------------------
Init ==
  /\ session = [status |-> "none", cancelled |-> FALSE, events |-> 1,
                done |-> FALSE]
  /\ step = 0
  /\ task = [s \in Streams |-> "idle"]
  /\ queue = [s \in Streams |-> <<>>]
  /\ client = [s \in Streams |-> "idle"]
  /\ last = [s \in Streams |-> Silence]

\* POST /ask/stream: register_session and create_task, without waiting.
AskStream ==
  /\ session.status = "none"
  /\ session' = [status |-> "running", cancelled |-> FALSE, events |-> 1,
                 done |-> FALSE]
  /\ task' = [task EXCEPT ![1] = "created"]
  /\ client' = [client EXCEPT ![1] = "open"]
  /\ UNCHANGED <<step, queue, last>>

\* POST /ask/resume: refused (404) unless paused; its queue replaces the
\* session's.
AskResume(s) ==
  /\ s # 1 /\ client[s] = "idle"
  /\ session.status = "paused"
  /\ session' = [session EXCEPT !.events = s, !.done = FALSE]
  /\ task' = [task EXCEPT ![s] = "created"]
  /\ client' = [client EXCEPT ![s] = "open"]
  /\ UNCHANGED <<step, queue, last>>

\* POST /ask/stop: request_stop.  The client knows the session's id from the
\* response, and by then the loop has run the task that was created first.
AskStop ==
  /\ session.status = "running" /\ task[1] # "created"
  /\ session' = [session EXCEPT !.cancelled = TRUE]
  /\ UNCHANGED <<step, task, queue, client, last>>

-----------------------------------------------------------------------------
(* The task of a request: _run, run_workflow and resume_workflow. *)

\* asyncio's ready queue is first in, first out: a task that was created gets
\* its first turn before a run that is woken up later gets its next one.
NoneCreated == \A s \in Streams : task[s] # "created"

\* What is put behind a None, or into a queue whose client has gone, is never
\* read: it is left out.
Put(q, s, events) ==
  IF client[s] = "open" /\ (q[s] = <<>> \/ q[s][Len(q[s])] # End)
  THEN [q EXCEPT ![s] = @ \o events] ELSE q

Emit(s, events) == queue' = Put(queue, s, events)

\* Mutant: push_event, to the session's queue, in place of the emitter.
PushAndFinish(s, events) ==
  queue' = Put(queue, session.events, Append(events, End))

\* Events to the emitter's own queue, then put(None) to whatever queue the
\* session has now.
EmitAndFinish(s, events) ==
  queue' = Put(Put(queue, s, events), session.events, <<End>>)

\* Mutant: resume_workflow trusts the check that the handler made.
RunStartUnchecked(s) ==
  /\ task[s] = "created"
  /\ Emit(s, <<"STATUS">>)
  /\ session' = [session EXCEPT !.status = "running", !.cancelled = FALSE]
  /\ task' = [task EXCEPT ![s] = "started"]
  /\ UNCHANGED <<step, client, last>>

\* The first turn of _run: the STATUS, resume_workflow's own check that the
\* session is still paused, run_workflow up to the first event of the graph.
RunStart(s) ==
  /\ task[s] = "created"
  /\ Emit(s, <<"STATUS">>)
  /\ IF s = 1 \/ session.status = "paused"
     THEN /\ session' = [session EXCEPT !.status = "running",
                                        !.cancelled = FALSE]
          /\ task' = [task EXCEPT ![s] = "started"]
     ELSE /\ task' = [task EXCEPT ![s] = "refused"]
          /\ UNCHANGED session
  /\ UNCHANGED <<step, client, last>>

\* stream_events of a snapshot; finalize puts DONE into the last one.
Snapshot(k) == IF k = LastStep THEN <<"SNAPSHOT", "DONE">> ELSE <<"SNAPSHOT">>

\* Mutant: the last snapshot is not a place to pause.
HandleSnapshotButLast(s, k) ==
  IF session.cancelled /\ k < LastStep
  THEN /\ EmitAndFinish(s, Snapshot(k) \o <<"PAUSED">>)
       /\ session' = [session EXCEPT !.status = "paused"]
       /\ task' = [task EXCEPT ![s] = "closing"]
  ELSE /\ Emit(s, Snapshot(k))
       /\ task' = [task EXCEPT ![s] = "running"]
       /\ UNCHANGED session

\* The body of "async for event in graph.astream": emit, then look at cancelled.
HandleSnapshot(s, k) ==
  IF session.cancelled
  THEN /\ EmitAndFinish(s, Snapshot(k) \o <<"PAUSED">>)
       /\ session' = [session EXCEPT !.status = "paused"]
       /\ task' = [task EXCEPT ![s] = "closing"]
  ELSE /\ Emit(s, Snapshot(k))
       /\ task' = [task EXCEPT ![s] = "running"]
       /\ UNCHANGED session

\* The first event is the input, or the checkpoint that a resume starts from.
FirstSnapshot(s) ==
  /\ task[s] = "started" /\ NoneCreated
  /\ HandleSnapshot(s, step)
  /\ UNCHANGED <<step, client, last>>

\* A super-step ends, its checkpoint is stored, its event handled.
SuperStep(s) ==
  /\ task[s] = "running" /\ NoneCreated
  /\ step < LastStep
  /\ step' = step + 1
  /\ HandleSnapshot(s, step + 1)
  /\ UNCHANGED <<client, last>>

\* The graph has no next node and astream ends: no look at cancelled here.
RunEnd(s) ==
  /\ task[s] = "running" /\ NoneCreated
  /\ step = LastStep
  /\ EmitAndFinish(s, <<"DONE">>)
  /\ session' = [session EXCEPT !.status = "done", !.done = TRUE]
  /\ task' = [task EXCEPT ![s] = "closing"]
  /\ UNCHANGED <<step, client, last>>

\* build_graph, a node or the graph raises.
RunFail(s) ==
  /\ task[s] \in {"started", "running"} /\ NoneCreated
  /\ EmitAndFinish(s, <<"ERROR", "DONE">>)
  /\ session' = [session EXCEPT !.status = "error", !.done = TRUE]
  /\ task' = [task EXCEPT ![s] = "closing"]
  /\ UNCHANGED <<step, client, last>>

\* Mutant: _run without its finally, as _finish_stream has put a None already.
CloseTaskSilently(s) ==
  /\ task[s] = "closing"
  /\ task' = [task EXCEPT ![s] = "finished"]
  /\ UNCHANGED <<session, step, queue, client, last>>

\* The database session is closed, _run's finally puts None once more.
CloseTask(s) ==
  /\ task[s] = "closing"
  /\ \/ Emit(s, <<End>>)
     \/ Emit(s, <<"ERROR", "DONE", End>>)    \* closing it raised
  /\ task' = [task EXCEPT ![s] = "finished"]
  /\ UNCHANGED <<session, step, client, last>>

\* The same for a resume that found the session no longer paused.
RejectTask(s) ==
  /\ task[s] = "refused"
  /\ Emit(s, <<"ERROR", "DONE", End>>)
  /\ task' = [task EXCEPT ![s] = "rejected"]
  /\ UNCHANGED <<session, step, client, last>>

-----------------------------------------------------------------------------
(* The client of a stream: sse_event_generator and its reader. *)

Consume(s) ==
  /\ client[s] = "open" /\ queue[s] # <<>>
  /\ queue' = [queue EXCEPT ![s] = Tail(@)]
  /\ IF Head(queue[s]) = End
     THEN /\ client' = [client EXCEPT ![s] = "closed"]
          /\ UNCHANGED last
     ELSE /\ last' = [last EXCEPT ![s] = Head(queue[s])]
          /\ UNCHANGED client
  /\ UNCHANGED <<session, step, task>>

\* The client goes away; the generator is cancelled, the task is not.  The
\* history of a client that has gone is not kept.
Disconnect(s) ==
  /\ client[s] = "open"
  /\ client' = [client EXCEPT ![s] = "gone"]
  /\ queue' = [queue EXCEPT ![s] = <<>>]
  /\ last' = [last EXCEPT ![s] = Silence]
  /\ UNCHANGED <<session, step, task>>

TaskTurn(s) == \/ RunStart(s) \/ FirstSnapshot(s) \/ SuperStep(s) \/ RunEnd(s)
               \/ RunFail(s) \/ CloseTask(s) \/ RejectTask(s)

Next == \/ AskStream \/ AskStop
        \/ \E s \in Streams : \/ AskResume(s) \/ TaskTurn(s)
                              \/ Consume(s) \/ Disconnect(s)

\* The event loop runs every ready task and every node returns or raises; a
\* client that stays connected reads.
Fairness == \A s \in Streams : WF_vars(TaskTurn(s)) /\ WF_vars(Consume(s))

Spec == Init /\ [][Next]_vars /\ Fairness

-----------------------------------------------------------------------------
(* What must hold. *)

\* The type of every variable.
TypeOK ==
  /\ session \in [status : Statuses, cancelled : BOOLEAN, events : Streams,
                  done : BOOLEAN]
  /\ step \in 0..LastStep
  /\ task \in [Streams -> TaskStates]
  /\ queue \in [Streams -> Seq(Events \cup {End})]
  /\ client \in [Streams -> ClientStates]
  /\ last \in [Streams -> Events \cup {Silence}]

\* Tasks that are inside run_workflow's loop over the graph.
Runners == { s \in Streams : task[s] \in {"started", "running"} }

\* Two resumes can both pass the check of the handler, but the graph's thread
\* is never run by two tasks at once, and none runs it behind a session that
\* says paused, done or error.
SingleRunner == \A s, t \in Runners : s = t

RunnerMeansRunning == Runners # {} => session.status = "running"

\* The session is never "running" with nobody to run it: such a session could
\* neither be stopped nor be resumed any more.
RunningHasRunner ==
  session.status = "running" => Runners # {} \/ task[1] = "created"

\* A stream whose request did run the graph is not closed before its client
\* was told how the run ended, even when another resume has taken over
\* session.events and the queue's None comes from someone else.
EndIsReported ==
  \A s \in Streams :
    client[s] = "closed" /\ task[s] \notin {"refused", "rejected"} =>
      last[s] \in {"PAUSED", "DONE"}

\* A stop that was accepted is not taken back while the run goes on, and the
\* flag of an earlier stop does not pause a resumed run.
StopNotForgotten ==
  [][session.cancelled /\ ~session'.cancelled => session.status = "paused"]_vars

\* After an accepted stop the super-step in progress is the last one: when it
\* completes the session is paused.
StopTakesEffect ==
  [][session.cancelled /\ step' # step => session'.status = "paused"]_vars

\* Every client that stays gets its stream closed: also the one that lost the
\* race of two resumes, whose queue is session.events, and the one that won it,
\* whose queue is not.  As a request opens its stream once, and the requests
\* are finitely many, that is to say: in the end nobody waits.
StreamsClose == <>[](\A s \in Streams : client[s] # "open")

\* What the proofs need besides: a session that is not registered has no task,
\* and the first task starts before anything else runs or stops it.
NothingBeforeAsk ==
  session.status = "none" =>
    ~session.cancelled /\ \A s \in Streams : task[s] = "idle"

FirstTaskFirst ==
  task[1] = "created" =>
    session.status = "running" /\ ~session.cancelled /\ Runners = {}

\* Whoever put its queue into session.events last has not run the graph to its
\* end yet or never will, as long as a task that can do so is there: the None
\* of a run goes to its own queue or to one whose request was refused.
EventsAwaited ==
  (\E s \in Streams : task[s] \in {"created", "started", "running"}) =>
    task[session.events] \in
      {"created", "started", "running", "refused", "rejected"}

\* What a client has heard last, and what it is still to hear.
Heard(s) == <<last[s]>> \o queue[s]
Outcomes == {"PAUSED", "DONE"}

\* A None is the last there is, and it comes right after an outcome.
EndFollowsOutcome(h) ==
  \A i \in 2..Len(h) : h[i] = End => i = Len(h) /\ h[i-1] \in Outcomes

\* A run that is over has put its outcome, behind which nothing comes but None.
OutcomeIsPut ==
  \A s \in Streams :
    client[s] = "open" /\ task[s] \notin {"refused", "rejected"} =>
      /\ EndFollowsOutcome(Heard(s))
      /\ task[s] = "closing" =>
           Heard(s)[Len(Heard(s))] \in Outcomes \cup {End}

\* A request's task, client and queue come into use together.
NothingBeforeOpen ==
  \A s \in Streams : /\ task[s] = "idle" <=> client[s] = "idle"
                     /\ client[s] = "idle" => queue[s] = <<>>

EndInv == EventsAwaited /\ OutcomeIsPut /\ NothingBeforeOpen /\ EndIsReported

IInv == /\ TypeOK /\ SingleRunner /\ RunnerMeansRunning /\ RunningHasRunner
        /\ NothingBeforeAsk /\ FirstTaskFirst

-----------------------------------------------------------------------------
(* The promise of AskLifecycle. *)

Phase == CASE session.status = "none" -> "new"
           [] session.status = "running" /\ session.cancelled -> "stopping"
           [] OTHER -> session.status

Lifecycle == INSTANCE AskLifecycle WITH phase <- Phase

Promise == Lifecycle!Spec

-----------------------------------------------------------------------------
(* What the interface and the documents say, and the code does not do. *)

\* "Stopped, click send to continue", shown when a stop was accepted: unless
\* it fails, the question can then be resumed.
AcceptedStopPauses ==
  session.status = "running" /\ session.cancelled ~>
    session.status \in {"paused", "error"}
=============================================================================
