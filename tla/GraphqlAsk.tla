----------------------------- MODULE GraphqlAsk -----------------------------
(***************************************************************************)
(* A question asked over GraphQL: the mutation askQuestion of              *)
(* backend/api/schema.py runs the graph without an emitter, its events go  *)
(* to the session's queue, and any number of askStream subscriptions read  *)
(* that queue.  The session is one of _sessions like any other, so it can  *)
(* be stopped and resumed over HTTP, and a resume gives it another queue,  *)
(* which its HTTP client reads beside the subscriptions.  asyncio          *)
(* interleaves the tasks as in AskSession.                                 *)
(***************************************************************************)
EXTENDS Naturals, Sequences

CONSTANTS Subscribers,     \* askStream subscriptions
          MaxRequests,     \* bound: the mutation and the resumes that follow
          LastStep         \* super-steps of the graph; the first one retrieves

Requests == 1..MaxRequests    \* 1 is the mutation, the others are /ask/resume
Clients == 2..MaxRequests     \* the HTTP client of each resume
Readers == Subscribers \cup Clients

ASSUME GraphqlAskAssumption ==
  /\ MaxRequests \in Nat \ {0} /\ LastStep \in Nat \ {0}
  /\ Subscribers \cap Nat = {}

VARIABLES
  session,  \* _sessions[session_id]; status "none" before the mutation
  step,     \* super-steps in the graph's checkpoint
  task,     \* request -> state of its asyncio task
  queue,    \* request -> the asyncio.Queue made for it
  reader,   \* reader -> what it does and the queue it waits on
  outcome,  \* request -> history: the status its run left the session with
  told,     \* reader -> history: the last event that it was sent
  scored    \* subscriptions that started a score_rag_chunks job

vars == <<session, step, task, queue, reader, outcome, told, scored>>

\* Of what the graph's nodes send only what a property is about: the others come
\* before the end of a run and change nothing.
Events == {"STATUS", "RAG_CHUNK", "PAUSED", "ERROR", "DONE", "None"}
StreamEventType == {"STATUS", "RAG_CHUNK", "ERROR", "DONE"}
TaskStates == {"idle", "created", "started", "running", "refused", "closing",
               "finished", "broken", "rejected"}

-----------------------------------------------------------------------------
Init ==
  /\ session = [status |-> "none", cancelled |-> FALSE, events |-> 1]
  /\ step = 0
  /\ task = [r \in Requests |-> "idle"]
  /\ queue = [r \in Requests |-> <<>>]
  /\ reader = [x \in Readers |-> [state |-> "idle", at |-> 1]]
  /\ outcome = [r \in Requests |-> "none"]
  /\ told = [x \in Readers |-> "none"]
  /\ scored = {}

Reading == <<reader, told, scored>>

\* askQuestion: create_session makes the queue, create_task the run.
AskQuestion ==
  /\ session.status = "none"
  /\ session' = [session EXCEPT !.status = "running"]
  /\ task' = [task EXCEPT ![1] = "created"]
  /\ UNCHANGED <<step, queue, outcome, Reading>>

\* POST /ask/resume: the new queue replaces the session's.
AskResume(r) ==
  /\ r # 1 /\ task[r] = "idle" /\ task[r - 1] # "idle"
  /\ session.status = "paused"
  /\ session' = [session EXCEPT !.events = r]
  /\ task' = [task EXCEPT ![r] = "created"]
  /\ reader' = [reader EXCEPT ![r] = [state |-> "waiting", at |-> r]]
  /\ UNCHANGED <<step, queue, outcome, told, scored>>

\* POST /ask/stop.
AskStop ==
  /\ session.status = "running" /\ task[1] # "created"
  /\ session' = [session EXCEPT !.cancelled = TRUE]
  /\ UNCHANGED <<step, task, queue, outcome, Reading>>

-----------------------------------------------------------------------------
(* The runs. *)

\* A created task gets its first turn before a run that is woken up later.
NoneCreated == \A r \in Requests : task[r] # "created"

\* The mutation's run keeps the queue it saw when it began, which is its own;
\* an emitter has the queue of its request.
Emit(r, events) == queue' = [queue EXCEPT ![r] = @ \o events]

\* The events of a run's end.
Said(r, events, terminal) ==
  events \o IF terminal /\ r # 1 THEN <<"DONE">> ELSE <<>>

\* Mutant: only a terminal end puts None.
FinishTerminal(r, events, terminal) ==
  queue' = IF ~terminal /\ r = 1 THEN [queue EXCEPT ![r] = @ \o events]
           ELSE [[queue EXCEPT ![r] = @ \o Said(r, events, terminal)]
                 EXCEPT ![session.events] = Append(@, "None")]

\* emit, then _finish_stream: a DONE of its own only with an emitter, and None
\* into the queue that the session has now.
Finish(r, events, terminal) ==
  queue' = [[queue EXCEPT ![r] = @ \o Said(r, events, terminal)]
            EXCEPT ![session.events] = Append(@, "None")]

\* run_workflow up to the first event of the graph; a resume has sent its
\* STATUS and looks once more whether the session is paused.
RunStart(r) ==
  /\ task[r] = "created"
  /\ queue' = IF r = 1 THEN queue ELSE [queue EXCEPT ![r] = Append(@, "STATUS")]
  /\ IF r = 1 \/ session.status = "paused"
     THEN /\ session' = [session EXCEPT !.status = "running", !.cancelled = FALSE]
          /\ task' = [task EXCEPT ![r] = "started"]
     ELSE /\ task' = [task EXCEPT ![r] = "refused"]
          /\ UNCHANGED session
  /\ UNCHANGED <<step, outcome, Reading>>

\* The events in the state after k super-steps: the list accumulates and is
\* sent whole every time.
Sent(k) == (IF k = 0 THEN <<>> ELSE <<"RAG_CHUNK">>)
           \o (IF k = LastStep THEN <<"DONE">> ELSE <<>>)

\* Mutant: cancelled is looked at before the events are sent.
SnapshotCancelledFirst(r) ==
  LET reached == IF task[r] = "started" THEN step ELSE step + 1
  IN /\ task[r] \in {"started", "running"}
     /\ task[r] = "running" => step < LastStep
     /\ NoneCreated
     /\ step' = reached
     /\ IF session.cancelled
        THEN /\ Finish(r, <<"PAUSED">>, FALSE)
             /\ session' = [session EXCEPT !.status = "paused"]
             /\ task' = [task EXCEPT ![r] = "closing"]
             /\ outcome' = [outcome EXCEPT ![r] = "paused"]
        ELSE /\ Emit(r, Sent(reached))
             /\ task' = [task EXCEPT ![r] = "running"]
             /\ UNCHANGED <<session, outcome>>
     /\ UNCHANGED Reading

\* The first event of the graph, which is the checkpoint, or that of the next
\* super-step; then the look at cancelled.
Snapshot(r) ==
  LET reached == IF task[r] = "started" THEN step ELSE step + 1
  IN /\ task[r] \in {"started", "running"}
     /\ task[r] = "running" => step < LastStep
     /\ NoneCreated
     /\ step' = reached
     /\ IF session.cancelled
        THEN /\ Finish(r, Append(Sent(reached), "PAUSED"), FALSE)
             /\ session' = [session EXCEPT !.status = "paused"]
             /\ task' = [task EXCEPT ![r] = "closing"]
             /\ outcome' = [outcome EXCEPT ![r] = "paused"]
        ELSE /\ Emit(r, Sent(reached))
             /\ task' = [task EXCEPT ![r] = "running"]
             /\ UNCHANGED <<session, outcome>>
     /\ UNCHANGED Reading

\* Mutant: the error of a run without an emitter ends up in the log only.
RunEndsQuietly(r) ==
  /\ task[r] \in {"started", "running"} /\ NoneCreated
  /\ \/ /\ task[r] = "running" /\ step = LastStep
        /\ session' = [session EXCEPT !.status = "done"]
        /\ Finish(r, <<>>, TRUE)
     \/ /\ session' = [session EXCEPT !.status = "error"]
        /\ Finish(r, IF r = 1 THEN <<>> ELSE <<"ERROR">>, TRUE)
  /\ task' = [task EXCEPT ![r] = "closing"]
  /\ outcome' = [outcome EXCEPT ![r] = session'.status]
  /\ UNCHANGED <<step, Reading>>

\* The graph ends, or something raises: run_workflow's else and except.
RunEnds(r) ==
  /\ task[r] \in {"started", "running"} /\ NoneCreated
  /\ \/ /\ task[r] = "running" /\ step = LastStep
        /\ session' = [session EXCEPT !.status = "done"]
        /\ Finish(r, <<>>, TRUE)
     \/ /\ session' = [session EXCEPT !.status = "error"]
        /\ Finish(r, <<"ERROR">>, TRUE)
  /\ task' = [task EXCEPT ![r] = "closing"]
  /\ outcome' = [outcome EXCEPT ![r] = session'.status]
  /\ UNCHANGED <<step, Reading>>

\* The database session is closed.  The mutation's task has no more to say,
\* also when closing raises; a resume's puts None once more, and tells that the
\* closing raised.
CloseTask(r) ==
  /\ task[r] \in {"closing", "refused"}
  /\ \/ /\ task[r] = "closing"
        /\ queue' = IF r = 1 THEN queue ELSE [queue EXCEPT ![r] = Append(@, "None")]
        /\ task' = [task EXCEPT ![r] = "finished"]
     \/ /\ r # 1
        /\ queue' = [queue EXCEPT ![r] = @ \o <<"ERROR", "DONE", "None">>]
        /\ task' = [task EXCEPT ![r] = IF @ = "closing" THEN "broken" ELSE "rejected"]
  /\ UNCHANGED <<session, step, outcome, Reading>>

-----------------------------------------------------------------------------
(* The readers. *)

\* askStream: stream_events finds the session and waits on its queue.
Subscribe(x) ==
  /\ session.status # "none" /\ reader[x].state = "idle"
  /\ reader' = [reader EXCEPT ![x] = [state |-> "waiting", at |-> session.events]]
  /\ UNCHANGED <<session, step, task, queue, outcome, told, scored>>

\* ask_stream shows as STATUS what StreamEventType does not name; an HTTP stream
\* shows every event as it is.
Shown(x, event) ==
  IF x \in Subscribers /\ event \notin StreamEventType THEN "STATUS" ELSE event

\* An event is taken from the queue; a subscription starts a scoring job for a
\* RAG_CHUNK, an HTTP stream does not.
Take(x) ==
  LET q == reader[x].at  event == Head(queue[q])
  IN /\ reader[x].state = "waiting" /\ queue[q] # <<>>
     /\ queue' = [queue EXCEPT ![q] = Tail(@)]
     /\ reader' = [reader EXCEPT ![x].state = IF event = "None" THEN "ended" ELSE "holding"]
     /\ told' = IF event = "None" THEN told ELSE [told EXCEPT ![x] = Shown(x, event)]
     /\ scored' = scored \cup IF event = "RAG_CHUNK" THEN {x} \cap Subscribers ELSE {}
     /\ UNCHANGED <<session, step, task, outcome>>

\* The event is sent: a subscription goes on with the queue the session has by
\* then, an HTTP stream with its own.
Again(x) ==
  /\ reader[x].state = "holding"
  /\ reader' = [reader EXCEPT ![x] = [state |-> "waiting",
                  at |-> IF x \in Subscribers THEN session.events ELSE @.at]]
  /\ UNCHANGED <<session, step, task, queue, outcome, told, scored>>

\* The browser closes the connection.  What a reader that has gone was told is
\* not kept.
Leave(x) ==
  /\ reader[x].state \in {"waiting", "holding"}
  /\ reader' = [reader EXCEPT ![x].state = "gone"]
  /\ told' = [told EXCEPT ![x] = "none"]
  /\ scored' = scored \ {x}
  /\ UNCHANGED <<session, step, task, queue, outcome>>

-----------------------------------------------------------------------------
Turn(r) == RunStart(r) \/ Snapshot(r) \/ RunEnds(r) \/ CloseTask(r)
Read(x) == Take(x) \/ Again(x)

Next == \/ AskQuestion \/ AskStop
        \/ \E r \in Requests : AskResume(r) \/ Turn(r)
        \/ \E x \in Subscribers : Subscribe(x)
        \/ \E x \in Readers : Read(x) \/ Leave(x)

\* The event loop runs every task that is ready, readers among them.  A run has
\* finitely many turns and a reader finitely many events, so that fairness to
\* the turns and to the reads as a whole is fairness to each.
Fairness == /\ WF_vars(\E r \in Requests : Turn(r))
            /\ WF_vars(\E x \in Readers : Read(x))

Spec == Init /\ [][Next]_vars /\ Fairness

-----------------------------------------------------------------------------
(* What must hold. *)

\* The type of every variable.
TypeOK ==
  /\ session \in [status : {"none", "running", "paused", "done", "error"},
                  cancelled : BOOLEAN, events : Requests]
  /\ step \in 0..LastStep
  /\ task \in [Requests -> TaskStates]
  /\ queue \in [Requests -> Seq(Events)]
  /\ reader \in [Readers -> [state : {"idle", "waiting", "holding", "ended", "gone"},
                             at : Requests]]
  /\ outcome \in [Requests -> {"none", "paused", "done", "error"}]
  /\ told \in [Readers -> {"none"} \cup (Events \ {"None"})]
  /\ scored \subseteq Subscribers

\* Nobody else takes what is meant for x.  Subscriptions go on to the queues of
\* later requests and never back.
Sole(x) ==
  \A y \in Readers \ {x} :
    \/ reader[y].state = "idle"
    \/ {x, y} \subseteq Clients
    \/ x \in Subscribers /\ y \in Clients /\ reader[x].at < y
    \/ x \in Clients /\ y \in Subscribers /\ reader[y].at < x

\* The event that says last how the run of request r ended: an error is followed
\* by a DONE where there is an emitter.
Final(r) == CASE outcome[r] = "paused" -> "PAUSED"
              [] outcome[r] = "error" /\ r = 1 -> "ERROR"
              [] OTHER -> "DONE"

\* What its stream may end with: that, or the DONE of a task that broke afterwards.
Finals(r) == {Final(r)} \cup IF task[r] = "broken" THEN {"DONE"} ELSE {}
Heard(x) == told[x] \in {Shown(x, event) : event \in Finals(reader[x].at)}

\* The last event of a reader that nobody takes events from says how the run
\* ended, with or without an emitter: PAUSED, ERROR or DONE, except that a
\* subscription learns of a stop only by a STATUS.  Only the queue of a resume that
\* lost a race may be closed by the run that won it.
EndIsTold ==
  \A x \in Readers :
    reader[x].state = "ended" /\ Sole(x) /\ task[reader[x].at] \notin {"refused", "rejected"}
      => Heard(x)

\* When nothing runs any more, whoever still waits on an empty queue waits
\* because another reader took the None that was put there.
WaiterExplained ==
  (\A r \in Requests : task[r] \in {"idle", "finished", "broken", "rejected"}) =>
    \A x \in Readers :
      reader[x].state = "waiting" /\ queue[reader[x].at] = <<>> =>
        \E y \in Readers \ {x} : reader[y].state = "ended" /\ reader[y].at = reader[x].at

\* A subscription alone with the mutation's run starts a scoring job for what
\* the run retrieved, however the run ended.
RetrievalIsScored ==
  \A x \in Subscribers :
    reader[x].state = "ended" /\ Sole(x) /\ step > 0
      /\ (\A r \in Clients : task[r] = "idle") => x \in scored

\* A reader that nobody takes events from, and that stays, is not left waiting:
\* a reader begins once, so that from some time on none of them waits or goes on.
EndReachesReader ==
  <>[](\A x \in Readers : reader[x].state \in {"waiting", "holding"} => ~Sole(x))
-----------------------------------------------------------------------------
(* What the proofs need besides. *)

Runs == {"started", "running"}
Waits == {"idle", "created", "started", "running"}   \* has not put its end

\* Requests come one after the other, the session's queue is the last one's, the
\* mutation runs alone, and one task runs at a time; as long as one does or may,
\* the session's queue is of a request that still ends it.
Turns ==
  /\ session.status = "none" <=> task[1] = "idle"
  /\ \A r \in Requests : task[r] = "idle" <=> r > session.events \/ session.status = "none"
  /\ session.status = "none" => session.events = 1
  /\ task[1] \in Waits => session.events = 1 /\ session.status \in {"none", "running"}
  /\ task[1] \notin {"refused", "broken", "rejected"}
  /\ \A r, s \in Requests :
       task[r] \in Runs => session.status = "running" /\ (task[s] \in Runs => s = r)
  /\ (\E r \in Requests : task[r] \in Runs \cup {"created"}) =>
       task[session.events] \in Runs \cup {"created", "refused", "rejected"}

\* A run that goes on has no outcome.
Pending == \A r \in Requests : task[r] \in Waits => outcome[r] = "none"

\* The client of a resume reads the queue of its request, a subscription one
\* that the session had.
Places ==
  /\ \A r \in Clients : /\ reader[r].state = "idle" <=> task[r] = "idle"
                        /\ reader[r].state # "idle" => reader[r].at = r
  /\ \A x \in Readers : /\ reader[x].at <= session.events
                        /\ reader[x].state # "idle" => session.status # "none"
  /\ \A x \in Subscribers : reader[x].state = "idle" => reader[x].at = 1

HasNone(q) == \E i \in 1..Len(q) : q[i] = "None"
Closed(r) == HasNone(queue[r]) \/ \E x \in Readers : reader[x].state = "ended" /\ reader[x].at = r

\* A queue is empty before its request, and is closed by a run that ends and by
\* no other.
Closes ==
  \A r \in Requests :
    /\ task[r] = "idle" => queue[r] = <<>>
    /\ task[r] \in Waits => ~Closed(r)
    /\ task[r] \in {"finished", "broken", "rejected"} => Closed(r)
    /\ task[r] = "closing" /\ r = 1 => Closed(r)

\* In the queue of request r every None comes right after the event that tells
\* its outcome or another None, or it is the first.
Ends(r) == Finals(r) \cup {"None"}
InOrder(q, ends) == \A i \in 2..Len(q) : q[i] = "None" => q[i - 1] \in ends
NoneFirst(q) == q # <<>> /\ q[1] = "None"
Over(q, ends) == q # <<>> /\ q[Len(q)] \in ends

\* The request has sent its outcome, which its end follows.
Spent(r) == task[r] = "closing" \/ (task[r] = "running" /\ step = LastStep)

\* The outcome comes before the None for a reader that takes all there is.
Told(x) ==
  LET r == reader[x].at
  IN /\ reader[x].state = "ended" => Heard(x)
     /\ reader[x].state \in {"idle", "waiting", "holding"} =>
          /\ InOrder(queue[r], Ends(r)) /\ (NoneFirst(queue[r]) => Heard(x))
          /\ Spent(r) => Over(queue[r], Ends(r)) \/ (queue[r] = <<>> /\ Heard(x))

Tells ==
  \A x \in Readers :
    /\ Sole(x) /\ task[reader[x].at] \notin {"refused", "rejected"}
    /\ x \in Clients => reader[x].state # "idle"
    => Told(x)

\* What was retrieved is before the None in the mutation's queue until it is taken.
HasChunk(q) == \E i \in 1..Len(q) : /\ q[i] = "RAG_CHUNK"
                                   /\ \A j \in 1..(i - 1) : q[j] # "None"
Scores ==
  \A x \in Subscribers :
    Sole(x) /\ step > 0 /\ (\A r \in Clients : task[r] = "idle") /\ reader[x].state # "gone" =>
      x \in scored \/ (reader[x].state # "ended" /\ HasChunk(queue[1]))

IInv == TypeOK /\ Turns /\ Pending /\ Places /\ Closes /\ Tells /\ Scores
=============================================================================
