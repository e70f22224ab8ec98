-------------------------- MODULE AskSessionProofs --------------------------
(***************************************************************************)
(* What AskSession promises for any number of resume requests and any      *)
(* length of the workflow.                                                 *)
(***************************************************************************)
EXTENDS AskSession, SequenceTheorems, TLAPS

LEMMA InitIInv == Init => IInv
<1> SUFFICES ASSUME Init PROVE IInv
  OBVIOUS
<1> USE SizesAssumption DEF Init, Streams
<1>1. TypeOK
  BY DEF TypeOK, Statuses, TaskStates, ClientStates, Events
<1>2. Runners = {}
  BY DEF Runners
<1> QED
  BY <1>1, <1>2 DEF IInv, SingleRunner, RunnerMeansRunning, RunningHasRunner,
                    NothingBeforeAsk, FirstTaskFirst

\* Putting events keeps the queues queues.
LEMMA PutType ==
  ASSUME NEW q \in [Streams -> Seq(Events \cup {End})], NEW s \in Streams,
         NEW events \in Seq(Events \cup {End})
  PROVE  Put(q, s, events) \in [Streams -> Seq(Events \cup {End})]
BY DEF Put

\* The events that one turn of a task emits.
LEMMA EventSeqs ==
  /\ <<"STATUS">> \in Seq(Events \cup {End})
  /\ <<"DONE">> \in Seq(Events \cup {End})
  /\ <<"ERROR", "DONE">> \in Seq(Events \cup {End})
  /\ <<"ERROR", "DONE", End>> \in Seq(Events \cup {End})
  /\ <<End>> \in Seq(Events \cup {End})
  /\ \A k : Snapshot(k) \in Seq(Events \cup {End})
  /\ \A k : Snapshot(k) \o <<"PAUSED">> \in Seq(Events \cup {End})
<1> DEFINE T == Events \cup {End}
<1>1. /\ "STATUS" \in T /\ "SNAPSHOT" \in T /\ "PAUSED" \in T
      /\ "ERROR" \in T /\ "DONE" \in T /\ End \in T
  BY DEF Events
<1> HIDE DEF T
<1>2. <<"STATUS">> \in Seq(T) /\ <<"DONE">> \in Seq(T) /\ <<End>> \in Seq(T)
  BY <1>1
<1>3. <<"ERROR", "DONE">> \in Seq(T)
  BY <1>1
<1>4. <<"ERROR", "DONE", End>> \in Seq(T)
  BY <1>1
<1>5. ASSUME NEW k
      PROVE  Snapshot(k) \in Seq(T) /\ Snapshot(k) \o <<"PAUSED">> \in Seq(T)
  <2>1. <<"SNAPSHOT">> \in Seq(T) /\ <<"SNAPSHOT", "DONE">> \in Seq(T)
        /\ <<"PAUSED">> \in Seq(T)
    BY <1>1
  <2>2. Snapshot(k) \in Seq(T)
    BY <2>1 DEF Snapshot
  <2> QED
    BY <2>1, <2>2
<1> QED
  BY <1>2, <1>3, <1>4, <1>5, Zenon DEF T

LEMMA EmitType ==
  ASSUME TypeOK, NEW s \in Streams, NEW events \in Seq(Events \cup {End}),
         Emit(s, events) \/ EmitAndFinish(s, events)
  PROVE  queue' \in [Streams -> Seq(Events \cup {End})]
<1>1. Put(queue, s, events) \in [Streams -> Seq(Events \cup {End})]
  BY PutType DEF TypeOK
<1>2. session.events \in Streams /\ <<End>> \in Seq(Events \cup {End})
  BY DEF TypeOK
<1>3. Put(Put(queue, s, events), session.events, <<End>>)
        \in [Streams -> Seq(Events \cup {End})]
  BY <1>1, <1>2, PutType
<1> QED
  BY <1>1, <1>3 DEF Emit, EmitAndFinish

LEMMA HandleType ==
  ASSUME TypeOK, NEW s \in Streams, NEW k, HandleSnapshot(s, k)
  PROVE  queue' \in [Streams -> Seq(Events \cup {End})]
BY EventSeqs, EmitType DEF HandleSnapshot

LEMMA StepTypeOK == TypeOK /\ [Next]_vars => TypeOK'
<1> SUFFICES ASSUME TypeOK, [Next]_vars PROVE TypeOK'
  OBVIOUS
<1> USE SizesAssumption DEF Statuses, TaskStates, ClientStates
<1>1. CASE AskStream
  BY <1>1 DEF AskStream, TypeOK, Streams
<1>2. CASE AskStop
  BY <1>2 DEF AskStop, TypeOK
<1>3. ASSUME NEW s \in Streams, AskResume(s) PROVE TypeOK'
  BY <1>3 DEF AskResume, TypeOK
<1>4. ASSUME NEW s \in Streams, RunStart(s) PROVE TypeOK'
  <2>1. queue' \in [Streams -> Seq(Events \cup {End})]
    BY <1>4, EventSeqs, EmitType DEF RunStart
  <2> QED
    BY <1>4, <2>1 DEF RunStart, TypeOK
<1>5. ASSUME NEW s \in Streams, FirstSnapshot(s) PROVE TypeOK'
  <2>1. queue' \in [Streams -> Seq(Events \cup {End})]
    BY <1>5, HandleType DEF FirstSnapshot
  <2> QED
    BY <1>5, <2>1 DEF FirstSnapshot, HandleSnapshot, TypeOK
<1>6. ASSUME NEW s \in Streams, SuperStep(s) PROVE TypeOK'
  <2>1. queue' \in [Streams -> Seq(Events \cup {End})]
    BY <1>6, HandleType DEF SuperStep
  <2>2. step' \in 0..LastStep
    BY <1>6 DEF SuperStep, TypeOK
  <2> QED
    BY <1>6, <2>1, <2>2 DEF SuperStep, HandleSnapshot, TypeOK
<1>7. ASSUME NEW s \in Streams, RunEnd(s) PROVE TypeOK'
  <2>1. queue' \in [Streams -> Seq(Events \cup {End})]
    BY <1>7, EventSeqs, EmitType DEF RunEnd
  <2> QED
    BY <1>7, <2>1 DEF RunEnd, TypeOK
<1>8. ASSUME NEW s \in Streams, RunFail(s) PROVE TypeOK'
  <2>1. queue' \in [Streams -> Seq(Events \cup {End})]
    BY <1>8, EventSeqs, EmitType DEF RunFail
  <2> QED
    BY <1>8, <2>1 DEF RunFail, TypeOK
<1>9. ASSUME NEW s \in Streams, CloseTask(s) PROVE TypeOK'
  <2>1. queue' \in [Streams -> Seq(Events \cup {End})]
    BY <1>9, EventSeqs, EmitType DEF CloseTask
  <2> QED
    BY <1>9, <2>1 DEF CloseTask, TypeOK
<1>10. ASSUME NEW s \in Streams, RejectTask(s) PROVE TypeOK'
  <2>1. queue' \in [Streams -> Seq(Events \cup {End})]
    BY <1>10, EventSeqs, EmitType DEF RejectTask
  <2> QED
    BY <1>10, <2>1 DEF RejectTask, TypeOK
<1>11. ASSUME NEW s \in Streams, Consume(s) PROVE TypeOK'
  <2>1. /\ Tail(queue[s]) \in Seq(Events \cup {End})
        /\ Head(queue[s]) \in Events \cup {End}
    BY <1>11 DEF Consume, TypeOK
  <2> QED
    BY <1>11, <2>1 DEF Consume, TypeOK
<1>12. ASSUME NEW s \in Streams, Disconnect(s) PROVE TypeOK'
  BY <1>12 DEF Disconnect, TypeOK
<1>13. CASE UNCHANGED vars
  BY <1>13 DEF vars, TypeOK
<1> QED
  BY <1>1, <1>2, <1>3, <1>4, <1>5, <1>6, <1>7, <1>8, <1>9, <1>10, <1>11,
     <1>12, <1>13 DEF Next, TaskTurn

Parts == SingleRunner /\ RunnerMeansRunning /\ RunningHasRunner
           /\ NothingBeforeAsk /\ FirstTaskFirst

\* A snapshot either leaves its task the runner or ends the run.
LEMMA HandleParts ==
  ASSUME IInv, NEW s \in Runners, NEW k, NoneCreated, HandleSnapshot(s, k)
  PROVE  Parts'
<1> USE SizesAssumption
    DEF IInv, Parts, SingleRunner, RunnerMeansRunning, RunningHasRunner,
        NothingBeforeAsk, FirstTaskFirst, Runners, TypeOK
<1>1. 1 \in Streams /\ s \in Streams /\ task[1] # "created"
  BY DEF Streams, NoneCreated
<1>2. session.status = "running" /\ Runners = {s}
  OBVIOUS
<1>3. CASE session.cancelled
  <2>1. session'.status = "paused" /\ task' = [task EXCEPT ![s] = "closing"]
    BY <1>3 DEF HandleSnapshot
  <2>2. Runners' = {} /\ task'[1] # "created"
    BY <1>1, <1>2, <2>1
  <2> HIDE DEF Runners, IInv
  <2> QED
    BY <2>1, <2>2
<1>4. CASE ~session.cancelled
  <2>1. session' = session /\ task' = [task EXCEPT ![s] = "running"]
    BY <1>4 DEF HandleSnapshot
  <2>2. Runners' = {s} /\ task'[1] # "created"
    BY <1>1, <1>2, <2>1
  <2> HIDE DEF Runners, IInv
  <2> QED
    BY <1>2, <2>1, <2>2
<1> QED
  BY <1>3, <1>4

\* A request's task becomes a runner only when there is none, and only a runner
\* ends a run.
LEMMA StepParts == IInv /\ [Next]_vars => Parts'
<1> SUFFICES ASSUME IInv, [Next]_vars PROVE Parts'
  OBVIOUS
<1> USE SizesAssumption
    DEF IInv, Parts, SingleRunner, RunnerMeansRunning, RunningHasRunner,
        NothingBeforeAsk, FirstTaskFirst, Runners, TypeOK
<1>0. 1 \in Streams
  BY DEF Streams
<1>1. CASE AskStream
  BY <1>0, <1>1 DEF AskStream
<1>2. CASE AskStop
  BY <1>0, <1>2 DEF AskStop
<1>3. ASSUME NEW s \in Streams, AskResume(s) PROVE Parts'
  BY <1>0, <1>3 DEF AskResume
<1>4. ASSUME NEW s \in Streams, RunStart(s) PROVE Parts'
  <2>1. CASE s = 1 \/ session.status = "paused"
    <3>1. Runners = {} /\ session.status # "none"
      BY <1>4, <2>1 DEF RunStart
    <3>2. /\ session' = [session EXCEPT !.status = "running", !.cancelled = FALSE]
          /\ task' = [task EXCEPT ![s] = "started"]
      BY <1>4, <2>1 DEF RunStart
    <3>3. session'.status = "running" /\ Runners' = {s}
      BY <3>1, <3>2
    <3>4. task'[1] # "created"
      <4>1. CASE s = 1
        BY <1>0, <3>2, <4>1
      <4>2. CASE s # 1
        BY <1>0, <2>1, <3>2, <4>2
      <4> QED
        BY <4>1, <4>2
    <3> HIDE DEF Runners, IInv
    <3> QED
      BY <3>3, <3>4
  <2>2. CASE ~(s = 1 \/ session.status = "paused")
    BY <1>0, <1>4, <2>2, ZenonT(30) DEF RunStart
  <2> QED
    BY <2>1, <2>2
<1>5. ASSUME NEW s \in Streams, FirstSnapshot(s) PROVE Parts'
  BY <1>5, HandleParts DEF FirstSnapshot, Runners
<1>6. ASSUME NEW s \in Streams, SuperStep(s) PROVE Parts'
  BY <1>6, HandleParts DEF SuperStep, Runners
<1>7. ASSUME NEW s \in Streams, RunEnd(s) PROVE Parts'
  <2>1. /\ session'.status \notin {"none", "running"}
        /\ task' = [task EXCEPT ![s] = "closing"]
        /\ s \in Runners /\ task[1] # "created"
    BY <1>0, <1>7 DEF RunEnd, NoneCreated
  <2>2. Runners' = {} /\ task'[1] # "created"
    BY <1>0, <2>1
  <2> HIDE DEF Runners, IInv
  <2> QED
    BY <2>1, <2>2
<1>8. ASSUME NEW s \in Streams, RunFail(s) PROVE Parts'
  <2>1. /\ session'.status \notin {"none", "running"}
        /\ task' = [task EXCEPT ![s] = "closing"]
        /\ s \in Runners /\ task[1] # "created"
    BY <1>0, <1>8 DEF RunFail, NoneCreated
  <2>2. Runners' = {} /\ task'[1] # "created"
    BY <1>0, <2>1
  <2> HIDE DEF Runners, IInv
  <2> QED
    BY <2>1, <2>2
<1>9. ASSUME NEW s \in Streams, CloseTask(s) \/ RejectTask(s) PROVE Parts'
  <2>1. /\ session' = session /\ s \notin Runners /\ task[s] # "created"
        /\ task' = [task EXCEPT ![s] = IF task[s] = "closing" THEN "finished"
                                                            ELSE "rejected"]
    BY <1>9 DEF CloseTask, RejectTask
  <2>2. Runners' = Runners /\ (task'[1] = "created" => task[1] = "created")
    BY <1>0, <2>1
  <2>3. task[s] # "idle"
    BY <1>9 DEF CloseTask, RejectTask
  <2> QED
    BY <2>1, <2>2, <2>3
<1>10. ASSUME NEW s \in Streams, Consume(s) \/ Disconnect(s) PROVE Parts'
  BY <1>10 DEF Consume, Disconnect
<1>11. CASE UNCHANGED vars
  BY <1>11 DEF vars
<1> QED
  BY <1>1, <1>2, <1>3, <1>4, <1>5, <1>6, <1>7, <1>8, <1>9, <1>10, <1>11
     DEF Next, TaskTurn

LEMMA StepIInv == IInv /\ [Next]_vars => IInv'
BY StepTypeOK, StepParts DEF IInv, Parts

\* Types, for any number of requests.
THEOREM TypeCorrect == Spec => []TypeOK
<1>1. IInv => TypeOK
  BY DEF IInv
<1> QED
  BY InitIInv, StepIInv, <1>1, PTL DEF Spec

\* However many resumes race, one task at a time runs the session's graph, the
\* session says so while it does, and it never says so without one.
THEOREM OneRunnerOrNone ==
  Spec => [](SingleRunner /\ RunnerMeansRunning /\ RunningHasRunner)
<1>1. IInv => SingleRunner /\ RunnerMeansRunning /\ RunningHasRunner
  BY DEF IInv
<1> QED
  BY InitIInv, StepIInv, <1>1, PTL DEF Spec

\* What one turn does to cancelled and to the graph's checkpoint.
LEMMA StepStop ==
  IInv /\ [Next]_vars =>
    /\ session.cancelled /\ ~session'.cancelled => session.status = "paused"
    /\ session.cancelled /\ step' # step => session'.status = "paused"
<1> DEFINE Goal == /\ ~session'.cancelled => session.status = "paused"
                   /\ step' # step => session'.status = "paused"
<1> SUFFICES ASSUME IInv, [Next]_vars, session.cancelled PROVE Goal
  OBVIOUS
<1> USE DEF IInv, TypeOK
<1>1. ~AskStream
  BY DEF AskStream, NothingBeforeAsk
<1>2. CASE AskStop
  BY <1>2 DEF AskStop
<1>3. ASSUME NEW s \in Streams, AskResume(s) PROVE Goal
  BY <1>3 DEF AskResume
<1>4. ASSUME NEW s \in Streams, RunStart(s) PROVE Goal
  <2>1. s # 1
    BY <1>4 DEF RunStart, FirstTaskFirst
  <2> QED
    BY <1>4, <2>1 DEF RunStart
<1>5. ASSUME NEW s \in Streams, NEW k, HandleSnapshot(s, k)
      PROVE  session'.status = "paused" /\ session'.cancelled
  BY <1>5 DEF HandleSnapshot
<1>6. ASSUME NEW s \in Streams, FirstSnapshot(s) \/ SuperStep(s) PROVE Goal
  BY <1>5, <1>6 DEF FirstSnapshot, SuperStep
<1>7. ASSUME NEW s \in Streams, RunEnd(s) \/ RunFail(s) PROVE Goal
  BY <1>7 DEF RunEnd, RunFail
<1>8. ASSUME NEW s \in Streams,
             CloseTask(s) \/ RejectTask(s) \/ Consume(s) \/ Disconnect(s)
      PROVE  Goal
  BY <1>8 DEF CloseTask, RejectTask, Consume, Disconnect
<1>9. CASE UNCHANGED vars
  BY <1>9 DEF vars
<1> HIDE DEF Goal
<1> QED
  BY <1>1, <1>2, <1>3, <1>4, <1>6, <1>7, <1>8, <1>9 DEF Next, TaskTurn

\* No turn of any task, and no other resume, takes back a stop that a run still
\* has to obey.
THEOREM StopsAreKept == Spec => StopNotForgotten
<1>1. IInv /\ [Next]_vars =>
        [session.cancelled /\ ~session'.cancelled => session.status = "paused"]_vars
  BY StepStop
<1> QED
  BY InitIInv, StepIInv, <1>1, PTL DEF Spec, StopNotForgotten

\* A stopped run completes at most the super-step it is in.
THEOREM StopsAreObeyed == Spec => StopTakesEffect
<1>1. IInv /\ [Next]_vars =>
        [session.cancelled /\ step' # step => session'.status = "paused"]_vars
  BY StepStop
<1> QED
  BY InitIInv, StepIInv, <1>1, PTL DEF Spec, StopTakesEffect

-----------------------------------------------------------------------------
(* The safety half of the refinement of AskLifecycle. *)

LEMMA PhaseInit == Init => Lifecycle!Init
BY DEF Init, Lifecycle!Init, Phase

LEMMA PhaseStep == IInv /\ [Next]_vars => [Lifecycle!Next]_(Lifecycle!lifecycle)
<1> DEFINE Goal == [Lifecycle!Next]_(Lifecycle!lifecycle)
<1> SUFFICES ASSUME IInv, [Next]_vars PROVE Goal
  OBVIOUS
<1> USE DEF IInv, TypeOK, Statuses, Phase, Lifecycle!lifecycle
<1>1. CASE AskStream
  BY <1>1 DEF AskStream, Lifecycle!Next, Lifecycle!Ask
<1>2. CASE AskStop
  BY <1>2 DEF AskStop, Lifecycle!Next, Lifecycle!Stop
<1>3. ASSUME NEW s \in Streams, AskResume(s) PROVE Goal
  BY <1>3 DEF AskResume
<1>4. ASSUME NEW s \in Streams, RunStart(s) PROVE Goal
  <2>1. CASE s = 1
    <3>1. session.status = "running" /\ ~session.cancelled
      BY <1>4, <2>1 DEF RunStart, FirstTaskFirst
    <3> QED
      BY <1>4, <2>1, <3>1 DEF RunStart
  <2>2. CASE s # 1 /\ session.status = "paused"
    BY <1>4, <2>2 DEF RunStart, Lifecycle!Next, Lifecycle!Resume
  <2>3. CASE s # 1 /\ session.status # "paused"
    BY <1>4, <2>3 DEF RunStart
  <2> QED
    BY <2>1, <2>2, <2>3
<1>5. ASSUME NEW s \in Streams, FirstSnapshot(s) PROVE Goal
  <2>1. session.status = "running" /\ step' = step
    BY <1>5 DEF FirstSnapshot, RunnerMeansRunning, Runners
  <2>2. CASE session.cancelled
    BY <1>5, <2>1, <2>2
       DEF FirstSnapshot, HandleSnapshot, Lifecycle!Next, Lifecycle!Pause
  <2>3. CASE ~session.cancelled
    BY <1>5, <2>1, <2>3 DEF FirstSnapshot, HandleSnapshot
  <2> QED
    BY <2>2, <2>3
<1>6. ASSUME NEW s \in Streams, SuperStep(s) PROVE Goal
  <2>1. session.status = "running" /\ step' = step + 1 /\ step < LastStep
    BY <1>6 DEF SuperStep, RunnerMeansRunning, Runners
  <2>2. CASE session.cancelled
    <3>1. Phase = "stopping" /\ Phase' = "paused"
      BY <1>6, <2>1, <2>2 DEF SuperStep, HandleSnapshot
    <3>2. step' \in {step, step + 1} /\ step' <= LastStep
      BY <2>1, SizesAssumption
    <3> HIDE DEF Phase
    <3> QED
      BY <3>1, <3>2 DEF Lifecycle!Next, Lifecycle!Pause
  <2>3. CASE ~session.cancelled
    BY <1>6, <2>1, <2>3
       DEF SuperStep, HandleSnapshot, Lifecycle!Next, Lifecycle!Advance
  <2> QED
    BY <2>2, <2>3
<1>7. ASSUME NEW s \in Streams, RunEnd(s) PROVE Goal
  <2>1. session.status = "running"
    BY <1>7 DEF RunEnd, RunnerMeansRunning, Runners
  <2> QED
    BY <1>7, <2>1 DEF RunEnd, Lifecycle!Next, Lifecycle!Finish
<1>8. ASSUME NEW s \in Streams, RunFail(s) PROVE Goal
  <2>1. session.status = "running"
    BY <1>8 DEF RunFail, RunnerMeansRunning, Runners
  <2> QED
    BY <1>8, <2>1 DEF RunFail, Lifecycle!Next, Lifecycle!Fail
<1>9. ASSUME NEW s \in Streams,
             CloseTask(s) \/ RejectTask(s) \/ Consume(s) \/ Disconnect(s)
      PROVE  Goal
  BY <1>9 DEF CloseTask, RejectTask, Consume, Disconnect
<1>10. CASE UNCHANGED vars
  BY <1>10 DEF vars
<1> HIDE DEF Goal
<1> QED
  BY <1>1, <1>2, <1>3, <1>4, <1>5, <1>6, <1>7, <1>8, <1>9, <1>10
     DEF Next, TaskTurn

\* Every run of the code is a run of the abstract lifecycle: a question only
\* moves forward, is resumed only from a pause, and done and error are final.
\* (That it gets on, the liveness half of Promise, is checked by TLC.)
THEOREM LifecycleIsKept ==
  Spec => Lifecycle!Init /\ [][Lifecycle!Next]_(Lifecycle!lifecycle)
BY InitIInv, StepIInv, PhaseInit, PhaseStep, PTL DEF Spec

\* The inductive invariant as a whole.
THEOREM SessionInvariant == Spec => []IInv
BY InitIInv, StepIInv, PTL DEF Spec

\* A task inside the loop of run_workflow runs behind a session that says so.
THEOREM RunnersAreKnown == Spec => []RunnerMeansRunning
<1>1. IInv => RunnerMeansRunning
  BY DEF IInv
<1> QED
  BY InitIInv, StepIInv, <1>1, PTL DEF Spec

\* No session is left running without a task that runs it.
THEOREM RunningIsRun == Spec => []RunningHasRunner
<1>1. IInv => RunningHasRunner
  BY DEF IInv
<1> QED
  BY InitIInv, StepIInv, <1>1, PTL DEF Spec

-----------------------------------------------------------------------------
(* No client hears the end of its stream before the outcome of its run. *)

Hearable == Events \cup {End, Silence}

\* Events put behind a sequence without a None in it.
LEMMA QuietPut ==
  ASSUME NEW h \in Seq(Hearable), NEW e \in Seq(Hearable),
         h # <<>>, h[Len(h)] # End, EndFollowsOutcome(h),
         \A i \in 1..Len(e) : e[i] # End
  PROVE  EndFollowsOutcome(h \o e)
<1>1. Len(h \o e) = Len(h) + Len(e) /\ Len(h) \in Nat /\ Len(e) \in Nat
  OBVIOUS
<1>2. SUFFICES ASSUME NEW i \in 2..Len(h \o e), (h \o e)[i] = End
               PROVE  FALSE
  BY DEF EndFollowsOutcome
<1>3. CASE i <= Len(h)
  <2>1. i \in 2..Len(h) /\ h[i] = End
    BY <1>1, <1>2, <1>3
  <2>2. i = Len(h)
    BY <2>1 DEF EndFollowsOutcome
  <2> QED
    BY <2>1, <2>2
<1>4. CASE i > Len(h)
  <2>1. i - Len(h) \in 1..Len(e) /\ e[i - Len(h)] = End
    BY <1>1, <1>2, <1>4
  <2> QED
    BY <2>1
<1> QED
  BY <1>1, <1>3, <1>4

\* A None put right behind an outcome.
LEMMA EndPut ==
  ASSUME NEW h \in Seq(Hearable), h # <<>>, h[Len(h)] \in Outcomes,
         EndFollowsOutcome(h)
  PROVE  EndFollowsOutcome(h \o <<End>>)
<1>1. /\ Len(h \o <<End>>) = Len(h) + 1 /\ Len(h) \in Nat \ {0}
      /\ (h \o <<End>>)[Len(h)] = h[Len(h)]
  BY DEF Hearable
<1>2. SUFFICES ASSUME NEW i \in 2..(Len(h) + 1), (h \o <<End>>)[i] = End
               PROVE  i = Len(h) + 1
  BY <1>1 DEF EndFollowsOutcome
<1>3. SUFFICES ASSUME i \in 2..Len(h) PROVE FALSE
  BY <1>1, <1>2
<1>4. h[i] = End
  BY <1>2, <1>3
<1>5. i = Len(h)
  BY <1>3, <1>4 DEF EndFollowsOutcome
<1> QED
  BY <1>4, <1>5 DEF Outcomes, End

\* What was heard does not change by hearing it.
LEMMA HeardTail ==
  ASSUME NEW l \in Hearable, NEW q \in Seq(Hearable), q # <<>>
  PROVE  /\ Len(<<Head(q)>> \o Tail(q)) = Len(<<l>> \o q) - 1
         /\ \A i \in 1..Len(<<Head(q)>> \o Tail(q)) :
              (<<Head(q)>> \o Tail(q))[i] = (<<l>> \o q)[i + 1]
OBVIOUS

LEMMA HeardFacts ==
  ASSUME NEW l \in Events \cup {Silence}, NEW q \in Seq(Events \cup {End})
  PROVE  /\ l \in Hearable /\ q \in Seq(Hearable) /\ l # End
         /\ <<l>> \o q \in Seq(Hearable) /\ <<l>> \o q # <<>>
         /\ Len(<<l>> \o q) = Len(q) + 1
         /\ (<<l>> \o q)[1] = l
         /\ \A i \in 1..Len(q) : (<<l>> \o q)[i + 1] = q[i]
<1>1. l \in Hearable /\ l # End
  BY DEF Hearable, Events, Silence, End
<1>2. q \in Seq(Hearable)
  BY DEF Hearable
<1> QED
  BY <1>1, <1>2

\* What a put adds to what the client of the queue hears.
LEMMA PutHeard ==
  ASSUME NEW q \in [Streams -> Seq(Events \cup {End})], NEW s \in Streams,
         NEW l \in Events \cup {Silence}, NEW e \in Seq(Events \cup {End}),
         client[s] = "open"
  PROVE  LET h == <<l>> \o q[s]
             h2 == <<l>> \o Put(q, s, e)[s]
         IN  \/ h[Len(h)] # End /\ h2 = h \o e
             \/ h[Len(h)] = End /\ h2 = h
<1> DEFINE h == <<l>> \o q[s]
<1>1. q[s] \in Seq(Events \cup {End}) /\ l # End
  BY HeardFacts
<1>2. h[Len(h)] = IF q[s] = <<>> THEN l ELSE q[s][Len(q[s])]
  BY <1>1, HeardFacts
<1>3. CASE h[Len(h)] # End
  <2>1. Put(q, s, e)[s] = q[s] \o e
    BY <1>1, <1>2, <1>3 DEF Put
  <2>2. <<l>> \o (q[s] \o e) = (<<l>> \o q[s]) \o e
    <3>1. <<l>> \in Seq(Events \cup {Silence})
      OBVIOUS
    <3> QED
      BY <1>1
  <2> QED
    BY <1>3, <2>1, <2>2
<1>4. CASE h[Len(h)] = End
  BY <1>1, <1>2, <1>4 DEF Put
<1> QED
  BY <1>3, <1>4

\* What is known of a queue whose run is over: the outcome is in it.
Over(h) == EndFollowsOutcome(h) /\ h[Len(h)] \in Outcomes \cup {End}

\* Putting events without a None keeps the order; an outcome as the last of
\* them is then the last of the queue.
LEMMA PutEvents ==
  ASSUME NEW q \in [Streams -> Seq(Events \cup {End})], NEW s \in Streams,
         NEW l \in Events \cup {Silence}, NEW e \in Seq(Events),
         client[s] = "open", EndFollowsOutcome(<<l>> \o q[s])
  PROVE  /\ EndFollowsOutcome(<<l>> \o Put(q, s, e)[s])
         /\ e # <<>> /\ e[Len(e)] \in Outcomes => Over(<<l>> \o Put(q, s, e)[s])
<1> DEFINE h == <<l>> \o q[s]
           h2 == <<l>> \o Put(q, s, e)[s]
<1>1. h \in Seq(Hearable) /\ h # <<>>
  BY HeardFacts
<1>2. e \in Seq(Hearable) /\ e \in Seq(Events \cup {End})
  BY DEF Hearable
<1>3. \A i \in 1..Len(e) : e[i] # End
  BY DEF Events, End
<1>4. \/ h[Len(h)] # End /\ h2 = h \o e
      \/ h[Len(h)] = End /\ h2 = h
  BY <1>2, PutHeard
<1> HIDE DEF h, h2
<1>5. EndFollowsOutcome(h)
  BY DEF h
<1>6. EndFollowsOutcome(h2)
  BY <1>1, <1>2, <1>3, <1>4, <1>5, QuietPut
<1>7. ASSUME e # <<>>, e[Len(e)] \in Outcomes
      PROVE  h2[Len(h2)] \in Outcomes \cup {End}
  <2>1. CASE h2 = h \o e
    <3>1. h2[Len(h2)] = e[Len(e)]
      BY <1>1, <1>2, <1>7, <2>1
    <3> QED
      BY <1>7, <3>1
  <2> QED
    BY <1>4, <2>1
<1> QED
  BY <1>6, <1>7 DEF h2, Over

\* A None put into a queue that has its outcome.
LEMMA PutEnd ==
  ASSUME NEW q \in [Streams -> Seq(Events \cup {End})], NEW s \in Streams,
         NEW l \in Events \cup {Silence},
         client[s] = "open", Over(<<l>> \o q[s])
  PROVE  Over(<<l>> \o Put(q, s, <<End>>)[s])
<1> DEFINE h == <<l>> \o q[s]
           h2 == <<l>> \o Put(q, s, <<End>>)[s]
<1>1. h \in Seq(Hearable) /\ h # <<>>
  BY HeardFacts
<1>2. \/ h[Len(h)] # End /\ h2 = h \o <<End>>
      \/ h[Len(h)] = End /\ h2 = h
  BY EventSeqs, PutHeard
<1> HIDE DEF h, h2
<1>3. Over(h)
  BY DEF h
<1>4. ASSUME h2 = h \o <<End>>, h[Len(h)] # End
      PROVE  Over(h2)
  <2>1. EndFollowsOutcome(h2)
    BY <1>1, <1>3, <1>4, EndPut DEF Over
  <2>2. h2[Len(h2)] = End
    BY <1>1, <1>4
  <2> QED
    BY <2>1, <2>2 DEF Over
<1>5. Over(h2)
  BY <1>2, <1>3, <1>4
<1> QED
  BY <1>5 DEF h2

\* ERROR, DONE and None at once are DONE's outcome and then the None.
LEMMA PutFailure ==
  ASSUME NEW q \in [Streams -> Seq(Events \cup {End})], NEW s \in Streams,
         client[s] = "open"
  PROVE  Put(q, s, <<"ERROR", "DONE", End>>)[s]
           = Put(Put(q, s, <<"ERROR", "DONE">>), s, <<End>>)[s]
<1>1. q[s] \in Seq(Events \cup {End})
  OBVIOUS
<1>2. CASE q[s] = <<>> \/ q[s][Len(q[s])] # End
  <2> DEFINE r == q[s] \o <<"ERROR", "DONE">>
  <2>1. Put(q, s, <<"ERROR", "DONE">>) = [q EXCEPT ![s] = r]
    BY <1>2 DEF Put
  <2>2. r # <<>> /\ r[Len(r)] = "DONE" /\ r \in Seq(Events \cup {End})
    BY <1>1, EventSeqs
  <2>3. Put([q EXCEPT ![s] = r], s, <<End>>)[s] = r \o <<End>>
    BY <2>2 DEF Put, End
  <2>4. Put(q, s, <<"ERROR", "DONE", End>>)[s] = q[s] \o <<"ERROR", "DONE", End>>
    BY <1>2 DEF Put
  <2>5. r \o <<End>> = q[s] \o <<"ERROR", "DONE", End>>
    BY <1>1, EventSeqs
  <2> QED
    BY <2>1, <2>3, <2>4, <2>5
<1>3. CASE ~(q[s] = <<>> \/ q[s][Len(q[s])] # End)
  BY <1>3 DEF Put
<1> QED
  BY <1>2, <1>3

\* What OutcomeIsPut says of one stream.
StreamInv(s) ==
  client[s] = "open" /\ task[s] \notin {"refused", "rejected"} =>
    /\ EndFollowsOutcome(Heard(s))
    /\ task[s] = "closing" => Over(Heard(s))

LEMMA ByStream ==
  /\ OutcomeIsPut <=> \A s \in Streams : StreamInv(s)
  /\ OutcomeIsPut' <=> \A s \in Streams : StreamInv(s)'
BY DEF OutcomeIsPut, StreamInv, Over

LEMMA EventsAreQueued == \A e \in Seq(Events) : e \in Seq(Events \cup {End})
OBVIOUS

\* Only its own task and a run that ends change what a stream is to hear.
LEMMA OtherStream ==
  ASSUME NEW s \in Streams, StreamInv(s),
         client'[s] = client[s], task'[s] = task[s], last'[s] = last[s],
         queue'[s] = queue[s]
  PROVE  StreamInv(s)'
BY DEF StreamInv, Heard

\* One turn of a task that ends no run.
LEMMA EmitStreams ==
  ASSUME TypeOK, OutcomeIsPut, NEW s \in Streams, NEW e \in Seq(Events),
         Emit(s, e), UNCHANGED <<client, last>>,
         NEW t, t \notin {"closing"}, task' = [task EXCEPT ![s] = t],
         task[s] \in {"refused", "rejected"} => t \in {"refused", "rejected"}
  PROVE  OutcomeIsPut'
<1> SUFFICES ASSUME NEW u \in Streams PROVE StreamInv(u)'
  BY ByStream
<1>1. StreamInv(u)
  BY ByStream
<1>2. CASE u # s \/ client[u] # "open"
  <2>1. queue'[u] = queue[u]
    BY <1>2 DEF Emit, Put, TypeOK
  <2>2. CASE client[u] # "open"
    BY <2>2 DEF StreamInv
  <2>3. CASE u # s
    BY <1>1, <2>1, <2>3, OtherStream DEF TypeOK
  <2> QED
    BY <1>2, <2>2, <2>3
<1>3. CASE u = s /\ client[u] = "open"
  <2>1. task'[s] = t /\ last' = last /\ queue' = Put(queue, s, e)
    BY DEF TypeOK, Emit
  <2>2. SUFFICES ASSUME t \notin {"refused", "rejected"}
                 PROVE  EndFollowsOutcome(<<last[s]>> \o queue'[s])
    BY <1>3, <2>1 DEF StreamInv, Heard
  <2>3. EndFollowsOutcome(<<last[s]>> \o queue[s])
    BY <1>1, <1>3, <2>2 DEF StreamInv, Heard
  <2>4. queue \in [Streams -> Seq(Events \cup {End})]
        /\ last[s] \in Events \cup {Silence}
    BY DEF TypeOK
  <2> QED
    BY <1>3, <2>1, <2>3, <2>4, PutEvents
<1> QED
  BY <1>2, <1>3

\* One turn that ends a run: the outcome to its own client, then the None to
\* the session's, which is the same or waits for nothing.
LEMMA FinishStreams ==
  ASSUME TypeOK, OutcomeIsPut, NEW s \in Streams, NEW e \in Seq(Events),
         e # <<>>, e[Len(e)] \in Outcomes,
         EmitAndFinish(s, e), UNCHANGED <<client, last>>,
         task' = [task EXCEPT ![s] = "closing"],
         task[s] \in {"started", "running"},
         \/ session.events = s
         \/ task[session.events] \in {"refused", "rejected"}
  PROVE  OutcomeIsPut'
<1> SUFFICES ASSUME NEW u \in Streams, client[u] = "open",
                    task'[u] \notin {"refused", "rejected"}
             PROVE  StreamInv(u)'
  BY ByStream DEF StreamInv
<1> DEFINE q == Put(queue, s, e)
<1>1. StreamInv(u) /\ session.events \in Streams
  BY ByStream DEF TypeOK
<1>2. q \in [Streams -> Seq(Events \cup {End})]
      /\ queue \in [Streams -> Seq(Events \cup {End})]
      /\ queue' = Put(q, session.events, <<End>>)
  <2>1. e \in Seq(Events \cup {End})
    OBVIOUS
  <2> QED
    BY <2>1, PutType DEF TypeOK, EmitAndFinish
<1>3. CASE u # s
  <2>1. u # session.events
    BY <1>3 DEF TypeOK
  <2>2. q[u] = queue[u]
    BY <1>2, <1>3 DEF Put
  <2>3. queue'[u] = q[u]
    BY <1>1, <1>2, <2>1 DEF Put
  <2> QED
    BY <1>1, <1>3, <2>2, <2>3, OtherStream DEF TypeOK
<1>4. CASE u = s
  <2>1. EndFollowsOutcome(<<last[s]>> \o queue[s])
        /\ last[s] \in Events \cup {Silence}
    BY <1>1, <1>4 DEF StreamInv, Heard, TypeOK
  <2>2. Over(<<last[s]>> \o q[s])
    BY <1>2, <1>4, <2>1, PutEvents
  <2>3. Over(<<last[s]>> \o queue'[s])
    <3>1. CASE session.events = s
      BY <1>2, <1>4, <2>1, <2>2, <3>1, PutEnd
    <3>2. CASE session.events # s
      BY <1>1, <1>2, <2>2, <3>2 DEF Put
    <3> QED
      BY <3>1, <3>2
  <2> QED
    BY <1>4, <2>3 DEF StreamInv, Heard, Over
<1> QED
  BY <1>3, <1>4

\* A turn of a task whose run is over puts its None; if the run was refused,
\* or another outcome comes with the None, that is no matter.
LEMMA CloseStreams ==
  ASSUME TypeOK, OutcomeIsPut, NEW s \in Streams, CloseTask(s) \/ RejectTask(s)
  PROVE  OutcomeIsPut'
<1> SUFFICES ASSUME NEW u \in Streams, client'[u] = "open",
                    task'[u] \notin {"refused", "rejected"}
             PROVE  StreamInv(u)'
  BY ByStream DEF StreamInv
<1>1. /\ UNCHANGED <<client, last>> /\ StreamInv(u)
      /\ queue \in [Streams -> Seq(Events \cup {End})]
      /\ last[u] \in Events \cup {Silence}
  BY ByStream DEF CloseTask, RejectTask, TypeOK
<1>2. CASE u # s
  <2>1. task'[u] = task[u]
    BY <1>2 DEF CloseTask, RejectTask, TypeOK
  <2>2. queue'[u] = queue[u]
    BY <1>1, <1>2 DEF CloseTask, RejectTask, Emit, Put
  <2> QED
    BY <1>1, <2>1, <2>2, OtherStream
<1>3. CASE u = s
  <2>1. CloseTask(s) /\ task[s] = "closing" /\ task'[s] = "finished"
    BY <1>3 DEF CloseTask, RejectTask, TypeOK
  <2>2. Over(<<last[s]>> \o queue[s])
    BY <1>1, <1>3, <2>1 DEF StreamInv, Heard
  <2>3. CASE Emit(s, <<End>>)
    BY <1>1, <1>3, <2>1, <2>2, <2>3, PutEnd DEF StreamInv, Heard, Emit, Over
  <2>4. CASE Emit(s, <<"ERROR", "DONE", End>>)
    <3> DEFINE q == Put(queue, s, <<"ERROR", "DONE">>)
               e == <<"ERROR", "DONE">>
    <3>1. /\ e \in Seq(Events) /\ e # <<>> /\ e[Len(e)] \in Outcomes
          /\ EndFollowsOutcome(<<last[s]>> \o queue[s])
      BY <2>2 DEF Events, Outcomes, Over
    <3>2. Over(<<last[s]>> \o q[s])
      BY <1>1, <1>3, <3>1, PutEvents
    <3>3. q \in [Streams -> Seq(Events \cup {End})]
      BY <1>1, EventSeqs, PutType
    <3> HIDE DEF q
    <3>4. Over(<<last[s]>> \o Put(q, s, <<End>>)[s])
      BY <1>1, <1>3, <3>2, <3>3, PutEnd
    <3>5. queue'[s] = Put(q, s, <<End>>)[s]
      BY <1>1, <1>3, <2>4, PutFailure DEF Emit, q
    <3> QED
      BY <1>1, <1>3, <2>1, <3>4, <3>5 DEF StreamInv, Heard, Over
  <2> QED
    BY <2>1, <2>3, <2>4 DEF CloseTask
<1> QED
  BY <1>2, <1>3

\* The client of a stream takes the next event.
LEMMA ConsumeStreams ==
  ASSUME TypeOK, OutcomeIsPut, EndIsReported, NEW s \in Streams, Consume(s)
  PROVE  OutcomeIsPut' /\ EndIsReported'
<1>1. /\ task' = task /\ queue[s] # <<>> /\ client[s] = "open"
      /\ queue[s] \in Seq(Events \cup {End}) /\ last[s] \in Events \cup {Silence}
      /\ queue' = [queue EXCEPT ![s] = Tail(@)]
      /\ queue'[s] = Tail(queue[s])
  BY DEF Consume, TypeOK
<1> DEFINE h == Heard(s)
<1>2. /\ h \in Seq(Hearable) /\ Len(h) = Len(queue[s]) + 1
      /\ Len(queue[s]) \in Nat \ {0} /\ h[1] = last[s] /\ h[2] = Head(queue[s])
  <2>1. Len(queue[s]) \in Nat \ {0} /\ Head(queue[s]) = queue[s][1]
    BY <1>1
  <2>2. /\ h \in Seq(Hearable) /\ Len(h) = Len(queue[s]) + 1 /\ h[1] = last[s]
        /\ \A i \in 1..Len(queue[s]) : h[i + 1] = queue[s][i]
    BY <1>1, HeardFacts DEF Heard
  <2> HIDE DEF h
  <2>3. 1 \in 1..Len(queue[s]) /\ 1 + 1 = 2
    BY <2>1
  <2>4. h[2] = queue[s][1]
    BY <2>2, <2>3
  <2> QED
    BY <2>1, <2>2, <2>4
<1>3. task[s] \notin {"refused", "rejected"} =>
        EndFollowsOutcome(h) /\ (task[s] = "closing" => Over(h))
  BY <1>1, ByStream DEF StreamInv
<1>4. ASSUME NEW u \in Streams, u # s
      PROVE  /\ StreamInv(u)'
             /\ client'[u] = client[u] /\ last'[u] = last[u]
  BY <1>1, <1>4, ByStream, OtherStream DEF Consume, TypeOK
<1>5. CASE Head(queue[s]) = End
  <2>1. client' = [client EXCEPT ![s] = "closed"] /\ last' = last
    BY <1>5 DEF Consume
  <2>2. client'[s] = "closed"
    BY <2>1 DEF TypeOK
  <2>3. task[s] \notin {"refused", "rejected"} => last[s] \in Outcomes
    BY <1>2, <1>3, <1>5 DEF EndFollowsOutcome
  <2>4. OutcomeIsPut'
    BY <1>4, <2>2, ByStream DEF StreamInv
  <2>5. EndIsReported'
    BY <1>1, <1>4, <2>1, <2>3 DEF EndIsReported, Outcomes
  <2> QED
    BY <2>4, <2>5
<1>6. CASE Head(queue[s]) # End
  <2>1. client' = client /\ last' = [last EXCEPT ![s] = Head(queue[s])]
    BY <1>6 DEF Consume
  <2>2. last'[s] = Head(queue[s]) /\ Head(queue[s]) \in Hearable
    BY <1>1, <2>1 DEF TypeOK, Hearable
  <2> DEFINE g == Heard(s)'
  <2>3. g = <<Head(queue[s])>> \o Tail(queue[s])
    BY <1>1, <2>2 DEF Heard
  <2>4. Len(g) = Len(h) - 1 /\ \A i \in 1..Len(g) : g[i] = h[i + 1]
    BY <1>1, <2>3, HeardFacts, HeardTail DEF Heard
  <2> HIDE DEF g, h
  <2>5. EndFollowsOutcome(h) => EndFollowsOutcome(g)
    <3> SUFFICES ASSUME EndFollowsOutcome(h), NEW i \in 2..Len(g), g[i] = End
                 PROVE  i = Len(g) /\ g[i - 1] \in Outcomes
      BY DEF EndFollowsOutcome
    <3>1. i + 1 \in 2..Len(h) /\ h[i + 1] = End /\ g[i - 1] = h[i]
      BY <1>2, <2>4
    <3> QED
      BY <1>2, <2>4, <3>1 DEF EndFollowsOutcome
  <2>6. g[Len(g)] = h[Len(h)]
    <3>1. Len(g) \in 1..Len(g) /\ Len(g) + 1 = Len(h)
      BY <1>2, <2>4
    <3> QED
      BY <2>4, <3>1
  <2>7. StreamInv(s)'
    BY <1>1, <1>3, <2>1, <2>5, <2>6 DEF StreamInv, Over, g
  <2>8. OutcomeIsPut'
    BY <1>4, <2>7, ByStream
  <2>9. EndIsReported'
    BY <1>1, <1>4, <2>1 DEF EndIsReported
  <2> QED
    BY <2>8, <2>9
<1> QED
  BY <1>5, <1>6

\* Whose queue the session's events go to.
LEMMA StepEventsAwaited ==
  ASSUME IInv, EventsAwaited, [Next]_vars PROVE EventsAwaited'
<1> USE DEF IInv, TypeOK, EventsAwaited
<1>1. CASE AskStream
  BY <1>1, SizesAssumption DEF AskStream, Streams
<1>2. CASE AskStop
  BY <1>2 DEF AskStop
<1>3. ASSUME NEW s \in Streams, AskResume(s) PROVE EventsAwaited'
  BY <1>3 DEF AskResume
<1>4. ASSUME NEW s \in Streams, RunStart(s) PROVE EventsAwaited'
  <2>1. session.events \in Streams /\ session'.events = session.events
    BY <1>4 DEF RunStart
  <2>2. task[session.events] \in
          {"created", "started", "running", "refused", "rejected"}
    BY <1>4 DEF RunStart
  <2>3. \/ task' = [task EXCEPT ![s] = "started"]
        \/ task' = [task EXCEPT ![s] = "refused"]
    BY <1>4 DEF RunStart
  <2> QED
    BY <2>1, <2>2, <2>3
<1>5. ASSUME NEW s \in Streams, CloseTask(s) \/ RejectTask(s)
      PROVE  EventsAwaited'
  BY <1>5 DEF CloseTask, RejectTask
<1>6. ASSUME NEW s \in Runners, NoneCreated, session'.events = session.events,
             \/ task' = [task EXCEPT ![s] = "running"]
             \/ task' = [task EXCEPT ![s] = "closing"]
      PROVE  EventsAwaited'
  BY <1>6 DEF NoneCreated, Runners, SingleRunner
<1>7. ASSUME NEW s \in Streams,
             FirstSnapshot(s) \/ SuperStep(s) \/ RunEnd(s) \/ RunFail(s)
      PROVE  EventsAwaited'
  <2>1. s \in Runners /\ NoneCreated
    BY <1>7 DEF FirstSnapshot, SuperStep, RunEnd, RunFail, Runners
  <2>2. /\ session'.events = session.events
        /\ \/ task' = [task EXCEPT ![s] = "running"]
           \/ task' = [task EXCEPT ![s] = "closing"]
    BY <1>7 DEF FirstSnapshot, SuperStep, RunEnd, RunFail, HandleSnapshot
  <2> QED
    BY <1>6, <2>1, <2>2
<1>8. ASSUME NEW s \in Streams, Consume(s) \/ Disconnect(s)
      PROVE  EventsAwaited'
  BY <1>8 DEF Consume, Disconnect
<1>9. CASE UNCHANGED vars
  BY <1>9 DEF vars
<1> QED
  BY <1>1, <1>2, <1>3, <1>4, <1>5, <1>7, <1>8, <1>9 DEF Next, TaskTurn

\* The run that ends is the one whose events the session has, unless their
\* owner was refused.
LEMMA EventsOfRunner ==
  ASSUME IInv, EventsAwaited, NEW s \in Runners, NoneCreated
  PROVE  session.events = s \/ task[session.events] \in {"refused", "rejected"}
BY DEF IInv, TypeOK, EventsAwaited, NoneCreated, Runners, SingleRunner

\* What the turns of a runner emit.
LEMMA RunnerEvents ==
  /\ \A e \in {<<"DONE">>, <<"ERROR", "DONE">>} :
       e \in Seq(Events) /\ e # <<>> /\ e[Len(e)] \in Outcomes
  /\ \A k : LET e == Snapshot(k) \o <<"PAUSED">> IN
       /\ Snapshot(k) \in Seq(Events) /\ e \in Seq(Events)
       /\ e # <<>> /\ e[Len(e)] \in Outcomes
<1>1. /\ <<"DONE">> \in Seq(Events) /\ <<"PAUSED">> \in Seq(Events)
      /\ <<"SNAPSHOT">> \in Seq(Events)
  BY DEF Events
<1>2. <<"ERROR", "DONE">> \in Seq(Events)
  BY DEF Events
<1>3. <<"SNAPSHOT", "DONE">> \in Seq(Events)
  BY DEF Events
<1>4. ASSUME NEW e \in {<<"DONE">>, <<"ERROR", "DONE">>}
      PROVE  e # <<>> /\ e[Len(e)] \in Outcomes
  BY DEF Outcomes
<1>5. ASSUME NEW k
      PROVE  LET e == Snapshot(k) \o <<"PAUSED">> IN
             /\ Snapshot(k) \in Seq(Events) /\ e \in Seq(Events)
             /\ e # <<>> /\ e[Len(e)] \in Outcomes
  <2>1. Snapshot(k) \in Seq(Events)
    BY <1>1, <1>3 DEF Snapshot
  <2> HIDE DEF Snapshot
  <2>2. (Snapshot(k) \o <<"PAUSED">>)[Len(Snapshot(k) \o <<"PAUSED">>)] = "PAUSED"
    BY <2>1
  <2> QED
    BY <1>1, <2>1, <2>2 DEF Outcomes
<1> QED
  BY <1>1, <1>2, <1>4, <1>5

LEMMA RunnerStreams ==
  ASSUME IInv, EndInv, NEW s \in Streams,
         FirstSnapshot(s) \/ SuperStep(s) \/ RunEnd(s) \/ RunFail(s)
  PROVE  OutcomeIsPut'
<1>1. TypeOK /\ OutcomeIsPut
  BY DEF IInv, EndInv
<1>2. /\ task[s] \in {"started", "running"} /\ UNCHANGED <<client, last>>
      /\ session.events = s \/ task[session.events] \in {"refused", "rejected"}
  BY EventsOfRunner
     DEF FirstSnapshot, SuperStep, RunEnd, RunFail, Runners, EndInv
<1>3. ASSUME NEW k, HandleSnapshot(s, k) PROVE OutcomeIsPut'
  <2> DEFINE e == Snapshot(k) \o <<"PAUSED">>
  <2>1. CASE session.cancelled
    <3>1. e \in Seq(Events) /\ e # <<>> /\ e[Len(e)] \in Outcomes
      BY RunnerEvents
    <3>2. EmitAndFinish(s, e) /\ task' = [task EXCEPT ![s] = "closing"]
      BY <1>3, <2>1 DEF HandleSnapshot
    <3> HIDE DEF e
    <3> QED
      BY <1>1, <1>2, <3>1, <3>2, FinishStreams
  <2>2. CASE ~session.cancelled
    <3>1. Snapshot(k) \in Seq(Events)
      BY RunnerEvents
    <3>2. Emit(s, Snapshot(k)) /\ task' = [task EXCEPT ![s] = "running"]
      BY <1>3, <2>2 DEF HandleSnapshot
    <3>3. task[s] \notin {"refused", "rejected"} /\ "running" \notin {"closing"}
      BY <1>2
    <3> QED
      BY <1>1, <1>2, <3>1, <3>2, <3>3, EmitStreams
  <2> QED
    BY <2>1, <2>2
<1>4. CASE FirstSnapshot(s) \/ SuperStep(s)
  BY <1>3, <1>4 DEF FirstSnapshot, SuperStep
<1>5. ASSUME NEW e \in {<<"DONE">>, <<"ERROR", "DONE">>}, EmitAndFinish(s, e),
             task' = [task EXCEPT ![s] = "closing"]
      PROVE  OutcomeIsPut'
  <2>1. e \in Seq(Events) /\ e # <<>> /\ e[Len(e)] \in Outcomes
    BY <1>5, RunnerEvents
  <2> QED
    BY <1>1, <1>2, <1>5, <2>1, FinishStreams
<1>6. CASE RunEnd(s)
  BY <1>5, <1>6 DEF RunEnd
<1>7. CASE RunFail(s)
  BY <1>5, <1>7 DEF RunFail
<1> QED
  BY <1>4, <1>6, <1>7

LEMMA StepOutcomeIsPut ==
  ASSUME IInv, EndInv, [Next]_vars PROVE OutcomeIsPut'
<1>1. TypeOK /\ OutcomeIsPut /\ EndIsReported /\ NothingBeforeOpen
  BY DEF IInv, EndInv
<1>2. ASSUME NEW s \in Streams, UNCHANGED <<queue, last>>,
             client' = [client EXCEPT ![s] = "open"],
             task' = [task EXCEPT ![s] = "created"], client[s] = "idle"
      PROVE  OutcomeIsPut'
  <2> SUFFICES ASSUME NEW u \in Streams PROVE StreamInv(u)'
    BY ByStream
  <2>1. CASE u # s
    BY <1>1, <1>2, <2>1, ByStream, OtherStream DEF TypeOK
  <2>2. CASE u = s
    <3>1. queue'[s] = <<>> /\ task'[s] = "created"
      BY <1>1, <1>2 DEF NothingBeforeOpen, TypeOK
    <3>2. Len(<<last'[s]>> \o <<>>) = 1
      OBVIOUS
    <3>3. EndFollowsOutcome(<<last'[s]>> \o <<>>)
      BY <3>2 DEF EndFollowsOutcome
    <3> QED
      BY <2>2, <3>1, <3>3 DEF StreamInv, Heard
  <2> QED
    BY <2>1, <2>2
<1>3. CASE AskStream
  <2>1. 1 \in Streams /\ client[1] = "idle"
    BY <1>1, <1>3, SizesAssumption
       DEF AskStream, Streams, IInv, NothingBeforeAsk, NothingBeforeOpen
  <2> QED
    BY <1>2, <1>3, <2>1 DEF AskStream
<1>4. ASSUME NEW s \in Streams, AskResume(s) PROVE OutcomeIsPut'
  BY <1>2, <1>4 DEF AskResume
<1>5. ASSUME NEW s \in Streams, RunStart(s) PROVE OutcomeIsPut'
  <2>1. /\ <<"STATUS">> \in Seq(Events) /\ task[s] = "created"
        /\ Emit(s, <<"STATUS">>) /\ UNCHANGED <<client, last>>
    BY <1>5 DEF RunStart, Events
  <2>2. \/ task' = [task EXCEPT ![s] = "started"]
        \/ task' = [task EXCEPT ![s] = "refused"]
    BY <1>5 DEF RunStart
  <2> QED
    BY <1>1, <2>1, <2>2, EmitStreams, ZenonT(30)
<1>6. ASSUME NEW s \in Streams,
             FirstSnapshot(s) \/ SuperStep(s) \/ RunEnd(s) \/ RunFail(s)
      PROVE  OutcomeIsPut'
  BY <1>6, RunnerStreams
<1>7. ASSUME NEW s \in Streams, CloseTask(s) \/ RejectTask(s)
      PROVE  OutcomeIsPut'
  BY <1>1, <1>7, CloseStreams
<1>8. ASSUME NEW s \in Streams, Consume(s) PROVE OutcomeIsPut'
  BY <1>1, <1>8, ConsumeStreams
<1>9. ASSUME NEW s \in Streams, Disconnect(s) PROVE OutcomeIsPut'
  <2> SUFFICES ASSUME NEW u \in Streams, client'[u] = "open"
               PROVE  StreamInv(u)'
    BY ByStream DEF StreamInv
  <2>1. u # s
    BY <1>1, <1>9 DEF Disconnect, TypeOK
  <2> QED
    BY <1>1, <1>9, <2>1, ByStream, OtherStream DEF Disconnect, TypeOK
<1>10. CASE AskStop \/ UNCHANGED vars
  BY <1>1, <1>10 DEF AskStop, vars, OutcomeIsPut, Heard
<1> QED
  BY <1>3, <1>4, <1>5, <1>6, <1>7, <1>8, <1>9, <1>10 DEF Next, TaskTurn

LEMMA StepReported ==
  ASSUME IInv, EndInv, [Next]_vars PROVE NothingBeforeOpen' /\ EndIsReported'
<1> USE DEF IInv, TypeOK
<1>1. /\ OutcomeIsPut /\ NothingBeforeOpen /\ EndIsReported
  BY DEF EndInv
<1>2. ASSUME NEW s \in Streams, client[s] = "idle", UNCHANGED <<queue, last>>,
             client' = [client EXCEPT ![s] = "open"],
             task' = [task EXCEPT ![s] = "created"]
      PROVE  NothingBeforeOpen' /\ EndIsReported'
  BY <1>1, <1>2 DEF NothingBeforeOpen, EndIsReported
<1>3. CASE AskStream
  <2>1. 1 \in Streams /\ client[1] = "idle"
    BY <1>1, <1>3, SizesAssumption
       DEF AskStream, Streams, NothingBeforeAsk, NothingBeforeOpen
  <2> QED
    BY <1>2, <1>3, <2>1 DEF AskStream
<1>4. ASSUME NEW s \in Streams, AskResume(s)
      PROVE  NothingBeforeOpen' /\ EndIsReported'
  BY <1>2, <1>4 DEF AskResume
<1>5. ASSUME NEW s \in Streams, NEW e \in Seq(Events \cup {End}),
             Emit(s, e) \/ EmitAndFinish(s, e)
      PROVE  \A u \in Streams : client[u] = "idle" => queue'[u] = <<>>
  <2>0. /\ queue \in [Streams -> Seq(Events \cup {End})]
        /\ \A u \in Streams : client[u] = "idle" => queue[u] = <<>>
    BY <1>1 DEF NothingBeforeOpen
  <2>1. Put(queue, s, e) \in [Streams -> Seq(Events \cup {End})]
    BY <2>0, PutType
  <2>2. \A u \in Streams : client[u] = "idle" => Put(queue, s, e)[u] = <<>>
    BY <2>0 DEF Put
  <2>3. session.events \in Streams
    OBVIOUS
  <2> DEFINE q == Put(queue, s, e)
  <2>4. /\ q \in [Streams -> Seq(Events \cup {End})]
        /\ \A u \in Streams : client[u] = "idle" => q[u] = <<>>
    BY <2>1, <2>2
  <2> HIDE DEF q
  <2>5. \A u \in Streams : client[u] = "idle" =>
          Put(q, session.events, <<End>>)[u] = <<>>
    BY <2>3, <2>4 DEF Put
  <2> QED
    BY <1>5, <2>2, <2>5 DEF Emit, EmitAndFinish, q
<1>6. ASSUME NEW s \in Streams, TaskTurn(s)
      PROVE  /\ \A u \in Streams : client[u] = "idle" => queue'[u] = <<>>
             /\ UNCHANGED <<client, last>>
  BY <1>5, <1>6, EventSeqs
     DEF TaskTurn, RunStart, FirstSnapshot, SuperStep, RunEnd, RunFail,
         CloseTask, RejectTask, HandleSnapshot
<1>7. ASSUME NEW s \in Streams, TaskTurn(s)
      PROVE  \E t \in TaskStates : /\ t # "idle" /\ task[s] # "idle"
                                   /\ task[s] \in {"refused", "rejected"} =>
                                        t \in {"refused", "rejected"}
                                   /\ task' = [task EXCEPT ![s] = t]
  BY <1>7
     DEF TaskTurn, RunStart, FirstSnapshot, SuperStep, RunEnd, RunFail,
         CloseTask, RejectTask, HandleSnapshot, TaskStates
<1>8. ASSUME NEW s \in Streams, TaskTurn(s)
      PROVE  NothingBeforeOpen' /\ EndIsReported'
  BY <1>1, <1>6, <1>7, <1>8 DEF NothingBeforeOpen, EndIsReported
<1>9. ASSUME NEW s \in Streams, Consume(s)
       PROVE  NothingBeforeOpen' /\ EndIsReported'
  <2>1. EndIsReported'
    BY <1>1, <1>9, ConsumeStreams
  <2>2. NothingBeforeOpen'
    BY <1>1, <1>9 DEF Consume, NothingBeforeOpen
  <2> QED
    BY <2>1, <2>2
<1>10. ASSUME NEW s \in Streams, Disconnect(s)
       PROVE  NothingBeforeOpen' /\ EndIsReported'
  BY <1>1, <1>10 DEF Disconnect, NothingBeforeOpen, EndIsReported
<1>11. CASE AskStop \/ UNCHANGED vars
  BY <1>1, <1>11 DEF AskStop, vars, NothingBeforeOpen, EndIsReported
<1> QED
  BY <1>3, <1>4, <1>8, <1>9, <1>10, <1>11 DEF Next

LEMMA InitEnd == Init => EndInv
<1> SUFFICES ASSUME Init PROVE EndInv
  OBVIOUS
<1> QED
  BY DEF Init, EndInv, EventsAwaited, OutcomeIsPut, NothingBeforeOpen,
         EndIsReported

LEMMA StepEnd == IInv /\ EndInv /\ [Next]_vars => EndInv'
<1> SUFFICES ASSUME IInv, EndInv, [Next]_vars PROVE EndInv'
  OBVIOUS
<1> QED
  BY StepEventsAwaited, StepOutcomeIsPut, StepReported DEF EndInv

\* However many resumes race for session.events: a client that is told that its
\* stream is over was told before how its run ended.
THEOREM EndsAreReported == Spec => []EndIsReported
<1>1. EndInv => EndIsReported
  BY DEF EndInv
<1> QED
  BY InitIInv, StepIInv, InitEnd, StepEnd, <1>1, PTL DEF Spec
=============================================================================
