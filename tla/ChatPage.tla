------------------------------ MODULE ChatPage ------------------------------
(***************************************************************************)
(* The chat page: apps/web/app/page.tsx and lib/sse.ts, over the sessions  *)
(* of the API.  The user sends questions, stops them and resumes what was  *)
(* stopped; requests, events and the answers to a stop are on their way    *)
(* for any time and may be lost.  A handler of the page runs from one      *)
(* await to the next without interruption, and so does the "finally" of a  *)
(* stream that was aborted: both are one action.  The server's side of a   *)
(* session is taken from AskLifecycle, which AskSession implements.        *)
(***************************************************************************)
EXTENDS Naturals, Sequences

CONSTANTS MaxAsks,       \* bound: questions that are asked
          MaxRequests,   \* bound: questions and resumes that are sent
          MaxPresses     \* bound: uses of the stop button

ASSUME ChatPageAssumption == MaxAsks \in Nat \ {0} /\ MaxRequests \in Nat /\ MaxPresses \in Nat

Sessions == 1..MaxAsks
Requests == 1..MaxRequests
Presses == 1..MaxPresses
None == 0

VARIABLES
  page,     \* the state of HomePage and its refs
  request,  \* POST /ask/stream and /ask/resume, and the stream that answers
  press,    \* calls of handleStop that wait for POST /ask/stop
  server,   \* _sessions, as far as AskLifecycle tells its states apart
  exposed,  \* whether the page may read X-Session-Id: only on the API's origin
  blame     \* history: session -> what has gone wrong around its requests

vars == <<page, request, press, server, exposed, blame>>

Events == {"STATUS", "PAUSED", "ERROR", "DONE", "end"}
RequestStates == {"idle", "sent", "cut", "open", "refused", "closed"}
Phases == {"new", "running", "stopping", "paused", "done", "error"}

\* early: stop pressed before the STATUS of the stream; crossed: the answer to
\* a stop met another stream; late: a stop found the session not running, or
\* its run ended all the same; lost: a connection broke.
Causes == {"early", "crossed", "late", "lost"}

Live == {"sent", "open", "refused"}     \* askStream or resumeStream is awaited

-----------------------------------------------------------------------------
Init ==
  /\ page = [loading |-> FALSE, current |-> None, active |-> None,
             offer |-> None, asked |-> None, assistant |-> FALSE]
  /\ request = [r \in Requests |-> [state |-> "idle", session |-> None,
                                    resumes |-> FALSE, hadOffer |-> FALSE,
                                    begun |-> FALSE, queue |-> <<>>]]
  /\ press = [p \in Presses |-> [state |-> "idle", session |-> None, stream |-> None]]
  /\ server = [n \in Sessions |-> [phase |-> "new", step |-> 0,
                                   first |-> FALSE, stream |-> None]]
  /\ exposed \in BOOLEAN
  /\ blame = [n \in Sessions |-> {}]

Blamed(cause, ns) ==
  [n \in Sessions |-> IF n \in ns THEN blame[n] \cup {cause} ELSE blame[n]]

\* The AbortController of the page's stream: the browser closes the connection
\* and nothing more is received.  A request on its way may still arrive.
Aborted ==
  [r \in Requests |->
     IF r # page.current THEN request[r]
     ELSE CASE request[r].state = "sent" -> [request[r] EXCEPT !.state = "cut"]
            [] request[r].state \in {"open", "refused"} ->
                 [request[r] EXCEPT !.state = "closed", !.queue = <<>>]
            [] OTHER -> request[r]]

\* handleSubmit's finally: pausedSession is the one of the render in which the
\* request was submitted.
Finally(r, pg) ==
  [pg EXCEPT !.loading = FALSE,
             !.assistant = @ /\ request[r].hadOffer]

-----------------------------------------------------------------------------
(* What the user does. *)

Submit(r, n, resumes) ==
  /\ ~page.loading
  /\ request[r].state = "idle" /\ \A q \in 1..(r - 1) : request[q].state # "idle"
  /\ request' = [Aborted EXCEPT ![r] = [state |-> "sent", session |-> n,
                                        resumes |-> resumes,
                                        hadOffer |-> page.offer # None,
                                        begun |-> FALSE, queue |-> <<>>]]
  /\ UNCHANGED <<press, server, exposed, blame>>

\* Mutant: pausedSession outlives a new question.
SubmitNewKeepsOffer(r) ==
  /\ page.asked < MaxAsks
  /\ Submit(r, page.asked + 1, FALSE)
  /\ page' = [page EXCEPT !.loading = TRUE, !.current = r,
                          !.asked = @ + 1, !.assistant = TRUE]

\* handleSubmit of a text that is not the paused question's.
SubmitNew(r) ==
  /\ page.asked < MaxAsks
  /\ Submit(r, page.asked + 1, FALSE)
  /\ page' = [page EXCEPT !.loading = TRUE, !.current = r, !.offer = None,
                          !.asked = @ + 1, !.assistant = TRUE]

\* handleSubmit of the paused question.
SubmitResume(r) ==
  /\ page.offer # None
  /\ Submit(r, page.offer, TRUE)
  /\ page' = [page EXCEPT !.loading = TRUE, !.current = r, !.assistant = TRUE]

\* handleStop after its await: the page's stream, whichever it is by now, is
\* aborted and what was stopped is offered for resumption.
Stopped(n) ==
  LET offered == [page EXCEPT !.loading = FALSE,
                    !.offer = IF n # None /\ page.assistant THEN n ELSE @]
  IN /\ request' = Aborted
     /\ page' = IF request[page.current].state \in Live
                THEN Finally(page.current, offered) ELSE offered

\* The sessions that a stop of n while stream r is read has to do with.
Concerned(n, r) == {n, request[r].session} \ {None}

\* Mutant: the stop button just aborts the stream.
PressStopAborts(p) ==
  /\ page.loading /\ press[p].state = "idle"
  /\ Stopped(page.active)
  /\ press' = [press EXCEPT ![p] = [state |-> "back", session |-> page.active,
                                    stream |-> page.current]]
  /\ blame' = IF request[page.current].begun THEN blame
              ELSE Blamed("early", Concerned(page.active, page.current))
  /\ UNCHANGED <<server, exposed>>

\* handleStop up to its await; without a session id there is nothing to await.
PressStop(p) ==
  /\ page.loading /\ press[p].state = "idle"
  /\ blame' = IF request[page.current].begun THEN blame
              ELSE Blamed("early", Concerned(page.active, page.current))
  /\ \/ /\ page.active # None
        /\ press' = [press EXCEPT ![p] = [state |-> "sent", session |-> page.active,
                                          stream |-> page.current]]
        /\ UNCHANGED <<page, request>>
     \/ /\ page.active = None
        /\ press' = [press EXCEPT ![p].state = "back"]
        /\ Stopped(None)
  /\ UNCHANGED <<server, exposed>>

\* stopStream returns or throws.
StopReturns(p) ==
  /\ press[p].state = "answered"
  /\ press' = [press EXCEPT ![p] = [state |-> "back", session |-> None,
                                    stream |-> None]]
  /\ Stopped(press[p].session)
  /\ blame' = IF press[p].stream = page.current THEN blame
              ELSE Blamed("crossed", Concerned(press[p].session, page.current))
  /\ UNCHANGED <<server, exposed>>

-----------------------------------------------------------------------------
(* What the page receives: consumeSse and handleStreamEvent. *)

\* Mutant: DONE leaves pausedSession as it is.
HandleEventKeepingOffer(r, event) ==
  CASE event = "STATUS" -> [page EXCEPT !.active = request[r].session]
    [] event = "PAUSED" /\ page.active # None /\ page.assistant ->
         [page EXCEPT !.offer = page.active]
    [] event = "DONE" -> [page EXCEPT !.active = None]
    [] event = "end" ->
         Finally(r, [page EXCEPT !.active = IF exposed \/ request[r].resumes
                                            THEN request[r].session ELSE @])
    [] OTHER -> page

\* Mutant: PAUSED only stops the spinner.
HandleEventNoPause(r, event) ==
  CASE event = "STATUS" -> [page EXCEPT !.active = request[r].session]
    [] event = "DONE" -> [page EXCEPT !.offer = None, !.active = None]
    [] event = "end" ->
         Finally(r, [page EXCEPT !.active = IF exposed \/ request[r].resumes
                                            THEN request[r].session ELSE @])
    [] OTHER -> page

\* At the end of the stream the page takes the session id of the result: for a
\* question the header's, if it may read it, for a resume its own.
HandleEvent(r, event) ==
  CASE event = "STATUS" -> [page EXCEPT !.active = request[r].session]
    [] event = "PAUSED" /\ page.active # None /\ page.assistant ->
         [page EXCEPT !.offer = page.active]
    [] event = "DONE" -> [page EXCEPT !.offer = None, !.active = None]
    [] event = "end" ->
         Finally(r, [page EXCEPT !.active = IF exposed \/ request[r].resumes
                                            THEN request[r].session ELSE @])
    [] OTHER -> page

Receive(r) ==
  /\ request[r].state = "open" /\ request[r].queue # <<>>
  /\ LET event == Head(request[r].queue)
     IN /\ page' = HandleEvent(r, event)
        /\ request' = [request EXCEPT ![r].queue = Tail(@), ![r].begun = TRUE,
                                      ![r].state = IF event = "end" THEN "closed" ELSE @]
  /\ UNCHANGED <<press, server, exposed, blame>>

\* 404: resumeStream throws.
ReceiveRefusal(r) ==
  /\ request[r].state = "refused"
  /\ page' = Finally(r, page)
  /\ request' = [request EXCEPT ![r].state = "closed"]
  /\ UNCHANGED <<press, server, exposed, blame>>

\* fetch or the reader throws.
ConnectionLost(r) ==
  /\ request[r].state \in Live
  /\ page' = Finally(r, page)
  /\ request' = [request EXCEPT ![r].state = IF @ = "sent" THEN "cut" ELSE "closed",
                                ![r].queue = <<>>]
  /\ blame' = Blamed("lost", {request[r].session})
  /\ UNCHANGED <<press, server, exposed>>

\* A stop that never arrives.
StopLost(p) ==
  /\ press[p].state = "sent"
  /\ press' = [press EXCEPT ![p].state = "answered"]
  /\ blame' = Blamed("lost", {press[p].session})
  /\ UNCHANGED <<page, request, server, exposed>>

-----------------------------------------------------------------------------
(* The API.  LastStep of AskLifecycle is 1: only the last step, which tells   *)
(* the page DONE before the run is over, differs from the others.             *)

\* A request that waits is answered with a stream, begun by STATUS.
Opened(r) ==
  [request EXCEPT ![r].state = IF @ = "sent" THEN "open" ELSE "closed",
                  ![r].queue = IF request[r].state = "sent" THEN <<"STATUS">> ELSE @]

Started(r) ==
  server' = [server EXCEPT ![request[r].session].phase = "running",
                           ![request[r].session].first = TRUE,
                           ![request[r].session].stream = r]

\* POST /ask/stream, and the first turn of its task.
AskStream(r) ==
  /\ request[r].state \in {"sent", "cut"} /\ ~request[r].resumes
  /\ request' = Opened(r)
  /\ Started(r)
  /\ UNCHANGED <<page, press, exposed, blame>>

\* POST /ask/resume, and the first turn of its task.
AskResume(r) ==
  /\ request[r].state \in {"sent", "cut"} /\ request[r].resumes
  /\ IF server[request[r].session].phase = "paused"
     THEN /\ request' = Opened(r)
          /\ Started(r)
     ELSE /\ request' = [request EXCEPT ![r].state = IF @ = "sent" THEN "refused"
                                                     ELSE "closed"]
          /\ UNCHANGED server
  /\ UNCHANGED <<page, press, exposed, blame>>

\* POST /ask/stop; the page treats a 404 like an answer.
AskStop(p) ==
  /\ press[p].state = "sent"
  /\ press' = [press EXCEPT ![p].state = "answered"]
  /\ IF server[press[p].session].phase = "running"
     THEN /\ server' = [server EXCEPT ![press[p].session].phase = "stopping"]
          /\ UNCHANGED blame
     ELSE /\ blame' = IF server[press[p].session].phase = "stopping" THEN blame
                      ELSE Blamed("late", {press[p].session})
          /\ UNCHANGED server
  /\ UNCHANGED <<page, request, exposed>>

\* Mutant: a stream whose run failed is not ended.
SendUnended(n, events) ==
  request' = LET r == server[n].stream
             IN IF request[r].state = "open"
                THEN [request EXCEPT ![r].queue = @ \o
                        SelectSeq(events, LAMBDA e : e # "end" \/ events[1] # "ERROR")]
                ELSE request

\* Events to the stream of the request that runs session n, if it is read.
Send(n, events) ==
  request' = LET r == server[n].stream
             IN IF request[r].state = "open"
                THEN [request EXCEPT ![r].queue = @ \o events] ELSE request

\* The snapshot a run begins with, or that of the next step; then cancelled.
Snapshot(n) ==
  LET s == server[n]
      reached == IF s.first THEN s.step ELSE s.step + 1
      told == IF reached = 1 THEN <<"DONE">> ELSE <<>>
      pauses == s.phase = "stopping"
  IN /\ s.phase \in {"running", "stopping"}
     /\ s.first \/ s.step = 0
     /\ server' = [server EXCEPT ![n] = [s EXCEPT !.step = reached, !.first = FALSE,
                                  !.phase = IF pauses THEN "paused" ELSE @]]
     /\ Send(n, told \o IF pauses THEN <<"PAUSED", "end">> ELSE <<>>)
     /\ UNCHANGED <<page, press, exposed, blame>>

\* The graph ends or raises.
RunEnds(n) ==
  /\ server[n].phase \in {"running", "stopping"}
  /\ \/ /\ ~server[n].first /\ server[n].step = 1
        /\ server' = [server EXCEPT ![n].phase = "done"]
        /\ Send(n, <<"DONE", "end">>)
     \/ /\ server' = [server EXCEPT ![n].phase = "error"]
        /\ Send(n, <<"ERROR", "DONE", "end">>)
  /\ blame' = IF server[n].phase = "stopping" THEN Blamed("late", {n}) ELSE blame
  /\ UNCHANGED <<page, press, exposed>>

-----------------------------------------------------------------------------
Handling(r) == AskStream(r) \/ AskResume(r)
Arriving(r) == Receive(r) \/ ReceiveRefusal(r)
Running(n) == Snapshot(n) \/ RunEnds(n)

Next == \/ \E r \in Requests : \/ SubmitNew(r) \/ SubmitResume(r)
                               \/ Handling(r) \/ Arriving(r) \/ ConnectionLost(r)
        \/ \E p \in Presses : PressStop(p) \/ AskStop(p) \/ StopLost(p) \/ StopReturns(p)
        \/ \E n \in Sessions : Running(n)

\* What is sent arrives or breaks, and a run goes on; the user owes nothing.
Fairness == /\ \A r \in Requests : WF_vars(Handling(r)) /\ WF_vars(Arriving(r))
            /\ \A p \in Presses : WF_vars(AskStop(p)) /\ WF_vars(StopReturns(p))
            /\ \A n \in Sessions : WF_vars(Running(n))

Spec == Init /\ [][Next]_vars /\ Fairness

-----------------------------------------------------------------------------
(* What must hold. *)

\* The type of every variable.
TypeOK ==
  /\ page \in [loading : BOOLEAN, current : Requests \cup {None},
               active : Sessions \cup {None}, offer : Sessions \cup {None},
               asked : Sessions \cup {None}, assistant : BOOLEAN]
  /\ request \in [Requests -> [state : RequestStates, session : Sessions \cup {None},
                               resumes : BOOLEAN, hadOffer : BOOLEAN,
                               begun : BOOLEAN, queue : Seq(Events)]]
  /\ press \in [Presses -> [state : {"idle", "sent", "answered", "back"},
                            session : Sessions \cup {None},
                            stream : Requests \cup {None}]]
  /\ server \in [Sessions -> [phase : Phases, step : 0..1, first : BOOLEAN,
                              stream : Requests \cup {None}]]
  /\ exposed \in BOOLEAN
  /\ blame \in [Sessions -> SUBSET Causes]

\* A question that has steps to run and that no stop has reached is one the page
\* reads, unless it was stopped too early for the page to know its session, the answer
\* to a stop aborted a stream that was opened since, or a connection broke.
UnattendedExplained ==
  \A n \in Sessions :
    server[n].phase = "running" /\ server[n].step = 0 =>
      \/ \E r \in Requests : request[r].session = n /\ request[r].state = "open"
      \/ blame[n] \cap {"early", "crossed", "lost"} # {}

\* What the page offers to resume is paused, or will be when the step in
\* progress ends, unless the stop came too late or something broke on the way.
OfferExplained ==
  page.offer # None /\ ~page.loading =>
    server[page.offer].phase \in {"stopping", "paused"} \/ blame[page.offer] # {}

\* A resume continues the question that the page shows, and events are written
\* into the answer of the question they belong to, unless a stop was pressed
\* before the stream's STATUS or was answered after the stream had changed.
ShownIsResumed ==
  \A n \in {page.offer, IF page.loading THEN request[page.current].session ELSE None} :
    n \in {None, page.asked} \/ blame[n] \cap {"early", "crossed"} # {}

\* A question that was paused on its way is offered when the page is idle again.
PausedIsOffered ==
  LET n == page.asked
  IN ~page.loading /\ n # None =>
       \/ page.offer = n
       \/ server[n].phase # "paused" \/ server[n].step = 1
       \/ blame[n] # {}

\* The page never waits for ever: the button is "send" again.
LoadingEnds == page.loading ~> ~page.loading

-----------------------------------------------------------------------------
(* What the proofs need besides. *)

\* Requests, and the questions they are about, are numbered as they are sent.
Numbered ==
  /\ \A r \in Requests : request[r].state = "idle" <=> r > page.current
  /\ \A r \in Requests : request[r].state # "idle" => request[r].session \in 1..page.asked
  /\ page.offer <= page.asked /\ page.active <= page.asked
  /\ page.current = None => page.asked = None
  /\ \A n \in Sessions : n > page.asked => server[n].phase = "new"
  /\ \A q, r \in Requests :
       /\ "idle" \notin {request[q].state, request[r].state}
       /\ request[q].session = request[r].session
       /\ ~request[q].resumes /\ ~request[r].resumes
       => q = r

\* The page awaits the last request that it sent, and none while it does not load.
OneStream ==
  /\ \A r \in Requests :
       request[r].state \in Live <=> page.loading /\ r = page.current
  /\ page.loading => page.assistant /\ page.current # None

\* What a session does, and for which request.
Streams ==
  /\ \A n \in Sessions :
       /\ server[n].stream = None <=> server[n].phase = "new"
       /\ server[n].stream # None =>
            /\ request[server[n].stream].session = n
            /\ request[server[n].stream].state \in {"open", "closed"}
  /\ \A r \in Requests :
       /\ request[r].state = "open" => server[request[r].session].phase # "new"
       /\ request[r].state = "refused" => request[r].resumes
       /\ request[r].state \in {"sent", "refused"} => ~request[r].begun
       /\ request[r].state \in {"sent", "cut"} /\ ~request[r].resumes =>
            server[request[r].session].phase = "new"
  /\ page.active # None => server[page.active].phase # "new"

\* DONE has been sent.
Passed(n) == server[n].step = 1 \/ server[n].phase \in {"done", "error"}

\* A stream begins with STATUS and closes with what the page goes by: DONE, or
\* PAUSED and the offer to resume.
Flows(r) ==
  LET q == request[r].queue  n == request[r].session
  IN /\ ~request[r].begun => q # <<>> /\ q[1] = "STATUS"
     /\ request[r].begun => \/ page.active = n
                            \/ page.active = None /\ page.offer = None /\ Passed(n)
     /\ \A k \in 1..Len(q) :
          /\ q[k] = "DONE" => Passed(n)
          /\ q[k] = "end" => /\ k = Len(q)
                             /\ server[n].stream = r =>
                                  server[n].phase \in {"paused", "done", "error"}
     /\ q # <<>> /\ q[Len(q)] = "end" =>
          IF Len(q) = 1
          THEN /\ request[r].begun /\ (page.active = None \/ page.offer = n)
               /\ page.offer # None => server[n].phase = "paused" \/ blame[n] # {}
          ELSE \/ q[Len(q) - 1] = "DONE"
               \/ /\ q[Len(q) - 1] = "PAUSED"
                  /\ server[n].phase = "paused" \/ blame[n] # {}

Queues == \A r \in Requests : request[r].state = "open" => Flows(r)

Broken == {"early", "crossed", "lost"}

\* A run whose stream nobody reads.
Unread ==
  /\ \A r \in Requests :
       request[r].state = "cut" => blame[request[r].session] \cap Broken # {}
  /\ \A n \in Sessions :
       server[n].phase = "running" /\ server[n].step = 0
         /\ request[server[n].stream].state = "closed" => blame[n] \cap Broken # {}

Explained(n) == server[n].phase \in {"stopping", "paused"} \/ blame[n] # {}

\* A stop is of the session whose stream the page reads, unless it was pressed
\* before STATUS or the page has gone on, and it has been heard.
Heard(p) ==
  LET n == press[p].session  m == request[page.current].session
  IN /\ n # None /\ n <= page.asked /\ press[p].stream \in 1..page.current
     /\ server[n].phase # "new"
     /\ press[p].stream = page.current =>
          /\ n # m \/ ~request[page.current].begun => "early" \in blame[n] \cap blame[m]
          /\ press[p].state = "answered" =>
               Explained(n) /\ (server[n].phase # "running" \/ blame[n] \cap Broken # {})

Pressed == \A p \in Presses : press[p].state \in {"sent", "answered"} => Heard(p)

\* The offer is of the question that was read last, and that is the question
\* that was asked last.
Offered ==
  LET m == request[page.current].session
  IN /\ page.offer # None =>
          /\ page.loading => page.offer = m
          /\ ~page.loading \/ request[page.current].state \in {"sent", "refused"} =>
               Explained(page.offer)
          /\ page.offer # page.asked =>
               blame[page.offer] \cap {"early", "crossed"} # {} /\ blame[page.asked] # {}
     /\ page.current # None =>
          /\ request[page.current].state \in {"sent", "refused"} /\ request[page.current].resumes =>
               page.offer = m
          /\ ~page.loading => page.offer = m \/ Passed(m) \/ blame[m] # {}
          /\ m # page.asked =>
               blame[m] \cap {"early", "crossed"} # {} /\ blame[page.asked] # {}

IInv ==
  /\ TypeOK /\ Numbered /\ OneStream /\ Streams /\ Queues /\ Unread /\ Pressed /\ Offered
=============================================================================
