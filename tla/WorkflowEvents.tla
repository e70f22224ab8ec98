--------------------------- MODULE WorkflowEvents ---------------------------
(***************************************************************************)
(* What the user is shown of a run: the stream_events key of GraphState.   *)
(* Its reducer is "a + b", so what a node returns is appended; a node that *)
(* returns {**state} without events of its own appends the whole list to   *)
(* itself; and run_workflow sends the whole list after every super-step.   *)
(* Each action of Workflow is taken together with the events its node      *)
(* returns.                                                                *)
(***************************************************************************)
EXTENDS Workflow

VARIABLES
  deep_think,     \* from the request
  stream_events   \* how many events of each type the list holds, up to Many

shown == <<deep_think, stream_events>>
allVars == <<vars, shown>>

EventTypes == {"STATUS", "INTENT", "RAG_CHUNK", "THOUGHT", "SQL", "RESULT",
               "SUMMARY", "ERROR", "DONE"}

Many == 2      \* bound: twice or more often

Counted(n) == IF n < Many THEN n ELSE Many

Occurrences(events, t) == Cardinality({ i \in DOMAIN events : events[i] = t })

-----------------------------------------------------------------------------
\* The reducer.
Accumulate(events) ==
  stream_events' = [t \in EventTypes |-> Counted(stream_events[t] + Occurrences(events, t))]

Returns(events) ==
  Accumulate(events) /\ UNCHANGED deep_think

\* return {**state}: every event a second time
ReturnsState ==
  /\ stream_events' = [t \in EventTypes |-> Counted(2 * stream_events[t])]
  /\ UNCHANGED deep_think

EventsInit == /\ Init
              /\ deep_think \in BOOLEAN
              /\ stream_events = [t \in EventTypes |-> 0]

Thoughts == IF deep_think THEN <<"THOUGHT", "THOUGHT">> ELSE <<>>

GenerateReports ==
  /\ SqlGenerate
  /\ Returns(Thoughts \o
             CASE cannot_answer' -> <<"STATUS", "SUMMARY">>
               [] ~cannot_answer' /\ generated_sql' # EmptySql -> <<"SQL">>
               [] OTHER -> <<>>)

\* Mutant: a failed execution is only logged.
ExecuteReportsRows ==
  /\ ExecuteOrReturn
  /\ Returns(IF query_result' = "rows" THEN <<"RESULT">>
             ELSE IF ~sql_valid THEN <<"ERROR">> ELSE <<>>)

\* An invalid statement, rows, a failed execution; nothing when the mode or
\* the missing datasource keeps a valid statement from being executed.
ExecuteReports ==
  /\ ExecuteOrReturn
  /\ Returns(CASE query_result' = "rows" -> <<"RESULT">>
               [] ~sql_valid \/ (ShouldExecute /\ query_result' = "none")
                    -> <<"ERROR">>
               [] OTHER -> <<>>)

\* Mutant: the summarizer hands its state on, as it does for a direct reply.
SummaryReportsState == ResultSummarizer /\ ReturnsState

SummaryReports == ResultSummarizer /\ Returns(<<"SUMMARY">>)

EventsStep ==
  \/ LoadContext      /\ Returns(<<"STATUS">>)
  \/ IntentClassifier /\ Returns(<<"INTENT">>)
  \/ DirectReply      /\ Returns(<<"SUMMARY">>)
  \/ RagRouter        /\ ReturnsState
  \/ HybridRetrieve   /\ Returns(<<"RAG_CHUNK">>)
  \/ RetrievalJudge   /\ ReturnsState
  \/ QueryExpander    /\ Returns(<<"STATUS">>)
  \/ DirectLlm        /\ Returns(<<"SUMMARY">>)
  \/ GenerateReports
  \/ SqlSafety        /\ Returns(<<"STATUS">>)
  \/ ExecuteReports
  \/ SummaryReports
  \/ Finalize         /\ Returns(<<"DONE">>)
  \/ NodeRaises       /\ UNCHANGED shown

EventsNext == \/ EventsStep
              \/ UpdateTable /\ UNCHANGED shown

\* Workflow's fairness: a node's events come with its step.
EventsSpec == EventsInit /\ [][EventsNext]_allVars /\ WF_allVars(EventsStep)

-----------------------------------------------------------------------------
(* What must hold. *)

\* The list of a finished run tells one story: one SUMMARY, one DONE, rows
\* exactly if the run has rows, and never rows beside an error.  Doublings by
\* rag_router and retrieval_judge come before any of these.  No other list
\* holds a DONE.
OutcomeToldOnce ==
  /\ stream_events["DONE"] = (IF pc = "END" THEN 1 ELSE 0)
  /\ pc = "END" =>
       /\ stream_events["SUMMARY"] = 1
       /\ stream_events["RESULT"] = (IF query_result = "rows" THEN 1 ELSE 0)
       /\ stream_events["RESULT"] + stream_events["ERROR"] <= 1

\* A question that ended without rows although a statement was generated for
\* it and the mode asked for execution is answered with an ERROR, unless the
\* datasource has no row (and so no URL): then nothing is said.
SilenceExplained ==
  pc = "END" /\ stream_events["SQL"] > 0 /\ query_result = "none" =>
    \/ stream_events["ERROR"] > 0
    \/ execution_mode = "GENERATE_ONLY"
    \/ ~connection_url
    \/ cannot_answer

-----------------------------------------------------------------------------
(* What the proofs need besides: the same before a run has ended. *)

EventsTypeOK ==
  deep_think \in BOOLEAN /\ stream_events \in [EventTypes -> 0..Many]

\* One SUMMARY is told on the way to finalize, whichever way that is.
SummaryInv ==
  /\ pc \in BeforeExecution \cup {"result_summarizer"} =>
       stream_events["SUMMARY"] = 0
  /\ pc \in {"finalize", "END"} => stream_events["SUMMARY"] = 1

\* execute_or_return alone tells of rows or of an error.
ExecutionToldInv ==
  /\ pc \in BeforeExecution => stream_events["ERROR"] = 0
  /\ stream_events["RESULT"] = (IF query_result = "rows" THEN 1 ELSE 0)
  /\ stream_events["RESULT"] + stream_events["ERROR"] <= 1

SilenceInv ==
  /\ pc \in BeforeGeneration => stream_events["SQL"] = 0
  /\ (pc \in {"result_summarizer", "finalize", "END"}
        /\ stream_events["SQL"] > 0 /\ query_result = "none") =>
       \/ stream_events["ERROR"] > 0
       \/ execution_mode = "GENERATE_ONLY"
       \/ ~connection_url
       \/ cannot_answer

EventsInv == /\ EventsTypeOK /\ SummaryInv /\ ExecutionToldInv /\ SilenceInv
             /\ stream_events["DONE"] = (IF pc = "END" THEN 1 ELSE 0)
=============================================================================
