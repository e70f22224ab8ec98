--------------------------- MODULE WorkflowProofs ---------------------------
(***************************************************************************)
(* What Workflow promises, for any set of tables and any limits: IInv is   *)
(* inductive, it implies the safety properties, and under it every         *)
(* super-step decreases the variant.  WorkflowEvents implements Workflow,  *)
(* so all of that holds of the runs with their events too, and what the    *)
(* events tell of a run follows from one invariant more.  The second half is *)
(* about the graph whose JOINs the prompt of a run recommends, for any     *)
(* number of tables.                                                       *)
(***************************************************************************)
EXTENDS WorkflowEvents, SchemaGraph, FiniteSetTheorems, TLAPS

\* A verdict read field by field.
LEMMA VerdictFields ==
  ASSUME NEW v, NEW e, NEW q, NEW r, r = [valid |-> v, errors |-> e, sql |-> q]
  PROVE  r.valid = v /\ r.errors = e /\ r.sql = q
OBVIOUS

\* SqlValidator.validate: what it calls valid is safe to run, and it always
\* returns a statement and complaints of the kinds the workflow knows.
LEMMA ValidateSound ==
  ASSUME NEW sql \in SqlTexts, NEW allowed \in SUBSET Tables
  PROVE  /\ Validate(sql, allowed).valid \in BOOLEAN
         /\ Validate(sql, allowed).errors \in SUBSET Complaints
         /\ Validate(sql, allowed).sql \in SqlTexts
         /\ Validate(sql, allowed).valid <=> Validate(sql, allowed).errors = {}
         /\ Validate(sql, allowed).valid => Safe(Validate(sql, allowed).sql, allowed)
<1>1. CASE sql.kind = "select"
  <2> DEFINE out == AppendLimit(sql)
             Record == [kind : Kinds, tables : SUBSET Tables,
                        limited : BOOLEAN, comment : BOOLEAN]
  <2>1. sql \in Record
    BY DEF SqlTexts
  <2>2. sql.tables \subseteq Tables
    BY <2>1
  <2>3. /\ out \in Record
        /\ out.kind = "select" /\ out.tables = sql.tables
        /\ out.comment = sql.comment
        /\ out.limited \/ out.comment
    BY <1>1, <2>1 DEF AppendLimit
  <2>4. out \in SqlTexts
    BY <2>1, <2>3 DEF SqlTexts
  <2>5. Validate(sql, allowed) = [valid |-> sql.tables \ allowed = {},
                                  errors |-> sql.tables \ allowed,
                                  sql |-> out]
    BY <1>1 DEF Validate
  <2>6. sql.tables \ allowed = {} => Safe(out, allowed)
    BY <2>2, <2>3 DEF Safe
  <2>7. sql.tables \ allowed \in SUBSET Complaints
    BY <2>2 DEF Complaints
  <2> DEFINE ok == sql.tables \ allowed = {}
  <2>8. /\ Validate(sql, allowed).valid = ok
        /\ Validate(sql, allowed).errors = sql.tables \ allowed
        /\ Validate(sql, allowed).sql = out
    BY <2>5, VerdictFields DEF ok, out
  <2>9. ok \in BOOLEAN
    OBVIOUS
  <2> HIDE DEF out
  <2> QED
    BY <2>4, <2>6, <2>7, <2>8, <2>9, Zenon
<1>2. CASE sql.kind # "select"
  <2>1. sql.kind \in {"empty", "unparsable", "multi", "other"}
    BY <1>2 DEF SqlTexts, Kinds
  <2>2. PICK c \in Complaints : Validate(sql, allowed) =
          [valid |-> FALSE, errors |-> {c}, sql |-> sql]
    <3>1. CASE sql.kind = "unparsable"
      BY <3>1, Zenon DEF Validate, Complaints
    <3>2. CASE sql.kind = "multi"
      BY <3>2 DEF Validate, Complaints
    <3>3. CASE sql.kind \in {"other", "empty"}
      BY <3>3 DEF Validate, Complaints
    <3> QED
      BY <2>1, <3>1, <3>2, <3>3
  <2> QED
    BY <2>2
<1> QED
  BY <1>1, <1>2

LEMMA EmptySqlType == EmptySql \in SqlTexts
BY DEF EmptySql, SqlTexts, Plain, Kinds

LEMMA InitIInv == Init => IInv
<1> SUFFICES ASSUME Init PROVE IInv
  OBVIOUS
<1> USE DEF Init
<1>1. TypeOK
  <2>1. executed \in Seq(SqlTexts)
    OBVIOUS
  <2>2. generated_sql \in SqlTexts
    BY EmptySqlType
  <2>3. loop_count \in 0..MaxRagLoops /\ sql_retry_count \in 0..MaxSqlRetries
    BY LimitsAssumption
  <2> QED
    BY <2>1, <2>2, <2>3, Zenon DEF TypeOK, Nodes, Intents
<1>2. CountersInv
  BY LimitsAssumption DEF CountersInv, Retries, BeforeGeneration
<1>3. FlagsInv /\ ValidMeansSafe
  BY DEF FlagsInv, ValidMeansSafe
<1>4. ExecutionInv
  BY DEF ExecutionInv
<1> QED
  BY <1>1, <1>2, <1>3, <1>4 DEF IInv

USE DEF IInv, CountersInv, Retries, FlagsInv, ExecutionInv, BeforeExecution,
        BeforeGeneration, request, vars

LEMMA StepIInv == IInv /\ [Next]_vars => IInv'
<1> SUFFICES ASSUME IInv, [Next]_vars PROVE IInv'
  OBVIOUS
<1>1. CASE LoadContext
  BY <1>1, LimitsAssumption
     DEF LoadContext, TypeOK, Nodes, ValidMeansSafe
<1>2. CASE IntentClassifier
  BY <1>2, LimitsAssumption
     DEF IntentClassifier, RouteAfterIntent, TypeOK, Nodes, Intents, ValidMeansSafe
<1>3. CASE DirectReply
  BY <1>3, LimitsAssumption DEF DirectReply, Pass, TypeOK, Nodes, ValidMeansSafe
<1>4. CASE RagRouter
  BY <1>4, LimitsAssumption
     DEF RagRouter, Pass, RouteAfterRagRouter, TypeOK, Nodes, ValidMeansSafe
<1>5. CASE HybridRetrieve
  BY <1>5, LimitsAssumption DEF HybridRetrieve, Pass, TypeOK, Nodes, ValidMeansSafe
<1>6. CASE RetrievalJudge
  BY <1>6, LimitsAssumption
     DEF RetrievalJudge, Pass, RouteAfterJudge, TypeOK, Nodes, ValidMeansSafe
<1>7. CASE QueryExpander
  BY <1>7, LimitsAssumption DEF QueryExpander, TypeOK, Nodes, ValidMeansSafe
<1>8. CASE DirectLlm
  BY <1>8, LimitsAssumption DEF DirectLlm, Pass, TypeOK, Nodes, ValidMeansSafe
<1>9. CASE SqlGenerate
  <2>1. TypeOK'
    <3>1. sql_retry_count' \in 0..MaxSqlRetries /\ generated_sql' \in SqlTexts
      BY <1>9, LimitsAssumption, EmptySqlType DEF SqlGenerate, TypeOK
    <3> QED
      BY <1>9, <3>1
         DEF SqlGenerate, RouteAfterSqlGenerate, TypeOK, Nodes
  <2>2. CountersInv'
    BY <1>9, LimitsAssumption DEF SqlGenerate, RouteAfterSqlGenerate, TypeOK
  <2>3. FlagsInv'
    BY <1>9 DEF SqlGenerate, RouteAfterSqlGenerate, TypeOK
  <2>4. ExecutionInv'
    BY <1>9 DEF SqlGenerate, RouteAfterSqlGenerate, TypeOK
  <2>5. ValidMeansSafe'
    BY <1>9 DEF SqlGenerate, ValidMeansSafe
  <2> QED
    BY <2>1, <2>2, <2>3, <2>4, <2>5
<1>10. CASE SqlSafety
  <2>1. /\ Validate(generated_sql, allowed_tables).valid \in BOOLEAN
        /\ Validate(generated_sql, allowed_tables).errors \in SUBSET Complaints
        /\ Validate(generated_sql, allowed_tables).sql \in SqlTexts
        /\ Validate(generated_sql, allowed_tables).valid
             <=> Validate(generated_sql, allowed_tables).errors = {}
        /\ Validate(generated_sql, allowed_tables).valid
             => Safe(Validate(generated_sql, allowed_tables).sql, allowed_tables)
    BY ValidateSound DEF TypeOK
  <2> QED
    BY <1>10, <2>1, LimitsAssumption
       DEF SqlSafety, RouteAfterSafety, TypeOK, Nodes, ValidMeansSafe
<1>11. CASE ExecuteOrReturn
  <2>1. TypeOK'
    <3>1. executed' \in Seq(SqlTexts)
      <4>1. executed' = executed \/ executed' = Append(executed, generated_sql)
        BY <1>11, Zenon DEF ExecuteOrReturn
      <4>2. executed \in Seq(SqlTexts) /\ generated_sql \in SqlTexts
        BY DEF TypeOK
      <4> HIDE DEF IInv
      <4> QED
        BY <4>1, <4>2
    <3> QED
      BY <1>11, <3>1 DEF ExecuteOrReturn, TypeOK, Nodes
  <2>2. CountersInv' /\ FlagsInv' /\ ValidMeansSafe'
    BY <1>11 DEF ExecuteOrReturn, TypeOK, ValidMeansSafe
  <2>3. ExecutionInv'
    BY <1>11 DEF ExecuteOrReturn, ShouldExecute, TypeOK
  <2> QED
    BY <2>1, <2>2, <2>3
<1>12. CASE ResultSummarizer
  BY <1>12, LimitsAssumption DEF ResultSummarizer, Pass, TypeOK, Nodes, ValidMeansSafe
<1>13. CASE Finalize
  BY <1>13, LimitsAssumption DEF Finalize, Pass, TypeOK, Nodes, ValidMeansSafe
<1>14. CASE NodeRaises
  BY <1>14, LimitsAssumption
     DEF NodeRaises, Raises, Pass, TypeOK, Nodes, ValidMeansSafe
<1>15. CASE UpdateTable
  BY <1>15, LimitsAssumption DEF UpdateTable, TypeOK, Nodes, ValidMeansSafe
<1>16. CASE UNCHANGED vars
  BY <1>16 DEF TypeOK, ValidMeansSafe
<1> QED
  BY <1>1, <1>2, <1>3, <1>4, <1>5, <1>6, <1>7, <1>8, <1>9, <1>10, <1>11,
     <1>12, <1>13, <1>14, <1>15, <1>16 DEF Next, NodeStep

\* What the invariant says about the datasource.
LEMMA IInvImplies ==
  IInv => /\ ExecutedSafely /\ ExecutedAtMostOnce /\ ResultIsOfShownSql
          /\ NothingRunsUnanswered
<1> SUFFICES ASSUME IInv
             PROVE  /\ ExecutedSafely /\ ExecutedAtMostOnce
                    /\ ResultIsOfShownSql /\ NothingRunsUnanswered
  OBVIOUS
<1>1. CASE executed = <<>>
  <2>1. query_result = "none" /\ Len(executed) = 0 /\ DOMAIN executed = {}
    BY <1>1
  <2> QED
    BY <1>1, <2>1 DEF ExecutedSafely, ExecutedAtMostOnce, ResultIsOfShownSql,
                      NothingRunsUnanswered
<1>2. CASE executed # <<>>
  <2>1. /\ executed = <<generated_sql>>
        /\ Safe(generated_sql, allowed_tables)
        /\ ~cannot_answer /\ connection_url /\ execution_mode # "GENERATE_ONLY"
    BY <1>2 DEF ValidMeansSafe
  <2>2. Len(executed) = 1 /\ \A i \in DOMAIN executed : executed[i] = generated_sql
    BY <2>1
  <2> QED
    BY <2>1, <2>2 DEF ExecutedSafely, ExecutedAtMostOnce, ResultIsOfShownSql,
                      NothingRunsUnanswered
<1> QED
  BY <1>1, <1>2

\* A run that is not over has steps left.
LEMMA VariantPositive == IInv /\ pc \in Nodes => Variant > 0
<1> SUFFICES ASSUME IInv, pc \in Nodes PROVE Variant > 0
  OBVIOUS
<1>1. /\ MaxRagLoops \in Nat /\ MaxSqlRetries \in Nat
      /\ loop_count \in 0..MaxRagLoops /\ sql_retry_count \in 0..MaxSqlRetries
  BY LimitsAssumption DEF TypeOK
<1>2. 2 * MaxSqlRetries + 3 * MaxRagLoops - 3 * loop_count \in Nat
  BY <1>1
<1>3. /\ Retries \in Nat
      /\ pc \in {"sql_generate", "sql_safety"} => Retries <= MaxSqlRetries
  <2>1. Retries \in Nat
    BY <1>1
  <2>2. pc \in {"sql_generate", "sql_safety"} => Retries <= MaxSqlRetries
    OBVIOUS
  <2> QED
    BY <2>1, <2>2
<1> HIDE DEF IInv, Retries
<1>4. CASE pc \in {"hybrid_retrieve", "retrieval_judge", "query_expander"}
  BY <1>1, <1>2, <1>4 DEF Variant
<1>5. CASE pc \in {"sql_generate", "sql_safety"}
  BY <1>1, <1>3, <1>5 DEF Variant
<1>6. CASE pc \in {"load_context", "intent_classifier", "rag_router",
                  "execute_or_return", "direct_reply", "direct_llm",
                  "result_summarizer", "finalize"}
  BY <1>1, <1>6 DEF Variant
<1> QED
  BY <1>4, <1>5, <1>6 DEF Nodes

\* No super-step leaves the variant as it was: the number of steps of a run is
\* bounded by its first value.
LEMMA StepDecreases ==
  IInv /\ [Next]_vars => (pc' # pc => Variant' < Variant /\ Variant' >= 0)
<1> SUFFICES ASSUME IInv, [Next]_vars, pc' # pc
             PROVE  Variant' < Variant /\ Variant' >= 0
  OBVIOUS
<1> USE LimitsAssumption DEF Variant, TypeOK
<1>1. CASE LoadContext
  BY <1>1 DEF LoadContext
<1>2. CASE IntentClassifier
  BY <1>2 DEF IntentClassifier, RouteAfterIntent
<1>3. CASE DirectReply
  BY <1>3 DEF DirectReply, Pass
<1>4. CASE RagRouter
  BY <1>4 DEF RagRouter, Pass, RouteAfterRagRouter
<1>5. CASE HybridRetrieve
  BY <1>5 DEF HybridRetrieve, Pass
<1>6. CASE RetrievalJudge
  BY <1>6 DEF RetrievalJudge, Pass, RouteAfterJudge
<1>7. CASE QueryExpander
  BY <1>7, SMTT(20) DEF QueryExpander
<1>8. CASE DirectLlm
  BY <1>8 DEF DirectLlm, Pass
<1>9. CASE SqlGenerate
  BY <1>9 DEF SqlGenerate, RouteAfterSqlGenerate
<1>10. CASE SqlSafety
  <2>1. /\ Validate(generated_sql, allowed_tables).valid
             <=> Validate(generated_sql, allowed_tables).errors = {}
    BY ValidateSound
  <2> QED
    BY <1>10, <2>1 DEF SqlSafety, RouteAfterSafety
<1>11. CASE ExecuteOrReturn
  BY <1>11 DEF ExecuteOrReturn
<1>12. CASE ResultSummarizer
  BY <1>12 DEF ResultSummarizer, Pass
<1>13. CASE Finalize
  BY <1>13 DEF Finalize, Pass
<1>14. CASE NodeRaises
  <2>1. pc' = "ERROR" /\ pc \in Raises
    BY <1>14 DEF NodeRaises, Pass
  <2>2. Variant' = 0
    BY <2>1
  <2>3. Variant > 0
    <3> HIDE DEF Variant, IInv
    <3> QED
      BY <2>1, VariantPositive DEF Raises
  <2> HIDE DEF Variant
  <2> QED
    BY <2>2, <2>3, SMT
<1>15. CASE UpdateTable \/ UNCHANGED vars
  BY <1>15 DEF UpdateTable
<1> QED
  BY <1>1, <1>2, <1>3, <1>4, <1>5, <1>6, <1>7, <1>8, <1>9, <1>10, <1>11,
     <1>12, <1>13, <1>14, <1>15 DEF Next, NodeStep

HIDE DEF IInv, CountersInv, Retries, FlagsInv, ExecutionInv, BeforeExecution,
         BeforeGeneration, request, vars

\* The variables keep their types and the counters never pass their limits,
\* for any settings: max_rag_loops and max_sql_retries are respected.
THEOREM TypeCorrect == Spec => []TypeOK
<1>1. IInv => TypeOK
  BY DEF IInv
<1> QED
  BY InitIInv, StepIInv, <1>1, PTL DEF Spec

\* Only a SELECT over whitelisted tables reaches a datasource, whatever the
\* model answers and however often sql_generate is repeated.
THEOREM OnlySafeSqlRuns == Spec => []ExecutedSafely
BY InitIInv, StepIInv, IInvImplies, PTL DEF Spec

\* One run executes at most one statement, and what is shown is its result.
THEOREM OneExecution ==
  Spec => [](ExecutedAtMostOnce /\ ResultIsOfShownSql /\ NothingRunsUnanswered)
BY InitIInv, StepIInv, IInvImplies, PTL DEF Spec

\* sql_valid vouches for the very text that generated_sql holds.
THEOREM ValidityIsCurrent == Spec => []ValidMeansSafe
<1>1. IInv => ValidMeansSafe
  BY DEF IInv
<1> QED
  BY InitIInv, StepIInv, <1>1, PTL DEF Spec

\* The bound on a run, as the action property the runs check.
THEOREM RunsAreBounded == Spec => VariantDecreases
<1>1. IInv /\ [Next]_vars => [pc' # pc => Variant' < Variant /\ Variant' >= 0]_vars
  BY StepDecreases
<1> QED
  BY InitIInv, StepIInv, <1>1, PTL DEF Spec, VariantDecreases

\* The inductive invariant as a whole.
THEOREM RunInvariant == Spec => []IInv
BY InitIInv, StepIInv, PTL DEF Spec

\* The rows that result_summarizer sees are those of the statement it sees.
THEOREM RowsBelongToSql == Spec => []ResultIsOfShownSql
BY InitIInv, StepIInv, IInvImplies, PTL DEF Spec

\* cannot_answer keeps a question from the datasource.
THEOREM UnanswerableStaysAway == Spec => []NothingRunsUnanswered
BY InitIInv, StepIInv, IInvImplies, PTL DEF Spec

-----------------------------------------------------------------------------
(* WorkflowEvents implements Workflow. *)

LEMMA EventsStepIsStep == [EventsNext]_allVars => [Next]_vars
BY DEF EventsNext, EventsStep, GenerateReports, ExecuteReports, SummaryReports,
       Next, NodeStep, allVars

\* The events a node returns change nothing of what the workflow does.
THEOREM EventsImplementWorkflow == EventsSpec => Init /\ [][Next]_vars
<1>1. EventsInit => Init
  BY DEF EventsInit
<1> QED
  BY <1>1, EventsStepIsStep, PTL DEF EventsSpec

LEMMA EventsIInv == EventsSpec => []IInv
BY EventsImplementWorkflow, InitIInv, StepIInv, PTL

\* What reaches the datasource, of the runs as their user sees them.
THEOREM ShownRunsAreSafe ==
  EventsSpec => [](ExecutedSafely /\ ExecutedAtMostOnce /\ ResultIsOfShownSql)
BY EventsIInv, IInvImplies, PTL

\* The bound on a run's super-steps, of the same runs.
THEOREM ShownRunsAreBounded == EventsSpec => VariantDecreases
<1>1. IInv /\ [Next]_vars => [pc' # pc => Variant' < Variant /\ Variant' >= 0]_vars
  BY StepDecreases
<1> QED
  BY EventsImplementWorkflow, EventsIInv, <1>1, PTL DEF VariantDecreases

-----------------------------------------------------------------------------
(* How often a list of events holds a type. *)

LEMMA OccurrencesNat ==
  ASSUME NEW T, NEW e \in Seq(T), NEW t
  PROVE  Occurrences(e, t) \in Nat
<1>1. IsFiniteSet(DOMAIN e)
  <2>1. DOMAIN e = 1..Len(e) /\ Len(e) \in Int
    OBVIOUS
  <2> QED
    BY <2>1, FS_Interval
<1>2. IsFiniteSet({ i \in DOMAIN e : e[i] = t })
  BY <1>1, FS_Subset
<1> QED
  BY <1>2, FS_CardinalityType DEF Occurrences

LEMMA OccurrencesNone ==
  ASSUME NEW e, NEW t, \A i \in DOMAIN e : e[i] # t
  PROVE  Occurrences(e, t) = 0
<1>1. { i \in DOMAIN e : e[i] = t } = {}
  OBVIOUS
<1> QED
  BY <1>1, FS_EmptySet DEF Occurrences

LEMMA OccurrencesOnce ==
  ASSUME NEW e, NEW t, NEW k \in DOMAIN e,
         \A i \in DOMAIN e : e[i] = t <=> i = k
  PROVE  Occurrences(e, t) = 1
<1>1. { i \in DOMAIN e : e[i] = t } = {k}
  OBVIOUS
<1> QED
  BY <1>1, FS_Singleton DEF Occurrences

LEMMA CountedFacts ==
  /\ \A n \in Nat : Counted(n) \in 0..Many
  /\ \A n \in 0..Many : Counted(n) = n
BY DEF Counted, Many

\* A node that returns events without a type leaves that type's count.
LEMMA ReturnsEvents ==
  ASSUME EventsTypeOK, NEW e \in Seq(EventTypes), Returns(e)
  PROVE  /\ EventsTypeOK'
         /\ \A t \in EventTypes :
              /\ (\A i \in DOMAIN e : e[i] # t) =>
                   stream_events'[t] = stream_events[t]
              /\ (\E k \in DOMAIN e : \A i \in DOMAIN e : e[i] = t <=> i = k)
                   /\ stream_events[t] = 0 => stream_events'[t] = 1
<1>1. \A t \in EventTypes :
        /\ stream_events[t] \in 0..Many /\ stream_events[t] \in Nat
        /\ Occurrences(e, t) \in Nat
        /\ stream_events'[t] = Counted(stream_events[t] + Occurrences(e, t))
  BY OccurrencesNat DEF EventsTypeOK, Returns, Accumulate, Many
<1>2. EventsTypeOK'
  <2>1. \A t \in EventTypes :
          Counted(stream_events[t] + Occurrences(e, t)) \in 0..Many
    BY <1>1, CountedFacts
  <2> QED
    BY <2>1 DEF EventsTypeOK, Returns, Accumulate
<1>3. ASSUME NEW t \in EventTypes, \A i \in DOMAIN e : e[i] # t
      PROVE  stream_events'[t] = stream_events[t]
  <2>1. Occurrences(e, t) = 0
    BY <1>3, OccurrencesNone
  <2> QED
    BY <1>1, <2>1, CountedFacts
<1>4. ASSUME NEW t \in EventTypes, stream_events[t] = 0,
             \E k \in DOMAIN e : \A i \in DOMAIN e : e[i] = t <=> i = k
      PROVE  stream_events'[t] = 1
  <2>1. Occurrences(e, t) = 1
    BY <1>4, OccurrencesOnce
  <2> QED
    BY <1>1, <1>4, <2>1, CountedFacts DEF Many
<1> QED
  BY <1>2, <1>3, <1>4

LEMMA ReturnsOne ==
  ASSUME EventsTypeOK, NEW x \in EventTypes, Returns(<<x>>)
  PROVE  /\ EventsTypeOK'
         /\ \A t \in EventTypes : t # x => stream_events'[t] = stream_events[t]
         /\ stream_events[x] = 0 => stream_events'[x] = 1
<1> DEFINE e == <<x>>
<1>1. /\ e \in Seq(EventTypes) /\ Returns(e)
      /\ 1 \in DOMAIN e /\ \A i \in DOMAIN e : i = 1 /\ e[i] = x
  OBVIOUS
<1> HIDE DEF e
<1>2. \A i \in DOMAIN e : e[i] = x <=> i = 1
  BY <1>1
<1> QED
  BY <1>1, <1>2, ReturnsEvents

\* return {**state}: what was there twice over, what was not there still not.
LEMMA ReturnsStateFacts ==
  ASSUME EventsTypeOK, ReturnsState
  PROVE  /\ EventsTypeOK'
         /\ \A t \in EventTypes : stream_events[t] = 0 => stream_events'[t] = 0
BY DEF EventsTypeOK, ReturnsState, Counted, Many

\* The events of sql_generate: no verdict on an execution, no DONE, and a
\* SUMMARY if the question cannot be answered.
OfGeneration(e, unanswerable) ==
  /\ e \in Seq(EventTypes)
  /\ \A i \in DOMAIN e : e[i] \notin {"DONE", "RESULT", "ERROR"}
  /\ ~unanswerable => \A i \in DOMAIN e : e[i] # "SUMMARY"
  /\ unanswerable =>
       \E k \in DOMAIN e : \A i \in DOMAIN e : e[i] = "SUMMARY" <=> i = k

LEMMA ConcatFacts ==
  ASSUME NEW T, NEW p \in Seq(T), NEW r \in Seq(T)
  PROVE  /\ p \o r \in Seq(T)
         /\ Len(p \o r) = Len(p) + Len(r)
         /\ \A i \in 1..Len(p) : (p \o r)[i] = p[i]
         /\ \A i \in 1..Len(r) : (p \o r)[Len(p) + i] = r[i]
OBVIOUS

LEMMA ThoughtsFirst ==
  ASSUME NEW u \in BOOLEAN, NEW r, OfGeneration(r, u)
  PROVE  OfGeneration(Thoughts \o r, u)
<1>1. r \in Seq(EventTypes)
  BY DEF OfGeneration
<1>2. CASE ~deep_think
  <2>1. Thoughts \o r = r
    BY <1>1, <1>2 DEF Thoughts
  <2> QED
    BY <2>1
<1>3. CASE deep_think
  <2>1. PICK p \in Seq(EventTypes) :
          /\ p = <<"THOUGHT", "THOUGHT">>
          /\ Len(p) = 2 /\ p[1] = "THOUGHT" /\ p[2] = "THOUGHT"
    <3>1. <<"THOUGHT", "THOUGHT">> \in Seq(EventTypes)
      BY DEF EventTypes
    <3> QED
      BY <3>1
  <2> DEFINE e == p \o r
  <2>2. /\ e \in Seq(EventTypes) /\ Len(e) = Len(r) + 2 /\ Len(r) \in Nat
        /\ DOMAIN e = 1..(Len(r) + 2) /\ DOMAIN r = 1..Len(r)
        /\ e[1] = "THOUGHT" /\ e[2] = "THOUGHT"
        /\ \A i \in DOMAIN r : i + 2 \in DOMAIN e /\ e[i + 2] = r[i]
    <3>1. /\ e \in Seq(EventTypes) /\ Len(e) = Len(p) + Len(r)
          /\ \A i \in 1..Len(p) : e[i] = p[i]
          /\ \A i \in 1..Len(r) : e[Len(p) + i] = r[i]
      BY <1>1, <2>1, ConcatFacts
    <3> HIDE DEF e
    <3>2. /\ Len(r) \in Nat /\ Len(e) = Len(r) + 2
          /\ DOMAIN e = 1..(Len(r) + 2) /\ DOMAIN r = 1..Len(r)
      BY <1>1, <2>1, <3>1
    <3>3. e[1] = "THOUGHT" /\ e[2] = "THOUGHT"
      BY <2>1, <3>1
    <3>4. ASSUME NEW i \in DOMAIN r
          PROVE  i + 2 \in DOMAIN e /\ e[i + 2] = r[i]
      BY <1>1, <2>1, <3>1, <3>2
    <3> QED
      BY <3>1, <3>2, <3>3, <3>4
  <2> HIDE DEF e
  <2>3. \A i \in DOMAIN e : \/ i \in {1, 2} /\ e[i] = "THOUGHT"
                            \/ i - 2 \in DOMAIN r /\ e[i] = r[i - 2]
    BY <2>2
  <2>4. ASSUME u
        PROVE  \E k \in DOMAIN e : \A i \in DOMAIN e : e[i] = "SUMMARY" <=> i = k
    <3>1. PICK k \in DOMAIN r : \A i \in DOMAIN r : r[i] = "SUMMARY" <=> i = k
      BY <2>4 DEF OfGeneration
    <3>2. k + 2 \in DOMAIN e /\ k \in Nat \ {0}
      BY <2>2
    <3>3. \A i \in DOMAIN e : e[i] = "SUMMARY" <=> i = k + 2
      BY <2>2, <2>3, <3>1, <3>2
    <3> QED
      BY <3>2, <3>3
  <2>5. OfGeneration(e, u)
    BY <2>2, <2>3, <2>4 DEF OfGeneration
  <2>6. Thoughts \o r = e
    BY <1>3, <2>1 DEF Thoughts, e
  <2> QED
    BY <2>5, <2>6
<1> QED
  BY <1>2, <1>3

LEMMA GenerationEvents ==
  /\ OfGeneration(<<"STATUS", "SUMMARY">>, TRUE)
  /\ OfGeneration(<<"SQL">>, FALSE)
  /\ OfGeneration(<<>>, FALSE)
<1>1. OfGeneration(<<"STATUS", "SUMMARY">>, TRUE)
  <2> DEFINE e == <<"STATUS", "SUMMARY">>
  <2>1. e \in Seq(EventTypes)
    BY DEF EventTypes
  <2>2. DOMAIN e = {1, 2} /\ e[1] = "STATUS" /\ e[2] = "SUMMARY"
    OBVIOUS
  <2> HIDE DEF e
  <2>3. OfGeneration(e, TRUE)
    BY <2>1, <2>2 DEF OfGeneration
  <2> QED
    BY <2>3 DEF e
<1>2. OfGeneration(<<"SQL">>, FALSE)
  <2> DEFINE e == <<"SQL">>
  <2>1. e \in Seq(EventTypes)
    BY DEF EventTypes
  <2>2. DOMAIN e = {1} /\ e[1] = "SQL"
    OBVIOUS
  <2> HIDE DEF e
  <2>3. OfGeneration(e, FALSE)
    BY <2>1, <2>2 DEF OfGeneration
  <2> QED
    BY <2>3 DEF e
<1>3. OfGeneration(<<>>, FALSE)
  BY DEF OfGeneration
<1> QED
  BY <1>1, <1>2, <1>3

\* sql_generate with its events.
LEMMA GenerateReturns ==
  ASSUME EventsTypeOK, stream_events["SUMMARY"] = 0, GenerateReports
  PROVE  /\ EventsTypeOK'
         /\ \A t \in {"DONE", "RESULT", "ERROR"} :
              stream_events'[t] = stream_events[t]
         /\ stream_events'["SUMMARY"] = IF cannot_answer' THEN 1 ELSE 0
<1>1. cannot_answer' \in BOOLEAN
  BY DEF GenerateReports, SqlGenerate
<1>2. PICK e : Returns(e) /\ OfGeneration(e, cannot_answer')
  BY <1>1, GenerationEvents, ThoughtsFirst DEF GenerateReports
<1>3. e \in Seq(EventTypes)
  BY <1>2 DEF OfGeneration
<1>4. "SUMMARY" \in EventTypes /\ {"DONE", "RESULT", "ERROR"} \subseteq EventTypes
  BY DEF EventTypes
<1>5. EventsTypeOK'
  BY <1>2, <1>3, ReturnsEvents
<1>6. \A t \in {"DONE", "RESULT", "ERROR"} : stream_events'[t] = stream_events[t]
  BY <1>2, <1>3, <1>4, ReturnsEvents DEF OfGeneration
<1>7. stream_events'["SUMMARY"] = IF cannot_answer' THEN 1 ELSE 0
  BY <1>1, <1>2, <1>3, <1>4, ReturnsEvents DEF OfGeneration
<1> QED
  BY <1>5, <1>6, <1>7

LEMMA NoneReturned ==
  ASSUME EventsTypeOK, Returns(<<>>)
  PROVE  EventsTypeOK' /\ \A t \in EventTypes : stream_events'[t] = stream_events[t]
<1>1. <<>> \in Seq(EventTypes) /\ DOMAIN <<>> = {}
  OBVIOUS
<1> QED
  BY <1>1, ReturnsEvents

LEMMA KnownTypes ==
  {"STATUS", "INTENT", "RAG_CHUNK", "SQL", "RESULT", "SUMMARY", "ERROR", "DONE"}
    \subseteq EventTypes
BY DEF EventTypes

\* The counts that EventsInv looks at are numbers.
LEMMA CountsAreNumbers ==
  EventsTypeOK => \A t \in EventTypes : stream_events[t] \in {0, 1, 2}
BY DEF EventsTypeOK, Many

LEMMA InitEvents == EventsInit => EventsInv
<1> SUFFICES ASSUME EventsInit PROVE EventsInv
  OBVIOUS
<1>1. /\ \A t \in EventTypes : stream_events[t] = 0
      /\ pc = "load_context" /\ query_result = "none"
  BY DEF EventsInit, Init
<1>2. EventsTypeOK
  BY DEF EventsTypeOK, EventsInit, Many
<1> QED
  BY <1>1, <1>2, KnownTypes
     DEF EventsInv, SummaryInv, ExecutionToldInv, SilenceInv

LEMMA StepEvents == IInv /\ EventsInv /\ [EventsNext]_allVars => EventsInv'
<1> SUFFICES ASSUME IInv, EventsInv, [EventsNext]_allVars PROVE EventsInv'
  OBVIOUS
<1> USE KnownTypes
    DEF EventsInv, SummaryInv, ExecutionToldInv, SilenceInv, BeforeExecution,
        BeforeGeneration
<1>1. CASE LoadContext /\ Returns(<<"STATUS">>)
  BY <1>1, ReturnsOne DEF LoadContext, request
<1>2. CASE IntentClassifier /\ Returns(<<"INTENT">>)
  BY <1>2, ReturnsOne DEF IntentClassifier, RouteAfterIntent, request
<1>3. CASE DirectReply /\ Returns(<<"SUMMARY">>)
  BY <1>3, ReturnsOne DEF DirectReply, Pass, request
<1>4. CASE RagRouter /\ ReturnsState
  BY <1>4, ReturnsStateFacts DEF RagRouter, RouteAfterRagRouter, Pass, request,
     IInv, ExecutionInv
<1>5. CASE HybridRetrieve /\ Returns(<<"RAG_CHUNK">>)
  BY <1>5, ReturnsOne DEF HybridRetrieve, Pass, request
<1>6. CASE RetrievalJudge /\ ReturnsState
  BY <1>6, ReturnsStateFacts DEF RetrievalJudge, RouteAfterJudge, Pass, request,
     IInv, ExecutionInv
<1>7. CASE QueryExpander /\ Returns(<<"STATUS">>)
  BY <1>7, ReturnsOne DEF QueryExpander, request
<1>8. CASE DirectLlm /\ Returns(<<"SUMMARY">>)
  BY <1>8, ReturnsOne DEF DirectLlm, Pass, request
<1>9. CASE GenerateReports
  BY <1>9, GenerateReturns DEF GenerateReports, SqlGenerate, RouteAfterSqlGenerate,
     request
<1>10. CASE SqlSafety /\ Returns(<<"STATUS">>)
  BY <1>10, ReturnsOne DEF SqlSafety, RouteAfterSafety, request
<1>11. CASE ExecuteReports
  <2>1. /\ pc = "execute_or_return" /\ pc' = "result_summarizer"
        /\ query_result' \in {"rows", "none"}
        /\ query_result = "none"
        /\ UNCHANGED <<sql_valid, cannot_answer, execution_mode, connection_url,
                       generated_sql>>
        /\ query_result' = "rows" => ShouldExecute
    BY <1>11 DEF ExecuteReports, ExecuteOrReturn, request, IInv, ExecutionInv
  <2>2. CASE query_result' = "rows"
    <3>1. Returns(<<"RESULT">>)
      BY <1>11, <2>1, <2>2 DEF ExecuteReports, ShouldExecute
    <3>2. /\ EventsTypeOK' /\ stream_events'["RESULT"] = 1
          /\ \A t \in {"SUMMARY", "ERROR", "DONE"} :
               stream_events'[t] = stream_events[t]
      BY <2>1, <3>1, ReturnsOne
    <3>3. stream_events["SUMMARY"] = 0 /\ stream_events["ERROR"] = 0
          /\ stream_events["DONE"] = 0
      BY <2>1
    <3> QED
      BY <2>1, <2>2, <3>2, <3>3
  <2>3. CASE query_result' = "none" /\ (~sql_valid \/ ShouldExecute)
    BY <1>11, <2>1, <2>3, ReturnsOne DEF ExecuteReports
  <2>4. CASE query_result' = "none" /\ sql_valid /\ ~ShouldExecute
    <3>1. Returns(<<>>)
      BY <1>11, <2>4 DEF ExecuteReports
    <3>2. execution_mode \in Modes /\ generated_sql # EmptySql
      BY <2>4 DEF IInv, TypeOK, ValidMeansSafe, Safe, EmptySql, Plain
    <3>3. execution_mode = "GENERATE_ONLY" \/ ~connection_url
      BY <2>4, <3>2 DEF ShouldExecute, Modes
    <3> QED
      BY <2>1, <2>4, <3>1, <3>3, NoneReturned
  <2> QED
    BY <2>1, <2>2, <2>3, <2>4
<1>12. CASE SummaryReports
  BY <1>12, ReturnsOne, CountsAreNumbers
     DEF SummaryReports, ResultSummarizer, Pass, request
<1>13. CASE Finalize /\ Returns(<<"DONE">>)
  BY <1>13, ReturnsOne, CountsAreNumbers DEF Finalize, Pass, request
<1>14. CASE NodeRaises /\ UNCHANGED shown
  <2>1. pc \in Nodes \ {"finalize"} /\ pc' = "ERROR"
    BY <1>14 DEF NodeRaises, Raises, Pass
  <2>2. pc # "END"
    BY <2>1 DEF Nodes
  <2>3. UNCHANGED <<query_result, deep_think, stream_events>>
    BY <1>14 DEF NodeRaises, Pass, shown
  <2> QED
    BY <2>1, <2>2, <2>3 DEF EventsTypeOK
<1>15. CASE UpdateTable /\ UNCHANGED shown
  BY <1>15 DEF UpdateTable, request, shown, EventsTypeOK
<1>16. CASE UNCHANGED allVars
  BY <1>16 DEF allVars, vars, request, shown, EventsTypeOK
<1> QED
  BY <1>1, <1>2, <1>3, <1>4, <1>5, <1>6, <1>7, <1>8, <1>9, <1>10, <1>11,
     <1>12, <1>13, <1>14, <1>15, <1>16 DEF EventsNext, EventsStep

LEMMA EventsInvHolds == EventsSpec => []EventsInv
<1>1. EventsSpec => EventsInit /\ [][EventsNext]_allVars
  BY PTL DEF EventsSpec
<1> QED
  BY <1>1, EventsIInv, InitEvents, StepEvents, PTL

\* Whatever path a run took and however often rag_router and retrieval_judge
\* returned the list a second time: a finished run shows one summary, one DONE,
\* rows if it has rows, and no error beside them.
THEOREM OneStoryIsTold == EventsSpec => []OutcomeToldOnce
<1>1. EventsInv => OutcomeToldOnce
  BY DEF EventsInv, OutcomeToldOnce, SummaryInv, ExecutionToldInv
<1> QED
  BY <1>1, EventsInvHolds, PTL

\* A statement that was shown and gave no rows comes with an error, unless the
\* mode, the missing datasource or a question that cannot be answered says why.
THEOREM SilenceHasReasons == EventsSpec => []SilenceExplained
<1>1. EventsInv => SilenceExplained
  BY DEF EventsInv, SilenceExplained, SilenceInv
<1> QED
  BY <1>1, EventsInvHolds, PTL

-----------------------------------------------------------------------------
(* Paths in the graph of the tables. *)

\* A set of numbers that is not empty has a least element: the length of the
\* shortest walk, the first table that cannot be reached.
LEMMA LeastElement ==
  ASSUME NEW S, S \subseteq Nat, S # {}
  PROVE  \E n \in S : \A m \in S : n <= m
<1> DEFINE F == { 0..n : n \in S }
<1>1. IsWellFoundedOn(StrictSubsetOrdering(Nat), FiniteSubsetsOf(Nat))
  BY FS_StrictSubsetOrderingWellFounded
<1>2. F \subseteq FiniteSubsetsOf(Nat) /\ F # {}
  <2>1. \A n \in S : 0..n \subseteq Nat /\ IsFiniteSet(0..n)
    BY FS_Interval
  <2> QED
    BY <2>1 DEF FiniteSubsetsOf
<1>3. PICK x \in F : \A y \in F : ~(<<y, x>> \in StrictSubsetOrdering(Nat))
  <2> HIDE DEF F
  <2> QED
    BY <1>1, <1>2, WFMin, Zenon
<1>4. PICK n \in S : x = 0..n
  OBVIOUS
<1>5. ASSUME NEW m \in S
      PROVE  n <= m
  <2>1. ~(<<0..m, 0..n>> \in StrictSubsetOrdering(Nat))
    BY <1>3, <1>4
  <2>2. 0..m \subseteq Nat /\ 0..n \subseteq Nat
    OBVIOUS
  <2>3. 0..m \subseteq 0..n => 0..m = 0..n
    BY <2>1, <2>2 DEF StrictSubsetOrdering
  <2>4. SUFFICES ASSUME m < n
                 PROVE  FALSE
    OBVIOUS
  <2>5. 0..m \subseteq 0..n /\ n \in 0..n /\ n \notin 0..m
    BY <2>4
  <2> QED
    BY <2>3, <2>5
<1> QED
  BY <1>5

\* A walk of n tables from a to b, whatever its length.
IsWalk(n, p, a, b, es) ==
  /\ n \in Nat /\ 1 <= n /\ p \in [1..n -> nodes]
  /\ p[1] = a /\ p[n] = b
  /\ \A i \in 1..(n - 1) : {p[i], p[i + 1]} \in es

LEMMA AllowedFinite ==
  ASSUME nodes \subseteq Positions
  PROVE  IsFiniteSet(nodes) /\ Cardinality(nodes) \in Nat
<1>1. IsFiniteSet(Positions)
  BY SchemaGraphAssumption, FS_Interval DEF Positions
<1>2. IsFiniteSet(nodes)
  BY <1>1, FS_Subset
<1> QED
  BY <1>2, FS_CardinalityType

\* The paths of the model are the walks that are not longer than the number of
\* tables.
LEMMA PathIsWalk ==
  ASSUME nodes \subseteq Positions, NEW es, NEW a, NEW b, NEW p \in Walks,
         IsPath(p, a, b, es)
  PROVE  IsWalk(Len(p), p, a, b, es)
<1>1. PICK n \in 1..Cardinality(nodes) : p \in [1..n -> nodes]
  BY DEF Walks
<1>2. n \in Nat /\ 1 <= n
  BY AllowedFinite
<1>3. Len(p) = n
  BY <1>1, <1>2
<1> QED
  BY <1>1, <1>2, <1>3 DEF IsWalk, IsPath

LEMMA ShortWalkIsPath ==
  ASSUME NEW es, NEW a, NEW b, NEW n, NEW p, IsWalk(n, p, a, b, es),
         Cardinality(nodes) \in Nat, n <= Cardinality(nodes)
  PROVE  p \in Walks /\ IsPath(p, a, b, es)
<1>1. n \in 1..Cardinality(nodes) /\ p \in [1..n -> nodes]
  BY DEF IsWalk
<1>2. p \in Walks
  BY <1>1 DEF Walks
<1>3. Len(p) = n
  BY <1>1
<1> QED
  BY <1>2, <1>3 DEF IsWalk, IsPath

\* A walk that comes to a table twice has a shorter one: without the detour.
LEMMA WithoutDetour ==
  ASSUME NEW es, NEW a, NEW b, NEW n, NEW p, IsWalk(n, p, a, b, es),
         NEW x \in 1..n, NEW y \in 1..n, x < y, p[x] = p[y]
  PROVE  \E q : IsWalk(n - (y - x), q, a, b, es)
<1> DEFINE m == n - (y - x)
           q == [k \in 1..m |-> IF k <= x THEN p[k] ELSE p[k + (y - x)]]
<1>0. n \in Nat /\ 1 <= n /\ p \in [1..n -> nodes]
  BY DEF IsWalk
<1>1. m \in Nat /\ 1 <= m /\ x <= m /\ m < n
  BY <1>0
<1>2. q \in [1..m -> nodes]
  <2>1. \A k \in 1..m : k > x => k + (y - x) \in 1..n
    BY <1>0, <1>1
  <2>2. \A k \in 1..m : k <= x => k \in 1..n
    BY <1>0, <1>1
  <2>3. \A k \in 1..m : (IF k <= x THEN p[k] ELSE p[k + (y - x)]) \in nodes
    BY <1>0, <1>1, <2>1, <2>2
  <2> QED
    BY <2>3
<1>3. q[1] = a
  BY <1>0, <1>1 DEF IsWalk
<1>4. q[m] = b
  <2>1. CASE m <= x
    <3>1. m = x /\ y = n
      BY <1>0, <1>1, <2>1
    <3>2. q[m] = p[x]
      BY <1>1, <3>1
    <3> QED
      BY <3>1, <3>2 DEF IsWalk
  <2>2. CASE m > x
    <3>1. q[m] = p[m + (y - x)] /\ m + (y - x) = n
      BY <1>0, <1>1, <2>2
    <3> QED
      BY <3>1 DEF IsWalk
  <2> QED
    BY <1>1, <2>1, <2>2
<1>5. ASSUME NEW k \in 1..(m - 1)
      PROVE  {q[k], q[k + 1]} \in es
  <2>0. \A i \in 1..(n - 1) : {p[i], p[i + 1]} \in es
    BY DEF IsWalk
  <2>1. CASE k < x
    <3>1. q[k] = p[k] /\ q[k + 1] = p[k + 1] /\ k \in 1..(n - 1)
      BY <1>0, <1>1, <2>1
    <3> QED
      BY <2>0, <3>1
  <2>2. CASE k = x
    <3>1. q[k] = p[y] /\ q[k + 1] = p[y + 1] /\ y \in 1..(n - 1)
      BY <1>0, <1>1, <2>2
    <3> QED
      BY <2>0, <3>1
  <2>3. CASE k > x
    <3> DEFINE j == k + (y - x)
    <3>1. q[k] = p[j] /\ q[k + 1] = p[j + 1] /\ j \in 1..(n - 1)
      BY <1>0, <1>1, <2>3
    <3> QED
      BY <2>0, <3>1
  <2> QED
    BY <1>1, <2>1, <2>2, <2>3
<1> HIDE DEF m, q
<1>6. IsWalk(m, q, a, b, es)
  BY <1>1, <1>2, <1>3, <1>4, <1>5 DEF IsWalk
<1> QED
  BY <1>6 DEF m

\* So tables that any walk relates are related by a path of the model.
LEMMA WalkRelates ==
  ASSUME nodes \subseteq Positions, NEW es, NEW a, NEW b, NEW n, NEW p,
         IsWalk(n, p, a, b, es)
  PROVE  Related(a, b, es)
<1> DEFINE lengths == { k \in Nat : \E q : IsWalk(k, q, a, b, es) }
<1>1. lengths \subseteq Nat /\ n \in lengths
  BY DEF IsWalk
<1>2. PICK m \in lengths : \A k \in lengths : m <= k
  <2> HIDE DEF lengths
  <2> QED
    BY <1>1, LeastElement
<1>3. PICK q : IsWalk(m, q, a, b, es)
  BY <1>2
<1>4. m \in Nat /\ q \in [1..m -> nodes]
  BY <1>3 DEF IsWalk
<1>5. m <= Cardinality(nodes)
  <2>1. SUFFICES ASSUME Cardinality(nodes) < m
                 PROVE  FALSE
    BY <1>4, AllowedFinite
  <2>2. IsFiniteSet(1..m) /\ Cardinality(1..m) = m
    <3>1. /\ IsFiniteSet(1..m)
          /\ Cardinality(1..m) = IF 1 > m THEN 0 ELSE m - 1 + 1
      BY <1>4, FS_Interval
    <3> QED
      BY <1>4, <3>1
  <2>3. PICK x, y \in 1..m : x # y /\ q[x] = q[y]
    BY <1>4, <2>1, <2>2, AllowedFinite, FS_PigeonHole
  <2>4. \E i, j \in 1..m : i < j /\ q[i] = q[j]
    BY <1>4, <2>3
  <2>5. PICK i, j \in 1..m : i < j /\ q[i] = q[j]
    BY <2>4
  <2>6. \E r : IsWalk(m - (j - i), r, a, b, es)
    BY <1>3, <2>5, WithoutDetour
  <2>7. m - (j - i) \in Nat /\ m - (j - i) < m
    BY <1>4, <2>5
  <2>8. m - (j - i) \in lengths
    BY <2>6, <2>7
  <2> QED
    BY <1>2, <1>4, <2>7, <2>8
<1>6. q \in Walks /\ IsPath(q, a, b, es)
  BY <1>3, <1>5, AllowedFinite, ShortWalkIsPath
<1> QED
  BY <1>6 DEF Related

\* To be related is an equivalence on the allowed tables.
LEMMA RelatedReflexive ==
  ASSUME nodes \subseteq Positions, NEW es, NEW a \in nodes
  PROVE  Related(a, a, es)
<1> DEFINE p == [k \in 1..1 |-> a]
<1>1. IsWalk(1, p, a, a, es)
  BY DEF IsWalk
<1> QED
  BY <1>1, WalkRelates

LEMMA RelatedSymmetric ==
  ASSUME nodes \subseteq Positions, NEW es, NEW a, NEW b, Related(a, b, es)
  PROVE  Related(b, a, es)
<1>1. PICK p \in Walks : IsPath(p, a, b, es)
  BY DEF Related
<1> DEFINE n == Len(p)
           q == [k \in 1..n |-> p[n + 1 - k]]
<1>2. IsWalk(n, p, a, b, es)
  BY <1>1, PathIsWalk
<1> HIDE DEF n
<1>3. n \in Nat /\ 1 <= n /\ p \in [1..n -> nodes] /\ p[1] = a /\ p[n] = b
  BY <1>2 DEF IsWalk
<1>4. q \in [1..n -> nodes] /\ q[1] = b /\ q[n] = a
  BY <1>3
<1>5. ASSUME NEW k \in 1..(n - 1)
      PROVE  {q[k], q[k + 1]} \in es
  <2> DEFINE i == n - k
  <2>1. i \in 1..(n - 1) /\ q[k] = p[i + 1] /\ q[k + 1] = p[i]
    BY <1>3
  <2>2. {p[i], p[i + 1]} \in es
    BY <1>2, <2>1 DEF IsWalk
  <2>3. {q[k], q[k + 1]} = {p[i], p[i + 1]}
    BY <2>1
  <2> QED
    BY <2>2, <2>3
<1> HIDE DEF q
<1>6. IsWalk(n, q, b, a, es)
  BY <1>3, <1>4, <1>5 DEF IsWalk
<1> QED
  BY <1>6, WalkRelates

LEMMA RelatedTransitive ==
  ASSUME nodes \subseteq Positions, NEW es, NEW a, NEW b, NEW c,
         Related(a, b, es), Related(b, c, es)
  PROVE  Related(a, c, es)
<1>1. PICK p \in Walks : IsPath(p, a, b, es)
  BY DEF Related
<1>2. PICK r \in Walks : IsPath(r, b, c, es)
  BY DEF Related
<1> DEFINE n == Len(p)
           m == Len(r)
<1>3. IsWalk(n, p, a, b, es) /\ IsWalk(m, r, b, c, es)
  BY <1>1, <1>2, PathIsWalk
<1> HIDE DEF n, m
<1>4. /\ n \in Nat /\ 1 <= n /\ p \in [1..n -> nodes] /\ p[1] = a /\ p[n] = b
      /\ m \in Nat /\ 1 <= m /\ r \in [1..m -> nodes] /\ r[1] = b /\ r[m] = c
  BY <1>3 DEF IsWalk
<1> DEFINE l == n + m - 1
           q == [k \in 1..l |-> IF k <= n THEN p[k] ELSE r[k - n + 1]]
<1>5. l \in Nat /\ 1 <= l /\ n <= l
  BY <1>4
<1>6. q \in [1..l -> nodes]
  <2>1. \A k \in 1..l : /\ k <= n => k \in 1..n
                        /\ k > n => k - n + 1 \in 1..m
    BY <1>4
  <2>2. \A k \in 1..l : (IF k <= n THEN p[k] ELSE r[k - n + 1]) \in nodes
    BY <1>4, <2>1
  <2> QED
    BY <2>2
<1>7. q[1] = a
  BY <1>4, <1>5
<1>8. q[l] = c
  <2>1. CASE m = 1
    BY <1>4, <1>5, <2>1
  <2>2. CASE m > 1
    <3>1. l > n /\ l - n + 1 = m
      BY <1>4, <2>2
    <3>2. q[l] = r[l - n + 1]
      BY <1>4, <1>5, <3>1
    <3> QED
      BY <1>4, <3>1, <3>2
  <2> QED
    BY <1>4, <2>1, <2>2
<1>9. ASSUME NEW k \in 1..(l - 1)
      PROVE  {q[k], q[k + 1]} \in es
  <2>0. /\ \A i \in 1..(n - 1) : {p[i], p[i + 1]} \in es
        /\ \A i \in 1..(m - 1) : {r[i], r[i + 1]} \in es
    BY <1>3 DEF IsWalk
  <2>1. CASE k < n
    <3>1. q[k] = p[k] /\ q[k + 1] = p[k + 1] /\ k \in 1..(n - 1)
      BY <1>4, <1>5, <2>1
    <3> QED
      BY <2>0, <3>1
  <2>2. CASE k = n
    <3>1. q[k] = r[1] /\ q[k + 1] = r[2] /\ 1 \in 1..(m - 1)
      BY <1>4, <1>5, <2>2
    <3> DEFINE j == 1
    <3>2. j \in 1..(m - 1) /\ j + 1 = 2 /\ r[j] = r[1]
      BY <3>1
    <3> HIDE DEF j, q, l
    <3>3. {r[j], r[j + 1]} \in es
      BY <2>0, <3>2
    <3> QED
      BY <3>1, <3>2, <3>3, Zenon
  <2>3. CASE k > n
    <3> DEFINE j == k - n + 1
    <3>1. q[k] = r[j] /\ q[k + 1] = r[j + 1] /\ j \in 1..(m - 1)
      BY <1>4, <1>5, <2>3
    <3> QED
      BY <2>0, <3>1
  <2> QED
    BY <1>4, <2>1, <2>2, <2>3
<1> HIDE DEF l, q
<1>10. IsWalk(l, q, a, c, es)
  BY <1>4, <1>5, <1>6, <1>7, <1>8, <1>9 DEF IsWalk
<1> QED
  BY <1>10, WalkRelates

-----------------------------------------------------------------------------
(* The recommendation. *)

\* A path of foreign keys whose edges are all recommended relates by them.
LEMMA JoinedPath ==
  ASSUME NEW a, NEW b, NEW p \in Walks, IsPath(p, a, b, edges), PathEdges(p) \subseteq joins
  PROVE  Related(a, b, joins)
<1>1. \A i \in 1..(Len(p) - 1) : {p[i], p[i + 1]} \in joins
  BY DEF PathEdges
<1> QED
  BY <1>1 DEF Related, IsPath

\* If everything allowed between a and b is related to a, the neighbours from a
\* on are joined one by one, so the first one that is not reached from a does not
\* exist.
LEMMA JoinedUpTo ==
  ASSUME GraphIInv, asked, NEW a \in nodes, NEW b \in nodes, a < b,
         Related(a, b, edges),
         \A c \in nodes : a < c /\ c < b => Related(a, c, edges)
  PROVE  Related(a, b, joins)
<1> USE DEF GraphIInv
<1> DEFINE apart == { c \in nodes : a <= c /\ c <= b /\ ~Related(a, c, joins) }
<1>0. nodes \subseteq Nat
  BY SchemaGraphAssumption DEF Positions
<1>1. SUFFICES ASSUME ~Related(a, b, joins)
               PROVE  FALSE
  OBVIOUS
<1>2. PICK m \in apart : \A k \in apart : m <= k
  <2>0. b \in Nat /\ a \in Nat
    BY <1>0
  <2>1. apart \subseteq Nat /\ b \in apart
    <3>1. a <= b /\ b <= b
      BY <2>0
    <3>2. apart \subseteq nodes
      OBVIOUS
    <3>3. b \in apart
      BY <1>1, <3>1
    <3> QED
      BY <1>0, <3>2, <3>3
  <2> HIDE DEF apart
  <2> QED
    BY <2>1, LeastElement
<1>3. m \in nodes /\ a < m /\ m <= b /\ ~Related(a, m, joins)
  <2>1. m # a
    BY <1>2, RelatedReflexive
  <2> QED
    BY <1>0, <1>2, <2>1
<1>4. PICK q \in nodes : Follows(q, m) /\ a <= q
  <2> DEFINE gaps == { k \in Nat : m - k \in nodes /\ m - k < m }
  <2>1. gaps \subseteq Nat /\ m - a \in gaps
    <3>1. m - a \in Nat /\ m - (m - a) = a
      BY <1>0, <1>3
    <3> QED
      BY <1>3, <3>1
  <2>2. PICK g \in gaps : \A k \in gaps : g <= k
    <3> HIDE DEF gaps
    <3> QED
      BY <2>1, LeastElement
  <2> DEFINE q == m - g
  <2>3. q \in nodes /\ q < m /\ g \in Nat /\ m \in Nat
    BY <1>0, <1>3, <2>2
  <2>4. g <= m - a
    BY <2>1, <2>2
  <2>5. a <= q
    BY <1>0, <2>3, <2>4
  <2>6. ASSUME NEW c \in nodes, c < m
        PROVE  c <= q
    <3>1. m - c \in Nat /\ m - (m - c) = c
      BY <1>0, <2>3, <2>6
    <3>2. m - c \in gaps
      BY <2>6, <3>1
    <3>3. g <= m - c
      BY <2>2, <3>2
    <3> QED
      BY <1>0, <2>3, <3>3
  <2>7. \A c \in nodes : c <= q \/ m <= c
    BY <1>0, <2>3, <2>6
  <2> QED
    BY <2>3, <2>5, <2>7 DEF Follows
<1>5. q < m
  BY <1>4 DEF Follows
<1>6. Related(a, q, joins)
  <2>1. q \notin apart
    BY <1>0, <1>2, <1>3, <1>4, <1>5
  <2> QED
    BY <1>0, <1>3, <1>4, <1>5, <2>1
<1>7. Related(a, q, edges) /\ Related(a, m, edges)
  <2>1. q = a \/ (a < q /\ q < b)
    BY <1>0, <1>3, <1>4, <1>5
  <2>2. m = b \/ (a < m /\ m < b)
    BY <1>0, <1>3
  <2> QED
    BY <1>3, <2>1, <2>2, RelatedReflexive
<1>8. Related(q, m, edges)
  BY <1>7, RelatedSymmetric, RelatedTransitive
<1>9. Related(q, m, joins)
  <2>1. <<q, m>> \in Neighbours
    BY <1>3, <1>4 DEF Neighbours
  <2>2. PICK p \in Walks : IsPath(p, q, m, edges) /\ PathEdges(p) \subseteq joins
    BY <1>8, <2>1 DEF NeighboursJoined
  <2> QED
    BY <2>2, JoinedPath
<1>10. Related(a, m, joins)
  BY <1>6, <1>9, RelatedTransitive
<1> QED
  BY <1>3, <1>10

\* The recommendation takes a path of foreign keys for every two neighbours that
\* have one.
LEMMA FindJoinPathsKeeps ==
  ASSUME GraphIInv, FindJoinPaths
  PROVE  GraphIInv'
<1> DEFINE related == { n \in Neighbours : Related(n[1], n[2], edges) }
           paths == [n \in related |-> ShortestPaths(n[1], n[2])]
<1>1. PICK path \in [related -> UNION { paths[n] : n \in related }] :
        /\ \A n \in related : path[n] \in paths[n]
        /\ joins' = UNION { PathEdges(path[n]) : n \in related }
  BY DEF FindJoinPaths
<1>2. nodes' = nodes /\ edges' = edges /\ asked' = TRUE
  BY DEF FindJoinPaths
<1>3. \A n \in related : path[n] \in Walks /\ IsPath(path[n], n[1], n[2], edges)
  BY <1>1 DEF ShortestPaths
<1>4. joins' \subseteq edges
  <2> SUFFICES ASSUME NEW n \in related, NEW e \in PathEdges(path[n])
               PROVE  e \in edges
    BY <1>1
  <2> QED
    BY <1>3 DEF PathEdges, IsPath
<1>5. NeighboursJoined'
  <2>1. Neighbours' = Neighbours /\ Walks' = Walks
    BY <1>2 DEF Neighbours, Walks, Follows
  <2>2. \A a, b : Related(a, b, edges)' <=> Related(a, b, edges)
    BY <1>2, <2>1 DEF Related, IsPath
  <2>3. ASSUME NEW n \in Neighbours, Related(n[1], n[2], edges)
        PROVE  \E p \in Walks : IsPath(p, n[1], n[2], edges) /\ PathEdges(p) \subseteq joins'
    <3>1. n \in related
      BY <2>3
    <3>2. PathEdges(path[n]) \subseteq joins'
      BY <1>1, <3>1
    <3> QED
      BY <1>3, <3>1, <3>2
  <2> QED
    BY <1>2, <2>1, <2>2, <2>3 DEF NeighboursJoined, IsPath, PathEdges
<1> QED
  BY <1>2, <1>4, <1>5 DEF GraphIInv

-----------------------------------------------------------------------------
(* The theorems about the recommended JOINs. *)

\* In every reachable state the recommendation consists of foreign keys and
\* joins neighbours that are related.
THEOREM GraphInvariant == GraphSpec => []GraphIInv
<1>1. GraphInit => GraphIInv
  BY DEF GraphInit, GraphIInv, NeighboursJoined
<1>2. GraphIInv /\ [GraphNext]_graphVars => GraphIInv'
  <2> SUFFICES ASSUME GraphIInv, [GraphNext]_graphVars
               PROVE  GraphIInv'
    OBVIOUS
  <2>1. CASE FindJoinPaths
    BY <2>1, FindJoinPathsKeeps
  <2>2. ASSUME NEW a \in Positions, NEW b \in Positions, AddFk(a, b)
        PROVE  GraphIInv'
    <3>1. /\ ~asked' /\ nodes' = nodes /\ joins' = joins
          /\ edges \subseteq edges'
      BY <2>2 DEF AddFk
    <3> QED
      BY <3>1 DEF GraphIInv, NeighboursJoined
  <2>3. CASE UNCHANGED graphVars
    <3>1. /\ asked' = asked /\ nodes' = nodes /\ joins' = joins /\ edges' = edges
      BY <2>3 DEF graphVars
    <3>2. Neighbours' = Neighbours /\ Walks' = Walks
      BY <3>1 DEF Neighbours, Walks, Follows
    <3>3. NeighboursJoined'
      BY <3>1, <3>2 DEF GraphIInv, NeighboursJoined, Related, IsPath, PathEdges
    <3> QED
      BY <3>1, <3>3 DEF GraphIInv
  <2> QED
    BY <2>1, <2>2, <2>3 DEF GraphNext
<1> QED
  BY <1>1, <1>2, PTL DEF GraphSpec

\* For any number of tables, any foreign keys and any choice of shortest paths:
\* the recommended JOINs are foreign keys, and if related tables are not related
\* by them, a table that is related to neither stands between them.
THEOREM UnrelatedTableSeparates == GraphSpec => []OnlyAnUnrelatedTableSeparates
<1>1. GraphIInv => OnlyAnUnrelatedTableSeparates
  <2> SUFFICES ASSUME GraphIInv
               PROVE  OnlyAnUnrelatedTableSeparates
    OBVIOUS
  <2>1. ASSUME asked, NEW a \in nodes, NEW b \in nodes, a < b,
               Related(a, b, edges), ~Related(a, b, joins)
        PROVE  \E c \in nodes : a < c /\ c < b /\ ~Related(a, c, edges)
    BY <2>1, JoinedUpTo
  <2> QED
    BY <2>1 DEF OnlyAnUnrelatedTableSeparates, GraphIInv
<1> QED
  BY <1>1, GraphInvariant, PTL
=============================================================================
