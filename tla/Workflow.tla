------------------------------ MODULE Workflow ------------------------------
(***************************************************************************)
(* The LangGraph workflow of backend/graph/workflow.py: one thread (one    *)
(* session) from load_context to END.  A step is one node together with    *)
(* the routing function that follows it, which LangGraph runs in the same  *)
(* super-step; the variables are the GraphState keys that decide control   *)
(* or reach the datasource.  What an LLM answers is any value its parser   *)
(* can return.  Metadata edits by an administrator interleave anywhere: a  *)
(* run holds no lock, and a paused run keeps its state for any time.       *)
(***************************************************************************)
EXTENDS SqlPolicy, Naturals, Sequences

CONSTANTS MaxRagLoops,     \* settings.max_rag_loops
          MaxSqlRetries    \* settings.max_sql_retries

ASSUME LimitsAssumption == MaxRagLoops \in Nat /\ MaxSqlRetries \in Nat

VARIABLES
  pc,               \* the node the checkpoint says is next, or END / ERROR
  intent,
  loop_count,
  sql_retry_count,
  sql_errors,
  sql_valid,
  cannot_answer,
  generated_sql,
  allowed_tables,   \* the whitelist load_context copied into the state
  connection_url,   \* does the state hold a URL (the datasource row exists)?
  query_result,     \* "none" or "rows"
  execution_mode,   \* from the request
  whitelist,        \* TableMetadata.is_allowed, now, in the database
  datasource,       \* does the Datasource row exist?
  executed          \* history: the statements sent to the datasource

request == <<execution_mode, datasource>>
vars == <<pc, intent, loop_count, sql_retry_count, sql_errors, sql_valid,
          cannot_answer, generated_sql, allowed_tables, connection_url,
          query_result, execution_mode, whitelist, datasource, executed>>

Nodes == {"load_context", "intent_classifier", "direct_reply", "rag_router",
          "hybrid_retrieve", "retrieval_judge", "query_expander", "direct_llm",
          "sql_generate", "sql_safety", "execute_or_return",
          "result_summarizer", "finalize"}

Intents == {"query_data", "explain_schema", "chitchat", "reject"}
Modes == {"AUTO", "EXECUTE", "GENERATE_ONLY"}

-----------------------------------------------------------------------------
(* Routing functions. *)

RouteAfterIntent(i) ==
  IF i \in {"chitchat", "reject"} THEN "direct_reply" ELSE "rag_router"

RouteAfterRagRouter(need_rag, i) ==
  CASE need_rag -> "hybrid_retrieve"
    [] ~need_rag /\ i = "query_data" -> "sql_generate"
    [] OTHER -> "direct_llm"

\* Mutant: one retrieval round too many.
RouteAfterJudgeOffByOne(decision, loops) ==
  IF decision = "continue" /\ loops <= MaxRagLoops
    THEN "query_expander" ELSE "sql_generate"

\* "_retrieval_decision" is not a key of GraphState.  A LangGraph that drops
\* unknown keys always leaves the default "sufficient" here, which is one of
\* the two answers the judge may give.
RouteAfterJudge(decision, loops) ==
  IF decision = "continue" /\ loops < MaxRagLoops
    THEN "query_expander" ELSE "sql_generate"

RouteAfterSqlGenerate(unanswerable) ==
  IF unanswerable THEN "finalize" ELSE "sql_safety"

RouteAfterSafety(valid, retries) ==
  IF ~valid /\ retries < MaxSqlRetries
    THEN "sql_generate" ELSE "execute_or_return"

-----------------------------------------------------------------------------
Init ==
  /\ pc = "load_context"
  /\ intent = "query_data"
  /\ loop_count = 0 /\ sql_retry_count = 0
  /\ sql_errors = {} /\ sql_valid = FALSE /\ cannot_answer = FALSE
  /\ generated_sql = EmptySql
  /\ allowed_tables = {} /\ connection_url = FALSE
  /\ query_result = "none"
  /\ execution_mode \in Modes
  /\ whitelist \in SUBSET Tables /\ datasource \in BOOLEAN
  /\ executed = <<>>

LoadContext ==
  /\ pc = "load_context"
  /\ pc' = "intent_classifier"
  /\ loop_count' = 0 /\ sql_retry_count' = 0
  /\ allowed_tables' = IF datasource THEN whitelist ELSE {}
  /\ connection_url' = datasource
  /\ UNCHANGED <<intent, sql_errors, sql_valid, cannot_answer, generated_sql,
                 query_result, request, whitelist, executed>>

IntentClassifier ==
  /\ pc = "intent_classifier"
  /\ intent' \in Intents
  /\ pc' = RouteAfterIntent(intent')
  /\ UNCHANGED <<loop_count, sql_retry_count, sql_errors, sql_valid,
                 cannot_answer, generated_sql, allowed_tables, connection_url,
                 query_result, request, whitelist, executed>>

\* Nodes that touch no control key: they hand over to the next node.
Pass(from, to) ==
  /\ pc = from
  /\ pc' = to
  /\ UNCHANGED <<intent, loop_count, sql_retry_count, sql_errors, sql_valid,
                 cannot_answer, generated_sql, allowed_tables, connection_url,
                 query_result, request, whitelist, executed>>

DirectReply == Pass("direct_reply", "finalize")

RagRouter == \E need_rag \in BOOLEAN :
               Pass("rag_router", RouteAfterRagRouter(need_rag, intent))

HybridRetrieve == Pass("hybrid_retrieve", "retrieval_judge")

RetrievalJudge == \E decision \in {"continue", "sufficient"} :
                    Pass("retrieval_judge", RouteAfterJudge(decision, loop_count))

DirectLlm == Pass("direct_llm", "finalize")

ResultSummarizer == Pass("result_summarizer", "finalize")

Finalize == Pass("finalize", "END")

QueryExpander ==
  /\ pc = "query_expander"
  /\ pc' = "hybrid_retrieve"
  /\ loop_count' = loop_count + 1
  /\ UNCHANGED <<intent, sql_retry_count, sql_errors, sql_valid, cannot_answer,
                 generated_sql, allowed_tables, connection_url, query_result,
                 request, whitelist, executed>>

\* Mutant: the errors are reset before they are looked at.
SqlGenerateLosesCount ==
  /\ pc = "sql_generate"
  /\ sql_errors' = {} /\ sql_valid' = FALSE /\ cannot_answer' = FALSE
  /\ generated_sql' \in SqlTexts
  /\ pc' = RouteAfterSqlGenerate(FALSE)
  /\ UNCHANGED <<intent, loop_count, sql_retry_count, allowed_tables,
                 connection_url, query_result, request, whitelist, executed>>

\* A generation that follows a rejection counts as a retry; the model may
\* answer that no table fits, and may answer with any text as SQL.
SqlGenerate ==
  /\ pc = "sql_generate"
  /\ sql_retry_count' = IF sql_errors # {} THEN sql_retry_count + 1
                                           ELSE sql_retry_count
  /\ sql_errors' = {}
  /\ \/ /\ cannot_answer' = TRUE
        /\ generated_sql' = EmptySql
        /\ sql_valid' = FALSE
     \/ /\ cannot_answer' = FALSE
        /\ generated_sql' \in SqlTexts
        /\ UNCHANGED sql_valid
  /\ pc' = RouteAfterSqlGenerate(cannot_answer')
  /\ UNCHANGED <<intent, loop_count, allowed_tables, connection_url,
                 query_result, request, whitelist, executed>>

SqlSafety ==
  /\ pc = "sql_safety"
  /\ LET result == Validate(generated_sql, allowed_tables)
     IN /\ generated_sql' = result.sql
        /\ sql_valid' = result.valid
        /\ sql_errors' = result.errors
        /\ pc' = RouteAfterSafety(result.valid, sql_retry_count)
  /\ UNCHANGED <<intent, loop_count, sql_retry_count, cannot_answer,
                 allowed_tables, connection_url, query_result, request,
                 whitelist, executed>>

ShouldExecute == /\ sql_valid
                 /\ \/ execution_mode = "EXECUTE"
                    \/ execution_mode = "AUTO" /\ generated_sql # EmptySql
                 /\ connection_url

\* Mutant: an execution that fails asks for another statement.
ExecuteOrRegenerate ==
  /\ pc = "execute_or_return"
  /\ query_result' \in {"rows", "none"}
  /\ pc' = IF ShouldExecute /\ query_result' = "none"
             THEN "sql_generate" ELSE "result_summarizer"
  /\ executed' = IF ShouldExecute THEN Append(executed, generated_sql)
                                  ELSE executed
  /\ ShouldExecute \/ query_result' = "none"
  /\ UNCHANGED <<intent, loop_count, sql_retry_count, sql_errors, sql_valid,
                 cannot_answer, generated_sql, allowed_tables, connection_url,
                 request, whitelist>>

\* The statement may reach the server and give rows or an error, or the
\* connection may fail before it is sent.
ExecuteOrReturn ==
  /\ pc = "execute_or_return"
  /\ pc' = "result_summarizer"
  /\ \/ /\ ShouldExecute
        /\ executed' = Append(executed, generated_sql)
        /\ query_result' \in {"rows", "none"}
     \/ /\ query_result' = "none"
        /\ UNCHANGED executed
  /\ UNCHANGED <<intent, loop_count, sql_retry_count, sql_errors, sql_valid,
                 cannot_answer, generated_sql, allowed_tables, connection_url,
                 request, whitelist>>

\* A node that calls the database, the LLM or Qdrant may raise: the run is
\* over and its thread is never stepped again.
Raises == Nodes \ {"direct_reply", "execute_or_return", "finalize"}
NodeRaises == \E n \in Raises : Pass(n, "ERROR")

NodeStep == \/ LoadContext \/ IntentClassifier \/ DirectReply \/ RagRouter
            \/ HybridRetrieve \/ RetrievalJudge \/ QueryExpander \/ DirectLlm
            \/ SqlGenerate \/ SqlSafety \/ ExecuteOrReturn
            \/ ResultSummarizer \/ Finalize \/ NodeRaises

\* An administrator allows or forbids a table (updateTable) at any moment.
UpdateTable ==
  /\ \E t \in Tables : whitelist' \in {whitelist \cup {t}, whitelist \ {t}}
  /\ UNCHANGED <<pc, intent, loop_count, sql_retry_count, sql_errors,
                 sql_valid, cannot_answer, generated_sql, allowed_tables,
                 connection_url, query_result, request, executed>>

Next == NodeStep \/ UpdateTable

\* asyncio runs every ready task, and each awaited call returns or raises.
Fairness == WF_vars(NodeStep)

Spec == Init /\ [][Next]_vars /\ Fairness
-----------------------------------------------------------------------------
(* What must hold of every run. *)

Retries == sql_retry_count + (IF sql_errors # {} THEN 1 ELSE 0)

\* The type of every variable, with the counters' bounds.
TypeOK ==
  /\ pc \in Nodes \cup {"END", "ERROR"}
  /\ intent \in Intents /\ execution_mode \in Modes
  /\ loop_count \in 0..MaxRagLoops /\ sql_retry_count \in 0..MaxSqlRetries
  /\ sql_errors \in SUBSET Complaints
  /\ sql_valid \in BOOLEAN /\ cannot_answer \in BOOLEAN
  /\ generated_sql \in SqlTexts
  /\ allowed_tables \in SUBSET Tables /\ whitelist \in SUBSET Tables
  /\ connection_url \in BOOLEAN /\ datasource \in BOOLEAN
  /\ query_result \in {"none", "rows"}
  /\ executed \in Seq(SqlTexts)

\* Whatever the model answers, retries included, and whatever is edited
\* meanwhile, only a SELECT that is Safe for the tables this run was allowed
\* reaches the datasource, and only in a mode that executes.
ExecutedSafely ==
  \A i \in DOMAIN executed : /\ Safe(executed[i], allowed_tables)
                             /\ execution_mode # "GENERATE_ONLY"
                             /\ connection_url

\* A run sends at most one statement: neither a retry of the generation nor a
\* failure of the datasource makes it execute again.
ExecutedAtMostOnce == Len(executed) <= 1

\* sql_generate replaces generated_sql and leaves sql_valid as it was; the
\* routing alone keeps the flag from vouching for a text nobody validated.
ValidMeansSafe == sql_valid => Safe(generated_sql, allowed_tables)

\* The rows and the SQL that the user (and result_summarizer) see together
\* belong together.
ResultIsOfShownSql == query_result = "rows" => executed = <<generated_sql>>

\* A question the model declared unanswerable never touches the datasource.
NothingRunsUnanswered == cannot_answer => executed = <<>>

\* Super-steps that are left at most.  Each retrieval round costs three, each
\* repaired generation two; a pending complaint has used up its retry.
Variant ==
  LET S == 2 * MaxSqlRetries
      L == 3 * MaxRagLoops
      gen == 5 + S - 2 * Retries
      ret == S + L - 3 * loop_count
  IN CASE pc = "load_context"      -> 10 + S + L
       [] pc = "intent_classifier" -> 9 + S + L
       [] pc = "rag_router"        -> 8 + S + L
       [] pc = "hybrid_retrieve"   -> 7 + ret
       [] pc = "retrieval_judge"   -> 6 + ret
       [] pc = "query_expander"    -> 5 + ret
       [] pc = "sql_generate"      -> gen
       [] pc = "sql_safety"        -> gen - 1
       [] pc = "execute_or_return" -> 3
       [] pc \in {"direct_reply", "direct_llm", "result_summarizer"} -> 2
       [] pc = "finalize"          -> 1
       [] OTHER                    -> 0

\* Every super-step uses up some of the variant, so a run has at most
\* 10 + 2 * max_sql_retries + 3 * max_rag_loops of them (20 by default, below
\* the 25 at which LangGraph raises GraphRecursionError).
VariantDecreases ==
  [][pc' # pc => Variant' < Variant /\ Variant' >= 0]_vars

\* Every run that is not paused reaches END or fails.
Termination == <>(pc \in {"END", "ERROR"})

-----------------------------------------------------------------------------
(* The inductive invariant behind them. *)

BeforeGeneration == {"load_context", "intent_classifier", "direct_reply",
                     "rag_router", "hybrid_retrieve", "retrieval_judge",
                     "query_expander", "direct_llm"}
BeforeExecution == BeforeGeneration \cup
                   {"sql_generate", "sql_safety", "execute_or_return"}

CountersInv ==
  /\ Retries <= MaxSqlRetries \/ pc \notin {"sql_generate", "sql_safety"}
  /\ pc = "query_expander" => loop_count < MaxRagLoops
  /\ pc \in BeforeGeneration \cup {"sql_safety"} => sql_errors = {}
  /\ pc \in BeforeGeneration => sql_retry_count = 0
  /\ pc \in {"load_context", "intent_classifier", "rag_router"} =>
       loop_count = 0

FlagsInv ==
  /\ pc \in BeforeGeneration \cup {"sql_generate", "sql_safety"} => ~sql_valid
  /\ pc \in {"sql_safety", "execute_or_return", "result_summarizer"} =>
       ~cannot_answer
  /\ pc \in BeforeGeneration => ~cannot_answer

ExecutionInv ==
  /\ pc \in BeforeExecution => executed = <<>> /\ query_result = "none"
  /\ executed # <<>> => /\ executed = <<generated_sql>>
                        /\ sql_valid /\ ~cannot_answer /\ connection_url
                        /\ execution_mode # "GENERATE_ONLY"
  /\ executed = <<>> => query_result = "none"

IInv == TypeOK /\ CountersInv /\ FlagsInv /\ ExecutionInv /\ ValidMeansSafe
=============================================================================
