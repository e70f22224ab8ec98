------------------------------ MODULE LlmCache ------------------------------
(***************************************************************************)
(* The LLM cache (cache/llm_cache.py) as the runs of the workflow use it   *)
(* through llm/service.py.  A run keeps one database session.  MySQL gives *)
(* a session a snapshot at its first read after a commit, and all lookups  *)
(* until its next commit read that snapshot; an insert meets what the      *)
(* others have committed meanwhile: the key of an entry is unique.  Between*)
(* a lookup and its insert lies the LLM's answer.                          *)
(*                                                                         *)
(* Two roles stand for all: "query_expander" for the roles that LlmService *)
(* looks up and stores, before and after the SQL (a run may ask the same   *)
(* twice), and "sql_generator" for the two that sql_safety stores.         *)
(***************************************************************************)
EXTENDS Naturals

CONSTANTS Runs,          \* questions that are being answered
          Questions,
          Similar,       \* pairs of questions above semantic_cache_threshold
          MaxEdition     \* bound: edits of prompts and metadata

ASSUME SimilarAssumption == /\ Similar \subseteq Questions \X Questions
                            /\ \A q \in Questions : <<q, q>> \in Similar
ASSUME EditionAssumption == MaxEdition \in Nat

VARIABLES
  edition,  \* what administrators have made of prompts and metadata so far
  entries,  \* the committed rows of llm_cache_entries
  run,      \* run -> where it is and what it is about to store
  view,     \* run -> the rows its snapshot holds
  fresh,    \* run -> will its next read take a new snapshot?
  served    \* run -> history: rows whose response it was given

vars == <<edition, entries, run, view, fresh, served>>

Roles == {"query_expander", "sql_generator"}

\* What a prompt is rendered from; repair: it lists validation errors.
Keys == [role : Roles, question : Questions, edition : 0..MaxEdition,
         repair : BOOLEAN]

\* An empty response is stored like any other.
Entries == [key : Keys, empty : BOOLEAN]

\* Where a run is, what it asks with, and what it is about to store.
RunStates == [pc : {"idle", "ready", "llm", "store", "over", "failed"},
              question : Questions, edition : 0..MaxEdition, repair : BOOLEAN,
              generated : BOOLEAN, role : Roles, empty : BOOLEAN]

Prompt(r, role) == [role |-> role, question |-> run[r].question,
                    edition |-> run[r].edition,
                    repair |-> role = "sql_generator" /\ run[r].repair]

-----------------------------------------------------------------------------
Init ==
  /\ edition = 0
  /\ entries = {}
  /\ run \in [Runs -> [pc : {"idle"}, question : Questions, edition : {0},
                       repair : {FALSE}, generated : {FALSE},
                       role : {"query_expander"}, empty : {FALSE}]]
  /\ view = [r \in Runs |-> {}]
  /\ fresh = [r \in Runs |-> TRUE]
  /\ served = [r \in Runs |-> {}]

\* load_context: the prompts the run will use, and the session's first read.
Start(r) ==
  /\ run[r].pc = "idle"
  /\ run' = [run EXCEPT ![r].pc = "ready", ![r].edition = edition]
  /\ view' = [view EXCEPT ![r] = entries]
  /\ fresh' = [fresh EXCEPT ![r] = FALSE]
  /\ UNCHANGED <<edition, entries, served>>

Seen(r) == IF fresh[r] THEN entries ELSE view[r]

\* Mutant: the exact lookup is left to the similarity, which is 1 anyway.
CandidatesBySimilarity(seen, key) ==
  LET near == { e \in seen : /\ e.key.role = key.role
                             /\ <<key.question, e.key.question>> \in Similar }
      same == { e \in near : e.key.question = key.question }
  IN IF same # {} THEN same ELSE near

\* Mutant: the similarity search forgets the role.
CandidatesOfAnyRole(seen, key) ==
  LET exact == { e \in seen : e.key = key }
      near  == { e \in seen : <<key.question, e.key.question>> \in Similar }
      same  == { e \in near : e.key.question = key.question }
  IN IF exact # {} THEN exact ELSE IF same # {} THEN same ELSE near

\* The rows a lookup may choose: the row of the key, or else, whatever its
\* prompt was, the role's row with the most similar question.
Candidates(seen, key) ==
  LET exact == { e \in seen : e.key = key }
      near  == { e \in seen : /\ e.key.role = key.role
                              /\ <<key.question, e.key.question>> \in Similar }
      same  == { e \in near : e.key.question = key.question }
  IN IF exact # {} THEN exact ELSE IF same # {} THEN same ELSE near

\* LlmService asks the cache.  A hit is logged, which commits; a hit with an
\* empty response is not used.
Lookup(r) ==
  LET key == Prompt(r, "query_expander")
      candidates == Candidates(Seen(r), key)
  IN /\ run[r].pc = "ready"
     /\ view' = [view EXCEPT ![r] = Seen(r)]
     /\ \/ /\ candidates = {}
           /\ run' = [run EXCEPT ![r].pc = "llm"]
           /\ fresh' = [fresh EXCEPT ![r] = FALSE]
           /\ UNCHANGED served
        \/ \E e \in candidates :
             /\ fresh' = [fresh EXCEPT ![r] = TRUE]
             /\ IF e.empty
                THEN /\ run' = [run EXCEPT ![r].pc = "llm"]
                     /\ UNCHANGED served
                ELSE /\ served' = [served EXCEPT ![r] = @ \cup {e}]
                     /\ UNCHANGED run
     /\ UNCHANGED <<edition, entries>>

\* The LLM answers the role that was looked up, or raises.
Answer(r) ==
  /\ run[r].pc = "llm"
  /\ \/ \E empty \in BOOLEAN :
          run' = [run EXCEPT ![r].pc = "store", ![r].empty = empty,
                             ![r].role = "query_expander"]
     \/ run' = [run EXCEPT ![r].pc = "over"]
  /\ UNCHANGED <<edition, entries, view, fresh, served>>

\* sql_generate (which does not look) and sql_safety: a statement that is
\* valid is stored, one that is not may be generated again, and the run may
\* end without any.
GenerateSql(r) ==
  /\ run[r].pc = "ready" /\ ~run[r].generated
  /\ \/ run' = [run EXCEPT ![r].pc = "store", ![r].generated = TRUE,
                           ![r].role = "sql_generator", ![r].empty = FALSE]
     \/ run' = [run EXCEPT ![r].repair = TRUE]
     \/ run' = [run EXCEPT ![r].pc = "over"]
  /\ UNCHANGED <<edition, entries, view, fresh, served>>

\* LlmCache.set: the insert and its commit; a duplicate key fails the run.
Store(r) ==
  LET key == Prompt(r, run[r].role)
  IN /\ run[r].pc = "store"
     /\ IF \E e \in entries : e.key = key
        THEN /\ run' = [run EXCEPT ![r].pc = "failed"]
             /\ UNCHANGED <<entries, fresh>>
        ELSE /\ entries' = entries \cup {[key |-> key, empty |-> run[r].empty]}
             /\ run' = [run EXCEPT ![r].pc = "ready"]
             /\ fresh' = [fresh EXCEPT ![r] = TRUE]
     /\ UNCHANGED <<edition, view, served>>

\* A pause and a resume: the run goes on with another session.
Reopen(r) ==
  /\ run[r].pc = "ready"
  /\ fresh' = [fresh EXCEPT ![r] = TRUE]
  /\ UNCHANGED <<edition, entries, run, view, served>>

\* An administrator activates another prompt or edits metadata.
Edit == /\ edition < MaxEdition
        /\ edition' = edition + 1
        /\ UNCHANGED <<entries, run, view, fresh, served>>

Next == \/ Edit
        \/ \E r \in Runs : \/ Start(r) \/ Lookup(r) \/ Answer(r)
                           \/ GenerateSql(r) \/ Store(r) \/ Reopen(r)

Spec == Init /\ [][Next]_vars

-----------------------------------------------------------------------------
(* What holds. *)

\* The type of every variable.
TypeOK ==
  /\ edition \in 0..MaxEdition
  /\ entries \in SUBSET Entries
  /\ run \in [Runs -> RunStates]
  /\ view \in [Runs -> SUBSET Entries]
  /\ fresh \in [Runs -> BOOLEAN]
  /\ served \in [Runs -> SUBSET Entries]

\* The key of an entry decides it: no run overwrites another's answer, though
\* they insert concurrently and nothing but the database keeps them apart.
OneEntryPerPrompt == \A e, f \in entries : e.key = f.key => e = f

\* For a role that is looked up a run fails in the cache only if another run
\* stored the same prompt behind its snapshot, or if the stored answer is empty.
FailureExplained ==
  \A r \in Runs : run[r].pc = "failed" =>
    \E e \in entries : /\ e.key = Prompt(r, run[r].role)
                       /\ \/ run[r].role = "sql_generator"
                          \/ e.empty
                          \/ e \notin view[r]

\* What a run is given was said in the same role to a similar question, never
\* the SQL of another question or an empty text.
ServedFits ==
  \A r \in Runs : \A e \in served[r] :
    /\ e \in entries /\ ~e.empty
    /\ e.key.role = "query_expander"
    /\ <<run[r].question, e.key.question>> \in Similar

\* A run that is about to store what it did not find has not seen it.
StoresUnseen ==
  \A r \in Runs :
    run[r].pc = "llm" \/ (run[r].pc = "store" /\ run[r].role = "query_expander")
      => \A e \in view[r] : e.key = Prompt(r, "query_expander") => e.empty

SeesCommitted == \A r \in Runs : view[r] \subseteq entries

IInv == /\ TypeOK /\ StoresUnseen /\ FailureExplained /\ ServedFits
        /\ OneEntryPerPrompt
        /\ SeesCommitted
=============================================================================
