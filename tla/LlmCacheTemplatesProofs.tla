---------------------- MODULE LlmCacheTemplatesProofs -----------------------
(***************************************************************************)
(* That the LLM cache fails a run only for a reason it could not see; and, *)
(* in the second half, that doubled recommendations and decisions of the   *)
(* templates come only from sessions that overlapped, for any statements and *)
(* any number of sessions.                                                 *)
(***************************************************************************)
EXTENDS LlmCache, Templates, TLAPS

\* The row a lookup chooses comes from what the session sees, and fits.
LEMMA CandidatesFit ==
  ASSUME NEW seen \in SUBSET Entries, NEW key \in Keys,
         NEW e \in Candidates(seen, key)
  PROVE  /\ e \in seen /\ e.key.role = key.role
         /\ <<key.question, e.key.question>> \in Similar
BY SimilarAssumption DEF Candidates, Keys, Entries

\* When the key has a row in sight, a lookup chooses a row of the key.
LEMMA ExactComesFirst ==
  ASSUME NEW seen \in SUBSET Entries, NEW key \in Keys,
         NEW e \in Candidates(seen, key), NEW f \in seen, f.key = key
  PROVE  e.key = key
BY DEF Candidates

\* Nothing is chosen only if the key has no row in sight.
LEMMA NoCandidates ==
  ASSUME NEW seen \in SUBSET Entries, NEW key \in Keys,
         Candidates(seen, key) = {}
  PROVE  \A f \in seen : f.key # key
BY DEF Candidates

LEMMA PromptType ==
  ASSUME TypeOK, NEW r \in Runs, NEW role \in Roles
  PROVE  Prompt(r, role) \in Keys /\ Prompt(r, role).role = role
         /\ Prompt(r, role).question = run[r].question
BY DEF Prompt, Keys, TypeOK, RunStates, Roles

LEMMA SeenType ==
  ASSUME TypeOK, SeesCommitted, NEW r \in Runs
  PROVE  Seen(r) \in SUBSET Entries /\ Seen(r) \subseteq entries
BY DEF TypeOK, SeesCommitted, Seen

LEMMA InitIInv == Init => IInv
<1> SUFFICES ASSUME Init PROVE IInv
  OBVIOUS
<1>1. run \in [Runs -> RunStates]
  <2>1. 0 \in 0..MaxEdition
    BY EditionAssumption
  <2> QED
    BY <2>1 DEF Init, RunStates, Roles
<1>2. TypeOK
  BY <1>1, EditionAssumption DEF Init, TypeOK
<1>3. \A r \in Runs : run[r].pc = "idle"
  BY DEF Init
<1> QED
  BY <1>2, <1>3 DEF Init, IInv, StoresUnseen, FailureExplained, ServedFits,
                    OneEntryPerPrompt, SeesCommitted

-----------------------------------------------------------------------------
(* The invariant step by step.  Only Store changes entries, only Start and *)
(* Lookup change a view, and each step touches the record of one run.      *)

\* What is left of a step once the run it moves has its new record.
LEMMA OneRunMoves ==
  ASSUME TypeOK, NEW r \in Runs, NEW n \in RunStates,
         run' = [run EXCEPT ![r] = n]
  PROVE  /\ run' \in [Runs -> RunStates]
         /\ run'[r] = n
         /\ \A s \in Runs : s # r => run'[s] = run[s]
BY DEF TypeOK

\* A run that neither fails nor is about to store leaves the rest alone.
LEMMA QuietStep ==
  ASSUME IInv, NEW r \in Runs, NEW n \in RunStates,
         run' = [run EXCEPT ![r] = n],
         n.question = run[r].question,
         n.pc # "failed", n.pc # "llm",
         n.pc = "store" => n.role = "sql_generator",
         entries' = entries, edition' = edition, served' = served,
         fresh' \in [Runs -> BOOLEAN], view' \in [Runs -> SUBSET entries],
         \A s \in Runs : s # r => view'[s] = view[s]
  PROVE  IInv'
<1>1. /\ run' \in [Runs -> RunStates]
      /\ run'[r] = n
      /\ \A s \in Runs : s # r => run'[s] = run[s]
  BY OneRunMoves DEF IInv
<1>2. TypeOK'
  BY <1>1 DEF IInv, TypeOK
<1>3. SeesCommitted' /\ OneEntryPerPrompt'
  BY DEF IInv, SeesCommitted, OneEntryPerPrompt
<1>4. ServedFits'
  <2>1. \A s \in Runs : run'[s].question = run[s].question
    BY <1>1
  <2> QED
    BY <2>1 DEF IInv, ServedFits
<1>5. StoresUnseen'
  <2> SUFFICES ASSUME NEW s \in Runs, NEW e \in view'[s],
                      \/ run'[s].pc = "llm"
                      \/ run'[s].pc = "store" /\ run'[s].role = "query_expander",
                      e.key = Prompt(s, "query_expander")'
               PROVE  e.empty
    BY DEF StoresUnseen
  <2>1. s # r
    BY <1>1
  <2> QED
    BY <2>1, <1>1 DEF IInv, StoresUnseen, Prompt
<1>6. FailureExplained'
  <2> SUFFICES ASSUME NEW s \in Runs, run'[s].pc = "failed"
               PROVE  \E e \in entries' :
                        /\ e.key = Prompt(s, run[s].role)'
                        /\ \/ run'[s].role = "sql_generator" \/ e.empty
                           \/ e \notin view'[s]
    BY DEF FailureExplained
  <2>1. s # r
    BY <1>1
  <2> QED
    BY <2>1, <1>1 DEF IInv, FailureExplained, Prompt
<1> QED
  BY <1>2, <1>3, <1>4, <1>5, <1>6 DEF IInv

LEMMA StartIInv ==
  ASSUME IInv, NEW r \in Runs, Start(r)
  PROVE  IInv'
<1> DEFINE n == [run[r] EXCEPT !.pc = "ready", !.edition = edition]
<1>1. run[r] \in RunStates /\ edition \in 0..MaxEdition
  BY DEF IInv, TypeOK
<1>2. /\ n \in RunStates /\ n.pc = "ready"
      /\ n.question = run[r].question
  BY <1>1 DEF RunStates
<1>3. run' = [run EXCEPT ![r] = n]
  BY DEF Start, IInv, TypeOK
<1>4. /\ entries' = entries /\ edition' = edition /\ served' = served
      /\ fresh' \in [Runs -> BOOLEAN] /\ view' \in [Runs -> SUBSET entries]
      /\ \A s \in Runs : s # r => view'[s] = view[s]
  BY DEF Start, IInv, TypeOK, SeesCommitted
<1> HIDE DEF n
<1> QED
  BY <1>2, <1>3, <1>4, QuietStep

LEMMA GenerateIInv ==
  ASSUME IInv, NEW r \in Runs, GenerateSql(r)
  PROVE  IInv'
<1> DEFINE stored == [run[r] EXCEPT !.pc = "store", !.generated = TRUE,
                                    !.role = "sql_generator", !.empty = FALSE]
           again  == [run[r] EXCEPT !.repair = TRUE]
           over   == [run[r] EXCEPT !.pc = "over"]
<1>1. run[r] \in RunStates /\ run[r].pc = "ready"
  BY DEF IInv, TypeOK, GenerateSql
<1>2. \A n \in {stored, again, over} :
        /\ n \in RunStates /\ n.question = run[r].question
        /\ n.pc # "failed" /\ n.pc # "llm"
        /\ n.pc = "store" => n.role = "sql_generator"
  BY <1>1 DEF RunStates, Roles
<1>3. \E n \in {stored, again, over} : run' = [run EXCEPT ![r] = n]
  <2>1. run' = [run EXCEPT ![r] = stored] \/ run' = [run EXCEPT ![r] = again]
          \/ run' = [run EXCEPT ![r] = over]
    BY DEF GenerateSql, IInv, TypeOK
  <2> QED
    BY <2>1
<1>4. /\ entries' = entries /\ edition' = edition /\ served' = served
      /\ fresh' \in [Runs -> BOOLEAN] /\ view' \in [Runs -> SUBSET entries]
      /\ \A s \in Runs : s # r => view'[s] = view[s]
  BY DEF GenerateSql, IInv, TypeOK, SeesCommitted
<1> HIDE DEF stored, again, over
<1> QED
  BY <1>2, <1>3, <1>4, QuietStep

\* The row of the key, if a lookup passed over it, is empty.
LEMMA LookupMiss ==
  ASSUME IInv, NEW r \in Runs, Lookup(r), run' # run
  PROVE  /\ run' = [run EXCEPT ![r].pc = "llm"]
         /\ served' = served
         /\ \A e \in Seen(r) : e.key = Prompt(r, "query_expander") => e.empty
<1> DEFINE key == Prompt(r, "query_expander")
<1>1. key \in Keys
  BY PromptType DEF IInv, Roles
<1>2. Seen(r) \in SUBSET Entries /\ Seen(r) \subseteq entries
  BY SeenType DEF IInv
<1>3. \A e \in Candidates(Seen(r), key) :
        e \in Seen(r) /\ \A f \in Seen(r) : f.key = key => e.key = key
  BY <1>1, <1>2, CandidatesFit, ExactComesFirst
<1>4. Candidates(Seen(r), key) = {} => \A f \in Seen(r) : f.key # key
  BY <1>1, <1>2, NoCandidates
<1>5. \A e, f \in Seen(r) : e.key = f.key => e = f
  BY <1>2 DEF IInv, OneEntryPerPrompt
<1>6. /\ run' = [run EXCEPT ![r].pc = "llm"]
      /\ served' = served
      /\ \/ Candidates(Seen(r), key) = {}
         \/ \E e \in Candidates(Seen(r), key) : e.empty
  BY DEF Lookup
<1> HIDE DEF key
<1>7. \A e \in Seen(r) : e.key = key => e.empty
  BY <1>3, <1>4, <1>5, <1>6
<1> QED
  BY <1>6, <1>7 DEF key

\* What a run is given fits it.
LEMMA LookupHit ==
  ASSUME IInv, NEW r \in Runs, Lookup(r), run' = run
  PROVE  \/ served' = served
         \/ \E e \in entries :
              /\ ~e.empty /\ e.key.role = "query_expander"
              /\ <<run[r].question, e.key.question>> \in Similar
              /\ served' = [served EXCEPT ![r] = @ \cup {e}]
<1> DEFINE key == Prompt(r, "query_expander")
<1>1. /\ key \in Keys /\ key.role = "query_expander"
      /\ key.question = run[r].question
  BY PromptType DEF IInv, Roles
<1>2. Seen(r) \in SUBSET Entries /\ Seen(r) \subseteq entries
  BY SeenType DEF IInv
<1>3. \A e \in Candidates(Seen(r), key) :
        /\ e \in entries /\ e.key.role = "query_expander"
        /\ <<run[r].question, e.key.question>> \in Similar
  BY <1>1, <1>2, CandidatesFit
<1>4. \/ served' = served
      \/ \E e \in Candidates(Seen(r), key) :
           ~e.empty /\ served' = [served EXCEPT ![r] = @ \cup {e}]
  BY DEF Lookup
<1> QED
  BY <1>3, <1>4

LEMMA LookupIInv ==
  ASSUME IInv, NEW r \in Runs, Lookup(r)
  PROVE  IInv'
<1> DEFINE n == [run[r] EXCEPT !.pc = "llm"]
<1>1. /\ run[r].pc = "ready" /\ run[r] \in RunStates
      /\ edition' = edition /\ entries' = entries
      /\ view' = [view EXCEPT ![r] = Seen(r)]
      /\ fresh' \in [Runs -> BOOLEAN]
  BY DEF Lookup, IInv, TypeOK
<1>2. Seen(r) \in SUBSET Entries /\ Seen(r) \subseteq entries
  BY SeenType DEF IInv
<1>3. /\ view' \in [Runs -> SUBSET entries] /\ view'[r] = Seen(r)
      /\ \A s \in Runs : s # r => view'[s] = view[s]
  BY <1>1, <1>2 DEF IInv, TypeOK, SeesCommitted
<1>4. n \in RunStates /\ n.pc = "llm" /\ n.question = run[r].question
      /\ n.edition = run[r].edition /\ n.repair = run[r].repair
  BY <1>1 DEF RunStates
<1>5. CASE run' = run
  <2>1. served' \in [Runs -> SUBSET entries] /\ ServedFits'
    <3>1. served \in [Runs -> SUBSET entries]
      BY DEF IInv, TypeOK, ServedFits
    <3>2. CASE served' = served
      BY <3>1, <3>2, <1>1, <1>5 DEF IInv, ServedFits
    <3>3. CASE served' # served
      <4>1. PICK e \in entries :
              /\ ~e.empty /\ e.key.role = "query_expander"
              /\ <<run[r].question, e.key.question>> \in Similar
              /\ served' = [served EXCEPT ![r] = @ \cup {e}]
        BY <3>3, <1>5, LookupHit
      <4> QED
        BY <3>1, <4>1, <1>1, <1>5 DEF IInv, ServedFits
    <3> QED
      BY <3>2, <3>3
  <2>2. TypeOK'
    BY <2>1, <1>1, <1>3, <1>5 DEF IInv, TypeOK
  <2>3. SeesCommitted' /\ OneEntryPerPrompt'
    BY <1>1, <1>3 DEF IInv, SeesCommitted, OneEntryPerPrompt
  <2>4. StoresUnseen'
    BY <1>1, <1>3, <1>5 DEF IInv, StoresUnseen, Prompt
  <2>5. FailureExplained'
    BY <1>1, <1>3, <1>5 DEF IInv, FailureExplained, Prompt
  <2> QED
    BY <2>1, <2>2, <2>3, <2>4, <2>5 DEF IInv
<1>6. CASE run' # run
  <2>1. /\ run' = [run EXCEPT ![r] = n] /\ served' = served
        /\ \A e \in Seen(r) : e.key = Prompt(r, "query_expander") => e.empty
    BY <1>6, LookupMiss
  <2> HIDE DEF n
  <2>2. /\ run' \in [Runs -> RunStates] /\ run'[r] = n
        /\ \A s \in Runs : s # r => run'[s] = run[s]
    BY <2>1, <1>4, OneRunMoves DEF IInv
  <2>3. TypeOK'
    BY <2>1, <2>2, <1>1, <1>3 DEF IInv, TypeOK
  <2>4. SeesCommitted' /\ OneEntryPerPrompt'
    BY <1>1, <1>3 DEF IInv, SeesCommitted, OneEntryPerPrompt
  <2>5. \A s \in Runs : run'[s].question = run[s].question
    BY <2>2, <1>4
  <2>6. ServedFits'
    BY <2>1, <2>5, <1>1 DEF IInv, ServedFits
  <2>7. StoresUnseen'
    <3>1. Prompt(r, "query_expander")' = Prompt(r, "query_expander")
      BY <2>2, <1>4 DEF Prompt
    <3>2. \A e \in view'[r] : e.key = Prompt(r, "query_expander")' => e.empty
      BY <2>1, <3>1, <1>3
    <3>3. \A s \in Runs : s # r =>
            Prompt(s, "query_expander")' = Prompt(s, "query_expander")
      BY <2>2 DEF Prompt
    <3> QED
      BY <2>2, <3>2, <3>3, <1>3 DEF IInv, StoresUnseen
  <2>8. FailureExplained'
    <3> SUFFICES ASSUME NEW s \in Runs, run'[s].pc = "failed"
                 PROVE  \E e \in entries' :
                          /\ e.key = Prompt(s, run[s].role)'
                          /\ \/ run'[s].role = "sql_generator" \/ e.empty
                             \/ e \notin view'[s]
      BY DEF FailureExplained
    <3>1. s # r
      BY <2>2, <1>4
    <3> QED
      BY <3>1, <2>2, <1>1, <1>3 DEF IInv, FailureExplained, Prompt
  <2> QED
    BY <2>3, <2>4, <2>6, <2>7, <2>8 DEF IInv
<1> QED
  BY <1>5, <1>6

\* The answer is about to be stored by the run that did not find it.
LEMMA AnswerIInv ==
  ASSUME IInv, NEW r \in Runs, Answer(r)
  PROVE  IInv'
<1>1. /\ run[r].pc = "llm" /\ run[r] \in RunStates
      /\ edition' = edition /\ entries' = entries /\ view' = view
      /\ fresh' = fresh /\ served' = served
  BY DEF Answer, IInv, TypeOK
<1>2. PICK n \in RunStates :
        /\ run' = [run EXCEPT ![r] = n]
        /\ n.pc \in {"store", "over"} /\ n.question = run[r].question
        /\ n.edition = run[r].edition /\ n.repair = run[r].repair
  <2> DEFINE stored(empty) == [run[r] EXCEPT !.pc = "store", !.empty = empty,
                                             !.role = "query_expander"]
             over == [run[r] EXCEPT !.pc = "over"]
  <2>1. \/ \E empty \in BOOLEAN : run' = [run EXCEPT ![r] = stored(empty)]
        \/ run' = [run EXCEPT ![r] = over]
    BY DEF Answer, IInv, TypeOK
  <2>2. \A n \in {over, stored(TRUE), stored(FALSE)} :
          /\ n \in RunStates
          /\ n.pc \in {"store", "over"} /\ n.question = run[r].question
          /\ n.edition = run[r].edition /\ n.repair = run[r].repair
    BY <1>1 DEF RunStates, Roles
  <2>3. \E n \in {over, stored(TRUE), stored(FALSE)} :
          run' = [run EXCEPT ![r] = n]
    <3> HIDE DEF stored, over
    <3> QED
      BY <2>1
  <2> HIDE DEF stored, over
  <2> QED
    BY <2>2, <2>3
<1>3. /\ run' \in [Runs -> RunStates] /\ run'[r] = n
      /\ \A s \in Runs : s # r => run'[s] = run[s]
  BY <1>2, OneRunMoves DEF IInv
<1>4. TypeOK' /\ SeesCommitted' /\ OneEntryPerPrompt'
  BY <1>1, <1>3 DEF IInv, TypeOK, SeesCommitted, OneEntryPerPrompt
<1>5. ServedFits'
  <2>1. \A s \in Runs : run'[s].question = run[s].question
    BY <1>2, <1>3
  <2> QED
    BY <2>1, <1>1 DEF IInv, ServedFits
<1>6. StoresUnseen'
  <2>1. \A s \in Runs : Prompt(s, "query_expander")' = Prompt(s, "query_expander")
    BY <1>2, <1>3 DEF Prompt
  <2> QED
    BY <2>1, <1>1, <1>3 DEF IInv, StoresUnseen
<1>7. FailureExplained'
  <2> SUFFICES ASSUME NEW s \in Runs, run'[s].pc = "failed"
               PROVE  \E e \in entries' :
                        /\ e.key = Prompt(s, run[s].role)'
                        /\ \/ run'[s].role = "sql_generator" \/ e.empty
                           \/ e \notin view'[s]
    BY DEF FailureExplained
  <2>1. s # r
    BY <1>2, <1>3
  <2> QED
    BY <2>1, <1>1, <1>3 DEF IInv, FailureExplained, Prompt
<1> QED
  BY <1>4, <1>5, <1>6, <1>7 DEF IInv

\* The unique key turns the insert of what the run has not seen into a failure
\* that another run's row explains, and keeps the rows apart.
LEMMA StoreIInv ==
  ASSUME IInv, NEW r \in Runs, Store(r)
  PROVE  IInv'
<1> DEFINE key == Prompt(r, run[r].role)
           row == [key |-> key, empty |-> run[r].empty]
<1>1. /\ run[r].pc = "store" /\ run[r] \in RunStates /\ run[r].role \in Roles
      /\ run[r].empty \in BOOLEAN
      /\ edition' = edition /\ view' = view /\ served' = served
  BY DEF Store, IInv, TypeOK, RunStates
<1>2. key \in Keys /\ row \in Entries /\ row.key = key
  BY <1>1, PromptType DEF IInv, Entries
<1>3. PICK n \in RunStates :
        /\ run' = [run EXCEPT ![r] = n]
        /\ n.role = run[r].role /\ n.question = run[r].question
        /\ n.edition = run[r].edition /\ n.repair = run[r].repair
        /\ \/ n.pc = "failed" /\ entries' = entries /\ fresh' = fresh
              /\ \E e \in entries : e.key = key
           \/ n.pc = "ready" /\ entries' = entries \cup {row}
              /\ fresh' = [fresh EXCEPT ![r] = TRUE]
              /\ ~\E e \in entries : e.key = key
  <2> DEFINE m(pc) == [run[r] EXCEPT !.pc = pc]
  <2>1. \A pc \in {"failed", "ready"} :
          /\ m(pc) \in RunStates /\ m(pc).pc = pc
          /\ m(pc).role = run[r].role /\ m(pc).question = run[r].question
          /\ m(pc).edition = run[r].edition /\ m(pc).repair = run[r].repair
    BY <1>1 DEF RunStates
  <2>2. CASE \E e \in entries : e.key = key
    <3>1. /\ run' = [run EXCEPT ![r] = m("failed")]
          /\ entries' = entries /\ fresh' = fresh
      BY <2>2 DEF Store
    <3> HIDE DEF m, key, row
    <3> QED
      BY <2>1, <2>2, <3>1
  <2>3. CASE ~\E e \in entries : e.key = key
    <3>1. /\ run' = [run EXCEPT ![r] = m("ready")]
          /\ entries' = entries \cup {row}
          /\ fresh' = [fresh EXCEPT ![r] = TRUE]
      BY <2>3 DEF Store
    <3> HIDE DEF m, key, row
    <3> QED
      BY <2>1, <2>3, <3>1
  <2> QED
    BY <2>2, <2>3
<1>4. /\ run' \in [Runs -> RunStates] /\ run'[r] = n
      /\ \A s \in Runs : s # r => run'[s] = run[s]
  BY <1>3, OneRunMoves DEF IInv
<1>5. \A s \in Runs, role \in Roles : Prompt(s, role)' = Prompt(s, role)
  BY <1>3, <1>4 DEF Prompt
<1>6. key = Prompt(r, run[r].role)
  OBVIOUS
<1> HIDE DEF key, row
<1>7. TypeOK'
  BY <1>1, <1>2, <1>3, <1>4 DEF IInv, TypeOK
<1>8. entries \subseteq entries' /\ SeesCommitted'
  BY <1>1, <1>3 DEF IInv, SeesCommitted
<1>9. OneEntryPerPrompt'
  BY <1>2, <1>3 DEF IInv, OneEntryPerPrompt
<1>10. ServedFits'
  <2>1. \A s \in Runs : run'[s].question = run[s].question
    BY <1>3, <1>4
  <2> QED
    BY <2>1, <1>1, <1>8 DEF IInv, ServedFits
<1>11. StoresUnseen'
  <2> SUFFICES ASSUME NEW s \in Runs, NEW e \in view'[s],
                      \/ run'[s].pc = "llm"
                      \/ run'[s].pc = "store" /\ run'[s].role = "query_expander",
                      e.key = Prompt(s, "query_expander")'
               PROVE  e.empty
    BY DEF StoresUnseen
  <2>1. s # r
    BY <1>3, <1>4
  <2> QED
    BY <2>1, <1>1, <1>4 DEF IInv, StoresUnseen, Prompt
<1>12. FailureExplained'
  <2> SUFFICES ASSUME NEW s \in Runs, run'[s].pc = "failed"
               PROVE  \E e \in entries' :
                        /\ e.key = Prompt(s, run[s].role)'
                        /\ \/ run'[s].role = "sql_generator" \/ e.empty
                           \/ e \notin view'[s]
    BY DEF FailureExplained
  <2>1. CASE s = r
    <3>1. n.pc = "failed" /\ \E e \in entries : e.key = key
      BY <2>1, <1>3, <1>4
    <3>2. PICK e \in entries : e.key = key
      BY <3>1
    <3>3. e.key = Prompt(r, run[r].role)'
      BY <3>2, <1>1, <1>3, <1>4, <1>5, <1>6
    <3>4. \/ run[r].role = "sql_generator" \/ e.empty \/ e \notin view[r]
      BY <3>2, <1>1, <1>6 DEF IInv, StoresUnseen, Roles
    <3> QED
      BY <2>1, <3>2, <3>3, <3>4, <1>1, <1>3, <1>4, <1>8
  <2>2. CASE s # r
    BY <2>2, <1>1, <1>4, <1>8 DEF IInv, FailureExplained, Prompt
  <2> QED
    BY <2>1, <2>2
<1> QED
  BY <1>7, <1>8, <1>9, <1>10, <1>11, <1>12 DEF IInv

LEMMA ReopenOrEditIInv ==
  ASSUME IInv, Edit \/ \E r \in Runs : Reopen(r)
  PROVE  IInv'
<1>1. /\ entries' = entries /\ run' = run /\ view' = view /\ served' = served
      /\ fresh' \in [Runs -> BOOLEAN] /\ edition' \in 0..MaxEdition
  <2>1. fresh \in [Runs -> BOOLEAN] /\ edition \in 0..MaxEdition
    BY DEF IInv, TypeOK
  <2>2. CASE Edit
    BY <2>1, <2>2, EditionAssumption DEF Edit
  <2>3. CASE \E r \in Runs : Reopen(r)
    BY <2>1, <2>3 DEF Reopen
  <2> QED
    BY <2>2, <2>3
<1>2. TypeOK' /\ SeesCommitted' /\ OneEntryPerPrompt'
  BY <1>1 DEF IInv, TypeOK, SeesCommitted, OneEntryPerPrompt
<1>3. ServedFits' /\ StoresUnseen' /\ FailureExplained'
  BY <1>1 DEF IInv, ServedFits, StoresUnseen, FailureExplained, Prompt
<1> QED
  BY <1>2, <1>3 DEF IInv

LEMMA StutterIInv ==
  ASSUME IInv, UNCHANGED vars
  PROVE  IInv'
<1>1. TypeOK' /\ SeesCommitted' /\ OneEntryPerPrompt'
  BY DEF IInv, vars, TypeOK, SeesCommitted, OneEntryPerPrompt
<1>2. ServedFits' /\ StoresUnseen' /\ FailureExplained'
  BY DEF IInv, vars, ServedFits, StoresUnseen, FailureExplained, Prompt
<1> QED
  BY <1>1, <1>2 DEF IInv

-----------------------------------------------------------------------------
(* The theorems about the cache. *)

\* The inductive invariant of the cache: every row, view, run and hit is what
\* Init and the actions of the service leave behind.
THEOREM CacheInvariant == Spec => []IInv
<1>1. ASSUME IInv, [Next]_vars PROVE IInv'
  BY <1>1, StartIInv, LookupIInv, AnswerIInv, GenerateIInv, StoreIInv,
     ReopenOrEditIInv, StutterIInv DEF Next
<1> QED
  BY <1>1, InitIInv, PTL DEF Spec

\* However the runs' snapshots, answers and inserts interleave, LlmCache.set
\* raises in a role that is looked up only over a row the lookup could not see,
\* or whose empty response LlmService did not take for an answer.
THEOREM FailuresAreExplained == Spec => []FailureExplained
<1>1. IInv => FailureExplained
  BY DEF IInv
<1> QED
  BY <1>1, CacheInvariant, PTL

\* What LlmCache.get hands to LlmService is an answer of the role asked, to a
\* question similar to the one asked, and is in the table.
THEOREM HitsFit == Spec => []ServedFits
<1>1. IInv => ServedFits
  BY DEF IInv
<1> QED
  BY <1>1, CacheInvariant, PTL

\* llm_cache_entries holds one row for a prompt, whoever inserts at a time.
THEOREM RowsAreUnique == Spec => []OneEntryPerPrompt
<1>1. IInv => OneEntryPerPrompt
  BY DEF IInv
<1> QED
  BY <1>1, CacheInvariant, PTL

-----------------------------------------------------------------------------
(* Template recommendations: the initial states. *)

LEMMA InitTemplates == TemplatesInit => TemplatesIInv
<1> SUFFICES ASSUME TemplatesInit PROVE TemplatesIInv
  OBVIOUS
<1>1. /\ recs \subseteq Recs /\ candidates \subseteq Statements
      /\ \A r \in recs : r.by \notin Ops
  BY PastAssumption DEF TemplatesInit, Recs
<1>2. Idle \in OpStates /\ Over = {} /\ \A o \in Ops : op[o] = Idle
  BY DEF TemplatesInit, Idle, OpStates, Over
<1>3. TemplatesTypeOK
  BY <1>1, <1>2 DEF TemplatesInit, TemplatesTypeOK, SqlTemplates
<1>4. TwiceOnlyByOverlap /\ RecsOfOver /\ SeenIsPast
  BY <1>1, <1>2 DEF TemplatesInit, TwiceOnlyByOverlap, RecsOfOver, SeenIsPast, Idle
<1>5. DecidedOnce
  BY <1>2 DEF TemplatesInit, DecidedOnce, Deciders
<1>6. InProgress
  BY <1>2 DEF InProgress, Idle
<1> QED
  BY <1>3, <1>4, <1>5, <1>6 DEF TemplatesIInv

-----------------------------------------------------------------------------
(* Steps of a session that is not over, and leaves what is committed. *)

\* What the invariant asks of a session by itself, if n is its record.
Fits(o, n) ==
  /\ n.new # {} => n.pc = "scan"
  /\ \A r \in n.new : r.by = o /\ \A q \in n.view : q.sql # r.sql
  /\ n.view \subseteq recs /\ n.rec \subseteq recs /\ n.before \subseteq Over
  /\ n.pc = "scan" => n.kind = "scan"
  /\ n.pc \in {"decide", "commit"} =>
       /\ n.kind \in Decisions
       /\ \E r \in recs : n.rec = {r}
       /\ \A p \in n.before : op[p].kind = "scan" \/ op[p].rec # n.rec
  /\ \A r \in recs : r.by \in n.before /\ n.kind = "scan" => r \in n.view

LEMMA Fit ==
  ASSUME TemplatesIInv, NEW o \in Ops
  PROVE  /\ op[o] \in OpStates /\ Fits(o, op[o])
         /\ op[o].pc = "idle" => op[o] = Idle
BY DEF TemplatesIInv, TemplatesTypeOK, InProgress, SeenIsPast, Fits

LEMMA QuietTemplates ==
  ASSUME TemplatesIInv, NEW o \in Ops, NEW n \in OpStates,
         op' = [op EXCEPT ![o] = n],
         UNCHANGED <<candidates, recs, status, templates>>,
         op[o].pc # "over", n.pc # "over", n.pc # "idle",
         Fits(o, n)
  PROVE  TemplatesIInv'
<1>1. /\ op' \in [Ops -> OpStates] /\ op'[o] = n
      /\ \A p \in Ops : p # o => op'[p] = op[p]
  BY DEF TemplatesIInv, TemplatesTypeOK
<1>2. Over' = Over /\ o \notin Over
  BY <1>1 DEF Over
<1>3. \A p \in Over : op'[p] = op[p]
  BY <1>1, <1>2 DEF Over
<1>4. TemplatesTypeOK'
  BY <1>1 DEF TemplatesIInv, TemplatesTypeOK
<1>5. \A r : Deciders(r)' = Deciders(r)
  BY <1>2, <1>3 DEF Deciders
<1>6. \A p, q \in Over : Overlap(p, q)' <=> Overlap(p, q)
  BY <1>3 DEF Overlap
<1>7. TwiceOnlyByOverlap'
  BY <1>6 DEF TemplatesIInv, TwiceOnlyByOverlap, RecsOfOver
<1>8. DecidedOnce'
  <2>1. \A r \in recs : /\ \A p \in Deciders(r) : p \in Over /\ op'[p] = op[p]
                        /\ Deciders(r)' = Deciders(r)
    BY <1>3, <1>5 DEF Deciders
  <2> QED
    BY <2>1, <1>6 DEF TemplatesIInv, DecidedOnce
<1>9. InProgress'
  <2>1. \A p \in Ops : \A x \in op'[p].before : x \in Over /\ op'[x] = op[x]
    BY <1>1, <1>3 DEF TemplatesIInv, InProgress, Fits
  <2> SUFFICES ASSUME NEW p \in Ops
               PROVE  InProgress!(p)'
    BY DEF InProgress
  <2> QED
    BY <1>1, <1>2, <2>1 DEF TemplatesIInv, InProgress, Fits
<1>10. RecsOfOver' /\ SeenIsPast'
  BY <1>1, <1>2 DEF TemplatesIInv, RecsOfOver, SeenIsPast, Fits
<1> QED
  BY <1>4, <1>7, <1>8, <1>9, <1>10 DEF TemplatesIInv

LEMMA QualifyIInv ==
  ASSUME TemplatesIInv, NEW s \in Statements, Qualify(s)
  PROVE  TemplatesIInv'
<1>1. TemplatesTypeOK'
  BY DEF TemplatesIInv, TemplatesTypeOK, Qualify
<1>2. Over' = Over
  BY DEF Qualify, Over
<1>3. \A r : Deciders(r)' = Deciders(r)
  BY <1>2 DEF Qualify, Deciders
<1>4. TwiceOnlyByOverlap' /\ DecidedOnce'
  BY <1>3 DEF TemplatesIInv, Qualify, TwiceOnlyByOverlap, DecidedOnce, Overlap
<1>5. InProgress' /\ RecsOfOver' /\ SeenIsPast'
  BY <1>2 DEF TemplatesIInv, Qualify, InProgress, RecsOfOver, SeenIsPast
<1> QED
  BY <1>1, <1>4, <1>5 DEF TemplatesIInv

LEMMA BeginScanIInv ==
  ASSUME TemplatesIInv, NEW o \in Ops, BeginScan(o)
  PROVE  TemplatesIInv'
<1> DEFINE n == [op[o] EXCEPT !.pc = "scan", !.todo = candidates,
                              !.view = recs, !.before = Over]
<1>1. /\ op[o].pc = "idle" /\ op' = [op EXCEPT ![o] = n]
      /\ UNCHANGED <<candidates, recs, status, templates>>
  BY DEF BeginScan, TemplatesIInv, TemplatesTypeOK
<1>2. /\ op[o] \in OpStates /\ op[o].kind = "scan"
      /\ op[o].new = {} /\ op[o].rec = {}
  BY <1>1, Fit DEF Idle
<1>0. candidates \subseteq Statements /\ recs \subseteq Recs /\ Over \subseteq Ops
  BY DEF TemplatesIInv, TemplatesTypeOK, Over
<1>3. /\ n \in OpStates /\ n.pc = "scan" /\ n.kind = "scan" /\ n.new = {}
      /\ n.view = recs /\ n.rec = {} /\ n.before = Over
  BY <1>0, <1>2 DEF OpStates
<1> HIDE DEF n
<1>4. Fits(o, n)
  BY <1>3 DEF Fits
<1> QED
  BY <1>1, <1>3, <1>4, QuietTemplates

LEMMA ScanIInv ==
  ASSUME TemplatesIInv, NEW o \in Ops, NEW s \in Statements, Scan(o, s)
  PROVE  TemplatesIInv'
<1> DEFINE existing == { r \in op[o].view : r.sql = s }
           row == [sql |-> s, by |-> o]
<1>1. op[o].pc = "scan" /\ s \in op[o].todo /\ op[o] \in OpStates
  BY Fit DEF Scan
<1>2. CASE existing = {} /\ op' = [op EXCEPT ![o].todo = @ \ {s},
                                             ![o].new = @ \cup {row}]
  <2> DEFINE n == [op[o] EXCEPT !.todo = @ \ {s}, !.new = @ \cup {row}]
  <2>1. op' = [op EXCEPT ![o] = n]
    BY <1>2 DEF TemplatesIInv, TemplatesTypeOK
  <2>2. row \in Recs /\ row.by = o /\ \A q \in op[o].view : q.sql # row.sql
    BY <1>2 DEF Recs
  <2>3. /\ n \in OpStates /\ n.pc = "scan" /\ n.kind = op[o].kind
        /\ n.new = op[o].new \cup {row} /\ n.view = op[o].view
        /\ n.rec = op[o].rec /\ n.before = op[o].before
    BY <1>1, <2>2 DEF OpStates
  <2> HIDE DEF n, row
  <2>4. \A r \in n.new : r.by = o /\ \A q \in n.view : q.sql # r.sql
    BY <2>2, <2>3, Fit DEF Fits
  <2>5. Fits(o, n)
    BY <1>1, <2>3, <2>4, Fit DEF Fits
  <2> QED
    BY <1>1, <2>1, <2>3, <2>5, QuietTemplates DEF Scan
<1>3. CASE op' = [op EXCEPT ![o].todo = @ \ {s}]
  <2> DEFINE n == [op[o] EXCEPT !.todo = @ \ {s}]
  <2>1. op' = [op EXCEPT ![o] = n]
    BY <1>3 DEF TemplatesIInv, TemplatesTypeOK
  <2>2. /\ n \in OpStates /\ n.pc = "scan" /\ n.kind = op[o].kind
        /\ n.new = op[o].new /\ n.view = op[o].view
        /\ n.rec = op[o].rec /\ n.before = op[o].before
    BY <1>1 DEF OpStates
  <2> HIDE DEF n
  <2>3. Fits(o, n)
    BY <1>1, <2>2, Fit DEF Fits
  <2> QED
    BY <1>1, <2>1, <2>2, <2>3, QuietTemplates DEF Scan
<1>4. CASE op' = [op EXCEPT ![o].pc = "failed", ![o].new = {}]
  <2> DEFINE n == [op[o] EXCEPT !.pc = "failed", !.new = {}]
  <2>1. op' = [op EXCEPT ![o] = n]
    BY <1>4 DEF TemplatesIInv, TemplatesTypeOK
  <2>2. /\ n \in OpStates /\ n.pc = "failed" /\ n.kind = op[o].kind
        /\ n.new = {} /\ n.view = op[o].view
        /\ n.rec = op[o].rec /\ n.before = op[o].before
    BY <1>1 DEF OpStates
  <2> HIDE DEF n
  <2>3. Fits(o, n)
    BY <1>1, <2>2, Fit DEF Fits
  <2> QED
    BY <1>1, <2>1, <2>2, <2>3, QuietTemplates DEF Scan
<1> QED
  BY <1>2, <1>3, <1>4 DEF Scan

LEMMA LoseIInv ==
  ASSUME TemplatesIInv, NEW o \in Ops, Lose(o)
  PROVE  TemplatesIInv'
<1> DEFINE n == [op[o] EXCEPT !.pc = "failed", !.new = {}]
<1>1. op' = [op EXCEPT ![o] = n]
  BY DEF Lose, TemplatesIInv, TemplatesTypeOK
<1>0. op[o] \in OpStates
  BY Fit
<1>2. /\ n \in OpStates /\ n.pc = "failed" /\ n.kind = op[o].kind
      /\ n.new = {} /\ n.view = op[o].view
      /\ n.rec = op[o].rec /\ n.before = op[o].before
  BY <1>0 DEF OpStates
<1> HIDE DEF n
<1>3. Fits(o, n)
  BY <1>2, Fit DEF Fits
<1> QED
  BY <1>1, <1>2, <1>3, QuietTemplates DEF Lose

LEMMA BeginDecideIInv ==
  ASSUME TemplatesIInv, NEW o \in Ops, NEW r \in recs, BeginDecide(o, r)
  PROVE  TemplatesIInv'
<1>1. PICK decision \in Decisions :
        op' = [op EXCEPT ![o].pc = "decide", ![o].kind = decision,
                         ![o].rec = {r}, ![o].before = Over]
  BY DEF BeginDecide
<1> DEFINE n == [op[o] EXCEPT !.pc = "decide", !.kind = decision,
                              !.rec = {r}, !.before = Over]
<1>2. op' = [op EXCEPT ![o] = n]
  BY <1>1 DEF TemplatesIInv, TemplatesTypeOK
<1>3. /\ op[o] \in OpStates /\ op[o].pc = "idle"
      /\ op[o].new = {} /\ op[o].view = {}
  BY Fit DEF BeginDecide, Idle
<1>4. r \in Recs /\ Over \subseteq Ops /\ recs \subseteq Recs
  BY DEF TemplatesIInv, TemplatesTypeOK, Over
<1>5. /\ n \in OpStates /\ n.pc = "decide" /\ n.kind = decision
      /\ n.new = {} /\ n.view = {} /\ n.rec = {r} /\ n.before = Over
  BY <1>3, <1>4 DEF OpStates, Decisions
<1>6. decision # "scan"
  BY DEF Decisions
<1>7. Deciders(r) = {}
  BY DEF BeginDecide, TemplatesIInv, DecidedOnce
<1>8. \A p \in Over : op[p].kind = "scan" \/ op[p].rec # {r}
  BY <1>7 DEF Deciders
<1> HIDE DEF n
<1>9. Fits(o, n)
  BY <1>5, <1>6, <1>8 DEF Fits
<1> QED
  BY <1>2, <1>3, <1>5, <1>9, QuietTemplates DEF BeginDecide

LEMMA DecideIInv ==
  ASSUME TemplatesIInv, NEW o \in Ops, Decide(o)
  PROVE  TemplatesIInv'
<1> DEFINE n == [op[o] EXCEPT !.pc = "commit"]
<1>1. op' = [op EXCEPT ![o] = n] /\ op[o].pc = "decide"
  BY DEF Decide, TemplatesIInv, TemplatesTypeOK
<1>2. /\ n \in OpStates /\ n.pc = "commit" /\ n.kind = op[o].kind
      /\ n.new = op[o].new /\ n.view = op[o].view
      /\ n.rec = op[o].rec /\ n.before = op[o].before
  BY Fit DEF OpStates
<1> HIDE DEF n
<1>3. Fits(o, n)
  BY <1>1, <1>2, Fit DEF Fits
<1> QED
  BY <1>1, <1>2, <1>3, QuietTemplates DEF Decide

-----------------------------------------------------------------------------
(* The two commits. *)

LEMMA CommitScanIInv ==
  ASSUME TemplatesIInv, NEW o \in Ops, CommitScan(o)
  PROVE  TemplatesIInv'
<1> DEFINE n == [op[o] EXCEPT !.pc = "over", !.new = {}]
<1>1. /\ op[o] \in OpStates /\ Fits(o, op[o]) /\ op[o].pc = "scan"
      /\ recs \subseteq Recs /\ op[o].new \subseteq Recs
      /\ recs' = recs \cup op[o].new /\ templates' = templates
      /\ op' = [op EXCEPT ![o] = n]
  <2>1. op[o] \in OpStates /\ Fits(o, op[o]) /\ recs \subseteq Recs
    BY Fit DEF TemplatesIInv, TemplatesTypeOK
  <2> QED
    BY <2>1 DEF CommitScan, TemplatesIInv, TemplatesTypeOK, OpStates
<1>2. /\ n \in OpStates /\ n.pc = "over" /\ n.kind = "scan" /\ n.new = {}
      /\ n.view = op[o].view /\ n.rec = op[o].rec /\ n.before = op[o].before
  BY <1>1 DEF OpStates, Fits
<1> HIDE DEF n
<1>3. /\ op' \in [Ops -> OpStates] /\ op'[o] = n
      /\ \A p \in Ops : p # o => op'[p] = op[p]
  BY <1>1, <1>2 DEF TemplatesIInv, TemplatesTypeOK
<1>4. Over' = Over \cup {o} /\ o \notin Over
  BY <1>1, <1>2, <1>3 DEF Over
<1>5. \A p \in Ops : /\ op'[p].kind = op[p].kind /\ op'[p].view = op[p].view
                     /\ op'[p].before = op[p].before /\ op'[p].rec = op[p].rec
                     /\ op'[p].new \subseteq op[p].new
  BY <1>1, <1>2, <1>3 DEF Fits
<1>6. \A r \in op[o].new : r.by = o /\ \A q \in op[o].view : q.sql # r.sql
  BY <1>1 DEF Fits
<1>7. \A r \in op[o].new : r \notin recs
  BY <1>4, <1>6 DEF TemplatesIInv, RecsOfOver
<1>8. TemplatesTypeOK'
  <2>1. status' \in [recs' -> {"pending"} \cup Decisions]
    BY DEF CommitScan, TemplatesIInv, TemplatesTypeOK
  <2> QED
    BY <1>1, <1>3, <2>1 DEF CommitScan, TemplatesIInv, TemplatesTypeOK
<1>9. TwiceOnlyByOverlap'
  <2>1. \A r \in recs : \A q \in op[o].new :
          r.sql = q.sql /\ r.by \in Ops => Overlap(r.by, o)
    <3> SUFFICES ASSUME NEW r \in recs, NEW q \in op[o].new,
                        r.sql = q.sql, r.by \in Ops
                 PROVE  Overlap(r.by, o)
      OBVIOUS
    <3>1. r \notin op[o].view /\ r.by \in Over
      BY <1>6 DEF TemplatesIInv, RecsOfOver
    <3>2. r.by \notin op[o].before
      BY <1>1, <3>1 DEF Fits
    <3>3. o \notin op[r.by].before
      BY <1>4, Fit DEF Fits
    <3> QED
      BY <1>4, <3>1, <3>2, <3>3 DEF Overlap
  <2>2. \A r, q \in op[o].new : r.sql = q.sql => r = q
    BY <1>1, <1>6 DEF Recs
  <2>3. \A p, q \in Ops : Overlap(p, q)' <=> Overlap(p, q)
    BY <1>5 DEF Overlap
  <2>4. \A p, q \in Ops : Overlap(p, q) => Overlap(q, p)
    BY DEF Overlap
  <2> QED
    BY <1>1, <1>6, <2>1, <2>2, <2>3, <2>4 DEF TemplatesIInv, TwiceOnlyByOverlap
<1>10. \A r : Deciders(r)' = Deciders(r)
  BY <1>1, <1>2, <1>3, <1>4, <1>5 DEF Deciders, Over, Fits
<1>11. \A r \in op[o].new : /\ Deciders(r) = {}
                            /\ \A p \in Ops : [rec |-> r, by |-> p] \notin templates
  <2>1. \A p \in Ops : op[p].rec \subseteq recs
    BY Fit DEF Fits
  <2>2. \A t \in templates : t.rec \in recs
    BY DEF TemplatesIInv, RecsOfOver
  <2> QED
    BY <1>7, <2>1, <2>2 DEF Deciders, Over
<1>12. DecidedOnce'
  <2>1. \A r \in recs : status'[r] = status[r]
    BY DEF CommitScan
  <2>2. \A r \in op[o].new : status'[r] = "pending"
    BY <1>1, <1>7 DEF CommitScan
  <2>3. \A p, q \in Ops : Overlap(p, q)' <=> Overlap(p, q)
    BY <1>5 DEF Overlap
  <2>4. \A r : \A p \in Deciders(r) : p \in Ops
    BY DEF Deciders, Over
  <2> SUFFICES ASSUME NEW r \in recs'
               PROVE  /\ \A p, q \in Deciders(r)' : p # q => Overlap(p, q)'
                      /\ \A p \in Ops : [rec |-> r, by |-> p] \in templates' <=>
                           p \in Deciders(r)' /\ op'[p].kind = "approved"
                      /\ status'[r] = "pending" <=> Deciders(r)' = {}
                      /\ status'[r] # "pending" =>
                           \E p \in Deciders(r)' : op'[p].kind = status'[r]
    BY DEF DecidedOnce
  <2>5. CASE r \in recs
    BY <1>1, <1>5, <1>10, <2>1, <2>3, <2>4, <2>5 DEF TemplatesIInv, DecidedOnce
  <2>6. CASE r \in op[o].new
    BY <1>1, <1>10, <1>11, <2>2, <2>6
  <2> QED
    BY <1>1, <2>5, <2>6
<1>13. InProgress'
  <2> SUFFICES ASSUME NEW p \in Ops
               PROVE  InProgress!(p)'
    BY DEF InProgress
  <2>1. CASE p = o
    BY <1>1, <1>2, <1>3, <1>4, <2>1 DEF Fits
  <2>2. CASE p # o
    <3>1. op'[p] = op[p]
      BY <1>3, <2>2
    <3>2. \A x \in op[p].before : op'[x].kind = op[x].kind /\ op'[x].rec = op[x].rec
      BY <1>5, Fit DEF Fits, Over
    <3> QED
      BY <1>1, <1>4, <3>1, <3>2 DEF TemplatesIInv, InProgress
  <2> QED
    BY <2>1, <2>2
<1>14. RecsOfOver'
  BY <1>1, <1>4, <1>6 DEF TemplatesIInv, RecsOfOver
<1>15. SeenIsPast'
  <2>1. \A p \in Ops : o \notin op[p].before
    BY <1>4, Fit DEF Fits
  <2> QED
    BY <1>1, <1>5, <1>6, <2>1 DEF TemplatesIInv, SeenIsPast
<1> QED
  BY <1>8, <1>9, <1>12, <1>13, <1>14, <1>15 DEF TemplatesIInv

LEMMA CommitDecisionIInv ==
  ASSUME TemplatesIInv, NEW o \in Ops, CommitDecision(o)
  PROVE  TemplatesIInv'
<1> DEFINE n == [op[o] EXCEPT !.pc = "over"]
<1>1. /\ op[o] \in OpStates /\ Fits(o, op[o]) /\ op[o].pc = "commit"
      /\ recs' = recs /\ op' = [op EXCEPT ![o] = n]
  BY Fit DEF CommitDecision, TemplatesIInv, TemplatesTypeOK
<1>2. PICK d \in recs : op[o].rec = {d}
  BY <1>1 DEF Fits
<1>3. /\ n \in OpStates /\ n.pc = "over" /\ n.kind = op[o].kind
      /\ n.new = op[o].new /\ n.view = op[o].view /\ n.rec = {d}
      /\ n.before = op[o].before
  BY <1>1, <1>2 DEF OpStates
<1> HIDE DEF n
<1>4. /\ op' \in [Ops -> OpStates] /\ op'[o] = n
      /\ \A p \in Ops : p # o => op'[p] = op[p]
  BY <1>1, <1>3 DEF TemplatesIInv, TemplatesTypeOK
<1>5. Over' = Over \cup {o} /\ o \notin Over
  BY <1>1, <1>3, <1>4 DEF Over
<1>6. \A p \in Ops : /\ op'[p].kind = op[p].kind /\ op'[p].view = op[p].view
                     /\ op'[p].before = op[p].before /\ op'[p].rec = op[p].rec
                     /\ op'[p].new = op[p].new
  BY <1>2, <1>3, <1>4
<1>7. /\ op[o].kind \in Decisions /\ op[o].kind # "scan"
      /\ op[o].kind # "pending" /\ op[o].new = {}
  BY <1>1 DEF Fits, Decisions
<1>8. \A p, q \in Ops : Overlap(p, q)' <=> Overlap(p, q)
  BY <1>6 DEF Overlap
<1>9. d \in Recs /\ recs \subseteq Recs
  BY DEF TemplatesIInv, TemplatesTypeOK
<1>10. \A r, p : [rec |-> r, by |-> p] \in templates' <=>
         \/ [rec |-> r, by |-> p] \in templates
         \/ op[o].kind = "approved" /\ r = d /\ p = o
  BY <1>2 DEF CommitDecision
<1>11. TemplatesTypeOK'
  <2>1. status' \in [recs' -> {"pending"} \cup Decisions]
    BY <1>1, <1>7 DEF CommitDecision, TemplatesIInv, TemplatesTypeOK
  <2>2. templates' \subseteq SqlTemplates
    BY <1>2, <1>9 DEF CommitDecision, TemplatesIInv, TemplatesTypeOK, SqlTemplates
  <2> QED
    BY <1>1, <1>4, <2>1, <2>2 DEF CommitDecision, TemplatesIInv, TemplatesTypeOK
<1>12. TwiceOnlyByOverlap'
  BY <1>1, <1>8 DEF TemplatesIInv, TwiceOnlyByOverlap
<1>13. \A r, p : p \in Deciders(r)' <=>
         p \in Deciders(r) \/ (p = o /\ r = d)
  <2>1. \A r, p : p \in Deciders(r)' <=>
          p \in Over \cup {o} /\ op[p].kind # "scan" /\ op[p].rec = {r}
    BY <1>5, <1>6 DEF Deciders, Over
  <2>2. \A r, p : p \in Deciders(r) <=>
          p \in Over /\ op[p].kind # "scan" /\ op[p].rec = {r}
    BY DEF Deciders
  <2> QED
    BY <1>2, <1>7, <2>1, <2>2
<1>14. \A p \in Deciders(d) : Overlap(o, p) /\ Overlap(p, o)
  <2> SUFFICES ASSUME NEW p \in Deciders(d)
               PROVE  Overlap(o, p) /\ Overlap(p, o)
    OBVIOUS
  <2>1. p \in Over /\ p \in Ops /\ op[p].kind # "scan" /\ op[p].rec = op[o].rec
    BY <1>2 DEF Deciders, Over
  <2>2. p \notin op[o].before
    BY <1>1, <2>1 DEF Fits
  <2>3. o \notin op[p].before
    BY <1>5, <2>1, Fit DEF Fits
  <2> QED
    BY <1>5, <2>1, <2>2, <2>3 DEF Overlap
<1>15. DecidedOnce'
  <2>1. \A r : \A p \in Deciders(r) : p \in Over /\ p \in Ops
    BY DEF Deciders, Over
  <2>2. status' = [r \in recs |-> IF r = d THEN op[o].kind ELSE status[r]]
    BY <1>2 DEF CommitDecision
  <2>0. \A r \in recs : \A p \in Deciders(r)' : p \in Ops
    BY <1>13, <2>1
  <2> SUFFICES ASSUME NEW r \in recs
               PROVE  /\ \A p, q \in Deciders(r)' : p # q => Overlap(p, q)
                      /\ \A p \in Ops : [rec |-> r, by |-> p] \in templates' <=>
                           p \in Deciders(r)' /\ op[p].kind = "approved"
                      /\ status'[r] = "pending" <=> Deciders(r)' = {}
                      /\ status'[r] # "pending" =>
                           \E p \in Deciders(r)' : op[p].kind = status'[r]
    BY <1>1, <1>6, <1>8, <2>0 DEF DecidedOnce
  <2>3. CASE r = d
    BY <1>7, <1>10, <1>13, <1>14, <2>1, <2>2, <2>3, <1>5 DEF TemplatesIInv, DecidedOnce
  <2>4. CASE r # d
    BY <1>10, <1>13, <2>1, <2>2, <2>4 DEF TemplatesIInv, DecidedOnce
  <2> QED
    BY <2>3, <2>4
<1>16. InProgress'
  <2> SUFFICES ASSUME NEW p \in Ops
               PROVE  InProgress!(p)'
    BY DEF InProgress
  <2>1. CASE p = o
    BY <1>1, <1>3, <1>4, <1>5, <1>7, <2>1 DEF Fits
  <2>2. CASE p # o
    <3>1. op'[p] = op[p]
      BY <1>4, <2>2
    <3>2. \A x \in op[p].before : op'[x].kind = op[x].kind /\ op'[x].rec = op[x].rec
      BY <1>6, Fit DEF Fits, Over
    <3> QED
      BY <1>1, <1>5, <3>1, <3>2 DEF TemplatesIInv, InProgress
  <2> QED
    BY <2>1, <2>2
<1>17. RecsOfOver'
  BY <1>1, <1>2, <1>5 DEF CommitDecision, TemplatesIInv, RecsOfOver
<1>18. SeenIsPast'
  BY <1>1, <1>6 DEF TemplatesIInv, SeenIsPast
<1> QED
  BY <1>11, <1>12, <1>15, <1>16, <1>17, <1>18 DEF TemplatesIInv

-----------------------------------------------------------------------------

LEMMA NextTemplates == TemplatesIInv /\ [TemplatesNext]_templatesVars => TemplatesIInv'
<1> SUFFICES ASSUME TemplatesIInv, [TemplatesNext]_templatesVars PROVE TemplatesIInv'
  OBVIOUS
<1>1. CASE UNCHANGED templatesVars
  <2>1. TemplatesTypeOK' /\ TwiceOnlyByOverlap' /\ RecsOfOver' /\ SeenIsPast'
    BY <1>1 DEF templatesVars, TemplatesIInv, TemplatesTypeOK, TwiceOnlyByOverlap, Overlap, RecsOfOver,
                SeenIsPast, Over
  <2>2. Over' = Over /\ \A r : Deciders(r)' = Deciders(r)
    BY <1>1 DEF templatesVars, Over, Deciders
  <2>3. DecidedOnce' /\ InProgress'
    BY <1>1, <2>2 DEF templatesVars, TemplatesIInv, DecidedOnce, InProgress, Overlap
  <2> QED
    BY <2>1, <2>3 DEF TemplatesIInv
<1>2. CASE \E s \in Statements : Qualify(s)
  BY <1>2, QualifyIInv
<1>3. ASSUME NEW o \in Ops, Step(o) PROVE TemplatesIInv'
  BY <1>3, BeginScanIInv, ScanIInv, CommitScanIInv, BeginDecideIInv, DecideIInv,
     CommitDecisionIInv, LoseIInv DEF Step
<1> QED
  BY <1>1, <1>2, <1>3 DEF TemplatesNext

\* scan_recommendations recommends a statement twice only if two scans, neither
\* of which could see the other, were under way at once.
THEOREM DoublesOnlyByOverlap == TemplatesSpec => []TwiceOnlyByOverlap
<1>1. TemplatesIInv => TwiceOnlyByOverlap
  BY DEF TemplatesIInv
<1> QED
  BY <1>1, InitTemplates, NextTemplates, PTL DEF TemplatesSpec

\* approve_recommendation and reject_recommendation decide a recommendation
\* once, and templates agree with the approvals, but for decisions that were
\* under way at once.
THEOREM DecisionsStand == TemplatesSpec => []DecidedOnce
<1>1. TemplatesIInv => DecidedOnce
  BY DEF TemplatesIInv
<1> QED
  BY <1>1, InitTemplates, NextTemplates, PTL DEF TemplatesSpec

\* The inductive invariant, types included.
THEOREM TemplatesInvariant == TemplatesSpec => []TemplatesIInv
BY InitTemplates, NextTemplates, PTL DEF TemplatesSpec
=============================================================================
