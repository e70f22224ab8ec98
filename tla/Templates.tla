----------------------------- MODULE Templates ------------------------------
(***************************************************************************)
(* Template recommendations (services/template_recommender.py): a scan     *)
(* recommends every executed statement whose question was scored well; an  *)
(* administrator approves the recommendation, which makes a template, or   *)
(* rejects it.  Scans and decisions read from the snapshot of their own    *)
(* session, and nothing in the database keeps a statement from being       *)
(* recommended twice or a recommendation from being decided twice.         *)
(***************************************************************************)
EXTENDS Naturals, FiniteSets

CONSTANTS Statements,   \* rows of message_sql
          Ops,          \* scans and decisions
          Past          \* earlier scans, which wrote what Init finds

ASSUME PastAssumption == Past \cap Ops = {}

VARIABLES
  candidates,  \* executed statements that have a score of at least 0.8
  recs,        \* committed recommendations
  status,      \* their status
  templates,   \* the templates that approvals made
  op           \* scan or decision -> its progress and its transaction

templatesVars == <<candidates, recs, status, templates, op>>

\* A row, named after the scan that wrote it; a template after the approval.
Recs == [sql : Statements, by : Ops \cup Past]
SqlTemplates == [rec : Recs, by : Ops]
Decisions == {"approved", "rejected"}

OpStates ==
  [pc : {"idle", "scan", "decide", "commit", "over", "failed"},
   kind : {"scan"} \cup Decisions,
   todo : SUBSET Statements,   \* candidates still to look at
   view : SUBSET Recs,         \* recommendations in its snapshot
   new : SUBSET Recs,          \* rows the scan inserted
   rec : SUBSET Recs,          \* what is decided
   before : SUBSET Ops]        \* history: what was over when it began

Idle == [pc |-> "idle", kind |-> "scan", todo |-> {}, view |-> {}, new |-> {},
         rec |-> {}, before |-> {}]

-----------------------------------------------------------------------------
\* What earlier scans, overlapping ones included, left pending.
TemplatesInit ==
  /\ candidates \in SUBSET Statements
  /\ recs \in SUBSET [sql : candidates, by : Past]
  /\ status = [r \in recs |-> "pending"]
  /\ templates = {}
  /\ op = [o \in Ops |-> Idle]

\* External: a statement is executed, or the scoring task finds a chunk good
\* for its question.
Qualify(s) ==
  /\ candidates' = candidates \cup {s}
  /\ UNCHANGED <<recs, status, templates, op>>

Over == { o \in Ops : op[o].pc = "over" }

\* The query for candidates is the first read.
BeginScan(o) ==
  /\ op[o].pc = "idle"
  /\ op' = [op EXCEPT ![o].pc = "scan", ![o].todo = candidates,
                      ![o].view = recs, ![o].before = Over]
  /\ UNCHANGED <<candidates, recs, status, templates>>

\* Mutant: only recommendations that are still pending are looked for.
ScanPending(o, s) ==
  LET existing == { r \in op[o].view : r.sql = s /\ status[r] = "pending" }
  IN /\ op[o].pc = "scan" /\ s \in op[o].todo
     /\ \/ /\ existing = {}
           /\ op' = [op EXCEPT ![o].todo = @ \ {s},
                               ![o].new = @ \cup {[sql |-> s, by |-> o]}]
        \/ /\ Cardinality(existing) = 1
           /\ op' = [op EXCEPT ![o].todo = @ \ {s}]
        \/ /\ Cardinality(existing) > 1
           /\ op' = [op EXCEPT ![o].pc = "failed", ![o].new = {}]
     /\ UNCHANGED <<candidates, recs, status, templates>>

\* One candidate: scalar_one_or_none raises if it is recommended twice, and what
\* this scan has inserted is rolled back.
Scan(o, s) ==
  LET existing == { r \in op[o].view : r.sql = s }
  IN /\ op[o].pc = "scan" /\ s \in op[o].todo
     /\ \/ /\ existing = {}
           /\ op' = [op EXCEPT ![o].todo = @ \ {s},
                               ![o].new = @ \cup {[sql |-> s, by |-> o]}]
        \/ /\ Cardinality(existing) = 1
           /\ op' = [op EXCEPT ![o].todo = @ \ {s}]
        \/ /\ Cardinality(existing) > 1
           /\ op' = [op EXCEPT ![o].pc = "failed", ![o].new = {}]
     /\ UNCHANGED <<candidates, recs, status, templates>>

CommitScan(o) ==
  /\ op[o].pc = "scan" /\ op[o].todo = {}
  /\ recs' = recs \cup op[o].new
  /\ status' = [r \in recs' |-> IF r \in recs THEN status[r] ELSE "pending"]
  /\ op' = [op EXCEPT ![o].pc = "over", ![o].new = {}]
  /\ UNCHANGED <<candidates, templates>>

\* Mutant: the status is not looked at.
BeginDecideAny(o, r) ==
  /\ op[o].pc = "idle"
  /\ \E decision \in Decisions :
       op' = [op EXCEPT ![o].pc = "decide", ![o].kind = decision,
                        ![o].rec = {r}, ![o].before = Over]
  /\ UNCHANGED <<candidates, recs, status, templates>>

\* session.get, and the status it shows; if it is not pending nothing is done.
BeginDecide(o, r) ==
  /\ op[o].pc = "idle" /\ status[r] = "pending"
  /\ \E decision \in Decisions :
       op' = [op EXCEPT ![o].pc = "decide", ![o].kind = decision,
                        ![o].rec = {r}, ![o].before = Over]
  /\ UNCHANGED <<candidates, recs, status, templates>>

\* The flush of the commit: INSERT of the template, UPDATE of the status by id,
\* which waits for another decision on the same row and overrules it.
Decide(o) ==
  /\ op[o].pc = "decide"
  /\ \A p \in Ops \ {o} : op[p].pc = "commit" => op[p].rec # op[o].rec
  /\ op' = [op EXCEPT ![o].pc = "commit"]
  /\ UNCHANGED <<candidates, recs, status, templates>>

CommitDecision(o) ==
  /\ op[o].pc = "commit"
  /\ templates' = templates \cup
       (IF op[o].kind = "approved" THEN [rec : op[o].rec, by : {o}] ELSE {})
  /\ status' = [r \in recs |-> IF r \in op[o].rec THEN op[o].kind ELSE status[r]]
  /\ op' = [op EXCEPT ![o].pc = "over"]
  /\ UNCHANGED <<candidates, recs>>

\* The connection is lost or the process dies: rolled back.
Lose(o) ==
  /\ op[o].pc \in {"scan", "decide", "commit"}
  /\ op' = [op EXCEPT ![o].pc = "failed", ![o].new = {}]
  /\ UNCHANGED <<candidates, recs, status, templates>>

Step(o) ==
  \/ BeginScan(o) \/ CommitScan(o) \/ Decide(o) \/ CommitDecision(o) \/ Lose(o)
  \/ \E s \in Statements : Scan(o, s)
  \/ \E r \in recs : BeginDecide(o, r)

TemplatesNext == \/ \E o \in Ops : Step(o)
        \/ \E s \in Statements : Qualify(s)

TemplatesSpec == TemplatesInit /\ [][TemplatesNext]_templatesVars

-----------------------------------------------------------------------------
(* What holds. *)

\* The type of every variable.
TemplatesTypeOK ==
  /\ candidates \subseteq Statements
  /\ recs \subseteq Recs
  /\ status \in [recs -> {"pending"} \cup Decisions]
  /\ templates \subseteq SqlTemplates
  /\ op \in [Ops -> OpStates]

Overlap(o, p) == o # p /\ o \notin op[p].before /\ p \notin op[o].before

\* A statement is recommended twice only by scans that overlapped, whatever was
\* decided about the first recommendation.
TwiceOnlyByOverlap ==
  \A r, q \in recs : r.sql = q.sql /\ r # q /\ {r.by, q.by} \subseteq Ops =>
    Overlap(r.by, q.by)

\* Who has decided recommendation r.
Deciders(r) == { o \in Over : op[o].kind # "scan" /\ op[o].rec = {r} }

\* What was decided stands: two decisions about one recommendation were taken
\* at the same time.  Every approval made one template, also one that a decision
\* at the same time overruled, and the status is that of one of the decisions.
DecidedOnce ==
  \A r \in recs :
    /\ \A o, p \in Deciders(r) : o # p => Overlap(o, p)
    /\ \A o \in Ops : [rec |-> r, by |-> o] \in templates <=>
                        o \in Deciders(r) /\ op[o].kind = "approved"
    /\ status[r] = "pending" <=> Deciders(r) = {}
    /\ status[r] # "pending" => \E o \in Deciders(r) : op[o].kind = status[r]

(* What the proofs need besides. *)

\* A scan inserts only what its snapshot does not show; a decision in progress
\* has nobody before it who decided the same row.
InProgress ==
  \A o \in Ops :
    /\ op[o].new # {} => op[o].pc = "scan"
    /\ \A r \in op[o].new : r.by = o /\ \A q \in op[o].view : q.sql # r.sql
    /\ op[o].view \subseteq recs /\ op[o].rec \subseteq recs
    /\ op[o].before \subseteq Over
    /\ op[o].pc = "idle" => op[o] = Idle
    /\ op[o].pc = "scan" => op[o].kind = "scan"
    /\ op[o].pc \in {"decide", "commit"} =>
         /\ op[o].kind \in Decisions
         /\ \E r \in recs : op[o].rec = {r}
         /\ \A p \in op[o].before : op[p].kind = "scan" \/ op[p].rec # op[o].rec

\* The author of a row is over, and what is made a template stays a row.
RecsOfOver == /\ \A r \in recs : r.by \in Ops => r.by \in Over
              /\ \A t \in templates : t.rec \in recs

\* A scan sees what an earlier one committed.
SeenIsPast == \A o \in Ops : \A r \in recs :
                r.by \in op[o].before /\ op[o].kind = "scan" => r \in op[o].view

TemplatesIInv == /\ TemplatesTypeOK /\ TwiceOnlyByOverlap /\ DecidedOnce
        /\ InProgress /\ RecsOfOver /\ SeenIsPast
=============================================================================
