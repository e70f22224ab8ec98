------------------------------ MODULE Settings ------------------------------
(***************************************************************************)
(* Prompt versions and the row limit (db/prompts.py, db/system_config.py). *)
(* Whoever edits them does it in a session of its own: the API at startup, *)
(* the administrator, the scripts.  A session reads from the snapshot that *)
(* its first read takes; its UPDATE of a role sees what is committed, and  *)
(* locks the role, the gap for new versions included, until the end of the *)
(* transaction; unique keys are checked against what is committed.         *)
(***************************************************************************)
EXTENDS Integers, FiniteSets

CONSTANTS Roles,         \* the keys of DEFAULT_PROMPTS
          Ops,           \* sessions that edit
          MaxVersion,    \* bound: versions of a role
          Limits,        \* row limits, all positive
          DefaultLimit   \* settings.default_sql_limit

ASSUME SettingsAssumption ==
  /\ MaxVersion \in Nat \ {0}
  /\ Limits \subseteq Nat \ {0} /\ DefaultLimit \in Limits

VARIABLES
  up,       \* some API process has started: mutations can arrive
  rows,     \* committed versions
  active,   \* those with is_active
  limit,    \* the committed row limit, 0 if there is no row
  op,       \* session -> its progress and its transaction
  chosen,   \* history: the versions whose activation committed last
  said      \* history: the limit that was acknowledged last

vars == <<up, rows, active, limit, op, chosen, said>>

Versions == [role : Roles, version : 1..MaxVersion]
OfRole(set, r) == { x \in set : x.role = r }
First(r) == [role |-> r, version |-> 1]
NoLimit == 0

Kinds == {"startup", "seed", "create", "activate", "upgrade", "set_limit"}
Seeds == {"startup", "seed"}

OpStates ==
  [pc : {"idle", "seed", "next", "update", "insert", "commit", "refresh",
         "limit", "write", "end", "over", "failed"},
   kind : Kinds,
   todo : SUBSET Roles,           \* the roles still to come
   cur : SUBSET Roles,            \* the one it is at
   activates : BOOLEAN,
   target : SUBSET Versions,      \* the version to activate
   seen : SUBSET Versions,        \* the snapshot: versions
   live : SUBSET Versions,        \* ... and which of them were active
   held : SUBSET Roles,           \* roles it updated, and locked
   new : SUBSET Versions,         \* rows it inserted
   on : SUBSET Versions,          \* rows it set active
   value : Limits,                \* the limit to set
   found : Limits \cup {NoLimit}, \* the snapshot: the limit
   wrote : BOOLEAN,
   why : {"", "duplicate", "several", "lost"}]

Idle == [pc |-> "idle", kind |-> "startup", todo |-> {}, cur |-> {},
         activates |-> FALSE, target |-> {}, seen |-> {}, live |-> {},
         held |-> {}, new |-> {}, on |-> {}, value |-> DefaultLimit,
         found |-> NoLimit, wrote |-> FALSE, why |-> ""]

-----------------------------------------------------------------------------
\* An empty database after the migrations, or one that was in use.
Init ==
  /\ up \in BOOLEAN
  /\ rows = IF up THEN { First(r) : r \in Roles } ELSE {}
  /\ active = rows
  /\ limit \in IF up THEN {NoLimit, DefaultLimit} ELSE {NoLimit}
  /\ op = [o \in Ops |-> Idle]
  /\ chosen = active
  /\ said = [value |-> limit, skipped |-> FALSE]

Begun(o, kind, pc) ==
  [op[o] EXCEPT !.kind = kind, !.pc = pc, !.seen = rows, !.live = active,
                !.found = limit]

\* lifespan at startup, and scripts/seed.py
BeginSeed(o) ==
  /\ op[o].pc = "idle"
  /\ \E kind \in Seeds :
       op' = [op EXCEPT ![o] = [Begun(o, kind, "seed") EXCEPT !.todo = Roles]]
  /\ UNCHANGED <<up, rows, active, limit, chosen, said>>

BeginCreate(o) ==
  /\ up /\ op[o].pc = "idle"
  /\ \E r \in Roles, activate \in BOOLEAN :
       op' = [op EXCEPT ![o] =
                [Begun(o, "create", IF activate THEN "update" ELSE "insert")
                   EXCEPT !.cur = {r}, !.activates = activate]]
  /\ UNCHANGED <<up, rows, active, limit, chosen, said>>

\* An id that does not exist changes nothing.
BeginActivate(o) ==
  /\ up /\ op[o].pc = "idle"
  /\ \E x \in rows :
       op' = [op EXCEPT ![o] =
                [Begun(o, "activate", "update")
                   EXCEPT !.cur = {x.role}, !.target = {x}]]
  /\ UNCHANGED <<up, rows, active, limit, chosen, said>>

\* scripts/upgrade_prompts.py: one version of every role, each in a
\* transaction of its own.
BeginUpgrade(o) ==
  /\ op[o].pc = "idle"
  /\ op' = [op EXCEPT ![o] = [Begun(o, "upgrade", "next")
                                EXCEPT !.todo = Roles, !.activates = TRUE]]
  /\ UNCHANGED <<up, rows, active, limit, chosen, said>>

\* A limit that is not positive is refused.
BeginSetLimit(o) ==
  /\ up /\ op[o].pc = "idle"
  /\ \E value \in Limits :
       op' = [op EXCEPT ![o] = [Begun(o, "set_limit", "write")
                                  EXCEPT !.value = value]]
  /\ UNCHANGED <<up, rows, active, limit, chosen, said>>

NextRole(o) ==
  /\ op[o].pc = "next"
  /\ \E r \in op[o].todo :
       op' = [op EXCEPT ![o].pc = "update", ![o].cur = {r}, ![o].todo = @ \ {r}]
  /\ UNCHANGED <<up, rows, active, limit, chosen, said>>

Failed(o, why) ==
  op' = [op EXCEPT ![o].pc = "failed", ![o].why = why, ![o].held = {},
                   ![o].new = {}, ![o].on = {}, ![o].wrote = FALSE]

\* INSERT of a version: it waits for whoever has the role locked or inserts
\* the same version, and fails if that version exists by then.
Insert(o, x, on, pc) ==
  /\ \A p \in Ops \ {o} : x.role \notin op[p].held /\ x \notin op[p].new
  /\ IF x \in rows
     THEN Failed(o, "duplicate")
     ELSE op' = [op EXCEPT ![o].pc = pc, ![o].new = @ \cup {x},
                           ![o].on = @ \cup (IF on THEN {x} ELSE {}),
                           ![o].todo = @ \ {x.role}]

\* Mutant: the role is seeded whether or not it has a version.
SeedRoleAlways(o, r) ==
  /\ op[o].pc = "seed" /\ r \in op[o].todo
  /\ Insert(o, First(r), TRUE, "seed")
  /\ UNCHANGED <<up, rows, active, limit, chosen, said>>

\* scalar_one_or_none raises if two versions of the role are active.
SeedRole(o, r) ==
  LET found == Cardinality(OfRole(op[o].live, r))
  IN /\ op[o].pc = "seed" /\ r \in op[o].todo
     /\ \/ found = 0 /\ Insert(o, First(r), TRUE, "seed")
        \/ found = 1 /\ op' = [op EXCEPT ![o].todo = @ \ {r}]
        \/ found > 1 /\ Failed(o, "several")
     /\ UNCHANGED <<up, rows, active, limit, chosen, said>>

\* UPDATE ... SET is_active = FALSE of the role.  It waits for rows that
\* another session updated or inserted; a role without rows has only a gap,
\* which two sessions can hold.  (The UPDATE by id of activate_prompt_version,
\* which sets its version active, then meets no lock.)
Deactivate(o) ==
  /\ op[o].pc = "update"
  /\ \A r \in op[o].cur, p \in Ops \ {o} :
       /\ OfRole(op[p].new, r) = {}
       /\ OfRole(rows, r) # {} => r \notin op[p].held
  /\ op' = [op EXCEPT ![o].pc = IF op[o].kind = "activate" THEN "commit" ELSE "insert",
                      ![o].held = op[o].cur, ![o].on = op[o].target]
  /\ UNCHANGED <<up, rows, active, limit, chosen, said>>

\* One more than the highest version of its role that the snapshot shows.
IsNext(seen, x) ==
  /\ \A y \in OfRole(seen, x.role) : y.version < x.version
  /\ x.version = 1 \/ \E y \in OfRole(seen, x.role) : y.version = x.version - 1

InsertNext(o) ==
  /\ op[o].pc = "insert"
  /\ \E x \in Versions :
       /\ x.role \in op[o].cur /\ IsNext(op[o].seen, x)
       /\ Insert(o, x, op[o].activates, "commit")
  /\ UNCHANGED <<up, rows, active, limit, chosen, said>>

CommitPoint(o) == \/ op[o].pc = "commit"
                  \/ op[o].pc = "seed" /\ op[o].todo = {}

\* The transaction of the prompts is over; what comes next in the session.
Committed(o) ==
  op' = [op EXCEPT ![o].pc = CASE op[o].kind = "seed" -> "limit"
                               [] op[o].kind = "upgrade" -> "refresh"
                               [] OTHER -> "over",
                   ![o].held = {}, ![o].new = {}, ![o].on = {}]

Chosen(o) == { x \in chosen : OfRole(op[o].on, x.role) = {} } \cup op[o].on

\* Mutant: the versions set inactive are those that were loaded, one by one.
CommitLoaded(o) ==
  /\ CommitPoint(o)
  /\ rows' = rows \cup op[o].new
  /\ active' = (active \ { x \in op[o].live : x.role \in op[o].held }) \cup op[o].on
  /\ chosen' = Chosen(o)
  /\ up' = (up \/ op[o].kind = "startup")
  /\ Committed(o)
  /\ UNCHANGED <<limit, said>>

Commit(o) ==
  /\ CommitPoint(o)
  /\ rows' = rows \cup op[o].new
  /\ active' = { x \in active : x.role \notin op[o].held } \cup op[o].on
  /\ chosen' = Chosen(o)
  /\ up' = (up \/ op[o].kind = "startup")
  /\ Committed(o)
  /\ UNCHANGED <<limit, said>>

\* session.refresh after the commit takes the snapshot in which the script
\* looks for the next role's highest version.
Refresh(o) ==
  /\ op[o].pc = "refresh"
  /\ op' = [op EXCEPT ![o].seen = rows, ![o].live = active,
                      ![o].pc = IF op[o].todo = {} THEN "over" ELSE "next"]
  /\ UNCHANGED <<up, rows, active, limit, chosen, said>>

\* seed_default_system_configs: a new transaction, and nothing to do if the
\* limit has a row.
SeedLimit(o) ==
  /\ op[o].pc = "limit"
  /\ op' = [op EXCEPT ![o].found = limit, ![o].value = DefaultLimit,
                      ![o].pc = IF limit = NoLimit THEN "write" ELSE "over"]
  /\ UNCHANGED <<up, rows, active, limit, chosen, said>>

\* Mutant: the default needs no row of its own.
WriteLimitUnlessDefault(o) ==
  /\ op[o].pc = "write"
  /\ IF op[o].value \in {op[o].found, DefaultLimit}
     THEN op' = [op EXCEPT ![o].pc = "end"]
     ELSE /\ \A p \in Ops \ {o} : ~op[p].wrote
          /\ IF op[o].found = NoLimit /\ limit # NoLimit
             THEN Failed(o, "duplicate")
             ELSE op' = [op EXCEPT ![o].pc = "end", ![o].wrote = TRUE]
  /\ UNCHANGED <<up, rows, active, limit, chosen, said>>

\* INSERT if the snapshot has no row; else an UPDATE, which the ORM leaves out
\* if the row was loaded with the same value.
WriteLimit(o) ==
  /\ op[o].pc = "write"
  /\ IF op[o].value = op[o].found
     THEN op' = [op EXCEPT ![o].pc = "end"]
     ELSE /\ \A p \in Ops \ {o} : ~op[p].wrote
          /\ IF op[o].found = NoLimit /\ limit # NoLimit
             THEN Failed(o, "duplicate")
             ELSE op' = [op EXCEPT ![o].pc = "end", ![o].wrote = TRUE]
  /\ UNCHANGED <<up, rows, active, limit, chosen, said>>

CommitLimit(o) ==
  /\ op[o].pc = "end"
  /\ limit' = IF op[o].wrote THEN op[o].value ELSE limit
  /\ said' = [value |-> op[o].value, skipped |-> op[o].found = op[o].value]
  /\ op' = [op EXCEPT ![o].pc = "over", ![o].wrote = FALSE]
  /\ UNCHANGED <<up, rows, active, chosen>>

\* The connection is lost, the process dies, or a deadlock has a victim.
Lose(o) ==
  /\ op[o].pc \notin {"idle", "over", "failed"}
  /\ Failed(o, "lost")
  /\ UNCHANGED <<up, rows, active, limit, chosen, said>>

Step(o) ==
  \/ BeginSeed(o) \/ BeginCreate(o) \/ BeginActivate(o) \/ BeginUpgrade(o)
  \/ BeginSetLimit(o) \/ NextRole(o) \/ Deactivate(o) \/ InsertNext(o)
  \/ Commit(o) \/ Refresh(o) \/ SeedLimit(o) \/ WriteLimit(o) \/ CommitLimit(o)
  \/ Lose(o)
  \/ \E r \in Roles : SeedRole(o, r)

Next == \E o \in Ops : Step(o)

Spec == Init /\ [][Next]_vars

-----------------------------------------------------------------------------
(* What a question loads. *)

DefaultPrompt == [role |-> "default", version |-> 0]

\* load_active_prompts: if several versions of a role are active, any of them.
Loadable(r) == IF OfRole(active, r) = {} THEN {DefaultPrompt}
                                         ELSE OfRole(active, r)

RowLimit == IF limit = NoLimit THEN DefaultLimit ELSE limit

-----------------------------------------------------------------------------
(* What holds. *)

\* The type of every variable.
TypeOK ==
  /\ up \in BOOLEAN
  /\ rows \subseteq Versions /\ active \subseteq Versions
  /\ limit \in Limits \cup {NoLimit}
  /\ op \in [Ops -> OpStates]
  /\ chosen \subseteq Versions
  /\ said \in [value : Limits \cup {NoLimit}, skipped : BOOLEAN]

\* However edits, startups and scripts interleave and fail, a question gets for
\* each role the one version whose activation was committed last; the built-in
\* default only while the role has no version.
LoadedIsChosen ==
  \A r \in Roles :
    /\ OfRole(rows, r) = {} => Loadable(r) = {DefaultPrompt}
    /\ OfRole(rows, r) # {} => \E x \in OfRole(rows, r) :
                                 /\ Loadable(r) = {x}
                                 /\ OfRole(chosen, r) = {x}

\* The versions of a role are numbered from 1 without a gap.
VersionsInOrder ==
  \A x \in rows : \A v \in 1..x.version : [role |-> x.role, version |-> v] \in rows

\* A startup or an edit that fails by itself fails over a version, or a limit,
\* that another session committed after its snapshot; never because two versions
\* are active.
Explained(n) ==
  /\ n.why # "several"
  /\ n.why = "duplicate" =>
       \/ \E x \in rows \ n.seen : n.kind \in Seeds \/ x.role \in n.cur
       \/ /\ n.kind \in {"seed", "set_limit"}
          /\ n.found = NoLimit /\ limit # NoLimit

FailureExplained == \A o \in Ops : Explained(op[o])

\* Questions are limited by the limit that was acknowledged last, unless its
\* session had loaded the same value from an older snapshot and wrote nothing.
LimitIsSaid == limit = said.value \/ said.skipped

(* What the proofs need besides: of the record n of a session, ... *)

\* ... that its snapshot shows a past in which the same held,
SeesThePast(n) ==
  /\ n.live \subseteq n.seen /\ n.seen \subseteq rows
  /\ \A r \in Roles : OfRole(n.seen, r) # {} =>
       \E x \in n.seen : OfRole(n.live, r) = {x}

\* ... that it inserts the next version, and one that stays inactive only for a
\* role that has others,
InsertsTheNext(n) ==
  \A x \in n.new :
    /\ x \notin rows
    /\ x.version = 1 \/ [role |-> x.role, version |-> x.version - 1] \in rows
    /\ x \notin n.on => OfRole(rows, x.role) # {}

\* ... that what it sets active is its own or locked, and one per role,
ActivatesItsOwn(n) ==
  \A x \in n.on :
    /\ x \in n.new \/ (x \in rows /\ x.role \in n.held)
    /\ x.role \notin n.held => OfRole(rows, x.role) = {}
    /\ \A y \in n.on : x.role = y.role => x = y

\* ... which parts of its transaction exist at which point,
InProgress(n) ==
  /\ n.pc = "idle" => n = Idle
  /\ n.pc # "failed" => n.why = ""
  /\ n.pc \notin {"seed", "insert", "commit"} => n.held = {}
  /\ n.pc \notin {"seed", "commit"} => n.new = {} /\ n.on = {}
  /\ n.pc = "seed" => n.kind \in Seeds /\ n.held = {} /\ n.on = n.new
  /\ n.pc = "update" => \/ n.kind = "activate"
                        \/ n.activates /\ n.target = {}
  /\ n.pc \in {"update", "insert", "commit"} =>
       n.kind \in {"create", "activate", "upgrade"}
  /\ \A r, s \in n.cur : r = s
  /\ n.pc = "insert" => n.held = (IF n.activates THEN n.cur ELSE {})
  /\ n.pc = "commit" => \A r \in n.held : OfRole(n.on, r) # {}
  /\ n.pc \in {"next", "refresh"} => n.kind = "upgrade"
  /\ n.kind = "upgrade" => n.activates /\ n.target = {}
  /\ n.pc = "limit" => n.kind = "seed"
  /\ n.pc = "write" => n.kind \in {"seed", "set_limit"}
  /\ n.pc = "end" /\ ~n.wrote => n.found = n.value

\* ... and what it relies on in the database.
Grounded(n) ==
  /\ n.pc = "seed" =>
       \A r \in Roles \ n.todo : OfRole(rows \cup n.new, r) # {}
  /\ n.pc = "update" /\ n.kind = "activate" =>
       \E x \in rows : n.target = {x} /\ n.cur = {x.role}
  /\ n.pc = "insert" /\ ~n.activates => up

Sound(n) == /\ Explained(n) /\ SeesThePast(n) /\ InsertsTheNext(n)
            /\ ActivatesItsOwn(n) /\ InProgress(n) /\ Grounded(n)

\* Two sessions insert different versions, neither into a role that the other
\* has locked, and only one locks a role that has versions.
Apart(n, m) ==
  /\ \A x \in n.new : x \notin m.new /\ x.role \notin m.held
  /\ \A r \in n.held : OfRole(rows, r) # {} => r \notin m.held

SessionsInv == /\ \A o \in Ops : Sound(op[o])
               /\ \A o, p \in Ops : o # p => Apart(op[o], op[p])

ChosenIsActive == active = chosen /\ active \subseteq rows

UpMeansSeeded == up => \A r \in Roles : OfRole(rows, r) # {}

IInv == /\ TypeOK /\ LoadedIsChosen /\ VersionsInOrder /\ LimitIsSaid
        /\ SessionsInv /\ ChosenIsActive /\ UpMeansSeeded
=============================================================================
