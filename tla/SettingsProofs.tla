--------------------------- MODULE SettingsProofs ---------------------------
(* That a question loads the version whose activation was committed last,  *)
(* and that the row limit is the one that was acknowledged, for any roles  *)
(* and any number of sessions that edit them.                              *)
EXTENDS Settings, FiniteSetTheorems, TLAPS

LEMMA InitIInv == Init => IInv
<1> SUFFICES ASSUME Init PROVE IInv
  OBVIOUS
<1>1. /\ \A r \in Roles : First(r) \in Versions /\ First(r).role = r
      /\ \A r \in Roles : First(r).version = 1
  BY SettingsAssumption DEF First, Versions
<1>2. /\ rows \subseteq Versions /\ active = rows /\ chosen = rows
      /\ limit \in Limits \cup {NoLimit}
  BY <1>1, SettingsAssumption DEF Init
<1>3. Idle \in OpStates /\ \A o \in Ops : op[o] = Idle
  BY SettingsAssumption DEF Init, Idle, OpStates, Kinds
<1>4. TypeOK
  BY <1>2, <1>3 DEF Init, TypeOK
<1>5. \A x \in rows : x.role \in Roles /\ x = First(x.role)
  BY <1>1 DEF Init
<1>6. LoadedIsChosen
  <2> SUFFICES ASSUME NEW r \in Roles
               PROVE  /\ OfRole(rows, r) = {} => Loadable(r) = {DefaultPrompt}
                      /\ OfRole(rows, r) # {} => \E x \in OfRole(rows, r) :
                           Loadable(r) = {x} /\ OfRole(chosen, r) = {x}
    BY DEF LoadedIsChosen
  <2>1. CASE up
    <3>1. OfRole(rows, r) = {First(r)}
      BY <1>1, <1>5, <2>1 DEF Init, OfRole
    <3> QED
      BY <1>2, <3>1 DEF Loadable
  <2>2. CASE ~up
    <3>1. OfRole(rows, r) = {}
      BY <2>2 DEF Init, OfRole
    <3> QED
      BY <1>2, <3>1 DEF Loadable
  <2> QED
    BY <2>1, <2>2
<1>7. VersionsInOrder
  <2> SUFFICES ASSUME NEW x \in rows, NEW v \in 1..x.version
               PROVE  [role |-> x.role, version |-> v] \in rows
    BY DEF VersionsInOrder
  <2>1. x = First(x.role) /\ v = 1
    BY <1>1, <1>5
  <2> QED
    BY <2>1 DEF First
<1>8. LimitIsSaid
  BY DEF Init, LimitIsSaid
<1>9. SessionsInv
  <2>1. Sound(Idle)
    BY DEF Idle, Sound, Explained, SeesThePast, InsertsTheNext, ActivatesItsOwn,
           InProgress, Grounded, OfRole
  <2>2. Apart(Idle, Idle)
    BY DEF Idle, Apart
  <2> QED
    BY <1>3, <2>1, <2>2 DEF SessionsInv
<1>10. ChosenIsActive /\ UpMeansSeeded
  BY <1>1, <1>2 DEF Init, ChosenIsActive, UpMeansSeeded, OfRole
<1> QED
  BY <1>4, <1>6, <1>7, <1>8, <1>9, <1>10 DEF IInv

-----------------------------------------------------------------------------
(* Steps of one session that commit nothing. *)

LEMMA QuietStep ==
  ASSUME IInv, NEW o \in Ops, NEW n \in OpStates,
         op' = [op EXCEPT ![o] = n],
         UNCHANGED <<up, rows, active, limit, chosen, said>>,
         Sound(n),
         \A p \in Ops : p # o => Apart(n, op[p]) /\ Apart(op[p], n)
  PROVE  IInv'
<1>1. /\ op' \in [Ops -> OpStates] /\ op'[o] = n
      /\ \A p \in Ops : p # o => op'[p] = op[p]
  BY DEF IInv, TypeOK
<1>2. TypeOK'
  BY <1>1 DEF IInv, TypeOK
<1>3. LoadedIsChosen' /\ VersionsInOrder' /\ LimitIsSaid'
  BY DEF IInv, LoadedIsChosen, Loadable, VersionsInOrder, LimitIsSaid
<1>4. SessionsInv'
  <2>1. ASSUME NEW p \in Ops PROVE Sound(op'[p]) /\ (Sound(op[p])' <=> Sound(op'[p]))
    <3>1. Sound(op'[p])
      BY <1>1 DEF IInv, SessionsInv
    <3>2. /\ Explained(op[p])' <=> Explained(op'[p])
          /\ SeesThePast(op[p])' <=> SeesThePast(op'[p])
          /\ InsertsTheNext(op[p])' <=> InsertsTheNext(op'[p])
          /\ ActivatesItsOwn(op[p])' <=> ActivatesItsOwn(op'[p])
      BY DEF Explained, SeesThePast, InsertsTheNext, ActivatesItsOwn
    <3>3. /\ InProgress(op[p])' <=> InProgress(op'[p])
          /\ Grounded(op[p])' <=> Grounded(op'[p])
      BY DEF InProgress, Grounded
    <3> QED
      BY <3>1, <3>2, <3>3 DEF Sound
  <2>2. ASSUME NEW p \in Ops, NEW q \in Ops, p # q PROVE Apart(op[p], op[q])'
    <3>1. Apart(op'[p], op'[q])
      BY <1>1, <2>2 DEF IInv, SessionsInv
    <3> QED
      BY <3>1 DEF Apart
  <2> QED
    BY <2>1, <2>2 DEF SessionsInv
<1>5. ChosenIsActive' /\ UpMeansSeeded'
  BY DEF IInv, ChosenIsActive, UpMeansSeeded
<1> QED
  BY <1>2, <1>3, <1>4, <1>5 DEF IInv

\* What the invariant says of one session, and of it beside the others.
LEMMA OfSession ==
  ASSUME IInv, NEW o \in Ops
  PROVE  /\ op[o] \in OpStates /\ Sound(op[o])
         /\ \A p \in Ops : p # o => /\ Apart(op[o], op[p]) /\ Apart(op[p], op[o])
                                    /\ op[p] \in OpStates
BY DEF IInv, TypeOK, SessionsInv

\* A session that inserts and locks nothing more stays apart from the others.
LEMMA SmallerStep ==
  ASSUME IInv, NEW o \in Ops, NEW n \in OpStates,
         op' = [op EXCEPT ![o] = n],
         UNCHANGED <<up, rows, active, limit, chosen, said>>,
         Sound(n), n.new \subseteq op[o].new, n.held \subseteq op[o].held
  PROVE  IInv'
<1>1. \A p \in Ops : p # o => Apart(n, op[p]) /\ Apart(op[p], n)
  BY OfSession DEF Apart
<1> QED
  BY <1>1, QuietStep

\* A rollback.
LEMMA FailedIInv ==
  ASSUME IInv, NEW o \in Ops,
         NEW why \in {"duplicate", "lost"}, Failed(o, why),
         UNCHANGED <<up, rows, active, limit, chosen, said>>,
         why = "duplicate" =>
           \/ \E x \in rows \ op[o].seen :
                op[o].kind \in Seeds \/ x.role \in op[o].cur
           \/ /\ op[o].kind \in {"seed", "set_limit"}
              /\ op[o].found = NoLimit /\ limit # NoLimit
  PROVE  IInv'
<1> DEFINE n == [op[o] EXCEPT !.pc = "failed", !.why = why, !.held = {},
                              !.new = {}, !.on = {}, !.wrote = FALSE]
<1>1. op[o] \in OpStates /\ Sound(op[o])
  BY OfSession
<1>2. op' = [op EXCEPT ![o] = n]
  BY DEF Failed, IInv, TypeOK
<1>3. /\ n \in OpStates /\ n.pc = "failed" /\ n.why = why /\ n.kind = op[o].kind
      /\ n.held = {} /\ n.new = {} /\ n.on = {} /\ n.seen = op[o].seen
      /\ n.live = op[o].live /\ n.cur = op[o].cur /\ n.found = op[o].found
      /\ n.activates = op[o].activates /\ n.target = op[o].target
  BY <1>1 DEF OpStates
<1> HIDE DEF n
<1>4. Explained(n)
  BY <1>3 DEF Explained
<1>5. SeesThePast(n) /\ InsertsTheNext(n) /\ ActivatesItsOwn(n)
  BY <1>1, <1>3 DEF Sound, SeesThePast, InsertsTheNext, ActivatesItsOwn
<1>6. InProgress(n) /\ Grounded(n)
  BY <1>1, <1>3 DEF Sound, InProgress, Grounded
<1> QED
  BY <1>2, <1>3, <1>4, <1>5, <1>6, SmallerStep DEF Sound

\* A role that has versions has one that is active.
LEMMA OfActive ==
  ASSUME IInv, NEW r \in Roles, OfRole(rows, r) # {}
  PROVE  \E x \in rows : OfRole(active, r) = {x}
<1>1. PICK x \in OfRole(rows, r) : Loadable(r) = {x}
  BY DEF IInv, LoadedIsChosen
<1>2. x \in rows /\ x # DefaultPrompt
  BY SettingsAssumption DEF OfRole, IInv, TypeOK, Versions, DefaultPrompt
<1>3. OfRole(active, r) # {}
  BY <1>1, <1>2 DEF Loadable
<1> QED
  BY <1>1, <1>2, <1>3 DEF Loadable

\* The snapshot of a session that begins, or refreshes.
LEMMA SnapshotIsSound ==
  ASSUME IInv, NEW n, n.seen = rows, n.live = active
  PROVE  SeesThePast(n)
BY OfActive DEF SeesThePast, IInv, ChosenIsActive

LEMMA BeginStep ==
  ASSUME IInv, NEW o \in Ops, NEW n \in OpStates,
         op' = [op EXCEPT ![o] = n],
         UNCHANGED <<up, rows, active, limit, chosen, said>>,
         n.seen = rows, n.live = active, n.why = "",
         n.new = {}, n.held = {}, n.on = {}, InProgress(n) /\ Grounded(n)
  PROVE  IInv'
<1>1. SeesThePast(n)
  BY SnapshotIsSound
<1>2. Explained(n) /\ InsertsTheNext(n) /\ ActivatesItsOwn(n)
  BY DEF Explained, InsertsTheNext, ActivatesItsOwn
<1>3. Sound(n)
  BY <1>1, <1>2 DEF Sound
<1> QED
  BY <1>3, SmallerStep

\* The record of a session that begins.
IsBegun(b, kind, pc) ==
  /\ b \in OpStates /\ b.pc = pc /\ b.kind = kind
  /\ b.seen = rows /\ b.live = active /\ b.why = ""
  /\ b.new = {} /\ b.held = {} /\ b.on = {}
  /\ b.cur = {} /\ b.target = {}

LEMMA BegunRecord ==
  ASSUME IInv, NEW o \in Ops, op[o].pc = "idle", NEW kind \in Kinds,
         NEW pc \in {"seed", "next", "update", "insert", "write"}
  PROVE  IsBegun(Begun(o, kind, pc), kind, pc)
<1>1. op[o] = Idle /\ op[o] \in OpStates
  BY OfSession DEF Sound, InProgress, Grounded
<1>2. /\ op[o].why = "" /\ op[o].new = {} /\ op[o].held = {}
      /\ op[o].on = {} /\ op[o].cur = {} /\ op[o].target = {}
  <2>1. /\ Idle.why = "" /\ Idle.new = {} /\ Idle.held = {}
        /\ Idle.on = {} /\ Idle.cur = {} /\ Idle.target = {}
    BY DEF Idle
  <2> QED
    BY <1>1, <2>1
<1>3. /\ rows \subseteq Versions /\ active \subseteq Versions
      /\ limit \in Limits \cup {NoLimit}
  BY DEF IInv, TypeOK
<1> DEFINE b == [op[o] EXCEPT !.kind = kind, !.pc = pc, !.seen = rows,
                              !.live = active, !.found = limit]
<1>4. /\ b.pc = pc /\ b.kind = kind /\ b.seen = rows /\ b.live = active
      /\ b.why = "" /\ b.new = {} /\ b.held = {} /\ b.on = {}
      /\ b.cur = {} /\ b.target = {}
  BY <1>1, <1>2 DEF OpStates
<1>5. b \in OpStates
  BY <1>1, <1>3 DEF OpStates
<1> QED
  BY <1>4, <1>5 DEF Begun, IsBegun

LEMMA BeginSeedIInv ==
  ASSUME IInv, NEW o \in Ops, BeginSeed(o)
  PROVE  IInv'
<1>1. PICK kind \in Seeds :
        op' = [op EXCEPT ![o] = [Begun(o, kind, "seed") EXCEPT !.todo = Roles]]
  BY DEF BeginSeed
<1> DEFINE n == [Begun(o, kind, "seed") EXCEPT !.todo = Roles]
<1>0. IsBegun(Begun(o, kind, "seed"), kind, "seed")
  BY BegunRecord DEF BeginSeed, Kinds, Seeds
<1>2. /\ n \in OpStates /\ n.pc = "seed" /\ n.kind = kind /\ n.todo = Roles
      /\ n.seen = rows /\ n.live = active /\ n.why = "" /\ n.new = {}
      /\ n.held = {} /\ n.on = {} /\ n.cur = {}
  BY <1>0 DEF IsBegun, OpStates
<1> HIDE DEF n
<1>3. InProgress(n) /\ Grounded(n)
  BY <1>2 DEF InProgress, Grounded, Seeds
<1> QED
  BY <1>1, <1>2, <1>3, BeginStep DEF BeginSeed, n

LEMMA BeginCreateIInv ==
  ASSUME IInv, NEW o \in Ops, BeginCreate(o)
  PROVE  IInv'
<1>1. PICK r \in Roles, activate \in BOOLEAN :
        op' = [op EXCEPT ![o] =
                 [Begun(o, "create", IF activate THEN "update" ELSE "insert")
                    EXCEPT !.cur = {r}, !.activates = activate]]
  BY DEF BeginCreate
<1> DEFINE n == [Begun(o, "create", IF activate THEN "update" ELSE "insert")
                    EXCEPT !.cur = {r}, !.activates = activate]
<1>0. IsBegun(Begun(o, "create", IF activate THEN "update" ELSE "insert"), "create", IF activate THEN "update" ELSE "insert")
  BY BegunRecord DEF BeginCreate, Kinds
<1>2. /\ n \in OpStates /\ n.pc = (IF activate THEN "update" ELSE "insert")
      /\ n.kind = "create" /\ n.cur = {r} /\ n.activates = activate
      /\ n.seen = rows /\ n.live = active /\ n.why = "" /\ n.new = {}
      /\ n.held = {} /\ n.on = {} /\ n.target = {}
  BY <1>0, ZenonT(30) DEF IsBegun, OpStates
<1> HIDE DEF n
<1>3. InProgress(n) /\ Grounded(n)
  BY <1>2 DEF BeginCreate, InProgress, Grounded
<1> QED
  BY <1>1, <1>2, <1>3, BeginStep DEF BeginCreate, n

LEMMA BeginActivateIInv ==
  ASSUME IInv, NEW o \in Ops, BeginActivate(o)
  PROVE  IInv'
<1>1. PICK x \in rows :
        op' = [op EXCEPT ![o] = [Begun(o, "activate", "update")
                                   EXCEPT !.cur = {x.role}, !.target = {x}]]
  BY DEF BeginActivate
<1> DEFINE n == [Begun(o, "activate", "update")
                   EXCEPT !.cur = {x.role}, !.target = {x}]
<1>0. IsBegun(Begun(o, "activate", "update"), "activate", "update")
  BY BegunRecord DEF BeginActivate, Kinds
<1>2. x \in Versions /\ x.role \in Roles
  BY DEF IInv, TypeOK, Versions
<1>3. /\ n \in OpStates /\ n.pc = "update" /\ n.kind = "activate"
      /\ n.cur = {x.role} /\ n.target = {x}
      /\ n.seen = rows /\ n.live = active /\ n.why = "" /\ n.new = {}
      /\ n.held = {} /\ n.on = {}
  BY <1>2, <1>0 DEF IsBegun, OpStates
<1> HIDE DEF n
<1>4. InProgress(n) /\ Grounded(n)
  BY <1>3 DEF InProgress, Grounded
<1> QED
  BY <1>1, <1>3, <1>4, BeginStep DEF BeginActivate, n

LEMMA BeginUpgradeIInv ==
  ASSUME IInv, NEW o \in Ops, BeginUpgrade(o)
  PROVE  IInv'
<1> DEFINE n == [Begun(o, "upgrade", "next")
                   EXCEPT !.todo = Roles, !.activates = TRUE]
<1>1. op' = [op EXCEPT ![o] = n]
  BY DEF BeginUpgrade
<1>0. IsBegun(Begun(o, "upgrade", "next"), "upgrade", "next")
  BY BegunRecord DEF BeginUpgrade, Kinds
<1>2. /\ n \in OpStates /\ n.pc = "next" /\ n.kind = "upgrade"
      /\ n.activates = TRUE /\ n.cur = {} /\ n.target = {}
      /\ n.seen = rows /\ n.live = active /\ n.why = "" /\ n.new = {}
      /\ n.held = {} /\ n.on = {}
  BY <1>0 DEF IsBegun, OpStates
<1> HIDE DEF n
<1>3. InProgress(n) /\ Grounded(n)
  BY <1>2 DEF InProgress, Grounded
<1> QED
  BY <1>1, <1>2, <1>3, BeginStep DEF BeginUpgrade

LEMMA BeginSetLimitIInv ==
  ASSUME IInv, NEW o \in Ops, BeginSetLimit(o)
  PROVE  IInv'
<1>1. PICK value \in Limits :
        op' = [op EXCEPT ![o] = [Begun(o, "set_limit", "write")
                                   EXCEPT !.value = value]]
  BY DEF BeginSetLimit
<1> DEFINE n == [Begun(o, "set_limit", "write") EXCEPT !.value = value]
<1>0. IsBegun(Begun(o, "set_limit", "write"), "set_limit", "write")
  BY BegunRecord DEF BeginSetLimit, Kinds
<1>2. /\ n \in OpStates /\ n.pc = "write" /\ n.kind = "set_limit" /\ n.cur = {}
      /\ n.seen = rows /\ n.live = active /\ n.why = "" /\ n.new = {}
      /\ n.held = {} /\ n.on = {}
  BY <1>0 DEF IsBegun, OpStates
<1> HIDE DEF n
<1>3. InProgress(n) /\ Grounded(n)
  BY <1>2 DEF InProgress, Grounded
<1> QED
  BY <1>1, <1>2, <1>3, BeginStep DEF BeginSetLimit, n

\* A step of a session that has nothing to commit, with the same snapshot.
LEMMA EmptyStep ==
  ASSUME IInv, NEW o \in Ops, NEW n \in OpStates,
         op' = [op EXCEPT ![o] = n],
         UNCHANGED <<up, rows, active, limit, chosen, said>>,
         n.seen = op[o].seen, n.live = op[o].live, n.why = "",
         n.new = {}, n.held = {}, n.on = {}, InProgress(n) /\ Grounded(n)
  PROVE  IInv'
<1>1. SeesThePast(n)
  BY OfSession DEF Sound, SeesThePast
<1>2. Explained(n) /\ InsertsTheNext(n) /\ ActivatesItsOwn(n)
  BY DEF Explained, InsertsTheNext, ActivatesItsOwn
<1>3. Sound(n)
  BY <1>1, <1>2 DEF Sound
<1> QED
  BY <1>3, SmallerStep

\* What a session has that is at a point where it has nothing to commit.
LEMMA HasNothing ==
  ASSUME IInv, NEW o \in Ops,
         op[o].pc \in {"next", "update", "refresh", "limit", "write", "end"}
  PROVE  /\ op[o] \in OpStates /\ op[o].why = ""
         /\ InProgress(op[o]) /\ Grounded(op[o])
         /\ op[o].new = {} /\ op[o].held = {} /\ op[o].on = {}
BY OfSession DEF Sound, InProgress, Grounded

LEMMA NextRoleIInv ==
  ASSUME IInv, NEW o \in Ops, NextRole(o)
  PROVE  IInv'
<1>1. PICK r \in op[o].todo :
        op' = [op EXCEPT ![o].pc = "update", ![o].cur = {r}, ![o].todo = @ \ {r}]
  BY DEF NextRole
<1> DEFINE n == [op[o] EXCEPT !.pc = "update", !.cur = {r}, !.todo = @ \ {r}]
<1>2. op' = [op EXCEPT ![o] = n]
  BY <1>1 DEF IInv, TypeOK
<1>3. /\ op[o] \in OpStates /\ op[o].pc = "next" /\ op[o].why = ""
      /\ InProgress(op[o]) /\ Grounded(op[o])
      /\ op[o].new = {} /\ op[o].held = {} /\ op[o].on = {}
  BY HasNothing DEF NextRole
<1>4. /\ n \in OpStates /\ n.pc = "update" /\ n.cur = {r} /\ n.why = ""
      /\ n.seen = op[o].seen /\ n.live = op[o].live /\ n.kind = op[o].kind
      /\ n.activates = op[o].activates /\ n.target = op[o].target
      /\ n.new = {} /\ n.held = {} /\ n.on = {}
  BY <1>3 DEF OpStates
<1> HIDE DEF n
<1>5. InProgress(n) /\ Grounded(n)
  BY <1>3, <1>4 DEF InProgress, Grounded
<1> QED
  BY <1>2, <1>4, <1>5, EmptyStep DEF NextRole

LEMMA RefreshIInv ==
  ASSUME IInv, NEW o \in Ops, Refresh(o)
  PROVE  IInv'
<1> DEFINE n == [op[o] EXCEPT !.seen = rows, !.live = active,
                              !.pc = IF op[o].todo = {} THEN "over" ELSE "next"]
<1>1. op' = [op EXCEPT ![o] = n]
  BY DEF Refresh, IInv, TypeOK
<1>2. /\ op[o] \in OpStates /\ op[o].pc = "refresh" /\ op[o].why = ""
      /\ InProgress(op[o]) /\ Grounded(op[o])
      /\ op[o].new = {} /\ op[o].held = {} /\ op[o].on = {}
  BY HasNothing DEF Refresh
<1>3. rows \subseteq Versions /\ active \subseteq Versions
  BY DEF IInv, TypeOK
<1>4. /\ n \in OpStates /\ n.pc \in {"over", "next"} /\ n.why = ""
      /\ n.seen = rows /\ n.live = active /\ n.kind = op[o].kind
      /\ n.activates = op[o].activates /\ n.target = op[o].target
      /\ n.new = {} /\ n.held = {} /\ n.on = {} /\ n.cur = op[o].cur
  BY <1>2, <1>3 DEF OpStates
<1> HIDE DEF n
<1>5. InProgress(n) /\ Grounded(n)
  BY <1>2, <1>4 DEF InProgress, Grounded
<1> QED
  BY <1>1, <1>2, <1>4, <1>5, BeginStep DEF Refresh

LEMMA SeedLimitIInv ==
  ASSUME IInv, NEW o \in Ops, SeedLimit(o)
  PROVE  IInv'
<1> DEFINE n == [op[o] EXCEPT !.found = limit, !.value = DefaultLimit,
                              !.pc = IF limit = NoLimit THEN "write" ELSE "over"]
<1>1. op' = [op EXCEPT ![o] = n]
  BY DEF SeedLimit, IInv, TypeOK
<1>2. /\ op[o] \in OpStates /\ op[o].pc = "limit" /\ op[o].why = ""
      /\ InProgress(op[o]) /\ Grounded(op[o])
      /\ op[o].new = {} /\ op[o].held = {} /\ op[o].on = {}
  BY HasNothing DEF SeedLimit
<1>3. limit \in Limits \cup {NoLimit} /\ DefaultLimit \in Limits
  BY SettingsAssumption DEF IInv, TypeOK
<1>4. /\ n \in OpStates /\ n.pc \in {"over", "write"} /\ n.why = ""
      /\ n.seen = op[o].seen /\ n.live = op[o].live /\ n.kind = op[o].kind
      /\ n.activates = op[o].activates /\ n.target = op[o].target
      /\ n.new = {} /\ n.held = {} /\ n.on = {} /\ n.cur = op[o].cur
  BY <1>2, <1>3 DEF OpStates
<1> HIDE DEF n
<1>5. InProgress(n) /\ Grounded(n)
  BY <1>2, <1>4 DEF InProgress, Grounded
<1> QED
  BY <1>1, <1>4, <1>5, EmptyStep DEF SeedLimit

LEMMA WriteLimitIInv ==
  ASSUME IInv, NEW o \in Ops, WriteLimit(o)
  PROVE  IInv'
<1>1. /\ op[o] \in OpStates /\ op[o].pc = "write" /\ op[o].why = ""
      /\ InProgress(op[o]) /\ Grounded(op[o])
      /\ op[o].new = {} /\ op[o].held = {} /\ op[o].on = {}
  BY HasNothing DEF WriteLimit
<1>2. CASE Failed(o, "duplicate") /\ op[o].found = NoLimit /\ limit # NoLimit
  <2>1. op[o].kind \in {"seed", "set_limit"}
    BY <1>1 DEF InProgress, Grounded
  <2> QED
    BY <1>2, <2>1, FailedIInv DEF WriteLimit
<1>3. ASSUME NEW wrote \in BOOLEAN, wrote \/ op[o].found = op[o].value,
             op' = [op EXCEPT ![o] = [op[o] EXCEPT !.pc = "end", !.wrote = wrote]]
      PROVE  IInv'
  <2> DEFINE n == [op[o] EXCEPT !.pc = "end", !.wrote = wrote]
  <2>1. /\ n \in OpStates /\ n.pc = "end" /\ n.why = "" /\ n.wrote = wrote
        /\ n.seen = op[o].seen /\ n.live = op[o].live /\ n.kind = op[o].kind
        /\ n.activates = op[o].activates /\ n.target = op[o].target
        /\ n.new = {} /\ n.held = {} /\ n.on = {} /\ n.cur = op[o].cur
        /\ n.found = op[o].found /\ n.value = op[o].value
    BY <1>1 DEF OpStates
  <2>2. op' = [op EXCEPT ![o] = n]
    BY <1>3
  <2> HIDE DEF n
  <2>3. InProgress(n) /\ Grounded(n)
    BY <1>1, <1>3, <2>1, ZenonT(30) DEF InProgress, Grounded
  <2> QED
    BY <2>1, <2>2, <2>3, EmptyStep DEF WriteLimit
<1>4. CASE op[o].value = op[o].found
  <2>1. op' = [op EXCEPT ![o] = [op[o] EXCEPT !.pc = "end", !.wrote = op[o].wrote]]
    BY <1>1, <1>4 DEF WriteLimit, IInv, TypeOK, OpStates
  <2>2. op[o].wrote \in BOOLEAN
    BY <1>1 DEF OpStates
  <2> QED
    BY <1>3, <1>4, <2>1, <2>2
<1>5. CASE /\ op[o].value # op[o].found
           /\ ~(op[o].found = NoLimit /\ limit # NoLimit)
  <2>1. op' = [op EXCEPT ![o] = [op[o] EXCEPT !.pc = "end", !.wrote = TRUE]]
    BY <1>5 DEF WriteLimit, IInv, TypeOK
  <2> QED
    BY <1>3, <2>1
<1> QED
  BY <1>2, <1>4, <1>5 DEF WriteLimit

LEMMA LoseIInv ==
  ASSUME IInv, NEW o \in Ops, Lose(o)
  PROVE  IInv'
BY FailedIInv DEF Lose

-----------------------------------------------------------------------------
(* Inserting and locking. *)

\* What an INSERT leaves, when it succeeds.
LEMMA InsertStep ==
  ASSUME IInv, NEW o \in Ops, NEW x \in Versions, NEW n \in OpStates,
         op' = [op EXCEPT ![o] = n],
         UNCHANGED <<up, rows, active, limit, chosen, said>>,
         \A p \in Ops \ {o} : x.role \notin op[p].held /\ x \notin op[p].new,
         n.new = op[o].new \cup {x}, n.held = op[o].held,
         n.seen = op[o].seen, n.live = op[o].live, n.why = "",
         InsertsTheNext(n), ActivatesItsOwn(n), InProgress(n) /\ Grounded(n)
  PROVE  IInv'
<1>1. SeesThePast(n)
  BY OfSession DEF Sound, SeesThePast
<1>2. Sound(n)
  BY <1>1 DEF Sound, Explained
<1>3. \A p \in Ops : p # o => Apart(n, op[p]) /\ Apart(op[p], n)
  BY OfSession DEF Apart
<1> QED
  BY <1>2, <1>3, QuietStep

LEMMA SeedRoleIInv ==
  ASSUME IInv, NEW o \in Ops, NEW r \in Roles, SeedRole(o, r)
  PROVE  IInv'
<1> DEFINE found == OfRole(op[o].live, r)
<1>1. /\ op[o] \in OpStates /\ op[o].pc = "seed" /\ r \in op[o].todo
      /\ op[o].why = "" /\ op[o].kind \in Seeds /\ op[o].held = {}
      /\ op[o].on = op[o].new /\ InProgress(op[o]) /\ Grounded(op[o])
      /\ InsertsTheNext(op[o]) /\ ActivatesItsOwn(op[o]) /\ SeesThePast(op[o])
      /\ rows \subseteq Versions /\ VersionsInOrder
      /\ UNCHANGED <<up, rows, active, limit, chosen, said>>
  BY OfSession DEF SeedRole, Sound, InProgress, Grounded, IInv, TypeOK
<1>2. \/ found = {} /\ OfRole(op[o].seen, r) = {}
      \/ \E x \in rows : x.role = r /\ found = {x}
  <2>1. CASE OfRole(op[o].seen, r) = {}
    BY <1>1, <2>1 DEF SeesThePast, OfRole
  <2>2. CASE OfRole(op[o].seen, r) # {}
    <3>1. PICK x \in op[o].seen : found = {x}
      BY <1>1, <2>2 DEF SeesThePast
    <3>2. x.role = r
      BY <3>1 DEF OfRole
    <3> QED
      BY <1>1, <3>1, <3>2 DEF SeesThePast
  <2> QED
    BY <2>1, <2>2
<1>3. CASE found = {} /\ OfRole(op[o].seen, r) = {}
  <2> DEFINE x == First(r)
  <2>1. Insert(o, x, TRUE, "seed")
    <3>1. Cardinality(found) = 0
      BY <1>3, FS_EmptySet
    <3> QED
      BY <3>1 DEF SeedRole, Insert, x
  <2>2. x \in Versions /\ x.role = r /\ x.version = 1 /\ x \notin op[o].seen
    BY <1>3, SettingsAssumption DEF First, Versions, OfRole
  <2> HIDE DEF x
  <2>3. CASE x \in rows
    <3>1. Failed(o, "duplicate")
      BY <2>1, <2>3 DEF Insert
    <3> QED
      BY <1>1, <2>2, <2>3, <3>1, FailedIInv
  <2>4. CASE x \notin rows
    <3> DEFINE n == [op[o] EXCEPT !.pc = "seed", !.new = @ \cup {x},
                                  !.on = @ \cup {x}, !.todo = @ \ {x.role}]
    <3>1. /\ op' = [op EXCEPT ![o] = n]
          /\ \A p \in Ops \ {o} : x.role \notin op[p].held /\ x \notin op[p].new
      BY <2>1, <2>4 DEF Insert, IInv, TypeOK
    <3>2. /\ n \in OpStates /\ n.pc = "seed" /\ n.why = ""
          /\ n.kind = op[o].kind /\ n.new = op[o].new \cup {x} /\ n.on = n.new
          /\ n.held = {} /\ n.seen = op[o].seen /\ n.live = op[o].live
          /\ n.cur = op[o].cur /\ n.todo = op[o].todo \ {r}
          /\ n.activates = op[o].activates /\ n.target = op[o].target
      BY <1>1, <2>2 DEF OpStates
    <3> HIDE DEF n
    <3>3. InsertsTheNext(n)
      BY <1>1, <2>2, <2>4, <3>2 DEF InsertsTheNext
    <3>4. OfRole(rows, r) = {}
      <4> SUFFICES ASSUME NEW y \in rows, y.role = r PROVE FALSE
        BY DEF OfRole
      <4>1. y.version \in 1..MaxVersion
        BY <1>1 DEF Versions
      <4>2. 1 \in 1..y.version
        BY <4>1, SettingsAssumption
      <4>3. [role |-> y.role, version |-> 1] \in rows
        BY <1>1, <4>2 DEF VersionsInOrder
      <4> QED
        BY <2>4, <4>3 DEF x, First
    <3>5. \A y \in op[o].new : y.role = r => y = x
      <4> SUFFICES ASSUME NEW y \in op[o].new, y.role = r PROVE y = x
        OBVIOUS
      <4>1. y.version = 1
        BY <1>1, <3>4 DEF InsertsTheNext, OfRole
      <4>2. y \in Versions
        BY <1>1 DEF OpStates
      <4> QED
        BY <2>2, <4>1, <4>2 DEF Versions
    <3>6. ActivatesItsOwn(n)
      <4> SUFFICES ASSUME NEW y \in n.on
                   PROVE  /\ y \in n.new /\ OfRole(rows, y.role) = {}
                          /\ \A z \in n.on : y.role = z.role => y = z
        BY DEF ActivatesItsOwn
      <4>1. CASE y = x
        BY <1>1, <2>2, <3>2, <3>4, <3>5, <4>1
      <4>2. CASE y \in op[o].on
        <5>1. /\ OfRole(rows, y.role) = {} /\ y \in op[o].new
              /\ \A z \in op[o].on : y.role = z.role => y = z
          BY <1>1, <4>2 DEF ActivatesItsOwn
        <5>2. \A z \in n.on : z = x \/ z \in op[o].on
          BY <1>1, <3>2
        <5> QED
          BY <2>2, <3>2, <3>5, <5>1, <5>2
      <4> QED
        BY <1>1, <3>2, <4>1, <4>2
    <3>7. \A q \in Roles \ n.todo : OfRole(rows \cup n.new, q) # {}
      <4>1. \A q \in Roles \ op[o].todo : OfRole(rows \cup op[o].new, q) # {}
        BY <1>1 DEF InProgress, Grounded
      <4>2. x \in OfRole(rows \cup n.new, r)
        BY <2>2, <3>2 DEF OfRole
      <4>3. \A q : OfRole(rows \cup op[o].new, q) \subseteq OfRole(rows \cup n.new, q)
        BY <3>2 DEF OfRole
      <4> QED
        BY <3>2, <4>1, <4>2, <4>3
    <3>8. InProgress(n) /\ Grounded(n)
      BY <1>1, <3>2, <3>7, ZenonT(30) DEF InProgress, Grounded
    <3> QED
      BY <1>1, <2>2, <3>1, <3>2, <3>3, <3>6, <3>8, InsertStep
  <2> QED
    BY <2>3, <2>4
<1>4. ASSUME NEW x \in rows, x.role = r, found = {x}
      PROVE  IInv'
  <2> DEFINE n == [op[o] EXCEPT !.todo = @ \ {r}]
  <2>1. op' = [op EXCEPT ![o] = n]
    <3>1. Cardinality(found) = 1
      BY <1>4, FS_Singleton
    <3> QED
      BY <3>1 DEF SeedRole, IInv, TypeOK
  <2>2. /\ n \in OpStates /\ n.pc = "seed" /\ n.why = ""
        /\ n.kind = op[o].kind /\ n.new = op[o].new /\ n.on = n.new
        /\ n.held = {} /\ n.seen = op[o].seen /\ n.live = op[o].live
        /\ n.cur = op[o].cur /\ n.todo = op[o].todo \ {r}
        /\ n.activates = op[o].activates /\ n.target = op[o].target
    BY <1>1 DEF OpStates
  <2> HIDE DEF n
  <2>3. \A q \in Roles \ n.todo : OfRole(rows \cup n.new, q) # {}
    <3>1. \A q \in Roles \ op[o].todo : OfRole(rows \cup op[o].new, q) # {}
      BY <1>1 DEF InProgress, Grounded
    <3> QED
      BY <1>4, <2>2, <3>1 DEF OfRole
  <2>4. InProgress(n) /\ Grounded(n)
    BY <1>1, <2>2, <2>3 DEF InProgress, Grounded
  <2>5. SeesThePast(n)
    BY <1>1, <2>2 DEF SeesThePast
  <2>6. InsertsTheNext(n) /\ Explained(n)
    BY <1>1, <2>2 DEF InsertsTheNext, Explained
  <2>7. ActivatesItsOwn(n)
    BY <1>1, <2>2 DEF ActivatesItsOwn
  <2> QED
    BY <1>1, <2>1, <2>2, <2>4, <2>5, <2>6, <2>7, SmallerStep DEF Sound
<1> QED
  BY <1>2, <1>3, <1>4

LEMMA DeactivateIInv ==
  ASSUME IInv, NEW o \in Ops, Deactivate(o)
  PROVE  IInv'
<1> DEFINE n == [op[o] EXCEPT
                   !.pc = IF op[o].kind = "activate" THEN "commit" ELSE "insert",
                   !.held = op[o].cur, !.on = op[o].target]
<1>1. op' = [op EXCEPT ![o] = n]
  BY DEF Deactivate, IInv, TypeOK
<1>2. /\ op[o] \in OpStates /\ op[o].pc = "update" /\ op[o].why = ""
      /\ InProgress(op[o]) /\ Grounded(op[o]) /\ SeesThePast(op[o])
      /\ op[o].new = {} /\ op[o].held = {} /\ op[o].on = {}
  BY HasNothing, OfSession DEF Deactivate, Sound
<1>3. /\ n \in OpStates /\ n.why = "" /\ n.kind = op[o].kind
      /\ n.pc = (IF op[o].kind = "activate" THEN "commit" ELSE "insert")
      /\ n.held = op[o].cur /\ n.on = op[o].target /\ n.new = {}
      /\ n.seen = op[o].seen /\ n.live = op[o].live /\ n.cur = op[o].cur
      /\ n.activates = op[o].activates /\ n.target = op[o].target
  BY <1>2 DEF OpStates
<1> HIDE DEF n
<1>4. IF n.kind = "activate"
      THEN \E x \in rows : n.on = {x} /\ n.held = {x.role}
      ELSE n.activates /\ n.on = {}
  BY <1>2, <1>3 DEF InProgress, Grounded
<1>5. ActivatesItsOwn(n)
  BY <1>3, <1>4 DEF ActivatesItsOwn
<1>6. InProgress(n) /\ Grounded(n)
  <2>1. n.pc = "commit" => \A r \in n.held : OfRole(n.on, r) # {}
    BY <1>3, <1>4 DEF OfRole
  <2>2. \A r, s \in n.cur : r = s
    BY <1>2, <1>3 DEF InProgress, Grounded
  <2>3. n.kind = "upgrade" => n.activates /\ n.target = {}
    BY <1>2, <1>3 DEF InProgress, Grounded
  <2>4. n.kind \in {"create", "activate", "upgrade"}
    BY <1>2, <1>3 DEF InProgress, Grounded
  <2>5. n.pc = "insert" => n.on = {} /\ n.activates
    BY <1>3, <1>4
  <2> QED
    BY <1>3, <2>1, <2>2, <2>3, <2>4, <2>5 DEF InProgress, Grounded
<1>7. SeesThePast(n) /\ InsertsTheNext(n) /\ Explained(n)
  BY <1>2, <1>3 DEF SeesThePast, InsertsTheNext, Explained
<1>8. ASSUME NEW p \in Ops, p # o
      PROVE  Apart(n, op[p]) /\ Apart(op[p], n)
  <2>1. \A r \in n.held : /\ OfRole(op[p].new, r) = {}
                          /\ OfRole(rows, r) # {} => r \notin op[p].held
    BY <1>3, <1>8 DEF Deactivate
  <2>2. \A y \in op[p].new : y.role \notin n.held
    BY <2>1 DEF OfRole
  <2> QED
    BY <1>3, <2>1, <2>2 DEF Apart
<1> QED
  BY <1>1, <1>3, <1>5, <1>6, <1>7, <1>8, QuietStep DEF Deactivate, Sound

LEMMA InsertNextIInv ==
  ASSUME IInv, NEW o \in Ops, InsertNext(o)
  PROVE  IInv'
<1>1. PICK x \in Versions : /\ x.role \in op[o].cur /\ IsNext(op[o].seen, x)
                            /\ Insert(o, x, op[o].activates, "commit")
  BY DEF InsertNext
<1>2. /\ op[o] \in OpStates /\ op[o].pc = "insert" /\ op[o].why = ""
      /\ InProgress(op[o]) /\ Grounded(op[o]) /\ SeesThePast(op[o])
      /\ op[o].new = {} /\ op[o].on = {}
      /\ rows \subseteq Versions
      /\ UNCHANGED <<up, rows, active, limit, chosen, said>>
  BY OfSession DEF InsertNext, Sound, InProgress, Grounded, IInv, TypeOK
<1>3. x.role \in Roles /\ x.version \in Nat
  BY <1>1 DEF Versions
<1>4. x \notin op[o].seen
  BY <1>1, <1>3 DEF IsNext, OfRole
<1>5. CASE x \in rows
  <2>1. Failed(o, "duplicate")
    BY <1>1, <1>5 DEF Insert
  <2> QED
    BY <1>1, <1>2, <1>4, <1>5, <2>1, FailedIInv
<1>6. CASE x \notin rows
  <2> DEFINE n == [op[o] EXCEPT
                     !.pc = "commit", !.new = @ \cup {x},
                     !.on = @ \cup (IF op[o].activates THEN {x} ELSE {}),
                     !.todo = @ \ {x.role}]
  <2>1. /\ op' = [op EXCEPT ![o] = n]
        /\ \A p \in Ops \ {o} : x.role \notin op[p].held /\ x \notin op[p].new
    BY <1>1, <1>6 DEF Insert, IInv, TypeOK
  <2>2. /\ n \in OpStates /\ n.pc = "commit" /\ n.why = ""
        /\ n.kind = op[o].kind /\ n.new = {x} /\ n.held = op[o].held
        /\ n.on = (IF op[o].activates THEN {x} ELSE {})
        /\ n.seen = op[o].seen /\ n.live = op[o].live /\ n.cur = op[o].cur
        /\ n.activates = op[o].activates /\ n.target = op[o].target
    BY <1>2 DEF OpStates
  <2> HIDE DEF n
  <2>3. /\ op[o].held = (IF op[o].activates THEN op[o].cur ELSE {})
        /\ ~op[o].activates => up
        /\ \A r, s \in op[o].cur : r = s
        /\ op[o].kind = "upgrade" => op[o].activates /\ op[o].target = {}
        /\ op[o].kind \in {"create", "activate", "upgrade"}
    BY <1>2 DEF InProgress, Grounded
  <2>4. InsertsTheNext(n)
    <3>1. x.version = 1 \/ [role |-> x.role, version |-> x.version - 1] \in rows
      <4> SUFFICES ASSUME x.version # 1
                   PROVE  [role |-> x.role, version |-> x.version - 1] \in rows
        OBVIOUS
      <4>1. PICK y \in OfRole(op[o].seen, x.role) : y.version = x.version - 1
        BY <1>1 DEF IsNext
      <4>2. y \in rows /\ y.role = x.role
        BY <1>2, <4>1 DEF SeesThePast, OfRole
      <4>3. y = [role |-> y.role, version |-> y.version]
        BY <1>2, <4>2 DEF Versions
      <4> QED
        BY <4>1, <4>2, <4>3
    <3>2. x \notin n.on => OfRole(rows, x.role) # {}
      BY <1>3, <2>2, <2>3 DEF IInv, UpMeansSeeded
    <3> QED
      BY <1>6, <2>2, <3>1, <3>2 DEF InsertsTheNext
  <2>5. ActivatesItsOwn(n)
    BY <1>1, <2>2, <2>3 DEF ActivatesItsOwn
  <2>6. InProgress(n) /\ Grounded(n)
    <3>1. \A r \in n.held : OfRole(n.on, r) # {}
      BY <1>1, <2>2, <2>3 DEF OfRole
    <3> QED
      BY <2>2, <2>3, <3>1 DEF InProgress, Grounded
  <2> QED
    BY <1>2, <2>1, <2>2, <2>4, <2>5, <2>6, InsertStep
<1> QED
  BY <1>5, <1>6

\* The end of set_sql_limit, and of seed_default_system_configs.
LEMMA CommitLimitIInv ==
  ASSUME IInv, NEW o \in Ops, CommitLimit(o)
  PROVE  IInv'
<1> DEFINE n == [op[o] EXCEPT !.pc = "over", !.wrote = FALSE]
<1>1. /\ op[o] \in OpStates /\ op[o].pc = "end" /\ op[o].why = ""
      /\ InProgress(op[o]) /\ Grounded(op[o]) /\ SeesThePast(op[o])
      /\ op[o].new = {} /\ op[o].held = {} /\ op[o].on = {}
  BY HasNothing, OfSession DEF CommitLimit, Sound
<1>2. /\ n \in OpStates /\ n.pc = "over" /\ n.why = "" /\ n.kind = op[o].kind
      /\ n.new = {} /\ n.held = {} /\ n.on = {} /\ n.cur = op[o].cur
      /\ n.seen = op[o].seen /\ n.live = op[o].live
      /\ n.activates = op[o].activates /\ n.target = op[o].target
  BY <1>1 DEF OpStates
<1>3. /\ op' = [op EXCEPT ![o] = n]
      /\ limit' = (IF op[o].wrote THEN op[o].value ELSE limit)
      /\ said' = [value |-> op[o].value, skipped |-> op[o].found = op[o].value]
      /\ UNCHANGED <<up, rows, active, chosen>>
  BY DEF CommitLimit, IInv, TypeOK
<1> HIDE DEF n
<1>4. /\ op' \in [Ops -> OpStates] /\ op'[o] = n
      /\ \A p \in Ops : p # o => op'[p] = op[p]
  BY <1>2, <1>3 DEF IInv, TypeOK
<1>5. op[o].value \in Limits /\ Limits \subseteq Nat \ {0}
  BY <1>1, SettingsAssumption DEF OpStates
<1>6. limit' # NoLimit \/ limit' = limit
  BY <1>3, <1>5 DEF NoLimit
<1>7. TypeOK'
  BY <1>3, <1>4, <1>5 DEF IInv, TypeOK
<1>8. LoadedIsChosen' /\ VersionsInOrder' /\ ChosenIsActive' /\ UpMeansSeeded'
  BY <1>3 DEF IInv, LoadedIsChosen, Loadable, VersionsInOrder, ChosenIsActive,
              UpMeansSeeded
<1>9. LimitIsSaid'
  BY <1>1, <1>3 DEF InProgress, Grounded, LimitIsSaid
<1>10. SessionsInv'
  <2>1. Sound(n)
    <3>1. InProgress(n) /\ Grounded(n)
      BY <1>1, <1>2 DEF InProgress, Grounded
    <3>2. SeesThePast(n) /\ InsertsTheNext(n) /\ ActivatesItsOwn(n) /\ Explained(n)
      BY <1>1, <1>2 DEF SeesThePast, InsertsTheNext, ActivatesItsOwn, Explained
    <3> QED
      BY <3>1, <3>2 DEF Sound
  <2>2. \A p \in Ops : Sound(op'[p])
    BY <1>4, <2>1, OfSession
  <2>3. ASSUME NEW p \in Ops PROVE Sound(op[p])'
    <3>1. Sound(op'[p])
      BY <2>2
    <3>2. Explained(op[p])'
      BY <1>3, <1>6, <3>1 DEF Sound, Explained
    <3>3. SeesThePast(op[p])' /\ InsertsTheNext(op[p])' /\ ActivatesItsOwn(op[p])'
      BY <1>3, <3>1 DEF Sound, SeesThePast, InsertsTheNext, ActivatesItsOwn
    <3>4. InProgress(op[p])'
      BY <3>1 DEF Sound, InProgress
    <3>5. Grounded(op[p])'
      BY <1>3, <3>1 DEF Sound, Grounded
    <3> QED
      BY <3>2, <3>3, <3>4, <3>5 DEF Sound
  <2>4. ASSUME NEW p \in Ops, NEW q \in Ops, p # q PROVE Apart(op[p], op[q])'
    <3>1. Apart(op[p], op[q])
      BY <2>4, OfSession
    <3>2. /\ op'[p].new = op[p].new /\ op'[p].held = op[p].held
          /\ op'[q].new = op[q].new /\ op'[q].held = op[q].held
      BY <1>1, <1>2, <1>4
    <3> QED
      BY <1>3, <3>1, <3>2 DEF Apart
  <2> QED
    BY <2>3, <2>4 DEF SessionsInv
<1> QED
  BY <1>7, <1>8, <1>9, <1>10 DEF IInv

-----------------------------------------------------------------------------
(* The commit of prompt versions. *)

\* What a session has at the point where it commits.
LEMMA AtCommitPoint ==
  ASSUME IInv, NEW o \in Ops, CommitPoint(o)
  PROVE  /\ op[o] \in OpStates /\ Sound(op[o]) /\ op[o].why = ""
         /\ \A r \in op[o].held : OfRole(op[o].on, r) # {}
         /\ op[o].kind = "startup" =>
              \A r \in Roles : OfRole(rows \cup op[o].new, r) # {}
BY OfSession DEF CommitPoint, Sound, InProgress, Grounded

\* Versions of a role are numbered from 1.
LEMMA FirstExists ==
  ASSUME IInv, NEW x \in rows
  PROVE  [role |-> x.role, version |-> 1] \in rows
<1>1. x.version \in 1..MaxVersion
  BY DEF IInv, TypeOK, Versions
<1>2. 1 \in 1..x.version
  BY <1>1, SettingsAssumption
<1> QED
  BY <1>2 DEF IInv, VersionsInOrder

\* The first version of a role is what two sessions insert that both find none.
LEMMA SameFirst ==
  ASSUME IInv, NEW o \in Ops, NEW x \in op[o].new, OfRole(rows, x.role) = {}
  PROVE  x.version = 1 /\ x = [role |-> x.role, version |-> 1]
<1>1. x \in Versions /\ InsertsTheNext(op[o])
  BY OfSession DEF Sound, OpStates
<1>2. x.version = 1
  BY <1>1 DEF InsertsTheNext, OfRole
<1> QED
  BY <1>1, <1>2 DEF Versions

LEMMA CommittedSessions ==
  ASSUME IInv, NEW o \in Ops, Commit(o)
  PROVE  SessionsInv'
<1> DEFINE n == [op[o] EXCEPT
                   !.pc = CASE op[o].kind = "seed" -> "limit"
                            [] op[o].kind = "upgrade" -> "refresh"
                            [] OTHER -> "over",
                   !.held = {}, !.new = {}, !.on = {}]
<1>1. /\ op[o] \in OpStates /\ Sound(op[o]) /\ op[o].why = ""
  BY AtCommitPoint DEF Commit
<1>2. /\ op' = [op EXCEPT ![o] = n] /\ rows' = rows \cup op[o].new
      /\ limit' = limit /\ (up => up') /\ rows \subseteq rows'
  BY DEF Commit, Committed, IInv, TypeOK
<1>3. /\ n \in OpStates /\ n.why = "" /\ n.kind = op[o].kind
      /\ n.pc \in {"limit", "refresh", "over"}
      /\ n.pc = "limit" => n.kind = "seed"
      /\ n.pc = "refresh" => n.kind = "upgrade"
      /\ n.new = {} /\ n.held = {} /\ n.on = {} /\ n.cur = op[o].cur
      /\ n.seen = op[o].seen /\ n.live = op[o].live
      /\ n.activates = op[o].activates /\ n.target = op[o].target
  BY <1>1 DEF OpStates
<1> HIDE DEF n
<1>4. /\ op' \in [Ops -> OpStates] /\ op'[o] = n
      /\ \A p \in Ops : p # o => op'[p] = op[p]
  BY <1>2, <1>3 DEF IInv, TypeOK
<1>5. \A set, r : OfRole(set, r) = {} => \A x \in set : x.role # r
  BY DEF OfRole
<1>6. \A r : OfRole(rows, r) # {} => OfRole(rows', r) # {}
  BY <1>2 DEF OfRole
<1>7. Sound(op[o])'
  <2>1. /\ op'[o].why = "" /\ op'[o].kind = op[o].kind
        /\ op'[o].pc \in {"limit", "refresh", "over"}
        /\ op'[o].pc = "limit" => op'[o].kind = "seed"
        /\ op'[o].pc = "refresh" => op'[o].kind = "upgrade"
        /\ op'[o].new = {} /\ op'[o].held = {} /\ op'[o].on = {}
        /\ op'[o].cur = op[o].cur
        /\ op'[o].seen = op[o].seen /\ op'[o].live = op[o].live
        /\ op'[o].activates = op[o].activates /\ op'[o].target = op[o].target
    BY <1>3, <1>4
  <2>2. (InProgress(op[o]) /\ Grounded(op[o]))'
    BY <1>1, <2>1, ZenonT(30) DEF Sound, InProgress, Grounded
  <2>3. Explained(op[o])' /\ InsertsTheNext(op[o])' /\ ActivatesItsOwn(op[o])'
    BY <2>1 DEF Explained, InsertsTheNext, ActivatesItsOwn
  <2>4. SeesThePast(op[o])'
    BY <1>1, <1>2, <2>1 DEF Sound, SeesThePast
  <2> QED
    BY <2>2, <2>3, <2>4 DEF Sound
<1>8. ASSUME NEW p \in Ops, p # o
      PROVE  Sound(op[p])'
  <2>1. /\ Sound(op[p]) /\ op[p] \in OpStates /\ op'[p] = op[p]
        /\ Apart(op[o], op[p]) /\ Apart(op[p], op[o])
    BY <1>4, <1>8, OfSession
  <2>2. Explained(op[p])'
    BY <1>2, <2>1 DEF Sound, Explained
  <2>3. SeesThePast(op[p])'
    BY <1>2, <2>1 DEF Sound, SeesThePast
  <2>4. InsertsTheNext(op[p])'
    <3> SUFFICES ASSUME NEW x \in op[p].new
                 PROVE  /\ x \notin rows'
                        /\ \/ x.version = 1
                           \/ [role |-> x.role, version |-> x.version - 1] \in rows'
                        /\ x \notin op[p].on => OfRole(rows', x.role) # {}
      BY <2>1 DEF InsertsTheNext
    <3>1. x \notin op[o].new
      BY <2>1 DEF Apart
    <3> QED
      BY <1>2, <1>6, <2>1, <3>1 DEF Sound, InsertsTheNext
  <2>5. ActivatesItsOwn(op[p])'
    <3> SUFFICES ASSUME NEW x \in op[p].on
                 PROVE  /\ x \in op[p].new \/ (x \in rows' /\ x.role \in op[p].held)
                        /\ x.role \notin op[p].held => OfRole(rows', x.role) = {}
                        /\ \A y \in op[p].on : x.role = y.role => x = y
      BY <2>1 DEF ActivatesItsOwn
    <3>1. /\ x \in op[p].new \/ (x \in rows /\ x.role \in op[p].held)
          /\ x.role \notin op[p].held => OfRole(rows, x.role) = {}
          /\ \A y \in op[p].on : x.role = y.role => x = y
      BY <2>1 DEF Sound, ActivatesItsOwn
    <3>2. ASSUME x.role \notin op[p].held PROVE OfRole(rows', x.role) = {}
      <4> SUFFICES ASSUME NEW y \in op[o].new, y.role = x.role PROVE FALSE
        BY <1>2, <3>1, <3>2 DEF OfRole
      <4>1. x = y
        BY <3>1, <3>2, SameFirst
      <4> QED
        BY <2>1, <3>1, <3>2, <4>1 DEF Apart
    <3> QED
      BY <1>2, <3>1, <3>2
  <2>6. InProgress(op[p])'
    BY <2>1, ZenonT(30) DEF Sound, InProgress
  <2>7. Grounded(op[p])'
    <3>1. \A set, r : OfRole(rows \cup set, r) # {} => OfRole(rows' \cup set, r) # {}
      BY <1>2 DEF OfRole
    <3> QED
      BY <1>2, <2>1, <3>1 DEF Sound, Grounded
  <2> QED
    BY <2>2, <2>3, <2>4, <2>5, <2>6, <2>7 DEF Sound
<1>9. ASSUME NEW p \in Ops, NEW q \in Ops, p # q
      PROVE  Apart(op[p], op[q])'
  <2>1. Apart(op[p], op[q])
    BY <1>9, OfSession
  <2>2. CASE p = o \/ q = o
    BY <1>3, <1>4, <2>2 DEF Apart
  <2>3. CASE p # o /\ q # o
    <3>1. op'[p] = op[p] /\ op'[q] = op[q]
      BY <1>4, <2>3
    <3>2. ASSUME NEW r \in op[p].held, OfRole(rows', r) # {}, r \in op[q].held
          PROVE  FALSE
      <4>1. OfRole(rows, r) = {}
        BY <2>1, <3>2 DEF Apart
      <4>2. PICK x \in op[o].new : x.role = r
        BY <1>2, <3>2, <4>1 DEF OfRole
      <4>3. x.role \notin op[p].held
        BY <2>3, OfSession DEF Apart
      <4> QED
        BY <3>2, <4>2, <4>3
    <3> QED
      BY <2>1, <3>1, <3>2 DEF Apart
  <2> QED
    BY <2>2, <2>3
<1> QED
  BY <1>7, <1>8, <1>9 DEF SessionsInv

LEMMA CommitIInv ==
  ASSUME IInv, NEW o \in Ops, Commit(o)
  PROVE  IInv'
<1>1. /\ op[o] \in OpStates /\ Sound(op[o])
      /\ rows \subseteq Versions /\ active \subseteq Versions
      /\ \A r \in op[o].held : OfRole(op[o].on, r) # {}
      /\ op[o].kind = "startup" =>
           \A r \in Roles : OfRole(rows \cup op[o].new, r) # {}
  BY AtCommitPoint DEF Commit, IInv, TypeOK
<1>2. /\ op[o].new \subseteq Versions /\ op[o].on \subseteq Versions
      /\ op[o].held \subseteq Roles
  BY <1>1 DEF OpStates
<1>3. /\ rows' = rows \cup op[o].new
      /\ active' = { x \in active : x.role \notin op[o].held } \cup op[o].on
      /\ chosen' = { x \in chosen : OfRole(op[o].on, x.role) = {} } \cup op[o].on
      /\ up' = (up \/ op[o].kind = "startup")
      /\ limit' = limit /\ said' = said
  BY DEF Commit, Chosen
<1>4. active = chosen /\ active \subseteq rows
  BY DEF IInv, ChosenIsActive
<1>5. /\ \A x \in op[o].on :
           /\ x \in op[o].new \/ (x \in rows /\ x.role \in op[o].held)
           /\ x.role \notin op[o].held => OfRole(rows, x.role) = {}
           /\ \A y \in op[o].on : x.role = y.role => x = y
      /\ \A x \in op[o].new :
           /\ x.version = 1 \/ [role |-> x.role, version |-> x.version - 1] \in rows
           /\ x \notin op[o].on => OfRole(rows, x.role) # {}
  BY <1>1 DEF Sound, ActivatesItsOwn, InsertsTheNext
<1>6. TypeOK'
  <2>1. op' \in [Ops -> OpStates]
    <3> DEFINE n == [op[o] EXCEPT
                       !.pc = CASE op[o].kind = "seed" -> "limit"
                                [] op[o].kind = "upgrade" -> "refresh"
                                [] OTHER -> "over",
                       !.held = {}, !.new = {}, !.on = {}]
    <3>1. op' = [op EXCEPT ![o] = n]
      BY DEF Commit, Committed, IInv, TypeOK
    <3>2. n \in OpStates
      BY <1>1 DEF OpStates
    <3> HIDE DEF n
    <3> QED
      BY <3>1, <3>2 DEF IInv, TypeOK
  <2>2. up' \in BOOLEAN
    BY <1>3
  <2>3. rows' \subseteq Versions /\ active' \subseteq Versions /\ chosen' \subseteq Versions
    BY <1>1, <1>2, <1>3, <1>4
  <2> QED
    BY <1>3, <2>1, <2>2, <2>3 DEF IInv, TypeOK
<1>7. ChosenIsActive'
  <2>1. \A x \in active : x.role \in op[o].held <=> OfRole(op[o].on, x.role) # {}
    BY <1>1, <1>4, <1>5 DEF OfRole
  <2>2. active' = chosen'
    BY <1>3, <1>4, <2>1
  <2>3. active' \subseteq rows'
    BY <1>3, <1>4, <1>5
  <2> QED
    BY <2>2, <2>3 DEF ChosenIsActive
<1>8. LoadedIsChosen'
  <2> SUFFICES ASSUME NEW r \in Roles
               PROVE  /\ OfRole(rows', r) = {} => OfRole(active', r) = {}
                      /\ OfRole(rows', r) # {} =>
                           \E x \in OfRole(rows', r) : OfRole(active', r) = {x}
    BY <1>7 DEF LoadedIsChosen, Loadable, ChosenIsActive
  <2>1. active' \subseteq rows'
    BY <1>7 DEF ChosenIsActive
  <2>2. CASE OfRole(op[o].on, r) # {}
    <3>1. PICK y \in op[o].on : y.role = r
      BY <2>2 DEF OfRole
    <3>2. \A z \in active' : z.role = r => z = y
      <4> SUFFICES ASSUME NEW z \in active, z.role = r, r \notin op[o].held
                   PROVE  FALSE
        BY <1>3, <1>5, <3>1
      <4> QED
        BY <1>4, <1>5, <3>1 DEF OfRole
    <3>3. y \in active'
      BY <1>3
    <3>4. OfRole(active', r) = {y} /\ y \in OfRole(rows', r)
      BY <2>1, <3>1, <3>2, <3>3 DEF OfRole
    <3> QED
      BY <3>4
  <2>3. CASE OfRole(op[o].on, r) = {}
    <3>1. OfRole(active', r) = OfRole(active, r)
      BY <1>1, <1>3, <2>3 DEF OfRole
    <3>2. OfRole(rows', r) # {} => OfRole(rows, r) # {}
      BY <1>3, <1>5, <2>3, ZenonT(30) DEF OfRole
    <3>3. OfRole(rows, r) # {} => \E x \in rows : OfRole(active, r) = {x}
      BY OfActive
    <3>4. ASSUME NEW x \in rows, OfRole(active, r) = {x}
          PROVE  x \in OfRole(rows', r)
      BY <1>3, <3>4 DEF OfRole
    <3>5. OfRole(rows', r) = {} => OfRole(active', r) = {}
      BY <2>1 DEF OfRole
    <3> QED
      BY <3>1, <3>2, <3>3, <3>4, <3>5
  <2> QED
    BY <2>2, <2>3
<1>9. VersionsInOrder'
  <2> SUFFICES ASSUME NEW x \in op[o].new, NEW v \in 1..x.version, v # x.version
               PROVE  [role |-> x.role, version |-> v] \in rows
    <3>1. \A x \in op[o].new : x = [role |-> x.role, version |-> x.version]
      BY <1>2 DEF Versions
    <3> QED
      BY <1>3, <3>1 DEF IInv, VersionsInOrder
  <2>1. x.version \in Nat
    BY <1>2 DEF Versions
  <2>2. [role |-> x.role, version |-> x.version - 1] \in rows
    BY <1>5, <2>1
  <2>3. v \in 1..(x.version - 1)
    BY <2>1
  <2> DEFINE y == [role |-> x.role, version |-> x.version - 1]
  <2>4. y \in rows /\ y.role = x.role /\ v \in 1..y.version
    BY <2>2, <2>3
  <2> HIDE DEF y
  <2>5. [role |-> y.role, version |-> v] \in rows
    BY <2>4 DEF IInv, VersionsInOrder
  <2> QED
    BY <2>4, <2>5
<1>10. LimitIsSaid'
  BY <1>3 DEF IInv, LimitIsSaid
<1>11. UpMeansSeeded'
  <2>1. \A r : OfRole(rows, r) # {} => OfRole(rows', r) # {}
    BY <1>3 DEF OfRole
  <2> QED
    BY <1>1, <1>3, <2>1 DEF IInv, UpMeansSeeded
<1> QED
  BY <1>6, <1>7, <1>8, <1>9, <1>10, <1>11, CommittedSessions DEF IInv

-----------------------------------------------------------------------------

LEMMA NextIInv == IInv /\ [Next]_vars => IInv'
<1> SUFFICES ASSUME IInv, [Next]_vars PROVE IInv'
  OBVIOUS
<1>1. CASE UNCHANGED vars
  <2>1. TypeOK' /\ LoadedIsChosen' /\ VersionsInOrder' /\ LimitIsSaid'
    BY <1>1 DEF vars, IInv, TypeOK, LoadedIsChosen, Loadable, VersionsInOrder,
                LimitIsSaid
  <2>2. ChosenIsActive' /\ UpMeansSeeded'
    BY <1>1 DEF vars, IInv, ChosenIsActive, UpMeansSeeded
  <2>3. \A p \in Ops : Sound(op[p])'
    <3> SUFFICES ASSUME NEW p \in Ops PROVE Sound(op[p])'
      OBVIOUS
    <3>1. Sound(op[p]) /\ UNCHANGED <<up, rows, limit, op>>
      BY <1>1, OfSession DEF vars
    <3>2. Explained(op[p])' /\ SeesThePast(op[p])'
      BY <3>1 DEF Sound, Explained, SeesThePast
    <3>3. InsertsTheNext(op[p])' /\ ActivatesItsOwn(op[p])'
      BY <3>1 DEF Sound, InsertsTheNext, ActivatesItsOwn
    <3>4. InProgress(op[p])'
      BY <3>1, ZenonT(30) DEF Sound, InProgress
    <3>5. Grounded(op[p])'
      BY <3>1 DEF Sound, Grounded
    <3> QED
      BY <3>2, <3>3, <3>4, <3>5 DEF Sound
  <2>4. SessionsInv'
    BY <1>1, <2>3 DEF vars, IInv, SessionsInv, Apart
  <2> QED
    BY <2>1, <2>2, <2>4 DEF IInv
<1>2. ASSUME NEW o \in Ops, Step(o) PROVE IInv'
  BY <1>2, BeginSeedIInv, BeginCreateIInv, BeginActivateIInv, BeginUpgradeIInv,
     BeginSetLimitIInv, NextRoleIInv, DeactivateIInv, InsertNextIInv, CommitIInv,
     RefreshIInv, SeedLimitIInv, WriteLimitIInv, CommitLimitIInv, LoseIInv,
     SeedRoleIInv DEF Step
<1> QED
  BY <1>1, <1>2 DEF Next

\* load_active_prompts gives for each role the version whose activation was
\* committed last, however create_prompt_version, activate_prompt_version, seeds
\* and the upgrade script interleave and fail.
THEOREM OneActiveVersion == Spec => []LoadedIsChosen
<1>1. IInv => LoadedIsChosen
  BY DEF IInv
<1> QED
  BY <1>1, InitIInv, NextIInv, PTL DEF Spec

\* seed_default_prompts and the editors fail by themselves only over what
\* another session committed after their snapshot.
THEOREM FailuresAreExplained == Spec => []FailureExplained
<1>1. IInv => FailureExplained
  BY DEF IInv, SessionsInv, Sound, FailureExplained
<1> QED
  BY <1>1, InitIInv, NextIInv, PTL DEF Spec

\* set_sql_limit: the limit in use is the one acknowledged last, unless that
\* session found the same value and wrote nothing.
THEOREM LimitIsKept == Spec => []LimitIsSaid
<1>1. IInv => LimitIsSaid
  BY DEF IInv
<1> QED
  BY <1>1, InitIInv, NextIInv, PTL DEF Spec

\* create_prompt_version numbers the versions of a role from 1 without a gap.
THEOREM NumbersHaveNoGap == Spec => []VersionsInOrder
<1>1. IInv => VersionsInOrder
  BY DEF IInv
<1> QED
  BY <1>1, InitIInv, NextIInv, PTL DEF Spec
=============================================================================
