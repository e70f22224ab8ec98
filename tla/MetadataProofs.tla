---------------------------- MODULE MetadataProofs ----------------------------
(***************************************************************************)
(* Every synchronisation, edit and deletion keeps what Metadata.tla says   *)
(* of the metadata of a datasource, for any number of sessions, of tables  *)
(* and of foreign keys.                                                    *)
(***************************************************************************)
EXTENDS Metadata, FiniteSetTheorems, TLAPS

-----------------------------------------------------------------------------
(* Maps from ids. *)

LEMMA AreMaps ==
  ASSUME NEW R, NEW s \in SUBSET Ids, NEW f \in [s -> R]
  PROVE  f \in Maps(R)
BY DEF Maps

LEMMA MapsAre ==
  ASSUME NEW R, NEW f \in Maps(R)
  PROVE  DOMAIN f \subseteq Ids /\ f \in [DOMAIN f -> R]
BY DEF Maps

LEMMA WithIs ==
  ASSUME NEW R, NEW f \in Maps(R), NEW i \in Ids, NEW r \in R
  PROVE  /\ With(f, i, r) \in Maps(R)
         /\ With(f, i, r) \in [DOMAIN f \cup {i} -> R]
<1>1. DOMAIN f \subseteq Ids /\ f \in [DOMAIN f -> R]
  BY MapsAre
<1>2. With(f, i, r) \in [DOMAIN f \cup {i} -> R]
  BY <1>1 DEF With
<1>3. QED
  BY <1>1, <1>2, AreMaps

LEMMA NoTablesIsMap ==
  ASSUME NEW R
  PROVE  NoTables \in Maps(R) /\ DOMAIN NoTables = {}
<1>1. NoTables \in [{} -> R] /\ DOMAIN NoTables = {}
  BY DEF NoTables
<1>2. QED
  BY <1>1, AreMaps

LEMMA IdleIsSession ==
  /\ Idle \in Sessions /\ DOMAIN Idle.view = {} /\ DOMAIN Idle.ids = {}
  /\ WritesNothing(Idle)
<1>1. /\ NoTables \in Maps(Rows) /\ NoTables \in Maps(Names)
      /\ DOMAIN NoTables = {}
  BY NoTablesIsMap
<1>2. QED
  BY <1>1 DEF Idle, Sessions, WritesNothing

-----------------------------------------------------------------------------
(* Steps that change one session and no row. *)

\* What is the same for every session that has written nothing.
LEMMA QuietFits ==
  ASSUME NEW n \in Sessions, WritesNothing(n)
  PROVE  Fits(n) /\ \A m \in Sessions : Apart(n, m)
BY DEF Fits, Apart, WritesNothing, Sessions

LEMMA QuietWrites ==
  ASSUME NEW n, NEW o, WritesNothing(n), DOMAIN n.ids = {}
  PROVE  WritesWhatIsAsked(n, o)
<1>1. /\ DOMAIN n.new = {} /\ n.allows = {} /\ n.describes = {} /\ n.held = {}
      /\ n.gone = {} /\ n.newfks = {}
  BY DEF WritesNothing
<1>2. QED
  BY <1>1 DEF WritesWhatIsAsked, AddsWhatIsAsked, ChangesWhatIsAsked, ReplacesFks

LEMMA ChangesStay ==
  ASSUME NEW s \in Sessions, NEW n \in Sessions, ChangesWhatIsAsked(s),
         s.pc # "update", n.pc # "update",
         n.ids = s.ids, n.new = s.new, n.view = s.view, n.allow = s.allow,
         n.allows = s.allows, n.describes = s.describes
  PROVE  ChangesWhatIsAsked(n)
<1>1. \A i \in DOMAIN s.ids \ DOMAIN s.new :
        /\ i \in DOMAIN s.view /\ s.ids[i] = s.view[i].name
        /\ i \in s.allows <=> s.view[i].allowed # (s.ids[i] \in s.allow)
  BY DEF ChangesWhatIsAsked
<1>2. \A i \in DOMAIN n.ids \ DOMAIN n.new :
        /\ i \in DOMAIN n.view /\ n.ids[i] = n.view[i].name
        /\ i \in n.allows <=> n.view[i].allowed # (n.ids[i] \in n.allow)
  BY <1>1
<1>3. /\ n.allows \subseteq DOMAIN n.ids \cap DOMAIN n.view
      /\ n.describes \subseteq { i \in DOMAIN n.view : n.view[i].description = "" }
  BY DEF ChangesWhatIsAsked
<1>4. QED
  BY <1>2, <1>3 DEF ChangesWhatIsAsked

LEMMA OpStep ==
  ASSUME IInv, NEW o \in Ops, NEW n \in Sessions, op' = [op EXCEPT ![o] = n],
         UNCHANGED <<db, referenced, asked>>,
         lastId' \in lastId..MaxId,
         DOMAIN n.view \cup DOMAIN n.new \subseteq 1..lastId',
         WritesWhatIsAsked(n, o), Fits(n),
         \A p \in Ops \ {o} : Apart(n, op[p])
  PROVE  IInv'
<1>1. /\ op \in [Ops -> Sessions] /\ op'[o] = n
      /\ \A p \in Ops \ {o} : op'[p] = op[p]
  BY DEF IInv, StateType
<1>2. StateType'
  <2>1. op' \in [Ops -> Sessions]
    BY <1>1
  <2>2. lastId \in Nat /\ lastId' \in Nat /\ lastId <= lastId' /\ lastId' <= MaxId
    BY MetadataAssumption DEF IInv, StateType
  <2>3. 1..lastId \subseteq 1..lastId'
    BY <2>2
  <2>4. \A p \in Ops : DOMAIN op'[p].view \cup DOMAIN op'[p].new \subseteq 1..lastId'
    BY <1>1, <2>3 DEF IInv, StateType
  <2>5. DOMAIN tables' \subseteq 1..lastId'
    BY <2>3 DEF IInv, StateType, db
  <2>6. QED
    BY <2>1, <2>2, <2>4, <2>5 DEF IInv, StateType, db
<1>3. ForeignKeysOnce'
  BY DEF IInv, ForeignKeysOnce, TypeOK, db
<1>4. AllowedIsAsked'
  BY DEF IInv, AllowedIsAsked, db
<1>5. ASSUME NEW p \in Ops
      PROVE  (WritesWhatIsAsked(op[p], p) /\ Fits(op[p]))'
  <2>1. PICK m \in Sessions : m = op'[p]
    BY <1>1
  <2>2. WritesWhatIsAsked(m, p) /\ Fits(m)
    BY <1>1, <2>1 DEF IInv
  <2>3. WritesWhatIsAsked(m, p) /\ Fits(m)'
    BY <2>2 DEF Fits, db
  <2>4. WritesWhatIsAsked(op[p], p)'
    BY <2>1, <2>2
  <2>5. Fits(op[p])'
    BY <2>1, <2>3
  <2>6. QED
    BY <2>4, <2>5
<1>6. ASSUME NEW p \in Ops, NEW q \in Ops, p # q
      PROVE  Apart(op[p], op[q])'
  <2>1. CASE p = o
    BY <1>1, <1>6, <2>1
  <2>2. CASE q = o
    BY <1>1, <1>6, <2>2 DEF Apart
  <2>3. CASE p # o /\ q # o
    BY <1>1, <1>6, <2>3 DEF IInv
  <2>4. QED
    BY <2>1, <2>2, <2>3
<1>7. QED
  BY <1>2, <1>3, <1>4, <1>5, <1>6 DEF IInv

\* What a step may use of the session that takes it.
LEMMA OpIs ==
  ASSUME IInv, NEW o \in Ops
  PROVE  /\ op \in [Ops -> Sessions] /\ op[o] \in Sessions
         /\ WritesWhatIsAsked(op[o], o) /\ Fits(op[o])
         /\ DOMAIN op[o].view \cup DOMAIN op[o].new \subseteq 1..lastId
         /\ \A p \in Ops \ {o} : /\ op[p] \in Sessions
                                /\ Apart(op[o], op[p]) /\ Apart(op[p], op[o])
         /\ tables \in Maps(Rows)
         /\ lastId \in Nat /\ lastId \in 0..MaxId /\ lastId \in lastId..MaxId
         /\ DOMAIN tables \subseteq 1..lastId
<1>1. lastId \in 0..MaxId
  BY DEF IInv, StateType
<1>2. lastId \in Nat /\ lastId \in lastId..MaxId
  BY <1>1, MetadataAssumption
<1>3. QED
  BY <1>1, <1>2 DEF IInv, StateType

LEMMA NoneWithoutDs ==
  ASSUME IInv, ~ds
  PROVE  DOMAIN tables = {}
BY NoTablesIsMap DEF IInv, ForeignKeysOnce, TypeOK

LEMMA QuietStep ==
  ASSUME IInv, NEW o \in Ops, NEW n \in Sessions, op' = [op EXCEPT ![o] = n],
         UNCHANGED <<db, referenced, asked, lastId>>,
         DOMAIN n.view \subseteq 1..lastId,
         WritesWhatIsAsked(n, o), WritesNothing(n)
  PROVE  IInv'
<1>1. Fits(n) /\ \A p \in Ops \ {o} : Apart(n, op[p])
  BY QuietFits, OpIs
<1>2. DOMAIN n.view \cup DOMAIN n.new \subseteq 1..lastId'
  BY DEF WritesNothing
<1>3. lastId' \in lastId..MaxId
  BY OpIs
<1>4. QED
  BY <1>1, <1>2, <1>3, OpStep

LEMMA FailedKeeps ==
  ASSUME IInv, NEW o \in Ops, Failed(o),
         UNCHANGED <<db, referenced, asked, lastId>>
  PROVE  IInv'
<1>1. PICK n : n = [Idle EXCEPT !.pc = "over"]
  OBVIOUS
<1>2. n \in Sessions
  BY <1>1, IdleIsSession DEF Sessions
<1>3. n.view = Idle.view /\ n.ids = Idle.ids /\ n.new = Idle.new /\ WritesNothing(n)
  BY <1>1, IdleIsSession DEF Idle, WritesNothing
<1>4. WritesWhatIsAsked(n, o)
  BY <1>3, IdleIsSession, QuietWrites
<1>5. op' = [op EXCEPT ![o] = n]
  BY <1>1 DEF Failed, Ends
<1>6. DOMAIN n.view \subseteq 1..lastId
  BY <1>3, IdleIsSession
<1>7. QED
  BY <1>2, <1>3, <1>4, <1>5, <1>6, QuietStep

-----------------------------------------------------------------------------
(* Synchronisation. *)

LEMMA BeginSyncKeeps ==
  ASSUME IInv, NEW o \in Ops, BeginSync(o), UNCHANGED lastId
  PROVE  IInv'
<1>1. PICK n : n = [op[o] EXCEPT !.pc = "introspect", !.view = tables, !.seen = columns]
  OBVIOUS
<1>2. op' = [op EXCEPT ![o] = n]
  BY <1>1, OpIs DEF BeginSync
<1>3. tables \in Maps(Rows) /\ columns \subseteq Ids
  BY OpIs, MapsAre DEF IInv, ForeignKeysOnce, TypeOK
<1>4. PICK s \in Sessions : s = op[o]
  BY OpIs
<1>5. n \in Sessions
  BY <1>1, <1>3, <1>4 DEF Sessions
<1>6. /\ WritesNothing(op[o]) /\ DOMAIN op[o].ids = {} /\ op[o].pc = "idle"
  BY OpIs DEF WritesWhatIsAsked, BeginSync
<1>7. /\ WritesNothing(n) /\ DOMAIN n.ids = {} /\ n.pc = "introspect"
      /\ n.view = tables
  BY <1>1, <1>6, OpIs DEF WritesNothing, Sessions
<1>8. WritesWhatIsAsked(n, o)
  BY <1>7, QuietWrites
<1>9. QED
  BY <1>2, <1>5, <1>6, <1>7, <1>8, OpIs, QuietStep DEF BeginSync

LEMMA IntrospectKeeps ==
  ASSUME IInv, NEW o \in Ops, Introspect(o), UNCHANGED lastId
  PROVE  IInv'
<1>1. PICK found \in SUBSET Names, allow \in SUBSET Names,
           f \in SUBSET (Names \X Names) :
        op' = [op EXCEPT ![o].pc = "merge", ![o].todo = found, ![o].fks = f,
                         ![o].allow = allow]
  BY MetadataAssumption DEF Introspect
<1>2. PICK n : n = [op[o] EXCEPT !.pc = "merge", !.todo = found, !.fks = f,
                                !.allow = allow]
  OBVIOUS
<1>3. op' = [op EXCEPT ![o] = n]
  BY <1>1, <1>2, OpIs
<1>4. PICK s \in Sessions : s = op[o]
  BY OpIs
<1>5. n \in Sessions
  BY <1>2, <1>4 DEF Sessions
<1>6. WritesNothing(op[o]) /\ DOMAIN op[o].ids = {} /\ op[o].pc = "introspect"
  BY OpIs DEF WritesWhatIsAsked, Introspect
<1>7. /\ WritesNothing(n) /\ DOMAIN n.ids = {} /\ n.pc = "merge"
      /\ n.view = op[o].view
  BY <1>2, <1>6, OpIs DEF WritesNothing, Sessions
<1>8. WritesWhatIsAsked(n, o)
  BY <1>7, QuietWrites
<1>9. QED
  BY <1>3, <1>5, <1>6, <1>7, <1>8, OpIs, QuietStep DEF Introspect

\* A table that is updated has its row, and its new value.
LEMMA MergeTableKeeps ==
  ASSUME IInv, NEW o \in Ops, NEW i \in DOMAIN op[o].view, MergeTable(o, i),
         UNCHANGED lastId
  PROVE  IInv'
<1>1. PICK s \in Sessions : s = op[o]
  BY OpIs
<1>2. i \in Ids /\ s.view[i] \in Rows /\ s.ids \in Maps(Names) /\ i \in DOMAIN s.view
  BY <1>1, MapsAre DEF Sessions
<1>3. PICK name \in Names : name = s.view[i].name
  BY <1>2 DEF Rows
<1>4. PICK al \in SUBSET {i} : al = IF s.view[i].allowed # (name \in s.allow) THEN {i} ELSE {}
  OBVIOUS
<1>5. PICK de \in SUBSET {i} : de = IF Describes(o, i) THEN {i} ELSE {}
  OBVIOUS
<1>6. PICK n : n = [s EXCEPT !.todo = @ \ {name}, !.ids = With(@, i, name),
                            !.allows = @ \cup al, !.describes = @ \cup de,
                            !.newcols = @ \cup ({i} \ s.seen)]
  OBVIOUS
<1>7. Merges(o, i) = [op EXCEPT ![o] = n]
  BY <1>1, <1>3, <1>4, <1>5, <1>6, OpIs DEF Merges
<1>8. PICK ids \in Maps(Names) :
        ids = With(s.ids, i, name) /\ ids \in [DOMAIN s.ids \cup {i} -> Names]
  BY <1>2, WithIs
<1>9. ids[i] = name /\ \A j \in DOMAIN s.ids \ {i} : ids[j] = s.ids[j]
  BY <1>8 DEF With
<1>10. n \in Sessions
  BY <1>2, <1>6, <1>8 DEF Sessions
<1>11. /\ n.pc = s.pc /\ n.todo = s.todo \ {name} /\ n.ids = ids
       /\ n.allows = s.allows \cup al /\ n.describes = s.describes \cup de
       /\ n.newcols = s.newcols \cup ({i} \ s.seen)
  BY <1>6, <1>8 DEF Sessions
<1>12. /\ n.view = s.view /\ n.allow = s.allow /\ n.new = s.new /\ n.held = s.held
       /\ n.gone = s.gone /\ n.newfks = s.newfks
  BY <1>6 DEF Sessions
<1>13. s.pc = "merge"
  BY <1>1 DEF MergeTable
<1>14. CASE op' = Merges(o, i) /\ (al \cup de \cup ({i} \ s.seen)) \subseteq DOMAIN tables
  <2>1. WritesWhatIsAsked(s, o) /\ Fits(s)
    BY <1>1, OpIs
  <2>2. AddsWhatIsAsked(s) /\ ChangesWhatIsAsked(s) /\ ReplacesFks(s, o)
    BY <2>1 DEF WritesWhatIsAsked
  <2>3. /\ DOMAIN n.ids = DOMAIN s.ids \cup {i} /\ i \notin DOMAIN s.new
        /\ \A j \in DOMAIN s.new : n.ids[j] = s.ids[j]
    BY <1>2, <1>8, <1>9, <1>11, <2>2 DEF AddsWhatIsAsked
  <2>4. AddsWhatIsAsked(n)
    BY <1>11, <1>12, <2>2, <2>3 DEF AddsWhatIsAsked
  <2>5. \A j \in DOMAIN s.ids \ DOMAIN s.new :
          /\ j \in DOMAIN s.view /\ s.ids[j] = s.view[j].name
          /\ j \in s.allows <=> s.view[j].allowed # (s.ids[j] \in s.allow)
    BY <1>13, <2>2 DEF ChangesWhatIsAsked
  <2>6. /\ s.allows \subseteq DOMAIN s.ids \cap DOMAIN s.view
         /\ s.describes \subseteq { j \in DOMAIN s.view : s.view[j].description = "" }
    BY <2>2 DEF ChangesWhatIsAsked
  <2>7. ChangesWhatIsAsked(n)
    <3>1. ASSUME NEW j \in DOMAIN s.ids \ DOMAIN s.new, j # i
          PROVE  /\ j \in DOMAIN s.view /\ ids[j] = s.view[j].name
                 /\ j \in n.allows <=> s.view[j].allowed # (ids[j] \in s.allow)
      <4>1. ids[j] = s.ids[j]
        BY <1>9, <3>1
      <4>2. j \in n.allows <=> j \in s.allows
        BY <1>4, <1>11, <3>1
      <4>3. QED
        BY <2>5, <4>1, <4>2
    <3>2. i \in n.allows <=> s.view[i].allowed # (ids[i] \in s.allow)
      <4>1. CASE i \in DOMAIN s.ids
        <5>1. s.ids[i] = name
          BY <1>3, <2>3, <2>5, <4>1
        <5>2. i \in s.allows <=> s.view[i].allowed # (name \in s.allow)
          BY <2>3, <2>5, <4>1, <5>1
        <5>3. QED
          BY <1>4, <1>9, <1>11, <5>2
      <4>2. CASE i \notin DOMAIN s.ids
        BY <1>4, <1>9, <1>11, <2>6, <4>2
      <4>3. QED
        BY <4>1, <4>2
    <3>3. n.describes \subseteq { j \in DOMAIN n.view : n.view[j].description = "" }
      <4>1. de # {} => s.view[i].description = ""
        BY <1>1, <1>5 DEF Describes
      <4>2. \A j \in n.describes : j \in DOMAIN s.view /\ s.view[j].description = ""
        BY <1>2, <1>11, <2>6, <4>1
      <4>3. QED
        BY <1>12, <4>2
    <3>4. n.allows \subseteq DOMAIN n.ids \cap DOMAIN n.view
      BY <1>2, <1>11, <1>12, <2>3, <2>6
    <3>5. \A j \in DOMAIN n.ids \ DOMAIN n.new :
            /\ j \in DOMAIN n.view /\ n.ids[j] = n.view[j].name
            /\ j \in n.allows <=> n.view[j].allowed # (n.ids[j] \in n.allow)
      BY <1>2, <1>3, <1>9, <1>11, <1>12, <2>3, <3>1, <3>2
    <3>6. QED
      BY <1>11, <1>13, <3>3, <3>4, <3>5 DEF ChangesWhatIsAsked
  <2>8. ReplacesFks(n, o)
    BY <1>11, <1>12, <1>13, <2>2 DEF ReplacesFks
  <2>9. WritesWhatIsAsked(n, o)
    BY <1>11, <1>13, <2>4, <2>7, <2>8 DEF WritesWhatIsAsked
  <2>10. Fits(n)
    <3>1. ~ds => DOMAIN tables = {}
      BY NoneWithoutDs
    <3>2. QED
      BY <1>11, <1>12, <1>13, <1>14, <2>1, <3>1 DEF Fits
  <2>11. \A p \in Ops \ {o} : Apart(n, op[p])
    BY <1>1, <1>12, OpIs DEF Apart
  <2>12. QED
    BY <1>1, <1>7, <1>10, <1>11, <1>12, <1>13, <1>14, <2>9, <2>10, <2>11, OpIs, OpStep
       DEF MergeTable
<1>15. CASE Failed(o)
  BY <1>1, <1>13, <1>15, FailedKeeps DEF MergeTable
<1>16. Merges(o, i)[o] = n
  BY <1>7, OpIs
<1>17. QED
  BY <1>1, <1>3, <1>11, <1>14, <1>15, <1>16 DEF MergeTable

\* A table that is added has a new id, and a name that nobody else adds.
LEMMA AddTableKeeps ==
  ASSUME IInv, NEW o \in Ops, NEW name \in Names, AddTable(o, name)
  PROVE  IInv'
<1>1. PICK s \in Sessions : s = op[o]
  BY OpIs
<1>2. PICK id : id = FreshId
  OBVIOUS
<1>3. CASE ~ds \/ \E i \in DOMAIN tables : tables[i].name = name
  BY <1>3, FailedKeeps DEF AddTable
<1>4. CASE ~(~ds \/ \E i \in DOMAIN tables : tables[i].name = name)
  <2>1. /\ lastId < MaxId /\ lastId' = id
        /\ op' = [op EXCEPT
             ![o].todo = @ \ {name}, ![o].ids = With(@, id, name),
             ![o].new = With(@, id, [name |-> name, allowed |-> name \in op[o].allow,
                                     description |-> "sync"]),
             ![o].newcols = @ \cup {id}]
    BY <1>2, <1>4 DEF AddTable
  <2>2. PICK row \in Rows : row = [name |-> name, allowed |-> name \in s.allow,
                                   description |-> "sync"]
    <3>1. [name |-> name, allowed |-> name \in s.allow, description |-> "sync"] \in Rows
      BY DEF Rows
    <3>2. QED
      BY <3>1, Zenon
  <2>3. /\ id \in Ids /\ id \notin 1..lastId /\ id \in lastId..MaxId
        /\ 1..lastId \subseteq 1..id /\ id \in 1..id
    BY <1>2, <2>1, OpIs, MetadataAssumption DEF FreshId, Ids
  <2>4. s.ids \in Maps(Names) /\ s.new \in Maps(Rows)
    BY DEF Sessions
  <2>5. PICK ids \in Maps(Names) :
          ids = With(s.ids, id, name) /\ ids \in [DOMAIN s.ids \cup {id} -> Names]
    BY <2>3, <2>4, WithIs
  <2>6. PICK new \in Maps(Rows) :
          new = With(s.new, id, row) /\ new \in [DOMAIN s.new \cup {id} -> Rows]
    BY <2>2, <2>3, <2>4, WithIs
  <2>7. /\ ids[id] = name /\ \A i \in DOMAIN s.ids \ {id} : ids[i] = s.ids[i]
        /\ new[id] = row /\ \A i \in DOMAIN s.new \ {id} : new[i] = s.new[i]
    BY <2>5, <2>6 DEF With
  <2>8. PICK n : n = [s EXCEPT !.todo = @ \ {name}, !.ids = ids, !.new = new,
                              !.newcols = @ \cup {id}]
    OBVIOUS
  <2>9. op' = [op EXCEPT ![o] = n]
    BY <1>1, <2>1, <2>2, <2>5, <2>6, <2>8, OpIs
  <2>10. n \in Sessions
    BY <2>3, <2>8 DEF Sessions
  <2>11. /\ n.todo = s.todo \ {name} /\ n.ids = ids /\ n.new = new
         /\ n.newcols = s.newcols \cup {id}
    BY <2>8 DEF Sessions
  <2>12. /\ n.pc = s.pc /\ n.view = s.view /\ n.allow = s.allow
         /\ n.allows = s.allows /\ n.describes = s.describes
    BY <2>8 DEF Sessions
  <2>13. n.held = s.held /\ n.gone = s.gone /\ n.newfks = s.newfks
    BY <2>8 DEF Sessions
  <2>14. s.pc = "merge" /\ name \in s.todo
    BY <1>1 DEF AddTable
  <2>15. /\ AddsWhatIsAsked(s) /\ ChangesWhatIsAsked(s) /\ ReplacesFks(s, o)
         /\ Fits(s)
    BY <1>1, OpIs DEF WritesWhatIsAsked
  <2>16. DOMAIN s.view \cup DOMAIN s.new \subseteq 1..lastId
    BY <1>1, OpIs
  <2>17. DOMAIN s.ids \subseteq 1..lastId
    BY <2>15, <2>16 DEF ChangesWhatIsAsked
  <2>18. DOMAIN ids = DOMAIN s.ids \cup {id} /\ DOMAIN new = DOMAIN s.new \cup {id}
    BY <2>5, <2>6
  <2>19. AddsWhatIsAsked(n)
    <3>1. DOMAIN n.new \cap DOMAIN n.view = {} /\ DOMAIN n.new \subseteq DOMAIN n.ids
      BY <2>3, <2>11, <2>12, <2>15, <2>16, <2>18 DEF AddsWhatIsAsked
    <3>2. ASSUME NEW i \in DOMAIN s.new
          PROVE  /\ i # id /\ new[i] = s.new[i] /\ ids[i] = s.ids[i]
                 /\ s.new[i].name = s.ids[i] /\ s.new[i].name \notin s.todo
                 /\ s.new[i].allowed = (s.ids[i] \in s.allow)
      BY <2>3, <2>7, <2>15, <2>16 DEF AddsWhatIsAsked
    <3>3. row.name = name /\ row.allowed = (name \in s.allow)
      BY <2>2
    <3>4. ASSUME NEW i \in DOMAIN new
          PROVE  /\ new[i].name = ids[i] /\ new[i].name \notin s.todo \ {name}
                 /\ new[i].allowed = (ids[i] \in s.allow)
      <4>1. CASE i = id
        BY <2>7, <3>3, <4>1
      <4>2. CASE i \in DOMAIN s.new
        BY <3>2, <4>2
      <4>3. QED
        BY <2>18, <4>1, <4>2
    <3>5. ASSUME NEW i \in DOMAIN new, NEW j \in DOMAIN new, new[i].name = new[j].name
          PROVE  i = j
      <4>1. CASE i = id \/ j = id
        BY <2>7, <2>14, <2>18, <3>2, <3>3, <3>5, <4>1
      <4>2. CASE i # id /\ j # id
        BY <2>15, <2>18, <3>2, <3>5, <4>2 DEF AddsWhatIsAsked
      <4>3. QED
        BY <4>1, <4>2
    <3>6. QED
      BY <2>11, <2>12, <3>1, <3>4, <3>5 DEF AddsWhatIsAsked
  <2>20. ChangesWhatIsAsked(n)
    <3>1. \A i \in DOMAIN s.ids \ DOMAIN s.new :
            /\ i \in DOMAIN s.view /\ s.ids[i] = s.view[i].name
            /\ i \in s.allows <=> s.view[i].allowed # (s.ids[i] \in s.allow)
      BY <2>14, <2>15 DEF ChangesWhatIsAsked
    <3>2. /\ s.allows \subseteq DOMAIN s.ids \cap DOMAIN s.view
          /\ s.describes \subseteq { i \in DOMAIN s.view : s.view[i].description = "" }
      BY <2>15 DEF ChangesWhatIsAsked
    <3>3. \A i \in DOMAIN ids \ DOMAIN new : i \in DOMAIN s.ids \ DOMAIN s.new /\ ids[i] = s.ids[i]
      BY <2>7, <2>18
    <3>4. \A i \in DOMAIN n.ids \ DOMAIN n.new :
            /\ i \in DOMAIN n.view /\ n.ids[i] = n.view[i].name
            /\ i \in n.allows <=> n.view[i].allowed # (n.ids[i] \in n.allow)
      BY <2>11, <2>12, <3>1, <3>3
    <3>5. n.allows \subseteq DOMAIN n.ids \cap DOMAIN n.view
      BY <2>11, <2>12, <2>18, <3>2
    <3>6. QED
      BY <2>12, <2>14, <3>2, <3>4, <3>5 DEF ChangesWhatIsAsked
  <2>21. ReplacesFks(n, o)
    BY <2>11, <2>12, <2>13, <2>14, <2>15 DEF ReplacesFks
  <2>22. WritesWhatIsAsked(n, o)
    BY <2>12, <2>14, <2>19, <2>20, <2>21 DEF WritesWhatIsAsked
  <2>23. Fits(n)
    <3>1. DOMAIN tables \subseteq 1..lastId
      BY OpIs
    <3>2. row.name = name
      BY <2>2
    <3>3. \A i \in DOMAIN new, j \in DOMAIN tables : new[i].name # tables[j].name
      BY <1>4, <2>7, <2>15, <2>18, <3>2 DEF Fits
    <3>4. DOMAIN new \cap DOMAIN tables = {}
      BY <2>3, <2>15, <2>18, <3>1 DEF Fits
    <3>5. QED
      BY <1>4, <2>11, <2>12, <2>13, <2>15, <2>18, <3>3, <3>4 DEF Fits
  <2>24. ASSUME NEW p \in Ops \ {o}
         PROVE  Apart(n, op[p])
    <3>1. DOMAIN op[p].new \subseteq 1..lastId /\ Apart(s, op[p])
      BY <1>1, OpIs DEF IInv, StateType
    <3>2. \A i \in DOMAIN op[p].new : op[p].new[i].name # name
      BY DEF AddTable, NameFree
    <3>3. row.name = name
      BY <2>2
    <3>4. QED
      BY <2>3, <2>7, <2>11, <2>13, <2>18, <3>1, <3>2, <3>3 DEF Apart
  <2>25. DOMAIN n.view \cup DOMAIN n.new \subseteq 1..id
    BY <2>3, <2>11, <2>12, <2>16, <2>18
  <2>26. op[o].pc = "merge"
    BY <1>1, <2>14
  <2>27. QED
    BY <2>1, <2>3, <2>9, <2>10, <2>22, <2>23, <2>24, <2>25, <2>26, OpStep DEF AddTable
<1>5. QED
  BY <1>3, <1>4

LEMMA DeleteFksKeeps ==
  ASSUME IInv, NEW o \in Ops, DeleteFks(o), UNCHANGED lastId
  PROVE  IInv'
<1>1. PICK s \in Sessions : s = op[o]
  BY OpIs
<1>2. PICK gone \in SUBSET Fks : gone = { f \in fks : f.from \in DOMAIN s.ids }
  BY DEF IInv, ForeignKeysOnce, TypeOK
<1>3. PICK n : n = [s EXCEPT !.pc = "fks", !.held = DOMAIN s.ids, !.gone = gone]
  OBVIOUS
<1>4. op' = [op EXCEPT ![o] = n]
  BY <1>1, <1>2, <1>3, OpIs DEF DeleteFks, Synced
<1>5. DOMAIN s.ids \subseteq Ids
  BY MapsAre DEF Sessions
<1>6. n \in Sessions
  BY <1>3, <1>5 DEF Sessions
<1>7. /\ n.pc = "fks" /\ n.held = DOMAIN s.ids /\ n.gone = gone
      /\ n.todo = s.todo /\ n.ids = s.ids /\ n.new = s.new /\ n.view = s.view
  BY <1>3 DEF Sessions
<1>8. /\ n.allow = s.allow /\ n.allows = s.allows /\ n.describes = s.describes
      /\ n.newcols = s.newcols /\ n.newfks = s.newfks
  BY <1>3 DEF Sessions
<1>9. /\ s.pc = "merge"
      /\ AddsWhatIsAsked(s) /\ ChangesWhatIsAsked(s) /\ ReplacesFks(s, o) /\ Fits(s)
  BY <1>1, OpIs DEF WritesWhatIsAsked, DeleteFks
<1>10. AddsWhatIsAsked(n)
  BY <1>7, <1>8, <1>9 DEF AddsWhatIsAsked
<1>11. ChangesWhatIsAsked(n)
  BY <1>6, <1>7, <1>8, <1>9, ChangesStay
<1>12. n.newfks = {} /\ ReplacesFks(n, o)
  BY <1>7, <1>8, <1>9 DEF ReplacesFks
<1>13. WritesWhatIsAsked(n, o)
  BY <1>7, <1>10, <1>11, <1>12 DEF WritesWhatIsAsked
<1>14. Fits(n)
  BY <1>2, <1>7, <1>8, <1>9 DEF Fits
<1>15. ASSUME NEW p \in Ops \ {o}
       PROVE  Apart(n, op[p])
  <2>1. Apart(s, op[p]) /\ \A f \in op[p].newfks : f.from \notin DOMAIN s.ids
    BY <1>1, OpIs DEF DeleteFks, Synced
  <2>2. QED
    BY <1>7, <1>12, <2>1 DEF Apart
<1>16. DOMAIN n.view \cup DOMAIN n.new \subseteq 1..lastId
  BY <1>1, <1>7, OpIs
<1>17. QED
  BY <1>1, <1>4, <1>6, <1>9, <1>13, <1>14, <1>15, <1>16, OpIs, OpStep DEF DeleteFks

LEMMA SkipFksKeeps ==
  ASSUME IInv, NEW o \in Ops, SkipFks(o), UNCHANGED lastId
  PROVE  IInv'
<1>1. PICK s \in Sessions : s = op[o]
  BY OpIs
<1>2. PICK n : n = [s EXCEPT !.pc = "commit"]
  OBVIOUS
<1>3. op' = [op EXCEPT ![o] = n]
  BY <1>1, <1>2, OpIs DEF SkipFks
<1>4. n \in Sessions
  BY <1>2 DEF Sessions
<1>5. /\ n.pc = "commit" /\ n.held = s.held /\ n.gone = s.gone /\ n.newfks = s.newfks
      /\ n.todo = s.todo /\ n.ids = s.ids /\ n.new = s.new /\ n.view = s.view
  BY <1>2 DEF Sessions
<1>6. /\ n.allow = s.allow /\ n.allows = s.allows /\ n.describes = s.describes
      /\ n.newcols = s.newcols
  BY <1>2 DEF Sessions
<1>7. /\ s.pc = "merge"
      /\ AddsWhatIsAsked(s) /\ ChangesWhatIsAsked(s) /\ ReplacesFks(s, o) /\ Fits(s)
  BY <1>1, OpIs DEF WritesWhatIsAsked, SkipFks
<1>8. AddsWhatIsAsked(n) /\ ReplacesFks(n, o)
  BY <1>5, <1>6, <1>7 DEF AddsWhatIsAsked, ReplacesFks
<1>9. ChangesWhatIsAsked(n)
  BY <1>4, <1>5, <1>6, <1>7, ChangesStay
<1>10. WritesWhatIsAsked(n, o)
  BY <1>5, <1>8, <1>9 DEF WritesWhatIsAsked
<1>11. Fits(n) /\ \A p \in Ops \ {o} : Apart(n, op[p])
  <2>1. Fits(n)
    BY <1>5, <1>6, <1>7 DEF Fits
  <2>2. \A p \in Ops \ {o} : Apart(n, op[p])
    BY <1>1, <1>5, OpIs DEF Apart
  <2>3. QED
    BY <2>1, <2>2
<1>12. DOMAIN n.view \cup DOMAIN n.new \subseteq 1..lastId
  BY <1>1, <1>5, OpIs
<1>13. QED
  BY <1>1, <1>3, <1>4, <1>7, <1>10, <1>11, <1>12, OpIs, OpStep DEF SkipFks

\* The foreign keys that are inserted are of tables whose foreign keys nobody
\* else replaces, between tables that exist.
LEMMA InsertFksKeeps ==
  ASSUME IInv, NEW o \in Ops, InsertFks(o), UNCHANGED lastId
  PROVE  IInv'
<1>1. PICK s \in Sessions : s = op[o]
  BY OpIs
<1>2. PICK wanted : wanted = RemoteRows(o)
  OBVIOUS
<1>3. s.pc = "fks"
  BY <1>1 DEF InsertFks
<1>4. /\ \A p \in Ops \ {o} : \A f \in wanted : f.from \notin op[p].held
      /\ \/ /\ { f.from : f \in wanted } \cup { f.to : f \in wanted }
                 \subseteq DOMAIN tables \cup DOMAIN s.new
            /\ op' = [op EXCEPT ![o].pc = "commit", ![o].newfks = wanted]
         \/ Failed(o)
  BY <1>1, <1>2 DEF InsertFks
<1>5. CASE Failed(o)
  BY <1>1, <1>3, <1>5, FailedKeeps DEF InsertFks
<1>6. CASE /\ { f.from : f \in wanted } \cup { f.to : f \in wanted }
                \subseteq DOMAIN tables \cup DOMAIN s.new
           /\ op' = [op EXCEPT ![o].pc = "commit", ![o].newfks = wanted]
  <2>1. DOMAIN s.ids \subseteq Ids
    BY MapsAre DEF Sessions
  <2>2. ASSUME NEW f \in wanted
        PROVE  f \in Fks /\ f.by = o /\ f.from \in DOMAIN s.ids
    <3>1. PICK k \in s.fks : f \in { [from |-> i, to |-> j, by |-> o] :
                                       i \in IdOf(o, k[1]), j \in IdOf(o, k[2]) }
      BY <1>1, <1>2 DEF RemoteRows
    <3>2. PICK i \in DOMAIN s.ids, j \in DOMAIN s.ids : f = [from |-> i, to |-> j, by |-> o]
      BY <1>1, <3>1 DEF IdOf, Synced
    <3>3. QED
      BY <2>1, <3>2 DEF Fks
  <2>3. PICK n : n = [s EXCEPT !.pc = "commit", !.newfks = wanted]
    OBVIOUS
  <2>4. op' = [op EXCEPT ![o] = n]
    BY <1>1, <1>6, <2>3, OpIs
  <2>5. n \in Sessions
    BY <2>2, <2>3 DEF Sessions
  <2>6. /\ n.pc = "commit" /\ n.held = s.held /\ n.gone = s.gone /\ n.newfks = wanted
        /\ n.todo = s.todo /\ n.ids = s.ids /\ n.new = s.new /\ n.view = s.view
    BY <2>3 DEF Sessions
  <2>7. /\ n.allow = s.allow /\ n.allows = s.allows /\ n.describes = s.describes
        /\ n.newcols = s.newcols
    BY <2>3 DEF Sessions
  <2>8. AddsWhatIsAsked(s) /\ ChangesWhatIsAsked(s) /\ ReplacesFks(s, o) /\ Fits(s)
    BY <1>1, OpIs DEF WritesWhatIsAsked
  <2>9. AddsWhatIsAsked(n)
    BY <2>6, <2>7, <2>8 DEF AddsWhatIsAsked
  <2>10. ChangesWhatIsAsked(n)
    BY <1>3, <2>5, <2>6, <2>7, <2>8, ChangesStay
  <2>11. ReplacesFks(n, o)
    BY <1>3, <2>2, <2>6, <2>8 DEF ReplacesFks
  <2>12. WritesWhatIsAsked(n, o)
    BY <2>6, <2>9, <2>10, <2>11 DEF WritesWhatIsAsked
  <2>13. Fits(n)
    <3>1. \A f \in wanted : {f.from, f.to} \subseteq DOMAIN tables \cup DOMAIN s.new
      BY <1>6
    <3>2. ~ds => wanted = {}
      BY <2>2, <2>8, <3>1, NoneWithoutDs DEF Fits
    <3>3. QED
      BY <2>6, <2>7, <2>8, <3>1, <3>2 DEF Fits
  <2>14. \A p \in Ops \ {o} : Apart(n, op[p])
    BY <1>1, <1>4, <2>6, OpIs DEF Apart
  <2>15. DOMAIN n.view \cup DOMAIN n.new \subseteq 1..lastId
    BY <1>1, <2>6, OpIs
  <2>16. QED
    BY <1>1, <1>3, <2>4, <2>5, <2>12, <2>13, <2>14, <2>15, OpIs, OpStep DEF InsertFks
<1>7. QED
  BY <1>4, <1>5, <1>6

-----------------------------------------------------------------------------
(* Editing. *)

LEMMA BeginUpdateKeeps ==
  ASSUME IInv, NEW o \in Ops, BeginUpdate(o), UNCHANGED lastId
  PROVE  IInv'
<1>1. PICK s \in Sessions : s = op[o]
  BY OpIs
<1>2. PICK i \in DOMAIN tables, allow \in BOOLEAN :
        op' = [op EXCEPT ![o].pc = "update",
                         ![o].view = tables, ![o].ids = [j \in {i} |-> tables[i].name],
                         ![o].allow = IF allow THEN {tables[i].name} ELSE {}]
  BY DEF BeginUpdate
<1>3. tables \in Maps(Rows) /\ i \in Ids /\ tables[i].name \in Names
  <2>1. tables \in Maps(Rows)
    BY OpIs
  <2>2. i \in Ids /\ tables[i] \in Rows
    BY <2>1, MapsAre
  <2>3. QED
    BY <2>1, <2>2 DEF Rows
<1>4. PICK ids \in Maps(Names) : ids = [j \in {i} |-> tables[i].name]
  BY <1>3, AreMaps
<1>5. PICK set \in SUBSET Names : set = IF allow THEN {tables[i].name} ELSE {}
  BY <1>3
<1>6. PICK n : n = [s EXCEPT !.pc = "update", !.view = tables, !.ids = ids, !.allow = set]
  OBVIOUS
<1>7. op' = [op EXCEPT ![o] = n]
  BY <1>1, <1>2, <1>4, <1>5, <1>6, OpIs
<1>8. n \in Sessions
  BY <1>3, <1>6 DEF Sessions
<1>9. WritesNothing(s) /\ s.pc = "idle"
  BY <1>1, OpIs DEF WritesWhatIsAsked, BeginUpdate
<1>10. WritesNothing(n) /\ n.pc = "update" /\ n.view = tables /\ n.ids = ids /\ n.allow = set
  BY <1>6, <1>9 DEF WritesNothing, Sessions
<1>11. /\ DOMAIN n.new = {} /\ n.allows = {} /\ n.describes = {} /\ n.held = {}
       /\ n.gone = {} /\ n.newfks = {}
  BY <1>10 DEF WritesNothing
<1>12. DOMAIN ids = {i} /\ ids[i] = tables[i].name
  BY <1>4
<1>13. AddsWhatIsAsked(n) /\ ReplacesFks(n, o)
  BY <1>10, <1>11 DEF AddsWhatIsAsked, ReplacesFks
<1>14. ChangesWhatIsAsked(n)
  <2>1. set # {} <=> ids[i] \in set
    BY <1>5, <1>12
  <2>2. QED
    BY <1>10, <1>11, <1>12, <2>1 DEF ChangesWhatIsAsked
<1>15. WritesWhatIsAsked(n, o)
  BY <1>10, <1>13, <1>14 DEF WritesWhatIsAsked
<1>16. QED
  BY <1>1, <1>7, <1>8, <1>9, <1>10, <1>15, OpIs, QuietStep DEF BeginUpdate

LEMMA UpdateKeeps ==
  ASSUME IInv, NEW o \in Ops, Update(o), UNCHANGED lastId
  PROVE  IInv'
<1>1. PICK s \in Sessions : s = op[o]
  BY OpIs
<1>2. PICK i \in DOMAIN s.ids, touched \in SUBSET Ids :
        /\ touched = IF s.view[i].allowed # (s.allow # {}) THEN {i} ELSE {}
        /\ \/ /\ touched \subseteq DOMAIN tables
              /\ op' = [op EXCEPT ![o].pc = "commit", ![o].allows = touched]
           \/ Failed(o)
  <2>1. DOMAIN s.ids \subseteq Ids
    BY MapsAre DEF Sessions
  <2>2. QED
    BY <1>1, <2>1 DEF Update, Synced
<1>3. s.pc = "update"
  BY <1>1 DEF Update
<1>4. CASE Failed(o)
  BY <1>1, <1>3, <1>4, FailedKeeps DEF Update
<1>5. CASE /\ touched \subseteq DOMAIN tables
           /\ op' = [op EXCEPT ![o].pc = "commit", ![o].allows = touched]
  <2>1. DOMAIN s.ids \subseteq Ids
    BY MapsAre DEF Sessions
  <2>2. PICK n : n = [s EXCEPT !.pc = "commit", !.allows = touched]
    OBVIOUS
  <2>3. op' = [op EXCEPT ![o] = n]
    BY <1>1, <1>5, <2>2, OpIs
  <2>4. n \in Sessions
    BY <2>1, <2>2 DEF Sessions
  <2>5. /\ n.pc = "commit" /\ n.held = s.held /\ n.gone = s.gone /\ n.newfks = s.newfks
        /\ n.todo = s.todo /\ n.ids = s.ids /\ n.new = s.new /\ n.view = s.view
    BY <2>2 DEF Sessions
  <2>6. /\ n.allow = s.allow /\ n.allows = touched /\ n.describes = s.describes
        /\ n.newcols = s.newcols
    BY <2>2 DEF Sessions
  <2>7. /\ AddsWhatIsAsked(s) /\ ChangesWhatIsAsked(s) /\ ReplacesFks(s, o) /\ Fits(s)
        /\ WritesNothing(s)
    BY <1>1, <1>3, OpIs DEF WritesWhatIsAsked
  <2>8. DOMAIN s.new = {} /\ s.describes = {} /\ s.newfks = {}
    BY <2>7 DEF WritesNothing
  <2>9. AddsWhatIsAsked(n) /\ ReplacesFks(n, o)
    BY <2>5, <2>7, <2>8 DEF AddsWhatIsAsked, ReplacesFks
  <2>10. ChangesWhatIsAsked(n)
    <3>1. \A j \in DOMAIN s.ids : /\ j = i /\ (s.allow # {} <=> s.ids[j] \in s.allow)
                                  /\ j \in DOMAIN s.view /\ s.ids[j] = s.view[j].name
      BY <1>3, <2>7, <2>8 DEF ChangesWhatIsAsked
    <3>2. (s.allow # {}) = (s.ids[i] \in s.allow)
      BY <3>1
    <3>3. i \in touched <=> s.view[i].allowed # (s.ids[i] \in s.allow)
      BY <1>2, <3>2
    <3>4. \A j \in DOMAIN n.ids \ DOMAIN n.new :
            /\ j \in DOMAIN n.view /\ n.ids[j] = n.view[j].name
            /\ j \in n.allows <=> n.view[j].allowed # (n.ids[j] \in n.allow)
      BY <2>5, <2>6, <3>1, <3>3
    <3>5. n.allows \subseteq DOMAIN n.ids \cap DOMAIN n.view /\ n.describes = {}
      BY <1>2, <2>5, <2>6, <2>8, <3>1
    <3>6. QED
      BY <2>5, <3>4, <3>5 DEF ChangesWhatIsAsked
  <2>11. WritesWhatIsAsked(n, o)
    BY <2>5, <2>9, <2>10 DEF WritesWhatIsAsked
  <2>12. Fits(n)
    BY <1>5, <2>5, <2>6, <2>7, <2>8 DEF Fits
  <2>13. \A p \in Ops \ {o} : Apart(n, op[p])
    BY <1>1, <2>5, OpIs DEF Apart
  <2>14. DOMAIN n.view \cup DOMAIN n.new \subseteq 1..lastId
    BY <1>1, <2>5, OpIs
  <2>15. QED
    BY <1>1, <1>3, <2>3, <2>4, <2>11, <2>12, <2>13, <2>14, OpIs, OpStep DEF Update
<1>6. QED
  BY <1>2, <1>4, <1>5

LEMMA StateIs ==
  ASSUME IInv
  PROVE  /\ StateType /\ TypeOK /\ ForeignKeysOnce /\ AllowedIsAsked
         /\ tables \in Maps(Rows) /\ DOMAIN tables \subseteq Ids
         /\ tables \in [DOMAIN tables -> Rows]
         /\ \A o \in Ops : op[o] \in Sessions /\ Fits(op[o])
<1>1. tables \in Maps(Rows)
  BY DEF IInv, StateType
<1>2. QED
  BY <1>1, MapsAre DEF IInv, StateType, ForeignKeysOnce

LEMMA EditStep ==
  ASSUME IInv, UNCHANGED op,
         StateType', ForeignKeysOnce', AllowedIsAsked',
         \A o \in Ops : Fits(op[o])'
  PROVE  IInv'
<1>1. /\ \A o \in Ops : WritesWhatIsAsked(op[o], o)'
      /\ \A o, p \in Ops : o # p => Apart(op[o], op[p])'
  BY DEF IInv
<1>2. QED
  BY <1>1 DEF IInv

LEMMA DescribeKeeps ==
  ASSUME IInv, NEW i \in Ids, Describe(i), UNCHANGED lastId
  PROVE  IInv'
<1>1. /\ i \in DOMAIN tables
      /\ tables' = [tables EXCEPT ![i] = [tables[i] EXCEPT !.description = "manual"]]
      /\ UNCHANGED <<ds, columns, fks, referenced, op, asked>>
  BY DEF Describe
<1>2. PICK row \in Rows : row = [tables[i] EXCEPT !.description = "manual"]
  <2>1. tables[i] \in Rows
    BY <1>1, StateIs
  <2>2. [tables[i] EXCEPT !.description = "manual"] \in Rows
    BY <2>1 DEF Rows
  <2>3. QED
    BY <2>2, Zenon
<1>3. row.name = tables[i].name /\ row.allowed = tables[i].allowed
  <2>1. tables[i] \in Rows
    BY <1>1, StateIs
  <2>2. QED
    BY <1>2, <2>1 DEF Rows
<1>4. /\ DOMAIN tables' = DOMAIN tables /\ tables' \in [DOMAIN tables -> Rows]
      /\ \A j \in DOMAIN tables : /\ tables'[j].name = tables[j].name
                                  /\ tables'[j].allowed = tables[j].allowed
  BY <1>1, <1>3, <1>2, StateIs
<1>5. StateType'
  BY <1>1, <1>4, StateIs, AreMaps DEF StateType
<1>6. TypeOK'
  BY <1>1, <1>4, StateIs, NoTablesIsMap DEF TypeOK
<1>7. ForeignKeysOnce' /\ AllowedIsAsked'
  BY <1>1, <1>4, <1>6, StateIs DEF ForeignKeysOnce, AllowedIsAsked
<1>8. ASSUME NEW o \in Ops
      PROVE  Fits(op[o])'
  BY <1>1, <1>4, StateIs DEF Fits
<1>9. QED
  BY <1>1, <1>5, <1>7, <1>8, EditStep

\* A table that is created has a new id and a new name.
LEMMA CreateTableKeeps ==
  ASSUME IInv, NEW name \in Names, NEW allow \in BOOLEAN, CreateTable(name, allow)
  PROVE  IInv'
<1>1. PICK id : id = FreshId
  OBVIOUS
<1>2. /\ lastId < MaxId /\ lastId' = id /\ ds
      /\ UNCHANGED <<ds, columns, fks, referenced, op>>
  BY <1>1 DEF CreateTable
<1>3. /\ id \in Ids /\ id \notin 1..lastId /\ id \in 0..MaxId
      /\ 1..lastId \subseteq 1..id /\ id \in 1..id
  BY <1>1, <1>2, MetadataAssumption DEF FreshId, Ids, IInv, StateType
<1>4. PICK row \in Rows : row = [name |-> name, allowed |-> allow, description |-> ""]
  <2>1. [name |-> name, allowed |-> allow, description |-> ""] \in Rows
    BY DEF Rows
  <2>2. QED
    BY <2>1, Zenon
<1>5. row.name = name /\ row.allowed = allow
  BY <1>4
<1>6. tables' = With(tables, id, row)
  BY <1>1, <1>4 DEF CreateTable
<1>7. tables' \in Maps(Rows) /\ tables' \in [DOMAIN tables \cup {id} -> Rows]
  BY <1>3, <1>6, StateIs, WithIs
<1>8. DOMAIN tables \subseteq 1..lastId
  BY StateIs DEF StateType
<1>9. DOMAIN tables' = DOMAIN tables \cup {id}
  BY <1>7
<1>10. id \notin DOMAIN tables
  BY <1>3, <1>8
<1>11. tables'[id] = row /\ \A j \in DOMAIN tables : tables'[j] = tables[j]
  BY <1>6, <1>10 DEF With
<1>12. asked' = [asked EXCEPT ![id] = [value |-> allow, skipped |-> FALSE]]
  BY <1>1 DEF CreateTable
<1>13. StateType'
  <2>1. asked' \in [Ids -> [value : BOOLEAN, skipped : BOOLEAN]]
    BY <1>12, StateIs DEF StateType
  <2>2. DOMAIN tables' \subseteq 1..lastId'
    BY <1>2, <1>3, <1>8, <1>9
  <2>3. \A o \in Ops : DOMAIN op'[o].view \cup DOMAIN op'[o].new \subseteq 1..lastId'
    BY <1>2, <1>3, StateIs DEF StateType
  <2>4. QED
    BY <1>2, <1>3, <1>7, <2>1, <2>2, <2>3, StateIs DEF StateType
<1>14. \A j \in DOMAIN tables : tables[j].name # name
  BY DEF CreateTable
<1>15. TypeOK'
  <2>1. \A j, k \in DOMAIN tables' : tables'[j].name = tables'[k].name => j = k
    <3>1. \A j, k \in DOMAIN tables : tables[j].name = tables[k].name => j = k
      BY StateIs DEF TypeOK
    <3>2. tables'[id].name = name /\ \A j \in DOMAIN tables : tables'[j].name = tables[j].name
      BY <1>5, <1>11
    <3>3. QED
      BY <1>9, <1>14, <3>1, <3>2
  <2>2. DOMAIN tables' \subseteq Ids /\ \A j \in DOMAIN tables' : tables'[j] \in Rows
    BY <1>3, <1>7, <1>9, StateIs
  <2>3. QED
    BY <1>2, <1>9, <2>1, <2>2, StateIs DEF TypeOK
<1>16. AllowedIsAsked'
  <2>1. /\ asked'[id].value = allow
        /\ \A j \in DOMAIN tables : asked'[j] = asked[j]
    BY <1>3, <1>10, <1>12, StateIs DEF StateType
  <2>2. QED
    BY <1>5, <1>9, <1>11, <2>1, StateIs DEF AllowedIsAsked
<1>17. ForeignKeysOnce'
  BY <1>2, <1>15, StateIs DEF ForeignKeysOnce
<1>18. ASSUME NEW o \in Ops
       PROVE  Fits(op[o])'
  <2>1. id \notin DOMAIN op[o].new
    BY <1>3, StateIs DEF StateType
  <2>2. \A j \in DOMAIN op[o].new : op[o].new[j].name # name
    BY DEF CreateTable
  <2>3. Fits(op[o])
    BY StateIs
  <2>4. \A i \in DOMAIN op[o].new, j \in DOMAIN tables' :
          op[o].new[i].name # tables'[j].name
    BY <1>5, <1>9, <1>11, <2>2, <2>3 DEF Fits
  <2>5. DOMAIN op[o].new \cap DOMAIN tables' = {}
    BY <1>9, <2>1, <2>3 DEF Fits
  <2>6. QED
    BY <1>2, <1>9, <2>3, <2>4, <2>5 DEF Fits
<1>19. QED
  BY <1>2, <1>13, <1>16, <1>17, <1>18, EditStep

\* A row of the administrator's excuses its double.
LEMMA CreateFkKeeps ==
  ASSUME IInv, NEW i \in Ids, NEW j \in Ids, CreateFk(i, j), UNCHANGED lastId
  PROVE  IInv'
<1>1. PICK fk \in Fks : fk = [from |-> i, to |-> j, by |-> "manual"]
  <2>1. [from |-> i, to |-> j, by |-> "manual"] \in Fks
    BY DEF Fks
  <2>2. QED
    BY <2>1, Zenon
<1>2. fk.from = i /\ fk.to = j /\ fk.by = "manual"
  BY <1>1
<1>3. /\ fks' = fks \cup {fk} /\ {i, j} \subseteq DOMAIN tables
      /\ UNCHANGED <<ds, tables, columns, referenced, op, asked>>
  BY <1>1 DEF CreateFk
<1>4. StateType'
  BY <1>3, StateIs DEF StateType
<1>5. TypeOK'
  BY <1>2, <1>3, StateIs DEF TypeOK
<1>6. ForeignKeysOnce' /\ AllowedIsAsked'
  <2>1. ForeignKeysOnce'
    BY <1>2, <1>3, <1>5, StateIs DEF ForeignKeysOnce
  <2>2. QED
    BY <1>3, <2>1, StateIs DEF AllowedIsAsked
<1>7. ASSUME NEW o \in Ops
      PROVE  Fits(op[o])'
  <2>1. i \notin op[o].held
    BY DEF CreateFk
  <2>2. QED
    BY <1>2, <1>3, <2>1, StateIs DEF Fits
<1>8. QED
  BY <1>3, <1>4, <1>6, <1>7, EditStep

LEMMA DeleteFkKeeps ==
  ASSUME IInv, NEW f \in fks, DeleteFk(f), UNCHANGED lastId
  PROVE  IInv'
<1>1. /\ fks' = fks \ {f}
      /\ UNCHANGED <<ds, tables, columns, referenced, op, asked>>
  BY DEF DeleteFk
<1>2. StateType' /\ AllowedIsAsked'
  BY <1>1, StateIs DEF StateType, AllowedIsAsked
<1>3. TypeOK'
  BY <1>1, StateIs DEF TypeOK
<1>4. ForeignKeysOnce'
  BY <1>1, <1>3, StateIs DEF ForeignKeysOnce
<1>5. ASSUME NEW o \in Ops
      PROVE  Fits(op[o])'
  BY <1>1, StateIs DEF Fits
<1>6. QED
  BY <1>1, <1>2, <1>4, <1>5, EditStep

LEMMA CreateColumnKeeps ==
  ASSUME IInv, NEW i \in Ids, CreateColumn(i), UNCHANGED lastId
  PROVE  IInv'
<1>1. /\ i \in DOMAIN tables /\ columns' = columns \cup {i}
      /\ UNCHANGED <<ds, tables, fks, referenced, op, asked>>
  BY DEF CreateColumn
<1>2. StateType' /\ AllowedIsAsked'
  BY <1>1, StateIs DEF StateType, AllowedIsAsked
<1>3. TypeOK'
  BY <1>1, StateIs DEF TypeOK
<1>4. ForeignKeysOnce'
  BY <1>1, <1>3, StateIs DEF ForeignKeysOnce
<1>5. ASSUME NEW o \in Ops
      PROVE  Fits(op[o])'
  BY <1>1, StateIs DEF Fits
<1>6. QED
  BY <1>1, <1>2, <1>4, <1>5, EditStep

LEMMA DeleteColumnKeeps ==
  ASSUME IInv, NEW i \in Ids, DeleteColumn(i), UNCHANGED lastId
  PROVE  IInv'
<1>1. /\ columns' = columns \ {i}
      /\ UNCHANGED <<ds, tables, fks, referenced, op, asked>>
  BY DEF DeleteColumn
<1>2. StateType' /\ AllowedIsAsked'
  BY <1>1, StateIs DEF StateType, AllowedIsAsked
<1>3. TypeOK'
  BY <1>1, StateIs DEF TypeOK
<1>4. ForeignKeysOnce'
  BY <1>1, <1>3, StateIs DEF ForeignKeysOnce
<1>5. ASSUME NEW o \in Ops
      PROVE  Fits(op[o])'
  BY <1>1, StateIs DEF Fits
<1>6. QED
  BY <1>1, <1>2, <1>4, <1>5, EditStep

\* A table goes only if no row, and no transaction, refers to it.
LEMMA DeleteTableKeeps ==
  ASSUME IInv, NEW i \in Ids, DeleteTable(i), UNCHANGED lastId
  PROVE  IInv'
<1>1. /\ i \in DOMAIN tables \ columns /\ \A f \in fks : i \notin {f.from, f.to}
      /\ tables' = [j \in DOMAIN tables \ {i} |-> tables[j]]
      /\ UNCHANGED <<ds, columns, fks, referenced, op, asked>>
  BY DEF DeleteTable
<1>2. /\ DOMAIN tables' = DOMAIN tables \ {i}
      /\ \A j \in DOMAIN tables' : j \in DOMAIN tables /\ tables'[j] = tables[j]
  BY <1>1
<1>3. tables' \in Maps(Rows)
  <2>1. tables' \in [DOMAIN tables \ {i} -> Rows] /\ DOMAIN tables \ {i} \subseteq Ids
    BY <1>1, StateIs
  <2>2. QED
    BY <2>1, AreMaps
<1>4. StateType'
  <2>1. DOMAIN tables' \subseteq 1..lastId'
    BY <1>2, StateIs DEF StateType
  <2>2. QED
    BY <1>1, <1>3, <2>1, StateIs DEF StateType
<1>5. TypeOK'
  <2>1. ds
    BY <1>1, NoneWithoutDs
  <2>2. \A j, k \in DOMAIN tables' : tables'[j].name = tables'[k].name => j = k
    BY <1>2, StateIs DEF TypeOK
  <2>3. \A f \in fks : {f.from, f.to} \subseteq DOMAIN tables'
    BY <1>1, <1>2, StateIs DEF TypeOK
  <2>4. columns \subseteq DOMAIN tables'
    BY <1>1, <1>2, StateIs DEF TypeOK
  <2>5. QED
    BY <1>1, <1>2, <2>1, <2>2, <2>3, <2>4, StateIs DEF TypeOK
<1>6. ForeignKeysOnce' /\ AllowedIsAsked'
  BY <1>1, <1>2, <1>5, StateIs DEF ForeignKeysOnce, AllowedIsAsked
<1>7. ASSUME NEW o \in Ops
      PROVE  Fits(op[o])'
  <2>1. Fits(op[o])
    BY StateIs
  <2>2. i \notin Locked(o) \cup Shared(o)
    BY DEF DeleteTable
  <2>3. i \notin op[o].newcols /\ \A f \in op[o].newfks : i \notin {f.from, f.to}
    BY <2>2 DEF Shared
  <2>4. i \notin op[o].allows \cup op[o].describes
    BY <2>2 DEF Locked
  <2>5. QED
    BY <1>1, <1>2, <2>1, <2>3, <2>4 DEF Fits
<1>8. QED
  BY <1>1, <1>4, <1>6, <1>7, EditStep

-----------------------------------------------------------------------------
(* Steps that change rows and begin or end a session. *)

LEMMA EndStep ==
  ASSUME IInv, NEW o \in Ops, NEW n \in Sessions, op' = [op EXCEPT ![o] = n],
         WritesNothing(n), DOMAIN n.ids = {},
         StateType', ForeignKeysOnce', AllowedIsAsked',
         \A p \in Ops \ {o} : Fits(op[p])'
  PROVE  IInv'
<1>1. /\ op'[o] = n /\ \A p \in Ops \ {o} : op'[p] = op[p]
      /\ \A p \in Ops : op[p] \in Sessions
  BY DEF IInv, StateType
<1>2. Fits(op[o])'
  BY <1>1 DEF Fits, WritesNothing
<1>3. WritesWhatIsAsked(n, o)
  BY QuietWrites
<1>4. ASSUME NEW p \in Ops
      PROVE  WritesWhatIsAsked(op[p], p)'
  BY <1>1, <1>3 DEF IInv
<1>5. DOMAIN n.new = {} /\ n.newfks = {} /\ n.held = {}
  BY DEF WritesNothing
<1>6. \A m \in Sessions : Apart(n, m) /\ Apart(m, n)
  BY <1>5 DEF Apart
<1>7. ASSUME NEW p \in Ops, NEW q \in Ops, p # q
      PROVE  Apart(op[p], op[q])'
  <2>1. CASE p = o \/ q = o
    BY <1>1, <1>6, <1>7, <2>1
  <2>2. CASE p # o /\ q # o
    BY <1>1, <1>7, <2>2 DEF IInv
  <2>3. QED
    BY <2>1, <2>2
<1>8. QED
  BY <1>2, <1>4, <1>7 DEF IInv

LEMMA BeginCascadeKeeps ==
  ASSUME IInv, NEW o \in Ops, BeginCascade(o), UNCHANGED lastId
  PROVE  IInv'
<1>1. PICK s \in Sessions : s = op[o]
  BY OpIs
<1>2. PICK n : n = [s EXCEPT !.pc = "cascade", !.view = tables]
  OBVIOUS
<1>3. op' = [op EXCEPT ![o] = n]
  BY <1>1, <1>2, OpIs DEF BeginCascade
<1>4. n \in Sessions
  BY <1>2, StateIs DEF Sessions
<1>5. WritesNothing(s) /\ DOMAIN s.ids = {}
  BY <1>1, OpIs DEF WritesWhatIsAsked, BeginCascade
<1>6. /\ WritesNothing(n) /\ DOMAIN n.ids = {} /\ n.pc = "cascade" /\ n.view = tables
  BY <1>2, <1>5 DEF WritesNothing, Sessions
<1>7. WritesWhatIsAsked(n, o)
  BY <1>6, QuietWrites
<1>8. QED
  BY <1>3, <1>4, <1>6, <1>7, OpIs, QuietStep DEF BeginCascade

\* A deletion leaves nobody who would write to what is gone.
LEMMA CascadeKeeps ==
  ASSUME IInv, NEW o \in Ops, Cascade(o), UNCHANGED lastId
  PROVE  IInv'
<1>1. CASE Failed(o) /\ UNCHANGED db
  BY <1>1, FailedKeeps DEF Cascade
<1>2. CASE /\ ds' = FALSE /\ tables' = NoTables /\ columns' = {} /\ fks' = {}
           /\ Ends(o)
  <2>1. PICK n : n = [Idle EXCEPT !.pc = "over"]
    OBVIOUS
  <2>2. n \in Sessions /\ n.pc = "over" /\ WritesNothing(n) /\ DOMAIN n.ids = {}
        /\ DOMAIN n.view = {} /\ DOMAIN n.new = {}
    BY <2>1, IdleIsSession DEF Idle, Sessions, WritesNothing
  <2>3. op' = [op EXCEPT ![o] = n]
    BY <1>2, <2>1 DEF Ends
  <2>4. UNCHANGED <<asked, referenced>>
    BY DEF Cascade
  <2>5. /\ op' \in [Ops -> Sessions] /\ op'[o] = n
        /\ \A p \in Ops \ {o} : op'[p] = op[p]
    BY <2>2, <2>3, OpIs
  <2>6. tables' \in Maps(Rows) /\ DOMAIN tables' = {}
    BY <1>2, NoTablesIsMap
  <2>7. StateType'
    BY <2>2, <2>4, <2>5, <2>6, StateIs DEF StateType
  <2>8. TypeOK'
    BY <1>2, <2>4, <2>6, StateIs DEF TypeOK
  <2>9. ForeignKeysOnce' /\ AllowedIsAsked'
    BY <1>2, <2>4, <2>6, <2>8 DEF ForeignKeysOnce, AllowedIsAsked
  <2>10. ASSUME NEW p \in Ops \ {o}
         PROVE  Fits(op[p])'
    <3>1. Locked(p) \cup Shared(p) \cup op[p].held = {} /\ Fits(op[p])
      BY StateIs DEF Cascade
    <3>2. /\ op[p].allows = {} /\ op[p].describes = {} /\ DOMAIN op[p].new = {}
          /\ op[p].newcols = {} /\ op[p].newfks = {}
      BY <3>1 DEF Locked, Shared
    <3>3. QED
      BY <1>2, <2>4, <2>5, <3>2 DEF Fits
  <2>11. QED
    BY <2>2, <2>3, <2>7, <2>9, <2>10, EndStep
<1>3. QED
  BY <1>1, <1>2 DEF Cascade

\* What a transaction wrote becomes visible: everything it refers to is there, its
\* names and its foreign keys are nobody else's, and what it left alone it had
\* read as it was asked for.
LEMMA CommitKeeps ==
  ASSUME IInv, NEW o \in Ops, Commit(o), UNCHANGED lastId
  PROVE  IInv'
<1>1. PICK s \in Sessions : s = op[o]
  BY OpIs
<1>2. /\ s.pc = "commit" /\ AddsWhatIsAsked(s) /\ ChangesWhatIsAsked(s)
      /\ ReplacesFks(s, o) /\ Fits(s)
  BY <1>1, OpIs DEF WritesWhatIsAsked, Commit
<1>3. s.view \in Maps(Rows) /\ s.new \in Maps(Rows) /\ s.ids \in Maps(Names)
  BY DEF Sessions
<1>4. /\ s.view \in [DOMAIN s.view -> Rows] /\ s.new \in [DOMAIN s.new -> Rows]
      /\ DOMAIN s.view \subseteq Ids /\ DOMAIN s.new \subseteq Ids
      /\ DOMAIN s.ids \subseteq Ids
  BY <1>3, MapsAre
<1>5. /\ columns' = columns \cup s.newcols /\ fks' = (fks \ s.gone) \cup s.newfks
      /\ UNCHANGED <<ds, referenced>>
  BY <1>1 DEF Commit
<1>6. /\ DOMAIN tables' = DOMAIN tables \cup DOMAIN s.new
      /\ \A i \in DOMAIN s.new : tables'[i] = s.new[i]
      /\ \A i \in DOMAIN tables \ DOMAIN s.new :
           tables'[i] = [tables[i] EXCEPT
             !.allowed = IF i \in s.allows THEN ~s.view[i].allowed ELSE @,
             !.description = IF i \in s.describes THEN "sync" ELSE @]
  BY <1>1 DEF Commit
<1>7. DOMAIN s.new \cap DOMAIN tables = {}
  BY <1>2 DEF Fits
<1>8. ASSUME NEW i \in DOMAIN tables
      PROVE  /\ tables'[i] \in Rows /\ tables'[i].name = tables[i].name
             /\ tables'[i].allowed =
                  IF i \in s.allows THEN ~s.view[i].allowed ELSE tables[i].allowed
  <2>1. PICK row \in Rows : row = tables[i]
    BY StateIs
  <2>2. PICK a \in BOOLEAN :
          a = IF i \in s.allows THEN ~s.view[i].allowed ELSE row.allowed
    BY DEF Rows
  <2>3. PICK d \in {"", "manual", "sync"} :
          d = IF i \in s.describes THEN "sync" ELSE row.description
    BY DEF Rows
  <2>4. tables'[i] = [row EXCEPT !.allowed = a, !.description = d]
    BY <1>6, <1>7, <2>1, <2>2, <2>3
  <2>5. QED
    BY <2>1, <2>2, <2>4 DEF Rows
<1>9. tables' \in [DOMAIN tables \cup DOMAIN s.new -> Rows]
  <2>1. tables' = [i \in DOMAIN tables \cup DOMAIN s.new |-> tables'[i]]
    BY <1>1 DEF Commit
  <2>2. \A i \in DOMAIN tables \cup DOMAIN s.new : tables'[i] \in Rows
    BY <1>4, <1>6, <1>8
  <2>3. QED
    BY <2>1, <2>2
<1>10. tables' \in Maps(Rows)
  <2>1. DOMAIN tables \cup DOMAIN s.new \subseteq Ids
    BY <1>4, StateIs
  <2>2. QED
    BY <1>9, <2>1, AreMaps
<1>11. /\ \A i \in Ids \ DOMAIN s.ids : asked'[i] = asked[i]
       /\ \A i \in DOMAIN s.ids :
            asked'[i] = [value |-> s.ids[i] \in s.allow,
                         skipped |-> /\ i \in DOMAIN s.view
                                     /\ s.view[i].allowed = (s.ids[i] \in s.allow)]
  BY <1>1, <1>4 DEF Commit, Synced
<1>12. ASSUME NEW i \in DOMAIN s.ids
       PROVE  /\ asked'[i].value = (s.ids[i] \in s.allow)
              /\ asked'[i].skipped = (/\ i \in DOMAIN s.view
                                      /\ s.view[i].allowed = (s.ids[i] \in s.allow))
  <2>1. asked'[i] = [value |-> s.ids[i] \in s.allow,
                     skipped |-> /\ i \in DOMAIN s.view
                                 /\ s.view[i].allowed = (s.ids[i] \in s.allow)]
    BY <1>11, Zenon
  <2>2. QED
    BY <2>1
<1>13. asked' \in [Ids -> [value : BOOLEAN, skipped : BOOLEAN]]
  <2>1. asked' = [i \in Ids |-> asked'[i]]
    BY DEF Commit
  <2>2. ASSUME NEW i \in Ids
        PROVE  asked'[i] \in [value : BOOLEAN, skipped : BOOLEAN]
    <3>1. CASE i \in DOMAIN s.ids
      <4>1. [value |-> s.ids[i] \in s.allow,
             skipped |-> /\ i \in DOMAIN s.view
                         /\ s.view[i].allowed = (s.ids[i] \in s.allow)]
              \in [value : BOOLEAN, skipped : BOOLEAN]
        OBVIOUS
      <4>2. QED
        BY <1>11, <3>1, <4>1, Zenon
    <3>2. CASE i \notin DOMAIN s.ids
      BY <1>11, <3>2, StateIs DEF StateType
    <3>3. QED
      BY <3>1, <3>2
  <2>3. QED
    BY <2>1, <2>2
<1>14. PICK n : n = [Idle EXCEPT !.pc = "over"]
  OBVIOUS
<1>15. /\ n \in Sessions /\ n.pc = "over" /\ WritesNothing(n) /\ DOMAIN n.ids = {}
       /\ DOMAIN n.view = {} /\ DOMAIN n.new = {}
  BY <1>14, IdleIsSession DEF Idle, Sessions, WritesNothing
<1>16. op' = [op EXCEPT ![o] = n]
  BY <1>14 DEF Commit, Ends
<1>17. /\ op' \in [Ops -> Sessions] /\ op'[o] = n
       /\ \A p \in Ops \ {o} : op'[p] = op[p]
  BY <1>15, <1>16, OpIs
<1>18. StateType'
  <2>1. DOMAIN tables' \subseteq 1..lastId'
    BY <1>1, <1>6, OpIs
  <2>2. \A p \in Ops : DOMAIN op'[p].view \cup DOMAIN op'[p].new \subseteq 1..lastId'
    BY <1>15, <1>17, StateIs DEF StateType
  <2>3. QED
    BY <1>10, <1>13, <1>17, <2>1, <2>2, StateIs DEF StateType
<1>19. TypeOK'
  <2>1. \A i, j \in DOMAIN tables' : tables'[i].name = tables'[j].name => i = j
    <3>1. \A i, j \in DOMAIN tables : tables[i].name = tables[j].name => i = j
      BY StateIs DEF TypeOK
    <3>2. \A i, j \in DOMAIN s.new : s.new[i].name = s.new[j].name => i = j
      BY <1>2 DEF AddsWhatIsAsked
    <3>3. \A i \in DOMAIN s.new, j \in DOMAIN tables : s.new[i].name # tables[j].name
      BY <1>2 DEF Fits
    <3>4. /\ \A i \in DOMAIN tables : tables'[i].name = tables[i].name
          /\ \A i \in DOMAIN s.new : tables'[i].name = s.new[i].name
      BY <1>6, <1>8
    <3>5. DOMAIN tables' = DOMAIN tables \cup DOMAIN s.new
      BY <1>6
    <3>6. QED
      BY <3>1, <3>2, <3>3, <3>4, <3>5
  <2>2. DOMAIN tables' \subseteq Ids /\ \A i \in DOMAIN tables' : tables'[i] \in Rows
    BY <1>4, <1>6, <1>9, StateIs
  <2>3. columns' \subseteq DOMAIN tables'
    BY <1>2, <1>5, <1>6, StateIs DEF TypeOK, Fits
  <2>4. fks' \subseteq Fks
    BY <1>5, StateIs DEF TypeOK, Sessions
  <2>5. /\ \A f \in fks : {f.from, f.to} \subseteq DOMAIN tables
        /\ \A f \in s.newfks : {f.from, f.to} \subseteq DOMAIN tables \cup DOMAIN s.new
    BY <1>2, StateIs DEF TypeOK, Fits
  <2>6. \A f \in fks' : {f.from, f.to} \subseteq DOMAIN tables'
    BY <1>5, <1>6, <2>5
  <2>7. ds' \/ tables' = NoTables
    <3>1. ~ds => DOMAIN tables' = {}
      BY <1>2, <1>6, NoneWithoutDs, StateIs DEF TypeOK, Fits
    <3>2. ~ds => tables' = NoTables
      BY <1>9, <3>1 DEF NoTables
    <3>3. QED
      BY <1>5, <3>1, <3>2
  <2>8. QED
    BY <1>5, <2>1, <2>2, <2>3, <2>6, <2>7, <2>4, StateIs DEF TypeOK
<1>20. ForeignKeysOnce'
  <2>1. ASSUME NEW f \in fks', NEW g \in fks', f.from = g.from, f.to = g.to, f # g
        PROVE  "manual" \in {f.by, g.by}
    <3>1. CASE f \in fks \ s.gone /\ g \in fks \ s.gone
      BY <2>1, <3>1, StateIs DEF ForeignKeysOnce
    <3>2. CASE f \in s.newfks /\ g \in s.newfks
      <4>1. f.by = o /\ g.by = o /\ f \in Fks /\ g \in Fks
        BY <1>2, <3>2 DEF ReplacesFks, Sessions
      <4>2. f = g
        BY <2>1, <4>1 DEF Fks
      <4>3. QED
        BY <2>1, <4>2
    <3>3. \A h \in s.newfks, k \in fks \ s.gone : h.from # k.from
      BY <1>2 DEF ReplacesFks, Fits
    <3>4. QED
      BY <1>5, <2>1, <3>1, <3>2, <3>3
  <2>2. QED
    BY <1>19, <2>1 DEF ForeignKeysOnce
<1>21. AllowedIsAsked'
  <2>1. ASSUME NEW i \in DOMAIN s.new
        PROVE  tables'[i].allowed = asked'[i].value
    <3>1. i \in Ids /\ i \in DOMAIN s.ids /\ s.new[i].allowed = (s.ids[i] \in s.allow)
      BY <1>2, <1>4 DEF AddsWhatIsAsked
    <3>2. asked'[i].value = (s.ids[i] \in s.allow)
      BY <1>12, <3>1
    <3>3. QED
      BY <1>6, <3>1, <3>2
  <2>2. ASSUME NEW i \in DOMAIN tables, i \in DOMAIN s.ids
        PROVE  tables'[i].allowed = asked'[i].value \/ asked'[i].skipped
    <3>1. i \in Ids /\ i \notin DOMAIN s.new
      BY <1>7, StateIs
    <3>2. /\ i \in DOMAIN s.view /\ s.view[i].allowed \in BOOLEAN
          /\ i \in s.allows <=> s.view[i].allowed # (s.ids[i] \in s.allow)
      BY <1>2, <1>4, <2>2, <3>1 DEF ChangesWhatIsAsked, Rows
    <3>3. /\ asked'[i].value = (s.ids[i] \in s.allow)
          /\ asked'[i].skipped <=> s.view[i].allowed = (s.ids[i] \in s.allow)
      BY <1>12, <2>2, <3>2
    <3>4. QED
      BY <1>8, <3>2, <3>3
  <2>3. ASSUME NEW i \in DOMAIN tables, i \notin DOMAIN s.ids
        PROVE  tables'[i].allowed = asked'[i].value \/ asked'[i].skipped
    <3>1. i \in Ids /\ i \notin s.allows
      BY <1>2, <2>3, StateIs DEF ChangesWhatIsAsked
    <3>2. tables'[i].allowed = tables[i].allowed /\ asked'[i] = asked[i]
      BY <1>8, <1>11, <2>3, <3>1
    <3>3. QED
      BY <3>2, StateIs DEF AllowedIsAsked
  <2>4. QED
    BY <1>6, <2>1, <2>2, <2>3 DEF AllowedIsAsked
<1>22. ASSUME NEW p \in Ops \ {o}
       PROVE  Fits(op[p])'
  <2>1. PICK m \in Sessions : m = op[p]
    BY StateIs
  <2>2. Fits(m) /\ Apart(s, m)
    BY <1>1, <2>1, OpIs, StateIs
  <2>3. DOMAIN m.new \cap DOMAIN tables' = {}
    BY <1>6, <2>2 DEF Fits, Apart
  <2>4. \A i \in DOMAIN m.new, j \in DOMAIN tables' : m.new[i].name # tables'[j].name
    <3>1. /\ \A i \in DOMAIN m.new, j \in DOMAIN tables : m.new[i].name # tables[j].name
          /\ \A i \in DOMAIN m.new, j \in DOMAIN s.new : m.new[i].name # s.new[j].name
      BY <2>2 DEF Fits, Apart
    <3>2. /\ \A j \in DOMAIN tables : tables'[j].name = tables[j].name
          /\ \A j \in DOMAIN s.new : tables'[j].name = s.new[j].name
      BY <1>6, <1>8
    <3>3. DOMAIN tables' = DOMAIN tables \cup DOMAIN s.new
      BY <1>6
    <3>4. QED
      BY <3>1, <3>2, <3>3
  <2>5. \A f \in fks' : f.from \in m.held => f \in m.gone
    BY <1>5, <2>2 DEF Fits, Apart
  <2>6. Fits(m)'
    BY <1>5, <1>6, <2>2, <2>3, <2>4, <2>5 DEF Fits
  <2>7. QED
    BY <1>17, <2>1, <2>6
<1>23. QED
  BY <1>15, <1>16, <1>18, <1>20, <1>21, <1>22, EndStep

-----------------------------------------------------------------------------
(* The theorems. *)

LEMMA InitHolds == Init => IInv
<1> SUFFICES ASSUME Init
             PROVE  IInv
  OBVIOUS
<1>1. PICK names \in {{}, Names} :
        tables = [i \in names |-> [name |-> i, allowed |-> TRUE, description |-> ""]]
  BY DEF Init
<1>2. names \subseteq Names /\ Names \subseteq Ids
  BY MetadataAssumption DEF Names, Ids
<1>3. /\ DOMAIN tables = names
      /\ \A i \in names : /\ tables[i] \in Rows /\ tables[i].name = i
                          /\ tables[i].allowed = TRUE
  BY <1>1, <1>2 DEF Rows
<1>4. tables \in Maps(Rows)
  <2>1. tables \in [names -> Rows]
    BY <1>1, <1>3
  <2>2. QED
    BY <1>2, <2>1, AreMaps
<1>5. lastId \in 0..MaxId /\ names \subseteq 1..lastId
  <2>1. lastId = Cardinality(names)
    BY <1>3 DEF Init
  <2>2. CASE names = {}
    BY <2>1, <2>2, FS_EmptySet, MetadataAssumption
  <2>3. CASE names = Names
    <3>1. Cardinality(1..NumNames) = IF 1 > NumNames THEN 0 ELSE NumNames - 1 + 1
      BY FS_Interval, MetadataAssumption
    <3>2. lastId = NumNames
      BY <2>1, <2>3, <3>1, MetadataAssumption DEF Names
    <3>3. QED
      BY <2>3, <3>2, MetadataAssumption DEF Names
  <2>4. QED
    BY <2>2, <2>3
<1>6. \A i \in Ids : asked[i] \in [value : BOOLEAN, skipped : BOOLEAN]
  BY DEF Init
<1>7. \A i \in names : asked[i].value = TRUE
  BY <1>2, <1>3 DEF Init
<1>8. \A o \in Ops : op[o] = Idle
  BY DEF Init
<1>9. StateType
  <2>1. op \in [Ops -> Sessions] /\ \A o \in Ops : DOMAIN op[o].view \cup DOMAIN op[o].new = {}
    BY <1>8, IdleIsSession DEF Init, WritesNothing
  <2>2. asked \in [Ids -> [value : BOOLEAN, skipped : BOOLEAN]]
    BY <1>6 DEF Init
  <2>3. QED
    BY <1>3, <1>4, <1>5, <2>1, <2>2 DEF StateType
<1>10. TypeOK
  <2>1. /\ ds = TRUE /\ referenced \in BOOLEAN /\ columns = DOMAIN tables
        /\ fks = {}
    BY DEF Init
  <2>2. DOMAIN tables \subseteq Ids
    BY <1>2, <1>3
  <2>3. \A i, j \in DOMAIN tables : tables[i].name = tables[j].name => i = j
    BY <1>3
  <2>4. QED
    BY <1>3, <2>1, <2>2, <2>3 DEF TypeOK
<1>11. ForeignKeysOnce /\ AllowedIsAsked
  BY <1>3, <1>7, <1>10 DEF Init, ForeignKeysOnce, AllowedIsAsked
<1>12. /\ Fits(Idle) /\ Apart(Idle, Idle)
       /\ \A o \in Ops : WritesWhatIsAsked(Idle, o)
  BY IdleIsSession, QuietFits, QuietWrites DEF Idle
<1>13. QED
  BY <1>8, <1>9, <1>11, <1>12 DEF IInv

LEMMA StepKeeps ==
  ASSUME IInv, NEW o \in Ops, Step(o), UNCHANGED lastId
  PROVE  IInv'
<1>1. CASE BeginSync(o) \/ Introspect(o)
  BY <1>1, BeginSyncKeeps, IntrospectKeeps
<1>2. CASE DeleteFks(o) \/ SkipFks(o) \/ InsertFks(o)
  BY <1>2, DeleteFksKeeps, SkipFksKeeps, InsertFksKeeps
<1>3. CASE \E i \in DOMAIN op[o].view : MergeTable(o, i)
  BY <1>3, MergeTableKeeps
<1>4. CASE BeginUpdate(o) \/ Update(o) \/ Commit(o)
  BY <1>4, BeginUpdateKeeps, UpdateKeeps, CommitKeeps
<1>5. CASE BeginCascade(o) \/ Cascade(o)
  BY <1>5, BeginCascadeKeeps, CascadeKeeps
<1>6. CASE Lose(o)
  BY <1>6, FailedKeeps DEF Lose
<1>7. QED
  BY <1>1, <1>2, <1>3, <1>4, <1>5, <1>6 DEF Step

LEMMA EditKeeps ==
  ASSUME IInv, Edit, UNCHANGED lastId
  PROVE  IInv'
<1>1. CASE \E i \in Ids : Describe(i) \/ CreateColumn(i) \/ DeleteColumn(i) \/ DeleteTable(i)
  BY <1>1, DescribeKeeps, CreateColumnKeeps, DeleteColumnKeeps, DeleteTableKeeps
<1>2. CASE \E i, j \in Ids : CreateFk(i, j)
  BY <1>2, CreateFkKeeps
<1>3. CASE \E f \in fks : DeleteFk(f)
  BY <1>3, DeleteFkKeeps
<1>4. QED
  BY <1>1, <1>2, <1>3 DEF Edit

LEMMA StutterKeeps == IInv /\ UNCHANGED vars => IInv'
<1> SUFFICES ASSUME IInv, UNCHANGED vars
             PROVE  IInv'
  OBVIOUS
<1>1. UNCHANGED <<ds, tables, columns, fks, referenced, op, asked, lastId>>
  BY DEF vars, db
<1>2. StateType' /\ ForeignKeysOnce' /\ AllowedIsAsked'
  BY <1>1, StateIs DEF StateType, ForeignKeysOnce, TypeOK, AllowedIsAsked
<1>3. \A o \in Ops : Fits(op[o])'
  BY <1>1, StateIs DEF Fits
<1>4. QED
  BY <1>1, <1>2, <1>3, EditStep

LEMMA NextKeeps == IInv /\ [Next]_vars => IInv'
<1> SUFFICES ASSUME IInv, [Next]_vars
             PROVE  IInv'
  OBVIOUS
<1>1. CASE (\E o \in Ops : Step(o)) /\ UNCHANGED <<edits, lastId>>
  BY <1>1, StepKeeps
<1>2. CASE \E o \in Ops, n \in Names : AddTable(o, n)
  BY <1>2, AddTableKeeps
<1>3. CASE Edit /\ UNCHANGED lastId
  BY <1>3, EditKeeps
<1>4. CASE \E n \in Names, allow \in BOOLEAN : CreateTable(n, allow)
  BY <1>4, CreateTableKeeps
<1>5. CASE UNCHANGED vars
  BY <1>5, StutterKeeps
<1>6. QED
  BY <1>1, <1>2, <1>3, <1>4, <1>5 DEF Next

LEMMA Invariance == Spec => []IInv
BY InitHolds, NextKeeps, PTL DEF Spec

\* Rows refer to rows that exist, names are unique, and however many sessions
\* synchronise a datasource, fail on the way or are interleaved with edits and a
\* deletion, a foreign key of the remote database has one row.
THEOREM ForeignKeysAreOnce == Spec => []ForeignKeysOnce
<1>1. IInv => ForeignKeysOnce
  BY DEF IInv
<1>2. QED
  BY <1>1, Invariance, PTL

\* Whether a table may be queried is what was asked for last, whoever commits in
\* whatever order, but for who asked for what he had read before.
THEOREM AskedIsAllowed == Spec => []AllowedIsAsked
<1>1. IInv => AllowedIsAsked
  BY DEF IInv
<1>2. QED
  BY <1>1, Invariance, PTL

\* Who writes table_metadata.
LEMMA OnlyCommitDescribes ==
  ASSUME IInv, [Next]_vars, ~ UNCHANGED tables
  PROVE  \/ \E o \in Ops : Commit(o)
         \/ \E o \in Ops : Cascade(o) /\ tables' = NoTables
         \/ \E i \in Ids : Describe(i) \/ DeleteTable(i)
         \/ \E n \in Names, allow \in BOOLEAN : CreateTable(n, allow)
<1>1. ASSUME NEW o \in Ops, Step(o)
      PROVE  Commit(o) \/ (Cascade(o) /\ tables' = NoTables)
  BY <1>1 DEF Step, BeginSync, Introspect, DeleteFks, SkipFks, InsertFks, MergeTable,
     BeginUpdate, Update, BeginCascade, Cascade, Lose, db
<1>2. ASSUME Edit
      PROVE  \E i \in Ids : Describe(i) \/ DeleteTable(i)
  BY <1>2 DEF Edit, CreateColumn, DeleteColumn, CreateFk, DeleteFk
<1>3. ASSUME NEW o \in Ops, NEW n \in Names, AddTable(o, n)
      PROVE  FALSE
  BY <1>3 DEF AddTable, db
<1>4. ~ UNCHANGED vars
  BY DEF vars, db
<1>5. QED
  BY <1>1, <1>2, <1>3, <1>4 DEF Next

LEMMA DescriptionsKept == IInv /\ [Next]_vars => KeepsDescriptions
<1> SUFFICES ASSUME IInv, [Next]_vars,
                    NEW i \in DOMAIN tables \cap DOMAIN tables',
                    tables[i].description = "manual", tables'[i].description # "manual"
             PROVE  \E o \in Ops : /\ op[o].pc = "commit" /\ op'[o].pc = "over"
                                   /\ op[o].view[i].description = ""
  BY DEF KeepsDescriptions
<1>1. ASSUME NEW o \in Ops, Commit(o)
      PROVE  /\ op[o].pc = "commit" /\ op'[o].pc = "over"
             /\ op[o].view[i].description = ""
  <2>1. op'[o] = [Idle EXCEPT !.pc = "over"]
    BY <1>1, OpIs DEF Commit, Ends
  <2>2. op'[o].pc = "over"
    BY <2>1 DEF Idle
  <2>3. Fits(op[o]) /\ ChangesWhatIsAsked(op[o])
    BY OpIs DEF WritesWhatIsAsked
  <2>4. i \notin DOMAIN op[o].new
    BY <2>3 DEF Fits
  <2>5. tables'[i] = [tables[i] EXCEPT
          !.allowed = IF i \in op[o].allows THEN ~op[o].view[i].allowed ELSE @,
          !.description = IF i \in op[o].describes THEN "sync" ELSE @]
    BY <1>1, <2>4 DEF Commit
  <2>6. i \in op[o].describes
    <3>1. tables[i] \in Rows
      BY StateIs
    <3>2. QED
      BY <2>5, <3>1 DEF Rows
  <2>7. QED
    BY <1>1, <2>2, <2>3, <2>6 DEF Commit, ChangesWhatIsAsked
<1>2. ASSUME NEW j \in Ids, Describe(j)
      PROVE  FALSE
  BY <1>2, StateIs DEF Describe, Rows
<1>3. ASSUME NEW j \in Ids, DeleteTable(j)
      PROVE  FALSE
  BY <1>3 DEF DeleteTable
<1>4. ASSUME NEW n \in Names, NEW allow \in BOOLEAN, CreateTable(n, allow)
      PROVE  FALSE
  <2>1. FreshId \notin DOMAIN tables
    BY StateIs, MetadataAssumption DEF FreshId, StateType
  <2>2. tables'[i] = tables[i]
    BY <1>4, <2>1 DEF CreateTable, With
  <2>3. QED
    BY <2>2
<1>5. tables' # NoTables
  BY NoTablesIsMap
<1>6. QED
  BY <1>1, <1>2, <1>3, <1>4, <1>5, OnlyCommitDescribes

\* No interleaving of synchronisations and edits replaces an administrator's
\* description by one that was chosen after he had entered it.
THEOREM DescriptionsStay == Spec => DescriptionStays
<1>1. IInv /\ [Next]_vars => [KeepsDescriptions]_vars
  BY DescriptionsKept
<1>2. QED
  BY <1>1, Invariance, PTL DEF Spec, DescriptionStays
=============================================================================
