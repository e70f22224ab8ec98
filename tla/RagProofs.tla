----------------------------- MODULE RagProofs ------------------------------
(***************************************************************************)
(* That the points of the index are explained by its rows, doubled rows by *)
(* operations that overlapped, and documents of sources that are gone by   *)
(* what deleted the source, for any sources and operations; and, in the    *)
(* second half, that the runs of the evaluation of the retrieval are whole *)
(* and their measures mean what they say, for any tables, questions and    *)
(* sessions.                                                               *)
(***************************************************************************)
EXTENDS RagIndex, RagEval, FiniteSetTheorems, TLAPS

LEMMA InitIInv == Init => IInv
<1> SUFFICES ASSUME Init PROVE IInv
  OBVIOUS
<1>1. rows \subseteq Chunks
  BY DEF Init, Chunks
<1>2. /\ op \in [Ops -> OpStates]
      /\ \A o \in Ops : /\ op[o].pc = "idle" /\ op[o].view = {}
                        /\ op[o].dropped = {} /\ op[o].gone = {}
                        /\ op[o].new = {}
  BY DEF Init, OpStates, Kinds
<1>3. \A c \in rows : c.op \notin Ops
  BY PastAssumption DEF Init
<1>4. TypeOK
  BY <1>1, <1>2 DEF Init, TypeOK, Chunks
<1>5. PointsExplained /\ TwiceOnlyByOverlap /\ CommittedIsOver /\ PointsOwned
  BY <1>2, <1>3 DEF Init, PointsExplained, TwiceOnlyByOverlap,
                    CommittedIsOver, PointsOwned
<1>6. NewOwned /\ DeletesInOrder /\ ScoresKeepChunks
  BY <1>2 DEF Init, NewOwned, DeletesInOrder, ScoresKeepChunks
<1> QED
  BY <1>4, <1>5, <1>6 DEF IInv

-----------------------------------------------------------------------------
(* Steps, by what they leave alone. *)

\* What is left of a step once the operation it moves has its new record.
LEMMA OneOpMoves ==
  ASSUME TypeOK, NEW o \in Ops, NEW n \in OpStates,
         op' = [op EXCEPT ![o] = n]
  PROVE  /\ op' \in [Ops -> OpStates]
         /\ op'[o] = n
         /\ \A p \in Ops : p # o => op'[p] = op[p]
BY DEF TypeOK

\* An operation under way moves on, fails, or ends without having indexed:
\* rows, points and views stay.
LEMMA QuietStep ==
  ASSUME IInv, NEW o \in Ops, NEW n \in OpStates,
         op' = [op EXCEPT ![o] = n],
         rows' = rows, points' = points, scored' = scored,
         sources' \subseteq Sources, indexed' \subseteq Sources,
         replaced' = replaced,
         op[o].pc \in {"ready", "clean", "mark", "commit", "delete"},
         n.view = op[o].view, n.dropped = op[o].dropped, n.kind = op[o].kind,
         n.gone \subseteq n.dropped, n.gone \cap scored = {},
         \/ /\ n.new = op[o].new /\ op[o].gone \subseteq n.gone
            /\ op[o].pc \in {"ready", "clean", "mark"}
            /\ n.pc \in {"ready", "clean"}
         \/ n.new = {} /\ n.pc = "failed"
         \/ /\ n.new = {} /\ op[o].new = {}
            /\ n.pc \in {"commit", "delete", "over"}
  PROVE  IInv'
<1>1. /\ op' \in [Ops -> OpStates] /\ op'[o] = n
      /\ \A p \in Ops : p # o => op'[p] = op[p]
  BY OneOpMoves DEF IInv
<1>2. \A p \in Ops : op'[p].view = op[p].view /\ op'[p].kind = op[p].kind
                       /\ op'[p].dropped = op[p].dropped
  BY <1>1
<1>3. \A p \in Ops : op[p].pc = "over" => op'[p].pc = "over"
  BY <1>1
<1>4. \A c \in points : c.op = o => c \in op[o].new /\ op[o].kind \in Indexing
  BY DEF IInv, PointsOwned, NewOwned
<1>5. TypeOK'
  BY <1>1 DEF IInv, TypeOK
<1>6. PointsExplained'
  BY <1>1, <1>4 DEF IInv, PointsExplained, UnderWay
<1>7. TwiceOnlyByOverlap'
  BY <1>2 DEF IInv, TwiceOnlyByOverlap
<1>8. CommittedIsOver'
  <2> SUFFICES ASSUME NEW c, c \in rows \/ \E p \in Ops : c \in op'[p].view,
                      c.op \in Ops
               PROVE  op'[c.op].pc = "over"
    BY DEF CommittedIsOver
  <2>1. c \in rows \/ \E p \in Ops : c \in op[p].view
    BY <1>2
  <2> QED
    BY <2>1, <1>3 DEF IInv, CommittedIsOver
<1>9. PointsOwned'
  BY <1>1, <1>4 DEF IInv, PointsOwned, UnderWay
<1>10. NewOwned'
  BY <1>1, <1>2 DEF IInv, NewOwned
<1>11. DeletesInOrder' /\ ScoresKeepChunks'
  BY <1>1, <1>2 DEF IInv, DeletesInOrder, ScoresKeepChunks
<1> QED
  BY <1>5, <1>6, <1>7, <1>8, <1>9, <1>10, <1>11 DEF IInv

-----------------------------------------------------------------------------
(* The quiet steps. *)

\* What is left of an operation that ends.
LEMMA EndedRecord ==
  ASSUME TypeOK, NEW o \in Ops,
         NEW pc \in {"delete", "over", "failed"}
  PROVE  \E n \in OpStates :
           /\ Ended(o, pc) = [op EXCEPT ![o] = n]
           /\ n.pc = pc /\ n.kind = op[o].kind /\ n.view = op[o].view
           /\ n.dropped = op[o].dropped /\ n.gone = {} /\ n.new = {}
<1> DEFINE n == [op[o] EXCEPT !.pc = pc, !.gone = {}, !.new = {},
                              !.mark = {}, !.flags = {}, !.todo = {},
                              !.cur = IF op[o].kind = "delete" /\ pc # "failed"
                                      THEN @ ELSE {}]
<1>1. op[o] \in OpStates
  BY DEF TypeOK
<1>2. n \in OpStates /\ n.pc = pc /\ n.kind = op[o].kind
      /\ n.view = op[o].view /\ n.dropped = op[o].dropped
      /\ n.gone = {} /\ n.new = {}
  BY <1>1 DEF OpStates
<1>3. Ended(o, pc) = [op EXCEPT ![o] = n]
  BY DEF Ended, TypeOK
<1> HIDE DEF n
<1> QED
  BY <1>2, <1>3

LEMMA FailedIInv ==
  ASSUME IInv, NEW o \in Ops, Failed(o), rows' = rows, points' = points,
         scored' = scored, sources' = sources, indexed' = indexed,
         replaced' = replaced,
         op[o].pc \in {"ready", "clean", "mark", "commit", "delete"}
  PROVE  IInv'
<1>1. PICK n \in OpStates :
        /\ op' = [op EXCEPT ![o] = n]
        /\ n.pc = "failed" /\ n.kind = op[o].kind /\ n.view = op[o].view
        /\ n.dropped = op[o].dropped /\ n.gone = {} /\ n.new = {}
  BY EndedRecord DEF Failed, IInv
<1>2. sources' \subseteq Sources /\ indexed' \subseteq Sources
  BY DEF IInv, TypeOK
<1> QED
  BY <1>1, <1>2, QuietStep

LEMMA FailIInv ==
  ASSUME IInv, NEW o \in Ops, Fail(o)
  PROVE  IInv'
BY FailedIInv DEF Fail, db

LEMMA PickIInv ==
  ASSUME IInv, NEW o \in Ops, NEW s \in Sources, Pick(o, s)
  PROVE  IInv'
<1> DEFINE n == [op[o] EXCEPT !.pc = "clean", !.cur = {s}, !.todo = @ \ {s}]
<1>1. op[o] \in OpStates /\ op[o].pc = "ready"
  BY DEF IInv, TypeOK, Pick
<1>2. /\ n \in OpStates /\ n.pc = "clean" /\ n.kind = op[o].kind
      /\ n.view = op[o].view /\ n.dropped = op[o].dropped
      /\ n.gone = op[o].gone /\ n.new = op[o].new
  BY <1>1 DEF OpStates
<1>3. op' = [op EXCEPT ![o] = n]
  BY DEF Pick, IInv, TypeOK
<1>4. /\ rows' = rows /\ points' = points /\ scored' = scored
      /\ sources' \subseteq Sources /\ indexed' \subseteq Sources
      /\ replaced' = replaced
      /\ op[o].gone \subseteq op[o].dropped /\ op[o].gone \cap scored = {}
  BY DEF Pick, db, IInv, TypeOK, DeletesInOrder
<1> HIDE DEF n
<1> QED
  BY <1>1, <1>2, <1>3, <1>4, QuietStep

LEMMA DropRowIInv ==
  ASSUME IInv, NEW o \in Ops, NEW c \in Chunks, DropRow(o, c)
  PROVE  IInv'
<1>1. /\ op[o] \in OpStates /\ op[o].pc = "clean"
      /\ rows' = rows /\ points' = points /\ scored' = scored
      /\ sources' = sources /\ indexed' = indexed
      /\ sources' \subseteq Sources /\ indexed' \subseteq Sources
      /\ replaced' = replaced
      /\ op[o].gone \subseteq op[o].dropped /\ op[o].gone \cap scored = {}
      /\ c \in op[o].dropped
  BY DEF DropRow, Waiting, db, IInv, TypeOK, DeletesInOrder
<1>2. CASE c \in rows \ scored /\ op' = [op EXCEPT ![o].gone = @ \cup {c}]
  <2> DEFINE n == [op[o] EXCEPT !.gone = @ \cup {c}]
  <2>1. /\ n \in OpStates /\ n.pc = "clean" /\ n.kind = op[o].kind
        /\ n.view = op[o].view /\ n.dropped = op[o].dropped
        /\ n.gone = op[o].gone \cup {c} /\ n.new = op[o].new
    BY <1>1 DEF OpStates
  <2>2. op' = [op EXCEPT ![o] = n]
    BY <1>2 DEF IInv, TypeOK
  <2> HIDE DEF n
  <2>3. n.gone \subseteq n.dropped /\ n.gone \cap scored = {}
        /\ op[o].gone \subseteq n.gone
    BY <1>1, <1>2, <2>1
  <2> QED
    BY <1>1, <2>1, <2>2, <2>3, QuietStep
<1>3. CASE op' = [op EXCEPT ![o].pc = "ready"]
  <2> DEFINE n == [op[o] EXCEPT !.pc = "ready"]
  <2>1. /\ n \in OpStates /\ n.pc = "ready" /\ n.kind = op[o].kind
        /\ n.view = op[o].view /\ n.dropped = op[o].dropped
        /\ n.gone = op[o].gone /\ n.new = op[o].new
    BY <1>1 DEF OpStates
  <2>2. op' = [op EXCEPT ![o] = n]
    BY <1>3 DEF IInv, TypeOK
  <2> HIDE DEF n
  <2> QED
    BY <1>1, <2>1, <2>2, QuietStep
<1>4. CASE Failed(o)
  BY <1>1, <1>4, FailedIInv
<1> QED
  BY <1>2, <1>3, <1>4 DEF DropRow

\* What an UPDATE of is_indexed leaves, when it succeeds.
LEMMA UpdatedRecord ==
  ASSUME TypeOK, NEW o \in Ops, NEW set \in SUBSET Sources,
         NEW pc \in {"ready", "commit"}, Update(o, set, pc)
  PROVE  \/ Failed(o)
         \/ \E n \in OpStates :
              /\ op' = [op EXCEPT ![o] = n]
              /\ n.pc = pc /\ n.kind = op[o].kind /\ n.view = op[o].view
              /\ n.dropped = op[o].dropped /\ n.gone = op[o].gone
              /\ n.new = op[o].new
<1> DEFINE n == [op[o] EXCEPT !.pc = pc, !.mark = @ \cup set]
<1>1. op[o] \in OpStates
  BY DEF TypeOK
<1>2. /\ n \in OpStates /\ n.pc = pc /\ n.kind = op[o].kind
      /\ n.view = op[o].view /\ n.dropped = op[o].dropped
      /\ n.gone = op[o].gone /\ n.new = op[o].new
  BY <1>1 DEF OpStates
<1>3. Failed(o) \/ op' = [op EXCEPT ![o] = n]
  BY DEF Update, TypeOK
<1> HIDE DEF n
<1> QED
  BY <1>2, <1>3

LEMMA RemovedIInv ==
  ASSUME IInv, NEW o \in Ops, Removed(o)
  PROVE  IInv'
<1>1. /\ op[o] \in OpStates /\ op[o].pc = "clean"
      /\ op[o].kind \notin Indexing
      /\ rows' = rows /\ points' = points /\ scored' = scored
      /\ sources' = sources /\ indexed' = indexed
      /\ sources' \subseteq Sources /\ indexed' \subseteq Sources
      /\ replaced' = replaced
      /\ op[o].gone \subseteq op[o].dropped /\ op[o].gone \cap scored = {}
  BY DEF Removed, db, Indexing, IInv, TypeOK, DeletesInOrder
<1>2. op[o].new = {}
  BY <1>1 DEF IInv, NewOwned
<1>3. CASE Documents(o) # {}
  <2> DEFINE set == op[o].cur \cap op[o].flags
  <2>1. set \in SUBSET Sources
    BY <1>1 DEF OpStates
  <2>2. Update(o, set, "commit")
    BY <1>3 DEF Removed
  <2> HIDE DEF set
  <2>3. CASE Failed(o)
    BY <1>1, <2>3, FailedIInv
  <2>4. CASE ~Failed(o)
    <3>1. PICK n \in OpStates :
            /\ op' = [op EXCEPT ![o] = n]
            /\ n.pc = "commit" /\ n.kind = op[o].kind
            /\ n.view = op[o].view /\ n.dropped = op[o].dropped
            /\ n.gone = op[o].gone /\ n.new = op[o].new
      BY <2>1, <2>2, <2>4, UpdatedRecord DEF IInv
    <3> QED
      BY <1>1, <1>2, <3>1, QuietStep
  <2> QED
    BY <2>3, <2>4
<1>4. CASE Documents(o) = {}
  <2>1. PICK n \in OpStates :
          /\ op' = [op EXCEPT ![o] = n]
          /\ n.pc \in {"delete", "over"} /\ n.kind = op[o].kind
          /\ n.view = op[o].view /\ n.dropped = op[o].dropped
          /\ n.gone = {} /\ n.new = {}
    <3>1. \E pc \in {"delete", "over"} : op' = Ended(o, pc)
      BY <1>4 DEF Removed
    <3> QED
      BY <3>1, EndedRecord DEF IInv
  <2> QED
    BY <1>1, <1>2, <2>1, QuietStep
<1> QED
  BY <1>3, <1>4

LEMMA DeleteSourceIInv ==
  ASSUME IInv, NEW o \in Ops, DeleteSource(o)
  PROVE  IInv'
<1>1. PICK n \in OpStates :
        /\ op' = [op EXCEPT ![o] = n]
        /\ n.pc = "over" /\ n.kind = op[o].kind /\ n.view = op[o].view
        /\ n.dropped = op[o].dropped /\ n.gone = {} /\ n.new = {}
  BY EndedRecord DEF DeleteSource, IInv
<1>2. /\ rows' = rows /\ points' = points /\ scored' = scored
      /\ sources' \subseteq Sources /\ indexed' \subseteq Sources
      /\ replaced' = replaced
      /\ op[o].pc = "delete" /\ op[o].new = {}
  BY DEF DeleteSource, IInv, TypeOK, NewOwned
<1> QED
  BY <1>1, <1>2, QuietStep

-----------------------------------------------------------------------------
(* The steps that read rows, and those that change rows or points. *)

LEMMA BeginIInv ==
  ASSUME IInv, NEW o \in Ops, Begin(o)
  PROVE  IInv'
<1>1. /\ op[o] \in OpStates /\ op[o].pc = "idle"
      /\ sources' = sources /\ indexed' = indexed /\ rows' = rows
      /\ points' = points /\ scored' = scored /\ replaced' = replaced
  BY DEF Begin, db, IInv, TypeOK
<1>2. op[o].new = {} /\ op[o].gone = {} /\ op[o].dropped = {}
  BY <1>1 DEF IInv, NewOwned, DeletesInOrder
<1>3. PICK n \in OpStates :
        /\ op' = [op EXCEPT ![o] = n]
        /\ n.pc = "ready" /\ n.view = rows
        /\ n.new = {} /\ n.gone = {} /\ n.dropped = {}
  <2>1. PICK kind \in Kinds, s \in Sources :
          op' = [op EXCEPT ![o].pc = "ready", ![o].kind = kind,
                   ![o].todo = Todo(kind, s),
                   ![o].view = rows, ![o].flags = indexed]
    BY DEF Begin
  <2> DEFINE n == [op[o] EXCEPT !.pc = "ready", !.kind = kind,
                     !.todo = Todo(kind, s),
                     !.view = rows, !.flags = indexed]
  <2>2. op' = [op EXCEPT ![o] = n]
    BY <2>1 DEF IInv, TypeOK
  <2>3. rows \subseteq Chunks /\ sources \subseteq Sources
        /\ indexed \subseteq Sources /\ Todo(kind, s) \subseteq Sources
    BY DEF IInv, TypeOK, Todo, Chunks
  <2>4. /\ n \in OpStates /\ n.pc = "ready" /\ n.view = rows
        /\ n.new = {} /\ n.gone = {} /\ n.dropped = {}
    BY <1>1, <1>2, <2>3 DEF OpStates
  <2> HIDE DEF n
  <2> QED
    BY <2>2, <2>4
<1>4. /\ op' \in [Ops -> OpStates] /\ op'[o] = n
      /\ \A p \in Ops : p # o => op'[p] = op[p]
  BY <1>3, OneOpMoves DEF IInv
<1>5. \A c \in rows \cup points : c.op # o
  BY <1>1 DEF IInv, CommittedIsOver, PointsOwned, UnderWay
<1>6. TypeOK'
  BY <1>1, <1>4 DEF IInv, TypeOK
<1>7. PointsExplained' /\ PointsOwned' /\ TwiceOnlyByOverlap'
  BY <1>1, <1>4, <1>5 DEF IInv, PointsExplained, PointsOwned,
                          TwiceOnlyByOverlap, UnderWay
<1>8. CommittedIsOver'
  <2> SUFFICES ASSUME NEW c, c \in rows \/ \E p \in Ops : c \in op'[p].view,
                      c.op \in Ops
               PROVE  op'[c.op].pc = "over"
    BY <1>1 DEF CommittedIsOver
  <2>1. c \in rows \/ \E p \in Ops : c \in op[p].view
    BY <1>3, <1>4
  <2>2. op[c.op].pc = "over"
    BY <2>1 DEF IInv, CommittedIsOver
  <2> QED
    BY <2>2, <1>1, <1>4
<1>9. NewOwned' /\ DeletesInOrder' /\ ScoresKeepChunks'
  BY <1>1, <1>3, <1>4 DEF IInv, NewOwned, DeletesInOrder, ScoresKeepChunks
<1> QED
  BY <1>6, <1>7, <1>8, <1>9 DEF IInv

LEMMA DropPointIInv ==
  ASSUME IInv, NEW o \in Ops, NEW c \in Chunks, DropPoint(o, c)
  PROVE  IInv'
<1> DEFINE n == [op[o] EXCEPT !.dropped = @ \cup {c}]
<1>1. /\ op[o] \in OpStates /\ op[o].pc = "clean"
      /\ sources' = sources /\ indexed' = indexed /\ rows' = rows
      /\ points' = points \ {c} /\ scored' = scored /\ replaced' = replaced
      /\ c \in op[o].view
  BY DEF DropPoint, Documents, db, IInv, TypeOK
<1>2. /\ n \in OpStates /\ n.pc = op[o].pc /\ n.kind = op[o].kind
      /\ n.view = op[o].view /\ n.dropped = op[o].dropped \cup {c}
      /\ n.gone = op[o].gone /\ n.new = op[o].new
  BY <1>1 DEF OpStates
<1>3. op' = [op EXCEPT ![o] = n]
  BY DEF DropPoint, IInv, TypeOK
<1> HIDE DEF n
<1>4. /\ op' \in [Ops -> OpStates] /\ op'[o] = n
      /\ \A p \in Ops : p # o => op'[p] = op[p]
  BY <1>2, <1>3, OneOpMoves DEF IInv
<1>5. \A p \in Ops : /\ op'[p].pc = op[p].pc /\ op'[p].view = op[p].view
                     /\ op'[p].gone = op[p].gone /\ op'[p].new = op[p].new
                     /\ op'[p].kind = op[p].kind
  BY <1>2, <1>4
<1>6. TypeOK'
  BY <1>1, <1>4 DEF IInv, TypeOK
<1>7. PointsExplained' /\ PointsOwned' /\ TwiceOnlyByOverlap'
  BY <1>1, <1>5 DEF IInv, PointsExplained, PointsOwned,
                    TwiceOnlyByOverlap, UnderWay
<1>8. CommittedIsOver'
  <2> SUFFICES ASSUME NEW d, d \in rows \/ \E p \in Ops : d \in op'[p].view,
                      d.op \in Ops
               PROVE  op'[d.op].pc = "over"
    BY <1>1 DEF CommittedIsOver
  <2>1. d \in rows \/ \E p \in Ops : d \in op[p].view
    BY <1>5
  <2> QED
    BY <2>1, <1>5 DEF IInv, CommittedIsOver
<1>9. NewOwned' /\ ScoresKeepChunks'
  BY <1>1, <1>5 DEF IInv, NewOwned, ScoresKeepChunks
<1>10. DeletesInOrder'
  BY <1>1, <1>2, <1>4 DEF IInv, DeletesInOrder
<1> QED
  BY <1>6, <1>7, <1>8, <1>9, <1>10 DEF IInv

\* A new chunk is inserted, with or without its point.
LEMMA StoreStep ==
  ASSUME IInv, NEW o \in Ops, NEW n \in OpStates, NEW chunks,
         chunks = [op : {o}, source : op[o].cur],
         op[o].pc = "clean", op[o].kind \in Indexing, Cleaned(o),
         op' = [op EXCEPT ![o] = n],
         n.kind = op[o].kind, n.view = op[o].view,
         n.dropped = op[o].dropped,
         n.pc \in {"ready", "mark"}, n.gone = op[o].gone,
         n.new = op[o].new \cup chunks,
         points' = points \/ points' = points \cup chunks,
         sources' = sources, indexed' = indexed, rows' = rows,
         scored' = scored, replaced' = replaced
  PROVE  IInv'
<1>1. /\ op' \in [Ops -> OpStates] /\ op'[o] = n
      /\ \A p \in Ops : p # o => op'[p] = op[p]
  BY OneOpMoves DEF IInv
<1>2. \A c \in chunks : c \in Chunks /\ c.op = o /\ c.source \in op[o].cur
  BY DEF IInv, TypeOK, OpStates, Chunks
<1>3. \A p \in Ops : \A c \in op[p].view : c.op # o
  BY DEF IInv, CommittedIsOver
<1>4. \A p \in Ops : op[p].dropped \cap chunks = {}
  BY <1>2, <1>3 DEF IInv, DeletesInOrder
<1>5. \A p \in Ops : op'[p].view = op[p].view /\ op'[p].kind = op[p].kind
                       /\ op'[p].dropped = op[p].dropped
  BY <1>1
<1>6. TypeOK'
  BY <1>1, <1>2 DEF IInv, TypeOK
<1>7. PointsExplained'
  BY <1>1, <1>2 DEF IInv, PointsExplained, UnderWay
<1>8. TwiceOnlyByOverlap'
  BY <1>5 DEF IInv, TwiceOnlyByOverlap
<1>9. CommittedIsOver'
  <2> SUFFICES ASSUME NEW c, c \in rows \/ \E p \in Ops : c \in op'[p].view,
                      c.op \in Ops
               PROVE  op'[c.op].pc = "over"
    BY DEF CommittedIsOver
  <2>1. c \in rows \/ \E p \in Ops : c \in op[p].view
    BY <1>5
  <2>2. op[c.op].pc = "over"
    BY <2>1 DEF IInv, CommittedIsOver
  <2> QED
    BY <2>2, <1>1
<1>10. PointsOwned'
  <2> SUFFICES ASSUME NEW c \in points', c.op \in Ops
               PROVE  \/ op'[c.op].pc \in {"over", "failed"}
                      \/ UnderWay(c.op)' /\ c \in op'[c.op].new
    BY DEF PointsOwned
  <2>1. CASE c.op # o
    BY <2>1, <1>1, <1>2 DEF IInv, PointsOwned, UnderWay
  <2>2. CASE c.op = o
    <3>1. c \in op[o].new \cup chunks
      BY <2>2 DEF IInv, PointsOwned
    <3> QED
      BY <2>2, <3>1, <1>1 DEF UnderWay
  <2> QED
    BY <2>1, <2>2
<1>11. NewOwned'
  <2>1. \A c \in chunks : \A d \in op[o].view :
          d.source = c.source => d \in op[o].gone
    BY <1>2 DEF Cleaned, Documents
  <2> QED
    BY <2>1, <1>1, <1>2 DEF IInv, NewOwned
<1>12. DeletesInOrder' /\ ScoresKeepChunks'
  BY <1>1, <1>4 DEF IInv, DeletesInOrder, ScoresKeepChunks
<1> QED
  BY <1>6, <1>7, <1>8, <1>9, <1>10, <1>11, <1>12 DEF IInv

LEMMA StoreIInv ==
  ASSUME IInv, NEW o \in Ops, Store(o)
  PROVE  IInv'
<1> DEFINE chunks == [op : {o}, source : op[o].cur]
           n == [op[o] EXCEPT !.pc = "mark", !.new = @ \cup chunks]
<1>1. /\ op[o] \in OpStates /\ op[o].pc = "clean"
      /\ op[o].kind \in Indexing /\ Cleaned(o)
      /\ points' = points \cup chunks
      /\ sources' = sources /\ indexed' = indexed /\ rows' = rows
      /\ scored' = scored /\ replaced' = replaced
  BY DEF Store, db, IInv, TypeOK
<1>2. op' = [op EXCEPT ![o] = n]
  BY DEF Store, IInv, TypeOK
<1>3. chunks \subseteq Chunks /\ chunks = [op : {o}, source : op[o].cur]
  BY <1>1 DEF OpStates, Chunks
<1> HIDE DEF chunks
<1>4. /\ n \in OpStates /\ n.pc = "mark" /\ n.kind = op[o].kind
      /\ n.view = op[o].view /\ n.dropped = op[o].dropped
      /\ n.gone = op[o].gone /\ n.new = op[o].new \cup chunks
  BY <1>1, <1>3 DEF OpStates
<1> HIDE DEF n
<1> QED
  BY <1>1, <1>2, <1>3, <1>4, StoreStep

LEMMA MarkIndexedIInv ==
  ASSUME IInv, NEW o \in Ops, MarkIndexed(o)
  PROVE  IInv'
<1> DEFINE set == op[o].cur \ (op[o].flags \cup Keys)
<1>1. /\ op[o] \in OpStates /\ op[o].pc = "mark"
      /\ Update(o, set, "ready")
      /\ rows' = rows /\ points' = points /\ scored' = scored
      /\ sources' = sources /\ indexed' = indexed
      /\ sources' \subseteq Sources /\ indexed' \subseteq Sources
      /\ replaced' = replaced
      /\ op[o].gone \subseteq op[o].dropped /\ op[o].gone \cap scored = {}
  BY DEF MarkIndexed, db, IInv, TypeOK, DeletesInOrder
<1>2. set \in SUBSET Sources
  BY <1>1 DEF OpStates
<1> HIDE DEF set
<1>3. CASE Failed(o)
  BY <1>1, <1>3, FailedIInv
<1>4. CASE ~Failed(o)
  <2>1. PICK n \in OpStates :
          /\ op' = [op EXCEPT ![o] = n]
          /\ n.pc = "ready" /\ n.kind = op[o].kind /\ n.view = op[o].view
          /\ n.dropped = op[o].dropped /\ n.gone = op[o].gone
          /\ n.new = op[o].new
    BY <1>1, <1>2, <1>4, UpdatedRecord DEF IInv
  <2> QED
    BY <1>1, <2>1, QuietStep
<1> QED
  BY <1>3, <1>4

LEMMA SwallowIInv ==
  ASSUME IInv, NEW o \in Ops, Swallow(o)
  PROVE  IInv'
<1>1. /\ op[o] \in OpStates /\ op[o].pc = "clean" /\ op[o].kind = "sync"
      /\ rows' = rows /\ points' = points /\ scored' = scored
      /\ sources' = sources /\ indexed' = indexed
      /\ sources' \subseteq Sources /\ indexed' \subseteq Sources
      /\ replaced' = replaced
      /\ op[o].gone \subseteq op[o].dropped /\ op[o].gone \cap scored = {}
  BY DEF Swallow, db, IInv, TypeOK, DeletesInOrder
<1>2. CASE ~Cleaned(o)
  <2> DEFINE n == [op[o] EXCEPT !.pc = "ready"]
  <2>1. /\ n \in OpStates /\ n.pc = "ready" /\ n.kind = op[o].kind
        /\ n.view = op[o].view /\ n.dropped = op[o].dropped
        /\ n.gone = op[o].gone /\ n.new = op[o].new
    BY <1>1 DEF OpStates
  <2>2. op' = [op EXCEPT ![o] = n]
    BY <1>2 DEF Swallow, IInv, TypeOK
  <2> HIDE DEF n
  <2> QED
    BY <1>1, <2>1, <2>2, QuietStep
<1>3. CASE Cleaned(o)
  <2> DEFINE chunks == [op : {o}, source : op[o].cur]
             n == [op[o] EXCEPT !.pc = "ready", !.new = @ \cup chunks]
  <2>1. op' = [op EXCEPT ![o] = n]
    BY <1>3 DEF Swallow, IInv, TypeOK
  <2>2. chunks \subseteq Chunks
    BY <1>1 DEF OpStates, Chunks
  <2>3. chunks = [op : {o}, source : op[o].cur] /\ op[o].kind \in Indexing
    BY <1>1 DEF Indexing
  <2> HIDE DEF chunks
  <2>4. /\ n \in OpStates /\ n.pc = "ready" /\ n.kind = op[o].kind
        /\ n.view = op[o].view /\ n.dropped = op[o].dropped
        /\ n.gone = op[o].gone /\ n.new = op[o].new \cup chunks
    BY <1>1, <2>2 DEF OpStates
  <2> HIDE DEF n
  <2> QED
    BY <1>1, <1>3, <2>1, <2>3, <2>4, StoreStep
<1> QED
  BY <1>2, <1>3

\* The rows that go had lost their points, and those that come are the only
\* ones of their source that the operation could see.
LEMMA CommitIInv ==
  ASSUME IInv, NEW o \in Ops, Commit(o)
  PROVE  IInv'
<1>1. /\ op[o] \in OpStates /\ op[o].pc \in {"ready", "commit"}
      /\ sources' = sources /\ points' = points /\ scored' = scored
      /\ rows' = (rows \ op[o].gone) \cup op[o].new
      /\ indexed' \subseteq Sources /\ replaced' = replaced
  BY DEF Commit, IInv, TypeOK, OpStates
<1>2. PICK n \in OpStates :
        /\ op' = [op EXCEPT ![o] = n]
        /\ n.pc = (IF op[o].kind = "delete" THEN "delete" ELSE "over")
        /\ n.kind = op[o].kind /\ n.view = op[o].view
        /\ n.dropped = op[o].dropped /\ n.gone = {} /\ n.new = {}
  <2>1. CASE op[o].kind = "delete"
    <3>1. op' = Ended(o, "delete")
      BY <2>1 DEF Commit
    <3> QED
      BY <2>1, <3>1, EndedRecord DEF IInv
  <2>2. CASE op[o].kind # "delete"
    <3>1. op' = Ended(o, "over")
      BY <2>2 DEF Commit
    <3> QED
      BY <2>2, <3>1, EndedRecord DEF IInv
  <2> QED
    BY <2>1, <2>2
<1>3. /\ op' \in [Ops -> OpStates] /\ op'[o] = n
      /\ \A p \in Ops : p # o => op'[p] = op[p]
  BY <1>2, OneOpMoves DEF IInv
<1>4. \A p \in Ops : op'[p].view = op[p].view /\ op'[p].kind = op[p].kind
                       /\ op'[p].dropped = op[p].dropped
  BY <1>2, <1>3
<1>5. \A c \in op[o].new :
        /\ c \in Chunks /\ c.op = o /\ n.pc = "over"
        /\ \A d \in op[o].view : d.source = c.source => d \in op[o].gone
  BY <1>1, <1>2 DEF IInv, NewOwned, OpStates, Indexing
<1>6. \A c : c \in rows \/ (\E p \in Ops : c \in op[p].view) => c.op # o
  BY <1>1 DEF IInv, CommittedIsOver
<1>7. \A c \in points : c.op = o => c \in op[o].new
  BY <1>1 DEF IInv, PointsOwned
<1>8. /\ op[o].gone \subseteq op[o].dropped
      /\ op[o].gone \cap points = {} /\ op[o].gone \cap scored = {}
  BY DEF IInv, DeletesInOrder
<1>9. TypeOK'
  BY <1>1, <1>3, <1>5 DEF IInv, TypeOK
<1>10. PointsExplained'
  <2> SUFFICES ASSUME NEW c \in points, c \notin rows'
               PROVE  /\ c.op \in Ops
                      /\ UnderWay(c.op)' \/ op'[c.op].pc = "failed"
    BY <1>1 DEF PointsExplained
  <2>1. c \notin rows /\ c.op # o
    BY <1>1, <1>7, <1>8
  <2> QED
    BY <2>1, <1>3 DEF IInv, PointsExplained, UnderWay
<1>11. TwiceOnlyByOverlap'
  <2> SUFFICES ASSUME NEW c \in rows', NEW d \in rows',
                      c.source = d.source, c # d, d.op \in Ops,
                      c \in op[d.op].view
               PROVE  FALSE
    BY <1>4 DEF TwiceOnlyByOverlap
  <2>1. c \in rows /\ c \notin op[o].new
    BY <1>1, <1>5, <1>6
  <2>2. CASE d \in op[o].new
    BY <2>1, <2>2, <1>1, <1>5
  <2>3. CASE d \in rows
    BY <2>1, <2>3 DEF IInv, TwiceOnlyByOverlap
  <2> QED
    BY <2>2, <2>3, <1>1
<1>12. CommittedIsOver'
  <2> SUFFICES ASSUME NEW c, c \in rows' \/ \E p \in Ops : c \in op'[p].view,
                      c.op \in Ops
               PROVE  op'[c.op].pc = "over"
    BY DEF CommittedIsOver
  <2>1. CASE c \in op[o].new
    BY <2>1, <1>3, <1>5
  <2>2. CASE c \in rows \/ \E p \in Ops : c \in op[p].view
    <3>1. op[c.op].pc = "over" /\ c.op # o
      BY <2>2, <1>6 DEF IInv, CommittedIsOver
    <3> QED
      BY <3>1, <1>3
  <2> QED
    BY <2>1, <2>2, <1>1, <1>4
<1>13. PointsOwned'
  <2> SUFFICES ASSUME NEW c \in points, c.op \in Ops
               PROVE  \/ op'[c.op].pc \in {"over", "failed"}
                      \/ UnderWay(c.op)' /\ c \in op'[c.op].new
    BY <1>1 DEF PointsOwned
  <2>1. CASE c.op = o
    BY <2>1, <1>3, <1>5, <1>7
  <2>2. CASE c.op # o
    BY <2>2, <1>3 DEF IInv, PointsOwned, UnderWay
  <2> QED
    BY <2>1, <2>2
<1>14. NewOwned'
  BY <1>2, <1>3 DEF IInv, NewOwned
<1>15. DeletesInOrder' /\ ScoresKeepChunks'
  BY <1>1, <1>2, <1>3, <1>8 DEF IInv, DeletesInOrder, ScoresKeepChunks
<1> QED
  BY <1>9, <1>10, <1>11, <1>12, <1>13, <1>14, <1>15 DEF IInv

LEMMA PurgedOneIInv ==
  ASSUME IInv, NEW o \in Ops, PurgedOne(o)
  PROVE  IInv'
<1> DEFINE n == [op[o] EXCEPT !.pc = "ready"]
<1>1. /\ op[o] \in OpStates /\ op[o].pc = "clean"
      /\ rows' = rows /\ points' = points /\ scored' = scored
      /\ sources' \subseteq Sources /\ indexed' \subseteq Sources
      /\ replaced' = replaced
      /\ op[o].gone \subseteq op[o].dropped /\ op[o].gone \cap scored = {}
  BY DEF PurgedOne, db, IInv, TypeOK, DeletesInOrder
<1>2. /\ n \in OpStates /\ n.pc = "ready" /\ n.kind = op[o].kind
      /\ n.view = op[o].view /\ n.dropped = op[o].dropped
      /\ n.gone = op[o].gone /\ n.new = op[o].new
  BY <1>1 DEF OpStates
<1>3. op' = [op EXCEPT ![o] = n]
  BY DEF PurgedOne, IInv, TypeOK
<1> HIDE DEF n
<1> QED
  BY <1>1, <1>2, <1>3, QuietStep

\* A cascade that goes through had deleted the points of all rows.
LEMMA CascadeIInv ==
  ASSUME IInv, NEW o \in Ops, Cascade(o)
  PROVE  IInv'
<1>1. /\ op[o].pc = "ready" /\ op[o].kind = "cascade"
      /\ points' = points /\ scored' = scored /\ replaced' = replaced
  BY DEF Cascade
<1>2. CASE ~(rows \subseteq op[o].gone)
  BY <1>1, <1>2, FailedIInv DEF Cascade
<1>3. CASE rows \subseteq op[o].gone
  <2>1. /\ rows' = {} /\ sources' = {} /\ indexed' = {}
        /\ op' = Ended(o, "over")
    BY <1>3 DEF Cascade
  <2>2. PICK n \in OpStates :
          /\ op' = [op EXCEPT ![o] = n]
          /\ n.pc = "over" /\ n.kind = op[o].kind /\ n.view = op[o].view
          /\ n.dropped = op[o].dropped /\ n.gone = {} /\ n.new = {}
    BY <2>1, EndedRecord DEF IInv
  <2>3. /\ op' \in [Ops -> OpStates] /\ op'[o] = n
        /\ \A p \in Ops : p # o => op'[p] = op[p]
    BY <2>2, OneOpMoves DEF IInv
  <2>4. points \cap rows = {} /\ scored = {} /\ op[o].new = {}
    BY <1>1, <1>3 DEF IInv, DeletesInOrder, ScoresKeepChunks, NewOwned, Indexing
  <2>5. \A c \in points : c.op # o
    BY <1>1, <2>4 DEF IInv, PointsOwned
  <2>6. TypeOK' /\ TwiceOnlyByOverlap'
    BY <1>1, <2>1, <2>3 DEF IInv, TypeOK, TwiceOnlyByOverlap
  <2>7. PointsExplained' /\ PointsOwned'
    BY <1>1, <2>1, <2>3, <2>4, <2>5
       DEF IInv, PointsExplained, PointsOwned, UnderWay
  <2>8. CommittedIsOver'
    <3> SUFFICES ASSUME NEW p \in Ops, NEW c \in op'[p].view, c.op \in Ops
                 PROVE  op'[c.op].pc = "over"
      BY <2>1 DEF CommittedIsOver
    <3>1. c \in op[p].view
      BY <2>2, <2>3
    <3>2. op[c.op].pc = "over"
      BY <3>1 DEF IInv, CommittedIsOver
    <3> QED
      BY <3>2, <2>2, <2>3
  <2>9. NewOwned'
    BY <2>2, <2>3 DEF IInv, NewOwned
  <2>10. DeletesInOrder' /\ ScoresKeepChunks'
    BY <1>1, <2>1, <2>2, <2>3, <2>4 DEF IInv, DeletesInOrder, ScoresKeepChunks
  <2> QED
    BY <2>6, <2>7, <2>8, <2>9, <2>10 DEF IInv
<1> QED
  BY <1>2, <1>3

LEMMA ReplaceKeysIInv ==
  ASSUME IInv, NEW keys \in SUBSET Keys, ReplaceKeys(keys)
  PROVE  IInv'
BY PastAssumption
   DEF ReplaceKeys, IInv, TypeOK, PointsExplained, TwiceOnlyByOverlap,
       CommittedIsOver, PointsOwned, NewOwned, DeletesInOrder,
       ScoresKeepChunks, UnderWay

LEMMA ScoreIInv ==
  ASSUME IInv, NEW c \in Chunks, Score(c)
  PROVE  IInv'
BY DEF Score, IInv, TypeOK, PointsExplained, TwiceOnlyByOverlap,
       CommittedIsOver, PointsOwned, NewOwned, DeletesInOrder,
       ScoresKeepChunks, UnderWay

LEMMA NextIInv ==
  ASSUME IInv, [Next]_vars
  PROVE  IInv'
<1>1. CASE UNCHANGED vars
  BY <1>1 DEF vars, IInv, TypeOK, PointsExplained, TwiceOnlyByOverlap,
              CommittedIsOver, PointsOwned, NewOwned, DeletesInOrder,
              ScoresKeepChunks, UnderWay
<1>2. CASE \E c \in Chunks : Score(c)
  BY <1>2, ScoreIInv
<1>3. ASSUME NEW o \in Ops, Step(o)
      PROVE  IInv'
  BY <1>3, BeginIInv, PickIInv, DropPointIInv, DropRowIInv, StoreIInv,
     MarkIndexedIInv, SwallowIInv, RemovedIInv, CommitIInv, DeleteSourceIInv,
     PurgedOneIInv, CascadeIInv, FailIInv DEF Step
<1>4. CASE \E keys \in SUBSET Keys : ReplaceKeys(keys)
  BY <1>4, ReplaceKeysIInv
<1> QED
  BY <1>1, <1>2, <1>3, <1>4 DEF Next

-----------------------------------------------------------------------------
(* The theorems about the index. *)

\* The invariant holds of every behaviour: any number of index, unindex, sync,
\* delete and rebuild operations interleave, fail half-way, and are scored.
THEOREM IndexInvariant == Spec => []IInv
BY InitIInv, NextIInv, PTL DEF Spec

\* A search finds a chunk that is not in the database only while the operation
\* that wrote its point (retriever.index_document, before the commit) is under
\* way, or after it failed.
THEOREM PointsAreExplained == Spec => []PointsExplained
<1>1. IInv => PointsExplained
  BY DEF IInv
<1> QED
  BY <1>1, IndexInvariant, PTL

\* unindex_by_source, run before every insert, leaves two documents of one
\* source only when the operations that wrote them overlapped.
THEOREM DoublesOnlyByOverlap == Spec => []TwiceOnlyByOverlap
<1>1. IInv => TwiceOnlyByOverlap
  BY DEF IInv
<1> QED
  BY <1>1, IndexInvariant, PTL

-----------------------------------------------------------------------------
(* Rows have points, and flags have rows. *)

LEMMA InitAgrees == Init => AgreeInv
<1> SUFFICES ASSUME Init PROVE AgreeInv
  OBVIOUS
<1>1. \A o \in Ops : /\ op[o].pc = "idle" /\ op[o].kind = "sync"
                     /\ op[o].view = {} /\ op[o].dropped = {}
                     /\ op[o].gone = {} /\ op[o].new = {} /\ op[o].mark = {}
  BY DEF Init
<1>2. RowsExplained /\ IndexedHasRow /\ ViewsNested
  BY <1>1 DEF Init, RowsExplained, IndexedHasRow, ViewsNested
<1>3. \A o \in Ops : InOrder(op[o]) /\ FlagsKnown(op[o])
  BY <1>1 DEF InOrder, NewHasPoint, DropsFinish, OneSource, Replaces, FlagsKnown,
              Indexing
<1> QED
  BY <1>2, <1>3 DEF AgreeInv

\* An operation under way takes a step that leaves rows and points, and sets
\* no flag.
LEMMA QuietAgrees ==
  ASSUME IInv, AgreeInv, NEW o \in Ops, NEW n \in OpStates,
         op' = [op EXCEPT ![o] = n],
         rows' = rows, points' = points, indexed' \subseteq indexed,
         UnderWay(o), n.pc # "idle",
         n.view = op[o].view, n.dropped = op[o].dropped, n.kind = op[o].kind,
         InOrder(n), FlagsKnown(n)
  PROVE  AgreeInv'
<1>1. /\ op'[o] = n /\ \A p \in Ops : p # o => op'[p] = op[p]
  BY OneOpMoves DEF IInv
<1>2. \A p \in Ops : /\ op'[p].view = op[p].view /\ op'[p].kind = op[p].kind
                     /\ op'[p].dropped = op[p].dropped
  BY <1>1
<1>3. \A s : GivenUp(s)' <=> GivenUp(s)
  BY <1>2 DEF GivenUp
<1>4. RowsExplained'
  <2> SUFFICES ASSUME NEW c \in rows, c \notin points
               PROVE  \/ c.op \in Ops /\ op'[c.op].kind = "sync"
                      \/ \E p \in Ops :
                           /\ c \in op'[p].dropped
                           /\ \/ UnderWay(p)' \/ op'[p].pc = "failed"
                              \/ op'[p].kind = "sync"
    BY DEF RowsExplained
  <2>1. CASE c.op \in Ops /\ op[c.op].kind = "sync"
    BY <1>2, <2>1
  <2>2. CASE \E p \in Ops :
               /\ c \in op[p].dropped
               /\ UnderWay(p) \/ op[p].pc = "failed" \/ op[p].kind = "sync"
    <3>1. PICK p \in Ops :
            /\ c \in op[p].dropped
            /\ UnderWay(p) \/ op[p].pc = "failed" \/ op[p].kind = "sync"
      BY <2>2
    <3>2. CASE p # o
      BY <1>1, <3>1, <3>2 DEF UnderWay
    <3>3. CASE p = o
      <4>1. n.kind = "sync" \/ n.pc # "over"
        BY <3>1, <3>3 DEF InOrder, DropsFinish
      <4> QED
        BY <1>1, <3>1, <3>3, <4>1 DEF UnderWay
    <3> QED
      BY <3>2, <3>3
  <2> QED
    BY <2>1, <2>2 DEF AgreeInv, RowsExplained
<1>5. IndexedHasRow' /\ ViewsNested'
  BY <1>2 DEF AgreeInv, IndexedHasRow, ViewsNested
<1>6. ASSUME NEW p \in Ops PROVE InOrder(op[p])' /\ FlagsKnown(op[p])'
  <2>1. InOrder(op'[p]) /\ FlagsKnown(op'[p])
    BY <1>1 DEF AgreeInv
  <2>2. InOrder(op[p])'
    BY <2>1 DEF InOrder, NewHasPoint, DropsFinish, OneSource, Replaces
  <2>3. FlagsKnown(op[p])'
    BY <1>3, <2>1 DEF FlagsKnown
  <2> QED
    BY <2>2, <2>3
<1> QED
  BY <1>4, <1>5, <1>6 DEF AgreeInv

\* A record that has ended is in order if nothing is left half-done.
LEMMA EndedAgrees ==
  ASSUME IInv, AgreeInv, NEW o \in Ops, NEW pc \in {"delete", "over", "failed"},
         op' = Ended(o, pc),
         rows' = rows, points' = points, indexed' \subseteq indexed,
         UnderWay(o), pc = "delete" => op[o].kind = "delete",
         op[o].kind = "sync" \/ pc = "failed" \/ op[o].dropped \cap rows = {}
  PROVE  AgreeInv'
<1> DEFINE n == [op[o] EXCEPT !.pc = pc, !.gone = {}, !.new = {},
                              !.mark = {}, !.flags = {}, !.todo = {},
                              !.cur = IF op[o].kind = "delete" /\ pc # "failed"
                                      THEN @ ELSE {}]
<1>1. op[o] \in OpStates
  BY DEF IInv, TypeOK
<1>2. n \in OpStates /\ n.pc = pc /\ n.kind = op[o].kind
      /\ n.view = op[o].view /\ n.dropped = op[o].dropped
      /\ n.gone = {} /\ n.new = {} /\ n.mark = {}
  BY <1>1 DEF OpStates
<1>3. op' = [op EXCEPT ![o] = n]
  BY DEF Ended, IInv, TypeOK
<1> HIDE DEF n
<1>4. InOrder(n) /\ FlagsKnown(n)
  BY <1>2 DEF InOrder, NewHasPoint, DropsFinish, OneSource, Replaces, FlagsKnown
<1> QED
  BY <1>2, <1>3, <1>4, QuietAgrees

LEMMA FailedAgrees ==
  ASSUME IInv, AgreeInv, NEW o \in Ops, Failed(o),
         rows' = rows, points' = points, indexed' = indexed, UnderWay(o)
  PROVE  AgreeInv'
BY EndedAgrees DEF Failed

LEMMA PickAgrees ==
  ASSUME IInv, AgreeInv, NEW o \in Ops, NEW s \in Sources, Pick(o, s)
  PROVE  AgreeInv'
<1> DEFINE n == [op[o] EXCEPT !.pc = "clean", !.cur = {s}, !.todo = @ \ {s}]
<1>1. /\ op[o] \in OpStates /\ op[o].pc = "ready" /\ UnderWay(o)
      /\ InOrder(op[o]) /\ FlagsKnown(op[o])
      /\ rows' = rows /\ points' = points /\ indexed' = indexed
  BY DEF IInv, AgreeInv, TypeOK, Pick, UnderWay, db
<1>2. /\ n \in OpStates /\ n.pc = "clean" /\ n.kind = op[o].kind
      /\ n.view = op[o].view /\ n.dropped = op[o].dropped
      /\ n.gone = op[o].gone /\ n.new = op[o].new /\ n.mark = op[o].mark
      /\ n.flags = op[o].flags /\ n.cur = {s}
  BY <1>1 DEF OpStates
<1>3. op' = [op EXCEPT ![o] = n]
  BY DEF Pick, IInv, TypeOK
<1> HIDE DEF n
<1>4. NewHasPoint(n) /\ DropsFinish(n) /\ OneSource(n)
  BY <1>1, <1>2 DEF InOrder, NewHasPoint, DropsFinish, OneSource
<1>5. Replaces(n) /\ FlagsKnown(n)
  BY <1>1, <1>2 DEF InOrder, Replaces, FlagsKnown
<1> QED
  BY <1>1, <1>2, <1>3, <1>4, <1>5, QuietAgrees DEF InOrder

LEMMA DropRowAgrees ==
  ASSUME IInv, AgreeInv, NEW o \in Ops, NEW c \in Chunks, DropRow(o, c)
  PROVE  AgreeInv'
<1>1. /\ op[o] \in OpStates /\ op[o].pc = "clean" /\ UnderWay(o)
      /\ InOrder(op[o]) /\ FlagsKnown(op[o])
      /\ rows' = rows /\ points' = points /\ indexed' = indexed
      /\ c.source \in op[o].cur
  BY DEF IInv, AgreeInv, TypeOK, DropRow, Waiting, Documents, UnderWay, db
<1>2. CASE op' = [op EXCEPT ![o].gone = @ \cup {c}]
  <2> DEFINE n == [op[o] EXCEPT !.gone = @ \cup {c}]
  <2>1. /\ n \in OpStates /\ n.pc = "clean" /\ n.kind = op[o].kind
        /\ n.view = op[o].view /\ n.dropped = op[o].dropped
        /\ n.gone = op[o].gone \cup {c} /\ n.new = op[o].new
        /\ n.mark = op[o].mark /\ n.flags = op[o].flags /\ n.cur = op[o].cur
    BY <1>1 DEF OpStates
  <2>2. op' = [op EXCEPT ![o] = n]
    BY <1>2 DEF IInv, TypeOK
  <2> HIDE DEF n
  <2>3. NewHasPoint(n) /\ DropsFinish(n) /\ OneSource(n)
    BY <1>1, <2>1 DEF InOrder, NewHasPoint, DropsFinish, OneSource
  <2>4. Replaces(n) /\ FlagsKnown(n)
    BY <1>1, <2>1 DEF InOrder, Replaces, FlagsKnown
  <2> QED
    BY <1>1, <2>1, <2>2, <2>3, <2>4, QuietAgrees DEF InOrder
<1>3. CASE op[o].kind = "sync" /\ op' = [op EXCEPT ![o].pc = "ready"]
  <2> DEFINE n == [op[o] EXCEPT !.pc = "ready"]
  <2>1. /\ n \in OpStates /\ n.pc = "ready" /\ n.kind = "sync"
        /\ n.view = op[o].view /\ n.dropped = op[o].dropped
        /\ n.gone = op[o].gone /\ n.new = op[o].new
        /\ n.mark = op[o].mark /\ n.flags = op[o].flags /\ n.cur = op[o].cur
    BY <1>1, <1>3 DEF OpStates
  <2>2. op' = [op EXCEPT ![o] = n]
    BY <1>3 DEF IInv, TypeOK
  <2> HIDE DEF n
  <2>3. NewHasPoint(n) /\ DropsFinish(n) /\ OneSource(n)
    BY <2>1 DEF NewHasPoint, DropsFinish, OneSource, Indexing
  <2>4. Replaces(n) /\ FlagsKnown(n)
    BY <1>1, <1>3, <2>1 DEF InOrder, Replaces, FlagsKnown
  <2> QED
    BY <1>1, <1>3, <2>1, <2>2, <2>3, <2>4, QuietAgrees DEF InOrder
<1>4. CASE Failed(o)
  BY <1>1, <1>4, FailedAgrees
<1> QED
  BY <1>2, <1>3, <1>4 DEF DropRow

\* The reset of a flag, which is committed later.
LEMMA ResetAgrees ==
  ASSUME IInv, AgreeInv, NEW o \in Ops,
         Update(o, op[o].cur \cap op[o].flags, "commit"),
         rows' = rows, points' = points, indexed' = indexed,
         op[o].pc = "clean", op[o].kind \in {"unindex_item", "delete"},
         op[o].dropped \subseteq op[o].gone
  PROVE  AgreeInv'
<1> DEFINE set == op[o].cur \cap op[o].flags
           n == [op[o] EXCEPT !.pc = "commit", !.mark = @ \cup set]
<1>1. /\ op[o] \in OpStates /\ UnderWay(o)
      /\ InOrder(op[o]) /\ FlagsKnown(op[o])
  BY DEF IInv, AgreeInv, TypeOK, UnderWay
<1>2. /\ n \in OpStates /\ n.pc = "commit" /\ n.kind = op[o].kind
      /\ n.view = op[o].view /\ n.dropped = op[o].dropped
      /\ n.gone = op[o].gone /\ n.new = op[o].new
      /\ n.mark = op[o].mark \cup (op[o].cur \cap op[o].flags)
      /\ n.flags = op[o].flags /\ n.cur = op[o].cur
  BY <1>1 DEF OpStates
<1>3. Failed(o) \/ op' = [op EXCEPT ![o] = n]
  BY DEF Update, IInv, TypeOK
<1> HIDE DEF n
<1>4. NewHasPoint(n) /\ DropsFinish(n) /\ OneSource(n)
  BY <1>1, <1>2 DEF InOrder, NewHasPoint, DropsFinish, OneSource
<1>5. Replaces(n) /\ FlagsKnown(n)
  BY <1>1, <1>2 DEF InOrder, Replaces, FlagsKnown, Indexing
<1> QED
  BY <1>1, <1>2, <1>3, <1>4, <1>5, QuietAgrees, FailedAgrees DEF InOrder

\* What an operation has cleaned it has deleted.
LEMMA CleanedDrops ==
  ASSUME IInv, AgreeInv, NEW o \in Ops, op[o].pc = "clean", Cleaned(o),
         op[o].kind # "sync"
  PROVE  op[o].dropped \subseteq op[o].gone
BY DEF IInv, DeletesInOrder, AgreeInv, InOrder, DropsFinish, Cleaned, Documents

LEMMA MarkIndexedAgrees ==
  ASSUME IInv, AgreeInv, NEW o \in Ops, MarkIndexed(o)
  PROVE  AgreeInv'
<1> DEFINE set == op[o].cur \ (op[o].flags \cup Keys)
<1>1. /\ op[o] \in OpStates /\ op[o].pc = "mark" /\ UnderWay(o)
      /\ InOrder(op[o]) /\ FlagsKnown(op[o])
      /\ Update(o, set, "ready")
      /\ rows' = rows /\ points' = points /\ indexed' = indexed
  BY DEF MarkIndexed, IInv, AgreeInv, TypeOK, db, UnderWay
<1>2. set \in SUBSET Sources /\ set \subseteq op[o].cur
  BY <1>1 DEF OpStates
<1>3. op[o].kind \in Indexing
  BY <1>1 DEF InOrder, OneSource, OpStates, Kinds, Indexing
<1> HIDE DEF set
<1>4. CASE Failed(o)
  BY <1>1, <1>4, FailedAgrees
<1>5. CASE ~Failed(o)
  <2> DEFINE n == [op[o] EXCEPT !.pc = "ready", !.mark = @ \cup set]
  <2>1. /\ n \in OpStates /\ n.pc = "ready" /\ n.kind = op[o].kind
        /\ n.view = op[o].view /\ n.dropped = op[o].dropped
        /\ n.gone = op[o].gone /\ n.new = op[o].new
        /\ n.mark = op[o].mark \cup set /\ n.flags = op[o].flags
        /\ n.cur = op[o].cur
    BY <1>1, <1>2 DEF OpStates
  <2>2. op' = [op EXCEPT ![o] = n]
    BY <1>1, <1>5 DEF Update, IInv, TypeOK
  <2> HIDE DEF n
  <2>3. NewHasPoint(n) /\ DropsFinish(n) /\ OneSource(n)
    BY <1>1, <1>3, <2>1 DEF InOrder, NewHasPoint, DropsFinish, OneSource
  <2>4. Replaces(n) /\ FlagsKnown(n)
    BY <1>1, <1>2, <1>3, <2>1 DEF InOrder, Replaces, FlagsKnown
  <2> QED
    BY <1>1, <2>1, <2>2, <2>3, <2>4, QuietAgrees DEF InOrder
<1> QED
  BY <1>4, <1>5

LEMMA RemovedAgrees ==
  ASSUME IInv, AgreeInv, NEW o \in Ops, Removed(o)
  PROVE  AgreeInv'
<1>1. /\ op[o] \in OpStates /\ op[o].pc = "clean" /\ UnderWay(o)
      /\ op[o].kind \in {"unindex_item", "delete"} /\ Cleaned(o)
      /\ rows' = rows /\ points' = points /\ indexed' = indexed
  BY DEF Removed, IInv, TypeOK, db, UnderWay
<1>2. op[o].dropped \subseteq op[o].gone
  BY <1>1, CleanedDrops
<1>3. CASE Documents(o) # {}
  <2>1. Update(o, op[o].cur \cap op[o].flags, "commit")
    BY <1>3 DEF Removed
  <2> QED
    BY <1>1, <1>2, <2>1, ResetAgrees
<1>4. CASE Documents(o) = {}
  <2>1. op[o].dropped = {}
    BY <1>1, <1>4 DEF IInv, DeletesInOrder, AgreeInv, InOrder, OneSource, Documents
  <2>2. \E pc \in {"delete", "over"} :
          op' = Ended(o, pc) /\ (pc = "delete" => op[o].kind = "delete")
    BY <1>4 DEF Removed
  <2> QED
    BY <1>1, <2>1, <2>2, EndedAgrees
<1> QED
  BY <1>3, <1>4

LEMMA DeleteSourceAgrees ==
  ASSUME IInv, AgreeInv, NEW o \in Ops, DeleteSource(o)
  PROVE  AgreeInv'
<1>1. /\ op' = Ended(o, "over") /\ UnderWay(o) /\ op[o].pc = "delete"
      /\ rows' = rows /\ points' = points /\ indexed' \subseteq indexed
  BY DEF DeleteSource, UnderWay
<1>2. op[o].kind = "sync" \/ op[o].dropped \cap rows = {}
  BY <1>1 DEF AgreeInv, InOrder, DropsFinish
<1> QED
  BY <1>1, <1>2, EndedAgrees

\* The steps that read rows, and those that change rows or points.
LEMMA BeginAgrees ==
  ASSUME IInv, AgreeInv, NEW o \in Ops, Begin(o)
  PROVE  AgreeInv'
<1>1. /\ op[o] \in OpStates /\ op[o].pc = "idle"
      /\ op[o].new = {} /\ op[o].gone = {} /\ op[o].dropped = {}
      /\ op[o].mark = {}
      /\ indexed' = indexed /\ rows' = rows /\ points' = points
  BY DEF Begin, db, IInv, TypeOK, NewOwned, DeletesInOrder, AgreeInv, InOrder,
         Replaces
<1>2. PICK n \in OpStates :
        /\ op' = [op EXCEPT ![o] = n]
        /\ n.pc = "ready" /\ n.view = rows /\ n.flags = indexed
        /\ n.new = {} /\ n.gone = {} /\ n.dropped = {} /\ n.mark = {}
  <2>1. PICK kind \in Kinds, s \in Sources :
          op' = [op EXCEPT ![o].pc = "ready", ![o].kind = kind,
                   ![o].todo = Todo(kind, s),
                   ![o].view = rows, ![o].flags = indexed]
    BY DEF Begin
  <2> DEFINE n == [op[o] EXCEPT !.pc = "ready", !.kind = kind,
                     !.todo = Todo(kind, s),
                     !.view = rows, !.flags = indexed]
  <2>2. op' = [op EXCEPT ![o] = n]
    BY <2>1 DEF IInv, TypeOK
  <2>3. rows \subseteq Chunks /\ sources \subseteq Sources
        /\ indexed \subseteq Sources /\ Todo(kind, s) \subseteq Sources
    BY DEF IInv, TypeOK, Todo, Chunks
  <2>4. /\ n \in OpStates /\ n.pc = "ready" /\ n.view = rows /\ n.flags = indexed
        /\ n.new = {} /\ n.gone = {} /\ n.dropped = {} /\ n.mark = {}
    BY <1>1, <2>3 DEF OpStates
  <2> HIDE DEF n
  <2> QED
    BY <2>2, <2>4
<1>3. /\ op'[o] = n /\ \A p \in Ops : p # o => op'[p] = op[p]
  BY <1>2, OneOpMoves DEF IInv
<1>4. \A c \in rows : c.op # o
  BY <1>1 DEF IInv, CommittedIsOver
<1>5. \A s : GivenUp(s) => GivenUp(s)'
  BY <1>1, <1>3 DEF GivenUp
<1>6. RowsExplained'
  BY <1>1, <1>3, <1>4 DEF AgreeInv, RowsExplained, UnderWay
<1>7. IndexedHasRow'
  BY <1>1, <1>3 DEF AgreeInv, IndexedHasRow
<1>8. ViewsNested'
  BY <1>1, <1>2, <1>3 DEF AgreeInv, ViewsNested
<1>9. ASSUME NEW p \in Ops PROVE InOrder(op[p])' /\ FlagsKnown(op[p])'
  <2>1. CASE p = o
    <3>1. InOrder(op[p])'
      BY <1>2, <1>3, <2>1 DEF InOrder, NewHasPoint, DropsFinish, OneSource, Replaces
    <3>2. FlagsKnown(op[p])'
      BY <1>1, <1>2, <1>3, <2>1 DEF FlagsKnown
    <3> QED
      BY <3>1, <3>2
  <2>2. CASE p # o
    <3>1. op'[p] = op[p] /\ InOrder(op[p]) /\ FlagsKnown(op[p])
      BY <1>3, <2>2 DEF AgreeInv
    <3>2. InOrder(op[p])'
      BY <1>1, <3>1 DEF InOrder, NewHasPoint, DropsFinish, OneSource, Replaces
    <3>3. FlagsKnown(op[p])'
      BY <1>1, <1>5, <3>1 DEF FlagsKnown
    <3> QED
      BY <3>2, <3>3
  <2> QED
    BY <2>1, <2>2
<1> QED
  BY <1>6, <1>7, <1>8, <1>9 DEF AgreeInv

LEMMA DropPointAgrees ==
  ASSUME IInv, AgreeInv, NEW o \in Ops, NEW c \in Chunks, DropPoint(o, c)
  PROVE  AgreeInv'
<1> DEFINE n == [op[o] EXCEPT !.dropped = @ \cup {c}]
<1>1. /\ op[o] \in OpStates /\ op[o].pc = "clean" /\ UnderWay(o)
      /\ indexed' = indexed /\ rows' = rows /\ points' = points \ {c}
      /\ c \in op[o].view /\ c.source \in op[o].cur
      /\ InOrder(op[o]) /\ FlagsKnown(op[o])
  BY DEF DropPoint, Documents, db, IInv, AgreeInv, TypeOK, UnderWay
<1>2. /\ n \in OpStates /\ n.pc = op[o].pc /\ n.kind = op[o].kind
      /\ n.view = op[o].view /\ n.dropped = op[o].dropped \cup {c}
      /\ n.gone = op[o].gone /\ n.new = op[o].new /\ n.mark = op[o].mark
      /\ n.flags = op[o].flags /\ n.cur = op[o].cur
  BY <1>1 DEF OpStates
<1>3. op' = [op EXCEPT ![o] = n]
  BY DEF DropPoint, IInv, TypeOK
<1> HIDE DEF n
<1>4. /\ op'[o] = n /\ \A p \in Ops : p # o => op'[p] = op[p]
  BY <1>2, <1>3, OneOpMoves DEF IInv
<1>5. \A p \in Ops : /\ op'[p].pc = op[p].pc /\ op'[p].view = op[p].view
                     /\ op'[p].kind = op[p].kind /\ op'[p].new = op[p].new
                     /\ op[p].dropped \subseteq op'[p].dropped
                     /\ op'[p].flags = op[p].flags
  BY <1>2, <1>4
<1>6. \A p \in Ops : c \notin op[p].new
  BY <1>1 DEF IInv, NewOwned, CommittedIsOver
<1>7. \A s : GivenUp(s) => GivenUp(s)'
  BY <1>5 DEF GivenUp
<1>8. RowsExplained'
  <2> SUFFICES ASSUME NEW d \in rows, d \notin points \/ d = c
               PROVE  \/ d.op \in Ops /\ op'[d.op].kind = "sync"
                      \/ \E p \in Ops :
                           /\ d \in op'[p].dropped
                           /\ \/ UnderWay(p)' \/ op'[p].pc = "failed"
                              \/ op'[p].kind = "sync"
    BY <1>1 DEF RowsExplained
  <2>1. CASE d = c
    BY <1>1, <1>2, <1>4, <2>1 DEF UnderWay
  <2>2. CASE d \notin points
    <3>1. \/ d.op \in Ops /\ op[d.op].kind = "sync"
          \/ \E p \in Ops :
               /\ d \in op[p].dropped
               /\ UnderWay(p) \/ op[p].pc = "failed" \/ op[p].kind = "sync"
      BY <2>2 DEF AgreeInv, RowsExplained
    <3> QED
      BY <3>1, <1>5 DEF UnderWay
  <2> QED
    BY <2>1, <2>2
<1>9. IndexedHasRow'
  BY <1>1, <1>5 DEF AgreeInv, IndexedHasRow
<1>10. ViewsNested'
  BY <1>1, <1>5 DEF AgreeInv, ViewsNested
<1>11. ASSUME NEW p \in Ops PROVE InOrder(op[p])' /\ FlagsKnown(op[p])'
  <2>1. InOrder(op[p]) /\ FlagsKnown(op[p])
    BY DEF AgreeInv
  <2>2. NewHasPoint(op[p])'
    BY <1>1, <1>5, <1>6, <2>1 DEF InOrder, NewHasPoint
  <2>3. CASE p = o
    <3>1. DropsFinish(op[p])' /\ OneSource(op[p])' /\ Replaces(op[p])'
      BY <1>1, <1>2, <1>4, <2>1, <2>3 DEF InOrder, DropsFinish, OneSource, Replaces
    <3> QED
      BY <1>1, <1>5, <1>7, <2>1, <2>2, <3>1 DEF InOrder, FlagsKnown
  <2>4. CASE p # o
    <3>1. DropsFinish(op[p])' /\ OneSource(op[p])' /\ Replaces(op[p])'
      BY <1>1, <1>4, <2>1, <2>4 DEF InOrder, DropsFinish, OneSource, Replaces
    <3> QED
      BY <1>1, <1>5, <1>7, <2>1, <2>2, <3>1 DEF InOrder, FlagsKnown
  <2> QED
    BY <2>3, <2>4
<1> QED
  BY <1>8, <1>9, <1>10, <1>11 DEF AgreeInv

\* A new chunk is inserted; only in a sync it can be without its point.
LEMMA StoreAgrees ==
  ASSUME IInv, AgreeInv, NEW o \in Ops, NEW n \in OpStates, NEW chunks,
         chunks = [op : {o}, source : op[o].cur],
         op[o].pc = "clean", op[o].kind \in Indexing, Cleaned(o),
         op' = [op EXCEPT ![o] = n],
         n.kind = op[o].kind, n.view = op[o].view, n.cur = op[o].cur,
         n.dropped = op[o].dropped, n.gone = op[o].gone,
         n.mark = op[o].mark, n.flags = op[o].flags,
         n.new = op[o].new \cup chunks,
         \/ n.pc = "mark" /\ points' = points \cup chunks
         \/ n.pc = "ready" /\ n.kind = "sync" /\ points' = points,
         indexed' = indexed, rows' = rows
  PROVE  AgreeInv'
<1>1. /\ op'[o] = n /\ \A p \in Ops : p # o => op'[p] = op[p]
  BY OneOpMoves DEF IInv
<1>2. /\ \A s \in op[o].cur : \E c \in chunks : c.source = s
      /\ InOrder(op[o]) /\ FlagsKnown(op[o]) /\ n.pc \in {"ready", "mark"}
      /\ points \subseteq points'
  <2>1. \A s \in op[o].cur : [op |-> o, source |-> s] \in chunks
    OBVIOUS
  <2> QED
    BY <2>1 DEF AgreeInv
<1>3. \A p \in Ops : /\ op'[p].view = op[p].view /\ op'[p].kind = op[p].kind
                     /\ op'[p].dropped = op[p].dropped
                     /\ UnderWay(p) => UnderWay(p)'
                     /\ op[p].pc = "failed" => op'[p].pc = "failed"
  BY <1>1, <1>2 DEF UnderWay
<1>4. \A s : GivenUp(s) => GivenUp(s)'
  BY <1>3 DEF GivenUp
<1>5. RowsExplained'
  <2> SUFFICES ASSUME NEW d \in rows, d \notin points
               PROVE  \/ d.op \in Ops /\ op'[d.op].kind = "sync"
                      \/ \E p \in Ops :
                           /\ d \in op'[p].dropped
                           /\ \/ UnderWay(p)' \/ op'[p].pc = "failed"
                              \/ op'[p].kind = "sync"
    BY <1>2 DEF RowsExplained
  <2>1. \/ d.op \in Ops /\ op[d.op].kind = "sync"
        \/ \E p \in Ops :
             /\ d \in op[p].dropped
             /\ UnderWay(p) \/ op[p].pc = "failed" \/ op[p].kind = "sync"
    BY DEF AgreeInv, RowsExplained
  <2> QED
    BY <2>1, <1>3
<1>6. IndexedHasRow' /\ ViewsNested'
  BY <1>3 DEF AgreeInv, IndexedHasRow, ViewsNested
<1>7. InOrder(op[o])'
  <2>1. NewHasPoint(op[o])'
    BY <1>1, <1>2 DEF InOrder, NewHasPoint
  <2>2. DropsFinish(op[o])'
    <3>1. op[o].kind # "sync" => op[o].dropped \subseteq op[o].gone
      BY CleanedDrops
    <3> QED
      BY <1>1, <1>2, <3>1 DEF DropsFinish
  <2>3. OneSource(op[o])'
    BY <1>1 DEF OneSource, Indexing
  <2>4. Replaces(op[o])'
    BY <1>1, <1>2 DEF InOrder, Replaces
  <2> QED
    BY <2>1, <2>2, <2>3, <2>4 DEF InOrder
<1>8. FlagsKnown(op[o])'
  BY <1>1, <1>2, <1>4 DEF FlagsKnown
<1>9. ASSUME NEW p \in Ops, p # o PROVE InOrder(op[p])' /\ FlagsKnown(op[p])'
  <2>1. op'[p] = op[p] /\ InOrder(op[p]) /\ FlagsKnown(op[p])
    BY <1>1, <1>9 DEF AgreeInv
  <2>2. InOrder(op[p])'
    BY <1>2, <2>1 DEF InOrder, NewHasPoint, DropsFinish, OneSource, Replaces
  <2>3. FlagsKnown(op[p])'
    BY <1>4, <2>1 DEF FlagsKnown
  <2> QED
    BY <2>2, <2>3
<1> QED
  BY <1>5, <1>6, <1>7, <1>8, <1>9 DEF AgreeInv

LEMMA StoredAgrees ==
  ASSUME IInv, AgreeInv, NEW o \in Ops, Store(o)
  PROVE  AgreeInv'
<1> DEFINE chunks == [op : {o}, source : op[o].cur]
           n == [op[o] EXCEPT !.pc = "mark", !.new = @ \cup chunks]
<1>1. /\ op[o] \in OpStates /\ op[o].pc = "clean"
      /\ op[o].kind \in Indexing /\ Cleaned(o)
      /\ points' = points \cup chunks /\ indexed' = indexed /\ rows' = rows
  BY DEF Store, db, IInv, TypeOK
<1>2. op' = [op EXCEPT ![o] = n]
  BY DEF Store, IInv, TypeOK
<1>3. chunks \subseteq Chunks /\ chunks = [op : {o}, source : op[o].cur]
  BY <1>1 DEF OpStates, Chunks
<1> HIDE DEF chunks
<1>4. /\ n \in OpStates /\ n.pc = "mark" /\ n.kind = op[o].kind
      /\ n.view = op[o].view /\ n.dropped = op[o].dropped /\ n.cur = op[o].cur
      /\ n.gone = op[o].gone /\ n.new = op[o].new \cup chunks
      /\ n.mark = op[o].mark /\ n.flags = op[o].flags
  BY <1>1, <1>3 DEF OpStates
<1> HIDE DEF n
<1> QED
  BY <1>1, <1>2, <1>3, <1>4, StoreAgrees

LEMMA SwallowAgrees ==
  ASSUME IInv, AgreeInv, NEW o \in Ops, Swallow(o)
  PROVE  AgreeInv'
<1>1. /\ op[o] \in OpStates /\ op[o].pc = "clean" /\ op[o].kind = "sync"
      /\ rows' = rows /\ points' = points /\ indexed' = indexed
      /\ InOrder(op[o]) /\ FlagsKnown(op[o]) /\ UnderWay(o)
  BY DEF Swallow, db, IInv, AgreeInv, TypeOK, UnderWay
<1>2. CASE ~Cleaned(o)
  <2> DEFINE n == [op[o] EXCEPT !.pc = "ready"]
  <2>1. /\ n \in OpStates /\ n.pc = "ready" /\ n.kind = "sync"
        /\ n.view = op[o].view /\ n.dropped = op[o].dropped
        /\ n.gone = op[o].gone /\ n.new = op[o].new
        /\ n.mark = op[o].mark /\ n.flags = op[o].flags
    BY <1>1 DEF OpStates
  <2>2. op' = [op EXCEPT ![o] = n]
    BY <1>2 DEF Swallow, IInv, TypeOK
  <2> HIDE DEF n
  <2>3. NewHasPoint(n) /\ DropsFinish(n) /\ OneSource(n)
    BY <2>1 DEF NewHasPoint, DropsFinish, OneSource, Indexing
  <2>4. Replaces(n) /\ FlagsKnown(n)
    BY <1>1, <2>1 DEF InOrder, Replaces, FlagsKnown
  <2> QED
    BY <1>1, <2>1, <2>2, <2>3, <2>4, QuietAgrees DEF InOrder
<1>3. CASE Cleaned(o)
  <2> DEFINE chunks == [op : {o}, source : op[o].cur]
             n == [op[o] EXCEPT !.pc = "ready", !.new = @ \cup chunks]
  <2>1. op' = [op EXCEPT ![o] = n]
    BY <1>3 DEF Swallow, IInv, TypeOK
  <2>2. chunks \subseteq Chunks
    BY <1>1 DEF OpStates, Chunks
  <2>3. chunks = [op : {o}, source : op[o].cur] /\ op[o].kind \in Indexing
    BY <1>1 DEF Indexing
  <2> HIDE DEF chunks
  <2>4. /\ n \in OpStates /\ n.pc = "ready" /\ n.kind = op[o].kind
        /\ n.view = op[o].view /\ n.dropped = op[o].dropped /\ n.cur = op[o].cur
        /\ n.gone = op[o].gone /\ n.new = op[o].new \cup chunks
        /\ n.mark = op[o].mark /\ n.flags = op[o].flags
    BY <1>1, <2>2 DEF OpStates
  <2> HIDE DEF n
  <2> QED
    BY <1>1, <1>3, <2>1, <2>3, <2>4, StoreAgrees
<1> QED
  BY <1>2, <1>3

\* Only an operation on one source commits what it has removed.
LEMMA CommitKind ==
  ASSUME IInv, AgreeInv, NEW o \in Ops, Commit(o), op[o].kind \notin Indexing
  PROVE  op[o].kind \in {"unindex_item", "delete"} /\ op[o].pc = "commit"
<1>1. op[o] \in OpStates /\ OneSource(op[o])
  BY DEF IInv, TypeOK, AgreeInv, InOrder
<1>2. op[o].pc = "commit"
  BY DEF Commit
<1> QED
  BY <1>1, <1>2 DEF OneSource, OpStates, Kinds, Indexing

\* Where a source loses the rows that somebody's snapshot does not show, it keeps
\* one, or its flag goes too.
LEMMA CommitKeepsRow ==
  ASSUME IInv, AgreeInv, NEW o \in Ops, Commit(o), NEW p \in Ops,
         NEW s \in indexed', NEW c \in rows \ op[p].view, c.source = s
  PROVE  GivenUp(s) \/ \E d \in rows' \ op[p].view : d.source = s
<1>1. /\ op[o].pc \in {"ready", "commit"} /\ InOrder(op[o]) /\ FlagsKnown(op[o])
      /\ rows' = (rows \ op[o].gone) \cup op[o].new
      /\ op[o].kind \notin Indexing => indexed' = indexed \ op[o].mark
  BY DEF Commit, AgreeInv
<1>2. op[o].gone \subseteq op[o].dropped /\ op[o].dropped \subseteq op[o].view
  BY DEF IInv, DeletesInOrder
<1>3. \A d \in op[o].new : d \notin op[p].view
  BY <1>1 DEF IInv, NewOwned, CommittedIsOver
<1>4. CASE c \notin op[o].gone
  BY <1>1, <1>4
<1>5. CASE c \in op[o].gone /\ op[o].kind = "sync"
  BY <1>2, <1>5 DEF GivenUp
<1>6. CASE c \in op[o].gone /\ op[o].kind \in Indexing /\ op[o].kind # "sync"
  <2>1. \E d \in op[o].new : d.source = s
    BY <1>1, <1>6 DEF InOrder, Replaces
  <2> QED
    BY <1>1, <1>3, <2>1
<1>7. CASE c \in op[o].gone /\ op[o].kind \notin Indexing
  <2>1. op[o].pc = "commit" /\ s \in op[o].cur /\ op[o].mark = op[o].cur \cap op[o].flags
    BY <1>1, <1>2, <1>7, CommitKind DEF InOrder, OneSource
  <2>2. s \in indexed \ op[o].flags
    BY <1>1, <1>7, <2>1
  <2>3. GivenUp(s) \/ \E d \in rows \ op[o].view : d.source = s
    BY <2>1, <2>2, <1>1 DEF FlagsKnown
  <2>4. op[p].view \cap rows \subseteq op[o].view
    BY <1>2, <1>7 DEF AgreeInv, ViewsNested
  <2> QED
    BY <1>1, <1>2, <2>3, <2>4
<1> QED
  BY <1>4, <1>5, <1>6, <1>7

LEMMA CommitAgrees ==
  ASSUME IInv, AgreeInv, NEW o \in Ops, Commit(o)
  PROVE  AgreeInv'
<1>1. /\ op[o] \in OpStates /\ op[o].pc \in {"ready", "commit"} /\ UnderWay(o)
      /\ points' = points
      /\ rows' = (rows \ op[o].gone) \cup op[o].new
      /\ indexed' = IF op[o].kind \in Indexing THEN indexed \cup op[o].mark
                                               ELSE indexed \ op[o].mark
      /\ InOrder(op[o]) /\ FlagsKnown(op[o])
  BY DEF Commit, IInv, TypeOK, AgreeInv, UnderWay
<1>2. PICK n \in OpStates :
        /\ op' = [op EXCEPT ![o] = n]
        /\ n.pc \in {"delete", "over"} /\ n.kind = op[o].kind
        /\ n.pc = "delete" => n.kind = "delete"
        /\ n.view = op[o].view /\ n.dropped = op[o].dropped
        /\ n.gone = {} /\ n.new = {} /\ n.mark = {}
  <2>1. PICK pc \in {"delete", "over"} :
          op' = Ended(o, pc) /\ (pc = "delete" => op[o].kind = "delete")
    BY DEF Commit
  <2> DEFINE n == [op[o] EXCEPT !.pc = pc, !.gone = {}, !.new = {},
                                !.mark = {}, !.flags = {}, !.todo = {},
                                !.cur = IF op[o].kind = "delete" /\ pc # "failed"
                                        THEN @ ELSE {}]
  <2>2. n \in OpStates /\ n.pc = pc /\ n.kind = op[o].kind
        /\ n.view = op[o].view /\ n.dropped = op[o].dropped
        /\ n.gone = {} /\ n.new = {} /\ n.mark = {}
    BY <1>1 DEF OpStates
  <2>3. op' = [op EXCEPT ![o] = n]
    BY <2>1 DEF Ended, IInv, TypeOK
  <2> HIDE DEF n
  <2> QED
    BY <2>1, <2>2, <2>3
<1>3. /\ op'[o] = n /\ \A p \in Ops : p # o => op'[p] = op[p]
  BY <1>2, OneOpMoves DEF IInv
<1>4. \A p \in Ops : op'[p].view = op[p].view /\ op'[p].kind = op[p].kind
                       /\ op'[p].dropped = op[p].dropped
  BY <1>2, <1>3
<1>5. \A s : GivenUp(s) <=> GivenUp(s)'
  BY <1>4 DEF GivenUp
<1>6. \A c \in op[o].new : c.op = o /\ \A p \in Ops : c \notin op[p].view
  BY <1>1 DEF IInv, NewOwned, CommittedIsOver
<1>7. /\ op[o].gone \subseteq op[o].dropped
      /\ \A p \in Ops : op[p].dropped \subseteq op[p].view
  BY DEF IInv, DeletesInOrder
<1>8. op[o].kind # "sync" => op[o].dropped \cap rows' = {}
  BY <1>1, <1>6, <1>7 DEF InOrder, DropsFinish
<1>9. RowsExplained'
  <2> SUFFICES ASSUME NEW c \in rows', c \notin points
               PROVE  \/ c.op \in Ops /\ op'[c.op].kind = "sync"
                      \/ \E p \in Ops :
                           /\ c \in op'[p].dropped
                           /\ \/ UnderWay(p)' \/ op'[p].pc = "failed"
                              \/ op'[p].kind = "sync"
    BY <1>1 DEF RowsExplained
  <2>1. CASE c \in op[o].new
    BY <1>1, <1>4, <1>6, <2>1 DEF InOrder, NewHasPoint
  <2>2. CASE c \in rows /\ c.op \in Ops /\ op[c.op].kind = "sync"
    BY <1>4, <2>2
  <2>3. CASE c \in rows /\ \E p \in Ops :
               /\ c \in op[p].dropped
               /\ UnderWay(p) \/ op[p].pc = "failed" \/ op[p].kind = "sync"
    <3>1. PICK p \in Ops :
            /\ c \in op[p].dropped
            /\ UnderWay(p) \/ op[p].pc = "failed" \/ op[p].kind = "sync"
      BY <2>3
    <3>2. CASE p # o
      BY <1>3, <3>1, <3>2 DEF UnderWay
    <3>3. CASE p = o
      BY <1>4, <1>8, <3>1, <3>3
    <3> QED
      BY <3>2, <3>3
  <2> QED
    BY <1>1, <2>1, <2>2, <2>3 DEF AgreeInv, RowsExplained
<1>10. IndexedHasRow'
  <2> SUFFICES ASSUME NEW s \in indexed'
               PROVE  GivenUp(s) \/ \E c \in rows' : c.source = s
    BY <1>5 DEF IndexedHasRow, GivenUp
  <2>1. CASE op[o].kind \in Indexing /\ s \in op[o].mark
    BY <1>1, <2>1 DEF InOrder, Replaces
  <2>2. CASE s \in indexed
    <3>1. GivenUp(s) \/ \E c \in rows : c.source = s
      BY <2>2 DEF AgreeInv, IndexedHasRow, GivenUp
    <3>2. ASSUME NEW c \in rows, c.source = s, c \in op[o].gone
          PROVE  GivenUp(s) \/ \E d \in rows' : d.source = s
      <4>1. CASE op[o].kind = "sync"
        BY <1>7, <3>2, <4>1 DEF GivenUp
      <4>2. CASE op[o].kind \in Indexing /\ op[o].kind # "sync"
        BY <1>1, <3>2, <4>2 DEF InOrder, Replaces
      <4>3. CASE op[o].kind \notin Indexing
        <5>1. op[o].pc = "commit" /\ s \in op[o].cur
              /\ op[o].mark = op[o].cur \cap op[o].flags
          BY <1>1, <1>7, <3>2, <4>3, CommitKind DEF InOrder, OneSource
        <5>2. s \in indexed \ op[o].flags
          BY <1>1, <4>3, <5>1
        <5>3. GivenUp(s) \/ \E d \in rows \ op[o].view : d.source = s
          BY <1>1, <5>1, <5>2 DEF FlagsKnown
        <5> QED
          BY <1>1, <1>7, <5>3
      <4> QED
        BY <4>1, <4>2, <4>3
    <3> QED
      BY <1>1, <3>1, <3>2
  <2> QED
    BY <1>1, <2>1, <2>2
<1>11. ViewsNested'
  <2>1. \A p \in Ops : op[p].view \cap rows' \subseteq op[p].view \cap rows
    BY <1>1, <1>6
  <2> QED
    BY <1>4, <2>1 DEF AgreeInv, ViewsNested
<1>12. InOrder(op[o])' /\ FlagsKnown(op[o])'
  BY <1>2, <1>3, <1>8 DEF InOrder, NewHasPoint, DropsFinish, OneSource, Replaces,
                          FlagsKnown
<1>13. ASSUME NEW p \in Ops, p # o PROVE InOrder(op[p])' /\ FlagsKnown(op[p])'
  <2>1. op'[p] = op[p] /\ InOrder(op[p]) /\ FlagsKnown(op[p])
    BY <1>3, <1>13 DEF AgreeInv
  <2>2. op[p].dropped \cap rows' \subseteq op[p].dropped \cap rows
    BY <1>1, <1>6, <1>7
  <2>3. InOrder(op[p])'
    BY <1>1, <2>1, <2>2 DEF InOrder, NewHasPoint, DropsFinish, OneSource, Replaces
  <2>4. FlagsKnown(op[p])'
    <3> SUFFICES ASSUME op[p].pc \in {"ready", "clean", "mark", "commit"},
                        NEW s \in indexed', s \notin op[p].flags
                 PROVE  GivenUp(s) \/ \E c \in rows' \ op[p].view : c.source = s
      BY <1>5, <2>1 DEF FlagsKnown
    <3>1. CASE op[o].kind \in Indexing /\ s \in op[o].mark
      BY <1>1, <1>6, <3>1 DEF InOrder, Replaces
    <3>2. CASE s \in indexed
      <4>1. GivenUp(s) \/ \E c \in rows \ op[p].view : c.source = s
        BY <2>1, <3>2 DEF FlagsKnown
      <4> QED
        BY <4>1, CommitKeepsRow
    <3> QED
      BY <1>1, <3>1, <3>2
  <2> QED
    BY <2>3, <2>4
<1> QED
  BY <1>9, <1>10, <1>11, <1>12, <1>13 DEF AgreeInv

LEMMA PurgedOneAgrees ==
  ASSUME IInv, AgreeInv, NEW o \in Ops, PurgedOne(o)
  PROVE  AgreeInv'
<1> DEFINE n == [op[o] EXCEPT !.pc = "ready"]
<1>1. /\ op[o] \in OpStates /\ op[o].pc = "clean" /\ UnderWay(o)
      /\ op[o].kind = "cascade" /\ Cleaned(o)
      /\ InOrder(op[o]) /\ FlagsKnown(op[o])
      /\ rows' = rows /\ points' = points /\ indexed' = indexed
  BY DEF PurgedOne, IInv, AgreeInv, TypeOK, UnderWay, db
<1>2. op[o].dropped \subseteq op[o].gone
  BY <1>1, CleanedDrops
<1>3. /\ n \in OpStates /\ n.pc = "ready" /\ n.kind = "cascade"
      /\ n.view = op[o].view /\ n.dropped = op[o].dropped
      /\ n.gone = op[o].gone /\ n.new = op[o].new
      /\ n.mark = op[o].mark /\ n.flags = op[o].flags
  BY <1>1 DEF OpStates
<1>4. op' = [op EXCEPT ![o] = n]
  BY DEF PurgedOne, IInv, TypeOK
<1> HIDE DEF n
<1>5. NewHasPoint(n) /\ DropsFinish(n) /\ OneSource(n)
  BY <1>1, <1>2, <1>3 DEF InOrder, NewHasPoint, DropsFinish, OneSource
<1>6. Replaces(n) /\ FlagsKnown(n)
  BY <1>1, <1>3 DEF InOrder, Replaces, FlagsKnown, Indexing
<1> QED
  BY <1>1, <1>3, <1>4, <1>5, <1>6, QuietAgrees DEF InOrder

\* After a cascade no row and no flag is left to disagree.
LEMMA CascadeAgrees ==
  ASSUME IInv, AgreeInv, NEW o \in Ops, Cascade(o)
  PROVE  AgreeInv'
<1>1. /\ op[o].pc = "ready" /\ op[o].kind = "cascade" /\ points' = points
      /\ UnderWay(o) /\ \A p \in Ops \ {o} : op[p].new = {} /\ op[p].mark = {}
  BY DEF Cascade, UnderWay
<1>2. CASE ~(rows \subseteq op[o].gone)
  <2>1. /\ Failed(o) /\ rows' = rows /\ indexed' = indexed
    BY <1>2 DEF Cascade
  <2> QED
    BY <1>1, <2>1, FailedAgrees
<1>3. CASE rows \subseteq op[o].gone
  <2>1. rows' = {} /\ indexed' = {} /\ op' = Ended(o, "over")
    BY <1>3 DEF Cascade
  <2>2. RowsExplained' /\ IndexedHasRow' /\ ViewsNested'
    BY <2>1 DEF RowsExplained, IndexedHasRow, ViewsNested
  <2>3. ASSUME NEW p \in Ops PROVE InOrder(op[p])'
    <3>1. CASE p = o
      <4>1. /\ op'[o].pc = "over" /\ op'[o].kind = "cascade" /\ op'[o].new = {}
            /\ op'[o].mark = {}
        BY <1>1, <2>1 DEF Ended, IInv, TypeOK, OpStates
      <4> QED
        BY <2>1, <3>1, <4>1
           DEF InOrder, NewHasPoint, DropsFinish, OneSource, Replaces, Indexing
    <3>2. CASE p # o
      <4>1. op'[p] = op[p] /\ InOrder(op[p])
        BY <2>1, <3>2 DEF Ended, IInv, TypeOK, AgreeInv
      <4> QED
        BY <1>1, <2>1, <4>1
           DEF InOrder, NewHasPoint, DropsFinish, OneSource, Replaces
    <3> QED
      BY <3>1, <3>2
  <2>4. \A p \in Ops : FlagsKnown(op[p])'
    BY <2>1 DEF FlagsKnown
  <2> QED
    BY <2>2, <2>3, <2>4 DEF AgreeInv
<1> QED
  BY <1>2, <1>3

LEMMA NextAgrees ==
  ASSUME IInv, AgreeInv, [Next]_vars
  PROVE  AgreeInv'
<1>1. CASE UNCHANGED <<indexed, rows, points, op>>
  <2>1. \A s : GivenUp(s)' <=> GivenUp(s)
    BY <1>1 DEF GivenUp
  <2>2. RowsExplained' /\ IndexedHasRow' /\ ViewsNested'
    BY <1>1 DEF AgreeInv, RowsExplained, IndexedHasRow, ViewsNested, UnderWay
  <2>3. ASSUME NEW p \in Ops PROVE InOrder(op[p])' /\ FlagsKnown(op[p])'
    <3>1. op'[p] = op[p] /\ InOrder(op[p]) /\ FlagsKnown(op[p])
      BY <1>1 DEF AgreeInv
    <3> QED
      BY <1>1, <2>1, <3>1 DEF InOrder, NewHasPoint, DropsFinish, OneSource,
                              Replaces, FlagsKnown
  <2> QED
    BY <2>2, <2>3 DEF AgreeInv
<1>2. CASE UNCHANGED vars
  BY <1>1, <1>2 DEF vars
<1>3. CASE \E c \in Chunks : Score(c)
  BY <1>1, <1>3 DEF Score
<1>4. ASSUME NEW o \in Ops, Step(o)
      PROVE  AgreeInv'
  <2>1. CASE Fail(o)
    <3>1. /\ Failed(o) /\ UnderWay(o)
          /\ rows' = rows /\ points' = points /\ indexed' = indexed
      BY <2>1 DEF Fail, UnderWay, db
    <3> QED
      BY <3>1, FailedAgrees
  <2> QED
    BY <1>4, <2>1, BeginAgrees, PickAgrees, DropPointAgrees, DropRowAgrees,
       StoredAgrees, MarkIndexedAgrees, SwallowAgrees, RemovedAgrees, CommitAgrees,
       DeleteSourceAgrees, PurgedOneAgrees, CascadeAgrees DEF Step
<1>5. CASE \E keys \in SUBSET Keys : ReplaceKeys(keys)
  BY <1>1, <1>5 DEF ReplaceKeys
<1> QED
  BY <1>2, <1>3, <1>4, <1>5 DEF Next

\* The second part of the invariant: rows, points and flags agree.
THEOREM IndexAgrees == Spec => []AgreeInv
<1>1. Init => IInv /\ AgreeInv
  BY InitIInv, InitAgrees
<1>2. IInv /\ AgreeInv /\ [Next]_vars => (IInv /\ AgreeInv)'
  BY NextIInv, NextAgrees
<1> QED
  BY <1>1, <1>2, PTL DEF Spec

\* A chunk in the database that no search finds is one whose unindex_by_source
\* is under way or failed, or one that index_tables_after_sync gave up.
THEOREM RowsAreExplained == Spec => []RowsExplained
<1>1. AgreeInv => RowsExplained
  BY DEF AgreeInv
<1> QED
  BY <1>1, IndexAgrees, PTL

\* A source that is shown as indexed has a document, unless a sync gave it up,
\* also when unindex_item loaded the flag before another operation set it.
THEOREM FlagsHaveRows == Spec => []IndexedHasRow
<1>1. AgreeInv => IndexedHasRow
  BY DEF AgreeInv
<1> QED
  BY <1>1, IndexAgrees, PTL

-----------------------------------------------------------------------------
(* Documents of sources that are gone. *)

LEMMA InitOrphans == Init => OrphanInv
<1> SUFFICES ASSUME Init PROVE OrphanInv
  OBVIOUS
<1>1. \A o \in Ops : op[o].pc = "idle" /\ op[o].view = {}
  BY DEF Init
<1>2. OrphansExplained /\ GoneExplained
  BY DEF Init, OrphansExplained, GoneExplained
<1>3. PurgedIsEmpty /\ \A o \in Ops : DeletesAll(op[o])
  BY <1>1 DEF PurgedIsEmpty, Purged, DeletesAll
<1> QED
  BY <1>2, <1>3 DEF OrphanInv

\* Operation o moves on, and what is inserted and deleted meanwhile is nobody's
\* business that has a source of his own deleted.
LEMMA MovesKeepOrphans ==
  ASSUME IInv, OrphanInv, NEW o \in Ops,
         op' \in [Ops -> OpStates],
         \A p \in Ops : p # o => op'[p] = op[p],
         op[o].pc # "over", op'[o].kind = "cascade" => op'[o].pc # "over",
         rows' \subseteq rows \cup op[o].new,
         sources' = sources, replaced' = replaced,
         op'[o].new # {} => op[o].new # {} \/ ~Purged,
         DeletesAll(op[o])'
  PROVE  OrphanInv'
<1>1. \A p \in Ops : /\ op[p].pc = "over" => op'[p] = op[p]
                     /\ op'[p].kind = "cascade" /\ op'[p].pc = "over"
                          => op'[p] = op[p]
  OBVIOUS
<1>2. Purged' <=> Purged
  BY <1>1 DEF Purged
<1>3. GoneExplained'
  BY <1>1, <1>2 DEF OrphanInv, GoneExplained
<1>4. PurgedIsEmpty'
  BY <1>2 DEF OrphanInv, PurgedIsEmpty
<1>5. \A c \in op[o].new : c.op = o /\ c \in Chunks /\ c.source \in Sources
  BY DEF IInv, NewOwned, TypeOK, OpStates, Chunks
<1>6. \A c \in op[o].new : \A p \in Ops : c \notin op[p].view
  BY <1>5 DEF IInv, CommittedIsOver
<1>7. OrphansExplained'
  <2> SUFFICES ASSUME NEW c \in rows', c.source \notin sources \cup replaced
               PROVE  \E p \in Ops : /\ op'[p].kind = "delete" /\ op'[p].pc = "over"
                                    /\ c.source \in op'[p].cur /\ c \notin op'[p].view
    BY DEF OrphansExplained
  <2>1. \E p \in Ops : /\ op[p].kind = "delete" /\ op[p].pc = "over"
                       /\ c.source \in op[p].cur /\ c \notin op[p].view
    <3>1. CASE c \in rows
      BY <3>1 DEF OrphanInv, OrphansExplained
    <3>2. CASE c \in op[o].new
      <4>1. ~Purged
        BY <3>2 DEF OrphanInv, PurgedIsEmpty
      <4> QED
        BY <1>5, <1>6, <3>2, <4>1 DEF OrphanInv, GoneExplained
    <3> QED
      BY <3>1, <3>2
  <2> QED
    BY <1>1, <2>1
<1>8. ASSUME NEW p \in Ops, p # o PROVE DeletesAll(op[p])'
  <2>1. op'[p] = op[p] /\ DeletesAll(op[p])
    BY <1>8 DEF OrphanInv
  <2> QED
    BY <1>6, <2>1 DEF DeletesAll
<1> QED
  BY <1>3, <1>4, <1>7, <1>8 DEF OrphanInv

\* The steps that leave rows and sources and end nothing but in failure.
LEMMA QuietOrphans ==
  ASSUME IInv, IInv', OrphanInv, NEW o \in Ops,
         \/ Begin(o) \/ Store(o) \/ MarkIndexed(o) \/ Swallow(o)
         \/ PurgedOne(o) \/ Fail(o)
         \/ \E s \in Sources : Pick(o, s)
         \/ \E c \in Chunks : DropPoint(o, c) \/ DropRow(o, c)
  PROVE  OrphanInv'
<1>1. op \in [Ops -> OpStates] /\ op' \in [Ops -> OpStates]
  BY DEF IInv, TypeOK
<1> DEFINE Quiet == /\ \A p \in Ops : p # o => op'[p] = op[p]
                    /\ op[o].pc # "over"
                    /\ op'[o].pc \notin {"commit", "delete", "over"}
                    /\ rows' = rows /\ sources' = sources
                    /\ replaced' = replaced
                    /\ op'[o].new # {} => op[o].new # {} \/ ~Purged
<1>2. ASSUME Failed(o), UNCHANGED <<db, points, replaced>>, op[o].pc # "over"
      PROVE  Quiet
  BY <1>1, <1>2 DEF Failed, Ended, db, OpStates
<1>3. ASSUME NEW set, Update(o, set, "ready"), op[o].pc # "over",
             UNCHANGED <<db, points, replaced>>
      PROVE  Quiet
  <2>1. CASE Failed(o)
    BY <1>2, <1>3, <2>1
  <2>2. CASE ~Failed(o)
    BY <1>1, <1>3, <2>2 DEF Update, db, OpStates
  <2> QED
    BY <2>1, <2>2
<1>4. ASSUME Begin(o) PROVE Quiet
  <2>1. PICK kind \in Kinds, s \in Sources :
          op' = [op EXCEPT ![o].pc = "ready", ![o].kind = kind,
                   ![o].todo = Todo(kind, s),
                   ![o].view = rows, ![o].flags = indexed]
    BY <1>4 DEF Begin
  <2>2. /\ \A p \in Ops : p # o => op'[p] = op[p]
        /\ op'[o].pc = "ready" /\ op'[o].new = op[o].new
    BY <1>1, <2>1 DEF OpStates
  <2> QED
    BY <1>4, <2>2 DEF Begin, db
<1>5. ASSUME Store(o) PROVE Quiet
  BY <1>1, <1>5 DEF Store, db, OpStates
<1>6. ASSUME MarkIndexed(o) PROVE Quiet
  <2>1. Update(o, op[o].cur \ (op[o].flags \cup Keys), "ready")
        /\ op[o].pc # "over" /\ UNCHANGED <<db, points, replaced>>
    BY <1>6 DEF MarkIndexed
  <2> QED
    BY <1>3, <2>1
<1>7. ASSUME Swallow(o) PROVE Quiet
  BY <1>1, <1>7 DEF Swallow, db, OpStates
<1>8. ASSUME PurgedOne(o) PROVE Quiet
  BY <1>1, <1>8 DEF PurgedOne, db, OpStates
<1>9. ASSUME Fail(o) PROVE Quiet
  <2>1. Failed(o) /\ UNCHANGED <<db, points, replaced>> /\ op[o].pc # "over"
    BY <1>9 DEF Fail
  <2> QED
    BY <1>2, <2>1
<1>10. ASSUME NEW s \in Sources, Pick(o, s) PROVE Quiet
  BY <1>1, <1>10 DEF Pick, db, OpStates
<1>11. ASSUME NEW c \in Chunks, DropPoint(o, c) PROVE Quiet
  BY <1>1, <1>11 DEF DropPoint, db, OpStates
<1>12. ASSUME NEW c \in Chunks, DropRow(o, c) PROVE Quiet
  <2>1. UNCHANGED <<db, points, replaced>> /\ op[o].pc = "clean"
    BY <1>12 DEF DropRow
  <2>2. CASE Failed(o)
    BY <1>2, <2>1, <2>2
  <2>3. CASE ~Failed(o)
    BY <1>1, <1>12, <2>1, <2>3 DEF DropRow, db, OpStates
  <2> QED
    BY <2>2, <2>3
<1>13. Quiet
  BY <1>4, <1>5, <1>6, <1>7, <1>8, <1>9, <1>10, <1>11, <1>12
<1>14. DeletesAll(op[o])'
  BY <1>13 DEF DeletesAll
<1> QED
  BY <1>1, <1>13, <1>14, MovesKeepOrphans

LEMMA RemovedOrphans ==
  ASSUME IInv, IInv', OrphanInv, NEW o \in Ops, Removed(o)
  PROVE  OrphanInv'
<1>1. op \in [Ops -> OpStates] /\ op' \in [Ops -> OpStates]
  BY DEF IInv, TypeOK
<1>2. /\ op[o].pc = "clean" /\ op[o].kind \in {"unindex_item", "delete"}
      /\ Cleaned(o)
      /\ rows' = rows /\ sources' = sources /\ replaced' = replaced
  BY DEF Removed, db
<1>3. /\ \A p \in Ops : p # o => op'[p] = op[p]
      /\ op'[o].kind = op[o].kind /\ op'[o].view = op[o].view
      /\ op'[o].new \subseteq op[o].new
      /\ \/ op'[o].pc = "failed"
         \/ /\ op'[o].pc = "commit" /\ op'[o].gone = op[o].gone
            /\ op'[o].cur = op[o].cur
         \/ /\ op'[o].pc \in {"delete", "over"} /\ Documents(o) = {}
            /\ op'[o].pc = "delete" => op[o].kind = "delete"
            /\ op'[o].cur \subseteq op[o].cur
  <2>1. CASE Failed(o)
    BY <1>1, <2>1 DEF Failed, Ended, OpStates
  <2>2. CASE Documents(o) # {} /\ ~Failed(o)
    <3>1. op' = [op EXCEPT ![o].pc = "commit",
                           ![o].mark = @ \cup (op[o].cur \cap op[o].flags)]
      BY <2>2 DEF Removed, Update
    <3> QED
      BY <1>1, <3>1 DEF OpStates
  <2>3. CASE Documents(o) = {}
    <3>1. PICK pc \in {"delete", "over"} :
            op' = Ended(o, pc) /\ (pc = "delete" => op[o].kind = "delete")
      BY <2>3 DEF Removed
    <3>2. /\ \A p \in Ops : p # o => op'[p] = op[p]
          /\ op'[o].kind = op[o].kind /\ op'[o].view = op[o].view
          /\ op'[o].new = {} /\ op'[o].pc = pc
          /\ op'[o].cur = IF op[o].kind = "delete" /\ pc # "failed"
                          THEN op[o].cur ELSE {}
      BY <1>1, <3>1 DEF Ended, OpStates
    <3> QED
      BY <2>3, <3>1, <3>2
  <2> QED
    BY <2>1, <2>2, <2>3
<1>4. DeletesAll(op[o])'
  BY <1>2, <1>3 DEF DeletesAll, Cleaned, Documents
<1> QED
  BY <1>1, <1>2, <1>3, <1>4, MovesKeepOrphans

LEMMA CommitOrphans ==
  ASSUME IInv, IInv', AgreeInv, OrphanInv, NEW o \in Ops, Commit(o)
  PROVE  OrphanInv'
<1>1. op \in [Ops -> OpStates] /\ op' \in [Ops -> OpStates]
  BY DEF IInv, TypeOK
<1>2. /\ op[o].pc \in {"ready", "commit"}
      /\ rows' = (rows \ op[o].gone) \cup op[o].new
      /\ sources' = sources /\ replaced' = replaced
  BY DEF Commit
<1>3. PICK pc \in {"delete", "over"} :
        op' = Ended(o, pc) /\ (pc = "delete" => op[o].kind = "delete")
  BY DEF Commit
<1>4. /\ \A p \in Ops : p # o => op'[p] = op[p]
      /\ op'[o].kind = op[o].kind /\ op'[o].view = op[o].view
      /\ op'[o].new = {} /\ op'[o].cur \subseteq op[o].cur
      /\ op'[o].pc = pc
  BY <1>1, <1>3 DEF Ended, OpStates
<1>5. op[o].kind # "cascade"
  BY CommitKind DEF Indexing
<1>6. DeletesAll(op[o])'
  <2> SUFFICES ASSUME op[o].kind = "delete", NEW c \in op[o].view,
                      c.source \in op[o].cur
               PROVE  c \notin rows'
    BY <1>3, <1>4 DEF DeletesAll
  <2>1. op[o].pc = "commit"
    BY CommitKind DEF Indexing
  <2>2. c \in op[o].gone
    BY <2>1 DEF OrphanInv, DeletesAll
  <2>3. op[o].new = {}
    BY DEF IInv, NewOwned, Indexing
  <2> QED
    BY <1>2, <2>2, <2>3
<1> QED
  BY <1>1, <1>2, <1>4, <1>5, <1>6, MovesKeepOrphans

\* The deletion of a source accounts for the documents that it leaves.
LEMMA DeleteSourceOrphans ==
  ASSUME IInv, AgreeInv, OrphanInv, NEW o \in Ops, DeleteSource(o)
  PROVE  OrphanInv'
<1>1. op \in [Ops -> OpStates] /\ op[o].kind = "delete"
  BY DEF IInv, TypeOK, OrphanInv, DeletesAll, DeleteSource
<1>2. /\ rows' = rows /\ sources' = sources \ op[o].cur
      /\ replaced' = replaced /\ op[o].pc = "delete"
  BY DEF DeleteSource
<1>3. /\ \A p \in Ops : p # o => op'[p] = op[p]
      /\ op'[o].kind = "delete" /\ op'[o].pc = "over"
      /\ op'[o].view = op[o].view /\ op'[o].cur = op[o].cur
      /\ op'[o].new = {}
  BY <1>1 DEF DeleteSource, Ended, OpStates
<1>4. \A c \in op[o].view : c.source \in op[o].cur => c \notin rows
  BY <1>1, <1>2 DEF OrphanInv, DeletesAll
<1>5. Purged' <=> Purged
  BY <1>1, <1>3 DEF Purged
<1>6. OrphansExplained'
  BY <1>2, <1>3, <1>4 DEF OrphanInv, OrphansExplained
<1>7. GoneExplained'
  BY <1>2, <1>3, <1>5 DEF OrphanInv, GoneExplained
<1>8. PurgedIsEmpty'
  BY <1>2, <1>3, <1>5 DEF OrphanInv, PurgedIsEmpty
<1>9. \A p \in Ops : DeletesAll(op[p])'
  BY <1>2, <1>3, <1>4 DEF OrphanInv, DeletesAll
<1> QED
  BY <1>6, <1>7, <1>8, <1>9 DEF OrphanInv

LEMMA CascadeOrphans ==
  ASSUME IInv, IInv', OrphanInv, NEW o \in Ops, Cascade(o)
  PROVE  OrphanInv'
<1>1. op \in [Ops -> OpStates] /\ op' \in [Ops -> OpStates]
  BY DEF IInv, TypeOK
<1>2. /\ op[o].pc = "ready" /\ op[o].kind = "cascade" /\ replaced' = replaced
      /\ \A p \in Ops \ {o} : op[p].new = {}
  BY DEF Cascade
<1>3. CASE ~(rows \subseteq op[o].gone)
  <2>1. op' = Ended(o, "failed") /\ rows' = rows /\ sources' = sources
    BY <1>3 DEF Cascade, Failed
  <2>2. /\ \A p \in Ops : p # o => op'[p] = op[p]
        /\ op'[o].pc = "failed" /\ op'[o].new = {}
    BY <1>1, <2>1 DEF Ended, OpStates
  <2>3. DeletesAll(op[o])'
    BY <2>2 DEF DeletesAll
  <2> QED
    BY <1>1, <1>2, <2>1, <2>2, <2>3, MovesKeepOrphans
<1>4. CASE rows \subseteq op[o].gone
  <2>1. rows' = {} /\ op' = Ended(o, "over")
    BY <1>4 DEF Cascade
  <2>2. /\ \A p \in Ops : p # o => op'[p] = op[p]
        /\ op'[o].pc = "over" /\ op'[o].kind = "cascade" /\ op'[o].new = {}
    BY <1>1, <1>2, <2>1 DEF Ended, OpStates
  <2>3. Purged'
    BY <2>2 DEF Purged
  <2>4. OrphansExplained' /\ GoneExplained' /\ PurgedIsEmpty'
    BY <1>2, <2>1, <2>2, <2>3
       DEF OrphansExplained, GoneExplained, PurgedIsEmpty
  <2>5. \A p \in Ops : DeletesAll(op[p])'
    BY <2>1, <2>2 DEF OrphanInv, DeletesAll
  <2> QED
    BY <2>4, <2>5 DEF OrphanInv
<1> QED
  BY <1>3, <1>4

LEMMA NextOrphans ==
  ASSUME IInv, IInv', AgreeInv, OrphanInv, [Next]_vars
  PROVE  OrphanInv'
<1>1. CASE UNCHANGED <<rows, op>> /\ sources \cup replaced \subseteq sources' \cup replaced'
  <2>1. Purged' <=> Purged
    BY <1>1 DEF Purged
  <2>2. OrphansExplained' /\ GoneExplained' /\ PurgedIsEmpty'
    BY <1>1, <2>1 DEF OrphanInv, OrphansExplained, GoneExplained, PurgedIsEmpty
  <2>3. \A p \in Ops : DeletesAll(op[p])'
    BY <1>1 DEF OrphanInv, DeletesAll
  <2> QED
    BY <2>2, <2>3 DEF OrphanInv
<1>2. CASE UNCHANGED vars
  BY <1>1, <1>2 DEF vars
<1>3. CASE \E c \in Chunks : Score(c)
  BY <1>1, <1>3 DEF Score
<1>4. CASE \E keys \in SUBSET Keys : ReplaceKeys(keys)
  <2>1. PICK keys \in SUBSET Keys : ReplaceKeys(keys)
    BY <1>4
  <2> QED
    BY <1>1, <2>1 DEF ReplaceKeys
<1>5. ASSUME NEW o \in Ops, Step(o)
      PROVE  OrphanInv'
  BY <1>5, QuietOrphans, RemovedOrphans, CommitOrphans, DeleteSourceOrphans,
     CascadeOrphans DEF Step
<1> QED
  BY <1>2, <1>3, <1>4, <1>5 DEF Next

\* delete_table, delete_fk and their like leave a document of what they delete
\* only if it was committed after they had begun; a cascade leaves none, and a
\* synchronisation of the metadata those of the foreign keys that it replaces.
THEOREM OrphansAreExplained == Spec => []OrphansExplained
<1>1. Init => IInv /\ AgreeInv /\ OrphanInv
  BY InitIInv, InitAgrees, InitOrphans
<1>2. IInv /\ AgreeInv /\ OrphanInv /\ [Next]_vars
        => (IInv /\ AgreeInv /\ OrphanInv)'
  BY NextIInv, NextAgrees, NextOrphans
<1>3. OrphanInv => OrphansExplained
  BY DEF OrphanInv
<1> QED
  BY <1>1, <1>2, <1>3, PTL DEF Spec

-----------------------------------------------------------------------------
(* The evaluation of the retrieval: the measure of a case. *)

\* A set of numbers that is not empty has a least element: the case that a run
\* takes next, the rank of the first relevant chunk.
LEMMA LeastElement ==
  ASSUME NEW S, S \subseteq Nat, S # {}
  PROVE  \E n \in S : \A m \in S : n <= m
<1> DEFINE F == { 0..n : n \in S }
<1>1. IsWellFoundedOn(StrictSubsetOrdering(Nat), FiniteSubsetsOf(Nat))
  BY FS_StrictSubsetOrderingWellFounded
<1>2. F \subseteq FiniteSubsetsOf(Nat) /\ F # {}
  <2>1. \A n \in S : 0..n \subseteq Nat /\ IsFiniteSet(0..n)
    BY FS_Interval
  <2> QED
    BY <2>1 DEF FiniteSubsetsOf
<1>3. PICK x \in F : \A y \in F : ~(<<y, x>> \in StrictSubsetOrdering(Nat))
  <2> HIDE DEF F
  <2> QED
    BY <1>1, <1>2, WFMin, Zenon
<1>4. PICK n \in S : x = 0..n
  OBVIOUS
<1>5. ASSUME NEW m \in S
      PROVE  n <= m
  <2>1. ~(<<0..m, 0..n>> \in StrictSubsetOrdering(Nat))
    BY <1>3, <1>4
  <2>2. 0..m \subseteq Nat /\ 0..n \subseteq Nat
    OBVIOUS
  <2>3. 0..m \subseteq 0..n => 0..m = 0..n
    BY <2>1, <2>2 DEF StrictSubsetOrdering
  <2>4. SUFFICES ASSUME m < n
                 PROVE  FALSE
    OBVIOUS
  <2>5. 0..m \subseteq 0..n /\ n \in 0..n /\ n \notin 0..m
    BY <2>4
  <2> QED
    BY <2>3, <2>5
<1> QED
  BY <1>5

\* A share n of d, counted in parts of Unit.
LEMMA Share ==
  ASSUME NEW n \in Nat, NEW d \in Nat, 1 <= d, n <= d
  PROVE  /\ (Unit * n) \div d \in 0..Unit
         /\ n = d => (Unit * n) \div d = Unit
         /\ (Unit * n) \div d = Unit => n = d
         /\ 1 <= n /\ d <= Unit => (Unit * n) \div d # 0
<1> DEFINE q == (Unit * n) \div d
           p == Unit * n
<1>0. Unit \in Nat /\ 1 <= Unit
  BY RagEvalAssumption
<1>1. p \in Nat
  BY <1>0
<1>2. q \in Nat /\ d * q <= p /\ p < d * q + d
  <2> HIDE DEF p
  <2>1. p \div d \in Nat /\ d * (p \div d) <= p /\ p < d * (p \div d) + d
    BY <1>1
  <2> QED
    BY <2>1 DEF p
<1>3. p <= Unit * d
  BY <1>0
<1>4. p <= d * Unit
  BY <1>0, <1>3
<1>5. q <= Unit
  BY <1>0, <1>1, <1>2, <1>4
<1>6. ASSUME n = d
      PROVE  q = Unit
  <2>1. p = d * Unit
    BY <1>0, <1>6
  <2> QED
    BY <1>0, <1>2, <1>5, <2>1
<1>7. ASSUME q = Unit
      PROVE  n = d
  <2>1. d * Unit <= Unit * n
    BY <1>0, <1>2, <1>7
  <2>2. Unit * d <= Unit * n
    BY <1>0, <2>1
  <2> QED
    BY <1>0, <2>2
<1>8. ASSUME 1 <= n, d <= Unit
      PROVE  q # 0
  <2>1. Unit <= p
    BY <1>0, <1>8
  <2>2. q = 0 => p < d
    BY <1>2
  <2> QED
    BY <1>0, <1>1, <1>8, <2>1, <2>2
<1> QED
  BY <1>0, <1>2, <1>5, <1>6, <1>7, <1>8

\* The reciprocal rank is a fraction of Unit, and it is none unless a chunk is
\* relevant.
LEMMA Rank ==
  ASSUME NEW case, NEW gold, NEW r \in Rankings
  PROVE  /\ Mrr(case, gold, r) \in 0..Unit
         /\ Mrr(case, gold, r) > 0 => \E n \in DOMAIN r : Relevant(case, gold, r, n)
<1> DEFINE ranks == { n \in DOMAIN r : Relevant(case, gold, r, n) }
<1>0. Unit \in Nat /\ 1 <= Unit /\ TopK \in Nat
  BY RagEvalAssumption
<1>1. DOMAIN r = 1..TopK
  BY DEF Rankings
<1>2. CASE ranks = {}
  BY <1>0, <1>2 DEF Mrr
<1>3. CASE ranks # {}
  <2>1. ranks \subseteq Nat
    BY <1>0, <1>1
  <2>2. \E n \in ranks : \A m \in ranks : n <= m
    BY <1>3, <2>1, LeastElement
  <2> DEFINE first == CHOOSE n \in ranks : \A m \in ranks : n <= m
  <2>3. first \in ranks
    BY <2>2
  <2>4. first \in Nat /\ 1 <= first
    BY <1>0, <1>1, <2>3
  <2>5. Mrr(case, gold, r) = Unit \div first
    BY <1>3 DEF Mrr
  <2> HIDE DEF first
  <2>6. Unit \div first \in 0..Unit
    <3> DEFINE q == Unit \div first
    <3>1. q \in Nat /\ first * q <= Unit
      BY <1>0, <2>4
    <3>2. q <= first * q
      BY <2>4, <3>1
    <3> QED
      BY <1>0, <2>4, <3>1, <3>2
  <2> QED
    BY <1>3, <2>5, <2>6
<1> QED
  BY <1>2, <1>3

\* What is known of the chunks that a run finds, by the places where they are.
LEMMA Found ==
  ASSUME NEW r \in Rankings, NEW n \in DOMAIN r, IsMap(collection, ChunkIds, Tables)
  PROVE  /\ r[n] = 0 => TableOf(r[n]) = "none"
         /\ r[n] # 0 => /\ r[n] \in DOMAIN collection
                        /\ TableOf(r[n]) = NameOf[collection[r[n]]]
         /\ TableOf(r[n]) \in Names => r[n] # 0
  BY RagEvalAssumption DEF Rankings, TableOf, IsMap

\* The share of the gold chunks that are hit.
LEMMA RecallOfGold ==
  ASSUME NEW case, NEW gold, NEW r, IsFiniteSet(gold), gold # {}
  PROVE  LET hits == Hits(case, gold, r) \cap gold
         IN /\ Recall(case, gold, r) \in 0..Unit
            /\ gold \subseteq hits => Recall(case, gold, r) = Unit
            /\ Recall(case, gold, r) = Unit => gold \subseteq hits
            /\ hits # {} /\ Cardinality(gold) <= Unit => Recall(case, gold, r) # 0
<1> DEFINE hits == Hits(case, gold, r) \cap gold
           n == Cardinality(hits)
           d == Cardinality(gold)
<1>1. /\ IsFiniteSet(hits) /\ n \in Nat /\ d \in Nat /\ n <= d
      /\ d = n => gold = hits
  <2>1. hits \in SUBSET gold
    OBVIOUS
  <2> HIDE DEF hits
  <2> QED
    BY <2>1, FS_Subset, FS_CardinalityType
<1>2. d # 0
  BY FS_EmptySet
<1>3. n = 0 <=> hits = {}
  <2> HIDE DEF hits
  <2> QED
    BY <1>1, FS_EmptySet
<1>4. Recall(case, gold, r) = (Unit * n) \div d
  BY DEF Recall
<1>5. gold \subseteq hits => n = d
  <2>1. gold \subseteq hits => gold = hits
    OBVIOUS
  <2> HIDE DEF hits
  <2> QED
    BY <2>1
<1> HIDE DEF hits, n, d
<1>6. 1 <= d /\ (hits # {} => 1 <= n)
  BY <1>1, <1>2, <1>3
<1>7. /\ (Unit * n) \div d \in 0..Unit
      /\ n = d => (Unit * n) \div d = Unit
      /\ (Unit * n) \div d = Unit => n = d
      /\ 1 <= n /\ d <= Unit => (Unit * n) \div d # 0
  BY <1>1, <1>6, Share
<1>8. n = d => gold \subseteq hits
  BY <1>1
<1>9. /\ Recall(case, gold, r) \in 0..Unit
      /\ gold \subseteq hits => Recall(case, gold, r) = Unit
      /\ Recall(case, gold, r) = Unit => gold \subseteq hits
      /\ hits # {} /\ d <= Unit => Recall(case, gold, r) # 0
  BY <1>4, <1>5, <1>6, <1>7, <1>8
<1> QED
  BY <1>9 DEF hits, d

\* Without gold chunks, the share of the expected tables that are found.
LEMMA RecallOfTables ==
  ASSUME NEW case \in CaseRows, NEW r, case.tables # {}
  PROVE  LET matched == { t \in case.tables :
                            \E n \in DOMAIN r : Weak(TableOf(r[n]), {t}) }
         IN /\ Recall(case, {}, r) \in 0..Unit
            /\ case.tables \subseteq matched => Recall(case, {}, r) = Unit
            /\ matched # {} => Recall(case, {}, r) # 0
<1> DEFINE matched == { t \in case.tables :
                          \E m \in DOMAIN r : Weak(TableOf(r[m]), {t}) }
           n == Cardinality(matched)
           d == Cardinality(case.tables)
<1>0. /\ IsFiniteSet(case.tables) /\ d \in Nat /\ d <= Unit /\ Unit \in Nat
  <2>1. IsFiniteSet(Names) /\ Cardinality(Names) <= Unit /\ Unit \in Nat
    BY RagEvalAssumption
  <2>2. case.tables \in SUBSET Names
    BY DEF CaseRows
  <2>3. IsFiniteSet(case.tables) /\ d <= Cardinality(Names)
    BY <2>1, <2>2, FS_Subset
  <2>4. d \in Nat /\ Cardinality(Names) \in Nat
    BY <2>1, <2>3, FS_CardinalityType
  <2> QED
    BY <2>1, <2>3, <2>4
<1>1. IsFiniteSet(matched) /\ n \in Nat /\ n <= d
  <2>1. matched \in SUBSET case.tables
    OBVIOUS
  <2> HIDE DEF matched
  <2> QED
    BY <1>0, <2>1, FS_Subset, FS_CardinalityType
<1>2. d # 0
  BY <1>0, FS_EmptySet
<1>3. n = 0 <=> matched = {}
  <2> HIDE DEF matched
  <2> QED
    BY <1>1, FS_EmptySet
<1>4. Recall(case, {}, r) = (Unit * n) \div d
  BY DEF Recall
<1>5. case.tables \subseteq matched => n = d
  <2>1. case.tables \subseteq matched => case.tables = matched
    OBVIOUS
  <2> HIDE DEF matched
  <2> QED
    BY <2>1
<1> HIDE DEF matched, n, d
<1>6. 1 <= d /\ (matched # {} => 1 <= n)
  BY <1>0, <1>1, <1>2, <1>3
<1>7. /\ (Unit * n) \div d \in 0..Unit
      /\ n = d => (Unit * n) \div d = Unit
      /\ 1 <= n /\ d <= Unit => (Unit * n) \div d # 0
  BY <1>0, <1>1, <1>6, Share
<1>8. /\ Recall(case, {}, r) \in 0..Unit
      /\ case.tables \subseteq matched => Recall(case, {}, r) = Unit
      /\ matched # {} => Recall(case, {}, r) # 0
  BY <1>0, <1>4, <1>5, <1>6, <1>7
<1> QED
  BY <1>8 DEF matched

\* The gold chunks of a case are finitely many, so that a share of them that is
\* not empty is not rounded to nothing.
LEMMA GoldCount ==
  ASSUME NEW case \in CaseRows, NEW v, IsMap(v, ChunkIds, Tables)
  PROVE  IsFiniteSet(Gold(case, v)) /\ Cardinality(Gold(case, v)) <= Unit
<1> DEFINE gold == Gold(case, v)
<1>1. gold \in SUBSET ChunkIds
  BY DEF CaseRows, Gold, IsMap
<1>2. MaxChunk \in Nat /\ MaxChunk <= Unit /\ Unit \in Nat
  BY RagEvalAssumption
<1>3. IsFiniteSet(ChunkIds) /\ Cardinality(ChunkIds) = MaxChunk
  <2>1. 1 \in Int /\ MaxChunk \in Int
    BY <1>2
  <2>2. /\ IsFiniteSet(1..MaxChunk)
        /\ Cardinality(1..MaxChunk) = IF 1 > MaxChunk THEN 0 ELSE MaxChunk - 1 + 1
    BY <2>1, FS_Interval
  <2> QED
    BY <1>2, <2>2 DEF ChunkIds
<1> HIDE DEF gold
<1>4. IsFiniteSet(gold) /\ Cardinality(gold) <= MaxChunk
  BY <1>1, <1>3, FS_Subset
<1>5. Cardinality(gold) \in Nat
  BY <1>4, FS_CardinalityType
<1> QED
  BY <1>2, <1>4, <1>5 DEF gold

\* The measures of a case are fractions of Unit, whatever is retrieved.
LEMMA MeasuresTyped ==
  ASSUME NEW case \in CaseRows, NEW v, IsMap(v, ChunkIds, Tables),
         NEW r \in Rankings, Mode(case) # "none"
  PROVE  /\ Recall(case, Gold(case, v), r) \in 0..Unit
         /\ Mrr(case, Gold(case, v), r) \in 0..Unit
<1>1. IsFiniteSet(Gold(case, v))
  BY GoldCount
<1>2. CASE Gold(case, v) # {}
  BY <1>1, <1>2, RecallOfGold, Rank
<1>3. CASE Gold(case, v) = {}
  <2>1. case.tables # {}
    BY <1>3 DEF Mode, Gold
  <2>2. Recall(case, {}, r) \in 0..Unit
    BY <2>1, RecallOfTables
  <2> QED
    BY <1>3, <2>2, Rank
<1> QED
  BY <1>2, <1>3

\* What a run measures of a case explains itself, in every state of the index in
\* which the snapshot of the run and the collection name the same table for the
\* chunks that both know.
LEMMA ItemMeasured ==
  ASSUME NEW i \in CaseIds, NEW case \in CaseRows, NEW v, NEW r \in Rankings,
         IsMap(v, ChunkIds, Tables), IsMap(collection, ChunkIds, Tables),
         \A n \in DOMAIN v \cap DOMAIN collection : v[n] = collection[n]
  PROVE  /\ AreItems({Item(i, case, v, r)})
         /\ Item(i, case, v, r).case = i
         /\ LET x == Item(i, case, v, r)
            IN ~x.skipped /\ Mode(x.of) = "table" => Explained(x)
<1> DEFINE x == Item(i, case, v, r)
           gold == Gold(case, v)
           tables == { TableOf(r[n]) : n \in DOMAIN r }
           found == { r[n] : n \in DOMAIN r } \ {0}
           present == { NameOf[v[n]] : n \in DOMAIN v }
           twice == \E m, n \in DOMAIN v : /\ m # n /\ NameOf[v[m]] = NameOf[v[n]]
                                           /\ NameOf[v[m]] \in case.tables
           recall == Recall(case, gold, r)
           mrr == Mrr(case, gold, r)
<1>0. Unit \in Nat /\ 1 <= Unit /\ "none" \notin Names
  BY RagEvalAssumption
<1>1. CASE Mode(case) = "none"
  <2>1. x = [case |-> i, of |-> case, skipped |-> TRUE, found |-> {}, tables |-> {},
             view |-> None, recall |-> 0, mrr |-> 0]
    BY <1>1 DEF Item
  <2> HIDE DEF x
  <2>2. x.skipped = TRUE /\ x.case = i /\ AreItems({x})
    BY <1>0, <2>1 DEF AreItems
  <2> QED
    BY <2>2 DEF x
<1>2. CASE Mode(case) # "none"
  <2>1. x = [case |-> i, of |-> case, skipped |-> FALSE, found |-> found,
             tables |-> tables, view |-> v, recall |-> recall, mrr |-> mrr]
    BY <1>2 DEF Item
  <2>2. recall \in 0..Unit /\ mrr \in 0..Unit
    BY <1>2, MeasuresTyped
  <2>6. ASSUME Mode(case) = "table"
        PROVE  /\ case.tables \subseteq tables /\ found \subseteq DOMAIN v /\ ~twice
                    => recall = Unit
               /\ mrr > 0 /\ recall = 0 /\ found \subseteq DOMAIN v
                    => \E t \in case.tables, u \in tables : <<t, u>> \in Prefixes
               /\ recall = Unit => case.tables \cap present \subseteq tables
    <3>1. case.tables # {} /\ case.tables \subseteq Names
      BY <2>6 DEF Mode, CaseRows
    <3>2. gold = { n \in DOMAIN v : NameOf[v[n]] \in case.tables }
      BY <2>6 DEF Gold
    <3>3. \A n \in DOMAIN r : Relevant(case, gold, r, n) <=> Weak(TableOf(r[n]), case.tables)
      BY <2>6 DEF Relevant
    <3>4. IsFiniteSet(gold) /\ Cardinality(gold) <= Unit
      BY GoldCount
    <3>5. \A n \in DOMAIN r : r[n] \in DOMAIN v /\ r[n] # 0 => TableOf(r[n]) = NameOf[v[r[n]]]
      BY Found
    <3>6. CASE gold = {}
      <4> DEFINE matched == { t \in case.tables :
                                \E n \in DOMAIN r : Weak(TableOf(r[n]), {t}) }
      <4>1. /\ case.tables \subseteq matched => recall = Unit
            /\ matched # {} => recall # 0
        BY <3>1, <3>6, RecallOfTables
      <4>2. case.tables \subseteq tables => case.tables \subseteq matched
        BY DEF Weak
      <4>3. ASSUME mrr > 0, recall = 0
            PROVE  \E t \in case.tables, u \in tables : <<t, u>> \in Prefixes
        <5>1. PICK n \in DOMAIN r : Weak(TableOf(r[n]), case.tables)
          BY <3>3, <4>3, Rank
        <5>2. TableOf(r[n]) \notin case.tables
          <6>1. matched = {}
            BY <4>1, <4>3
          <6> QED
            BY <6>1 DEF Weak
        <5> QED
          BY <5>1, <5>2 DEF Weak
      <4>4. case.tables \cap present = {}
        BY <3>2, <3>6
      <4> QED
        BY <4>1, <4>2, <4>3, <4>4
    <3>7. CASE gold # {}
      <4> DEFINE hits == Hits(case, gold, r) \cap gold
      <4>1. /\ gold \subseteq hits => recall = Unit
            /\ recall = Unit => gold \subseteq hits
            /\ hits # {} => recall # 0
        BY <3>4, <3>7, RecallOfGold
      <4>2. hits = { r[n] : n \in { m \in DOMAIN r : Weak(TableOf(r[m]), case.tables) } }
                     \cap gold
        BY <3>3 DEF Hits
      <4>3. ASSUME case.tables \subseteq tables, found \subseteq DOMAIN v, ~twice
            PROVE  gold \subseteq hits
        <5> SUFFICES ASSUME NEW g \in gold
                     PROVE  g \in hits
          OBVIOUS
        <5>1. g \in DOMAIN v /\ NameOf[v[g]] \in case.tables
          BY <3>2
        <5>2. PICK n \in DOMAIN r : TableOf(r[n]) = NameOf[v[g]]
          BY <4>3, <5>1
        <5>3. r[n] # 0 /\ r[n] \in DOMAIN v
          BY <3>1, <4>3, <5>1, <5>2, Found
        <5>4. r[n] = g
          BY <3>5, <4>3, <5>1, <5>2, <5>3
        <5>5. Weak(TableOf(r[n]), case.tables)
          BY <5>1, <5>2 DEF Weak
        <5> QED
          BY <4>2, <5>4, <5>5
      <4>4. ASSUME mrr > 0, recall = 0, found \subseteq DOMAIN v
            PROVE  \E t \in case.tables, u \in tables : <<t, u>> \in Prefixes
        <5>1. PICK n \in DOMAIN r : Weak(TableOf(r[n]), case.tables)
          BY <3>3, <4>4, Rank
        <5>2. ASSUME TableOf(r[n]) \in case.tables
              PROVE  FALSE
          <6>1. r[n] # 0 /\ r[n] \in DOMAIN v
            BY <3>1, <4>4, <5>2, Found
          <6>2. r[n] \in gold
            BY <3>2, <3>5, <5>2, <6>1
          <6>3. r[n] \in hits
            BY <4>2, <5>1, <6>2
          <6> QED
            BY <4>1, <4>4, <6>3
        <5> QED
          BY <5>1, <5>2 DEF Weak
      <4>5. ASSUME recall = Unit
            PROVE  case.tables \cap present \subseteq tables
        <5> SUFFICES ASSUME NEW g \in DOMAIN v, NameOf[v[g]] \in case.tables
                     PROVE  NameOf[v[g]] \in tables
          OBVIOUS
        <5>1. g \in gold
          BY <3>2
        <5>2. g \in hits
          BY <4>1, <4>5, <5>1
        <5>3. PICK n \in DOMAIN r : r[n] = g
          BY <4>2, <5>2
        <5>4. r[n] # 0
          BY <5>3, RagEvalAssumption DEF IsMap, ChunkIds
        <5>5. TableOf(r[n]) = NameOf[v[g]]
          BY <3>5, <5>3, <5>4
        <5> QED
          BY <5>5
      <4> QED
        BY <4>1, <4>3, <4>4, <4>5
    <3> QED
      BY <3>6, <3>7
  <2>7. Mode(case) = "table" => Explained(x)
    <3> HIDE DEF x, found, tables, recall, mrr
    <3>1. /\ x.of = case /\ x.tables = tables /\ x.found = found /\ x.view = v
          /\ x.recall = recall /\ x.mrr = mrr
      BY <2>1
    <3> QED
      BY <2>6, <3>1 DEF Explained
  <2>8. x.of = case /\ x.case = i /\ AreItems({x})
    <3> HIDE DEF x, found, tables, recall, mrr
    <3> QED
      BY <2>1, <2>2 DEF AreItems
  <2> HIDE DEF x
  <2> QED
    BY <2>7, <2>8 DEF x
<1> QED
  BY <1>1, <1>2

-----------------------------------------------------------------------------
(* What a step of one session leaves of the invariant. *)

\* The session o is in the state s.
Becomes(o, s) == session' = [p \in Sessions |-> IF p = o THEN s ELSE session[p]]

LEMMA OverBecomes ==
  ASSUME EvalTypes, NEW o \in Sessions, Over(o)
  PROVE  Becomes(o, Resting("over", session[o].before))
  BY DEF EvalTypes, Over, Becomes

LEMMA RestingIsSession ==
  ASSUME NEW pc, NEW before, pc # "unindex"
  PROVE  IsSession(Resting(pc, before))
<1>1. IsMap(None, CaseIds, CaseRows)
  BY DEF IsMap, None
<1> QED
  BY <1>1 DEF IsSession, Resting, AreItems

\* What a session is when it is over.
LEMMA OverIs ==
  ASSUME EvalTypes, NEW o \in Sessions, Over(o)
  PROVE  \E s : /\ Becomes(o, s) /\ IsSession(s) /\ s.pc = "over"
                /\ s.view = None /\ s.new = None /\ s.items = {}
                /\ s.before = session[o].before
<1> DEFINE s == Resting("over", session[o].before)
<1>1. Becomes(o, s) /\ IsSession(s)
  BY OverBecomes, RestingIsSession
<1>2. /\ s.pc = "over" /\ s.view = None /\ s.new = None /\ s.items = {}
      /\ s.before = session[o].before
  BY DEF Resting
<1> QED
  BY <1>1, <1>2

\* A step of a session that leaves the database alone keeps the types.
LEMMA TypesOfBecome ==
  ASSUME EvalTypes, NEW o \in Sessions, NEW s, Becomes(o, s), IsSession(s),
         cases' = cases, lastCase' = lastCase,
         lastChunk' = lastChunk \/ lastChunk' \in 0..MaxChunk,
         \A r \in runs' : r \in runs \/ r.items = session[o].items
  PROVE  EvalTypes'
<1>1. /\ session' = [p \in Sessions |-> session'[p]]
      /\ \A p \in Sessions : IsSession(session'[p])
  BY DEF EvalTypes, Becomes
<1>2. \A r \in runs' : AreItems(r.items)
  BY DEF EvalTypes, IsSession
<1>3. IsMap(cases', 1..lastCase', CaseRows)
  BY DEF EvalTypes
<1> QED
  BY <1>1, <1>2, <1>3 DEF EvalTypes

\* What sessions read and will commit, after a step of one.
LEMMA ViewsOfBecome ==
  ASSUME NEW o \in Sessions, NEW s, Becomes(o, s), NEW f \in Views'
  PROVE  f \in Views \cup {s.view, s.new}
<1>1. \A p \in Sessions : session'[p] = IF p = o THEN s ELSE session[p]
  BY DEF Becomes
<1>2. PICK p \in Sessions : f = session'[p].view \/ f = session'[p].new
  BY DEF Views
<1> QED
  BY <1>1, <1>2 DEF Views

\* The chunks of f, some of the first n, are those that table says.
Placed(table, n, f) == IsMap(f, 1..n, Tables) /\ \A i \in DOMAIN f : f[i] = table[i]

LEMMA PartPlaced ==
  ASSUME NEW table, NEW n, NEW f, Placed(table, n, f), NEW D, D \subseteq DOMAIN f
  PROVE  Placed(table, n, [i \in D |-> f[i]])
  BY DEF Placed, IsMap

LEMMA JoinedPlaced ==
  ASSUME NEW table, NEW n, NEW f, NEW g, Placed(table, n, f), Placed(table, n, g)
  PROVE  Placed(table, n, Joined(f, g))
  BY DEF Placed, IsMap, Joined

\* Chunks are those of their tables after a step if they are wherever it puts them.
LEMMA AgreeOfStep ==
  ASSUME NEW o \in Sessions, NEW s, Becomes(o, s),
         NEW table \in [1..lastChunk' -> Tables],
         \A f \in Places : Placed(table, lastChunk', f),
         \A f \in {chunkRows', collection', s.view, s.new} : Placed(table, lastChunk', f)
  PROVE  ChunksAgree'
<1>1. Places' \subseteq Places \cup {chunkRows', collection', s.view, s.new}
  <2>1. Views' \subseteq Views \cup {s.view, s.new}
    BY ViewsOfBecome
  <2> QED
    BY <2>1 DEF Places
<1>2. \A f \in Places' : /\ IsMap(f, 1..lastChunk', Tables)
                         /\ \A i \in DOMAIN f : f[i] = table[i]
  BY <1>1 DEF Placed
<1> QED
  BY <1>2 DEF ChunksAgree, IsMap

\* Where the chunks are, for a step to start from.
LEMMA AllPlaced ==
  ASSUME ChunksAgree
  PROVE  \E table \in [1..lastChunk -> Tables] :
           /\ \A f \in Places : Placed(table, lastChunk, f)
           /\ Placed(table, lastChunk, None)
<1>1. \A table : Placed(table, lastChunk, None)
  BY DEF Placed, IsMap, None
<1> QED
  BY <1>1 DEF ChunksAgree, Placed

\* A step that moves none.
LEMMA AgreeOfBecome ==
  ASSUME ChunksAgree, NEW o \in Sessions, NEW s, Becomes(o, s),
         chunkRows' = chunkRows, collection' = collection, lastChunk' = lastChunk,
         s.view \in Places \cup {None}, s.new \in Places \cup {None}
  PROVE  ChunksAgree'
<1>1. PICK table \in [1..lastChunk -> Tables] :
        \A f \in Places \cup {None} : Placed(table, lastChunk, f)
  BY AllPlaced
<1>2. chunkRows \in Places /\ collection \in Places
  BY DEF Places
<1> QED
  BY <1>1, <1>2, AgreeOfStep

\* A session that does not run has nothing to count.
LEMMA CountOfBecome ==
  ASSUME ItemsCount, NEW o \in Sessions, NEW s, Becomes(o, s), s.pc # "run", s.items = {}
  PROVE  ItemsCount'
<1>1. \A p \in Sessions : session'[p] = IF p = o THEN s ELSE session[p]
  BY DEF Becomes
<1> QED
  BY <1>1 DEF ItemsCount

\* Items that are committed are those of the session whose step it is.
LEMMA ExplainedOfBecome ==
  ASSUME ItemsExplained, NEW o \in Sessions, NEW s, Becomes(o, s),
         s.items \subseteq session[o].items,
         \A r \in runs' : r \in runs \/ r.items = session[o].items
  PROVE  ItemsExplained'
<1>1. \A p \in Sessions : session'[p] = IF p = o THEN s ELSE session[p]
  BY DEF Becomes
<1>2. (Items \cup UNION { session[p].items : p \in Sessions })'
        \subseteq Items \cup UNION { session[p].items : p \in Sessions }
  BY <1>1 DEF Items
<1>3. ASSUME NEW x \in (Items \cup UNION { session[p].items : p \in Sessions })',
             ~x.skipped, Mode(x.of) = "table"
      PROVE  Explained(x)
  BY <1>2, <1>3 DEF ItemsExplained
<1> QED
  BY <1>3 DEF ItemsExplained

LEMMA ReferOfBecome ==
  ASSUME ItemsRefer, NEW o \in Sessions, NEW s, Becomes(o, s),
         s.items \ s.unflushed \subseteq session[o].items \ session[o].unflushed,
         DOMAIN cases \subseteq DOMAIN cases', runs' = runs
  PROVE  ItemsRefer'
<1>1. \A p \in Sessions : session'[p] = IF p = o THEN s ELSE session[p]
  BY DEF Becomes
<1> QED
  BY <1>1 DEF ItemsRefer, Insertable

-----------------------------------------------------------------------------
(* The steps of the evaluation. *)

\* A row that may be committed: its items are those of the session, their cases
\* exist, and it counts them.
Counted(r) ==
  \/ r.status = "done" /\ Cardinality(r.items) = r.count
  \/ r.status = "failed" /\ Cardinality(r.items) < r.count

\* A session ends, and at most commits such rows.
LEMMA OverKeeps ==
  ASSUME EvalIInv, NEW o \in Sessions, Over(o), NEW new, runs' = runs \cup new,
         \A r \in new : r.items = session[o].items /\ Insertable(r.items) /\ Counted(r),
         chunkRows' = chunkRows, collection' = collection, cases' = cases,
         lastChunk' = lastChunk, lastCase' = lastCase
  PROVE  EvalIInv'
<1> USE DEF EvalIInv
<1>1. PICK s : /\ Becomes(o, s) /\ IsSession(s) /\ s.pc = "over"
               /\ s.view = None /\ s.new = None /\ s.items = {}
  BY OverIs
<1>2. EvalTypes'
  BY <1>1, TypesOfBecome
<1>3. ChunksAgree'
  BY <1>1, AgreeOfBecome
<1>4. ItemsCount'
  BY <1>1, CountOfBecome
<1>5. ItemsRefer'
  <2>1. \A p \in Sessions : session'[p] = IF p = o THEN s ELSE session[p]
    BY <1>1 DEF Becomes
  <2> QED
    BY <1>1, <2>1 DEF ItemsRefer, Insertable
<1>6. ItemsExplained'
  BY <1>1, ExplainedOfBecome
<1>7. RunsCount'
  BY DEF RunsCount, Counted
<1> QED
  BY <1>2, <1>3, <1>4, <1>5, <1>6, <1>7

\* The items of a run whose unflushed ones can be inserted all refer to cases
\* that exist.
LEMMA AllInsertable ==
  ASSUME ItemsRefer, NEW o \in Sessions, Insertable(session[o].unflushed)
  PROVE  Insertable(session[o].items)
  BY DEF ItemsRefer, Insertable

\* The ids a benchmark row can get are finitely many.
LEMMA CaseIdsFinite == IsFiniteSet(CaseIds)
<1>1. 1 \in Int /\ MaxCase \in Int
  BY RagEvalAssumption
<1>2. IsFiniteSet(1..MaxCase)
  BY <1>1, FS_Interval
<1> QED
  BY <1>2 DEF CaseIds

\* What a run counts is finite.
LEMMA RunFinite ==
  ASSUME EvalTypes, ItemsCount, NEW o \in Sessions, session[o].pc = "run"
  PROVE  /\ IsFiniteSet(session[o].items) /\ IsFiniteSet(session[o].todo)
         /\ Cardinality(session[o].items) \in Nat
         /\ Cardinality(session[o].todo) \in Nat
         /\ session[o].todo \subseteq CaseIds
         /\ Enabled(session[o].cases) \subseteq DOMAIN session[o].cases
<1>1. IsFiniteSet(CaseIds)
  BY CaseIdsFinite
<1>2. session[o].todo \in SUBSET CaseIds
  BY DEF EvalTypes, IsSession, IsMap, ItemsCount, Enabled
<1>3. IsFiniteSet(session[o].todo)
  BY <1>1, <1>2, FS_Subset
<1>4. IsFiniteSet(session[o].items)
  BY DEF ItemsCount
<1> QED
  BY <1>2, <1>3, <1>4, FS_CardinalityType DEF Enabled

LEMMA FinishKeeps ==
  ASSUME EvalIInv, NEW o \in Sessions, Finish(o)
  PROVE  EvalIInv'
<1> USE DEF EvalIInv
<1>1. Row(o, "done").items = session[o].items /\ Row(o, "done").status = "done"
  BY DEF Row
<1>2. Cardinality(session[o].items) = Row(o, "done").count
  <2>1. Cardinality(session[o].items) + Cardinality({}) =
          Cardinality(Enabled(session[o].cases))
    BY DEF Finish, ItemsCount
  <2>2. Cardinality({}) = 0 /\ Cardinality(session[o].items) \in Nat
    BY FS_EmptySet, RunFinite DEF Finish
  <2>3. Row(o, "done").count = Cardinality(Enabled(session[o].cases))
    BY DEF Row
  <2> QED
    BY <2>1, <2>2, <2>3
<1>3. Counted(Row(o, "done"))
  BY <1>1, <1>2 DEF Counted
<1>4. Insertable(session[o].unflushed) => Insertable(session[o].items)
  BY AllInsertable
<1> DEFINE new == IF Insertable(session[o].unflushed) THEN {Row(o, "done")} ELSE {}
<1>5. \A r \in new : r.items = session[o].items /\ Insertable(r.items) /\ Counted(r)
  BY <1>1, <1>3, <1>4
<1>6. /\ Over(o) /\ runs' = runs \cup new
      /\ chunkRows' = chunkRows /\ collection' = collection /\ cases' = cases
      /\ lastChunk' = lastChunk /\ lastCase' = lastCase
  BY DEF Finish
<1> HIDE DEF new, EvalIInv
<1> QED
  BY <1>5, <1>6, OverKeeps

LEMMA FailRunKeeps ==
  ASSUME EvalIInv, NEW o \in Sessions, FailRun(o)
  PROVE  EvalIInv'
<1> USE DEF EvalIInv
<1>1. Row(o, "failed").items = session[o].items /\ Row(o, "failed").status = "failed"
  BY DEF Row
<1>2. Cardinality(session[o].items) < Row(o, "failed").count
  <2>1. Cardinality(session[o].items) + Cardinality(session[o].todo) =
          Cardinality(Enabled(session[o].cases))
    BY DEF FailRun, ItemsCount
  <2>2. /\ Cardinality(session[o].items) \in Nat /\ Cardinality(session[o].todo) \in Nat
        /\ IsFiniteSet(session[o].todo)
    BY RunFinite DEF FailRun
  <2>3. Cardinality(session[o].todo) # 0
    BY <2>2, FS_EmptySet DEF FailRun
  <2>4. Row(o, "failed").count = Cardinality(Enabled(session[o].cases))
    BY DEF Row
  <2> QED
    BY <2>1, <2>2, <2>3, <2>4
<1>3. Counted(Row(o, "failed"))
  BY <1>1, <1>2 DEF Counted
<1>4. Insertable(session[o].unflushed) => Insertable(session[o].items)
  BY AllInsertable
<1> DEFINE new == IF Insertable(session[o].unflushed) THEN {Row(o, "failed")} ELSE {}
<1>5. \A r \in new : r.items = session[o].items /\ Insertable(r.items) /\ Counted(r)
  BY <1>1, <1>3, <1>4
<1>6. /\ Over(o) /\ runs' = runs \cup new
      /\ chunkRows' = chunkRows /\ collection' = collection /\ cases' = cases
      /\ lastChunk' = lastChunk /\ lastCase' = lastCase
  BY DEF FailRun
<1> HIDE DEF new, EvalIInv
<1> QED
  BY <1>5, <1>6, OverKeeps

LEMMA LoseKeeps ==
  ASSUME EvalIInv, NEW o \in Sessions, Lose(o)
  PROVE  EvalIInv'
<1> DEFINE new == {}
<1>1. /\ Over(o) /\ runs' = runs \cup new
      /\ chunkRows' = chunkRows /\ collection' = collection /\ cases' = cases
      /\ lastChunk' = lastChunk /\ lastCase' = lastCase
  BY DEF Lose
<1>2. \A r \in new : r.items = session[o].items /\ Insertable(r.items) /\ Counted(r)
  OBVIOUS
<1> HIDE DEF new
<1> QED
  BY <1>1, <1>2, OverKeeps

\* The snapshot of a session is what is committed.
LEMMA SnapshotTyped ==
  ASSUME EvalTypes
  PROVE  IsMap(cases, CaseIds, CaseRows)
<1>1. 1..lastCase \subseteq CaseIds
  BY RagEvalAssumption DEF EvalTypes, CaseIds
<1> QED
  BY <1>1 DEF EvalTypes, IsMap

LEMMA BeginRunKeeps ==
  ASSUME EvalIInv, NEW o \in Sessions, BeginRun(o)
  PROVE  EvalIInv'
<1> USE DEF EvalIInv
<1> DEFINE s == [pc |-> "run", view |-> chunkRows, cases |-> cases,
                 todo |-> Enabled(cases), items |-> session[o].items,
                 unflushed |-> session[o].unflushed, new |-> session[o].new,
                 before |-> session[o].before]
<1>1. Becomes(o, s)
  <2>1. /\ session[o] = [pc |-> session[o].pc, view |-> session[o].view,
                         cases |-> session[o].cases, todo |-> session[o].todo,
                         items |-> session[o].items, unflushed |-> session[o].unflushed,
                         new |-> session[o].new,
                         before |-> session[o].before]
        /\ session = [p \in Sessions |-> session[p]]
    BY DEF EvalTypes, IsSession
  <2>2. /\ session'[o] = s
        /\ \A p \in Sessions : p # o => session'[p] = session[p]
        /\ session' = [p \in Sessions |-> session'[p]]
    BY <2>1 DEF BeginRun
  <2> QED
    BY <2>2 DEF Becomes
<1>2. IsSession(s)
  <2>1. AreItems(session[o].items)
    BY DEF EvalTypes, IsSession
  <2> QED
    BY <2>1, SnapshotTyped DEF IsSession
<1>3. /\ s.view = chunkRows /\ s.new = session[o].new /\ s.items = {}
      /\ session[o].items = {} /\ s.pc = "run" /\ s.cases = cases
      /\ s.todo = Enabled(cases)
  BY DEF BeginRun, ItemsCount
<1>4. session[o].new \in Views
  BY DEF Views
<1>5. /\ chunkRows' = chunkRows /\ collection' = collection /\ cases' = cases
      /\ runs' = runs /\ lastChunk' = lastChunk /\ lastCase' = lastCase
  BY DEF BeginRun
<1> HIDE DEF s
<1>6. EvalTypes'
  BY <1>1, <1>2, <1>5, TypesOfBecome
<1>7. ChunksAgree'
  <2>1. s.view \in Places \cup {None} /\ s.new \in Places \cup {None}
    BY <1>3, <1>4 DEF Places
  <2> QED
    BY <1>1, <1>5, <2>1, AgreeOfBecome
<1>8. ItemsCount'
  <2>1. \A p \in Sessions : session'[p] = IF p = o THEN s ELSE session[p]
    BY <1>1 DEF Becomes
  <2>2. IsFiniteSet({}) /\ Cardinality({}) = 0
    BY FS_EmptySet
  <2>3. Cardinality(Enabled(cases)) \in Nat
    <3>1. IsFiniteSet(CaseIds)
      BY CaseIdsFinite
    <3>2. Enabled(cases) \in SUBSET CaseIds
      BY SnapshotTyped DEF Enabled, IsMap
    <3> QED
      BY <3>1, <3>2, FS_Subset, FS_CardinalityType
  <2>4. Cardinality(s.items) + Cardinality(s.todo) = Cardinality(Enabled(s.cases))
    BY <1>3, <2>2, <2>3
  <2>5. /\ s.todo \subseteq Enabled(s.cases) /\ IsFiniteSet(s.items)
        /\ \A x \in s.items : x.case \notin s.todo
    BY <1>3, <2>2
  <2> QED
    BY <1>3, <2>1, <2>4, <2>5 DEF ItemsCount
<1>9. ItemsRefer'
  BY <1>1, <1>3, <1>5, ReferOfBecome
<1>10. ItemsExplained'
  BY <1>1, <1>3, <1>5, ExplainedOfBecome
<1>11. RunsCount'
  BY <1>5 DEF RunsCount
<1> QED
  BY <1>6, <1>7, <1>8, <1>9, <1>10, <1>11

LEMMA BeginImportKeeps ==
  ASSUME EvalIInv, NEW o \in Sessions, BeginImport(o)
  PROVE  EvalIInv'
<1> USE DEF EvalIInv
<1> DEFINE s == [pc |-> "import", view |-> session[o].view, cases |-> cases,
                 todo |-> session[o].todo, items |-> session[o].items,
                 unflushed |-> session[o].unflushed, new |-> session[o].new,
                 before |-> { p \in Sessions : session[p].pc = "over" }]
<1>1. Becomes(o, s)
  <2>1. /\ session[o] = [pc |-> session[o].pc, view |-> session[o].view,
                         cases |-> session[o].cases, todo |-> session[o].todo,
                         items |-> session[o].items, unflushed |-> session[o].unflushed,
                         new |-> session[o].new,
                         before |-> session[o].before]
        /\ session = [p \in Sessions |-> session[p]]
    BY DEF EvalTypes, IsSession
  <2>2. /\ session'[o] = s
        /\ \A p \in Sessions : p # o => session'[p] = session[p]
        /\ session' = [p \in Sessions |-> session'[p]]
    BY <2>1 DEF BeginImport
  <2> QED
    BY <2>2 DEF Becomes
<1>2. IsSession(s)
  <2>1. AreItems(session[o].items)
    BY DEF EvalTypes, IsSession
  <2> QED
    BY <2>1, SnapshotTyped DEF IsSession
<1>3. /\ s.view = session[o].view /\ s.new = session[o].new /\ s.items = {}
      /\ session[o].items = {} /\ s.pc = "import"
  BY DEF BeginImport, ItemsCount
<1>4. session[o].new \in Views /\ session[o].view \in Views
  BY DEF Views
<1>5. /\ chunkRows' = chunkRows /\ collection' = collection /\ cases' = cases
      /\ runs' = runs /\ lastChunk' = lastChunk /\ lastCase' = lastCase
  BY DEF BeginImport
<1> HIDE DEF s
<1>6. EvalTypes'
  BY <1>1, <1>2, <1>5, TypesOfBecome
<1>7. ChunksAgree'
  <2>1. s.view \in Places \cup {None} /\ s.new \in Places \cup {None}
    BY <1>3, <1>4 DEF Places
  <2> QED
    BY <1>1, <1>5, <2>1, AgreeOfBecome
<1>8. ItemsCount'
  BY <1>1, <1>3, CountOfBecome
<1>9. ItemsRefer'
  BY <1>1, <1>3, <1>5, ReferOfBecome
<1>10. ItemsExplained'
  BY <1>1, <1>3, <1>5, ExplainedOfBecome
<1>11. RunsCount'
  BY <1>5 DEF RunsCount
<1> QED
  BY <1>6, <1>7, <1>8, <1>9, <1>10, <1>11

\* A run that evaluates its next case has an item more and a case less to do.
LEMMA EvaluateKeeps ==
  ASSUME EvalIInv, NEW o \in Sessions, Evaluate(o)
  PROVE  EvalIInv'
<1> USE DEF EvalIInv
<1> DEFINE i == CHOOSE n \in session[o].todo : \A m \in session[o].todo : n <= m
           case == session[o].cases[i]
           v == session[o].view
           flushes == Mode(case) = "table"
<1>0. /\ chunkRows' = chunkRows /\ collection' = collection /\ cases' = cases
      /\ runs' = runs /\ lastChunk' = lastChunk /\ lastCase' = lastCase
      /\ session[o].pc = "run" /\ session[o].todo # {}
  BY DEF Evaluate
<1>1. PICK r \in Rankings :
        IF flushes /\ ~Insertable(session[o].unflushed)
        THEN Over(o)
        ELSE session' = [session EXCEPT
               ![o].todo = @ \ {i},
               ![o].items = @ \cup {Item(i, case, v, r)},
               ![o].unflushed = (IF flushes THEN {} ELSE @) \cup {Item(i, case, v, r)}]
  BY DEF Evaluate
<1>2. CASE flushes /\ ~Insertable(session[o].unflushed)
  <2> DEFINE new == {}
  <2>1. Over(o) /\ runs' = runs \cup new
    BY <1>0, <1>1, <1>2
  <2>2. \A x \in new : x.items = session[o].items /\ Insertable(x.items) /\ Counted(x)
    OBVIOUS
  <2> HIDE DEF new, EvalIInv
  <2> QED
    BY <1>0, <2>1, <2>2, OverKeeps
<1>3. CASE ~(flushes /\ ~Insertable(session[o].unflushed))
  <2> DEFINE x == Item(i, case, v, r)
             s == [pc |-> "run", view |-> v, cases |-> session[o].cases,
                   todo |-> session[o].todo \ {i}, items |-> session[o].items \cup {x},
                   unflushed |-> (IF flushes THEN {} ELSE session[o].unflushed) \cup {x},
                   new |-> session[o].new,
                   before |-> session[o].before]
  <2>1. i \in session[o].todo
    <3>1. session[o].todo \subseteq Nat /\ session[o].todo # {}
      BY <1>0, RunFinite, RagEvalAssumption DEF CaseIds
    <3>2. \E n \in session[o].todo : \A m \in session[o].todo : n <= m
      BY <3>1, LeastElement
    <3> QED
      BY <3>2
  <2>2. /\ i \in CaseIds /\ case \in CaseRows
    <3>1. i \in DOMAIN session[o].cases
      BY <1>0, <2>1, RunFinite DEF ItemsCount
    <3> QED
      BY <3>1 DEF EvalTypes, IsSession, IsMap
  <2>3. v \in Views
    BY DEF Views
  <2>4. /\ IsMap(v, ChunkIds, Tables) /\ IsMap(collection, ChunkIds, Tables)
        /\ \A n \in DOMAIN v \cap DOMAIN collection : v[n] = collection[n]
    <3>1. 1..lastChunk \subseteq ChunkIds
      BY RagEvalAssumption DEF EvalTypes, ChunkIds
    <3>2. v \in Places /\ collection \in Places
      BY <2>3 DEF Places
    <3> QED
      BY <3>1, <3>2 DEF ChunksAgree, IsMap
  <2> HIDE DEF i, case, v
  <2>5. /\ AreItems({x}) /\ x.case = i
        /\ ~x.skipped /\ Mode(x.of) = "table" => Explained(x)
    BY <2>2, <2>4, ItemMeasured
  <2> HIDE DEF x
  <2>6. Becomes(o, s)
    <3>1. /\ session[o] = [pc |-> session[o].pc, view |-> session[o].view,
                           cases |-> session[o].cases, todo |-> session[o].todo,
                           items |-> session[o].items,
                           unflushed |-> session[o].unflushed, new |-> session[o].new,
                           before |-> session[o].before]
          /\ session = [p \in Sessions |-> session[p]]
      BY DEF EvalTypes, IsSession
    <3>2. session' = [session EXCEPT
               ![o].todo = @ \ {i}, ![o].items = @ \cup {x},
               ![o].unflushed = (IF flushes THEN {} ELSE @) \cup {x}]
      BY <1>1, <1>3 DEF x
    <3> HIDE DEF flushes
    <3>3. /\ session'[o] = s
          /\ \A p \in Sessions : p # o => session'[p] = session[p]
          /\ session' = [p \in Sessions |-> session'[p]]
      BY <1>0, <3>1, <3>2 DEF v
    <3> QED
      BY <3>3 DEF Becomes
  <2>7. /\ s.pc = "run" /\ s.view = v /\ s.new = session[o].new
        /\ s.cases = session[o].cases /\ s.todo = session[o].todo \ {i}
        /\ s.items = session[o].items \cup {x}
        /\ s.items \ s.unflushed \subseteq session[o].items
        /\ ~flushes => s.items \ s.unflushed \subseteq session[o].items \ session[o].unflushed
    OBVIOUS
  <2>8. IsSession(s)
    <3>1. /\ AreItems(session[o].items)
          /\ IsMap(session[o].cases, CaseIds, CaseRows)
      BY DEF EvalTypes, IsSession
    <3> QED
      BY <2>5, <3>1 DEF IsSession, AreItems
  <2>9. \A p \in Sessions : session'[p] = IF p = o THEN s ELSE session[p]
    BY <2>6 DEF Becomes
  <2> HIDE DEF s
  <2>10. session[o].new \in Views
    BY DEF Views
  <2>11. EvalTypes'
    BY <1>0, <2>6, <2>8, TypesOfBecome
  <2>12. ChunksAgree'
    <3>1. s.view \in Places \cup {None} /\ s.new \in Places \cup {None}
      BY <2>3, <2>7, <2>10 DEF Places
    <3> QED
      BY <1>0, <2>6, <3>1, AgreeOfBecome
  <2>13. ItemsCount'
    <3>1. /\ session[o].todo \subseteq Enabled(session[o].cases)
          /\ \A y \in session[o].items : y.case \notin session[o].todo
          /\ Cardinality(session[o].items) + Cardinality(session[o].todo)
               = Cardinality(Enabled(session[o].cases))
      BY <1>0 DEF ItemsCount
    <3>2. /\ IsFiniteSet(session[o].items) /\ IsFiniteSet(session[o].todo)
          /\ Cardinality(session[o].items) \in Nat
          /\ Cardinality(session[o].todo) \in Nat
      BY <1>0, RunFinite
    <3>3. x \notin session[o].items
      BY <2>1, <2>5, <3>1
    <3>4. /\ IsFiniteSet(s.items)
          /\ Cardinality(s.items) = Cardinality(session[o].items) + 1
      BY <2>7, <3>2, <3>3, FS_AddElement
    <3>5. Cardinality(s.todo) = Cardinality(session[o].todo) - 1
      <4>1. Cardinality(session[o].todo \ {i}) = Cardinality(session[o].todo) - 1
        BY <2>1, <3>2, FS_RemoveElement
      <4> QED
        BY <2>7, <4>1
    <3>6. Cardinality(s.items) + Cardinality(s.todo) = Cardinality(Enabled(s.cases))
      BY <2>7, <3>1, <3>2, <3>4, <3>5
    <3>7. /\ s.todo \subseteq Enabled(s.cases)
          /\ \A y \in s.items : y.case \notin s.todo
      BY <2>5, <2>7, <3>1
    <3> QED
      BY <2>7, <2>9, <3>4, <3>6, <3>7 DEF ItemsCount
  <2>14. ItemsRefer'
    <3>1. Insertable(s.items \ s.unflushed)
      <4>1. CASE flushes
        <5>1. Insertable(session[o].items)
          BY <1>3, <4>1, AllInsertable
        <5> QED
          BY <2>7, <5>1 DEF Insertable
      <4>2. CASE ~flushes
        BY <2>7, <4>2 DEF ItemsRefer, Insertable
      <4> QED
        BY <4>1, <4>2
    <3> QED
      BY <1>0, <2>9, <3>1 DEF ItemsRefer, Insertable
  <2>15. ItemsExplained'
    <3>1. ASSUME NEW y \in (Items \cup UNION { session[p].items : p \in Sessions })',
                 ~y.skipped, Mode(y.of) = "table"
          PROVE  Explained(y)
      <4>1. y = x \/ y \in Items \cup UNION { session[p].items : p \in Sessions }
        BY <1>0, <2>7, <2>9 DEF Items
      <4> QED
        BY <2>5, <3>1, <4>1 DEF ItemsExplained
    <3> QED
      BY <3>1 DEF ItemsExplained
  <2>16. RunsCount'
    BY <1>0 DEF RunsCount
  <2> QED
    BY <2>11, <2>12, <2>13, <2>14, <2>15, <2>16
<1> QED
  BY <1>2, <1>3

\* The cases and their ids, when some are added.
LEMMA CasesAdded ==
  ASSUME EvalTypes, NEW ids, NEW f, IsMap(f, ids, CaseRows),
         lastCase' \in Nat, lastCase <= lastCase', lastCase' <= MaxCase,
         ids \subseteq 1..lastCase', cases' = Joined(f, cases)
  PROVE  /\ IsMap(cases', 1..lastCase', CaseRows)
         /\ DOMAIN cases \subseteq DOMAIN cases'
         /\ lastCase' \in 0..MaxCase
<1>1. lastCase \in Nat /\ MaxCase \in Nat /\ IsMap(cases, 1..lastCase, CaseRows)
  BY RagEvalAssumption DEF EvalTypes
<1>2. IsMap(cases, 1..lastCase', CaseRows)
  BY <1>1 DEF IsMap
<1>3. IsMap(f, 1..lastCase', CaseRows)
  BY DEF IsMap
<1> QED
  BY <1>1, <1>2, <1>3 DEF IsMap, Joined

LEMMA ImportKeeps ==
  ASSUME EvalIInv, NEW o \in Sessions, Import(o)
  PROVE  EvalIInv'
<1> USE DEF EvalIInv
<1> DEFINE new == { q \in Questions : Seen(o, q) = {} }
<1>1. /\ Over(o) /\ chunkRows' = chunkRows /\ collection' = collection
      /\ runs' = runs /\ lastChunk' = lastChunk
  BY DEF Import
<1>2. CASE \E q \in Questions : Cardinality(Seen(o, q)) > 1
  <2> DEFINE none == {}
  <2>1. runs' = runs \cup none /\ cases' = cases /\ lastCase' = lastCase
    BY <1>1, <1>2 DEF Import
  <2>2. \A r \in none : r.items = session[o].items /\ Insertable(r.items) /\ Counted(r)
    OBVIOUS
  <2> HIDE DEF none, EvalIInv
  <2> QED
    BY <1>1, <2>1, <2>2, OverKeeps
<1>3. CASE ~ \E q \in Questions : Cardinality(Seen(o, q)) > 1
  <2>1. /\ lastCase + Cardinality(new) <= MaxCase
        /\ lastCase' = lastCase + Cardinality(new)
        /\ \E f \in [(lastCase + 1)..lastCase' -> new] :
             cases' = Joined([i \in DOMAIN f |-> Case(f[i], {}, Names, o)], cases)
    BY <1>3 DEF Import
  <2>2. PICK f \in [(lastCase + 1)..lastCase' -> new] :
             cases' = Joined([i \in DOMAIN f |-> Case(f[i], {}, Names, o)], cases)
    BY <2>1
  <2>3. Cardinality(new) \in Nat
    <3>1. IsFiniteSet(Questions) /\ new \in SUBSET Questions
      BY RagEvalAssumption
    <3> HIDE DEF new
    <3> QED
      BY <3>1, FS_Subset, FS_CardinalityType
  <2>4. lastCase \in Nat /\ lastCase' \in Nat /\ lastCase <= lastCase' /\ lastCase' <= MaxCase
    <3> HIDE DEF new
    <3> QED
      BY <2>1, <2>3 DEF EvalTypes
  <2> DEFINE ids == (lastCase + 1)..lastCase'
             added == [i \in DOMAIN f |-> Case(f[i], {}, Names, o)]
  <2>5. IsMap(added, ids, CaseRows)
    <3>1. \A i \in ids : f[i] \in Questions
      OBVIOUS
    <3>2. \A i \in ids : Case(f[i], {}, Names, o) \in CaseRows
      BY <3>1 DEF Case, CaseRows
    <3> QED
      BY <3>2 DEF IsMap
  <2>6. ids \subseteq 1..lastCase'
    BY <2>4
  <2> HIDE DEF ids, added
  <2>7. /\ IsMap(cases', 1..lastCase', CaseRows)
        /\ DOMAIN cases \subseteq DOMAIN cases'
        /\ lastCase' \in 0..MaxCase
    BY <2>2, <2>4, <2>5, <2>6, CasesAdded DEF added
  <2>8. PICK s : /\ Becomes(o, s) /\ IsSession(s) /\ s.pc = "over"
                 /\ s.view = None /\ s.new = None /\ s.items = {}
    BY <1>1, OverIs
  <2>9. EvalTypes'
    <3>1. /\ session' = [p \in Sessions |-> session'[p]]
          /\ \A p \in Sessions : IsSession(session'[p])
      BY <2>8 DEF EvalTypes, Becomes
    <3> QED
      BY <1>1, <2>7, <3>1 DEF EvalTypes
  <2>10. ChunksAgree'
    BY <1>1, <2>8, AgreeOfBecome
  <2>11. ItemsCount'
    BY <2>8, CountOfBecome
  <2>12. ItemsRefer'
    BY <1>1, <2>7, <2>8, ReferOfBecome
  <2>13. ItemsExplained'
    BY <1>1, <2>8, ExplainedOfBecome
  <2>14. RunsCount'
    BY <1>1 DEF RunsCount
  <2> QED
    BY <2>9, <2>10, <2>11, <2>12, <2>13, <2>14
<1> QED
  BY <1>2, <1>3

\* A session that indexes leaves runs and cases alone.
LEMMA IndexKeeps ==
  ASSUME EvalIInv, NEW o \in Sessions, NEW s, Becomes(o, s), IsSession(s),
         s.pc # "run", s.items = {},
         cases' = cases, runs' = runs, lastCase' = lastCase,
         lastChunk' = lastChunk \/ lastChunk' \in 0..MaxChunk, ChunksAgree'
  PROVE  EvalIInv'
<1> USE DEF EvalIInv
<1>1. EvalTypes'
  BY TypesOfBecome
<1>2. ItemsCount'
  BY CountOfBecome
<1>3. ItemsRefer'
  BY ReferOfBecome
<1>4. ItemsExplained'
  BY ExplainedOfBecome
<1>5. RunsCount'
  BY DEF RunsCount
<1> QED
  BY <1>1, <1>2, <1>3, <1>4, <1>5

\* A session is its record.
LEMMA SessionRecord ==
  ASSUME EvalTypes, NEW o \in Sessions
  PROVE  /\ session[o] = [pc |-> session[o].pc, view |-> session[o].view,
                          cases |-> session[o].cases, todo |-> session[o].todo,
                          items |-> session[o].items,
                          unflushed |-> session[o].unflushed, new |-> session[o].new,
                          before |-> session[o].before]
         /\ session = [p \in Sessions |-> session[p]]
  BY DEF EvalTypes, IsSession

LEMMA BeginIndexKeeps ==
  ASSUME EvalIInv, NEW o \in Sessions, NEW t \in Tables, BeginIndex(o, t)
  PROVE  EvalIInv'
<1> USE DEF EvalIInv
<1> DEFINE s == [pc |-> "unindex", view |-> chunkRows, cases |-> session[o].cases,
                 todo |-> {t}, items |-> session[o].items,
                 unflushed |-> session[o].unflushed, new |-> session[o].new,
                 before |-> session[o].before]
           D == { n \in DOMAIN collection : n \in DOMAIN chunkRows => chunkRows[n] # t }
<1>1. /\ session' = [session EXCEPT ![o].pc = "unindex", ![o].view = chunkRows, ![o].todo = {t}]
      /\ collection' = [i \in D |-> collection[i]]
      /\ chunkRows' = chunkRows /\ cases' = cases /\ runs' = runs
      /\ lastChunk' = lastChunk /\ lastCase' = lastCase /\ session[o].pc # "run"
  BY DEF BeginIndex
<1>2. /\ Becomes(o, s) /\ IsSession(s) /\ s.items = {}
      /\ s.pc = "unindex" /\ s.view = chunkRows /\ s.new = session[o].new
  <2>1. /\ session[o] = [pc |-> session[o].pc, view |-> session[o].view,
                         cases |-> session[o].cases, todo |-> session[o].todo,
                         items |-> session[o].items,
                         unflushed |-> session[o].unflushed, new |-> session[o].new,
                         before |-> session[o].before]
        /\ session = [p \in Sessions |-> session[p]]
    BY SessionRecord
  <2>2. /\ session'[o] = s
        /\ \A p \in Sessions : p # o => session'[p] = session[p]
        /\ session' = [p \in Sessions |-> session'[p]]
    BY <1>1, <2>1
  <2>3. Becomes(o, s)
    <3> HIDE DEF s
    <3> QED
      BY <2>2 DEF Becomes
  <2>4. session[o].items = {} /\ IsMap(session[o].cases, CaseIds, CaseRows)
    BY <1>1 DEF ItemsCount, EvalTypes, IsSession
  <2>5. IsSession(s)
    BY <2>4 DEF IsSession, AreItems
  <2> QED
    BY <2>3, <2>4, <2>5
<1> HIDE DEF s
<1>3. ChunksAgree'
  <2>1. PICK table \in [1..lastChunk -> Tables] :
          \A f \in Places : Placed(table, lastChunk, f)
    BY AllPlaced
  <2>2. chunkRows \in Places /\ collection \in Places /\ session[o].new \in Places
    BY DEF Places, Views
  <2>3. Placed(table, lastChunk, collection')
    <3>1. D \subseteq DOMAIN collection
      OBVIOUS
    <3> HIDE DEF D
    <3> QED
      BY <1>1, <2>1, <2>2, <3>1, PartPlaced
  <2> QED
    BY <1>1, <1>2, <2>1, <2>2, <2>3, AgreeOfStep
<1> QED
  BY <1>1, <1>2, <1>3, IndexKeeps

LEMMA StoreTableKeeps ==
  ASSUME EvalIInv, NEW o \in Sessions, StoreTable(o)
  PROVE  EvalIInv'
<1> USE DEF EvalIInv
<1>1. PICK t \in session[o].todo :
        /\ session' = [session EXCEPT ![o].pc = "index", ![o].new = [i \in {lastChunk'} |-> t]]
        /\ collection' = Joined([i \in {lastChunk'} |-> t], collection)
  BY DEF StoreTable
<1>0. t \in Tables
  BY <1>1 DEF StoreTable, Deletes, EvalTypes, IsSession
<1> DEFINE new == [i \in {lastChunk'} |-> t]
           s == [pc |-> "index", view |-> session[o].view, cases |-> session[o].cases,
                 todo |-> session[o].todo, items |-> session[o].items,
                 unflushed |-> session[o].unflushed, new |-> new,
                 before |-> session[o].before]
<1>2. /\ chunkRows' = chunkRows /\ cases' = cases /\ runs' = runs
      /\ lastCase' = lastCase /\ lastChunk' = lastChunk + 1 /\ lastChunk < MaxChunk
      /\ session[o].pc # "run"
  BY DEF StoreTable, Deletes
<1>3. lastChunk \in Nat /\ lastChunk' \in 0..MaxChunk
  BY <1>2, RagEvalAssumption DEF EvalTypes
<1>4. /\ Becomes(o, s) /\ IsSession(s) /\ s.items = {}
      /\ s.pc = "index" /\ s.view = session[o].view /\ s.new = new
  <2> HIDE DEF new
  <2>1. /\ session[o] = [pc |-> session[o].pc, view |-> session[o].view,
                         cases |-> session[o].cases, todo |-> session[o].todo,
                         items |-> session[o].items,
                         unflushed |-> session[o].unflushed, new |-> session[o].new,
                         before |-> session[o].before]
        /\ session = [p \in Sessions |-> session[p]]
    BY SessionRecord
  <2>2. /\ session'[o] = s
        /\ \A p \in Sessions : p # o => session'[p] = session[p]
        /\ session' = [p \in Sessions |-> session'[p]]
    BY <1>1, <2>1 DEF new
  <2>3. Becomes(o, s)
    <3> HIDE DEF s
    <3> QED
      BY <2>2 DEF Becomes
  <2>4. session[o].items = {} /\ IsMap(session[o].cases, CaseIds, CaseRows)
    BY <1>1, <1>2 DEF ItemsCount, EvalTypes, IsSession
  <2>5. IsSession(s)
    BY <2>4 DEF IsSession, AreItems
  <2> QED
    BY <2>3, <2>4, <2>5
<1> HIDE DEF s
<1>5. ChunksAgree'
  <2>1. PICK table \in [1..lastChunk -> Tables] :
          \A f \in Places : Placed(table, lastChunk, f)
    BY AllPlaced
  <2> DEFINE longer == [i \in 1..lastChunk' |-> IF i <= lastChunk THEN table[i] ELSE t]
  <2>2. longer \in [1..lastChunk' -> Tables]
    BY <1>0, <1>2, <1>3
  <2>3. ASSUME NEW f \in Places
        PROVE  Placed(longer, lastChunk', f)
    <3>1. Placed(table, lastChunk, f)
      BY <2>1
    <3>2. DOMAIN f \subseteq 1..lastChunk /\ IsMap(f, 1..lastChunk', Tables)
      BY <1>2, <1>3, <3>1 DEF Placed, IsMap
    <3>3. \A i \in DOMAIN f : f[i] = longer[i]
      BY <1>2, <1>3, <3>1, <3>2 DEF Placed
    <3> HIDE DEF longer
    <3> QED
      BY <3>2, <3>3 DEF Placed
  <2>4. Placed(longer, lastChunk', new)
    BY <1>0, <1>2, <1>3 DEF Placed, IsMap
  <2>5. chunkRows \in Places /\ collection \in Places /\ session[o].view \in Places
    BY DEF Places, Views
  <2> HIDE DEF longer, new
  <2>6. Placed(longer, lastChunk', collection')
    BY <1>1, <2>3, <2>4, <2>5, JoinedPlaced DEF new
  <2> QED
    BY <1>2, <1>4, <2>2, <2>3, <2>4, <2>5, <2>6, AgreeOfStep
<1> QED
  BY <1>2, <1>3, <1>4, <1>5, IndexKeeps

LEMMA StoreNoneKeeps ==
  ASSUME EvalIInv, NEW o \in Sessions, StoreNone(o)
  PROVE  EvalIInv'
<1> USE DEF EvalIInv
<1> DEFINE s == [pc |-> "index", view |-> session[o].view, cases |-> session[o].cases,
                 todo |-> session[o].todo, items |-> session[o].items,
                 unflushed |-> session[o].unflushed, new |-> session[o].new,
                 before |-> session[o].before]
<1>1. /\ chunkRows' = chunkRows /\ collection' = collection /\ cases' = cases
      /\ runs' = runs /\ lastCase' = lastCase /\ lastChunk' = lastChunk
      /\ session[o].pc # "run" /\ session' = [session EXCEPT ![o].pc = "index"]
  BY DEF StoreNone, Deletes
<1>2. /\ Becomes(o, s) /\ IsSession(s) /\ s.items = {}
      /\ s.pc = "index" /\ s.view = session[o].view /\ s.new = session[o].new
  <2>1. /\ session[o] = [pc |-> session[o].pc, view |-> session[o].view,
                         cases |-> session[o].cases, todo |-> session[o].todo,
                         items |-> session[o].items,
                         unflushed |-> session[o].unflushed, new |-> session[o].new,
                         before |-> session[o].before]
        /\ session = [p \in Sessions |-> session[p]]
    BY SessionRecord
  <2>2. /\ session'[o] = s
        /\ \A p \in Sessions : p # o => session'[p] = session[p]
        /\ session' = [p \in Sessions |-> session'[p]]
    BY <1>1, <2>1
  <2>3. Becomes(o, s)
    <3> HIDE DEF s
    <3> QED
      BY <2>2 DEF Becomes
  <2>4. session[o].items = {} /\ IsMap(session[o].cases, CaseIds, CaseRows)
    BY <1>1 DEF ItemsCount, EvalTypes, IsSession
  <2>5. IsSession(s)
    BY <2>4 DEF IsSession, AreItems
  <2> QED
    BY <2>3, <2>4, <2>5
<1> HIDE DEF s
<1>3. s.view \in Places /\ s.new \in Places
  BY <1>2 DEF Places, Views
<1>4. ChunksAgree'
  BY <1>1, <1>2, <1>3, AgreeOfBecome
<1> QED
  BY <1>1, <1>2, <1>4, IndexKeeps

LEMMA CommitIndexKeeps ==
  ASSUME EvalIInv, NEW o \in Sessions, CommitIndex(o)
  PROVE  EvalIInv'
<1> USE DEF EvalIInv
<1> DEFINE D == DOMAIN chunkRows \ Stale(o)
           kept == [i \in D |-> chunkRows[i]]
<1>1. /\ Over(o) /\ chunkRows' = Joined(session[o].new, kept)
      /\ collection' = collection /\ cases' = cases /\ runs' = runs
      /\ lastChunk' = lastChunk /\ lastCase' = lastCase
  BY DEF CommitIndex
<1>2. PICK s : /\ Becomes(o, s) /\ IsSession(s) /\ s.pc = "over"
               /\ s.view = None /\ s.new = None /\ s.items = {}
  BY <1>1, OverIs
<1>3. ChunksAgree'
  <2>1. PICK table \in [1..lastChunk -> Tables] :
          \A f \in Places \cup {None} : Placed(table, lastChunk, f)
    BY AllPlaced
  <2>2. chunkRows \in Places /\ collection \in Places /\ session[o].new \in Places
    BY DEF Places, Views
  <2>3. Placed(table, lastChunk, kept)
    <3>1. D \subseteq DOMAIN chunkRows
      OBVIOUS
    <3> HIDE DEF D
    <3> QED
      BY <2>1, <2>2, <3>1, PartPlaced
  <2> HIDE DEF kept
  <2>4. Placed(table, lastChunk, chunkRows')
    BY <1>1, <2>1, <2>2, <2>3, JoinedPlaced
  <2> QED
    BY <1>1, <1>2, <2>1, <2>2, <2>4, AgreeOfStep
<1> QED
  BY <1>1, <1>2, <1>3, IndexKeeps

\* The rows that are to be deleted are gone.
LEMMA DeleteFailsKeeps ==
  ASSUME EvalIInv, NEW o \in Sessions, DeleteFails(o)
  PROVE  EvalIInv'
<1> DEFINE new == {}
<1>1. /\ Over(o) /\ runs' = runs \cup new
      /\ chunkRows' = chunkRows /\ collection' = collection /\ cases' = cases
      /\ lastChunk' = lastChunk /\ lastCase' = lastCase
  BY DEF DeleteFails
<1>2. \A r \in new : r.items = session[o].items /\ Insertable(r.items) /\ Counted(r)
  OBVIOUS
<1> HIDE DEF new
<1> QED
  BY <1>1, <1>2, OverKeeps

\* No chunk moves.
LEMMA PlacesUnchanged ==
  ASSUME ChunksAgree,
         chunkRows' = chunkRows, collection' = collection, session' = session,
         lastChunk' = lastChunk
  PROVE  ChunksAgree'
<1>1. Places' = Places
  BY DEF Places, Views
<1> QED
  BY <1>1 DEF ChunksAgree, IsMap

\* The administrator edits cases: no session moves, and no item loses its case.
LEMMA EditKeeps ==
  ASSUME EvalIInv, Edit
  PROVE  EvalIInv'
<1> USE DEF EvalIInv
<1>1. /\ chunkRows' = chunkRows /\ collection' = collection /\ runs' = runs
      /\ session' = session /\ lastChunk' = lastChunk
  BY DEF Edit, CreateCase, UpdateCase, DeleteCase
<1>2. /\ lastCase \in Nat /\ MaxCase \in Nat /\ lastCase <= MaxCase
      /\ IsMap(cases, 1..lastCase, CaseRows)
  BY RagEvalAssumption DEF EvalTypes
<1>3. ASSUME NEW l \in Labels
    PROVE  l[1] \subseteq ChunkIds /\ l[2] \subseteq Names  <2>1. DOMAIN chunkRows \subseteq ChunkIds
    <3>1. chunkRows \in Places
      BY DEF Places
    <3>2. 1..lastChunk \subseteq ChunkIds
      BY RagEvalAssumption DEF EvalTypes, ChunkIds
    <3> QED
      BY <3>1, <3>2 DEF ChunksAgree, IsMap
  <2> QED
    BY <2>1 DEF Labels
<1>4. /\ IsMap(cases', 1..lastCase', CaseRows) /\ lastCase' \in 0..MaxCase
      /\ \A i \in DOMAIN cases \ DOMAIN cases' :
           /\ \A r \in runs : \A x \in r.items : x.case # i
           /\ \A o \in Sessions : \A x \in session[o].items \ session[o].unflushed : x.case # i
  <2>1. CASE CreateCase
    <3>1. PICK q \in Questions \cup {"another"}, l \in Labels :
            cases' = Joined([i \in {lastCase'} |-> Case(q, l[1], l[2], "manual")], cases)
      BY <2>1 DEF CreateCase
    <3>2. lastCase' = lastCase + 1 /\ lastCase < MaxCase
      BY <2>1 DEF CreateCase
    <3> DEFINE row == Case(q, l[1], l[2], "manual")
               added == [i \in {lastCase'} |-> row]
    <3>3. row \in CaseRows
      BY <1>3 DEF Case, CaseRows
    <3> HIDE DEF row
    <3>4. IsMap(added, {lastCase'}, CaseRows)
      BY <3>3 DEF IsMap
    <3>5. cases' = Joined(added, cases)
      BY <3>1 DEF row
    <3> HIDE DEF added
    <3>6. {lastCase'} \subseteq 1..lastCase' /\ lastCase' \in Nat /\ lastCase <= lastCase'
          /\ lastCase' <= MaxCase
      BY <1>2, <3>2
    <3>7. /\ IsMap(cases', 1..lastCase', CaseRows)
          /\ DOMAIN cases \subseteq DOMAIN cases'
          /\ lastCase' \in 0..MaxCase
      BY <3>4, <3>5, <3>6, CasesAdded
    <3> QED
      BY <3>7
  <2>2. ASSUME NEW i \in DOMAIN cases, UpdateCase(i)
        PROVE  /\ IsMap(cases', 1..lastCase', CaseRows)
               /\ DOMAIN cases' = DOMAIN cases /\ lastCase' = lastCase
    <3>0. lastCase' = lastCase
      BY <2>2 DEF UpdateCase
    <3>1. PICK q \in Questions \cup {"another"}, e \in BOOLEAN,
               l \in Labels \cup {<<cases[i].chunks, cases[i].tables>>} :
            cases' = [cases EXCEPT ![i].question = q, ![i].chunks = l[1],
                                   ![i].tables = l[2], ![i].enabled = e,
                                   ![i].edited = @ \/ q # cases[i].question]
      BY <2>2 DEF UpdateCase
    <3>2. cases[i] \in CaseRows
      BY <1>2 DEF IsMap
    <3> DEFINE row == [question |-> q, chunks |-> l[1], tables |-> l[2], enabled |-> e,
                       by |-> cases[i].by,
                       edited |-> cases[i].edited \/ q # cases[i].question]
    <3>3. l[1] \subseteq ChunkIds /\ l[2] \subseteq Names
      BY <1>3, <3>2 DEF CaseRows
    <3>4. row \in CaseRows
      BY <3>2, <3>3 DEF CaseRows
    <3>5. /\ DOMAIN cases' = DOMAIN cases /\ cases' = [j \in DOMAIN cases |-> cases'[j]]
          /\ cases'[i] = row /\ \A j \in DOMAIN cases : j # i => cases'[j] = cases[j]
      BY <1>2, <3>1, <3>2 DEF IsMap, CaseRows
    <3> HIDE DEF row
    <3>6. \A j \in DOMAIN cases : cases'[j] \in CaseRows
      BY <1>2, <3>4, <3>5 DEF IsMap
    <3> QED
      BY <1>2, <3>0, <3>5, <3>6 DEF IsMap
  <2>3. ASSUME NEW i \in DOMAIN cases, DeleteCase(i)
        PROVE  /\ IsMap(cases', 1..lastCase', CaseRows)
               /\ DOMAIN cases' = DOMAIN cases \ {i} /\ lastCase' = lastCase
    BY <1>2, <2>3 DEF DeleteCase, IsMap
  <2>4. CASE \E i \in DOMAIN cases : UpdateCase(i)
    BY <1>2, <2>2, <2>4
  <2>5. CASE \E i \in DOMAIN cases : DeleteCase(i)
    <3>1. PICK i \in DOMAIN cases : DeleteCase(i)
      BY <2>5
    <3>2. /\ \A r \in runs : \A x \in r.items : x.case # i
          /\ \A o \in Sessions : \A x \in session[o].items \ session[o].unflushed : x.case # i
      BY <3>1 DEF DeleteCase
    <3> QED
      <4>1. DOMAIN cases \ DOMAIN cases' = {i}
        BY <2>3, <3>1
      <4>2. IsMap(cases', 1..lastCase', CaseRows) /\ lastCase' = lastCase
        BY <2>3, <3>1
      <4> HIDE DEF EvalIInv
      <4> QED
        BY <1>2, <3>2, <4>1, <4>2
  <2> QED
    BY <2>1, <2>4, <2>5 DEF Edit
<1>5. EvalTypes'
  BY <1>1, <1>4 DEF EvalTypes
<1>6. ItemsRefer'
  BY <1>1, <1>4 DEF ItemsRefer, Insertable
<1>7. ChunksAgree'
  BY <1>1, PlacesUnchanged
<1>8. ItemsCount'
  BY <1>1 DEF ItemsCount
<1>9. ItemsExplained'
  <2>1. (Items \cup UNION { session[p].items : p \in Sessions })'
          = Items \cup UNION { session[p].items : p \in Sessions }
    BY <1>1 DEF Items
  <2> QED
    BY <2>1 DEF ItemsExplained
<1>10. RunsCount'
  BY <1>1 DEF RunsCount
<1> QED
  BY <1>5, <1>6, <1>7, <1>8, <1>9, <1>10

LEMMA EvalInitEstablishes ==
  ASSUME EvalInit
  PROVE  EvalIInv
<1>1. lastChunk \in 0..MaxChunk /\ chunkRows \in [1..lastChunk -> Tables]
  BY DEF EvalInit
<1>2. /\ collection = chunkRows /\ cases = None /\ lastCase = 0 /\ runs = {}
      /\ session = [o \in Sessions |-> Idle]
  BY DEF EvalInit
<1>3. \A f \in Places : f = chunkRows \/ f = None
  BY <1>2 DEF Places, Views, Idle, Resting
<1>4. IsMap(chunkRows, 1..lastChunk, Tables) /\ IsMap(None, 1..lastChunk, Tables)
  BY <1>1 DEF IsMap, None
<1>5. ChunksAgree
  <2>1. chunkRows \in [1..lastChunk -> Tables]
    BY <1>1
  <2>2. \A f \in Places : /\ IsMap(f, 1..lastChunk, Tables)
                          /\ \A i \in DOMAIN f : f[i] = chunkRows[i]
    <3>1. DOMAIN None = {}
      BY DEF None
    <3> QED
      BY <1>3, <1>4, <3>1
  <2> QED
    BY <2>1, <2>2 DEF ChunksAgree
<1>6. IsMap(cases, 1..lastCase, CaseRows)
  BY <1>2 DEF IsMap, None
<1>7. IsSession(Idle) /\ Idle.pc = "idle" /\ Idle.items = {}
  <2>1. Idle.pc = "idle" /\ Idle.items = {}
    BY DEF Idle, Resting
  <2> QED
    BY <2>1, RestingIsSession DEF Idle
<1> HIDE DEF Idle
<1>8. EvalTypes
  BY <1>1, <1>2, <1>6, <1>7, RagEvalAssumption DEF EvalTypes
<1>9. ItemsCount
  BY <1>2, <1>7 DEF ItemsCount
<1>10. ItemsRefer /\ ItemsExplained /\ RunsCount
  BY <1>2, <1>7 DEF ItemsRefer, ItemsExplained, RunsCount, Insertable, Items
<1> QED
  BY <1>5, <1>8, <1>9, <1>10 DEF EvalIInv

-----------------------------------------------------------------------------
(* The theorems about the evaluation. *)

\* In every reachable state the chunks, the items and the rows of the runs are
\* as EvalIInv says.
THEOREM EvalInvariant == EvalSpec => []EvalIInv
<1>1. EvalInit => EvalIInv
  BY EvalInitEstablishes
<1>2. EvalIInv /\ [EvalNext]_evalVars => EvalIInv'
  <2> SUFFICES ASSUME EvalIInv, [EvalNext]_evalVars
               PROVE  EvalIInv'
    OBVIOUS
  <2>1. ASSUME NEW o \in Sessions,
               \/ BeginRun(o) \/ Evaluate(o) \/ Finish(o) \/ FailRun(o)
               \/ BeginImport(o) \/ Import(o)
               \/ \E t \in Tables : BeginIndex(o, t)
               \/ DeleteFails(o) \/ StoreTable(o) \/ StoreNone(o) \/ CommitIndex(o)
               \/ Lose(o)
        PROVE  EvalIInv'
    BY <2>1, BeginRunKeeps, EvaluateKeeps, FinishKeeps, FailRunKeeps, BeginImportKeeps,
       ImportKeeps, BeginIndexKeeps, DeleteFailsKeeps, StoreTableKeeps, StoreNoneKeeps,
       CommitIndexKeeps, LoseKeeps
  <2>2. CASE Edit
    BY <2>2, EditKeeps
  <2>3. CASE UNCHANGED evalVars
    <3>1. /\ chunkRows' = chunkRows /\ collection' = collection /\ cases' = cases
          /\ runs' = runs /\ session' = session /\ lastChunk' = lastChunk
          /\ lastCase' = lastCase
      BY <2>3 DEF evalVars
    <3>2. /\ EvalTypes' /\ ItemsCount' /\ ItemsRefer' /\ RunsCount'
      BY <3>1 DEF EvalIInv, EvalTypes, ItemsCount, ItemsRefer, RunsCount, Insertable
    <3>3. ChunksAgree'
      BY <3>1, PlacesUnchanged DEF EvalIInv
    <3>4. ItemsExplained'
      BY <3>1 DEF EvalIInv, ItemsExplained, Items
    <3> QED
      BY <3>2, <3>3, <3>4 DEF EvalIInv
  <2> QED
    BY <2>1, <2>2, <2>3 DEF EvalNext
<1> QED
  BY <1>1, <1>2, PTL DEF EvalSpec

\* What is committed of a run is whole: done with an item for every case that was
\* enabled, or failed with fewer, and every item refers to a case that exists.
THEOREM RunsWhole == EvalSpec => []RunsAreWhole
<1>1. EvalIInv => RunsAreWhole
  <2> SUFFICES ASSUME EvalIInv
               PROVE  RunsAreWhole
    OBVIOUS
  <2> USE DEF EvalIInv
  <2>1. DOMAIN chunkRows \subseteq 1..lastChunk /\ DOMAIN collection \subseteq 1..lastChunk
    BY DEF ChunksAgree, Places, IsMap
  <2>2. \A r \in runs : \A x \in r.items : /\ x.case \in DOMAIN cases
                                          /\ x.recall \in 0..Unit /\ x.mrr \in 0..Unit
    BY DEF EvalTypes, ItemsRefer, Insertable, AreItems
  <2>3. EvalTypeOK
    BY <2>1, <2>2 DEF EvalTypeOK, EvalTypes, IsMap
  <2> QED
    BY <2>3 DEF RunsAreWhole, RunsCount
<1> QED
  BY <1>1, EvalInvariant, PTL

\* Full recall, no recall, and a rank without a recall mean what they say, for
\* every ranking, every state of the index and every interleaving of its changes
\* with the run.
THEOREM MeasuresMeanIt == EvalSpec => []MeasuresExplained
<1>1. EvalIInv => MeasuresExplained
  BY DEF EvalIInv, ItemsExplained, MeasuresExplained, TableItems, Items
<1> QED
  BY <1>1, EvalInvariant, PTL


-----------------------------------------------------------------------------
(* Who imported what. *)

\* A step that leaves the imported rows as they are, ends or goes on with sessions
\* and begins no import.
LEMMA CasesStay ==
  ASSUME CasesIInv,
         \A i \in DOMAIN cases' : cases'[i].by \in Sessions =>
           /\ i \in DOMAIN cases /\ cases'[i].by = cases[i].by
           /\ ~cases'[i].edited => ~cases[i].edited /\ cases'[i].question = cases[i].question,
         \A p \in Sessions :
           /\ session[p].pc = "over" => session'[p].pc = "over"
           /\ session'[p].before = session[p].before
           /\ session'[p].pc = "import" =>
                session[p].pc = "import" /\ session'[p].cases = session[p].cases
  PROVE  CasesIInv'
<1> USE DEF CasesIInv
<1>1. ImportsSee'
  BY DEF ImportsSee
<1>2. ImportedTwiceOnlyByOverlap'
  BY DEF ImportedTwiceOnlyByOverlap, Overlap, Imported
<1> QED
  BY <1>1, <1>2

\* The same, when one session moves and the cases stay.
LEMMA OneMoves ==
  ASSUME CasesIInv, NEW o \in Sessions, session[o].pc # "over", cases' = cases,
         \A p \in Sessions : p # o => session'[p] = session[p],
         session'[o].before = session[o].before,
         session'[o].pc # "import" \/ (session[o].pc = "import" /\ session'[o].cases = session[o].cases)
  PROVE  CasesIInv'
<1>1. \A p \in Sessions :
        /\ session[p].pc = "over" => session'[p].pc = "over"
        /\ session'[p].before = session[p].before
        /\ session'[p].pc = "import" =>
             session[p].pc = "import" /\ session'[p].cases = session[p].cases
  OBVIOUS
<1> QED
  BY <1>1, CasesStay

LEMMA OverKeepsCases ==
  ASSUME EvalTypes, CasesIInv, NEW o \in Sessions, session[o].pc # "over", Over(o),
         cases' = cases
  PROVE  CasesIInv'
<1>1. PICK s : Becomes(o, s) /\ s.pc = "over" /\ s.before = session[o].before
  BY OverIs
<1>2. /\ session'[o].pc = "over" /\ session'[o].before = session[o].before
      /\ \A p \in Sessions : p # o => session'[p] = session[p]
  BY <1>1 DEF Becomes
<1> QED
  BY <1>2, OneMoves

LEMMA RunKeepsCases ==
  ASSUME EvalTypes, CasesIInv, NEW o \in Sessions,
         \/ BeginRun(o) \/ Evaluate(o) \/ StoreTable(o) \/ StoreNone(o)
         \/ \E t \in Tables : BeginIndex(o, t)
  PROVE  CasesIInv'
<1>1. /\ session[o] = [pc |-> session[o].pc, view |-> session[o].view,
                       cases |-> session[o].cases, todo |-> session[o].todo,
                       items |-> session[o].items, unflushed |-> session[o].unflushed,
                       new |-> session[o].new, before |-> session[o].before]
      /\ session = [p \in Sessions |-> session[p]]
  BY DEF EvalTypes, IsSession
<1>2. CASE BeginRun(o)
  <2>1. /\ session[o].pc = "idle" /\ cases' = cases
        /\ session'[o].pc = "run" /\ session'[o].before = session[o].before
        /\ \A p \in Sessions : p # o => session'[p] = session[p]
    BY <1>1, <1>2 DEF BeginRun
  <2> QED
    BY <2>1, OneMoves
<1>3. CASE Evaluate(o)
  <2>1. session[o].pc = "run" /\ cases' = cases
    BY <1>3 DEF Evaluate
  <2>2. CASE Over(o)
    BY <2>1, <2>2, OverKeepsCases
  <2>3. CASE ~Over(o)
    <3> DEFINE i == CHOOSE n \in session[o].todo : \A m \in session[o].todo : n <= m
               case == session[o].cases[i]
               flushes == Mode(case) = "table"
               x(r) == Item(i, case, session[o].view, r)
               d == session[o].todo \ {i}
               found(r) == session[o].items \cup {x(r)}
               kept(r) == (IF flushes THEN {} ELSE session[o].unflushed) \cup {x(r)}
    <3>1. PICK r : session' = [session EXCEPT ![o].todo = d, ![o].items = found(r),
                                              ![o].unflushed = kept(r)]
      BY <1>3, <2>3 DEF Evaluate
    <3> HIDE DEF i, case, flushes, x, d, found, kept
    <3>2. /\ session'[o].pc = "run" /\ session'[o].before = session[o].before
          /\ \A p \in Sessions : p # o => session'[p] = session[p]
      BY <1>1, <2>1, <3>1
    <3> QED
      BY <2>1, <3>2, OneMoves
  <2> QED
    BY <2>2, <2>3
<1>4. ASSUME NEW t \in Tables, BeginIndex(o, t)
      PROVE  CasesIInv'
  <2>1. /\ session[o].pc = "idle" /\ cases' = cases
        /\ session' = [session EXCEPT ![o].pc = "unindex", ![o].view = chunkRows, ![o].todo = {t}]
    BY <1>4 DEF BeginIndex
  <2>2. /\ session'[o].pc = "unindex" /\ session'[o].before = session[o].before
        /\ \A p \in Sessions : p # o => session'[p] = session[p]
    BY <1>1, <2>1
  <2> QED
    BY <2>1, <2>2, OneMoves
<1>5. CASE StoreTable(o)
  <2>1. PICK new : session' = [session EXCEPT ![o].pc = "index", ![o].new = new]
    BY <1>5 DEF StoreTable
  <2>2. session[o].pc = "unindex" /\ cases' = cases
    BY <1>5 DEF StoreTable, Deletes
  <2>3. /\ session'[o].pc = "index" /\ session'[o].before = session[o].before
        /\ \A p \in Sessions : p # o => session'[p] = session[p]
    BY <1>1, <2>1
  <2> QED
    BY <2>2, <2>3, OneMoves
<1>6. CASE StoreNone(o)
  <2>1. /\ session[o].pc = "unindex" /\ cases' = cases
        /\ session' = [session EXCEPT ![o].pc = "index"]
    BY <1>6 DEF StoreNone, Deletes
  <2>2. /\ session'[o].pc = "index" /\ session'[o].before = session[o].before
        /\ \A p \in Sessions : p # o => session'[p] = session[p]
    BY <1>1, <2>1
  <2> QED
    BY <2>1, <2>2, OneMoves
<1> QED
  BY <1>2, <1>3, <1>4, <1>5, <1>6

\* An import begins: all that earlier ones have added is in its snapshot.
LEMMA BeginImportKeepsCases ==
  ASSUME EvalTypes, CasesIInv, NEW o \in Sessions, BeginImport(o)
  PROVE  CasesIInv'
<1> USE DEF CasesIInv
<1> DEFINE ended == { p \in Sessions : session[p].pc = "over" }
<1>1. /\ session[o] = [pc |-> session[o].pc, view |-> session[o].view,
                       cases |-> session[o].cases, todo |-> session[o].todo,
                       items |-> session[o].items, unflushed |-> session[o].unflushed,
                       new |-> session[o].new, before |-> session[o].before]
      /\ session = [p \in Sessions |-> session[p]]
  BY DEF EvalTypes, IsSession
<1>2. /\ session[o].pc = "idle" /\ cases' = cases
      /\ session'[o].pc = "import" /\ session'[o].cases = cases /\ session'[o].before = ended
      /\ \A p \in Sessions : p # o => session'[p] = session[p]
  BY <1>1 DEF BeginImport
<1>3. \A p \in Sessions : session[p].pc = "over" => p # o /\ session'[p] = session[p]
  BY <1>2
<1>4. ImportsSee'
  <2>1. \A i \in DOMAIN cases' : cases'[i].by \in Sessions => session'[cases'[i].by].pc = "over"
    BY <1>2, <1>3 DEF ImportsSee
  <2>2. \A p \in Sessions : \A q \in session'[p].before : q \in Sessions /\ session'[q].pc = "over"
    BY <1>2, <1>3 DEF ImportsSee
  <2>3. \A p \in Sessions : session'[p].pc = "import" =>
          \A i \in DOMAIN cases' : cases'[i].by \in session'[p].before =>
            /\ i \in DOMAIN session'[p].cases
            /\ ~cases'[i].edited => session'[p].cases[i].question = cases'[i].question
    BY <1>2 DEF ImportsSee
  <2> QED
    BY <2>1, <2>2, <2>3 DEF ImportsSee
<1>5. ImportedTwiceOnlyByOverlap'
  <2>1. \A i \in DOMAIN cases : cases[i].by \in Sessions =>
          session'[cases[i].by].before = session[cases[i].by].before
    BY <1>3 DEF ImportsSee
  <2> QED
    BY <1>2, <2>1 DEF ImportedTwiceOnlyByOverlap, Overlap, Imported
<1> QED
  BY <1>4, <1>5

\* A function onto a finite set from as many numbers takes no value twice.
LEMMA EachOnce ==
  ASSUME NEW n \in Nat, NEW S, IsFiniteSet(S), NEW f \in [(n + 1)..(n + Cardinality(S)) -> S],
         { f[i] : i \in DOMAIN f } = S,
         NEW i \in DOMAIN f, NEW j \in DOMAIN f, f[i] = f[j]
  PROVE  i = j
<1> DEFINE ids == (n + 1)..(n + Cardinality(S))
<1>1. Cardinality(S) \in Nat
  BY FS_CardinalityType
<1>2. IsFiniteSet(ids) /\ Cardinality(ids) = Cardinality(S)
  <2> DEFINE a == n + 1
             b == n + Cardinality(S)
  <2>1. a \in Int /\ b \in Int
    BY <1>1
  <2>2. IF a > b THEN Cardinality(S) = 0 ELSE b - a + 1 = Cardinality(S)
    BY <1>1
  <2> HIDE DEF a, b
  <2>3. IsFiniteSet(a..b) /\ Cardinality(a..b) = Cardinality(S)
    BY <2>1, <2>2, FS_Interval
  <2> QED
    BY <2>3 DEF a, b
<1> HIDE DEF ids
<1>3. f \in Surjection(ids, S)
  BY DEF Surjection, ids
<1>4. f \in Injection(ids, S)
  BY <1>2, <1>3, FS_Surjection
<1> QED
  BY <1>4 DEF Injection, IsInjective, ids

\* An import ends: an earlier one whose rows it doubled would have been in its
\* snapshot.
LEMMA ImportKeepsCases ==
  ASSUME EvalTypes, CasesIInv, NEW o \in Sessions, Import(o)
  PROVE  CasesIInv'
<1> USE DEF CasesIInv
<1> DEFINE new == { q \in Questions : Seen(o, q) = {} }
<1>1. session[o].pc = "import" /\ Over(o)
  BY DEF Import
<1>2. PICK s : Becomes(o, s) /\ s.pc = "over" /\ s.before = session[o].before
  BY <1>1, OverIs
<1>3. /\ session'[o].pc = "over"
      /\ \A p \in Sessions : session'[p].before = session[p].before
      /\ \A p \in Sessions : p # o => session'[p] = session[p]
  BY <1>2 DEF Becomes
<1>4. CASE cases' = cases
  BY <1>1, <1>4, OverKeepsCases
<1>5. CASE cases' # cases
  <2>1. PICK f \in [(lastCase + 1)..lastCase' -> new] :
          /\ { f[i] : i \in DOMAIN f } = new
          /\ cases' = Joined([i \in DOMAIN f |-> Case(f[i], {}, Names, o)], cases)
    BY <1>5 DEF Import
  <2>2. lastCase' = lastCase + Cardinality(new) /\ lastCase \in Nat
    BY <1>5 DEF Import, EvalTypes
  <2>3. IsFiniteSet(new)
    <3>1. IsFiniteSet(Questions) /\ new \in SUBSET Questions
      BY RagEvalAssumption
    <3> HIDE DEF new
    <3> QED
      BY <3>1, FS_Subset
  <2> DEFINE ids == DOMAIN f
             row(i) == Case(f[i], {}, Names, o)
  <2>4. \A i, j \in ids : f[i] = f[j] => i = j
    <3> HIDE DEF new
    <3> QED
      BY <2>1, <2>2, <2>3, EachOnce
  <2>5. /\ DOMAIN cases' = ids \cup DOMAIN cases
        /\ \A i \in ids : cases'[i] = row(i)
        /\ \A i \in DOMAIN cases \ ids : cases'[i] = cases[i]
    <3> HIDE DEF new, row
    <3> DEFINE added == [i \in ids |-> row(i)]
    <3>1. cases' = Joined(added, cases)
      BY <2>1 DEF row
    <3>2. DOMAIN added = ids /\ \A i \in ids : added[i] = row(i)
      OBVIOUS
    <3> HIDE DEF added, ids
    <3> QED
      BY <3>1, <3>2 DEF Joined
  <2>6. \A i \in ids : cases'[i].by = o /\ cases'[i].question = f[i] /\ Seen(o, f[i]) = {}
    <3>1. \A i \in ids : f[i] \in new
      OBVIOUS
    <3>2. \A i \in ids : row(i).by = o /\ row(i).question = f[i]
      BY DEF Case
    <3> HIDE DEF row, ids
    <3> QED
      BY <2>5, <3>1, <3>2
  <2> HIDE DEF new, ids, row
  <2>7. ASSUME NEW i \in ids, NEW j \in DOMAIN cases \ ids, Imported(j),
               cases[j].question = cases'[i].question
        PROVE  /\ cases[j].by \notin session[o].before
               /\ o \notin session[cases[j].by].before
    <3>1. j \notin Seen(o, cases[j].question)
      BY <2>6, <2>7
    <3>2. cases[j].by \notin session[o].before
      BY <1>1, <2>7, <3>1 DEF ImportsSee, Imported, Seen
    <3>3. o \notin session[cases[j].by].before
      BY <1>1, <2>7 DEF ImportsSee, Imported
    <3> QED
      BY <3>2, <3>3
  <2>8. \A i \in DOMAIN cases : cases[i].by \in Sessions => cases[i].by # o
    BY <1>1 DEF ImportsSee
  <2>9. ImportsSee'
    <3>1. \A i \in DOMAIN cases' : cases'[i].by \in Sessions => session'[cases'[i].by].pc = "over"
      BY <1>3, <2>5, <2>6 DEF ImportsSee
    <3>2. \A p \in Sessions : \A q \in session'[p].before : q \in Sessions /\ session'[q].pc = "over"
      BY <1>3 DEF ImportsSee
    <3>3. ASSUME NEW p \in Sessions, session'[p].pc = "import",
                 NEW i \in DOMAIN cases', cases'[i].by \in session'[p].before
          PROVE  /\ i \in DOMAIN session'[p].cases
                 /\ ~cases'[i].edited => session'[p].cases[i].question = cases'[i].question
      <4>1. p # o /\ session'[p] = session[p]
        BY <1>3, <3>3
      <4>2. o \notin session[p].before
        BY <1>1 DEF ImportsSee
      <4>3. i \in DOMAIN cases \ ids /\ cases'[i] = cases[i]
        BY <2>5, <2>6, <3>3, <4>1, <4>2
      <4> QED
        BY <3>3, <4>1, <4>3 DEF ImportsSee
    <3> QED
      BY <3>1, <3>2, <3>3 DEF ImportsSee
  <2>10. ImportedTwiceOnlyByOverlap'
    <3>1. SUFFICES ASSUME NEW i \in DOMAIN cases', NEW j \in DOMAIN cases', i # j,
                          cases'[i].question = cases'[j].question,
                          Imported(i)', Imported(j)'
                   PROVE  /\ cases'[i].by # cases'[j].by
                          /\ cases'[i].by \notin session'[cases'[j].by].before
                          /\ cases'[j].by \notin session'[cases'[i].by].before
      BY DEF ImportedTwiceOnlyByOverlap, Overlap, Imported
    <3>2. CASE i \in ids /\ j \in ids
      BY <2>4, <2>6, <3>1, <3>2
    <3>3. CASE i \in ids /\ j \notin ids
      BY <1>3, <2>5, <2>6, <2>7, <2>8, <3>1, <3>3 DEF Imported
    <3>4. CASE i \notin ids /\ j \in ids
      BY <1>3, <2>5, <2>6, <2>7, <2>8, <3>1, <3>4 DEF Imported
    <3>5. CASE i \notin ids /\ j \notin ids
      <4>1. /\ i \in DOMAIN cases /\ cases'[i] = cases[i]
            /\ j \in DOMAIN cases /\ cases'[j] = cases[j]
        BY <2>5, <3>5
      <4>2. Overlap(cases[i].by, cases[j].by)
        BY <3>1, <4>1 DEF ImportedTwiceOnlyByOverlap, Imported
      <4> QED
        BY <1>3, <3>1, <4>1, <4>2 DEF Overlap, Imported
    <3> QED
      BY <3>2, <3>3, <3>4, <3>5
  <2> QED
    BY <2>9, <2>10
<1> QED
  BY <1>4, <1>5

\* What an administrator adds is no import's, and what is edited is remembered.
LEMMA EditKeepsCases ==
  ASSUME EvalTypes, CasesIInv, Edit
  PROVE  CasesIInv'
<1>1. session' = session
  BY DEF Edit, CreateCase, UpdateCase, DeleteCase
<1>2. IsMap(cases, 1..lastCase, CaseRows)
  BY DEF EvalTypes
<1>3. \A i \in DOMAIN cases' : cases'[i].by \in Sessions =>
        /\ i \in DOMAIN cases /\ cases'[i].by = cases[i].by
        /\ ~cases'[i].edited => ~cases[i].edited /\ cases'[i].question = cases[i].question
  <2>1. CASE CreateCase
    <3>1. PICK q, a, b :
            cases' = Joined([i \in {lastCase'} |-> Case(q, a, b, "manual")], cases)
      BY <2>1 DEF CreateCase
    <3> DEFINE row == Case(q, a, b, "manual")
               added == [i \in {lastCase'} |-> row]
    <3>2. row.by \notin Sessions
      BY RagEvalAssumption DEF Case
    <3> HIDE DEF row
    <3>3. cases' = Joined(added, cases)
      BY <3>1 DEF row
    <3>4. DOMAIN added = {lastCase'} /\ added[lastCase'] = row
      OBVIOUS
    <3> HIDE DEF added
    <3>5. \A i \in DOMAIN cases' : \/ cases'[i] = row
                                   \/ i \in DOMAIN cases /\ cases'[i] = cases[i]
      BY <3>3, <3>4 DEF Joined
    <3> QED
      BY <3>2, <3>5
  <2>2. ASSUME NEW i \in DOMAIN cases, UpdateCase(i)
        PROVE  /\ DOMAIN cases' = DOMAIN cases
               /\ \A j \in DOMAIN cases :
                    /\ cases'[j].by = cases[j].by
                    /\ ~cases'[j].edited =>
                         ~cases[j].edited /\ cases'[j].question = cases[j].question
    <3>1. /\ cases = [j \in DOMAIN cases |-> cases[j]]
          /\ cases[i] = [question |-> cases[i].question, chunks |-> cases[i].chunks,
                         tables |-> cases[i].tables, enabled |-> cases[i].enabled,
                         by |-> cases[i].by, edited |-> cases[i].edited]
          /\ cases[i].edited \in BOOLEAN
      BY <1>2 DEF IsMap, CaseRows
    <3>2. PICK q \in Questions \cup {"another"}, e \in BOOLEAN,
               l \in Labels \cup {<<cases[i].chunks, cases[i].tables>>} :
            cases' = [cases EXCEPT ![i].question = q, ![i].chunks = l[1],
                                   ![i].tables = l[2], ![i].enabled = e,
                                   ![i].edited = @ \/ q # cases[i].question]
      BY <2>2 DEF UpdateCase
    <3>3. /\ DOMAIN cases' = DOMAIN cases
          /\ cases'[i] = [question |-> q, chunks |-> l[1], tables |-> l[2], enabled |-> e,
                          by |-> cases[i].by,
                          edited |-> cases[i].edited \/ q # cases[i].question]
          /\ \A j \in DOMAIN cases : j # i => cases'[j] = cases[j]
      BY <3>1, <3>2
    <3>4. /\ cases'[i].by = cases[i].by /\ cases'[i].question = q
          /\ cases'[i].edited = (cases[i].edited \/ q # cases[i].question)
      BY <3>3
    <3>5. ~cases'[i].edited => ~cases[i].edited /\ cases'[i].question = cases[i].question
      BY <3>4, Zenon
    <3> QED
      BY <3>3, <3>4, <3>5
  <2>3. ASSUME NEW i \in DOMAIN cases, DeleteCase(i)
        PROVE  \A j \in DOMAIN cases' : j \in DOMAIN cases /\ cases'[j] = cases[j]
    BY <2>3 DEF DeleteCase
  <2> QED
    BY <2>1, <2>2, <2>3 DEF Edit
<1> QED
  BY <1>1, <1>3, CasesStay

LEMMA NextKeepsCases == EvalIInv /\ CasesIInv /\ [EvalNext]_evalVars => CasesIInv'
<1> SUFFICES ASSUME EvalIInv, CasesIInv, [EvalNext]_evalVars
             PROVE  CasesIInv'
  OBVIOUS
<1>1. EvalTypes
  BY DEF EvalIInv
<1>2. ASSUME NEW o \in Sessions,
             \/ BeginRun(o) \/ Evaluate(o) \/ StoreTable(o) \/ StoreNone(o)
             \/ \E t \in Tables : BeginIndex(o, t)
      PROVE  CasesIInv'
  BY <1>1, <1>2, RunKeepsCases
<1>3. ASSUME NEW o \in Sessions, \/ Finish(o) \/ FailRun(o) \/ Lose(o)
                                  \/ CommitIndex(o) \/ DeleteFails(o)
      PROVE  CasesIInv'
  <2>1. session[o].pc # "over" /\ Over(o) /\ cases' = cases
    BY <1>3 DEF Finish, FailRun, CommitIndex, DeleteFails, Deletes, Lose
  <2> QED
    BY <1>1, <2>1, OverKeepsCases
<1>4. ASSUME NEW o \in Sessions, BeginImport(o) \/ Import(o)
      PROVE  CasesIInv'
  BY <1>1, <1>4, BeginImportKeepsCases, ImportKeepsCases
<1>5. CASE Edit
  BY <1>1, <1>5, EditKeepsCases
<1>6. CASE UNCHANGED evalVars
  <2>1. session' = session /\ cases' = cases
    BY <1>6 DEF evalVars
  <2> QED
    BY <2>1, CasesStay
<1> QED
  BY <1>2, <1>3, <1>4, <1>5, <1>6 DEF EvalNext

\* However imports interleave with each other and with edits, of the rows whose
\* question nobody edited two have one question only if their imports were under
\* way at once.
THEOREM ImportsDoubleOnlyByOverlap == EvalSpec => []ImportedTwiceOnlyByOverlap
<1>1. EvalInit => CasesIInv
  BY DEF EvalInit, CasesIInv, ImportsSee, ImportedTwiceOnlyByOverlap, None, Idle, Resting
<1>2. CasesIInv => ImportedTwiceOnlyByOverlap
  BY DEF CasesIInv
<1> QED
  BY <1>1, <1>2, EvalInvariant, NextKeepsCases, PTL DEF EvalSpec
=============================================================================
