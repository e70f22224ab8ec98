---------------------------- MODULE SchemaGraph -----------------------------
(***************************************************************************)
(* The graph of the tables that a statement may use, and the JOINs that    *)
(* the prompt recommends (SchemaGraph in sql/schema.py, filled by          *)
(* build_schema_from_db in graph/workflow.py).  A table is its position in *)
(* the alphabetical order in which build_schema_from_db passes the names.  *)
(* Only allowed tables are added, and the foreign keys between them.       *)
(***************************************************************************)
EXTENDS Integers, FiniteSets, Sequences

CONSTANT NumTables    \* tables of the datasource

Positions == 1..NumTables    \* in alphabetical order

ASSUME SchemaGraphAssumption == NumTables \in Nat

VARIABLES
  nodes,    \* the nodes
  edges,      \* a set of one or two tables for each foreign key
  asked,      \* the recommendation has been asked for
  joins       \* the edges that it lists

graphVars == <<nodes, edges, asked, joins>>

GraphInit ==
  /\ nodes \in SUBSET Positions
  /\ edges = {} /\ asked = FALSE /\ joins = {}

\* add_fk, if both tables are nodes; nx.Graph keeps one edge for a pair.
AddFk(a, b) ==
  /\ ~asked /\ {a, b} \subseteq nodes
  /\ edges' = edges \cup {{a, b}}
  /\ UNCHANGED <<nodes, asked, joins>>

-----------------------------------------------------------------------------
Walks == UNION { [1..n -> nodes] : n \in 1..Cardinality(nodes) }

IsPath(p, a, b, es) ==
  /\ p[1] = a /\ p[Len(p)] = b
  /\ \A i \in 1..(Len(p) - 1) : {p[i], p[i + 1]} \in es

Related(a, b, es) == \E p \in Walks : IsPath(p, a, b, es)

\* nx.shortest_path returns one of these, and raises when there is none.
ShortestPaths(a, b) ==
  LET paths == { p \in Walks : IsPath(p, a, b, edges) }
  IN { p \in paths : \A q \in paths : Len(p) <= Len(q) }

PathEdges(p) == { {p[i], p[i + 1]} : i \in 1..(Len(p) - 1) }

Follows(a, b) == a < b /\ \A c \in nodes : c <= a \/ b <= c

\* Mutant: range(len(tables) - 2).
NeighboursButLast ==
  { n \in nodes \X nodes : Follows(n[1], n[2]) /\ \E c \in nodes : n[2] < c }

\* tables[i] and tables[i + 1]
Neighbours == { n \in nodes \X nodes : Follows(n[1], n[2]) }

\* find_join_paths: the edges of one shortest path for every two neighbours
\* that have one.
FindJoinPaths ==
  LET related == { n \in Neighbours : Related(n[1], n[2], edges) }
      paths == [n \in related |-> ShortestPaths(n[1], n[2])]
  IN /\ ~asked /\ asked' = TRUE
     /\ \E path \in [related -> UNION { paths[n] : n \in related }] :
          /\ \A n \in related : path[n] \in paths[n]
          /\ joins' = UNION { PathEdges(path[n]) : n \in related }
     /\ UNCHANGED <<nodes, edges>>

GraphNext == (\E a, b \in Positions : AddFk(a, b)) \/ FindJoinPaths

GraphSpec == GraphInit /\ [][GraphNext]_graphVars

-----------------------------------------------------------------------------
\* Whichever shortest paths are taken, the recommended JOINs are foreign keys,
\* and tables that are related, with only tables related to them between them
\* in the alphabetical order, are related by recommended JOINs.
\* (find_join_paths asks about neighbours only: a table that is not related to
\* two others can keep these apart.)
OnlyAnUnrelatedTableSeparates ==
  /\ joins \subseteq edges
  /\ asked => \A a, b \in nodes :
                a < b /\ Related(a, b, edges) /\ ~Related(a, b, joins)
                  => \E c \in nodes : a < c /\ c < b /\ ~Related(a, c, edges)

-----------------------------------------------------------------------------
(* What the proofs need besides. *)

\* Once the recommendation is asked for, neighbours that are related have all
\* the edges of one path in it.
NeighboursJoined ==
  asked => \A n \in Neighbours : Related(n[1], n[2], edges) =>
             \E p \in Walks : IsPath(p, n[1], n[2], edges) /\ PathEdges(p) \subseteq joins

GraphIInv ==
  /\ nodes \subseteq Positions
  /\ joins \subseteq edges
  /\ NeighboursJoined
=============================================================================
