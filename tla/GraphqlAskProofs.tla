-------------------------- MODULE GraphqlAskProofs --------------------------
(***************************************************************************)
(* How a question over GraphQL ends for its readers, for any number of     *)
(* subscriptions, resumes and super-steps.                                 *)
(***************************************************************************)
EXTENDS GraphqlAsk, SequenceTheorems, TLAPS

-----------------------------------------------------------------------------
(* Queues. *)

LEMMA Singles ==
  /\ <<>> \in Seq(Events) /\ Len(<<>>) = 0
  /\ \A e \in Events : /\ <<e>> \in Seq(Events) /\ Len(<<e>>) = 1
                        /\ <<e>>[1] = e /\ <<e>> # <<>>
OBVIOUS

LEMMA AppendInOrder ==
  ASSUME NEW q \in Seq(Events), NEW s \in Seq(Events), NEW ends
  PROVE  /\ q \o s \in Seq(Events)
         /\ InOrder(q, ends) /\ InOrder(s, ends) /\ (NoneFirst(s) => q = <<>> \/ Over(q, ends)) => InOrder(q \o s, ends)
         /\ NoneFirst(q \o s) => NoneFirst(q) \/ (q = <<>> /\ NoneFirst(s))
         /\ Over(q \o s, ends) <=> Over(s, ends) \/ (s = <<>> /\ Over(q, ends))
         /\ q \o s = <<>> <=> q = <<>> /\ s = <<>>
<1>1. /\ q \o s \in Seq(Events) /\ Len(q \o s) = Len(q) + Len(s)
      /\ Len(q) \in Nat /\ Len(s) \in Nat
      /\ \A i \in 1..Len(q) : (q \o s)[i] = q[i]
      /\ \A i \in 1..Len(s) : (q \o s)[Len(q) + i] = s[i]
      /\ q = <<>> <=> Len(q) = 0
      /\ s = <<>> <=> Len(s) = 0
      /\ q \o s = <<>> <=> Len(q) + Len(s) = 0
  OBVIOUS
<1>2. ASSUME InOrder(q, ends), InOrder(s, ends), NoneFirst(s) => q = <<>> \/ Over(q, ends)
      PROVE  InOrder(q \o s, ends)
  <2>1. SUFFICES ASSUME NEW i \in 2..Len(q \o s), (q \o s)[i] = "None"
                 PROVE  (q \o s)[i - 1] \in ends
    BY DEF InOrder
  <2>2. CASE i <= Len(q)
    <3>1. i \in 2..Len(q) /\ q[i] = "None" /\ (q \o s)[i - 1] = q[i - 1]
      BY <1>1, <2>1, <2>2
    <3>2. QED
      BY <1>2, <3>1 DEF InOrder
  <2>3. CASE i = Len(q) + 1
    <3>1. s[1] = "None" /\ s # <<>> /\ q # <<>>
      BY <1>1, <2>1, <2>3
    <3>2. q[Len(q)] \in ends
      BY <1>2, <3>1 DEF NoneFirst, Over
    <3>3. (q \o s)[i - 1] = q[Len(q)]
      BY <1>1, <2>3, <3>1
    <3>4. QED
      BY <3>2, <3>3
  <2>4. CASE i > Len(q) + 1
    <3> PICK j : j = i - Len(q)
      OBVIOUS
    <3>1. j \in 2..Len(s) /\ i = Len(q) + j /\ i - 1 = Len(q) + (j - 1) /\ j - 1 \in 1..Len(s)
      BY <1>1, <2>1, <2>4
    <3>2. s[j] = "None" /\ (q \o s)[i - 1] = s[j - 1]
      BY <1>1, <2>1, <3>1
    <3>3. QED
      BY <1>2, <3>1, <3>2 DEF InOrder
  <2>5. QED
    BY <1>1, <2>1, <2>2, <2>3, <2>4
<1>3. NoneFirst(q \o s) => NoneFirst(q) \/ (q = <<>> /\ NoneFirst(s))
  <2>1. CASE q = <<>>
    BY <1>1, <2>1 DEF NoneFirst
  <2>2. CASE q # <<>>
    <3>1. (q \o s)[1] = q[1]
      BY <1>1, <2>2
    <3>2. QED
      BY <2>2, <3>1 DEF NoneFirst
  <2>3. QED
    BY <2>1, <2>2
<1>4. Over(q \o s, ends) <=> Over(s, ends) \/ (s = <<>> /\ Over(q, ends))
  <2>1. CASE s = <<>>
    <3>1. q \o s = q
      BY <2>1, ConcatEmptySeq
    <3>2. QED
      BY <2>1, <3>1 DEF Over
  <2>2. CASE s # <<>>
    <3>1. q \o s # <<>> /\ (q \o s)[Len(q \o s)] = s[Len(s)]
      BY <1>1, <2>2
    <3>2. QED
      BY <2>2, <3>1 DEF Over
  <2>3. QED
    BY <2>1, <2>2
<1>5. q \o s = <<>> <=> q = <<>> /\ s = <<>>
  BY <1>1
<1>6. QED
  BY <1>1, <1>2, <1>3, <1>4, <1>5

LEMMA TailInOrder ==
  ASSUME NEW q \in Seq(Events), NEW ends, q # <<>>, InOrder(q, ends), ~NoneFirst(q)
  PROVE  /\ InOrder(Tail(q), ends)
         /\ NoneFirst(Tail(q)) => Head(q) \in ends \ {"None"}
         /\ Over(q, ends) => Over(Tail(q), ends) \/ (Tail(q) = <<>> /\ Head(q) \in ends \ {"None"})
<1>1. /\ Tail(q) \in Seq(Events) /\ Len(Tail(q)) = Len(q) - 1 /\ Len(q) \in Nat
      /\ Head(q) = q[1] /\ 1 \in 1..Len(q)
      /\ \A i \in 1..Len(Tail(q)) : Tail(q)[i] = q[i + 1] /\ i + 1 \in 1..Len(q)
  OBVIOUS
<1>2. Tail(q) = <<>> <=> Len(Tail(q)) = 0
  BY <1>1, EmptySeq
<1>3. Head(q) # "None"
  BY <1>1 DEF NoneFirst
<1>4. InOrder(Tail(q), ends)
  <2>1. SUFFICES ASSUME NEW i \in 2..Len(Tail(q)), Tail(q)[i] = "None"
                 PROVE  Tail(q)[i - 1] \in ends
    BY DEF InOrder
  <2>2. i + 1 \in 2..Len(q) /\ q[i + 1] = "None" /\ (i + 1) - 1 = i /\ (i - 1) + 1 = i
        /\ i - 1 \in 1..Len(Tail(q))
    BY <1>1, <2>1
  <2>3. Tail(q)[i - 1] = q[i]
    BY <1>1, <2>2
  <2>4. QED
    BY <2>2, <2>3 DEF InOrder
<1>5. NoneFirst(Tail(q)) => Head(q) \in ends
  <2>1. SUFFICES ASSUME NoneFirst(Tail(q)) PROVE Head(q) \in ends
    OBVIOUS
  <2>2. Tail(q)[1] = "None" /\ 1 \in 1..Len(Tail(q))
    BY <1>1, <2>1 DEF NoneFirst
  <2>3. q[2] = "None" /\ 2 \in 2..Len(q)
    BY <1>1, <2>2
  <2>4. QED
    BY <1>1, <2>3 DEF InOrder
<1>6. Over(q, ends) => Over(Tail(q), ends) \/ (Tail(q) = <<>> /\ Head(q) \in ends)
  <2>1. CASE Tail(q) = <<>>
    <3>1. Len(q) = 1
      BY <1>1, <1>2, <2>1
    <3>2. QED
      BY <1>1, <1>3, <2>1, <3>1 DEF Over
  <2>2. CASE Tail(q) # <<>>
    <3>1. Len(Tail(q)) \in 1..Len(Tail(q)) /\ Len(Tail(q)) + 1 = Len(q)
      BY <1>1, <1>2, <2>2
    <3>2. Tail(q)[Len(Tail(q))] = q[Len(q)]
      BY <1>1, <3>1
    <3>3. QED
      BY <2>2, <3>2 DEF Over
  <2>3. QED
    BY <2>1, <2>2
<1>7. QED
  BY <1>3, <1>4, <1>5, <1>6

LEMMA NoneIn ==
  ASSUME NEW q \in Seq(Events), NEW s \in Seq(Events)
  PROVE  /\ HasNone(q \o s) <=> HasNone(q) \/ HasNone(s)
         /\ q # <<>> => (HasNone(q) <=> Head(q) = "None" \/ HasNone(Tail(q)))
         /\ ~HasNone(<<>>)
<1>1. /\ Len(q \o s) = Len(q) + Len(s) /\ Len(q) \in Nat /\ Len(s) \in Nat
      /\ \A i \in 1..Len(q) : (q \o s)[i] = q[i] /\ i \in 1..Len(q \o s)
      /\ \A i \in 1..Len(s) : (q \o s)[Len(q) + i] = s[i] /\ Len(q) + i \in 1..Len(q \o s)
  OBVIOUS
<1>2. HasNone(q \o s) => HasNone(q) \/ HasNone(s)
  <2>1. SUFFICES ASSUME NEW i \in 1..Len(q \o s), (q \o s)[i] = "None"
                 PROVE  HasNone(q) \/ HasNone(s)
    BY DEF HasNone
  <2>2. CASE i <= Len(q)
    BY <1>1, <2>1, <2>2 DEF HasNone
  <2>3. CASE i > Len(q)
    <3>1. i - Len(q) \in 1..Len(s) /\ Len(q) + (i - Len(q)) = i
      BY <1>1, <2>3
    <3>2. s[i - Len(q)] = "None"
      BY <1>1, <2>1, <3>1
    <3>3. QED
      BY <3>1, <3>2 DEF HasNone
  <2>4. QED
    BY <1>1, <2>2, <2>3
<1>3. HasNone(q) \/ HasNone(s) => HasNone(q \o s)
  BY <1>1 DEF HasNone
<1>4. ASSUME q # <<>> PROVE HasNone(q) <=> Head(q) = "None" \/ HasNone(Tail(q))
  <2>1. /\ Len(Tail(q)) = Len(q) - 1 /\ Head(q) = q[1] /\ 1 \in 1..Len(q)
        /\ \A i \in 1..Len(Tail(q)) : Tail(q)[i] = q[i + 1] /\ i + 1 \in 1..Len(q)
    BY <1>4
  <2>2. \A i \in 1..Len(q) : i # 1 => i - 1 \in 1..Len(Tail(q)) /\ (i - 1) + 1 = i
    BY <1>1, <2>1
  <2>3. \A i \in 1..Len(q) : i # 1 => Tail(q)[i - 1] = q[i]
    BY <2>1, <2>2
  <2>4. HasNone(q) => Head(q) = "None" \/ HasNone(Tail(q))
    BY <2>1, <2>2, <2>3 DEF HasNone
  <2>5. Head(q) = "None" \/ HasNone(Tail(q)) => HasNone(q)
    BY <2>1 DEF HasNone
  <2>6. QED
    BY <2>4, <2>5
<1>5. ~HasNone(<<>>)
  BY DEF HasNone
<1>6. QED
  BY <1>2, <1>3, <1>4, <1>5

LEMMA QuietIsInOrder ==
  ASSUME NEW q \in Seq(Events), NEW ends, ~HasNone(q)
  PROVE  InOrder(q, ends) /\ ~NoneFirst(q)
<1>1. \A i \in 2..Len(q) : i \in 1..Len(q)
  OBVIOUS
<1>2. q # <<>> => 1 \in 1..Len(q)
  OBVIOUS
<1>3. QED
  BY <1>1, <1>2 DEF HasNone, InOrder, NoneFirst

LEMMA ChunkIn ==
  ASSUME NEW q \in Seq(Events), NEW s \in Seq(Events)
  PROVE  /\ HasChunk(q) => HasChunk(q \o s)
         /\ ~HasNone(q) /\ HasChunk(s) => HasChunk(q \o s)
         /\ q # <<>> /\ HasChunk(q) =>
              Head(q) = "RAG_CHUNK" \/ (Head(q) # "None" /\ HasChunk(Tail(q)))
<1>1. /\ Len(q \o s) = Len(q) + Len(s) /\ Len(q) \in Nat /\ Len(s) \in Nat
      /\ \A i \in 1..Len(q) : (q \o s)[i] = q[i] /\ i \in 1..Len(q \o s)
      /\ \A i \in 1..Len(s) : (q \o s)[Len(q) + i] = s[i] /\ Len(q) + i \in 1..Len(q \o s)
  OBVIOUS
<1>2. HasChunk(q) => HasChunk(q \o s)
  <2>1. SUFFICES ASSUME NEW i \in 1..Len(q), q[i] = "RAG_CHUNK",
                        \A j \in 1..(i - 1) : q[j] # "None"
                 PROVE  HasChunk(q \o s)
    BY DEF HasChunk
  <2>2. \A j \in 1..(i - 1) : (q \o s)[j] # "None"
    BY <1>1, <2>1
  <2>3. QED
    BY <1>1, <2>1, <2>2 DEF HasChunk
<1>3. ~HasNone(q) /\ HasChunk(s) => HasChunk(q \o s)
  <2>1. SUFFICES ASSUME ~HasNone(q), NEW i \in 1..Len(s), s[i] = "RAG_CHUNK",
                        \A j \in 1..(i - 1) : s[j] # "None"
                 PROVE  HasChunk(q \o s)
    BY DEF HasChunk
  <2>2. ASSUME NEW j \in 1..((Len(q) + i) - 1) PROVE (q \o s)[j] # "None"
    <3>1. CASE j \in 1..Len(q)
      BY <1>1, <2>1, <3>1 DEF HasNone
    <3>2. CASE j \notin 1..Len(q)
      <4>1. j - Len(q) \in 1..(i - 1) /\ j - Len(q) \in 1..Len(s) /\ Len(q) + (j - Len(q)) = j
        BY <1>1, <2>1, <2>2, <3>2
      <4>2. s[j - Len(q)] # "None" /\ (q \o s)[Len(q) + (j - Len(q))] = s[j - Len(q)]
        BY <1>1, <2>1, <4>1
      <4>3. QED
        BY <4>1, <4>2
    <3>3. QED
      BY <3>1, <3>2
  <2>3. QED
    BY <1>1, <2>1, <2>2 DEF HasChunk
<1>4. ASSUME q # <<>>, HasChunk(q)
      PROVE  Head(q) = "RAG_CHUNK" \/ (Head(q) # "None" /\ HasChunk(Tail(q)))
  <2>1. /\ Len(Tail(q)) = Len(q) - 1 /\ Head(q) = q[1] /\ 1 \in 1..Len(q)
        /\ \A i \in 1..Len(Tail(q)) : Tail(q)[i] = q[i + 1] /\ i + 1 \in 1..Len(q)
    BY <1>4
  <2>2. PICK i \in 1..Len(q) : q[i] = "RAG_CHUNK" /\ \A j \in 1..(i - 1) : q[j] # "None"
    BY <1>4 DEF HasChunk
  <2>3. CASE i = 1
    BY <2>1, <2>2, <2>3
  <2>4. CASE i # 1
    <3>1. i - 1 \in 1..Len(Tail(q)) /\ (i - 1) + 1 = i /\ 1 \in 1..(i - 1)
      BY <1>1, <2>1, <2>2, <2>4
    <3>2. Tail(q)[i - 1] = "RAG_CHUNK" /\ Head(q) # "None"
      BY <2>1, <2>2, <3>1
    <3>3. ASSUME NEW j \in 1..((i - 1) - 1) PROVE Tail(q)[j] # "None"
      <4>1. j \in 1..Len(Tail(q)) /\ j + 1 \in 1..(i - 1)
        BY <3>1, <3>3
      <4>2. QED
        BY <2>1, <2>2, <4>1
    <3>4. QED
      BY <3>1, <3>2, <3>3 DEF HasChunk
  <2>5. QED
    BY <2>3, <2>4
<1>5. QED
  BY <1>2, <1>3, <1>4

-----------------------------------------------------------------------------
(* What every step may use. *)

ReaderType == [state : {"idle", "waiting", "holding", "ended", "gone"}, at : Requests]
SessionType == [status : {"none", "running", "paused", "done", "error"},
                cancelled : BOOLEAN, events : Requests]

Outcomes == {"none", "paused", "done", "error"}
Words == {"none"} \cup (Events \ {"None"})

LEMMA SessionIs ==
  ASSUME TypeOK
  PROVE  /\ session \in SessionType /\ step \in Nat /\ LastStep \in Nat /\ step <= LastStep
         /\ task \in [Requests -> TaskStates] /\ queue \in [Requests -> Seq(Events)]
         /\ reader \in [Readers -> ReaderType] /\ told \in [Readers -> Words]
         /\ outcome \in [Requests -> Outcomes]
         /\ scored \subseteq Subscribers
         /\ session.events \in Requests /\ 1 \in Requests
         /\ \A r \in Requests : r \in Nat /\ r >= 1 /\ (r # 1 => r \in Clients /\ r \in Readers)
         /\ \A r \in Clients : r \in Requests /\ r \in Readers /\ r # 1
         /\ \A x \in Subscribers : x \in Readers
         /\ \A x \in Readers : reader[x].at \in Requests /\ (x \in Subscribers \/ x \in Clients)
<1>1. /\ session \in SessionType /\ step \in Nat /\ LastStep \in Nat /\ step <= LastStep
      /\ task \in [Requests -> TaskStates] /\ queue \in [Requests -> Seq(Events)]
      /\ reader \in [Readers -> ReaderType] /\ scored \subseteq Subscribers
  BY GraphqlAskAssumption DEF TypeOK, SessionType, ReaderType
<1>2. told \in [Readers -> Words] /\ outcome \in [Requests -> Outcomes]
  BY Zenon DEF TypeOK, Words, Outcomes
<1>3. /\ 1 \in Requests
      /\ \A r \in Requests : r \in Nat /\ r >= 1 /\ (r # 1 => r \in Clients /\ r \in Readers)
      /\ \A r \in Clients : r \in Requests /\ r \in Readers /\ r # 1
      /\ \A x \in Subscribers : x \in Readers
  BY GraphqlAskAssumption DEF Requests, Clients, Readers
<1>4. /\ session.events \in Requests
      /\ \A x \in Readers : reader[x].at \in Requests /\ (x \in Subscribers \/ x \in Clients)
  BY <1>1 DEF SessionType, ReaderType, Readers
<1>5. QED
  BY <1>1, <1>2, <1>3, <1>4

\* Requests have numbers, subscriptions have not.
LEMMA Disjoint == \A x \in Subscribers : x \notin Clients
<1>1. Clients \subseteq Nat
  BY GraphqlAskAssumption DEF Clients
<1>2. QED
  BY <1>1, GraphqlAskAssumption

\* Who reads alone has not been joined, and shares no queue.
LEMMA SoleBefore ==
  ASSUME TypeOK, NEW x \in Readers, Sole(x)',
         \A y \in Readers \ {x} : reader'[y].state = "idle" => reader[y].state = "idle",
         \A y \in Subscribers : reader'[y].at \in Requests /\ reader[y].at <= reader'[y].at
  PROVE  Sole(x)
<1>1. SUFFICES ASSUME NEW y \in Readers \ {x}, reader[y].state # "idle", ~({x, y} \subseteq Clients)
               PROVE  \/ x \in Subscribers /\ y \in Clients /\ reader[x].at < y
                      \/ x \in Clients /\ y \in Subscribers /\ reader[y].at < x
  BY DEF Sole
<1>2. \/ x \in Subscribers /\ y \in Clients /\ reader'[x].at < y
      \/ x \in Clients /\ y \in Subscribers /\ reader'[y].at < x
  BY <1>1 DEF Sole
<1>3. \A r \in Requests : r \in Nat
  BY SessionIs
<1>4. CASE x \in Subscribers /\ y \in Clients /\ reader'[x].at < y
  BY <1>3, <1>4, SessionIs
<1>5. CASE x \in Clients /\ y \in Subscribers /\ reader'[y].at < x
  BY <1>3, <1>5, SessionIs
<1>6. QED
  BY <1>2, <1>4, <1>5

LEMMA SoleApart ==
  ASSUME TypeOK, Places, NEW x \in Readers, NEW y \in Readers, x # y,
         Sole(y), reader[x].state # "idle", y \in Clients => reader[y].state # "idle"
  PROVE  reader[y].at # reader[x].at
<1>1. \/ {x, y} \subseteq Clients
      \/ y \in Subscribers /\ x \in Clients /\ reader[y].at < x
      \/ y \in Clients /\ x \in Subscribers /\ reader[x].at < y
  BY DEF Sole
<1>2. /\ x \in Clients => reader[x].at = x
      /\ y \in Clients => reader[y].at = y
  BY DEF Places
<1>3. reader[x].at \in Nat /\ reader[y].at \in Nat
  BY SessionIs
<1>4. QED
  BY <1>1, <1>2, <1>3

LEMMA SoleAtOne ==
  ASSUME TypeOK, Turns, Places, NEW x \in Subscribers, Sole(x)
  PROVE  reader[x].at = 1
<1> PICK r : r = reader[x].at
  OBVIOUS
<1>1. r \in Requests /\ r <= session.events /\ x \in Readers /\ x \notin Clients
  BY SessionIs, Disjoint DEF Places
<1>2. SUFFICES ASSUME r # 1 PROVE FALSE
  OBVIOUS
<1>3. r \in Clients /\ r \in Readers /\ r # x
  BY <1>1, <1>2, SessionIs
<1>4. CASE session.status = "none"
  BY <1>1, <1>2, <1>4, SessionIs DEF Turns
<1>5. CASE session.status # "none"
  <2>1. task[r] # "idle"
    BY <1>1, <1>5, SessionIs DEF Turns
  <2>2. reader[r].state # "idle"
    BY <1>3, <2>1 DEF Places
  <2>3. reader[x].at < r \/ FALSE
    BY <1>1, <1>3, <2>2, Disjoint DEF Sole
  <2>4. QED
    BY <1>1, <2>3, SessionIs
<1>6. QED
  BY <1>4, <1>5

-----------------------------------------------------------------------------
(* A turn of a task: request r sends s, and who is told by another queue than *)
(* its own has lost a race.                                                   *)

Sends(r, s) ==
  /\ queue' \in [Requests -> Seq(Events)] /\ task' \in [Requests -> TaskStates]
  /\ session' \in SessionType /\ session'.events = session.events
  /\ step' \in 0..LastStep /\ step <= step'
  /\ outcome' \in [Requests -> Outcomes]
  /\ UNCHANGED Reading
  /\ queue'[r] = queue[r] \o s
  /\ task[r] # "idle" /\ task'[r] # "idle" /\ session.status # "none" /\ session'.status # "none"
  /\ \A q \in Requests \ {r} :
       /\ task'[q] = task[q] /\ outcome'[q] = outcome[q]
       /\ \/ queue'[q] = queue[q]
          \/ /\ task[q] \in {"refused", "rejected"}
             /\ queue'[q] = queue[q] \o <<"None">>
  /\ step' # step => task[r] \in Runs

\* What request r sends leaves its queue in order.
Orderly(r, s) ==
  /\ task[r] \notin {"refused", "rejected"}
  /\ InOrder(s, Ends(r)') /\ (NoneFirst(s) => Spent(r))
  /\ Spent(r)' => Over(s, Ends(r)') \/ (s = <<>> /\ Spent(r))
  /\ \/ Finals(r) \subseteq Finals(r)'
     \/ task[r] \in Waits /\ s # <<>> /\ ~NoneFirst(s)

LEMMA FinalsKept ==
  ASSUME NEW r, outcome'[r] = outcome[r], task'[r] = "broken" <=> task[r] = "broken"
  PROVE  Finals(r)' = Finals(r)
BY DEF Finals, Final

\* Nothing changes for a reader whose queue and request do not.
LEMMA ToldKept ==
  ASSUME NEW y \in Readers, NEW r, r = reader[y].at, Told(y),
         reader'[y].at = r, told'[y] = told[y], queue'[r] = queue[r], outcome'[r] = outcome[r],
         task'[r] = "broken" <=> task[r] = "broken", Spent(r)' => Spent(r),
         reader'[y].state = "ended" => reader[y].state = "ended",
         reader'[y].state \in {"idle", "waiting", "holding"} =>
           reader[y].state \in {"idle", "waiting", "holding"}
  PROVE  Told(y)'
<1>1. Finals(r)' = Finals(r) /\ Ends(r)' = Ends(r)
  BY FinalsKept DEF Ends
<1>2. Heard(y)' <=> Heard(y)
  BY <1>1, Zenon DEF Heard, Shown
<1>3. QED
  BY <1>1, <1>2, Zenon DEF Told

LEMMA TurnTells ==
  ASSUME IInv, NEW r \in Requests, NEW s \in Seq(Events), Sends(r, s),
         task'[r] \in {"refused", "rejected"} \/ Orderly(r, s)
  PROVE  Tells'
<1>1. /\ reader' = reader /\ told' = told
      /\ queue \in [Requests -> Seq(Events)]
      /\ \A x \in Readers : reader[x].at \in Requests
  BY SessionIs DEF IInv, Sends, Reading
<1>2. SUFFICES ASSUME NEW x \in Readers, Sole(x)',
                      task'[reader[x].at] \notin {"refused", "rejected"},
                      x \in Clients => reader[x].state # "idle"
               PROVE  Told(x)'
  BY <1>1 DEF Tells
<1>3. Sole(x)
  BY <1>1, <1>2 DEF Sole
<1> PICK q : q = reader[x].at
  OBVIOUS
<1>4. q \in Requests /\ reader'[x] = reader[x] /\ told'[x] = told[x]
  BY <1>1
<1>5. CASE q = r
  <2> PICK w, e, f, heard : /\ w = queue[r] /\ e = Ends(r) /\ f = Ends(r)'
                            /\ heard = (Heard(x)')
    OBVIOUS
  <2>1. Told(x) /\ Orderly(r, s)
    <3>1. task'[r] \notin {"refused", "rejected"}
      BY <1>2, <1>5
    <3>2. Orderly(r, s) /\ task[r] \notin {"refused", "rejected"}
      BY <3>1 DEF Orderly
    <3>3. QED
      BY <1>2, <1>3, <1>5, <3>2 DEF IInv, Tells
  <2>2. queue'[r] = w \o s /\ w \in Seq(Events)
    BY <1>1 DEF Sends
  <2>3. /\ InOrder(s, f) /\ (NoneFirst(s) => Spent(r))
        /\ Spent(r)' => Over(s, f) \/ (s = <<>> /\ Spent(r))
    BY <2>1, Zenon DEF Orderly
  <2>4. CASE Finals(r) \subseteq Finals(r)'
    <3>1. e \subseteq f /\ (Heard(x) => heard)
      BY <1>4, <1>5, <2>4, Zenon DEF Ends, Heard, Shown
    <3>2. ASSUME reader[x].state \in {"idle", "waiting", "holding"}
          PROVE  /\ InOrder(w \o s, f) /\ (NoneFirst(w \o s) => heard)
                 /\ Spent(r)' => Over(w \o s, f) \/ (w \o s = <<>> /\ heard)
      <4>1. /\ InOrder(w, e) /\ (NoneFirst(w) => Heard(x))
            /\ Spent(r) => Over(w, e) \/ (w = <<>> /\ Heard(x))
        BY <1>5, <2>1, <3>2, Zenon DEF Told
      <4>2. /\ InOrder(w, f) /\ (NoneFirst(w) => heard)
            /\ Spent(r) => Over(w, f) \/ (w = <<>> /\ heard)
        BY <3>1, <4>1 DEF InOrder, Over
      <4>3. /\ NoneFirst(s) => w = <<>> \/ Over(w, f)
            /\ w = <<>> => ~Over(w, f)
        BY <2>3, <4>2 DEF Over
      <4>4. InOrder(w \o s, f)
        BY <2>2, <2>3, <4>2, <4>3, AppendInOrder
      <4>5. /\ NoneFirst(w \o s) => NoneFirst(w) \/ (w = <<>> /\ NoneFirst(s))
            /\ Over(w \o s, f) <=> Over(s, f) \/ (s = <<>> /\ Over(w, f))
            /\ w \o s = <<>> <=> w = <<>> /\ s = <<>>
        BY <2>2, AppendInOrder
      <4>6. QED
        BY <2>3, <4>2, <4>3, <4>4, <4>5
    <3>3. reader[x].state = "ended" => heard
      BY <2>1, <3>1 DEF Told
    <3>4. QED
      BY <1>4, <1>5, <2>2, <3>2, <3>3, Zenon DEF Told
  <2>5. CASE task[r] \in Waits /\ s # <<>> /\ ~NoneFirst(s)
    <3>1. ~HasNone(w) /\ reader[x].state # "ended"
      BY <1>5, <2>5 DEF IInv, Closes, Closed
    <3>2. InOrder(w, f) /\ ~NoneFirst(w)
      BY <2>2, <3>1, QuietIsInOrder
    <3>3. InOrder(w \o s, f)
      BY <2>2, <2>3, <2>5, <3>2, AppendInOrder
    <3>4. /\ ~NoneFirst(w \o s)
          /\ Over(w \o s, f) <=> Over(s, f) \/ (s = <<>> /\ Over(w, f))
      BY <2>2, <2>5, <3>2, AppendInOrder
    <3>5. Spent(r)' => Over(w \o s, f)
      BY <2>3, <2>5, <3>4
    <3>6. QED
      BY <1>4, <1>5, <2>2, <3>1, <3>3, <3>4, <3>5, Zenon DEF Told
  <2>6. QED
    BY <2>1, <2>4, <2>5 DEF Orderly
<1>6. CASE q # r
  <2>1. task'[q] = task[q] /\ queue'[q] = queue[q] /\ outcome'[q] = outcome[q]
    BY <1>2, <1>4, <1>6 DEF Sends
  <2>2. Told(x)
    BY <1>2, <1>3, <2>1 DEF IInv, Tells
  <2>3. Spent(q)' => Spent(q)
    BY <1>4, <1>6, <2>1 DEF IInv, Turns, Sends, Spent, Runs
  <2>4. QED
    BY <1>4, <2>1, <2>2, <2>3, ToldKept
<1>7. QED
  BY <1>5, <1>6

LEMMA TurnCloses ==
  ASSUME IInv, NEW r \in Requests, NEW s \in Seq(Events), Sends(r, s),
         task'[r] \in Waits => task[r] \in Waits /\ ~HasNone(s),
         task'[r] \in {"finished", "broken", "rejected"} \/ (r = 1 /\ task'[r] = "closing") =>
           HasNone(s) \/ Closed(r)
  PROVE  Closes'
<1>1. reader' = reader /\ queue \in [Requests -> Seq(Events)]
  BY SessionIs DEF IInv, Sends, Reading
<1>2. SUFFICES ASSUME NEW q \in Requests
               PROVE  /\ task'[q] = "idle" => queue'[q] = <<>>
                      /\ task'[q] \in Waits => ~Closed(q)'
                      /\ task'[q] \in {"finished", "broken", "rejected"} => Closed(q)'
                      /\ task'[q] = "closing" /\ q = 1 => Closed(q)'
  BY DEF Closes
<1>3. /\ task[q] = "idle" => queue[q] = <<>>
      /\ task[q] \in Waits => ~Closed(q)
      /\ task[q] \in {"finished", "broken", "rejected"} => Closed(q)
      /\ task[q] = "closing" /\ q = 1 => Closed(q)
  BY DEF IInv, Closes
<1>4. CASE q = r
  <2>1. Closed(r)' <=> Closed(r) \/ HasNone(s)
    BY <1>1, NoneIn DEF Closed, Sends
  <2>2. QED
    BY <1>3, <1>4, <2>1 DEF Sends
<1>5. CASE q # r /\ queue'[q] = queue[q]
  <2>1. task'[q] = task[q] /\ (Closed(q)' <=> Closed(q))
    BY <1>1, <1>5 DEF Closed, Sends
  <2>2. QED
    BY <1>3, <1>5, <2>1
<1>6. CASE q # r /\ queue'[q] # queue[q]
  <2>1. /\ task'[q] = task[q] /\ task[q] \in {"refused", "rejected"}
        /\ queue'[q] = queue[q] \o <<"None">>
    BY <1>6 DEF Sends
  <2>2. Closed(q) => Closed(q)'
    <3> PICK e : e = <<"None">>
      OBVIOUS
    <3>1. e \in Seq(Events) /\ queue[q] \in Seq(Events)
      BY <1>1, Singles DEF Events
    <3>2. HasNone(queue[q]) => HasNone(queue[q] \o e)
      BY <3>1, NoneIn
    <3>3. QED
      BY <1>1, <2>1, <3>2 DEF Closed
  <2>3. QED
    BY <1>3, <2>1, <2>2 DEF Waits
<1>7. QED
  BY <1>4, <1>5, <1>6

LEMMA TurnScores ==
  ASSUME IInv, NEW r \in Requests, NEW s \in Seq(Events), Sends(r, s),
         step' # step => HasChunk(s)
  PROVE  Scores'
<1>1. /\ reader' = reader /\ scored' = scored
      /\ queue \in [Requests -> Seq(Events)] /\ step \in Nat
      /\ \A q \in Requests : q # 1 => q \in Clients
      /\ \A q \in Clients : q \in Requests
      /\ \A x \in Subscribers : x \in Readers
  BY SessionIs DEF IInv, Sends, Reading
<1>2. SUFFICES ASSUME NEW x \in Subscribers, Sole(x)', step' > 0, reader[x].state # "gone",
                      \A q \in Clients : task'[q] = "idle"
               PROVE  x \in scored \/ (reader[x].state # "ended" /\ HasChunk(queue'[1]))
  BY <1>1 DEF Scores
<1>3. r = 1
  BY <1>1, <1>2 DEF Sends
<1>4. Sole(x) /\ \A q \in Clients : task[q] = "idle"
  BY <1>1, <1>2, <1>3 DEF Sole, Sends
<1>5. queue[1] \in Seq(Events) /\ queue'[1] = queue[1] \o s
  BY <1>1, <1>3 DEF Sends
<1>6. CASE step > 0
  <2>1. x \in scored \/ (reader[x].state # "ended" /\ HasChunk(queue[1]))
    BY <1>2, <1>4, <1>6 DEF IInv, Scores
  <2>2. QED
    BY <1>5, <2>1, ChunkIn
<1>7. CASE ~(step > 0)
  <2>1. task[1] \in Runs /\ HasChunk(s)
    BY <1>1, <1>2, <1>3, <1>7 DEF Sends
  <2>2. ~Closed(1)
    BY <1>3, <2>1 DEF IInv, Closes, Runs, Waits
  <2>3. reader[x].at = 1
    BY <1>4, SoleAtOne DEF IInv
  <2>4. QED
    BY <1>1, <1>5, <2>1, <2>2, <2>3, ChunkIn DEF Closed
<1>8. QED
  BY <1>6, <1>7

LEMMA TurnKeeps ==
  ASSUME IInv, NEW r \in Requests, NEW s \in Seq(Events), Sends(r, s), Turns',
         task'[r] \in {"refused", "rejected"} \/ Orderly(r, s),
         task'[r] \in Waits => task[r] \in Waits /\ ~HasNone(s),
         task'[r] \in {"finished", "broken", "rejected"} \/ (r = 1 /\ task'[r] = "closing") =>
           HasNone(s) \/ Closed(r),
         step' # step => HasChunk(s),
         task'[r] \in Waits => outcome'[r] = outcome[r]
  PROVE  IInv'
<1>1. TypeOK'
  BY DEF IInv, TypeOK, Sends, SessionType, Outcomes, Reading
<1>2. Places'
  <2>1. /\ reader' = reader /\ session'.events = session.events
        /\ session.status # "none" /\ session'.status # "none"
        /\ \A q \in Clients : task'[q] = "idle" <=> task[q] = "idle"
    BY SessionIs DEF IInv, Sends, Reading
  <2>2. QED
    BY <2>1 DEF IInv, Places
<1>3. Tells'
  BY TurnTells
<1>4. Closes'
  BY TurnCloses
<1>5. Scores'
  BY TurnScores
<1>6. Pending'
  BY DEF IInv, Pending, Sends
<1>7. QED
  BY <1>1, <1>2, <1>3, <1>4, <1>5, <1>6 DEF IInv

LEMMA RunStartKeeps ==
  ASSUME IInv, NEW r \in Requests, RunStart(r)
  PROVE  IInv'
<1> PICK s : s = IF r = 1 THEN <<>> ELSE <<"STATUS">>
  OBVIOUS
<1>1. /\ session \in SessionType /\ task \in [Requests -> TaskStates]
      /\ queue \in [Requests -> Seq(Events)] /\ step \in 0..LastStep
      /\ \A q \in Requests : q \in Nat /\ q >= 1
      /\ 1 \in Requests /\ session.events \in Requests
  BY SessionIs DEF IInv, TypeOK
<1>2. /\ s \in Seq(Events) /\ queue' \in [Requests -> Seq(Events)]
      /\ queue'[r] = queue[r] \o s /\ \A q \in Requests \ {r} : queue'[q] = queue[q]
  <2>1. queue[r] \in Seq(Events) /\ "STATUS" \in Events /\ s \in Seq(Events)
    BY <1>1, Singles DEF Events
  <2>2. CASE r = 1
    <3>1. queue' = queue /\ s = <<>>
      BY <2>2 DEF RunStart
    <3>2. QED
      BY <1>1, <2>1, <3>1, ConcatEmptySeq
  <2>3. CASE r # 1
    <3>1. queue' = [queue EXCEPT ![r] = Append(@, "STATUS")] /\ s = <<"STATUS">>
      BY <2>3 DEF RunStart
    <3>2. Append(queue[r], "STATUS") = queue[r] \o <<"STATUS">>
      BY <2>1, AppendIsConcat
    <3>3. Append(queue[r], "STATUS") \in Seq(Events)
      BY <2>1
    <3>4. QED
      BY <1>1, <2>1, <3>1, <3>2, <3>3
  <2>4. QED
    BY <2>2, <2>3
<1>3. /\ task[r] = "created" /\ step' = step /\ outcome' = outcome /\ UNCHANGED Reading
      /\ \/ /\ r = 1 \/ session.status = "paused"
            /\ session' = [session EXCEPT !.status = "running", !.cancelled = FALSE]
            /\ task' = [task EXCEPT ![r] = "started"]
         \/ /\ r # 1 /\ session.status # "paused"
            /\ task' = [task EXCEPT ![r] = "refused"] /\ session' = session
  BY DEF RunStart
<1>4. Turns
  BY DEF IInv
<1>5. session.status # "none" /\ r <= session.events
  BY <1>1, <1>3, <1>4, SMTT(20) DEF Turns
<1>6. Sends(r, s)
  <2>1. /\ task' \in [Requests -> TaskStates] /\ session' \in SessionType
        /\ session'.events = session.events /\ session'.status # "none"
        /\ task'[r] # "idle" /\ \A q \in Requests \ {r} : task'[q] = task[q]
    BY <1>1, <1>3, <1>5 DEF SessionType, TaskStates
  <2>2. step <= step' /\ outcome' \in [Requests -> Outcomes]
    BY <1>1, <1>3, SessionIs DEF IInv
  <2>3. QED
    BY <1>1, <1>2, <1>3, <1>5, <2>1, <2>2 DEF Sends
<1>7. Turns'
  <2>1. CASE task'[r] = "started"
    <3>1. /\ task' = [task EXCEPT ![r] = "started"]
          /\ session' = [session EXCEPT !.status = "running", !.cancelled = FALSE]
          /\ r = 1 \/ session.status = "paused"
      BY <1>1, <1>3, <2>1
    <3>2. session'.status = "running" /\ session'.events = session.events
      BY <1>1, <3>1 DEF SessionType
    <3>3. \A q \in Requests : task[q] \notin Runs
      <4>1. CASE r = 1
        BY <1>1, <1>3, <1>4, <4>1, SMTT(20) DEF Turns, Runs, Waits
      <4>2. CASE r # 1
        BY <1>4, <3>1, <4>2 DEF Turns
      <4>3. QED
        BY <4>1, <4>2
    <3>4. \A q \in Requests : task'[q] \in Runs => q = r
      BY <1>1, <3>1, <3>3
    <3>5. r # 1 => task[1] \notin Waits
      BY <1>1, <1>4, <1>5 DEF Turns
    <3>6. task'[session.events] \in Runs \cup {"created", "refused", "rejected"}
      BY <1>1, <1>3, <1>4, <3>1 DEF Turns, Runs
    <3>7. \A q \in Requests : task'[q] = "idle" <=> task[q] = "idle"
      BY <1>1, <1>3, <3>1
    <3>8. r = 1 => session.events = 1
      BY <1>1, <1>3, <1>4 DEF Turns, Waits
    <3>9. /\ task'[1] \in Waits => session.events = 1
          /\ task'[1] \notin {"refused", "broken", "rejected"}
      BY <1>1, <1>4, <3>1, <3>5, <3>8 DEF Turns
    <3>10. QED
      BY <1>1, <1>4, <1>5, <3>2, <3>4, <3>6, <3>7, <3>9 DEF Turns
  <2>2. CASE task'[r] # "started"
    <3>1. /\ r # 1 /\ task' = [task EXCEPT ![r] = "refused"] /\ session' = session
      BY <1>1, <1>3, <2>2
    <3>2. /\ task'[1] = task[1] /\ task'[r] = "refused"
          /\ \A q \in Requests : q # r => task'[q] = task[q]
      BY <1>1, <3>1
    <3>3. task'[session.events] \in Runs \cup {"created", "refused", "rejected"}
      BY <1>1, <1>3, <1>4, <3>2 DEF Turns, Runs
    <3>4. QED
      BY <1>1, <1>3, <1>4, <3>1, <3>2, <3>3 DEF Turns, Runs
  <2>3. QED
    BY <2>1, <2>2
<1>8. ~HasNone(s)
  <2>1. CASE r = 1
    BY <2>1 DEF HasNone
  <2>2. CASE r # 1
    <3>1. s = <<"STATUS">> /\ Len(s) = 1 /\ s[1] = "STATUS"
      BY <2>2
    <3>2. QED
      BY <3>1 DEF HasNone
  <2>3. QED
    BY <2>1, <2>2
<1>9. task'[r] \in {"started", "refused"}
  BY <1>1, <1>3
<1>10. task'[r] = "refused" \/ Orderly(r, s)
  <2>1. SUFFICES ASSUME task'[r] = "started" PROVE Orderly(r, s)
    BY <1>9
  <2>2. Finals(r)' = Finals(r)
    BY <1>3, <2>1, FinalsKept
  <2>3. InOrder(s, Ends(r)') /\ ~NoneFirst(s)
    BY <1>2, <1>8, QuietIsInOrder
  <2>4. QED
    BY <1>3, <2>1, <2>2, <2>3 DEF Orderly, Spent
<1>11. QED
  BY <1>2, <1>3, <1>6, <1>7, <1>8, <1>9, <1>10, TurnKeeps DEF Waits

LEMMA SentIs ==
  ASSUME NEW k \in Nat
  PROVE  /\ Sent(k) \in Seq(Events) /\ ~HasNone(Sent(k))
         /\ k > 0 => HasChunk(Sent(k))
         /\ k = LastStep => Over(Sent(k), {"DONE"})
<1> PICK a, b : /\ a = IF k = 0 THEN <<>> ELSE <<"RAG_CHUNK">>
                /\ b = IF k = LastStep THEN <<"DONE">> ELSE <<>>
  OBVIOUS
<1>1. Sent(k) = a \o b
  BY DEF Sent
<1>2. /\ a \in Seq(Events) /\ \A i \in 1..Len(a) : a[i] # "None"
      /\ k > 0 => Len(a) = 1 /\ a[1] = "RAG_CHUNK"
  <2>1. CASE k = 0
    BY <2>1, Singles
  <2>2. CASE k # 0
    BY <2>2, Singles DEF Events
  <2>3. QED
    BY <2>1, <2>2
<1>3. /\ b \in Seq(Events) /\ \A i \in 1..Len(b) : b[i] # "None"
      /\ k = LastStep => b # <<>> /\ Len(b) = 1 /\ b[1] = "DONE"
  <2>1. CASE k # LastStep
    BY <2>1, Singles
  <2>2. CASE k = LastStep
    BY <2>2, Singles DEF Events
  <2>3. QED
    BY <2>1, <2>2
<1>4. ~HasNone(a) /\ ~HasNone(b)
  BY <1>2, <1>3 DEF HasNone
<1>5. a \o b \in Seq(Events) /\ ~HasNone(a \o b)
  BY <1>2, <1>3, <1>4, NoneIn, AppendInOrder
<1>6. k > 0 => HasChunk(a \o b)
  BY <1>2, <1>3, ChunkIn DEF HasChunk
<1>7. k = LastStep => Over(a \o b, {"DONE"})
  <2>1. k = LastStep => Over(b, {"DONE"})
    BY <1>3 DEF Over
  <2>2. QED
    BY <1>2, <1>3, <2>1, AppendInOrder
<1>8. QED
  BY <1>1, <1>5, <1>6, <1>7

\* What a run that ends sends into its own queue: an outcome, and None.
LEMMA EndIs ==
  ASSUME NEW d \in Seq(Events), ~HasNone(d), NEW n, n = <<"None">>, NEW ends, "None" \in ends
  PROVE  /\ d \o n \in Seq(Events) /\ HasNone(d \o n)
         /\ Over(d, ends) \/ d = <<>> => InOrder(d \o n, ends)
         /\ NoneFirst(d \o n) => d = <<>>
         /\ Over(d \o n, ends)
         /\ HasChunk(d) => HasChunk(d \o n)
<1>1. n \in Seq(Events) /\ Len(n) = 1 /\ n[1] = "None" /\ n # <<>>
  BY Singles DEF Events
<1>2. HasNone(n) /\ InOrder(n, ends) /\ Over(n, ends)
  BY <1>1 DEF HasNone, InOrder, Over
<1>3. InOrder(d, ends) /\ ~NoneFirst(d)
  BY QuietIsInOrder
<1>4. /\ d \o n \in Seq(Events) /\ Over(d \o n, ends)
      /\ Over(d, ends) \/ d = <<>> => InOrder(d \o n, ends)
      /\ NoneFirst(d \o n) => d = <<>>
  BY <1>1, <1>2, <1>3, AppendInOrder
<1>5. HasNone(d \o n) /\ (HasChunk(d) => HasChunk(d \o n))
  BY <1>1, <1>2, NoneIn, ChunkIn
<1>6. QED
  BY <1>4, <1>5

LEMMA Assoc ==
  ASSUME NEW a \in Seq(Events), NEW b \in Seq(Events), NEW c \in Seq(Events)
  PROVE  (a \o b) \o c = a \o (b \o c) /\ a \o b \in Seq(Events)
BY ConcatAssociative, ConcatProperties

LEMMA SaidIs ==
  ASSUME NEW r \in Requests, NEW ev \in Seq(Events), NEW terminal \in BOOLEAN, ~HasNone(ev),
         NEW d, d = Said(r, ev, terminal)
  PROVE  /\ d \in Seq(Events) /\ ~HasNone(d)
         /\ HasChunk(ev) => HasChunk(d)
         /\ ~terminal \/ r = 1 => d = ev
         /\ terminal /\ r # 1 => \A ends : "DONE" \in ends => Over(d, ends)
<1> PICK z : z = IF terminal /\ r # 1 THEN <<"DONE">> ELSE <<>>
  OBVIOUS
<1>1. d = ev \o z
  BY DEF Said
<1>2. z \in Seq(Events) /\ ~HasNone(z)
  <2>1. CASE terminal /\ r # 1
    <3>1. z \in Seq(Events) /\ Len(z) = 1 /\ z[1] = "DONE"
      BY <2>1, Singles DEF Events
    <3>2. QED
      BY <3>1 DEF HasNone
  <2>2. CASE ~(terminal /\ r # 1)
    <3>1. z = <<>>
      BY <2>2
    <3>2. QED
      BY <3>1, Singles, NoneIn
  <2>3. QED
    BY <2>1, <2>2
<1>3. ev \o z \in Seq(Events)
  BY <1>2, AppendInOrder
<1>4. ~HasNone(ev \o z)
  BY <1>2, NoneIn
<1>5. HasChunk(ev) => HasChunk(ev \o z)
  BY <1>2, ChunkIn
<1>6. ASSUME ~terminal \/ r = 1 PROVE d = ev
  <2>1. z = <<>>
    BY <1>6
  <2>2. QED
    BY <1>1, <2>1, ConcatEmptySeq
<1>7. ASSUME terminal, r # 1, NEW ends, "DONE" \in ends PROVE Over(d, ends)
  <2>1. Over(z, ends) /\ z # <<>>
    <3>1. Len(z) = 1 /\ z[1] = "DONE" /\ z # <<>>
      BY <1>7, Singles DEF Events
    <3>2. QED
      BY <1>7, <3>1 DEF Over
  <2>2. Over(ev \o z, ends) <=> Over(z, ends) \/ (z = <<>> /\ Over(ev, ends))
    BY <1>2, AppendInOrder
  <2>3. QED
    BY <1>1, <2>1, <2>2, Zenon
<1>8. QED
  BY <1>1, <1>3, <1>4, <1>5, <1>6, <1>7

\* A run that ends puts d into its own queue and None into the session's.
Puts(r, d, n) ==
  /\ n = <<"None">> /\ queue' \in [Requests -> Seq(Events)]
  /\ session.events = r => queue'[r] = queue[r] \o (d \o n)
  /\ session.events # r => queue'[r] = queue[r] \o d
  /\ \A q \in Requests \ {r} :
       queue'[q] = queue[q] \/ (q = session.events /\ queue'[q] = queue[q] \o n)

LEMMA FinishPuts ==
  ASSUME NEW r \in Requests, NEW ev, NEW terminal, NEW d \in Seq(Events),
         queue \in [Requests -> Seq(Events)], session.events \in Requests,
         Finish(r, ev, terminal), d = Said(r, ev, terminal), NEW n, n = <<"None">>
  PROVE  Puts(r, d, n)
<1> PICK e, a, g : e = session.events /\ a = queue[r] /\ g = [queue EXCEPT ![r] = @ \o d]
  OBVIOUS
<1>1. queue' = [g EXCEPT ![e] = Append(@, "None")]
  BY Zenon DEF Finish
<1>2. n \in Seq(Events) /\ "None" \in Events /\ a \in Seq(Events)
  BY Singles DEF Events
<1>3. a \o d \in Seq(Events) /\ (a \o d) \o n = a \o (d \o n)
  BY <1>2, Assoc
<1>4. /\ g \in [Requests -> Seq(Events)] /\ g[r] = a \o d
      /\ \A q \in Requests \ {r} : g[q] = queue[q]
  BY <1>3
<1> PICK b : b = Append(g[e], "None")
  OBVIOUS
<1>5. b = g[e] \o n /\ b \in Seq(Events)
  BY <1>2, <1>4, AppendIsConcat
<1>6. queue' = [g EXCEPT ![e] = b]
  BY <1>1
<1>7. /\ queue' \in [Requests -> Seq(Events)] /\ queue'[e] = b
      /\ \A q \in Requests : q # e => queue'[q] = g[q]
  BY <1>4, <1>5, <1>6
<1>8. (e = r => queue'[r] = (a \o d) \o n) /\ (e # r => queue'[r] = a \o d)
  BY <1>4, <1>5, <1>7
<1>9. ASSUME NEW q \in Requests \ {r}
      PROVE  queue'[q] = queue[q] \/ (q = e /\ queue'[q] = queue[q] \o n)
  <2>1. CASE q = e
    BY <1>4, <1>5, <1>7, <1>9, <2>1
  <2>2. CASE q # e
    BY <1>4, <1>7, <1>9, <2>2
  <2>3. QED
    BY <2>1, <2>2
<1>10. QED
  BY <1>3, <1>7, <1>8, <1>9 DEF Puts

LEMMA FinishKeeps ==
  ASSUME IInv, NEW r \in Requests, task[r] \in Runs, NoneCreated,
         NEW d \in Seq(Events),
         NEW n, Puts(r, d, n),
         outcome' \in [Requests -> Outcomes],
         \A q \in Requests \ {r} : outcome'[q] = outcome[q],
         ~HasNone(d),
         \/ Over(d, Ends(r)')
         \/ d = <<>> /\ Spent(r) /\ Finals(r)' = Finals(r),
         task' = [task EXCEPT ![r] = "closing"],
         session' \in SessionType, session'.events = session.events,
         session'.status \in {"paused", "done", "error"},
         step' \in 0..LastStep, step <= step', step' # step => HasChunk(d),
         UNCHANGED Reading
  PROVE  IInv'
<1> PICK s : s = IF session.events = r THEN d \o n ELSE d
  OBVIOUS
<1>1. (session.events = r => s = d \o n) /\ (session.events # r => s = d)
  OBVIOUS
<1>2. /\ session \in SessionType /\ task \in [Requests -> TaskStates]
      /\ queue \in [Requests -> Seq(Events)]
      /\ \A q \in Requests : q \in Nat /\ q >= 1
      /\ 1 \in Requests /\ session.events \in Requests
  BY SessionIs DEF IInv, TypeOK
<1>3. /\ queue' \in [Requests -> Seq(Events)]
      /\ queue'[r] = queue[r] \o s
      /\ \A q \in Requests \ {r} :
           \/ queue'[q] = queue[q]
           \/ q = session.events /\ queue'[q] = queue[q] \o n
  BY <1>1, Zenon DEF Puts
<1>4. Turns
  BY DEF IInv
<1>5. /\ session.status = "running" /\ \A q \in Requests : task[q] \in Runs => q = r
      /\ \A q \in Requests : task[q] # "created"
      /\ r <= session.events
      /\ session.events # r => task[session.events] \in {"refused", "rejected"}
  <2>1. session.status = "running" /\ \A q \in Requests : task[q] \in Runs => q = r
    BY <1>4 DEF Turns
  <2>2. \A q \in Requests : task[q] # "created"
    BY DEF NoneCreated
  <2>3. r <= session.events
    BY <1>2, <1>4, <2>1 DEF Turns, Runs
  <2>4. task[session.events] \in Runs \cup {"created", "refused", "rejected"}
    BY <1>4 DEF Turns
  <2>5. QED
    BY <1>2, <2>1, <2>2, <2>3, <2>4
<1>6. /\ task' \in [Requests -> TaskStates] /\ task'[r] = "closing"
      /\ \A q \in Requests \ {r} : task'[q] = task[q]
  BY <1>2 DEF TaskStates
<1>7. Sends(r, s)
  <2>1. ASSUME NEW q \in Requests \ {r}
        PROVE  \/ queue'[q] = queue[q]
               \/ task[q] \in {"refused", "rejected"} /\ queue'[q] = queue[q] \o <<"None">>
    <3>1. n = <<"None">>
      BY DEF Puts
    <3>2. q = session.events => task[q] \in {"refused", "rejected"}
      BY <1>5
    <3>3. QED
      BY <1>3, <3>1, <3>2, Zenon
  <2>2. /\ task[r] # "idle" /\ task'[r] # "idle"
        /\ session.status # "none" /\ session'.status # "none"
    BY <1>5, <1>6 DEF Runs
  <2>3. \A q \in Requests \ {r} : task'[q] = task[q]
    BY <1>6
  <2>4. QED
    BY <1>3, <1>6, <2>1, <2>2, <2>3, Zenon DEF Sends
<1>8. Turns'
  <2>1. \A q \in Requests : task'[q] \notin Runs \cup {"created"}
    BY <1>5, <1>6 DEF Runs
  <2>2. \A q \in Requests : task'[q] = "idle" <=> task[q] = "idle"
    BY <1>6 DEF Runs
  <2>3. task'[1] \notin Waits
    <3>1. CASE r = 1
      BY <1>6, <3>1 DEF Waits
    <3>2. CASE r # 1
      BY <1>2, <1>4, <1>5, <1>6, <3>2 DEF Turns
    <3>3. QED
      BY <3>1, <3>2
  <2>4. task'[1] \notin {"refused", "broken", "rejected"}
    BY <1>2, <1>4, <1>6 DEF Turns
  <2>5. QED
    BY <1>2, <1>4, <1>5, <2>1, <2>2, <2>3, <2>4 DEF Turns
<1> PICK e : e = Ends(r)'
  OBVIOUS
<1>9. /\ InOrder(d, e) /\ ~NoneFirst(d)
      /\ d \o n \in Seq(Events) /\ HasNone(d \o n)
      /\ InOrder(d \o n, e) /\ Over(d \o n, e)
      /\ NoneFirst(d \o n) => d = <<>>
      /\ HasChunk(d) => HasChunk(d \o n)
  <2>1. n = <<"None">> /\ "None" \in e
    BY DEF Puts, Ends
  <2>2. QED
    BY <2>1, EndIs, QuietIsInOrder
<1>10. /\ s \in Seq(Events) /\ InOrder(s, e)
       /\ NoneFirst(s) => Spent(r) /\ d = <<>>
       /\ Over(s, e) \/ (s = <<>> /\ Spent(r))
       /\ s = <<>> => d = <<>>
       /\ session.events = r => HasNone(s)
       /\ HasChunk(d) => HasChunk(s)
  <2>1. d = <<>> => Spent(r)
    BY DEF Over
  <2>2. CASE session.events = r
    <3>1. s = d \o n
      BY <1>1, <2>2
    <3>2. s # <<>>
      BY <1>9, <3>1 DEF Over
    <3>3. QED
      BY <1>9, <2>1, <3>1, <3>2, Zenon
  <2>3. CASE session.events # r
    <3>1. s = d
      BY <1>1, <2>3
    <3>2. QED
      BY <1>9, <2>3, <3>1, Zenon
  <2>4. QED
    BY <2>2, <2>3
<1>11. r = 1 => HasNone(s)
  <2>1. r = 1 => session.events = 1
    BY <1>4 DEF Turns, Runs, Waits
  <2>2. QED
    BY <1>10, <2>1
<1>12. /\ task[r] \notin {"refused", "rejected"}
       /\ task'[r] \notin Waits /\ task'[r] \notin {"finished", "broken", "rejected"}
       /\ step' # step => HasChunk(s)
  BY <1>6, <1>10 DEF Runs, Waits
<1>13. Orderly(r, s)
  <2>1. \/ Finals(r) \subseteq Finals(r)'
        \/ task[r] \in Waits /\ s # <<>> /\ ~NoneFirst(s)
    <3>1. d = <<>> => Finals(r)' = Finals(r)
      BY DEF Over
    <3>2. task[r] \in Waits
      BY DEF Runs, Waits
    <3>3. QED
      BY <1>10, <3>1, <3>2
  <2>2. QED
    BY <1>10, <1>12, <2>1 DEF Orderly
<1>14. QED
  BY <1>7, <1>8, <1>10, <1>11, <1>12, <1>13, TurnKeeps

LEMMA SnapshotKeeps ==
  ASSUME IInv, NEW r \in Requests, Snapshot(r)
  PROVE  IInv'
<1> PICK k : k = IF task[r] = "started" THEN step ELSE step + 1
  OBVIOUS
<1>1. /\ session \in SessionType /\ task \in [Requests -> TaskStates]
      /\ queue \in [Requests -> Seq(Events)] /\ step \in 0..LastStep
      /\ step \in Nat /\ LastStep \in Nat
      /\ \A q \in Requests : q \in Nat /\ q >= 1
      /\ 1 \in Requests /\ session.events \in Requests
  BY SessionIs DEF IInv, TypeOK
<1>2. /\ task[r] \in Runs /\ NoneCreated /\ step' = k /\ UNCHANGED Reading
      /\ task[r] = "running" => step < LastStep
  BY DEF Snapshot, Runs
<1>3. /\ k \in Nat /\ k \in 0..LastStep /\ step <= k
      /\ k # step => k > 0
  BY <1>1, <1>2 DEF Runs
<1>4. /\ Sent(k) \in Seq(Events) /\ ~HasNone(Sent(k))
      /\ k > 0 => HasChunk(Sent(k))
      /\ k = LastStep => Over(Sent(k), {"DONE"})
  BY <1>3, SentIs
<1>5. /\ session.status = "running" /\ \A q \in Requests : task[q] \in Runs => q = r
  BY <1>2 DEF IInv, Turns
<1>6. CASE session.cancelled
  <2> PICK p, ev : p = <<"PAUSED">> /\ ev = Append(Sent(k), "PAUSED")
    OBVIOUS
  <2>0. outcome' \in [Requests -> Outcomes] /\ outcome' = [outcome EXCEPT ![r] = "paused"]
        /\ outcome'[r] = "paused"
    BY <1>6, SessionIs DEF IInv, Snapshot, Outcomes
  <2>1. p \in Seq(Events) /\ "PAUSED" \in Events /\ ~HasNone(p) /\ Over(p, Ends(r)')
    <3>1. p \in Seq(Events) /\ Len(p) = 1 /\ p[1] = "PAUSED" /\ p # <<>> /\ "PAUSED" \in Events
      BY Singles DEF Events
    <3>2. "PAUSED" \in Ends(r)'
      BY <2>0 DEF Ends, Finals, Final
    <3>3. QED
      BY <3>1, <3>2 DEF HasNone, Over
  <2>2. ev = Sent(k) \o p /\ ev \in Seq(Events)
    BY <1>4, <2>1, AppendIsConcat
  <2>3. ~HasNone(ev) /\ Over(ev, Ends(r)') /\ (k > 0 => HasChunk(ev))
    <3>1. ~HasNone(Sent(k) \o p)
      BY <1>4, <2>1, NoneIn
    <3>2. k > 0 => HasChunk(Sent(k) \o p)
      BY <1>4, <2>1, ChunkIn
    <3>3. Over(Sent(k) \o p, Ends(r)')
      BY <1>4, <2>1, AppendInOrder
    <3>4. QED
      BY <2>2, <3>1, <3>2, <3>3, Zenon
  <2>4. /\ Finish(r, ev, FALSE) /\ session' = [session EXCEPT !.status = "paused"]
        /\ task' = [task EXCEPT ![r] = "closing"]
    BY <1>6 DEF Snapshot
  <2>5. /\ session' \in SessionType /\ session'.events = session.events
        /\ session'.status = "paused"
    BY <1>1, <2>4 DEF SessionType
  <2> PICK d : d = Said(r, ev, FALSE)
    OBVIOUS
  <2>6. d \in Seq(Events) /\ ~HasNone(d) /\ Over(d, Ends(r)') /\ (k > 0 => HasChunk(d))
    <3>1. d \in Seq(Events) /\ d = ev
      BY <2>2, <2>3, SaidIs
    <3>2. QED
      BY <2>2, <2>3, <3>1
  <2> PICK n : n = <<"None">>
    OBVIOUS
  <2>7. Puts(r, d, n)
    BY <1>1, <2>4, <2>6, FinishPuts, Zenon
  <2>8. \A q \in Requests \ {r} : outcome'[q] = outcome[q]
    BY <2>0
  <2>9. QED
    BY <1>2, <1>3, <2>0, <2>4, <2>5, <2>6, <2>7, <2>8, FinishKeeps
<1>7. CASE ~session.cancelled
  <2>1. /\ queue' = [queue EXCEPT ![r] = @ \o Sent(k)]
        /\ task' = [task EXCEPT ![r] = "running"] /\ session' = session
        /\ outcome' = outcome /\ outcome \in [Requests -> Outcomes]
    BY <1>7, SessionIs DEF IInv, Snapshot, Emit
  <2>2. queue[r] \o Sent(k) \in Seq(Events)
    BY <1>1, <1>4, Assoc
  <2>3. /\ task' \in [Requests -> TaskStates] /\ task'[r] = "running"
        /\ \A q \in Requests \ {r} : task'[q] = task[q]
        /\ queue' \in [Requests -> Seq(Events)] /\ queue'[r] = queue[r] \o Sent(k)
        /\ \A q \in Requests \ {r} : queue'[q] = queue[q]
    BY <1>1, <2>1, <2>2 DEF TaskStates
  <2>4. Sends(r, Sent(k))
    BY <1>1, <1>2, <1>3, <1>5, <2>1, <2>3 DEF Sends, Runs
  <2>5. /\ \A q \in Requests : /\ task'[q] \in Runs <=> task[q] \in Runs
                               /\ task'[q] \in Waits <=> task[q] \in Waits
                               /\ q # r => task'[q] = task[q]
        /\ task[r] \in Runs /\ task'[r] \in Runs
    BY <1>2, <2>3 DEF Runs, Waits
  <2>6. Turns'
    <3>1. \A q \in Requests : task'[q] = "idle" <=> task[q] = "idle"
      BY <2>5 DEF Runs
    <3>2. task'[1] \notin {"refused", "broken", "rejected"}
      BY <1>1, <2>5 DEF IInv, Turns, Runs
    <3>3. task'[session.events] \in Runs \cup {"created", "refused", "rejected"}
      BY <1>1, <2>5 DEF IInv, Turns
    <3>4. QED
      BY <1>1, <1>5, <2>1, <2>5, <3>1, <3>2, <3>3 DEF IInv, Turns
  <2>7. Orderly(r, Sent(k))
    <3>1. Spent(r)' => k = LastStep
      BY <1>2, <2>3 DEF Spent
    <3>2. Finals(r)' = Finals(r)
      BY <2>1, <2>3, <2>5, FinalsKept DEF Runs
    <3>3. outcome'[r] = "none"
      BY <2>1, <2>5 DEF IInv, Pending, Runs, Waits
    <3>4. "DONE" \in Ends(r)'
      BY <3>3 DEF Ends, Finals, Final
    <3>5. Spent(r)' => Over(Sent(k), Ends(r)')
      BY <1>4, <3>1, <3>4 DEF Over
    <3>6. InOrder(Sent(k), Ends(r)') /\ ~NoneFirst(Sent(k))
      BY <1>4, QuietIsInOrder
    <3>7. QED
      BY <2>5, <3>2, <3>5, <3>6 DEF Orderly, Runs
  <2>8. /\ task[r] \notin {"refused", "rejected"} /\ task'[r] = "running"
        /\ task[r] \in Waits /\ (step' # step => HasChunk(Sent(k)))
    BY <1>2, <1>3, <1>4, <2>3 DEF Runs, Waits
  <2>9. QED
    BY <1>4, <2>1, <2>4, <2>6, <2>7, <2>8, TurnKeeps
<1>8. QED
  BY <1>6, <1>7

LEMMA RunEndsKeeps ==
  ASSUME IInv, NEW r \in Requests, RunEnds(r)
  PROVE  IInv'
<1>1. /\ session \in SessionType /\ step \in 0..LastStep /\ step \in Nat
      /\ outcome \in [Requests -> Outcomes]
  BY SessionIs DEF IInv, TypeOK
<1>2. /\ task[r] \in Runs /\ NoneCreated /\ step' = step /\ UNCHANGED Reading
      /\ task' = [task EXCEPT ![r] = "closing"]
      /\ outcome' = [outcome EXCEPT ![r] = session'.status]
  BY DEF RunEnds, Runs
<1>3. PICK ev, w : /\ session' = [session EXCEPT !.status = w] /\ Finish(r, ev, TRUE)
                   /\ \/ w = "done" /\ ev = <<>> /\ task[r] = "running" /\ step = LastStep
                      \/ w = "error" /\ ev = <<"ERROR">>
  BY DEF RunEnds
<1>4. session' \in SessionType /\ session'.events = session.events /\ session'.status = w
  BY <1>1, <1>3 DEF SessionType
<1>5. ev \in Seq(Events) /\ ~HasNone(ev)
  <2>1. CASE ev = <<>>
    BY <2>1, Singles, NoneIn
  <2>2. CASE ev = <<"ERROR">>
    <3>1. ev \in Seq(Events) /\ Len(ev) = 1 /\ ev[1] = "ERROR"
      BY <2>2, Singles DEF Events
    <3>2. QED
      BY <3>1 DEF HasNone
  <2>3. QED
    BY <1>3, <2>1, <2>2
<1> PICK d : d = Said(r, ev, TRUE)
  OBVIOUS
<1>6. /\ d \in Seq(Events) /\ ~HasNone(d)
      /\ r = 1 => d = ev
      /\ r # 1 => \A ends : "DONE" \in ends => Over(d, ends)
  BY <1>5, SaidIs
<1>7. step' \in 0..LastStep /\ step <= step'
  BY <1>1, <1>2
<1> PICK n : n = <<"None">>
  OBVIOUS
<1>8. Puts(r, d, n)
  <2>1. queue \in [Requests -> Seq(Events)] /\ session.events \in Requests
    BY SessionIs DEF IInv
  <2>2. QED
    BY <1>3, <1>6, <2>1, FinishPuts, Zenon
<1>9. /\ outcome' \in [Requests -> Outcomes] /\ outcome'[r] = w
      /\ \A q \in Requests \ {r} : outcome'[q] = outcome[q]
  BY <1>1, <1>2, <1>3, <1>4 DEF Outcomes
<1>10. \/ Over(d, Ends(r)')
       \/ d = <<>> /\ Spent(r) /\ Finals(r)' = Finals(r)
  <2>1. CASE r # 1
    <3>1. "DONE" \in Ends(r)'
      BY <1>3, <1>9, <2>1 DEF Ends, Finals, Final
    <3>2. QED
      BY <1>6, <2>1, <3>1
  <2>2. CASE r = 1 /\ w = "error"
    <3>1. d = <<"ERROR">>
      BY <1>3, <1>6, <2>2, Zenon
    <3>2. Len(d) = 1 /\ d[1] = "ERROR" /\ d # <<>>
      BY <3>1, Singles DEF Events
    <3>3. "ERROR" \in Ends(r)'
      BY <1>9, <2>2 DEF Ends, Finals, Final
    <3>4. QED
      BY <3>2, <3>3 DEF Over
  <2>3. CASE r = 1 /\ w = "done"
    <3>1. d = <<>> /\ Spent(r)
      BY <1>3, <1>6, <2>3 DEF Spent
    <3>2. /\ task[r] # "broken" /\ task'[r] # "broken" /\ outcome[r] = "none"
          /\ task \in [Requests -> TaskStates]
      BY <1>2, SessionIs DEF IInv, Pending, Runs, Waits
    <3>3. Finals(r)' = Finals(r)
      BY <1>9, <2>3, <3>2 DEF Finals, Final
    <3>4. QED
      BY <3>1, <3>3
  <2>4. QED
    BY <1>3, <2>1, <2>2, <2>3
<1>11. QED
  BY <1>2, <1>3, <1>4, <1>6, <1>7, <1>8, <1>9, <1>10, FinishKeeps

LEMMA CloseTaskKeeps ==
  ASSUME IInv, NEW r \in Requests, CloseTask(r)
  PROVE  IInv'
<1>1. /\ session \in SessionType /\ task \in [Requests -> TaskStates]
      /\ queue \in [Requests -> Seq(Events)] /\ step \in 0..LastStep /\ step \in Nat
      /\ \A q \in Requests : q \in Nat /\ q >= 1
      /\ 1 \in Requests /\ session.events \in Requests
  BY SessionIs DEF IInv, TypeOK
<1>2. /\ task[r] \in {"closing", "refused"} /\ session' = session /\ step' = step
      /\ outcome' = outcome /\ UNCHANGED Reading
      /\ task' \in [Requests -> TaskStates]
      /\ task[r] = "closing" => task'[r] \in {"finished", "broken"}
      /\ task[r] = "refused" => task'[r] = "rejected"
      /\ \A q \in Requests \ {r} : task'[q] = task[q]
  BY <1>1 DEF CloseTask, TaskStates
<1>3. PICK s : /\ s \in Seq(Events) /\ queue' \in [Requests -> Seq(Events)]
               /\ queue'[r] = queue[r] \o s
               /\ \A q \in Requests \ {r} : queue'[q] = queue[q]
               /\ \/ r = 1 /\ s = <<>> /\ task'[r] # "broken"
                  \/ r # 1 /\ task[r] = "closing" /\ s = <<"None">>
                  \/ /\ r # 1 /\ s = <<"ERROR", "DONE", "None">>
                     /\ task'[r] \in {"broken", "rejected"}
  <2>1. queue[r] \in Seq(Events) /\ "None" \in Events
    BY <1>1 DEF Events
  <2>2. CASE r = 1 /\ UNCHANGED queue /\ task' = [task EXCEPT ![r] = "finished"]
    BY <1>1, <2>1, <2>2, Singles, ConcatEmptySeq
  <2>3. CASE r # 1 /\ task[r] = "closing" /\ queue' = [queue EXCEPT ![r] = Append(@, "None")]
    <3>1. Append(queue[r], "None") = queue[r] \o <<"None">> /\ Append(queue[r], "None") \in Seq(Events)
      BY <2>1, AppendIsConcat
    <3>2. QED
      BY <1>1, <2>1, <2>3, <3>1, Singles
  <2>4. CASE /\ r # 1 /\ queue' = [queue EXCEPT ![r] = @ \o <<"ERROR", "DONE", "None">>]
             /\ task' = [task EXCEPT ![r] = IF @ = "closing" THEN "broken" ELSE "rejected"]
    <3> PICK e : e = <<"ERROR", "DONE", "None">>
      OBVIOUS
    <3>1. e \in Seq(Events)
      BY DEF Events
    <3>2. queue[r] \o e \in Seq(Events)
      BY <2>1, <3>1, Assoc
    <3>3. queue' = [queue EXCEPT ![r] = queue[r] \o e]
      BY <2>4
    <3>4. /\ queue' \in [Requests -> Seq(Events)] /\ queue'[r] = queue[r] \o e
          /\ \A q \in Requests \ {r} : queue'[q] = queue[q]
      BY <1>1, <3>2, <3>3
    <3>5. task'[r] \in {"broken", "rejected"}
      BY <1>1, <2>4
    <3>6. QED
      BY <2>4, <3>1, <3>4, <3>5
  <2>5. QED
    BY <2>2, <2>3, <2>4 DEF CloseTask
<1>4. Turns
  BY DEF IInv
<1>5. outcome \in [Requests -> Outcomes]
  BY SessionIs DEF IInv
<1>6. session.status # "none"
  BY <1>1, <1>2, <1>4 DEF Turns
<1>7. Sends(r, s)
  <2>1. step' \in 0..LastStep /\ step <= step'
    BY <1>1, <1>2
  <2>2. QED
    BY <1>1, <1>2, <1>3, <1>5, <1>6, <2>1 DEF Sends
<1>8. Turns'
  <2>1. /\ \A q \in Requests : /\ task'[q] \in Runs <=> task[q] \in Runs
                               /\ task'[q] = "created" <=> task[q] = "created"
                               /\ task'[q] = "idle" <=> task[q] = "idle"
                               /\ task'[q] \in Waits <=> task[q] \in Waits
    BY <1>2, <1>5 DEF Runs, Waits
  <2>2. task'[1] \notin {"refused", "broken", "rejected"}
    <3>1. CASE r = 1
      BY <1>2, <1>3, <1>4, <3>1 DEF Turns
    <3>2. CASE r # 1
      BY <1>1, <1>2, <1>4, <3>2 DEF Turns
    <3>3. QED
      BY <3>1, <3>2
  <2>3. (\E q \in Requests : task'[q] \in Runs \cup {"created"}) =>
          task'[session.events] \in Runs \cup {"created", "refused", "rejected"}
    BY <1>1, <1>2, <1>4, <1>5, <2>1 DEF Turns, Runs
  <2>4. QED
    BY <1>1, <1>2, <1>4, <2>1, <2>2, <2>3 DEF Turns
<1> PICK ends : ends = Ends(r)'
  OBVIOUS
<1>9. task[r] = "closing" => InOrder(s, ends) /\ (NoneFirst(s) => s = <<"None">>)
  <2>1. CASE s = <<>>
    BY <2>1, Singles DEF InOrder, NoneFirst
  <2>2. CASE s = <<"None">>
    <3>1. Len(s) = 1
      BY <2>2
    <3>2. QED
      BY <2>2, <3>1 DEF InOrder
  <2>3. CASE /\ r # 1 /\ s = <<"ERROR", "DONE", "None">>
             /\ task'[r] \in {"broken", "rejected"}
    <3>1. Len(s) = 3 /\ s[1] = "ERROR" /\ s[2] = "DONE" /\ s[3] = "None"
      BY <2>3
    <3>2. task[r] = "closing" => "DONE" \in ends
      BY <1>2, <2>3 DEF Ends, Finals
    <3>3. QED
      BY <3>1, <3>2 DEF InOrder, NoneFirst
  <2>4. QED
    BY <1>3, <2>1, <2>2, <2>3
<1>10. r # 1 => HasNone(s)
  <2>1. CASE s = <<"None">>
    BY <2>1, Singles DEF HasNone, Events
  <2>2. CASE s = <<"ERROR", "DONE", "None">>
    <3>1. 3 \in 1..Len(s) /\ s[3] = "None"
      BY <2>2
    <3>2. QED
      BY <3>1 DEF HasNone
  <2>3. QED
    BY <1>3, <2>1, <2>2
<1>11. r = 1 => task[1] = "closing" /\ Closed(1)
  <2>1. r = 1 => task[1] = "closing"
    BY <1>2, <1>4 DEF Turns
  <2>2. QED
    BY <1>1, <2>1 DEF IInv, Closes
<1>12. /\ task'[r] \in {"finished", "broken", "rejected"} /\ task'[r] \notin Waits
       /\ ~Spent(r)'
       /\ task[r] = "closing" => task[r] \notin {"refused", "rejected"} /\ Spent(r)
  BY <1>2, <1>5 DEF Waits, Spent
<1>13. task'[r] \in {"refused", "rejected"} \/ Orderly(r, s)
  <2>1. Finals(r) \subseteq Finals(r)'
    BY <1>2 DEF Finals, Final
  <2>2. QED
    BY <1>2, <1>9, <1>12, <2>1, Zenon DEF Orderly
<1>14. /\ task'[r] \in Waits => task[r] \in Waits /\ ~HasNone(s)
       /\ HasNone(s) \/ Closed(r)
       /\ step' # step => HasChunk(s)
  BY <1>2, <1>10, <1>11, <1>12
<1>15. QED
  BY <1>2, <1>3, <1>7, <1>8, <1>13, <1>14, TurnKeeps
-----------------------------------------------------------------------------
(* The requests. *)

\* AskStop, and a step of nobody.
LEMMA StopKeeps ==
  ASSUME IInv, session' \in SessionType, session'.status = session.status,
         session'.events = session.events, UNCHANGED <<step, task, queue, outcome, Reading>>
  PROVE  IInv'
<1>1. /\ step' = step /\ task' = task /\ queue' = queue /\ outcome' = outcome
      /\ reader' = reader /\ told' = told /\ scored' = scored
  BY DEF Reading
<1>2. TypeOK'
  BY <1>1 DEF IInv, TypeOK, SessionType
<1>3. Turns'
  BY <1>1 DEF IInv, Turns
<1>4. Places'
  BY <1>1 DEF IInv, Places
<1>5. Closes'
  BY <1>1, ZenonT(30) DEF IInv, Closes, Closed, HasNone
<1>6. Tells'
  <2>1. \A x \in Readers : Sole(x)' <=> Sole(x)
    BY <1>1 DEF Sole
  <2>2. ASSUME NEW x \in Readers, Told(x) PROVE Told(x)'
    <3>1. \A r : Spent(r)' <=> Spent(r)
      BY <1>1 DEF Spent
    <3>2. QED
      BY <1>1, <2>2, <3>1, ToldKept
  <2>3. QED
    BY <1>1, <2>1, <2>2 DEF IInv, Tells
<1>7. Scores'
  BY <1>1, Zenon DEF IInv, Scores, Sole
<1>8. Pending'
  BY <1>1 DEF IInv, Pending
<1>9. QED
  BY <1>2, <1>3, <1>4, <1>5, <1>6, <1>7, <1>8 DEF IInv

LEMMA AskQuestionKeeps ==
  ASSUME IInv, AskQuestion
  PROVE  IInv'
<1>1. /\ session \in SessionType /\ task \in [Requests -> TaskStates]
      /\ 1 \in Requests /\ \A r \in Requests : r \in Nat /\ r >= 1
      /\ \A r \in Clients : r \in Requests /\ r # 1
      /\ \A x \in Readers : reader[x].at \in Requests
  BY SessionIs DEF IInv
<1>2. /\ session.status = "none"
      /\ session' = [session EXCEPT !.status = "running"]
      /\ task' = [task EXCEPT ![1] = "created"]
      /\ step' = step /\ queue' = queue /\ outcome' = outcome
      /\ reader' = reader /\ told' = told /\ scored' = scored
  BY DEF AskQuestion, Reading
<1>3. /\ session' \in SessionType /\ session'.status = "running"
      /\ session'.events = session.events /\ session.events = 1
  BY <1>1, <1>2 DEF IInv, Turns, SessionType
<1>4. /\ \A r \in Requests : task[r] = "idle"
      /\ task' \in [Requests -> TaskStates] /\ task'[1] = "created"
      /\ \A r \in Requests : r # 1 => task'[r] = "idle"
  BY <1>1, <1>2 DEF IInv, Turns, TaskStates
<1>5. TypeOK'
  BY <1>2, <1>3, <1>4 DEF IInv, TypeOK, SessionType
<1>6. Turns'
  BY <1>1, <1>3, <1>4 DEF Turns, Runs
<1>7. Places'
  <2>1. \A r \in Clients : task'[r] = "idle" <=> task[r] = "idle"
    BY <1>1, <1>4
  <2>2. QED
    BY <1>2, <1>3, <2>1 DEF IInv, Places
<1>8. Closes'
  <2>1. \A r \in Requests : Closed(r)' <=> Closed(r)
    BY <1>2, Zenon DEF Closed, HasNone
  <2>2. \A r \in Requests : ~Closed(r) /\ queue[r] = <<>> /\ task'[r] \in {"idle", "created"}
    BY <1>1, <1>4 DEF IInv, Closes, Waits
  <2>3. QED
    BY <1>2, <2>1, <2>2 DEF Closes
<1>9. Tells'
  <2>1. SUFFICES ASSUME NEW x \in Readers, Sole(x)', x \in Clients => reader[x].state # "idle"
                 PROVE  Told(x)'
    BY <1>2 DEF Tells
  <2>2. Sole(x)
    BY <1>2, <2>1 DEF Sole
  <2>3. Told(x)
    BY <1>1, <1>4, <2>1, <2>2 DEF IInv, Tells
  <2>4. ~Spent(reader[x].at)'
    BY <1>1, <1>2, <1>4 DEF Spent
  <2>5. task'[reader[x].at] = "broken" <=> task[reader[x].at] = "broken"
    BY <1>1, <1>4
  <2>6. QED
    BY <1>2, <2>3, <2>4, <2>5, ToldKept
<1>10. Scores'
  <2>1. SUFFICES ASSUME NEW x \in Subscribers, Sole(x)', step > 0, reader[x].state # "gone"
                 PROVE  x \in scored \/ (reader[x].state # "ended" /\ HasChunk(queue[1]))
    BY <1>2 DEF Scores
  <2>2. Sole(x)
    BY <1>2, <2>1 DEF Sole
  <2>3. QED
    BY <1>1, <1>4, <2>1, <2>2 DEF IInv, Scores
<1>11. Pending'
  BY <1>2, <1>4 DEF IInv, Pending, Waits
<1>12. QED
  BY <1>5, <1>6, <1>7, <1>8, <1>9, <1>10, <1>11 DEF IInv

LEMMA AskResumeKeeps ==
  ASSUME IInv, NEW r \in Requests, AskResume(r)
  PROVE  IInv'
<1>1. /\ session \in SessionType /\ task \in [Requests -> TaskStates]
      /\ queue \in [Requests -> Seq(Events)] /\ reader \in [Readers -> ReaderType]
      /\ 1 \in Requests /\ \A q \in Requests : q \in Nat /\ q >= 1
      /\ \A q \in Clients : q \in Requests /\ q \in Readers /\ q # 1
      /\ \A x \in Readers : reader[x].at \in Requests
      /\ session.events \in Requests
  BY SessionIs DEF IInv
<1>2. /\ r # 1 /\ task[r] = "idle" /\ task[r - 1] # "idle" /\ session.status = "paused"
      /\ session' = [session EXCEPT !.events = r]
      /\ task' = [task EXCEPT ![r] = "created"]
      /\ reader' = [reader EXCEPT ![r] = [state |-> "waiting", at |-> r]]
      /\ step' = step /\ queue' = queue /\ outcome' = outcome
      /\ told' = told /\ scored' = scored
  BY DEF AskResume
<1>3. r \in Clients /\ r \in Readers /\ r \notin Subscribers /\ r - 1 \in Requests
  <2>1. r \in Clients /\ r \in Readers
    BY <1>2, SessionIs DEF IInv
  <2>2. r - 1 \in Requests
    BY <1>2, GraphqlAskAssumption DEF Requests
  <2>3. QED
    BY <2>1, <2>2, Disjoint
<1>4. r = session.events + 1
  <2>1. r > session.events /\ r - 1 <= session.events
    BY <1>1, <1>2, <1>3 DEF IInv, Turns
  <2>2. QED
    BY <1>1, <2>1
<1>5. /\ session' \in SessionType /\ session'.status = "paused" /\ session'.events = r
  BY <1>1, <1>2 DEF SessionType
<1>6. /\ task' \in [Requests -> TaskStates] /\ task'[r] = "created"
      /\ \A q \in Requests : q # r => task'[q] = task[q]
  BY <1>1, <1>2 DEF TaskStates
<1>7. /\ reader' \in [Readers -> ReaderType] /\ reader'[r].state = "waiting" /\ reader'[r].at = r
      /\ \A x \in Readers : x # r => reader'[x] = reader[x]
  BY <1>1, <1>2, <1>3 DEF ReaderType
<1>8. ASSUME NEW x \in Readers PROVE reader[x].at \in Nat /\ reader[x].at < r
  <2>1. reader[x].at \in Nat /\ session.events \in Nat /\ reader[x].at <= session.events
    BY <1>1 DEF IInv, Places
  <2>2. QED
    BY <1>4, <2>1
<1>9. TypeOK'
  BY <1>2, <1>5, <1>6, <1>7 DEF IInv, TypeOK, SessionType, ReaderType
<1>10. Turns'
  <2>1. \A q \in Requests : task[q] \notin Runs
    BY <1>2 DEF IInv, Turns
  <2>2. \A q \in Requests : task'[q] \notin Runs
    BY <1>6, <2>1 DEF Runs
  <2>3. \A q \in Requests : task'[q] = "idle" <=> q > r
    BY <1>1, <1>2, <1>4, <1>6 DEF IInv, Turns
  <2>4. task'[1] = task[1] /\ task[1] \notin Waits /\ task[1] \notin {"refused", "broken", "rejected"}
    BY <1>1, <1>2, <1>6 DEF IInv, Turns
  <2>5. QED
    BY <1>1, <1>2, <1>5, <1>6, <2>2, <2>3, <2>4 DEF Turns, Waits
<1>11. Places'
  <2>1. \A x \in Readers : reader'[x].at <= r
    <3>1. ASSUME NEW x \in Readers PROVE reader'[x].at <= r
      <4>1. CASE x = r
        BY <1>1, <1>7, <4>1
      <4>2. CASE x # r
        BY <1>1, <1>7, <1>8, <4>2
      <4>3. QED
        BY <4>1, <4>2
    <3>2. QED
      BY <3>1
  <2>2. ASSUME NEW q \in Clients
        PROVE  /\ reader'[q].state = "idle" <=> task'[q] = "idle"
               /\ reader'[q].state # "idle" => reader'[q].at = q
    <3>1. CASE q = r
      BY <1>6, <1>7, <3>1
    <3>2. CASE q # r
      <4>1. task'[q] = task[q] /\ reader'[q] = reader[q]
        BY <1>1, <1>6, <1>7, <3>2
      <4>2. QED
        BY <4>1 DEF IInv, Places
    <3>3. QED
      BY <3>1, <3>2
  <2>3. \A x \in Subscribers : reader'[x].state = "idle" => reader'[x].at = 1
    BY <1>3, <1>7 DEF IInv, Places, Readers
  <2>4. QED
    BY <1>5, <2>1, <2>2, <2>3 DEF Places
<1>12. Closes'
  <2>1. ASSUME NEW q \in Requests, q # r
        PROVE  Closed(q)' <=> Closed(q)
    <3>1. \A x \in Readers : reader'[x].state = "ended" /\ reader'[x].at = q
                         <=> reader[x].state = "ended" /\ reader[x].at = q
      <4>1. reader[r].state = "idle"
        BY <1>2, <1>3 DEF IInv, Places
      <4>2. QED
        BY <1>7, <4>1
    <3>2. QED
      BY <1>2, <3>1, Zenon DEF Closed, HasNone
  <2>2. ~Closed(r)'
    <3>1. queue'[r] = <<>>
      BY <1>2 DEF IInv, Closes
    <3>2. ASSUME NEW x \in Readers PROVE ~(reader'[x].state = "ended" /\ reader'[x].at = r)
      <4>1. CASE x = r
        BY <1>7, <4>1
      <4>2. CASE x # r
        <5>1. reader'[x] = reader[x] /\ reader[x].at < r /\ reader[x].at \in Nat /\ r \in Nat
          BY <1>1, <1>7, <1>8, <4>2
        <5>2. QED
          BY <5>1
      <4>3. QED
        BY <4>1, <4>2
    <3>3. QED
      BY <3>1, <3>2 DEF Closed, HasNone
  <2>3. QED
    BY <1>2, <1>6, <2>1, <2>2 DEF IInv, Closes
<1>13. Tells'
  <2>1. SUFFICES ASSUME NEW x \in Readers, Sole(x)',
                        task'[reader'[x].at] \notin {"refused", "rejected"},
                        x \in Clients => reader'[x].state # "idle"
                 PROVE  Told(x)'
    BY DEF Tells
  <2>2. CASE x = r
    <3>1. queue'[r] = <<>> /\ ~Spent(r)'
      BY <1>2, <1>6 DEF IInv, Closes, Spent
    <3>2. QED
      BY <1>7, <2>2, <3>1 DEF Told, InOrder, NoneFirst
  <2>3. CASE x # r
    <3> PICK q : q = reader[x].at
      OBVIOUS
    <3>1. q \in Requests /\ q # r /\ reader'[x] = reader[x]
      BY <1>1, <1>7, <1>8, <2>3
    <3>2. Sole(x)
      <4>1. \A y \in Readers \ {x} : reader'[y].state = "idle" => reader[y].state = "idle"
        BY <1>7
      <4>2. \A y \in Subscribers : reader'[y].at \in Requests /\ reader[y].at <= reader'[y].at
        <5>1. ASSUME NEW y \in Subscribers
              PROVE  reader'[y].at \in Requests /\ reader[y].at <= reader'[y].at
          <6>1. y \in Readers /\ y # r
            BY <1>3 DEF Readers
          <6>2. reader'[y] = reader[y] /\ reader[y].at \in Requests /\ reader[y].at \in Nat
            BY <1>1, <1>7, <1>8, <6>1
          <6>3. QED
            BY <6>2
        <5>2. QED
          BY <5>1
      <4>3. QED
        BY <2>1, <4>1, <4>2, SoleBefore DEF IInv
    <3>3. task'[q] = task[q] /\ (Spent(q)' <=> Spent(q))
      BY <1>2, <1>6, <3>1 DEF Spent
    <3>4. Told(x)
      BY <2>1, <3>1, <3>2, <3>3 DEF IInv, Tells
    <3>5. QED
      BY <1>2, <3>1, <3>3, <3>4, ToldKept
  <2>4. QED
    BY <2>2, <2>3
<1>14. Scores'
  BY <1>3, <1>6 DEF Scores
<1>15. Pending'
  BY <1>2, <1>3, <1>6 DEF IInv, Pending, Waits
<1>16. QED
  BY <1>9, <1>10, <1>11, <1>12, <1>13, <1>14, <1>15 DEF IInv

-----------------------------------------------------------------------------
(* The readers. *)

\* A subscription or the next read: x waits on a, the session's queue or its own.
LEMMA GoesKeeps ==
  ASSUME IInv, NEW x \in Readers, NEW a, session.status # "none",
         reader[x].state \in {"idle", "holding"},
         \/ x \in Subscribers /\ a = session.events
         \/ x \in Clients /\ a = reader[x].at /\ reader[x].state # "idle",
         reader' = [reader EXCEPT ![x] = [state |-> "waiting", at |-> a]],
         UNCHANGED <<session, step, task, queue, outcome, told, scored>>
  PROVE  IInv'
<1>1. /\ reader \in [Readers -> ReaderType] /\ session.events \in Requests
      /\ \A q \in Requests : q \in Nat /\ q >= 1
      /\ \A q \in Clients : q \in Requests /\ q \in Readers /\ q # 1
      /\ \A q \in Requests : q # 1 => q \in Clients
      /\ \A y \in Subscribers : y \in Readers
      /\ \A y \in Readers : reader[y].at \in Requests
  BY SessionIs DEF IInv
<1>2. /\ session' = session /\ step' = step /\ task' = task /\ queue' = queue
      /\ outcome' = outcome /\ told' = told /\ scored' = scored
  OBVIOUS
<1>3. /\ a \in Requests /\ a <= session.events /\ reader[x].at <= a
  <2>1. /\ reader[x].at <= session.events
        /\ \A q \in Requests : q <= q
    BY <1>1 DEF IInv, Places
  <2>2. QED
    BY <1>1, <2>1
<1>4. /\ reader' \in [Readers -> ReaderType] /\ reader'[x].state = "waiting" /\ reader'[x].at = a
      /\ \A y \in Readers : y # x => reader'[y] = reader[y]
  BY <1>1, <1>3 DEF ReaderType
<1>5. TypeOK'
  BY <1>2, <1>4 DEF IInv, TypeOK, ReaderType
<1>6. Turns'
  BY <1>2 DEF IInv, Turns
<1>7. x \in Clients => x \notin Subscribers /\ a = x
  BY Disjoint DEF IInv, Places
<1>8. Places'
  <2>1. ASSUME NEW q \in Clients
        PROVE  /\ reader'[q].state = "idle" <=> task'[q] = "idle"
               /\ reader'[q].state # "idle" => reader'[q].at = q
    <3>1. CASE q = x
      <4>1. reader[x].state # "idle" /\ a = q
        BY <1>7, <3>1, Disjoint
      <4>2. QED
        BY <1>2, <1>4, <3>1, <4>1 DEF IInv, Places
    <3>2. CASE q # x
      <4>1. reader'[q] = reader[q]
        BY <1>1, <1>4, <3>2
      <4>2. QED
        BY <1>2, <4>1 DEF IInv, Places
    <3>3. QED
      BY <3>1, <3>2
  <2>2. ASSUME NEW y \in Readers
        PROVE  /\ reader'[y].at <= session'.events
               /\ reader'[y].state # "idle" => session'.status # "none"
               /\ y \in Subscribers /\ reader'[y].state = "idle" => reader'[y].at = 1
    <3>1. CASE y = x
      BY <1>2, <1>3, <1>4, <3>1
    <3>2. CASE y # x
      <4>1. reader'[y] = reader[y]
        BY <1>4, <3>2
      <4>2. QED
        BY <1>2, <4>1 DEF IInv, Places
    <3>3. QED
      BY <3>1, <3>2
  <2>3. QED
    BY <1>1, <2>1, <2>2 DEF Places
<1>9. Closes'
  <2>1. \A y \in Readers : /\ reader'[y].state = "ended" <=> reader[y].state = "ended"
                           /\ reader'[y].state = "ended" => reader'[y].at = reader[y].at
    BY <1>4
  <2>2. \A q \in Requests : Closed(q)' <=> Closed(q)
    BY <1>2, <2>1, Zenon DEF Closed, HasNone
  <2>3. QED
    BY <1>2, <2>2, Zenon DEF IInv, Closes
<1>10. ASSUME NEW y \in Readers, Sole(y)' PROVE Sole(y)
  <2>1. \A z \in Readers : reader'[z].state = "idle" => reader[z].state = "idle"
    BY <1>4
  <2>2. ASSUME NEW z \in Subscribers
        PROVE  reader'[z].at \in Requests /\ reader[z].at <= reader'[z].at
    <3>1. CASE z = x
      BY <1>3, <1>4, <3>1
    <3>2. CASE z # x
      <4>1. reader'[z] = reader[z] /\ reader[z].at \in Requests /\ reader[z].at \in Nat
        BY <1>1, <1>4, <3>2
      <4>2. QED
        BY <4>1
    <3>3. QED
      BY <3>1, <3>2
  <2>3. QED
    BY <1>10, <2>1, <2>2, SoleBefore DEF IInv
<1>11. Sole(x)' => a = reader[x].at
  <2>1. SUFFICES ASSUME Sole(x)', x \in Subscribers, x \notin Clients, a = session.events
                 PROVE  a = reader[x].at
    BY Disjoint
  <2>2. reader[x].at = 1
    BY <1>10, <2>1, SoleAtOne DEF IInv
  <2>3. SUFFICES ASSUME a # 1 PROVE FALSE
    BY <2>2
  <2>4. a \in Clients /\ a \in Readers /\ a # x
    BY <1>1, <1>3, <2>1, <2>3
  <2>5. task[a] # "idle"
    BY <1>1, <1>3, <2>1 DEF IInv, Turns
  <2>6. reader'[a].state # "idle"
    BY <1>4, <2>4, <2>5 DEF IInv, Places
  <2>7. reader'[x].at < a
    BY <2>1, <2>4, <2>6 DEF Sole
  <2>8. QED
    BY <1>1, <1>3, <1>4, <2>7
<1>12. Tells'
  <2>1. SUFFICES ASSUME NEW y \in Readers, Sole(y)',
                        task[reader'[y].at] \notin {"refused", "rejected"},
                        y \in Clients => reader'[y].state # "idle"
                 PROVE  Told(y)'
    BY <1>2 DEF Tells
  <2>2. /\ reader'[y].at = reader[y].at
        /\ y \in Clients => reader[y].state # "idle"
        /\ reader'[y].state = "ended" => reader[y].state = "ended"
        /\ reader'[y].state \in {"idle", "waiting", "holding"} =>
             reader[y].state \in {"idle", "waiting", "holding"}
    <3>1. CASE y = x
      BY <1>4, <1>7, <1>11, <2>1, <3>1, Disjoint
    <3>2. CASE y # x
      BY <1>4, <2>1, <3>2
    <3>3. QED
      BY <3>1, <3>2
  <2>3. Told(y)
    BY <1>10, <2>1, <2>2 DEF IInv, Tells
  <2> PICK q : q = reader[y].at
    OBVIOUS
  <2>4. Spent(q)' <=> Spent(q)
    BY <1>2 DEF Spent
  <2>5. QED
    BY <1>2, <2>2, <2>3, <2>4, ToldKept
<1>13. Scores'
  <2>1. SUFFICES ASSUME NEW y \in Subscribers, Sole(y)', step > 0, reader'[y].state # "gone",
                        \A r \in Clients : task[r] = "idle"
                 PROVE  y \in scored \/ (reader'[y].state # "ended" /\ HasChunk(queue[1]))
    BY <1>2 DEF Scores
  <2>2. y \in Readers
    BY <1>1
  <2>3. /\ reader[y].state # "gone"
        /\ reader'[y].state = "ended" => reader[y].state = "ended"
    BY <1>4, <2>1, <2>2
  <2>4. QED
    BY <1>10, <2>1, <2>2, <2>3 DEF IInv, Scores
<1>14. Pending'
  BY <1>2 DEF IInv, Pending
<1>15. QED
  BY <1>5, <1>6, <1>8, <1>9, <1>12, <1>13, <1>14 DEF IInv

LEMMA SubscribeKeeps ==
  ASSUME IInv, NEW x \in Subscribers, Subscribe(x)
  PROVE  IInv'
<1>1. x \in Readers
  BY DEF Readers
<1>2. QED
  BY <1>1, GoesKeeps DEF Subscribe

LEMMA AgainKeeps ==
  ASSUME IInv, NEW x \in Readers, Again(x)
  PROVE  IInv'
<1> PICK a : a = IF x \in Subscribers THEN session.events ELSE reader[x].at
  OBVIOUS
<1>1. /\ reader[x].state = "holding"
      /\ reader' = [reader EXCEPT ![x] = [state |-> "waiting", at |-> a]]
      /\ UNCHANGED <<session, step, task, queue, outcome, told, scored>>
  BY DEF Again
<1>2. session.status # "none"
  BY <1>1 DEF IInv, Places
<1>3. \/ x \in Subscribers /\ a = session.events
      \/ x \in Clients /\ a = reader[x].at /\ reader[x].state # "idle"
  BY <1>1 DEF Readers
<1>4. QED
  BY <1>1, <1>2, <1>3, GoesKeeps

LEMMA LeaveKeeps ==
  ASSUME IInv, NEW x \in Readers, Leave(x)
  PROVE  IInv'
<1>1. /\ reader \in [Readers -> ReaderType] /\ told \in [Readers -> Words]
      /\ \A y \in Subscribers : y \in Readers
      /\ \A y \in Clients : y \in Readers
      /\ \A y \in Readers : reader[y].at \in Requests /\ reader[y].at \in Nat
      /\ scored \subseteq Subscribers
  BY SessionIs DEF IInv
<1>2. /\ reader[x].state \in {"waiting", "holding"}
      /\ reader' = [reader EXCEPT ![x].state = "gone"]
      /\ told' = [told EXCEPT ![x] = "none"] /\ scored' = scored \ {x}
      /\ session' = session /\ step' = step /\ task' = task /\ queue' = queue
      /\ outcome' = outcome
  BY DEF Leave
<1>3. /\ reader' \in [Readers -> ReaderType]
      /\ reader'[x].state = "gone" /\ reader'[x].at = reader[x].at
      /\ \A y \in Readers : y # x => reader'[y] = reader[y]
  BY <1>1, <1>2 DEF ReaderType
<1>4. /\ told' \in [Readers -> Words]
      /\ \A y \in Readers : y # x => told'[y] = told[y]
  BY <1>1, <1>2 DEF Words
<1>5. \A y \in Readers : /\ reader'[y].at = reader[y].at
                         /\ reader'[y].state = "idle" <=> reader[y].state = "idle"
                         /\ reader'[y].state = "ended" <=> reader[y].state = "ended"
  BY <1>2, <1>3
<1>6. TypeOK'
  BY <1>1, <1>2, <1>3, <1>4 DEF IInv, TypeOK, ReaderType, Words
<1>7. Turns'
  BY <1>2 DEF IInv, Turns
<1>8. Places'
  BY <1>1, <1>2, <1>5 DEF IInv, Places
<1>9. Closes'
  <2>1. \A q \in Requests : Closed(q)' <=> Closed(q)
    BY <1>2, <1>5, Zenon DEF Closed, HasNone
  <2>2. QED
    BY <1>2, <2>1, Zenon DEF IInv, Closes
<1>10. ASSUME NEW y \in Readers, Sole(y)' PROVE Sole(y)
  <2>1. \A z \in Readers : reader'[z].state = "idle" => reader[z].state = "idle"
    BY <1>5
  <2>2. \A z \in Subscribers : reader'[z].at \in Requests /\ reader[z].at <= reader'[z].at
    BY <1>1, <1>5
  <2>3. QED
    BY <1>10, <2>1, <2>2, SoleBefore DEF IInv
<1>11. Tells'
  <2>1. SUFFICES ASSUME NEW y \in Readers, Sole(y)',
                        task[reader'[y].at] \notin {"refused", "rejected"},
                        y \in Clients => reader'[y].state # "idle"
                 PROVE  Told(y)'
    BY <1>2 DEF Tells
  <2>2. CASE y = x
    BY <1>3, <2>2 DEF Told
  <2>3. CASE y # x
    <3> PICK q : q = reader[y].at
      OBVIOUS
    <3>1. reader'[y] = reader[y] /\ told'[y] = told[y] /\ (Spent(q)' <=> Spent(q))
      BY <1>2, <1>3, <1>4, <2>3 DEF Spent
    <3>2. Told(y)
      BY <1>10, <2>1, <3>1 DEF IInv, Tells
    <3>3. QED
      BY <1>2, <3>1, <3>2, ToldKept
  <2>4. QED
    BY <2>2, <2>3
<1>12. Scores'
  <2>1. SUFFICES ASSUME NEW y \in Subscribers, Sole(y)', step > 0, reader'[y].state # "gone",
                        \A r \in Clients : task[r] = "idle"
                 PROVE  y \in scored' \/ (reader'[y].state # "ended" /\ HasChunk(queue[1]))
    BY <1>2 DEF Scores
  <2>2. y \in Readers /\ y # x
    BY <1>1, <1>3, <2>1
  <2>3. reader'[y] = reader[y] /\ (y \in scored => y \in scored')
    BY <1>2, <1>3, <2>2
  <2>4. QED
    BY <1>10, <2>1, <2>2, <2>3 DEF IInv, Scores
<1>13. Pending'
  BY <1>2 DEF IInv, Pending
<1>14. QED
  BY <1>6, <1>7, <1>8, <1>9, <1>11, <1>12, <1>13 DEF IInv

LEMMA TakeKeeps ==
  ASSUME IInv, NEW x \in Readers, Take(x)
  PROVE  IInv'
<1> PICK q, w, v, event : /\ q = reader[x].at /\ w = queue[q] /\ v = Tail(w)
                          /\ event = Head(w)
  OBVIOUS
<1>1. /\ reader \in [Readers -> ReaderType] /\ told \in [Readers -> Words]
      /\ queue \in [Requests -> Seq(Events)] /\ q \in Requests /\ 1 \in Requests
      /\ \A y \in Subscribers : y \in Readers
      /\ \A y \in Clients : y \in Readers
      /\ \A y \in Readers : reader[y].at \in Requests /\ reader[y].at \in Nat
      /\ scored \subseteq Subscribers
  BY SessionIs DEF IInv
<1>2. /\ reader[x].state = "waiting" /\ w # <<>>
      /\ queue' = [queue EXCEPT ![q] = v]
      /\ reader' = [reader EXCEPT ![x].state = IF event = "None" THEN "ended" ELSE "holding"]
      /\ told' = IF event = "None" THEN told
                 ELSE [told EXCEPT ![x] = Shown(x, event)]
      /\ scored' = scored \cup IF event = "RAG_CHUNK" THEN {x} \cap Subscribers ELSE {}
      /\ session' = session /\ step' = step /\ task' = task /\ outcome' = outcome
  BY DEF Take
<1>3. w \in Seq(Events) /\ v \in Seq(Events) /\ event = w[1]
  BY <1>1, <1>2
<1>4. /\ queue' \in [Requests -> Seq(Events)] /\ queue'[q] = v
      /\ \A r \in Requests : r # q => queue'[r] = queue[r]
  BY <1>1, <1>2, <1>3
<1>5. /\ reader' \in [Readers -> ReaderType] /\ reader'[x].at = q
      /\ event = "None" => reader'[x].state = "ended"
      /\ event # "None" => reader'[x].state = "holding"
      /\ \A y \in Readers : y # x => reader'[y] = reader[y]
  BY <1>1, <1>2 DEF ReaderType
<1>6. /\ told' \in [Readers -> Words]
      /\ event = "None" => told'[x] = told[x]
      /\ event # "None" => told'[x] = Shown(x, event)
      /\ \A y \in Readers : y # x => told'[y] = told[y]
  <2>1. event \in Events /\ "STATUS" \in Events
    BY <1>2, <1>3 DEF Events
  <2>2. event # "None" => Shown(x, event) \in Words
    BY <2>1 DEF Shown, Words
  <2>3. QED
    BY <1>1, <1>2, <2>2
<1>7. /\ scored' \subseteq Subscribers
      /\ \A y \in scored : y \in scored'
      /\ event = "RAG_CHUNK" /\ x \in Subscribers => x \in scored'
  BY <1>1, <1>2
<1>8. \A y \in Readers : /\ reader'[y].at = reader[y].at
                         /\ reader'[y].state = "idle" <=> reader[y].state = "idle"
  BY <1>2, <1>5
<1>9. TypeOK'
  BY <1>2, <1>4, <1>5, <1>6, <1>7 DEF IInv, TypeOK, ReaderType, Words
<1>10. Turns'
  BY <1>2 DEF IInv, Turns
<1>11. Places'
  BY <1>1, <1>2, <1>8 DEF IInv, Places
<1>12. Closes'
  <2>1. ASSUME NEW r \in Requests PROVE Closed(r)' <=> Closed(r)
    <3>1. CASE r = q
      <4>1. HasNone(w) <=> event = "None" \/ HasNone(v)
        BY <1>2, <1>3, NoneIn
      <4>2. HasNone(queue'[q]) <=> HasNone(v)
        BY <1>4, Zenon
      <4>3. (\E y \in Readers : reader'[y].state = "ended" /\ reader'[y].at = q)
             <=> \/ event = "None"
                 \/ \E y \in Readers : reader[y].state = "ended" /\ reader[y].at = q
        BY <1>2, <1>5
      <4>4. (HasNone(queue[q]) <=> HasNone(w)) /\ (HasNone(queue[q])' <=> HasNone(queue'[q]))
        BY Zenon DEF HasNone
      <4>5. QED
        BY <3>1, <4>1, <4>2, <4>3, <4>4, Zenon DEF Closed
    <3>2. CASE r # q
      <4>1. HasNone(queue[r])' <=> HasNone(queue[r])
        BY <1>4, <3>2 DEF HasNone
      <4>2. \A y \in Readers : reader'[y].state = "ended" /\ reader'[y].at = r
                           <=> reader[y].state = "ended" /\ reader[y].at = r
        BY <1>5, <1>8, <3>2
      <4>3. QED
        BY <4>1, <4>2, Zenon DEF Closed
    <3>3. QED
      BY <3>1, <3>2
  <2>2. task[q] # "idle"
    BY <1>1, <1>2 DEF IInv, Closes
  <2>3. ASSUME NEW r \in Requests, task'[r] = "idle" PROVE queue'[r] = <<>>
    BY <1>2, <1>4, <2>2, <2>3 DEF IInv, Closes
  <2>4. QED
    BY <1>2, <2>1, <2>3, Zenon DEF IInv, Closes
<1>13. ASSUME NEW y \in Readers, Sole(y)' PROVE Sole(y)
  <2>1. \A z \in Readers : reader'[z].state = "idle" => reader[z].state = "idle"
    BY <1>8
  <2>2. \A z \in Subscribers : reader'[z].at \in Requests /\ reader[z].at <= reader'[z].at
    BY <1>1, <1>8
  <2>3. QED
    BY <1>13, <2>1, <2>2, SoleBefore DEF IInv
<1>14. ASSUME NEW y \in Readers, y # x, Sole(y), y \in Clients => reader[y].state # "idle"
       PROVE  reader[y].at # q
  BY <1>2, <1>14, SoleApart DEF IInv
<1>15. Tells'
  <2>1. SUFFICES ASSUME NEW y \in Readers, Sole(y)',
                        task[reader[y].at] \notin {"refused", "rejected"},
                        y \in Clients => reader[y].state # "idle"
                 PROVE  Told(y)'
    BY <1>2, <1>8 DEF Tells
  <2>2. Told(y)
    BY <1>13, <2>1 DEF IInv, Tells
  <2>3. \A r \in Requests : Spent(r)' <=> Spent(r)
    BY <1>2 DEF Spent
  <2>4. CASE y = x
    <3> PICK e, hears : e = Ends(q) /\ hears = (Heard(x)')
      OBVIOUS
    <3>1. /\ InOrder(w, e) /\ (NoneFirst(w) => Heard(x))
          /\ Spent(q) => Over(w, e) \/ (w = <<>> /\ Heard(x))
      BY <1>2, <2>2, <2>4, Zenon DEF Told
    <3>2. Finals(q)' = Finals(q) /\ Ends(q)' = e /\ reader'[x].at = q
      BY <1>2, <1>5, FinalsKept DEF Ends
    <3>3. CASE event = "None"
      <4>1. Heard(x)
        BY <1>2, <1>3, <3>1, <3>3 DEF NoneFirst
      <4>2. reader'[x].state = "ended" /\ told'[x] = told[x]
        BY <1>5, <1>6, <3>3
      <4>3. Heard(x)'
        BY <3>2, <4>1, <4>2, Zenon DEF Heard, Shown
      <4>4. QED
        BY <2>4, <4>2, <4>3 DEF Told
    <3>4. CASE event # "None"
      <4>1. ~NoneFirst(w)
        BY <1>3, <3>4 DEF NoneFirst
      <4>2. /\ InOrder(v, e) /\ (NoneFirst(v) => event \in e \ {"None"})
            /\ Over(w, e) => Over(v, e) \/ (v = <<>> /\ event \in e \ {"None"})
        BY <1>2, <1>3, <3>1, <4>1, TailInOrder
      <4>3. event \in e => hears
        <5>1. SUFFICES ASSUME event \in Finals(q) PROVE told'[x] \in {Shown(x, d) : d \in Finals(q)}
          BY <3>2, <3>4, Zenon DEF Ends, Heard, Shown
        <5>2. QED
          BY <1>6, <3>4, <5>1
      <4>4. /\ InOrder(v, e) /\ (NoneFirst(v) => hears)
            /\ Spent(q) => Over(v, e) \/ (v = <<>> /\ hears)
        BY <1>2, <3>1, <4>2, <4>3
      <4>5. /\ reader'[x].state = "holding" /\ queue'[q] = v
            /\ Spent(q)' <=> Spent(q)
        BY <1>1, <1>4, <1>5, <2>3, <3>4
      <4>6. /\ InOrder(queue'[q], Ends(q)') /\ (NoneFirst(queue'[q]) => hears)
            /\ Spent(q)' => Over(queue'[q], Ends(q)') \/ (queue'[q] = <<>> /\ hears)
        BY <3>2, <4>4, <4>5, Zenon
      <4>7. QED
        BY <2>4, <3>2, <4>5, <4>6, Zenon DEF Told
    <3>5. QED
      BY <3>3, <3>4
  <2>5. CASE y # x
    <3> PICK r : r = reader[y].at
      OBVIOUS
    <3>1. r # q /\ r \in Requests
      BY <1>1, <1>13, <1>14, <2>1, <2>5
    <3>2. /\ reader'[y] = reader[y] /\ told'[y] = told[y] /\ queue'[r] = queue[r]
          /\ Spent(r)' <=> Spent(r)
      BY <1>4, <1>5, <1>6, <2>3, <2>5, <3>1
    <3>3. QED
      BY <1>2, <2>2, <3>2, ToldKept
  <2>6. QED
    BY <2>4, <2>5
<1>16. Scores'
  <2>1. SUFFICES ASSUME NEW y \in Subscribers, Sole(y)', step > 0, reader'[y].state # "gone",
                        \A r \in Clients : task[r] = "idle"
                 PROVE  y \in scored' \/ (reader'[y].state # "ended" /\ HasChunk(queue'[1]))
    BY <1>2 DEF Scores
  <2>2. y \in Readers /\ Sole(y) /\ y \notin Clients
    BY <1>1, <1>13, <2>1, Disjoint
  <2>3. reader[y].at = 1
    BY <2>1, <2>2, SoleAtOne DEF IInv
  <2>4. CASE y = x
    <3>1. q = 1 /\ (x \in scored \/ HasChunk(w))
      BY <1>2, <2>1, <2>2, <2>3, <2>4 DEF IInv, Scores
    <3>2. CASE x \in scored
      BY <1>7, <2>4, <3>2
    <3>3. CASE HasChunk(w)
      <4>1. event = "RAG_CHUNK" \/ (event # "None" /\ HasChunk(v))
        BY <1>2, <1>3, <3>3, ChunkIn
      <4>2. QED
        BY <1>4, <1>5, <1>7, <2>1, <2>4, <3>1, <4>1
    <3>4. QED
      BY <3>1, <3>2, <3>3
  <2>5. CASE y # x
    <3>1. queue'[1] = queue[1] /\ reader'[y] = reader[y]
      BY <1>1, <1>4, <1>5, <1>14, <2>2, <2>3, <2>5
    <3>2. y \in scored \/ (reader[y].state # "ended" /\ HasChunk(queue[1]))
      BY <2>1, <2>2, <3>1 DEF IInv, Scores
    <3>3. QED
      BY <1>7, <3>1, <3>2
  <2>6. QED
    BY <2>4, <2>5
<1>17. Pending'
  BY <1>2 DEF IInv, Pending
<1>18. QED
  BY <1>9, <1>10, <1>11, <1>12, <1>15, <1>16, <1>17 DEF IInv

-----------------------------------------------------------------------------
(* The behaviours. *)

LEMMA InitIInv ==
  ASSUME Init PROVE IInv
<1>1. /\ session = [status |-> "none", cancelled |-> FALSE, events |-> 1] /\ step = 0
      /\ task = [r \in Requests |-> "idle"] /\ queue = [r \in Requests |-> <<>>]
      /\ reader = [x \in Readers |-> [state |-> "idle", at |-> 1]]
      /\ told = [x \in Readers |-> "none"] /\ outcome = [r \in Requests |-> "none"] /\ scored = {}
  BY DEF Init
<1>2. /\ 1 \in Requests /\ \A r \in Requests : r \in Nat /\ r >= 1
      /\ \A r \in Clients : r \in Requests /\ r \in Readers
      /\ \A x \in Subscribers : x \in Readers
  BY GraphqlAskAssumption DEF Requests, Clients, Readers
<1>3. <<>> \in Seq(Events) /\ 0 \in 0..LastStep
  BY GraphqlAskAssumption
<1>4. TypeOK
  BY <1>1, <1>2, <1>3 DEF TypeOK, TaskStates
<1>5. Turns
  BY <1>1, <1>2 DEF Turns, Runs
<1>6. Places
  BY <1>1, <1>2 DEF Places
<1>7. \A r \in Requests : queue[r] = <<>> /\ task[r] = "idle" /\ ~Spent(r)
  BY <1>1 DEF Spent
<1>8. \A x \in Readers : reader[x].state = "idle" /\ reader[x].at = 1 /\ told[x] = "none"
  BY <1>1
<1>9. Closes
  BY <1>7, <1>8 DEF Closes, Closed, HasNone, Waits
<1>10. Tells
  BY <1>2, <1>7, <1>8 DEF Tells, Told, InOrder, NoneFirst
<1>11. Scores
  BY <1>1 DEF Scores
<1>12. Pending
  BY <1>1 DEF Pending
<1>13. QED
  BY <1>4, <1>5, <1>6, <1>9, <1>10, <1>11, <1>12 DEF IInv

LEMMA StepIInv ==
  ASSUME IInv, [Next]_vars PROVE IInv'
<1>1. ASSUME AskQuestion PROVE IInv'
  BY <1>1, AskQuestionKeeps
<1>2. ASSUME AskStop PROVE IInv'
  <2>1. session \in SessionType
    BY SessionIs DEF IInv
  <2>2. /\ session' = [session EXCEPT !.cancelled = TRUE]
        /\ UNCHANGED <<step, task, queue, outcome, Reading>>
    BY <1>2 DEF AskStop
  <2>3. /\ session' \in SessionType /\ session'.status = session.status
        /\ session'.events = session.events
    BY <2>1, <2>2 DEF SessionType
  <2>4. QED
    BY <2>2, <2>3, StopKeeps
<1>3. ASSUME NEW r \in Requests, AskResume(r) \/ Turn(r) PROVE IInv'
  BY <1>3, AskResumeKeeps, RunStartKeeps, SnapshotKeeps, RunEndsKeeps, CloseTaskKeeps DEF Turn
<1>4. ASSUME NEW x \in Subscribers, Subscribe(x) PROVE IInv'
  BY <1>4, SubscribeKeeps
<1>5. ASSUME NEW x \in Readers, Read(x) \/ Leave(x) PROVE IInv'
  BY <1>5, TakeKeeps, AgainKeeps, LeaveKeeps DEF Read
<1>6. ASSUME UNCHANGED vars PROVE IInv'
  <2>1. session \in SessionType
    BY SessionIs DEF IInv
  <2>2. session' = session /\ UNCHANGED <<step, task, queue, outcome, Reading>>
    BY <1>6 DEF vars, Reading
  <2>3. QED
    BY <2>1, <2>2, StopKeeps
<1>7. QED
  BY <1>1, <1>2, <1>3, <1>4, <1>5, <1>6 DEF Next

\* Every variable keeps its type.
THEOREM GraphqlTypeCorrect == Spec => []TypeOK
<1>1. IInv => TypeOK
  BY DEF IInv
<1>2. QED
  BY InitIInv, StepIInv, <1>1, PTL DEF Spec

\* The last event of whoever reads alone says how the run ended, with or without an
\* emitter; a subscription learns of a stop by a STATUS.
THEOREM EndsAreTold == Spec => []EndIsTold
<1>1. IInv => EndIsTold
  <2>1. SUFFICES ASSUME IInv, NEW x \in Readers, reader[x].state = "ended", Sole(x),
                        task[reader[x].at] \notin {"refused", "rejected"}
                 PROVE  Heard(x)
    BY DEF EndIsTold
  <2>2. Told(x)
    BY <2>1 DEF IInv, Tells
  <2>3. QED
    BY <2>1, <2>2 DEF Told
<1>2. QED
  BY InitIInv, StepIInv, <1>1, PTL DEF Spec

\* When every run is over, a reader that waits on an empty queue waits because
\* another one took its None.
THEOREM WaitersAreExplained == Spec => []WaiterExplained
<1>1. IInv => WaiterExplained
  <2>1. SUFFICES ASSUME IInv, NEW x \in Readers, reader[x].state = "waiting",
                        queue[reader[x].at] = <<>>,
                        \A r \in Requests : task[r] \in {"idle", "finished", "broken", "rejected"}
                 PROVE  \E y \in Readers \ {x} :
                          reader[y].state = "ended" /\ reader[y].at = reader[x].at
    BY DEF WaiterExplained
  <2> PICK q : q = reader[x].at
    OBVIOUS
  <2>2. q \in Requests /\ q \in Nat /\ session.events \in Nat
    BY SessionIs, <2>1 DEF IInv
  <2>3. task[q] # "idle"
    BY <2>1, <2>2 DEF IInv, Turns, Places
  <2>4. Closed(q) /\ ~HasNone(queue[q])
    BY <2>1, <2>2, <2>3 DEF IInv, Closes, HasNone
  <2>5. QED
    BY <2>1, <2>4 DEF Closed
<1>2. QED
  BY InitIInv, StepIInv, <1>1, PTL DEF Spec

\* What the run retrieved is scored for a subscription alone with it, however the
\* run ended.
THEOREM RetrievalsAreScored == Spec => []RetrievalIsScored
<1>1. IInv => RetrievalIsScored
  BY DEF IInv, Scores, RetrievalIsScored
<1>2. QED
  BY InitIInv, StepIInv, <1>1, PTL DEF Spec
=============================================================================
