---------------------------- MODULE ChatPageProofs ----------------------------
(***************************************************************************)
(* What the chat page shows and offers agrees with the sessions of the     *)
(* API, for any number of questions, requests and uses of the stop button. *)
(***************************************************************************)
EXTENDS ChatPage, TLAPS

-----------------------------------------------------------------------------
(* Types. *)

PageType ==
  [loading : BOOLEAN, current : Requests \cup {None},
   active : Sessions \cup {None}, offer : Sessions \cup {None},
   asked : Sessions \cup {None}, assistant : BOOLEAN]
RequestType ==
  [state : RequestStates, session : Sessions \cup {None}, resumes : BOOLEAN,
   hadOffer : BOOLEAN, begun : BOOLEAN, queue : Seq(Events)]
PressType ==
  [state : {"idle", "sent", "answered", "back"},
   session : Sessions \cup {None}, stream : Requests \cup {None}]
ServerType ==
  [phase : Phases, step : 0..1, first : BOOLEAN, stream : Requests \cup {None}]

LEMMA TypeIs ==
  TypeOK <=> /\ page \in PageType /\ request \in [Requests -> RequestType]
             /\ press \in [Presses -> PressType] /\ server \in [Sessions -> ServerType]
             /\ exposed \in BOOLEAN /\ blame \in [Sessions -> SUBSET Causes]
BY DEF TypeOK, PageType, RequestType, PressType, ServerType

LEMMA InitTyped == Init => TypeOK
<1> SUFFICES ASSUME Init PROVE TypeOK
  OBVIOUS
<1>1. page \in PageType
  BY DEF Init, PageType
<1>2. \A r \in Requests : request[r] \in RequestType
  BY DEF Init, RequestType, RequestStates
<1>3. \A p \in Presses : press[p] \in PressType
  BY DEF Init, PressType
<1>4. \A n \in Sessions : server[n] \in ServerType
  BY DEF Init, ServerType, Phases
<1>5. /\ request = [r \in Requests |-> request[r]]
      /\ press = [p \in Presses |-> press[p]]
      /\ server = [n \in Sessions |-> server[n]]
      /\ blame \in [Sessions -> SUBSET Causes] /\ exposed \in BOOLEAN
  BY DEF Init
<1>6. QED
  BY <1>1, <1>2, <1>3, <1>4, <1>5, TypeIs

LEMMA BlamedIs ==
  ASSUME blame \in [Sessions -> SUBSET Causes], NEW c \in Causes, NEW ns
  PROVE  /\ Blamed(c, ns) \in [Sessions -> SUBSET Causes]
         /\ \A n \in Sessions : blame[n] \subseteq Blamed(c, ns)[n]
         /\ \A n \in ns \cap Sessions : c \in Blamed(c, ns)[n]
BY DEF Blamed

\* What an aborted stream is to the page, field by field.
LEMMA AbortedIs ==
  ASSUME request \in [Requests -> RequestType], page \in PageType
  PROVE  /\ Aborted \in [Requests -> RequestType]
         /\ \A r \in Requests :
              /\ Aborted[r].session = request[r].session
              /\ Aborted[r].resumes = request[r].resumes
              /\ Aborted[r].hadOffer = request[r].hadOffer
              /\ Aborted[r].begun = request[r].begun
              /\ r # page.current \/ request[r].state \notin Live =>
                   Aborted[r].state = request[r].state /\ Aborted[r].queue = request[r].queue
              /\ r = page.current /\ request[r].state = "sent" => Aborted[r].state = "cut"
              /\ r = page.current /\ request[r].state \in {"open", "refused"} =>
                   Aborted[r].state = "closed"
<1>1. ASSUME NEW r \in Requests
      PROVE  /\ Aborted[r] \in RequestType
             /\ Aborted[r].session = request[r].session
             /\ Aborted[r].resumes = request[r].resumes
             /\ Aborted[r].hadOffer = request[r].hadOffer
             /\ Aborted[r].begun = request[r].begun
             /\ r # page.current \/ request[r].state \notin Live =>
                  Aborted[r].state = request[r].state /\ Aborted[r].queue = request[r].queue
             /\ r = page.current /\ request[r].state = "sent" => Aborted[r].state = "cut"
             /\ r = page.current /\ request[r].state \in {"open", "refused"} =>
                  Aborted[r].state = "closed"
  <2>1. request[r] \in RequestType
    OBVIOUS
  <2>2. CASE r = page.current /\ request[r].state = "sent"
    BY <2>1, <2>2 DEF Aborted, RequestType, RequestStates, Live
  <2>3. CASE r = page.current /\ request[r].state \in {"open", "refused"}
    <3>1. Aborted[r] = [request[r] EXCEPT !.state = "closed", !.queue = <<>>]
      BY <2>3 DEF Aborted
    <3>2. <<>> \in Seq(Events)
      OBVIOUS
    <3>3. QED
      BY <2>1, <2>3, <3>1, <3>2 DEF RequestType, RequestStates, Live
  <2>4. CASE r # page.current \/ request[r].state \notin Live
    BY <2>1, <2>4 DEF Aborted, RequestType, RequestStates, Live
  <2>5. QED
    BY <2>2, <2>3, <2>4 DEF Live
<1>2. Aborted = [r \in Requests |-> Aborted[r]]
  BY DEF Aborted
<1>3. QED
  BY <1>1, <1>2

\* What handleStop does after its await.
LEMMA StoppedIs ==
  ASSUME request \in [Requests -> RequestType], page \in PageType,
         NEW n \in Sessions \cup {None}, Stopped(n)
  PROVE  /\ request' = Aborted /\ page' \in PageType /\ page'.loading = FALSE
         /\ page'.current = page.current /\ page'.active = page.active
         /\ page'.asked = page.asked
         /\ page'.offer = IF n # None /\ page.assistant THEN n ELSE page.offer
<1>1. PICK pg : pg = [page EXCEPT !.loading = FALSE,
                        !.offer = IF n # None /\ page.assistant THEN n ELSE @]
  OBVIOUS
<1>2. /\ pg \in PageType
      /\ pg.loading = FALSE /\ pg.current = page.current /\ pg.active = page.active
      /\ pg.asked = page.asked
      /\ pg.offer = IF n # None /\ page.assistant THEN n ELSE page.offer
  BY <1>1 DEF PageType
<1>3. request' = Aborted /\ (page' = pg \/ page' = Finally(page.current, pg))
  BY <1>1 DEF Stopped
<1>4. QED
  BY <1>2, <1>3 DEF Finally, PageType

\* What an event does to the page.
LEMMA HandleEventIs ==
  ASSUME TypeOK, NEW r \in Requests, NEW event \in Events
  PROVE  LET pg == HandleEvent(r, event)
         IN /\ pg \in PageType
            /\ pg.current = page.current /\ pg.asked = page.asked
            /\ pg.loading = (page.loading /\ event # "end")
            /\ event # "end" => pg.assistant = page.assistant
            /\ pg.active = CASE event = "STATUS" -> request[r].session
                             [] event = "DONE" -> None
                             [] event = "end" /\ (exposed \/ request[r].resumes)
                                  -> request[r].session
                             [] OTHER -> page.active
            /\ pg.offer = CASE event = "PAUSED" /\ page.active # None /\ page.assistant
                                 -> page.active
                            [] event = "DONE" -> None
                            [] OTHER -> page.offer
<1>1. page \in PageType /\ request[r] \in RequestType
  BY TypeIs
<1>2. CASE event = "end"
  <2>1. PICK a \in Sessions \cup {None} :
          a = IF exposed \/ request[r].resumes THEN request[r].session ELSE page.active
    BY <1>1 DEF PageType, RequestType
  <2>2. PICK pg : pg = [page EXCEPT !.active = a]
    OBVIOUS
  <2>3. /\ pg \in PageType /\ pg.active = a /\ pg.current = page.current
        /\ pg.asked = page.asked /\ pg.offer = page.offer
    BY <1>1, <2>2 DEF PageType
  <2>4. HandleEvent(r, event) = Finally(r, pg)
    BY <1>2, <2>1, <2>2 DEF HandleEvent
  <2>5. QED
    BY <1>2, <2>1, <2>3, <2>4 DEF Finally, PageType
<1>3. CASE event = "PAUSED" /\ page.active # None /\ page.assistant
  BY <1>1, <1>3 DEF HandleEvent, PageType
<1>4. CASE event = "DONE"
  BY <1>1, <1>4 DEF HandleEvent, PageType
<1>5. CASE event = "STATUS"
  BY <1>1, <1>5 DEF HandleEvent, PageType, RequestType
<1>6. CASE event = "ERROR" \/ (event = "PAUSED" /\ ~(page.active # None /\ page.assistant))
  BY <1>1, <1>6 DEF HandleEvent, PageType
<1>7. QED
  BY <1>2, <1>3, <1>4, <1>5, <1>6 DEF Events

-----------------------------------------------------------------------------
(* What every step may use. *)

LEMMA StateIs ==
  ASSUME IInv
  PROVE  /\ page \in PageType /\ request \in [Requests -> RequestType]
         /\ press \in [Presses -> PressType] /\ server \in [Sessions -> ServerType]
         /\ blame \in [Sessions -> SUBSET Causes]
         /\ page.current \in Nat /\ page.asked \in Nat /\ page.asked <= MaxAsks
         /\ \A r \in Requests : r \in Nat /\ r > 0
         /\ Sessions = 1..MaxAsks /\ MaxAsks \in Nat
         /\ page.loading => page.current \in Requests
         /\ \A r \in Requests : request[r].state # "idle" =>
              /\ r \in 1..page.current /\ request[r].session \in Sessions
              /\ request[r].session \in 1..page.asked
<1>1. /\ page \in PageType /\ request \in [Requests -> RequestType]
      /\ press \in [Presses -> PressType] /\ server \in [Sessions -> ServerType]
      /\ blame \in [Sessions -> SUBSET Causes]
  BY TypeIs DEF IInv
<1>2. /\ \A r \in Requests : r \in Nat /\ r > 0
      /\ Sessions = 1..MaxAsks /\ MaxAsks \in Nat
  BY ChatPageAssumption DEF Requests, Sessions
<1>3. /\ page.current \in Requests \cup {None} /\ page.asked \in Sessions \cup {None}
      /\ None = 0
  BY <1>1 DEF PageType, None
<1>4. page.current \in Nat /\ page.asked \in Nat /\ page.asked <= MaxAsks
  <2>1. page.current \in Nat
    <3>1. PICK c : c = page.current
      OBVIOUS
    <3>2. c \in Requests \/ c = 0
      BY <1>3, <3>1
    <3>3. c \in Nat
      BY <1>2, <3>2
    <3>4. QED
      BY <3>1, <3>3
  <2>2. PICK a \in 0..MaxAsks : a = page.asked
    BY <1>2, <1>3, Z3
  <2>3. QED
    BY <1>2, <2>1, <2>2
<1>5. ASSUME NEW r \in Requests, request[r].state # "idle"
      PROVE  /\ r \in 1..page.current /\ request[r].session \in Sessions
             /\ request[r].session \in 1..page.asked
  <2>1. r <= page.current
    BY <1>2, <1>4, <1>5 DEF IInv, Numbered
  <2>2. request[r].session \in 1..page.asked
    BY <1>5 DEF IInv, Numbered
  <2>3. QED
    BY <1>2, <1>4, <2>1, <2>2
<1>6. page.loading => page.current \in Requests
  BY <1>3 DEF IInv, OneStream
<1>7. QED
  BY <1>1, <1>2, <1>4, <1>5, <1>6

\* Most steps keep which requests there are and what they are about.
Kept ==
  \A r \in Requests :
    /\ request'[r].session = request[r].session
    /\ request'[r].resumes = request[r].resumes
    /\ request'[r].state = "idle" <=> request[r].state = "idle"
    /\ request[r].begun => request'[r].begun

Grows == \A n \in Sessions : blame[n] \subseteq blame'[n]

\* A connection that closes, or that goes on.
Fades ==
  /\ Kept
  /\ \A r \in Requests :
       /\ \/ request'[r].state = request[r].state
          \/ request[r].state \in {"open", "refused"} /\ request'[r].state = "closed"
          \/ request[r].state = "sent" /\ request'[r].state = "cut"
       /\ request'[r].begun = request[r].begun \/ request[r].state = "open"

LEMMA NumberedStays ==
  ASSUME IInv, Kept, page' \in PageType,
         page'.current = page.current, page'.asked = page.asked,
         page'.offer <= page.asked, page'.active <= page.asked,
         \A n \in Sessions : n > page.asked => server'[n].phase = "new"
  PROVE  Numbered'
<1>1. Numbered
  BY DEF IInv
<1>2. \A r \in Requests : request'[r].state = "idle" <=> r > page'.current
  BY <1>1 DEF Numbered, Kept
<1>3. \A r \in Requests : request'[r].state # "idle" => request'[r].session \in 1..page'.asked
  BY <1>1 DEF Numbered, Kept
<1>4. page'.current = None => page'.asked = None
  BY <1>1 DEF Numbered
<1>5. \A q, r \in Requests :
        /\ "idle" \notin {request'[q].state, request'[r].state}
        /\ request'[q].session = request'[r].session
        /\ ~request'[q].resumes /\ ~request'[r].resumes
        => q = r
  BY <1>1 DEF Numbered, Kept
<1>6. QED
  BY <1>2, <1>3, <1>4, <1>5 DEF Numbered

LEMMA StreamsStay ==
  ASSUME IInv, Fades, server' = server,
         page'.active # None => server[page'.active].phase # "new"
  PROVE  Streams'
<1>1. Streams /\ server \in [Sessions -> ServerType]
  BY StateIs DEF IInv
<1>2. ASSUME NEW n \in Sessions
      PROVE  /\ server'[n].stream = None <=> server'[n].phase = "new"
             /\ server'[n].stream # None =>
                  /\ request'[server'[n].stream].session = n
                  /\ request'[server'[n].stream].state \in {"open", "closed"}
  <2>1. server[n].stream = None <=> server[n].phase = "new"
    BY <1>1 DEF Streams
  <2>2. ASSUME server[n].stream # None
        PROVE  /\ request'[server[n].stream].session = n
               /\ request'[server[n].stream].state \in {"open", "closed"}
    <3>1. server[n].stream \in Requests
      BY <1>1, <2>2 DEF ServerType
    <3>2. /\ request[server[n].stream].session = n
          /\ request[server[n].stream].state \in {"open", "closed"}
      BY <1>1, <2>2 DEF Streams
    <3>3. QED
      BY <3>1, <3>2 DEF Fades, Kept
  <2>3. QED
    BY <2>1, <2>2
<1>3. ASSUME NEW r \in Requests
      PROVE  /\ request'[r].state = "open" => server'[request'[r].session].phase # "new"
             /\ request'[r].state = "refused" => request'[r].resumes
             /\ request'[r].state \in {"sent", "refused"} => ~request'[r].begun
             /\ request'[r].state \in {"sent", "cut"} /\ ~request'[r].resumes =>
                  server'[request'[r].session].phase = "new"
  BY <1>1 DEF Streams, Fades, Kept
<1>4. QED
  BY <1>2, <1>3 DEF Streams

LEMMA UnreadStays ==
  ASSUME IInv, Fades, Grows, server' = server,
         \A r \in Requests :
           /\ request[r].state = "sent" /\ request'[r].state = "cut"
                => blame'[request[r].session] \cap Broken # {}
           /\ /\ request[r].state = "open" /\ request'[r].state = "closed"
              /\ server[request[r].session].stream = r
              /\ server[request[r].session].phase = "running"
              /\ server[request[r].session].step = 0
              => blame'[request[r].session] \cap Broken # {}
  PROVE  Unread'
<1>1. Unread /\ Streams /\ server \in [Sessions -> ServerType]
  BY StateIs DEF IInv
<1>2. \A n \in Sessions : blame[n] \cap Broken # {} => blame'[n] \cap Broken # {}
  BY DEF Grows
<1>3. ASSUME NEW r \in Requests, request'[r].state = "cut"
      PROVE  blame'[request'[r].session] \cap Broken # {}
  <2>1. request[r].session \in Sessions /\ request'[r].session = request[r].session
    BY <1>3, StateIs DEF Fades, Kept
  <2>2. request[r].state = "sent" \/ request[r].state = "cut"
    BY <1>3 DEF Fades
  <2>3. QED
    BY <1>1, <1>2, <1>3, <2>1, <2>2 DEF Unread
<1>4. ASSUME NEW n \in Sessions, server[n].phase = "running", server[n].step = 0,
             request'[server[n].stream].state = "closed"
      PROVE  blame'[n] \cap Broken # {}
  <2>1. server[n].stream \in Requests
    BY <1>1, <1>4 DEF Streams, ServerType
  <2>2. /\ request[server[n].stream].session = n
        /\ request[server[n].stream].state \in {"open", "closed"}
    BY <1>1, <1>4 DEF Streams
  <2>3. CASE request[server[n].stream].state = "open"
    BY <1>4, <2>1, <2>2, <2>3
  <2>4. CASE request[server[n].stream].state = "closed"
    BY <1>1, <1>2, <1>4, <2>4 DEF Unread
  <2>5. QED
    BY <2>2, <2>3, <2>4
<1>5. QED
  BY <1>3, <1>4 DEF Unread

LEMMA PressedStays ==
  ASSUME IInv, Kept, Grows, page'.current = page.current, page'.asked = page.asked,
         \A n \in Sessions :
           /\ server[n].phase # "new" => server'[n].phase # "new"
           /\ Explained(n) => (Explained(n))'
           /\ server[n].phase # "running" \/ blame[n] \cap Broken # {}
                => server'[n].phase # "running" \/ blame'[n] \cap Broken # {},
         NEW p \in Presses, press'[p] = press[p], press[p].state \in {"sent", "answered"}
  PROVE  (Heard(p))'
<1> PICK n, c : n = press[p].session /\ c = page.current
  OBVIOUS
<1>1. /\ n # None /\ n <= page.asked /\ press[p].stream \in 1..c
      /\ server[n].phase # "new"
      /\ press[p].stream = c =>
           /\ n # request[c].session \/ ~request[c].begun =>
                "early" \in blame[n] \cap blame[request[c].session]
           /\ press[p].state = "answered" =>
                Explained(n) /\ (server[n].phase # "running" \/ blame[n] \cap Broken # {})
  BY DEF IInv, Pressed, Heard
<1>2. n \in Sessions /\ c \in Requests
  <2>1. c \in Requests \cup {None} /\ n \in Sessions \cup {None} /\ c \in Nat
    BY StateIs DEF PageType, PressType
  <2>2. c # 0
    BY <1>1, <2>1
  <2>3. QED
    BY <1>1, <2>1, <2>2 DEF None
<1>3. request[c].session \in Sessions
  <2>1. c \in Nat /\ request[c].state # "idle"
    BY <1>2, StateIs DEF IInv, Numbered
  <2>2. QED
    BY <1>2, <2>1, StateIs
<1>4. /\ request'[c].session = request[c].session
      /\ request[c].begun => request'[c].begun
  BY <1>2 DEF Kept
<1>5. blame[n] \subseteq blame'[n] /\ blame[request[c].session] \subseteq blame'[request[c].session]
  BY <1>2, <1>3 DEF Grows
<1>6. /\ server'[n].phase # "new"
      /\ Explained(n) => (Explained(n))'
      /\ server[n].phase # "running" \/ blame[n] \cap Broken # {}
           => server'[n].phase # "running" \/ blame'[n] \cap Broken # {}
  BY <1>1, <1>2
<1>7. n = press'[p].session /\ c = page'.current /\ page'.asked = page.asked
  OBVIOUS
<1>8. /\ n # None /\ n <= page'.asked /\ press'[p].stream \in 1..c
      /\ server'[n].phase # "new"
      /\ press'[p].stream = c =>
           /\ n # request'[c].session \/ ~request'[c].begun =>
                "early" \in blame'[n] \cap blame'[request'[c].session]
           /\ press'[p].state = "answered" =>
                (Explained(n))' /\ (server'[n].phase # "running" \/ blame'[n] \cap Broken # {})
  BY <1>1, <1>4, <1>5, <1>6, <1>7
<1>9. /\ press'[p].session # None /\ press'[p].session <= page'.asked
      /\ press'[p].stream \in 1..page'.current
      /\ server'[press'[p].session].phase # "new"
  BY <1>7, <1>8
<1>10. ASSUME press'[p].stream = page'.current
       PROVE  /\ \/ press'[p].session # request'[page'.current].session
                 \/ ~request'[page'.current].begun
                => "early" \in blame'[press'[p].session]
                               \cap blame'[request'[page'.current].session]
              /\ press'[p].state = "answered" =>
                   /\ (Explained(press[p].session))'
                   /\ \/ server'[press'[p].session].phase # "running"
                      \/ blame'[press'[p].session] \cap Broken # {}
  <2>1. press'[p].stream = c
    BY <1>7, <1>10
  <2>2. /\ n # request'[c].session \/ ~request'[c].begun =>
                "early" \in blame'[n] \cap blame'[request'[c].session]
        /\ press'[p].state = "answered" =>
             (Explained(n))' /\ (server'[n].phase # "running" \/ blame'[n] \cap Broken # {})
    BY <1>8, <2>1
  <2>3. QED
    BY <1>7, <2>2 DEF Explained
<1>11. QED
  BY <1>9, <1>10 DEF Heard

\* What the page points to are questions and requests that were sent.
LEMMA PageIs ==
  ASSUME IInv
  PROVE  /\ page.offer # None =>
              page.offer \in Sessions /\ page.asked \in Sessions /\ page.current # None
         /\ page.active # None => page.active \in Sessions /\ page.active <= page.asked
         /\ page.current # None =>
              /\ page.current \in Requests /\ request[page.current].state # "idle"
              /\ request[page.current].session \in Sessions /\ page.asked \in Sessions
<1> PICK a, o, v, c : a = page.asked /\ o = page.offer /\ v = page.active /\ c = page.current
  OBVIOUS
<1>1. /\ a \in Sessions \cup {None} /\ o \in Sessions \cup {None} /\ v \in Sessions \cup {None}
      /\ c \in Requests \cup {None}
  BY StateIs DEF PageType
<1>2. Sessions = 1..MaxAsks /\ MaxAsks \in Nat /\ None = 0
  BY StateIs DEF None
<1>3. o <= a /\ v <= a
  BY DEF IInv, Numbered
<1>4. o # None => a \in Sessions
  BY <1>1, <1>2, <1>3
<1>5. ASSUME c # None
      PROVE  /\ c \in Requests /\ request[c].state # "idle"
             /\ request[c].session \in Sessions /\ a \in Sessions
  <2>1. c \in Requests /\ c \in Nat
    BY <1>1, <1>5, StateIs
  <2>2. request[c].state # "idle"
    BY <2>1 DEF IInv, Numbered
  <2>3. request[c].session \in Sessions /\ request[c].session \in 1..a
    BY <2>1, <2>2, StateIs
  <2>4. PICK m : m = request[c].session
    OBVIOUS
  <2>5. m \in 1..MaxAsks /\ m \in 1..a /\ (a \in 1..MaxAsks \/ a = 0)
    BY <1>1, <1>2, <2>3, <2>4
  <2>6. a \in Sessions
    BY <1>2, <2>5, <2>3, <2>4
  <2>7. QED
    BY <2>1, <2>2, <2>3, <2>6
<1>6. a # None => c # None
  BY DEF IInv, Numbered
<1>7. a \in Sessions => a # None
  BY <1>2
<1>8. QED
  BY <1>1, <1>3, <1>4, <1>5, <1>6, <1>7

-----------------------------------------------------------------------------
(* A stream that breaks or is refused. *)

LEMMA FinallyIs ==
  ASSUME page \in PageType, NEW r, page' = Finally(r, page)
  PROVE  /\ page' \in PageType /\ page'.loading = FALSE
         /\ page'.current = page.current /\ page'.active = page.active
         /\ page'.asked = page.asked /\ page'.offer = page.offer
BY DEF Finally, PageType

LEMMA CloseKeeps ==
  ASSUME IInv, NEW r \in Requests, ReceiveRefusal(r) \/ ConnectionLost(r)
  PROVE  IInv'
<1>1. /\ page \in PageType /\ request \in [Requests -> RequestType]
      /\ press \in [Presses -> PressType] /\ server \in [Sessions -> ServerType]
      /\ blame \in [Sessions -> SUBSET Causes] /\ exposed \in BOOLEAN
  BY StateIs DEF IInv, TypeOK
<1>2. request[r].state \in Live /\ page' = Finally(r, page)
  BY DEF ReceiveRefusal, ConnectionLost, Live
<1>3. press' = press /\ server' = server /\ exposed' = exposed
  BY DEF ReceiveRefusal, ConnectionLost
<1>4. r = page.current /\ page.loading
  BY <1>2 DEF IInv, OneStream
<1>5. /\ page' \in PageType /\ page'.loading = FALSE
      /\ page'.current = page.current /\ page'.active = page.active
      /\ page'.asked = page.asked /\ page'.offer = page.offer
  BY <1>1, <1>2, FinallyIs
<1>6. /\ request' \in [Requests -> RequestType]
      /\ \A q \in Requests :
           /\ q # r => request'[q] = request[q]
           /\ request'[q].session = request[q].session
           /\ request'[q].resumes = request[q].resumes
           /\ request'[q].begun = request[q].begun
      /\ request'[r].state = IF request[r].state = "sent" THEN "cut" ELSE "closed"
  <2>1. CASE ReceiveRefusal(r)
    BY <1>1, <2>1 DEF ReceiveRefusal, RequestType, RequestStates
  <2>2. CASE ConnectionLost(r)
    <3>1. <<>> \in Seq(Events)
      OBVIOUS
    <3>2. PICK t \in RequestStates : t = IF request[r].state = "sent" THEN "cut" ELSE "closed"
      BY DEF RequestStates
    <3>3. request' = [request EXCEPT ![r].state = t, ![r].queue = <<>>]
      BY <2>2, <3>2 DEF ConnectionLost
    <3>4. QED
      BY <1>1, <3>1, <3>2, <3>3, ZenonT(30) DEF RequestType
  <2>3. QED
    BY <2>1, <2>2
<1>7. /\ blame' \in [Sessions -> SUBSET Causes] /\ Grows
      /\ request[r].state # "refused" => "lost" \in blame'[request[r].session]
  <2>1. request[r].session \in Sessions
    BY <1>2, StateIs DEF Live
  <2>2. CASE ReceiveRefusal(r)
    BY <1>1, <2>2 DEF ReceiveRefusal, Grows
  <2>3. CASE ConnectionLost(r)
    <3>1. blame' = Blamed("lost", {request[r].session})
      BY <2>3 DEF ConnectionLost
    <3>2. QED
      BY <1>1, <2>1, <3>1, BlamedIs DEF Causes, Grows
  <2>4. QED
    BY <2>2, <2>3
<1>8. Fades
  BY <1>2, <1>6 DEF Fades, Kept, Live
<1>9. TypeOK'
  BY <1>1, <1>3, <1>5, <1>6, <1>7 DEF TypeOK, PageType, RequestType, PressType, ServerType
<1>10. Numbered'
  <2>1. page.offer <= page.asked /\ page.active <= page.asked
        /\ \A n \in Sessions : n > page.asked => server[n].phase = "new"
    BY DEF IInv, Numbered
  <2>2. QED
    BY <1>3, <1>5, <1>8, <2>1, NumberedStays DEF Fades
<1>11. \A q \in Requests : request'[q].state \notin Live
  <2>1. \A q \in Requests : q # r => request[q].state \notin Live
    BY <1>4 DEF IInv, OneStream
  <2>2. QED
    BY <1>6, <2>1 DEF Live
<1>12. OneStream'
  BY <1>5, <1>11 DEF OneStream
<1>13. Streams'
  BY <1>3, <1>5, <1>8, StreamsStay DEF IInv, Streams
<1>14. Queues'
  BY <1>11 DEF Queues, Live
<1>15. Unread'
  BY <1>3, <1>6, <1>7, <1>8, UnreadStays DEF Broken
<1>16. Pressed'
  <2>1. \A n \in Sessions :
           /\ server[n].phase # "new" => server'[n].phase # "new"
           /\ Explained(n) => (Explained(n))'
           /\ server[n].phase # "running" \/ blame[n] \cap Broken # {}
                => server'[n].phase # "running" \/ blame'[n] \cap Broken # {}
    BY <1>3, <1>7 DEF Explained, Grows
  <2>2. QED
    BY <1>3, <1>5, <1>7, <1>8, <2>1, PressedStays DEF Pressed, Fades
<1>17. Offered'
  <2> PICK o, a, m : o = page.offer /\ a = page.asked /\ m = request[r].session
    OBVIOUS
  <2>1. /\ o # None => /\ o = m
                       /\ request[r].state \in {"sent", "refused"} => Explained(o)
                       /\ o # a => blame[o] \cap {"early", "crossed"} # {} /\ blame[a] # {}
        /\ request[r].state \in {"sent", "refused"} /\ request[r].resumes => o = m
        /\ m # a => blame[m] \cap {"early", "crossed"} # {} /\ blame[a] # {}
    <3>1. Offered
      BY DEF IInv
    <3>2. page.current # None
      BY <1>4, StateIs DEF None
    <3>3. QED
      BY <1>4, <3>1, <3>2 DEF Offered
  <2>2. /\ m \in Sessions /\ a \in Sessions /\ o \in Sessions \cup {None}
    <3>1. r # None /\ page.offer \in Sessions \cup {None}
      BY <1>1, StateIs DEF PageType, None
    <3>2. QED
      BY <1>4, <3>1, PageIs
  <2>3. request[r].state = "refused" \/ "lost" \in blame'[m]
    BY <1>7
  <2>4. /\ blame[m] \cap {"early", "crossed"} # {} => blame'[m] \cap {"early", "crossed"} # {}
        /\ blame[a] # {} => blame'[a] # {}
        /\ Explained(m) => server'[m].phase \in {"stopping", "paused"} \/ blame'[m] # {}
    BY <1>3, <1>7, <2>2 DEF Grows, Explained
  <2>5. /\ o # None => /\ server'[o].phase \in {"stopping", "paused"} \/ blame'[o] # {}
                       /\ o # a => blame'[o] \cap {"early", "crossed"} # {} /\ blame'[a] # {}
        /\ o = m \/ blame'[m] # {}
        /\ m # a => blame'[m] \cap {"early", "crossed"} # {} /\ blame'[a] # {}
    <3>1. request[r].state = "refused" => request[r].resumes
      BY DEF IInv, Streams
    <3>2. QED
      BY <2>1, <2>3, <2>4, <3>1
  <2>6. /\ o = page'.offer /\ a = page'.asked /\ m = request'[page'.current].session
        /\ request'[page'.current].state \in {"cut", "closed"} /\ page'.loading = FALSE
    BY <1>4, <1>5, <1>6
  <2>7. QED
    BY <2>5, <2>6 DEF Offered, Explained
<1>18. QED
  BY <1>9, <1>10, <1>12, <1>13, <1>14, <1>15, <1>16, <1>17 DEF IInv

-----------------------------------------------------------------------------
(* The stop button. *)

LEMMA StoppedKeeps ==
  ASSUME IInv, NEW n \in Sessions \cup {None}, Stopped(n),
         server' = server, exposed' = exposed,
         press' \in [Presses -> PressType],
         \A p \in Presses : press'[p] = press[p] \/ press'[p].state = "back",
         blame' \in [Sessions -> SUBSET Causes], Grows,
         NEW c \in Requests, c = page.current, NEW m, m = request[c].session,
         n # None =>
           /\ n <= page.asked
           /\ server[n].phase \in {"stopping", "paused"} \/ blame'[n] # {}
           /\ n # m => /\ blame'[n] \cap {"early", "crossed"} # {}
                       /\ blame'[m] \cap {"early", "crossed"} # {},
         page.loading =>
           \/ blame'[m] \cap Broken # {}
           \/ /\ request[c].begun
              /\ \/ n = None /\ page.offer = None /\ Passed(m)
                 \/ n = m /\ server[m].phase # "running"
  PROVE  IInv'
<1>1. /\ page \in PageType /\ request \in [Requests -> RequestType]
      /\ server \in [Sessions -> ServerType] /\ exposed \in BOOLEAN
  BY StateIs DEF IInv, TypeOK
<1>2. /\ request' = Aborted /\ page' \in PageType /\ page'.loading = FALSE
      /\ page'.current = page.current /\ page'.active = page.active
      /\ page'.asked = page.asked
      /\ page'.offer = IF n # None /\ page.assistant THEN n ELSE page.offer
  BY <1>1, StoppedIs
<1>3. /\ request' \in [Requests -> RequestType]
      /\ \A r \in Requests :
           /\ request'[r].session = request[r].session
           /\ request'[r].resumes = request[r].resumes
           /\ request'[r].begun = request[r].begun
           /\ r # page.current \/ request[r].state \notin Live =>
                request'[r].state = request[r].state
           /\ r = page.current /\ request[r].state = "sent" => request'[r].state = "cut"
           /\ r = page.current /\ request[r].state \in {"open", "refused"} =>
                request'[r].state = "closed"
  BY <1>1, <1>2, AbortedIs
<1>4. Fades
  BY <1>3 DEF Fades, Kept, Live
<1>5. \A r \in Requests : request'[r].state \notin Live
  BY <1>3 DEF IInv, OneStream, Live
<1>6. m \in Sessions /\ page.asked \in Sessions /\ c # None /\ m # None
  BY PageIs, StateIs DEF None
<1>7. TypeOK'
  BY <1>1, <1>2, <1>3 DEF TypeOK, PageType, RequestType, PressType, ServerType
<1>8. Numbered'
  <2>1. page.offer <= page.asked /\ page.active <= page.asked
        /\ \A s \in Sessions : s > page.asked => server[s].phase = "new"
    BY DEF IInv, Numbered
  <2>2. page'.offer <= page.asked /\ page'.active <= page.asked
    BY <1>2, <2>1
  <2>3. QED
    BY <1>2, <1>4, <2>1, <2>2, NumberedStays DEF Fades
<1>9. OneStream'
  BY <1>2, <1>5 DEF OneStream
<1>10. Streams'
  BY <1>2, <1>4, StreamsStay DEF IInv, Streams
<1>11. Queues'
  BY <1>5 DEF Queues, Live
<1>12. Unread'
  <2>1. ASSUME NEW r \in Requests, request[r].state \in Live, request'[r].state # request[r].state
        PROVE  r = c /\ page.loading
    BY <2>1 DEF IInv, OneStream
  <2>2. ASSUME NEW r \in Requests, request[r].state = "sent", request'[r].state = "cut"
        PROVE  blame'[request[r].session] \cap Broken # {}
    <3>1. r = c /\ page.loading
      BY <2>1, <2>2 DEF Live
    <3>2. ~request[c].begun
      BY <2>2, <3>1 DEF IInv, Streams
    <3>3. QED
      BY <3>1, <3>2
  <2>3. ASSUME NEW r \in Requests, request[r].state = "open", request'[r].state = "closed",
               server[request[r].session].phase = "running",
               server[request[r].session].step = 0
        PROVE  blame'[request[r].session] \cap Broken # {}
    <3>1. r = c /\ page.loading
      BY <2>1, <2>3 DEF Live
    <3>2. ~Passed(m) /\ server[m].phase = "running"
      BY <2>3, <3>1 DEF Passed
    <3>3. QED
      BY <3>1, <3>2
  <2>4. QED
    BY <1>4, <2>2, <2>3, UnreadStays
<1>13. Pressed'
  <2>1. \A s \in Sessions :
           /\ server[s].phase # "new" => server'[s].phase # "new"
           /\ Explained(s) => (Explained(s))'
           /\ server[s].phase # "running" \/ blame[s] \cap Broken # {}
                => server'[s].phase # "running" \/ blame'[s] \cap Broken # {}
    BY DEF Explained, Grows
  <2>2. ASSUME NEW p \in Presses, press'[p].state \in {"sent", "answered"}
        PROVE  (Heard(p))'
    <3>1. press'[p] = press[p] /\ press[p].state \in {"sent", "answered"}
      BY <2>2
    <3>2. QED
      BY <1>2, <1>4, <2>1, <3>1, PressedStays DEF Fades
  <2>3. QED
    BY <2>2 DEF Pressed
<1>14. Offered'
  <2> PICK o, a : o = page.offer /\ a = page.asked
    OBVIOUS
  <2>1. /\ o # None => /\ page.loading => o = m
                       /\ ~page.loading => Explained(o)
                       /\ o # a => blame[o] \cap {"early", "crossed"} # {} /\ blame[a] # {}
        /\ ~page.loading => o = m \/ Passed(m) \/ blame[m] # {}
        /\ m # a => blame[m] \cap {"early", "crossed"} # {} /\ blame[a] # {}
    <3>1. Offered
      BY DEF IInv
    <3>2. QED
      BY <1>6, <3>1 DEF Offered
  <2>2. o \in Sessions \cup {None} /\ a \in Sessions
    BY <1>1, <1>6 DEF PageType
  <2>3. \A s \in Sessions :
          /\ blame[s] \cap {"early", "crossed"} # {} => blame'[s] \cap {"early", "crossed"} # {}
          /\ blame[s] # {} => blame'[s] # {}
          /\ Explained(s) => (Explained(s))'
          /\ Passed(s) => (Passed(s))'
    BY DEF Grows, Explained, Passed
  <2>4. n # None => (Explained(n))'
    BY DEF Explained
  <2>5. blame'[m] \cap Broken # {} => blame'[m] # {} /\ (Explained(m))'
    BY DEF Explained
  <2> PICK w : w = page'.offer
    OBVIOUS
  <2>6. w = IF n # None /\ page.assistant THEN n ELSE o
    BY <1>2
  <2>7. page.loading => page.assistant
    BY DEF IInv, OneStream
  <2>8. w # None => (Explained(w))'
    <3>1. CASE w = n
      BY <2>4, <3>1
    <3>2. CASE w = o /\ ~page.loading
      BY <2>1, <2>2, <2>3, <3>2
    <3>3. CASE w = o /\ page.loading /\ n = None
      BY <2>1, <2>5, <3>3, <1>6
    <3>4. QED
      BY <2>6, <2>7, <3>1, <3>2, <3>3
  <2>9. w # None /\ w # a => blame'[w] \cap {"early", "crossed"} # {} /\ blame'[a] # {}
    <3>1. CASE w = o
      BY <2>1, <2>2, <2>3, <3>1
    <3>2. CASE w = n
      BY <1>6, <2>1, <2>2, <2>3, <3>2
    <3>3. QED
      BY <2>6, <3>1, <3>2
  <2>10. w = m \/ (Passed(m))' \/ blame'[m] # {}
    <3>1. CASE page.loading
      BY <1>6, <2>3, <2>5, <2>6, <2>7, <3>1
    <3>2. CASE ~page.loading
      BY <1>6, <2>1, <2>2, <2>3, <2>6, <3>2
    <3>3. QED
      BY <3>1, <3>2
  <2>11. m # a => blame'[m] \cap {"early", "crossed"} # {} /\ blame'[a] # {}
    BY <1>6, <2>1, <2>2, <2>3
  <2>12. /\ w = page'.offer /\ a = page'.asked /\ m = request'[page'.current].session
         /\ request'[page'.current].state \notin {"sent", "refused"} /\ page'.loading = FALSE
    BY <1>2, <1>3, <1>5 DEF Live
  <2>13. QED
    BY <2>8, <2>9, <2>10, <2>11, <2>12 DEF Offered, Explained, Passed
<1>15. QED
  BY <1>7, <1>8, <1>9, <1>10, <1>11, <1>12, <1>13, <1>14 DEF IInv

\* A stop that is sent, heard or lost changes nothing that the page has.
LEMMA HearingKeeps ==
  ASSUME IInv, page' = page, request' = request, exposed' = exposed,
         press' \in [Presses -> PressType],
         blame' \in [Sessions -> SUBSET Causes], Grows,
         server' \in [Sessions -> ServerType],
         \A n \in Sessions :
           /\ server'[n].stream = server[n].stream /\ server'[n].step = server[n].step
           /\ \/ server'[n].phase = server[n].phase
              \/ server[n].phase = "running" /\ server'[n].phase = "stopping",
         \A p \in Presses : press'[p].state \in {"sent", "answered"} => (Heard(p))'
  PROVE  IInv'
<1>1. /\ page \in PageType /\ request \in [Requests -> RequestType]
      /\ server \in [Sessions -> ServerType] /\ exposed \in BOOLEAN
  BY StateIs DEF IInv, TypeOK
<1>2. \A n \in Sessions :
        /\ server[n].phase = "new" <=> server'[n].phase = "new"
        /\ server[n].phase \in {"paused", "done", "error"} =>
             server'[n].phase = server[n].phase
        /\ server'[n].phase = "running" => server[n].phase = "running"
        /\ Passed(n) => (Passed(n))'
        /\ blame[n] # {} => blame'[n] # {}
        /\ blame[n] \cap Broken # {} => blame'[n] \cap Broken # {}
        /\ blame[n] \cap {"early", "crossed"} # {} => blame'[n] \cap {"early", "crossed"} # {}
        /\ Explained(n) => (Explained(n))'
  BY DEF Passed, Explained, Grows
<1>3. TypeOK'
  BY <1>1 DEF TypeOK, PageType, RequestType, PressType, ServerType
<1>4. Numbered'
  BY <1>2 DEF IInv, Numbered
<1>5. OneStream'
  BY DEF IInv, OneStream
<1>6. Streams'
  <2>1. Streams
    BY DEF IInv
  <2>2. ASSUME NEW n \in Sessions
        PROVE  /\ server'[n].stream = None <=> server'[n].phase = "new"
               /\ server'[n].stream # None =>
                    /\ request'[server'[n].stream].session = n
                    /\ request'[server'[n].stream].state \in {"open", "closed"}
    BY <1>2, <2>1 DEF Streams
  <2>3. ASSUME NEW r \in Requests
        PROVE  /\ request'[r].state = "open" => server'[request'[r].session].phase # "new"
               /\ request'[r].state = "refused" => request'[r].resumes
               /\ request'[r].state \in {"sent", "refused"} => ~request'[r].begun
               /\ request'[r].state \in {"sent", "cut"} /\ ~request'[r].resumes =>
                    server'[request'[r].session].phase = "new"
    <3>1. request[r].state # "idle" => request[r].session \in Sessions
      BY StateIs
    <3>2. QED
      BY <1>2, <2>1, <3>1 DEF Streams
  <2>4. page'.active # None => server'[page'.active].phase # "new"
    BY <1>2, <2>1, PageIs DEF Streams
  <2>5. QED
    BY <2>2, <2>3, <2>4 DEF Streams
<1>7. Queues'
  <2> SUFFICES ASSUME NEW r \in Requests, request[r].state = "open"
               PROVE  (Flows(r))'
    BY DEF Queues
  <2> PICK n, q : n = request[r].session /\ q = request[r].queue
    OBVIOUS
  <2>1. /\ ~request[r].begun => q # <<>> /\ q[1] = "STATUS"
        /\ request[r].begun => \/ page.active = n
                               \/ page.active = None /\ page.offer = None /\ Passed(n)
        /\ \A k \in 1..Len(q) :
             /\ q[k] = "DONE" => Passed(n)
             /\ q[k] = "end" => /\ k = Len(q)
                                /\ server[n].stream = r =>
                                     server[n].phase \in {"paused", "done", "error"}
        /\ q # <<>> /\ q[Len(q)] = "end" =>
             IF Len(q) = 1
             THEN /\ request[r].begun /\ (page.active = None \/ page.offer = n)
                  /\ page.offer # None => server[n].phase = "paused" \/ blame[n] # {}
             ELSE \/ q[Len(q) - 1] = "DONE"
                  \/ /\ q[Len(q) - 1] = "PAUSED"
                     /\ server[n].phase = "paused" \/ blame[n] # {}
    BY DEF IInv, Queues, Flows
  <2>2. n \in Sessions
    BY StateIs
  <2>3. /\ Passed(n) => (Passed(n))'
        /\ server[n].phase \in {"paused", "done", "error"} =>
             server'[n].phase \in {"paused", "done", "error"}
        /\ server[n].phase = "paused" \/ blame[n] # {} =>
             server'[n].phase = "paused" \/ blame'[n] # {}
        /\ server'[n].stream = server[n].stream
    BY <1>2, <2>2
  <2>4. n = request'[r].session /\ q = request'[r].queue
    OBVIOUS
  <2>5. /\ \A k \in 1..Len(q) :
             /\ q[k] = "DONE" => (Passed(n))'
             /\ q[k] = "end" => /\ k = Len(q)
                                /\ server'[n].stream = r =>
                                     server'[n].phase \in {"paused", "done", "error"}
        /\ q # <<>> /\ q[Len(q)] = "end" =>
             IF Len(q) = 1
             THEN /\ request[r].begun /\ (page.active = None \/ page.offer = n)
                  /\ page.offer # None => server'[n].phase = "paused" \/ blame'[n] # {}
             ELSE \/ q[Len(q) - 1] = "DONE"
                  \/ /\ q[Len(q) - 1] = "PAUSED"
                     /\ server'[n].phase = "paused" \/ blame'[n] # {}
    BY <2>1, <2>3
  <2>6. request[r].begun => \/ page.active = n
                            \/ page.active = None /\ page.offer = None /\ (Passed(n))'
    BY <2>1, <2>3
  <2>7. QED
    BY <2>1, <2>4, <2>5, <2>6 DEF Flows, Passed
<1>8. Unread'
  <2>1. Unread
    BY DEF IInv
  <2>2. ASSUME NEW r \in Requests, request'[r].state = "cut"
        PROVE  blame'[request'[r].session] \cap Broken # {}
    <3>1. request[r].session \in Sessions /\ blame[request[r].session] \cap Broken # {}
      BY <2>1, <2>2, StateIs DEF Unread
    <3>2. QED
      BY <1>2, <3>1
  <2>3. ASSUME NEW n \in Sessions, server'[n].phase = "running", server'[n].step = 0,
               request'[server'[n].stream].state = "closed"
        PROVE  blame'[n] \cap Broken # {}
    BY <1>2, <2>1, <2>3 DEF Unread
  <2>4. QED
    BY <2>2, <2>3 DEF Unread
<1>9. Pressed'
  BY DEF Pressed
<1>10. Offered'
  <2> PICK o, a, c : o = page.offer /\ a = page.asked /\ c = page.current
    OBVIOUS
  <2> PICK m : m = request[c].session
    OBVIOUS
  <2>1. /\ o # None =>
             /\ page.loading => o = m
             /\ ~page.loading \/ request[c].state \in {"sent", "refused"} => Explained(o)
             /\ o # a => blame[o] \cap {"early", "crossed"} # {} /\ blame[a] # {}
        /\ c # None =>
             /\ request[c].state \in {"sent", "refused"} /\ request[c].resumes => o = m
             /\ ~page.loading => o = m \/ Passed(m) \/ blame[m] # {}
             /\ m # a => blame[m] \cap {"early", "crossed"} # {} /\ blame[a] # {}
    BY DEF IInv, Offered
  <2>2. (o # None => o \in Sessions /\ a \in Sessions) /\ (c # None => m \in Sessions /\ a \in Sessions)
    BY PageIs
  <2>3. /\ o # None =>
             /\ page'.loading => o = m
             /\ ~page'.loading \/ request'[c].state \in {"sent", "refused"} => (Explained(o))'
             /\ o # a => blame'[o] \cap {"early", "crossed"} # {} /\ blame'[a] # {}
        /\ c # None =>
             /\ request'[c].state \in {"sent", "refused"} /\ request'[c].resumes => o = m
             /\ ~page'.loading => o = m \/ (Passed(m))' \/ blame'[m] # {}
             /\ m # a => blame'[m] \cap {"early", "crossed"} # {} /\ blame'[a] # {}
    BY <1>2, <2>1, <2>2
  <2>4. o = page'.offer /\ a = page'.asked /\ c = page'.current /\ m = request'[page'.current].session
    OBVIOUS
  <2>5. QED
    BY <2>3, <2>4 DEF Offered, Explained, Passed
<1>11. QED
  BY <1>3, <1>4, <1>5, <1>6, <1>7, <1>8, <1>9, <1>10 DEF IInv

LEMMA StopHeardKeeps ==
  ASSUME IInv, NEW p \in Presses, AskStop(p) \/ StopLost(p)
  PROVE  IInv'
<1>1. /\ page \in PageType /\ request \in [Requests -> RequestType]
      /\ press \in [Presses -> PressType] /\ server \in [Sessions -> ServerType]
      /\ blame \in [Sessions -> SUBSET Causes]
  BY StateIs
<1>2. /\ page' = page /\ request' = request /\ exposed' = exposed
      /\ press[p].state = "sent" /\ press' = [press EXCEPT ![p].state = "answered"]
  BY DEF AskStop, StopLost
<1> PICK n, c : n = press[p].session /\ c = page.current
  OBVIOUS
<1>3. /\ n # None /\ n <= page.asked /\ press[p].stream \in 1..c
      /\ server[n].phase # "new"
      /\ press[p].stream = c /\ (n # request[c].session \/ ~request[c].begun) =>
           "early" \in blame[n] \cap blame[request[c].session]
  BY <1>2 DEF IInv, Pressed, Heard
<1>4. n \in Sessions
  <2>1. n \in Sessions \cup {None}
    BY <1>1 DEF PressType
  <2>2. QED
    BY <1>3, <2>1
<1>5. /\ press' \in [Presses -> PressType]
      /\ press'[p].state = "answered" /\ press'[p].session = n
      /\ press'[p].stream = press[p].stream
      /\ \A o \in Presses : o # p => press'[o] = press[o]
  BY <1>1, <1>2 DEF PressType
<1>6. /\ blame' \in [Sessions -> SUBSET Causes] /\ Grows
      /\ server' \in [Sessions -> ServerType]
      /\ \A s \in Sessions :
           /\ server'[s].stream = server[s].stream /\ server'[s].step = server[s].step
           /\ \/ server'[s].phase = server[s].phase
              \/ server[s].phase = "running" /\ server'[s].phase = "stopping"
      /\ server'[n].phase = "stopping" \/ blame'[n] # {}
      /\ server'[n].phase # "running" \/ blame'[n] \cap Broken # {}
  <2>1. CASE AskStop(p) /\ server[n].phase = "running"
    <3>1. server' = [server EXCEPT ![n].phase = "stopping"] /\ blame' = blame
      BY <2>1 DEF AskStop
    <3>2. QED
      BY <1>1, <1>4, <2>1, <3>1 DEF ServerType, Phases, Grows
  <2>2. CASE AskStop(p) /\ server[n].phase = "stopping"
    <3>1. server' = server /\ blame' = blame
      BY <2>2 DEF AskStop
    <3>2. QED
      BY <1>1, <2>2, <3>1 DEF Grows
  <2>3. CASE AskStop(p) /\ server[n].phase \notin {"running", "stopping"}
    <3>1. server' = server /\ blame' = Blamed("late", {n})
      BY <2>3 DEF AskStop
    <3>2. blame' \in [Sessions -> SUBSET Causes] /\ Grows /\ "late" \in blame'[n]
      BY <1>1, <1>4, <3>1, BlamedIs DEF Grows, Causes
    <3>3. QED
      BY <1>1, <2>3, <3>1, <3>2
  <2>4. CASE StopLost(p)
    <3>1. server' = server /\ blame' = Blamed("lost", {n})
      BY <2>4 DEF StopLost
    <3>2. blame' \in [Sessions -> SUBSET Causes] /\ Grows /\ "lost" \in blame'[n]
      BY <1>1, <1>4, <3>1, BlamedIs DEF Grows, Causes
    <3>3. QED
      BY <1>1, <3>1, <3>2 DEF Broken
  <2>5. QED
    BY <2>1, <2>2, <2>3, <2>4
<1>7. Kept
  BY <1>2 DEF Kept
<1>8. \A s \in Sessions :
        /\ server[s].phase # "new" => server'[s].phase # "new"
        /\ Explained(s) => (Explained(s))'
        /\ server[s].phase # "running" \/ blame[s] \cap Broken # {}
             => server'[s].phase # "running" \/ blame'[s] \cap Broken # {}
  BY <1>6 DEF Explained, Grows
<1>9. ASSUME NEW o \in Presses, press'[o].state \in {"sent", "answered"}
      PROVE  (Heard(o))'
  <2>1. CASE o # p
    <3>1. press'[o] = press[o] /\ press[o].state \in {"sent", "answered"}
      BY <1>5, <1>9, <2>1
    <3>2. QED
      BY <1>2, <1>6, <1>7, <1>8, <3>1, PressedStays
  <2>2. CASE o = p
    <3>1. c # None => request[c].session \in Sessions
      BY PageIs
    <3>2. c # None
      <4>1. c \in Nat /\ press[p].stream \in 1..c
        BY <1>3, StateIs
      <4>2. QED
        BY <4>1 DEF None
    <3>3. /\ n # None /\ n <= page.asked /\ press'[p].stream \in 1..c
          /\ server'[n].phase # "new"
          /\ press'[p].stream = c /\ (n # request[c].session \/ ~request[c].begun) =>
               "early" \in blame'[n] \cap blame'[request[c].session]
          /\ server'[n].phase \in {"stopping", "paused"} \/ blame'[n] # {}
          /\ server'[n].phase # "running" \/ blame'[n] \cap Broken # {}
      BY <1>3, <1>4, <1>5, <1>6, <1>8, <3>1, <3>2 DEF Grows
    <3>4. n = press'[p].session /\ c = page'.current /\ page' = page /\ request' = request
      BY <1>2, <1>5
    <3>5. QED
      BY <2>2, <3>3, <3>4 DEF Heard, Explained
  <2>3. QED
    BY <2>1, <2>2
<1>10. QED
  BY <1>2, <1>5, <1>6, <1>9, HearingKeeps

LEMMA StopReturnsKeeps ==
  ASSUME IInv, NEW p \in Presses, StopReturns(p)
  PROVE  IInv'
<1>1. /\ press \in [Presses -> PressType] /\ blame \in [Sessions -> SUBSET Causes]
      /\ page.current \in Nat
  BY StateIs
<1> PICK n, c : n = press[p].session /\ c = page.current
  OBVIOUS
<1> PICK m : m = request[c].session
  OBVIOUS
<1>2. /\ n # None /\ n <= page.asked /\ press[p].stream \in 1..c
      /\ press[p].stream = c =>
           /\ n # m \/ ~request[c].begun => "early" \in blame[n] \cap blame[m]
           /\ Explained(n)
           /\ server[n].phase # "running" \/ blame[n] \cap Broken # {}
  BY DEF IInv, Pressed, Heard, StopReturns
<1>3. n \in Sessions /\ c \in Requests /\ m \in Sessions
  <2>1. n \in Sessions \cup {None}
    BY <1>1 DEF PressType
  <2>2. c # None
    BY <1>1, <1>2 DEF None
  <2>3. QED
    BY <1>2, <2>1, <2>2, PageIs
<1>4. /\ press' \in [Presses -> PressType]
      /\ \A o \in Presses : press'[o] = press[o] \/ press'[o].state = "back"
  BY <1>1 DEF StopReturns, PressType
<1>5. Stopped(n) /\ server' = server /\ exposed' = exposed
  BY DEF StopReturns
<1>6. /\ blame' \in [Sessions -> SUBSET Causes] /\ Grows
      /\ press[p].stream # c => "crossed" \in blame'[n] /\ "crossed" \in blame'[m]
  <2>1. CASE press[p].stream = c
    BY <1>1, <2>1 DEF StopReturns, Grows
  <2>2. CASE press[p].stream # c
    <3>1. blame' = Blamed("crossed", {n, m} \ {None})
      BY <2>2 DEF StopReturns, Concerned
    <3>2. m # None
      BY <1>3, StateIs DEF None
    <3>3. QED
      BY <1>1, <1>2, <1>3, <3>1, <3>2, BlamedIs DEF Grows, Causes
  <2>3. QED
    BY <2>1, <2>2
<1>7. blame[n] \subseteq blame'[n] /\ blame[m] \subseteq blame'[m]
  BY <1>3, <1>6 DEF Grows
<1>8. /\ server[n].phase \in {"stopping", "paused"} \/ blame'[n] # {}
      /\ n # m => /\ blame'[n] \cap {"early", "crossed"} # {}
                  /\ blame'[m] \cap {"early", "crossed"} # {}
  BY <1>2, <1>6, <1>7 DEF Explained
<1>9. \/ blame'[m] \cap Broken # {}
      \/ request[c].begun /\ n = m /\ server[m].phase # "running"
  BY <1>2, <1>6, <1>7 DEF Broken
<1>10. QED
  BY <1>2, <1>3, <1>4, <1>5, <1>6, <1>8, <1>9, StoppedKeeps

LEMMA PressStopKeeps ==
  ASSUME IInv, NEW p \in Presses, PressStop(p)
  PROVE  IInv'
<1>1. /\ press \in [Presses -> PressType] /\ blame \in [Sessions -> SUBSET Causes]
      /\ server \in [Sessions -> ServerType]
      /\ page.current \in Nat
      /\ page.loading
  BY StateIs DEF PressStop
<1> PICK n, c : n = page.active /\ c = page.current
  OBVIOUS
<1> PICK m : m = request[c].session
  OBVIOUS
<1>2. c \in Requests /\ m \in Sessions /\ c # None /\ m # None
  BY <1>1, StateIs, PageIs DEF None
<1>3. /\ blame' \in [Sessions -> SUBSET Causes] /\ Grows
      /\ ~request[c].begun => "early" \in blame'[m] /\ (n # None => "early" \in blame'[n])
  <2>1. CASE request[c].begun
    BY <1>1, <2>1 DEF PressStop, Grows
  <2>2. CASE ~request[c].begun
    <3>1. blame' = Blamed("early", {n, m} \ {None})
      BY <2>2 DEF PressStop, Concerned
    <3>2. n # None => n \in Sessions
      BY PageIs
    <3>3. QED
      BY <1>1, <1>2, <3>1, <3>2, BlamedIs DEF Grows, Causes
  <2>3. QED
    BY <2>1, <2>2
<1>4. request[c].begun => \/ n = m
                          \/ n = None /\ page.offer = None /\ Passed(m)
  <2>1. request[c].state \in Live
    BY <1>1, <1>2 DEF IInv, OneStream
  <2>2. request[c].begun => request[c].state = "open"
    BY <1>2, <2>1 DEF IInv, Streams, Live
  <2>3. QED
    BY <1>2, <2>2 DEF IInv, Queues, Flows
<1>5. server' = server /\ exposed' = exposed
  BY DEF PressStop
<1>6. CASE n # None
  <2>1. /\ press' = [press EXCEPT ![p] = [state |-> "sent", session |-> n, stream |-> c]]
        /\ page' = page /\ request' = request
    BY <1>6 DEF PressStop
  <2>2. n \in Sessions /\ n <= page.asked /\ server[n].phase # "new"
    BY <1>6, PageIs DEF IInv, Streams
  <2>3. /\ press' \in [Presses -> PressType]
        /\ press'[p].state = "sent" /\ press'[p].session = n /\ press'[p].stream = c
        /\ \A o \in Presses : o # p => press'[o] = press[o]
    BY <1>1, <1>2, <2>1, <2>2 DEF PressType
  <2>4. Kept
    BY <2>1 DEF Kept
  <2>5. \A s \in Sessions :
          /\ server[s].phase # "new" => server'[s].phase # "new"
          /\ Explained(s) => (Explained(s))'
          /\ server[s].phase # "running" \/ blame[s] \cap Broken # {}
               => server'[s].phase # "running" \/ blame'[s] \cap Broken # {}
    BY <1>3, <1>5 DEF Explained, Grows
  <2>6. ASSUME NEW o \in Presses, press'[o].state \in {"sent", "answered"}
        PROVE  (Heard(o))'
    <3>1. CASE o # p
      <4>1. press'[o] = press[o] /\ press[o].state \in {"sent", "answered"}
        BY <2>3, <2>6, <3>1
      <4>2. QED
        BY <1>3, <2>1, <2>4, <2>5, <4>1, PressedStays
    <3>2. CASE o = p
      <4>1. c \in 1..c
        BY <1>1, <1>2 DEF None
      <4>2. n # m \/ ~request[c].begun => "early" \in blame'[n] \cap blame'[m]
        BY <1>3, <1>4, <1>6
      <4>3. /\ n = press'[p].session /\ c = page'.current /\ c = press'[p].stream
            /\ m = request'[page'.current].session
            /\ page' = page /\ request' = request /\ server' = server
            /\ press'[p].state = "sent"
        BY <1>5, <2>1, <2>3
      <4>4. QED
        BY <1>6, <2>2, <3>2, <4>1, <4>2, <4>3 DEF Heard
    <3>3. QED
      BY <3>1, <3>2
  <2>7. QED
    BY <1>1, <1>3, <1>5, <2>1, <2>3, <2>6, HearingKeeps
<1>7. CASE n = None
  <2>1. press' = [press EXCEPT ![p].state = "back"] /\ Stopped(None)
    BY <1>7 DEF PressStop
  <2>2. /\ press' \in [Presses -> PressType]
        /\ \A o \in Presses : press'[o] = press[o] \/ press'[o].state = "back"
    BY <1>1, <2>1 DEF PressType
  <2>3. \/ blame'[m] \cap Broken # {}
        \/ request[c].begun /\ page.offer = None /\ Passed(m)
    BY <1>2, <1>3, <1>4, <1>7 DEF Broken
  <2>4. QED
    BY <1>2, <1>3, <1>5, <2>1, <2>2, <2>3, StoppedKeeps
<1>8. QED
  BY <1>6, <1>7

-----------------------------------------------------------------------------
(* An event arrives. *)

LEMMA ReceiveKeeps ==
  ASSUME IInv, NEW r \in Requests, Receive(r)
  PROVE  IInv'
<1>1. /\ page \in PageType /\ request \in [Requests -> RequestType]
      /\ press \in [Presses -> PressType] /\ server \in [Sessions -> ServerType]
      /\ blame \in [Sessions -> SUBSET Causes] /\ exposed \in BOOLEAN
  BY StateIs DEF IInv, TypeOK
<1> PICK q, n, event : q = request[r].queue /\ n = request[r].session /\ event = Head(q)
  OBVIOUS
<1>2. /\ request[r].state = "open" /\ q # <<>> /\ q \in Seq(Events)
      /\ event \in Events /\ event = q[1] /\ Len(q) \in Nat \ {0}
  <2>1. request[r].state = "open" /\ q # <<>>
    BY DEF Receive
  <2>2. q \in Seq(Events)
    BY <1>1 DEF RequestType
  <2>3. QED
    BY <2>1, <2>2
<1>3. /\ server' = server /\ press' = press /\ exposed' = exposed /\ blame' = blame
      /\ page' = HandleEvent(r, event)
      /\ request' = [request EXCEPT ![r].queue = Tail(q), ![r].begun = TRUE,
                       ![r].state = IF event = "end" THEN "closed" ELSE "open"]
  BY <1>2 DEF Receive
<1>4. r = page.current /\ page.loading /\ page.assistant
  BY <1>2 DEF IInv, OneStream, Live
<1>5. n \in Sessions /\ n \in 1..page.asked /\ n # None /\ page.asked \in Sessions /\ r # None
  BY <1>2, <1>4, StateIs, PageIs DEF None
<1>6. /\ page' \in PageType
      /\ page'.current = r /\ page'.asked = page.asked
      /\ page'.loading = (event # "end")
      /\ event # "end" => page'.assistant
      /\ page'.active = CASE event = "STATUS" -> n
                          [] event = "DONE" -> None
                          [] event = "end" /\ (exposed \/ request[r].resumes) -> n
                          [] OTHER -> page.active
      /\ page'.offer = CASE event = "PAUSED" /\ page.active # None -> page.active
                         [] event = "DONE" -> None
                         [] OTHER -> page.offer
  <2>1. TypeOK
    BY DEF IInv
  <2>2. /\ page' \in PageType
        /\ page'.current = page.current /\ page'.asked = page.asked
        /\ page'.loading = (page.loading /\ event # "end")
        /\ event # "end" => page'.assistant = page.assistant
        /\ page'.active = CASE event = "STATUS" -> request[r].session
                            [] event = "DONE" -> None
                            [] event = "end" /\ (exposed \/ request[r].resumes)
                                 -> request[r].session
                            [] OTHER -> page.active
        /\ page'.offer = CASE event = "PAUSED" /\ page.active # None /\ page.assistant
                                -> page.active
                           [] event = "DONE" -> None
                           [] OTHER -> page.offer
    BY <1>2, <1>3, <2>1, HandleEventIs
  <2>3. page'.loading = (event # "end")
    BY <1>4, <2>2
  <2>4. event # "end" => page'.assistant
    BY <1>4, <2>2
  <2>5. page'.offer = CASE event = "PAUSED" /\ page.active # None -> page.active
                        [] event = "DONE" -> None
                        [] OTHER -> page.offer
    BY <1>4, <2>2
  <2>6. QED
    BY <1>4, <2>2, <2>3, <2>4, <2>5
<1>7. /\ request' \in [Requests -> RequestType]
      /\ \A s \in Requests :
           /\ s # r => request'[s] = request[s]
           /\ request'[s].session = request[s].session
           /\ request'[s].resumes = request[s].resumes
      /\ request'[r].begun = TRUE /\ request'[r].queue = Tail(q)
      /\ request'[r].state = IF event = "end" THEN "closed" ELSE "open"
  <2>1. Tail(q) \in Seq(Events)
    BY <1>2
  <2>2. PICK t \in Seq(Events) : t = Tail(q)
    BY <2>1, Zenon
  <2>3. PICK w \in RequestStates : w = IF event = "end" THEN "closed" ELSE "open"
    BY DEF RequestStates
  <2>4. request' = [request EXCEPT ![r].queue = t, ![r].begun = TRUE, ![r].state = w]
    BY <1>3, <2>2, <2>3
  <2>5. /\ request' \in [Requests -> RequestType]
        /\ \A s \in Requests :
             /\ s # r => request'[s] = request[s]
             /\ request'[s].session = request[s].session
             /\ request'[s].resumes = request[s].resumes
        /\ request'[r].begun = TRUE /\ request'[r].queue = t /\ request'[r].state = w
    BY <1>1, <2>4 DEF RequestType
  <2>6. QED
    BY <2>2, <2>3, <2>5
<1>8. Fades /\ Grows
  <2>1. request'[r].state \in {"open", "closed"}
    BY <1>7
  <2>2. Kept
    BY <1>2, <1>7, <2>1 DEF Kept
  <2>3. \A s \in Requests :
          /\ \/ request'[s].state = request[s].state
             \/ request[s].state \in {"open", "refused"} /\ request'[s].state = "closed"
          /\ request'[s].begun = request[s].begun \/ request[s].state = "open"
    BY <1>2, <1>7, <2>1
  <2>4. QED
    BY <1>3, <2>2, <2>3 DEF Fades, Grows
<1>9. /\ ~request[r].begun => event = "STATUS"
      /\ request[r].begun => \/ page.active = n
                             \/ page.active = None /\ page.offer = None /\ Passed(n)
      /\ \A k \in 1..Len(q) :
           /\ q[k] = "DONE" => Passed(n)
           /\ q[k] = "end" => /\ k = Len(q)
                              /\ server[n].stream = r =>
                                   server[n].phase \in {"paused", "done", "error"}
      /\ q[Len(q)] = "end" =>
           IF Len(q) = 1
           THEN /\ request[r].begun /\ (page.active = None \/ page.offer = n)
                /\ page.offer # None => server[n].phase = "paused" \/ blame[n] # {}
           ELSE \/ q[Len(q) - 1] = "DONE"
                \/ /\ q[Len(q) - 1] = "PAUSED"
                   /\ server[n].phase = "paused" \/ blame[n] # {}
  BY <1>2 DEF IInv, Queues, Flows
<1>10. /\ page.offer # None => page.offer = n
       /\ n # page.asked => blame[n] \cap {"early", "crossed"} # {} /\ blame[page.asked] # {}
  BY <1>4, <1>5 DEF IInv, Offered
<1>11. /\ event = "DONE" => Passed(n)
       /\ event = "end" => Len(q) = 1 /\ (server[n].stream = r =>
                             server[n].phase \in {"paused", "done", "error"})
  <2>1. 1 \in 1..Len(q)
    BY <1>2
  <2>2. QED
    BY <1>2, <1>9, <2>1
<1>12. page'.offer = None \/ page'.offer = n
  BY <1>6, <1>9, <1>10
<1>13. event # "end" =>
         \/ page'.active = n
         \/ page'.active = None /\ page'.offer = None /\ Passed(n)
  BY <1>2, <1>6, <1>9, <1>11 DEF Events
<1>14. TypeOK'
  BY <1>1, <1>3, <1>6, <1>7 DEF TypeOK, PageType, RequestType, PressType, ServerType
<1>15. Numbered'
  <2>1. page.offer <= page.asked /\ page.active <= page.asked
        /\ \A s \in Sessions : s > page.asked => server[s].phase = "new"
    BY DEF IInv, Numbered
  <2>2. n <= page.asked /\ None <= page.asked
    BY <1>5, StateIs DEF None
  <2>3. page'.offer <= page.asked /\ page'.active <= page.asked
    BY <1>6, <1>12, <2>1, <2>2
  <2>4. QED
    BY <1>3, <1>4, <1>6, <1>8, <2>1, <2>3, NumberedStays DEF Fades
<1>16. OneStream'
  <2>1. \A s \in Requests : s # r => request'[s].state \notin Live
    BY <1>4, <1>7 DEF IInv, OneStream
  <2>2. QED
    BY <1>5, <1>6, <1>7, <2>1 DEF OneStream, Live
<1>17. Streams'
  <2>1. server[n].phase # "new" /\ (page.active # None => server[page.active].phase # "new")
    BY <1>2 DEF IInv, Streams
  <2>2. QED
    BY <1>3, <1>6, <1>8, <2>1, StreamsStay
<1>18. Unread'
  <2>1. \A s \in Requests :
           /\ request[s].state = "sent" /\ request'[s].state = "cut"
                => blame'[request[s].session] \cap Broken # {}
           /\ /\ request[s].state = "open" /\ request'[s].state = "closed"
              /\ server[request[s].session].stream = s
              /\ server[request[s].session].phase = "running"
              /\ server[request[s].session].step = 0
              => blame'[request[s].session] \cap Broken # {}
    BY <1>2, <1>7, <1>11
  <2>2. QED
    BY <1>3, <1>8, <2>1, UnreadStays
<1>19. Pressed'
  <2>1. \A s \in Sessions :
           /\ server[s].phase # "new" => server'[s].phase # "new"
           /\ Explained(s) => (Explained(s))'
           /\ server[s].phase # "running" \/ blame[s] \cap Broken # {}
                => server'[s].phase # "running" \/ blame'[s] \cap Broken # {}
    BY <1>3 DEF Explained
  <2>2. QED
    BY <1>3, <1>4, <1>6, <1>8, <2>1, PressedStays DEF Pressed, Fades
<1>20. Queues'
  <2> SUFFICES ASSUME NEW s \in Requests, request'[s].state = "open"
               PROVE  (Flows(s))'
    BY DEF Queues
  <2>1. s = r /\ event # "end"
    <3>1. s # r => request[s].state # "open"
      BY <1>4 DEF IInv, OneStream, Live
    <3>2. QED
      BY <1>7, <3>1
  <2>2. Tail(q) \in Seq(Events) /\ Len(Tail(q)) = Len(q) - 1
        /\ \A k \in 1..Len(Tail(q)) : Tail(q)[k] = q[k + 1]
    BY <1>2
  <2>3. PICK t : t = Tail(q)
    OBVIOUS
  <2>4. PICK len \in Nat : len = Len(q) /\ len > 0
    BY <1>2
  <2>5. t \in Seq(Events) /\ Len(t) = len - 1 /\ \A k \in 1..(len - 1) : t[k] = q[k + 1]
    BY <2>2, <2>3, <2>4
  <2>6. ASSUME NEW k \in 1..(len - 1)
        PROVE  /\ t[k] = "DONE" => Passed(n)
               /\ t[k] = "end" => /\ k = len - 1
                                  /\ server[n].stream = r =>
                                       server[n].phase \in {"paused", "done", "error"}
    <3>1. k + 1 \in 1..Len(q) /\ t[k] = q[k + 1]
      BY <2>4, <2>5
    <3>2. q[k + 1] = "end" => k + 1 = len
      BY <1>9, <2>4, <3>1
    <3>3. QED
      BY <1>9, <2>4, <3>1, <3>2
  <2>7. ASSUME t # <<>>, t[len - 1] = "end"
        PROVE  IF len - 1 = 1
               THEN /\ page'.active = None \/ page'.offer = n
                    /\ page'.offer # None => server[n].phase = "paused" \/ blame[n] # {}
               ELSE \/ t[len - 2] = "DONE"
                    \/ /\ t[len - 2] = "PAUSED"
                       /\ server[n].phase = "paused" \/ blame[n] # {}
    <3>1. len - 1 > 0
      <4>1. Len(t) # 0
        BY <2>5, <2>7
      <4>2. len \in Nat /\ len > 0 /\ len - 1 # 0
        BY <2>4, <2>5, <4>1
      <4>3. QED
        BY <4>2
    <3>2. len - 1 \in 1..(len - 1)
      BY <2>4, <3>1
    <3>3. q[len] = "end" /\ len # 1
      BY <2>4, <2>5, <2>7, <3>1, <3>2
    <3>4. \/ q[len - 1] = "DONE"
          \/ /\ q[len - 1] = "PAUSED"
             /\ server[n].phase = "paused" \/ blame[n] # {}
      BY <1>9, <2>4, <3>3
    <3>5. CASE len - 1 = 1
      <4>1. event = q[len - 1]
        BY <1>2, <3>5
      <4>2. event = "DONE" => page'.active = None /\ page'.offer = None
        BY <1>6
      <4>3. event = "PAUSED" => page'.active = None \/ page'.offer = n
        <5>1. ASSUME event = "PAUSED"
              PROVE  page'.active = page.active /\ request[r].begun
          BY <1>6, <1>9, <5>1
        <5>2. QED
          BY <1>6, <1>9, <5>1
      <4>4. QED
        BY <3>4, <3>5, <4>1, <4>2, <4>3
    <3>6. CASE len - 1 # 1
      <4>1. len \in Nat /\ len > 0
        BY <2>4
      <4>2. len - 2 \in 1..(len - 1) /\ (len - 2) + 1 = len - 1
        BY <3>1, <3>6, <4>1
      <4>3. t[len - 2] = q[len - 1]
        BY <2>5, <4>2
      <4>4. QED
        BY <3>4, <3>6, <4>3
    <3>7. QED
      BY <3>5, <3>6
  <2>8. /\ request'[s].begun = TRUE /\ request'[s].queue = t /\ request'[s].session = n
        /\ server' = server /\ blame' = blame
    BY <1>3, <1>7, <2>1, <2>3
  <2>9. \A k \in 1..Len(t) :
          /\ t[k] = "DONE" => (Passed(n))'
          /\ t[k] = "end" => /\ k = Len(t)
                             /\ server'[n].stream = s =>
                                  server'[n].phase \in {"paused", "done", "error"}
    BY <2>1, <2>5, <2>6, <2>8 DEF Passed
  <2>10. t # <<>> /\ t[Len(t)] = "end" =>
           IF Len(t) = 1
           THEN /\ page'.active = None \/ page'.offer = n
                /\ page'.offer # None => server'[n].phase = "paused" \/ blame'[n] # {}
           ELSE \/ t[Len(t) - 1] = "DONE"
                \/ /\ t[Len(t) - 1] = "PAUSED"
                   /\ server'[n].phase = "paused" \/ blame'[n] # {}
    <3>1. Len(t) = len - 1 /\ Len(t) - 1 = len - 2
      BY <2>4, <2>5
    <3>2. QED
      BY <2>7, <2>8, <3>1
  <2>11. page'.active = n \/ (page'.active = None /\ page'.offer = None /\ (Passed(n))')
    BY <1>13, <2>1, <2>8 DEF Passed
  <2>12. QED
    BY <2>8, <2>9, <2>10, <2>11 DEF Flows, Passed
<1>21. Offered'
  <2> PICK o, a : o = page'.offer /\ a = page.asked
    OBVIOUS
  <2>1. o = None \/ o = n
    BY <1>12
  <2>2. event = "end" =>
          /\ o # None => server[n].phase = "paused" \/ blame[n] # {}
          /\ o = n \/ Passed(n)
    <3>1. ASSUME event = "end"
          PROVE  /\ q[Len(q)] = "end" /\ Len(q) = 1 /\ o = page.offer
      BY <1>2, <1>6, <1>11, <3>1
    <3>2. QED
      BY <1>5, <1>9, <3>1
  <2>3. n # a => blame[n] \cap {"early", "crossed"} # {} /\ blame[a] # {}
    BY <1>10
  <2>4. /\ o = page'.offer /\ a = page'.asked /\ n = request'[page'.current].session
        /\ request'[page'.current].state \notin {"sent", "refused"}
        /\ page'.loading = (event # "end")
    BY <1>6, <1>7
  <2>5. server' = server /\ blame' = blame
    BY <1>3
  <2>6. QED
    BY <2>1, <2>2, <2>3, <2>4, <2>5 DEF Offered, Explained, Passed
<1>22. QED
  BY <1>14, <1>15, <1>16, <1>17, <1>18, <1>19, <1>20, <1>21 DEF IInv

-----------------------------------------------------------------------------
(* A request arrives. *)

LEMMA RefuseKeeps ==
  ASSUME IInv, NEW r \in Requests, AskResume(r),
         server[request[r].session].phase # "paused"
  PROVE  IInv'
<1>1. /\ page \in PageType /\ request \in [Requests -> RequestType]
      /\ press \in [Presses -> PressType] /\ server \in [Sessions -> ServerType]
      /\ blame \in [Sessions -> SUBSET Causes] /\ exposed \in BOOLEAN
  BY StateIs DEF IInv, TypeOK
<1>2. /\ page' = page /\ press' = press /\ exposed' = exposed /\ blame' = blame
      /\ server' = server /\ request[r].state \in {"sent", "cut"} /\ request[r].resumes
      /\ request' = [request EXCEPT ![r].state = IF request[r].state = "sent"
                                                 THEN "refused" ELSE "closed"]
  BY DEF AskResume
<1>3. /\ request' \in [Requests -> RequestType]
      /\ \A s \in Requests :
           /\ s # r => request'[s] = request[s]
           /\ request'[s].session = request[s].session
           /\ request'[s].resumes = request[s].resumes
           /\ request'[s].begun = request[s].begun
           /\ request'[s].queue = request[s].queue
      /\ request'[r].state = IF request[r].state = "sent" THEN "refused" ELSE "closed"
  <2>1. PICK w \in RequestStates :
          w = IF request[r].state = "sent" THEN "refused" ELSE "closed"
    BY DEF RequestStates
  <2>2. request' = [request EXCEPT ![r].state = w]
    BY <1>2, <2>1
  <2>3. QED
    BY <1>1, <2>1, <2>2, ZenonT(30) DEF RequestType
<1>4. Kept /\ Grows
  BY <1>2, <1>3 DEF Kept, Grows
<1>5. \A s \in Requests :
        /\ request'[s].state \in Live <=> request[s].state \in Live
        /\ request'[s].state \in {"sent", "refused"} <=> request[s].state \in {"sent", "refused"}
        /\ request'[s].state \in {"sent", "cut"} => request[s].state \in {"sent", "cut"}
        /\ request'[s].state = "cut" => request[s].state = "cut"
        /\ request'[s].state = "open" => request[s].state = "open"
        /\ request[s].state \in {"open", "closed"} => request'[s].state = request[s].state
        /\ request'[s].state = "refused" => request[s].state = "refused" \/ s = r
  BY <1>2, <1>3 DEF Live
<1>6. TypeOK'
  BY <1>1, <1>2, <1>3 DEF TypeOK, PageType, RequestType, PressType, ServerType
<1>7. Numbered'
  BY <1>1, <1>2, <1>4, NumberedStays DEF IInv, Numbered
<1>8. OneStream'
  BY <1>2, <1>5 DEF IInv, OneStream
<1>9. \A n \in Sessions : server[n].stream # None =>
        /\ server[n].stream \in Requests
        /\ request[server[n].stream].session = n
        /\ request[server[n].stream].state \in {"open", "closed"}
        /\ request'[server[n].stream].state = request[server[n].stream].state
  BY <1>1, <1>5 DEF IInv, Streams, ServerType
<1>10. Streams'
  <2>1. Streams
    BY DEF IInv
  <2>2. ASSUME NEW n \in Sessions
        PROVE  /\ server'[n].stream = None <=> server'[n].phase = "new"
               /\ server'[n].stream # None =>
                    /\ request'[server'[n].stream].session = n
                    /\ request'[server'[n].stream].state \in {"open", "closed"}
    BY <1>2, <1>3, <1>9, <2>1 DEF Streams
  <2>3. ASSUME NEW s \in Requests
        PROVE  /\ request'[s].state = "open" => server'[request'[s].session].phase # "new"
               /\ request'[s].state = "refused" => request'[s].resumes
               /\ request'[s].state \in {"sent", "refused"} => ~request'[s].begun
               /\ request'[s].state \in {"sent", "cut"} /\ ~request'[s].resumes =>
                    server'[request'[s].session].phase = "new"
    BY <1>2, <1>3, <1>5, <2>1 DEF Streams
  <2>4. QED
    BY <1>2, <2>1, <2>2, <2>3 DEF Streams
<1>11. Queues'
  BY <1>2, <1>3, <1>5 DEF IInv, Queues, Flows, Passed
<1>12. Unread'
  <2>1. Unread
    BY DEF IInv
  <2>2. ASSUME NEW n \in Sessions, server[n].phase = "running", server[n].step = 0,
               request'[server[n].stream].state = "closed"
        PROVE  blame[n] \cap Broken # {}
    <3>1. server[n].stream # None
      BY <2>2 DEF IInv, Streams
    <3>2. QED
      BY <1>9, <2>1, <2>2, <3>1 DEF Unread
  <2>3. \A s \in Requests :
          request'[s].state = "cut" => blame[request'[s].session] \cap Broken # {}
    BY <1>3, <1>5, <2>1 DEF Unread
  <2>4. QED
    BY <1>2, <2>2, <2>3 DEF Unread
<1>13. Pressed'
  <2>1. \A s \in Sessions :
           /\ server[s].phase # "new" => server'[s].phase # "new"
           /\ Explained(s) => (Explained(s))'
           /\ server[s].phase # "running" \/ blame[s] \cap Broken # {}
                => server'[s].phase # "running" \/ blame'[s] \cap Broken # {}
    BY <1>2 DEF Explained
  <2>2. QED
    BY <1>2, <1>4, <2>1, PressedStays DEF Pressed
<1>14. Offered'
  <2>1. page.current # None => page.current \in Requests
    BY PageIs
  <2>2. page.offer # None => page.current # None
    BY PageIs
  <2>3. page.current # None =>
          /\ request'[page.current].session = request[page.current].session
          /\ request'[page.current].resumes = request[page.current].resumes
          /\ request'[page.current].state \in {"sent", "refused"}
               <=> request[page.current].state \in {"sent", "refused"}
    BY <1>3, <1>5, <2>1
  <2>4. QED
    BY <1>2, <2>2, <2>3 DEF IInv, Offered, Explained, Passed
<1>15. QED
  BY <1>6, <1>7, <1>8, <1>10, <1>11, <1>12, <1>13, <1>14 DEF IInv

LEMMA OpenKeeps ==
  ASSUME IInv, NEW r \in Requests,
         \/ AskStream(r)
         \/ AskResume(r) /\ server[request[r].session].phase = "paused"
  PROVE  IInv'
<1> PICK n : n = request[r].session
  OBVIOUS
<1>1. /\ page \in PageType /\ request \in [Requests -> RequestType]
      /\ press \in [Presses -> PressType] /\ server \in [Sessions -> ServerType]
      /\ blame \in [Sessions -> SUBSET Causes] /\ exposed \in BOOLEAN
  BY StateIs DEF IInv, TypeOK
<1>2. /\ page' = page /\ press' = press /\ exposed' = exposed /\ blame' = blame
      /\ request[r].state \in {"sent", "cut"}
      /\ request' = Opened(r) /\ Started(r)
  BY DEF AskStream, AskResume
<1>3. /\ n \in Sessions /\ n \in 1..page.asked
      /\ IF request[r].resumes THEN server[n].phase = "paused" ELSE server[n].phase = "new"
  BY <1>2, StateIs DEF IInv, Streams, AskStream, AskResume
<1>4. /\ request' \in [Requests -> RequestType]
      /\ \A s \in Requests :
           /\ s # r => request'[s] = request[s]
           /\ request'[s].session = request[s].session
           /\ request'[s].resumes = request[s].resumes
           /\ request'[s].begun = request[s].begun
      /\ request'[r].state = IF request[r].state = "sent" THEN "open" ELSE "closed"
      /\ request[r].state = "sent" => request'[r].queue = <<"STATUS">>
  <2>1. PICK w \in RequestStates :
          w = IF request[r].state = "sent" THEN "open" ELSE "closed"
    BY DEF RequestStates
  <2>2. <<"STATUS">> \in Seq(Events) /\ request[r].queue \in Seq(Events)
    BY <1>1 DEF Events, RequestType
  <2>3. PICK t \in Seq(Events) :
          t = IF request[r].state = "sent" THEN <<"STATUS">> ELSE request[r].queue
    BY <2>2
  <2>4. request' = [request EXCEPT ![r].state = w, ![r].queue = t]
    BY <1>2, <2>1, <2>3 DEF Opened
  <2>5. /\ request' \in [Requests -> RequestType]
        /\ \A s \in Requests :
             /\ s # r => request'[s] = request[s]
             /\ request'[s].session = request[s].session
             /\ request'[s].resumes = request[s].resumes
             /\ request'[s].begun = request[s].begun
        /\ request'[r].state = w /\ request'[r].queue = t
    BY <1>1, <2>4 DEF RequestType
  <2>6. QED
    BY <2>1, <2>3, <2>5
<1>5. /\ server' \in [Sessions -> ServerType]
      /\ server'[n].phase = "running" /\ server'[n].stream = r
      /\ server'[n].step = server[n].step
      /\ \A s \in Sessions : s # n => server'[s] = server[s]
  BY <1>1, <1>2, <1>3 DEF Started, ServerType, Phases
<1>6. Kept /\ Grows
  BY <1>2, <1>4 DEF Kept, Grows
<1>7. \A s \in Requests :
        /\ request'[s].state \in Live <=> request[s].state \in Live
        /\ request'[s].state \in {"sent", "refused"} => request[s].state \in {"sent", "refused"}
        /\ request'[s].state = "cut" => request[s].state = "cut"
        /\ request[s].state \in {"open", "closed"} => request'[s].state = request[s].state
  BY <1>2, <1>4 DEF Live
<1>8. request[r].state = "cut" => blame[n] \cap Broken # {}
  BY DEF IInv, Unread
<1>9. request[r].state = "sent" => r = page.current /\ page.loading /\ ~request[r].begun
  BY DEF IInv, OneStream, Streams, Live
<1>10. r # None
  BY StateIs DEF None
<1>11. TypeOK'
  BY <1>1, <1>2, <1>4, <1>5 DEF TypeOK, PageType, RequestType, PressType, ServerType
<1>12. Numbered'
  <2>1. \A s \in Sessions : s > page.asked => server'[s].phase = "new"
    <3>1. ~(n > page.asked)
      BY <1>3, StateIs
    <3>2. QED
      BY <1>5, <3>1 DEF IInv, Numbered
  <2>2. QED
    BY <1>1, <1>2, <1>6, <2>1, NumberedStays DEF IInv, Numbered
<1>13. OneStream'
  BY <1>2, <1>7 DEF IInv, OneStream
<1>14. ASSUME NEW s \in Sessions, s # n, server[s].stream # None
       PROVE  /\ server[s].stream \in Requests
              /\ request[server[s].stream].session = s
              /\ request[server[s].stream].state \in {"open", "closed"}
              /\ request'[server[s].stream] = request[server[s].stream]
  BY <1>1, <1>4, <1>14 DEF IInv, Streams, ServerType
<1>15. Streams'
  <2>1. Streams
    BY DEF IInv
  <2>2. ASSUME NEW s \in Sessions
        PROVE  /\ server'[s].stream = None <=> server'[s].phase = "new"
               /\ server'[s].stream # None =>
                    /\ request'[server'[s].stream].session = s
                    /\ request'[server'[s].stream].state \in {"open", "closed"}
    <3>1. CASE s = n
      BY <1>4, <1>5, <1>10, <3>1
    <3>2. CASE s # n
      BY <1>5, <1>14, <2>1, <3>2 DEF Streams
    <3>3. QED
      BY <3>1, <3>2
  <2>3. ASSUME NEW s \in Requests
        PROVE  /\ request'[s].state = "open" => server'[request'[s].session].phase # "new"
               /\ request'[s].state = "refused" => request'[s].resumes
               /\ request'[s].state \in {"sent", "refused"} => ~request'[s].begun
               /\ request'[s].state \in {"sent", "cut"} /\ ~request'[s].resumes =>
                    server'[request'[s].session].phase = "new"
    <3>1. CASE s = r
      BY <1>4, <1>5, <3>1
    <3>2. CASE s # r
      <4>1. request'[s] = request[s]
        BY <1>4, <3>2
      <4>2. request[s].state # "idle" => request[s].session \in Sessions
        BY StateIs
      <4>3. request[s].state = "open" => server'[request[s].session].phase # "new"
        BY <1>5, <2>1, <4>2 DEF Streams
      <4>4. ASSUME request[s].state \in {"sent", "cut"}, ~request[s].resumes
            PROVE  server'[request[s].session].phase = "new"
        <5>1. server[request[s].session].phase = "new"
          BY <2>1, <4>4 DEF Streams
        <5>2. ASSUME request[s].session = n
              PROVE  FALSE
          <6>1. ~request[r].resumes
            BY <1>3, <5>1, <5>2
          <6>2. QED
            BY <1>2, <3>2, <4>4, <5>2, <6>1 DEF IInv, Numbered
        <5>3. QED
          BY <1>5, <4>2, <4>4, <5>1, <5>2
      <4>5. QED
        BY <2>1, <4>1, <4>3, <4>4 DEF Streams
    <3>3. QED
      BY <3>1, <3>2
  <2>4. page'.active # None => server'[page'.active].phase # "new"
    BY <1>2, <1>5, <2>1, PageIs DEF Streams
  <2>5. QED
    BY <2>2, <2>3, <2>4 DEF Streams
<1>16. Queues'
  <2> SUFFICES ASSUME NEW s \in Requests, request'[s].state = "open"
               PROVE  (Flows(s))'
    BY DEF Queues
  <2>1. CASE s = r
    <3>1. request'[s].queue = <<"STATUS">> /\ ~request'[s].begun
      BY <1>2, <1>4, <1>9, <2>1
    <3>2. QED
      BY <3>1 DEF Flows
  <2>2. CASE s # r
    <3>1. request'[s] = request[s] /\ request[s].state = "open"
      BY <1>4, <2>2
    <3>2. request[r].state = "cut"
      BY <1>2, <1>9, <2>2, <3>1 DEF IInv, OneStream, Live
    <3> PICK m, q : m = request[s].session /\ q = request[s].queue
      OBVIOUS
    <3>3. /\ ~request[s].begun => q # <<>> /\ q[1] = "STATUS"
          /\ request[s].begun => \/ page.active = m
                                 \/ page.active = None /\ page.offer = None /\ Passed(m)
          /\ \A k \in 1..Len(q) :
               /\ q[k] = "DONE" => Passed(m)
               /\ q[k] = "end" => /\ k = Len(q)
                                  /\ server[m].stream = s =>
                                       server[m].phase \in {"paused", "done", "error"}
          /\ q # <<>> /\ q[Len(q)] = "end" =>
               IF Len(q) = 1
               THEN /\ request[s].begun /\ (page.active = None \/ page.offer = m)
                    /\ page.offer # None => server[m].phase = "paused" \/ blame[m] # {}
               ELSE \/ q[Len(q) - 1] = "DONE"
                    \/ /\ q[Len(q) - 1] = "PAUSED"
                       /\ server[m].phase = "paused" \/ blame[m] # {}
      BY <3>1 DEF IInv, Queues, Flows
    <3>4. m \in Sessions
      BY <3>1, StateIs
    <3>5. /\ Passed(m) => (Passed(m))'
          /\ server'[m].stream = s => server'[m] = server[m]
          /\ server[m].phase = "paused" \/ blame[m] # {} =>
               server'[m].phase = "paused" \/ blame'[m] # {}
      <4>1. CASE m = n
        BY <1>2, <1>3, <1>5, <1>8, <2>2, <3>2, <4>1 DEF Passed
      <4>2. CASE m # n
        BY <1>2, <1>5, <3>4, <4>2 DEF Passed
      <4>3. QED
        BY <4>1, <4>2
    <3>6. /\ \A k \in 1..Len(q) :
               /\ q[k] = "DONE" => (Passed(m))'
               /\ q[k] = "end" => /\ k = Len(q)
                                  /\ server'[m].stream = s =>
                                       server'[m].phase \in {"paused", "done", "error"}
          /\ q # <<>> /\ q[Len(q)] = "end" =>
               IF Len(q) = 1
               THEN /\ request[s].begun /\ (page.active = None \/ page.offer = m)
                    /\ page.offer # None => server'[m].phase = "paused" \/ blame'[m] # {}
               ELSE \/ q[Len(q) - 1] = "DONE"
                    \/ /\ q[Len(q) - 1] = "PAUSED"
                       /\ server'[m].phase = "paused" \/ blame'[m] # {}
      BY <3>3, <3>5
    <3>7. request[s].begun => \/ page.active = m
                              \/ page.active = None /\ page.offer = None /\ (Passed(m))'
      BY <3>3, <3>5
    <3>8. /\ m = request'[s].session /\ q = request'[s].queue
          /\ request'[s].begun = request[s].begun /\ page' = page
      BY <1>2, <3>1
    <3>9. QED
      BY <3>3, <3>6, <3>7, <3>8 DEF Flows, Passed
  <2>3. QED
    BY <2>1, <2>2
<1>17. Unread'
  <2>1. Unread
    BY DEF IInv
  <2>2. \A s \in Requests :
          request'[s].state = "cut" => blame'[request'[s].session] \cap Broken # {}
    BY <1>2, <1>4, <1>7, <2>1 DEF Unread
  <2>3. ASSUME NEW s \in Sessions, server'[s].phase = "running", server'[s].step = 0,
               request'[server'[s].stream].state = "closed"
        PROVE  blame'[s] \cap Broken # {}
    <3>1. CASE s = n
      BY <1>2, <1>4, <1>5, <1>8, <2>3, <3>1
    <3>2. CASE s # n
      <4>1. server'[s] = server[s] /\ server[s].stream # None
        BY <1>5, <2>3, <3>2 DEF IInv, Streams
      <4>2. QED
        BY <1>2, <1>14, <2>1, <2>3, <3>2, <4>1 DEF Unread
    <3>3. QED
      BY <3>1, <3>2
  <2>4. QED
    BY <2>2, <2>3 DEF Unread
<1>18. Pressed'
  <2> SUFFICES ASSUME NEW p \in Presses, press[p].state \in {"sent", "answered"}
               PROVE  (Heard(p))'
    BY <1>2 DEF Pressed
  <2> PICK x, c : x = press[p].session /\ c = page.current
    OBVIOUS
  <2>1. /\ x # None /\ x <= page.asked /\ press[p].stream \in 1..c
        /\ server[x].phase # "new"
        /\ press[p].stream = c =>
             /\ x # request[c].session \/ ~request[c].begun =>
                  "early" \in blame[x] \cap blame[request[c].session]
             /\ press[p].state = "answered" =>
                  Explained(x) /\ (server[x].phase # "running" \/ blame[x] \cap Broken # {})
    BY DEF IInv, Pressed, Heard
  <2>2. x \in Sessions
    <3>1. x \in Sessions \cup {None}
      BY <1>1 DEF PressType
    <3>2. QED
      BY <2>1, <3>1
  <2>3. c \in Requests
    <3>1. c # None
      <4>1. c \in Nat /\ press[p].stream \in 1..c
        BY <2>1, StateIs
      <4>2. QED
        BY <4>1 DEF None
    <3>2. QED
      BY <3>1, PageIs
  <2>4. /\ server'[x].phase # "new"
        /\ press[p].stream = c /\ press[p].state = "answered" =>
             /\ (Explained(x))'
             /\ server'[x].phase # "running" \/ blame'[x] \cap Broken # {}
    <3>1. CASE x # n
      BY <1>2, <1>5, <2>1, <2>2, <3>1 DEF Explained
    <3>2. CASE x = n
      <4>1. press[p].stream = c => blame[x] \cap Broken # {}
        <5>1. request[r].state = "sent" => c = r /\ ~request[c].begun
          BY <1>9
        <5>2. QED
          BY <1>2, <1>8, <2>1, <3>2, <5>1 DEF Broken
      <4>2. QED
        BY <1>2, <1>5, <3>2, <4>1 DEF Explained
    <3>3. QED
      BY <3>1, <3>2
  <2>5. /\ x = press'[p].session /\ c = page'.current /\ page' = page /\ press' = press
        /\ blame' = blame
        /\ request'[c].session = request[c].session /\ request'[c].begun = request[c].begun
    BY <1>2, <1>4, <2>3
  <2>6. QED
    BY <2>1, <2>4, <2>5 DEF Heard, Explained
<1>19. Offered'
  <2> PICK o, a, c : o = page.offer /\ a = page.asked /\ c = page.current
    OBVIOUS
  <2> PICK m : m = request[c].session
    OBVIOUS
  <2>1. /\ o # None =>
             /\ page.loading => o = m
             /\ ~page.loading \/ request[c].state \in {"sent", "refused"} => Explained(o)
             /\ o # a => blame[o] \cap {"early", "crossed"} # {} /\ blame[a] # {}
        /\ c # None =>
             /\ request[c].state \in {"sent", "refused"} /\ request[c].resumes => o = m
             /\ ~page.loading => o = m \/ Passed(m) \/ blame[m] # {}
             /\ m # a => blame[m] \cap {"early", "crossed"} # {} /\ blame[a] # {}
    BY DEF IInv, Offered
  <2>2. (o # None => o \in Sessions /\ c # None) /\ (c # None => c \in Requests /\ m \in Sessions)
    BY PageIs
  <2>3. c # None =>
          /\ request'[c].session = m /\ request'[c].resumes = request[c].resumes
          /\ request'[c].state \in {"sent", "refused"} => request[c].state \in {"sent", "refused"}
    BY <1>4, <1>7, <2>2
  <2>4. ASSUME c # None
        PROVE  Passed(m) => (Passed(m))'
    BY <1>3, <1>5, <2>2, <2>4 DEF Passed
  <2>5. ASSUME o # None, ~page.loading \/ request'[c].state \in {"sent", "refused"}
        PROVE  (Explained(o))'
    <3>1. Explained(o)
      BY <2>1, <2>2, <2>3, <2>5
    <3>2. request[r].state = "cut"
      BY <1>2, <1>4, <1>9, <2>5
    <3>3. CASE o = n
      BY <1>2, <1>8, <3>2, <3>3 DEF Explained
    <3>4. CASE o # n
      BY <1>2, <1>5, <2>2, <2>5, <3>1, <3>4 DEF Explained
    <3>5. QED
      BY <3>3, <3>4
  <2>6. /\ o = page'.offer /\ a = page'.asked /\ c = page'.current /\ page' = page
        /\ blame' = blame
    BY <1>2
  <2>7. QED
    BY <2>1, <2>2, <2>3, <2>4, <2>5, <2>6 DEF Offered, Explained, Passed
<1>20. QED
  BY <1>11, <1>12, <1>13, <1>15, <1>16, <1>17, <1>18, <1>19 DEF IInv

-----------------------------------------------------------------------------
(* A run goes on. *)

\* What the stream of a run is told fits what the run has become.
Fitting(n, ev) ==
  /\ \A k \in 1..Len(ev) :
       /\ ev[k] = "DONE" => server'[n].step = 1 \/ server'[n].phase \in {"done", "error"}
       /\ ev[k] = "end" => /\ k = Len(ev)
                           /\ server'[n].phase \in {"paused", "done", "error"}
  /\ ev # <<>> /\ ev[Len(ev)] = "end" =>
       /\ Len(ev) # 1
       /\ \/ ev[Len(ev) - 1] = "DONE"
          \/ ev[Len(ev) - 1] = "PAUSED" /\ server'[n].phase = "paused"

LEMMA SendIs ==
  ASSUME request \in [Requests -> RequestType], NEW n, NEW ev \in Seq(Events), Send(n, ev),
         NEW r \in Requests, r = server[n].stream
  PROVE  /\ request' \in [Requests -> RequestType]
         /\ \A s \in Requests :
              /\ request'[s].session = request[s].session
              /\ request'[s].state = request[s].state
              /\ request'[s].resumes = request[s].resumes
              /\ request'[s].begun = request[s].begun
              /\ s # r => request'[s].queue = request[s].queue
         /\ request[r].state = "open" => request'[r].queue = request[r].queue \o ev
<1>1. CASE request[r].state = "open"
  <2> PICK q : q = request[r].queue
    OBVIOUS
  <2>1. q \in Seq(Events)
    BY DEF RequestType
  <2>2. q \o ev \in Seq(Events)
    BY <2>1
  <2>3. PICK t \in Seq(Events) : t = q \o ev
    BY <2>2, Zenon
  <2>4. request' = [request EXCEPT ![r].queue = t]
    BY <1>1, <2>3 DEF Send
  <2>5. /\ request' \in [Requests -> RequestType]
        /\ \A s \in Requests :
             /\ request'[s].session = request[s].session
             /\ request'[s].state = request[s].state
             /\ request'[s].resumes = request[s].resumes
             /\ request'[s].begun = request[s].begun
             /\ s # r => request'[s].queue = request[s].queue
        /\ request'[r].queue = t
    BY <2>4, ZenonT(30) DEF RequestType
  <2>6. request'[r].queue = request[r].queue \o ev
    BY <2>3, <2>5, Zenon
  <2>7. QED
    BY <2>5, <2>6
<1>2. CASE request[r].state # "open"
  BY <1>2 DEF Send
<1>3. QED
  BY <1>1, <1>2

LEMMA TurnKeeps ==
  ASSUME IInv, NEW n \in Sessions, server[n].phase \in {"running", "stopping"},
         NEW ev \in Seq(Events), Send(n, ev),
         page' = page, press' = press, exposed' = exposed,
         blame' \in [Sessions -> SUBSET Causes], Grows,
         server' \in [Sessions -> ServerType],
         \A s \in Sessions : s # n => server'[s] = server[s],
         server'[n].stream = server[n].stream, server'[n].phase # "new",
         Passed(n) => server'[n].step = 1 \/ server'[n].phase \in {"done", "error"},
         server[n].phase = "stopping" \/ blame[n] # {} =>
           server'[n].phase \in {"stopping", "paused"} \/ blame'[n] # {},
         server'[n].phase = "running" =>
           server[n].phase = "running" /\ (server'[n].step = 0 => server[n].step = 0),
         Fitting(n, ev)
  PROVE  IInv'
<1>1. /\ page \in PageType /\ request \in [Requests -> RequestType]
      /\ press \in [Presses -> PressType] /\ server \in [Sessions -> ServerType]
      /\ exposed \in BOOLEAN
  BY StateIs DEF IInv, TypeOK
<1> PICK r : r = server[n].stream
  OBVIOUS
<1>2. r \in Requests /\ request[r].session = n /\ request[r].state \in {"open", "closed"}
  BY <1>1 DEF IInv, Streams, ServerType
<1>3. /\ request' \in [Requests -> RequestType]
      /\ \A s \in Requests :
           /\ request'[s].session = request[s].session
           /\ request'[s].state = request[s].state
           /\ request'[s].resumes = request[s].resumes
           /\ request'[s].begun = request[s].begun
           /\ s # r => request'[s].queue = request[s].queue
      /\ request[r].state = "open" => request'[r].queue = request[r].queue \o ev
  BY <1>1, <1>2, SendIs
<1>4. Kept
  BY <1>3 DEF Kept
<1>5. \A s \in Sessions :
        /\ server'[s].stream = server[s].stream
        /\ server'[s].phase = "new" <=> server[s].phase = "new"
        /\ Passed(s) => (Passed(s))'
        /\ Explained(s) => (Explained(s))'
        /\ server'[s].phase = "running" =>
             server[s].phase = "running" /\ (server'[s].step = 0 => server[s].step = 0)
        /\ blame[s] # {} => blame'[s] # {}
        /\ blame[s] \cap Broken # {} => blame'[s] \cap Broken # {}
        /\ blame[s] \cap {"early", "crossed"} # {} => blame'[s] \cap {"early", "crossed"} # {}
  <2>1. ASSUME NEW s \in Sessions
        PROVE  /\ blame[s] # {} => blame'[s] # {}
               /\ blame[s] \cap Broken # {} => blame'[s] \cap Broken # {}
               /\ blame[s] \cap {"early", "crossed"} # {} => blame'[s] \cap {"early", "crossed"} # {}
    BY DEF Grows
  <2>2. ASSUME NEW s \in Sessions, s # n
        PROVE  /\ server'[s] = server[s]
               /\ Passed(s) => (Passed(s))'
               /\ Explained(s) => (Explained(s))'
    BY <2>1, <2>2 DEF Passed, Explained
  <2>3. /\ Passed(n) => (Passed(n))'
        /\ Explained(n) => (Explained(n))'
    BY DEF Passed, Explained
  <2>4. QED
    BY <2>1, <2>2, <2>3
<1>6. TypeOK'
  BY <1>1, <1>3 DEF TypeOK, PageType, RequestType, PressType, ServerType
<1>7. Numbered'
  <2>1. \A s \in Sessions : s > page.asked => server'[s].phase = "new"
    BY <1>5 DEF IInv, Numbered
  <2>2. QED
    BY <1>1, <1>4, <2>1, NumberedStays DEF IInv, Numbered
<1>8. OneStream'
  BY <1>3 DEF IInv, OneStream
<1>9. \A s \in Sessions : server[s].stream # None => server[s].stream \in Requests
  BY <1>1 DEF ServerType
<1>10. Streams'
  <2>1. Streams
    BY DEF IInv
  <2>2. ASSUME NEW s \in Sessions
        PROVE  /\ server'[s].stream = None <=> server'[s].phase = "new"
               /\ server'[s].stream # None =>
                    /\ request'[server'[s].stream].session = s
                    /\ request'[server'[s].stream].state \in {"open", "closed"}
    BY <1>3, <1>5, <1>9, <2>1 DEF Streams
  <2>3. ASSUME NEW s \in Requests
        PROVE  /\ request'[s].state = "open" => server'[request'[s].session].phase # "new"
               /\ request'[s].state = "refused" => request'[s].resumes
               /\ request'[s].state \in {"sent", "refused"} => ~request'[s].begun
               /\ request'[s].state \in {"sent", "cut"} /\ ~request'[s].resumes =>
                    server'[request'[s].session].phase = "new"
    <3>1. request[s].state # "idle" => request[s].session \in Sessions
      BY StateIs
    <3>2. QED
      BY <1>3, <1>5, <2>1, <3>1 DEF Streams
  <2>4. page'.active # None => server'[page'.active].phase # "new"
    BY <1>5, <2>1, PageIs DEF Streams
  <2>5. QED
    BY <2>2, <2>3, <2>4 DEF Streams
<1>11. Queues'
  <2> SUFFICES ASSUME NEW s \in Requests, request[s].state = "open"
               PROVE  (Flows(s))'
    BY <1>3 DEF Queues
  <2> PICK m, q : m = request[s].session /\ q = request[s].queue
    OBVIOUS
  <2>1. /\ ~request[s].begun => q # <<>> /\ q[1] = "STATUS"
        /\ request[s].begun => \/ page.active = m
                               \/ page.active = None /\ page.offer = None /\ Passed(m)
        /\ \A k \in 1..Len(q) :
             /\ q[k] = "DONE" => Passed(m)
             /\ q[k] = "end" => /\ k = Len(q)
                                /\ server[m].stream = s =>
                                     server[m].phase \in {"paused", "done", "error"}
        /\ q # <<>> /\ q[Len(q)] = "end" =>
             IF Len(q) = 1
             THEN /\ request[s].begun /\ (page.active = None \/ page.offer = m)
                  /\ page.offer # None => server[m].phase = "paused" \/ blame[m] # {}
             ELSE \/ q[Len(q) - 1] = "DONE"
                  \/ /\ q[Len(q) - 1] = "PAUSED"
                     /\ server[m].phase = "paused" \/ blame[m] # {}
    BY DEF IInv, Queues, Flows
  <2>2. m \in Sessions /\ q \in Seq(Events)
    BY <1>1, StateIs DEF RequestType
  <2>3. request[s].begun => \/ page.active = m
                            \/ page.active = None /\ page.offer = None /\ (Passed(m))'
    BY <1>5, <2>1, <2>2
  <2>4. /\ m = request'[s].session /\ request'[s].begun = request[s].begun
    BY <1>3
  <2>5. CASE s # r
    <3>1. server'[m].stream = s => server'[m] = server[m]
      BY <1>5, <2>2, <2>5
    <3>2. server[m].phase = "paused" \/ blame[m] # {} =>
            server'[m].phase = "paused" \/ blame'[m] # {}
      BY <1>5, <2>2
    <3>3. /\ \A k \in 1..Len(q) :
               /\ q[k] = "DONE" => (Passed(m))'
               /\ q[k] = "end" => /\ k = Len(q)
                                  /\ server'[m].stream = s =>
                                       server'[m].phase \in {"paused", "done", "error"}
          /\ q # <<>> /\ q[Len(q)] = "end" =>
               IF Len(q) = 1
               THEN /\ request[s].begun /\ (page.active = None \/ page.offer = m)
                    /\ page.offer # None => server'[m].phase = "paused" \/ blame'[m] # {}
               ELSE \/ q[Len(q) - 1] = "DONE"
                    \/ /\ q[Len(q) - 1] = "PAUSED"
                       /\ server'[m].phase = "paused" \/ blame'[m] # {}
      BY <1>5, <2>1, <2>2, <3>1, <3>2
    <3>4. q = request'[s].queue
      BY <1>3, <2>5
    <3>5. QED
      BY <2>1, <2>3, <2>4, <3>3, <3>4 DEF Flows, Passed
  <2>6. CASE s = r
    <3> PICK t : t = q \o ev
      OBVIOUS
    <3>1. m = n /\ t = request'[s].queue
      BY <1>2, <1>3, <2>6
    <3>2. PICK l, e \in Nat : l = Len(q) /\ e = Len(ev)
      BY <2>2
    <3>3. /\ t \in Seq(Events) /\ Len(t) = l + e
          /\ \A k \in 1..l : t[k] = q[k]
          /\ \A k \in 1..e : t[l + k] = ev[k]
      BY <2>2, <3>2
    <3>4. \A k \in 1..l : q[k] # "end" /\ (q[k] = "DONE" => Passed(n))
      BY <2>1, <2>6, <3>1, <3>2
    <3>5. ASSUME NEW k \in 1..(l + e)
          PROVE  /\ t[k] = "DONE" => (Passed(n))'
                 /\ t[k] = "end" => /\ k = l + e
                                    /\ server'[n].phase \in {"paused", "done", "error"}
      <4>1. CASE k \in 1..l
        BY <1>5, <3>3, <3>4, <4>1
      <4>2. CASE k \notin 1..l
        <5>1. k - l \in 1..e /\ k = l + (k - l)
          BY <4>2
        <5>2. PICK j \in 1..e : k = l + j /\ t[k] = ev[j]
          BY <3>3, <5>1
        <5>3. /\ ev[j] = "DONE" => server'[n].step = 1 \/ server'[n].phase \in {"done", "error"}
              /\ ev[j] = "end" => j = e /\ server'[n].phase \in {"paused", "done", "error"}
          BY <3>2, <5>2 DEF Fitting
        <5>4. QED
          BY <5>2, <5>3 DEF Passed
      <4>3. QED
        BY <4>1, <4>2
    <3>6. ASSUME t # <<>>, t[l + e] = "end"
          PROVE  /\ l + e # 1
                 /\ \/ t[l + e - 1] = "DONE"
                    \/ t[l + e - 1] = "PAUSED" /\ server'[n].phase = "paused"
      <4>1. e # 0
        <5>1. ASSUME e = 0
              PROVE  FALSE
          <6>1. l # 0 /\ l + e = l
            BY <3>3, <3>6, <5>1
          <6>2. l \in 1..l
            BY <6>1
          <6>3. QED
            BY <3>3, <3>4, <3>6, <6>1, <6>2
        <5>2. QED
          BY <5>1
      <4>2. ev # <<>> /\ ev[e] = "end"
        BY <3>2, <3>3, <3>6, <4>1
      <4>3. /\ e # 1
            /\ \/ ev[e - 1] = "DONE"
               \/ ev[e - 1] = "PAUSED" /\ server'[n].phase = "paused"
        <5>1. ev # <<>> /\ ev[Len(ev)] = "end"
          BY <3>2, <4>2, Zenon
        <5>2. /\ Len(ev) # 1
              /\ \/ ev[Len(ev) - 1] = "DONE"
                 \/ ev[Len(ev) - 1] = "PAUSED" /\ server'[n].phase = "paused"
          BY <5>1, Zenon DEF Fitting
        <5>3. QED
          BY <3>2, <5>2, Zenon
      <4>4. e - 1 \in 1..e /\ l + (e - 1) = l + e - 1 /\ l + e # 1
        BY <4>1, <4>3
      <4>5. t[l + e - 1] = ev[e - 1]
        BY <3>3, <4>4
      <4>6. QED
        BY <4>3, <4>4, <4>5
    <3>7. ~request[s].begun => t # <<>> /\ t[1] = "STATUS"
      <4>1. ASSUME ~request[s].begun
            PROVE  1 \in 1..l /\ q[1] = "STATUS"
        BY <2>1, <2>2, <3>2, <4>1
      <4>2. QED
        BY <3>2, <3>3, <4>1
    <3>8. \A k \in 1..Len(t) :
            /\ t[k] = "DONE" => (Passed(n))'
            /\ t[k] = "end" => /\ k = Len(t)
                               /\ server'[n].stream = s =>
                                    server'[n].phase \in {"paused", "done", "error"}
      BY <3>3, <3>5
    <3>9. t # <<>> /\ t[Len(t)] = "end" =>
            /\ Len(t) # 1
            /\ \/ t[Len(t) - 1] = "DONE"
               \/ t[Len(t) - 1] = "PAUSED" /\ server'[n].phase = "paused"
      <4>1. Len(t) = l + e
        BY <3>3
      <4>2. PICK j : j = Len(t) /\ j = l + e
        BY <4>1
      <4>3. ASSUME t # <<>>, t[j] = "end"
            PROVE  /\ j # 1
                   /\ \/ t[j - 1] = "DONE"
                      \/ t[j - 1] = "PAUSED" /\ server'[n].phase = "paused"
        <5>1. t[l + e] = "end"
          BY <4>2, <4>3, Zenon
        <5>2. /\ l + e # 1
              /\ \/ t[l + e - 1] = "DONE"
                 \/ t[l + e - 1] = "PAUSED" /\ server'[n].phase = "paused"
          BY <3>6, <4>3, <5>1, Zenon
        <5>3. j - 1 = l + e - 1 /\ j # 1
          BY <4>2, <5>2
        <5>4. QED
          BY <5>2, <5>3, Zenon
      <4>4. QED
        BY <4>2, <4>3, Zenon
    <3>10. t # <<>> /\ t[Len(t)] = "end" =>
             IF Len(t) = 1
             THEN /\ request'[s].begun /\ (page'.active = None \/ page'.offer = m)
                  /\ page'.offer # None => server'[m].phase = "paused" \/ blame'[m] # {}
             ELSE \/ t[Len(t) - 1] = "DONE"
                  \/ /\ t[Len(t) - 1] = "PAUSED"
                     /\ server'[m].phase = "paused" \/ blame'[m] # {}
      BY <3>1, <3>9
    <3>11. \A k \in 1..Len(t) :
             /\ t[k] = "DONE" => (Passed(m))'
             /\ t[k] = "end" => /\ k = Len(t)
                                /\ server'[m].stream = s =>
                                     server'[m].phase \in {"paused", "done", "error"}
      BY <3>1, <3>8
    <3>12. QED
      BY <2>3, <2>4, <3>1, <3>7, <3>10, <3>11 DEF Flows, Passed
  <2>7. QED
    BY <2>5, <2>6
<1>12. Unread'
  <2>1. Unread
    BY DEF IInv
  <2>2. ASSUME NEW s \in Requests, request'[s].state = "cut"
        PROVE  blame'[request'[s].session] \cap Broken # {}
    <3>1. request[s].session \in Sessions /\ blame[request[s].session] \cap Broken # {}
      BY <1>3, <2>1, <2>2, StateIs DEF Unread
    <3>2. QED
      BY <1>3, <1>5, <3>1
  <2>3. ASSUME NEW s \in Sessions, server'[s].phase = "running", server'[s].step = 0,
               request'[server'[s].stream].state = "closed"
        PROVE  blame'[s] \cap Broken # {}
    <3>1. server[s].phase = "running" /\ server[s].step = 0 /\ server[s].stream # None
      BY <1>5, <2>3 DEF IInv, Streams
    <3>2. request[server[s].stream].state = "closed"
      BY <1>3, <1>5, <1>9, <2>3, <3>1
    <3>3. QED
      BY <1>5, <2>1, <3>1, <3>2 DEF Unread
  <2>4. QED
    BY <2>2, <2>3 DEF Unread
<1>13. Pressed'
  <2>1. \A s \in Sessions :
           /\ server[s].phase # "new" => server'[s].phase # "new"
           /\ Explained(s) => (Explained(s))'
           /\ server[s].phase # "running" \/ blame[s] \cap Broken # {}
                => server'[s].phase # "running" \/ blame'[s] \cap Broken # {}
    BY <1>5
  <2>2. QED
    BY <1>4, <2>1, PressedStays DEF Pressed
<1>14. Offered'
  <2> PICK o, a, c : o = page.offer /\ a = page.asked /\ c = page.current
    OBVIOUS
  <2> PICK m : m = request[c].session
    OBVIOUS
  <2>1. /\ o # None =>
             /\ page.loading => o = m
             /\ ~page.loading \/ request[c].state \in {"sent", "refused"} => Explained(o)
             /\ o # a => blame[o] \cap {"early", "crossed"} # {} /\ blame[a] # {}
        /\ c # None =>
             /\ request[c].state \in {"sent", "refused"} /\ request[c].resumes => o = m
             /\ ~page.loading => o = m \/ Passed(m) \/ blame[m] # {}
             /\ m # a => blame[m] \cap {"early", "crossed"} # {} /\ blame[a] # {}
    BY DEF IInv, Offered
  <2>2. /\ o # None => o \in Sessions /\ a \in Sessions /\ c # None
        /\ c # None => c \in Requests /\ m \in Sessions /\ a \in Sessions
    BY PageIs
  <2>3. /\ o # None =>
             /\ page.loading => o = m
             /\ ~page.loading \/ request[c].state \in {"sent", "refused"} => (Explained(o))'
             /\ o # a => blame'[o] \cap {"early", "crossed"} # {} /\ blame'[a] # {}
        /\ c # None =>
             /\ request[c].state \in {"sent", "refused"} /\ request[c].resumes => o = m
             /\ ~page.loading => o = m \/ (Passed(m))' \/ blame'[m] # {}
             /\ m # a => blame'[m] \cap {"early", "crossed"} # {} /\ blame'[a] # {}
    BY <1>5, <2>1, <2>2
  <2>4. c # None => /\ request'[c].session = m /\ request'[c].state = request[c].state
                    /\ request'[c].resumes = request[c].resumes
    BY <1>3, <2>2
  <2>5. o = page'.offer /\ a = page'.asked /\ c = page'.current /\ page' = page
    OBVIOUS
  <2>6. QED
    BY <2>2, <2>3, <2>4, <2>5 DEF Offered, Explained, Passed
<1>15. QED
  BY <1>6, <1>7, <1>8, <1>10, <1>11, <1>12, <1>13, <1>14 DEF IInv

LEMMA SnapshotKeeps ==
  ASSUME IInv, NEW n \in Sessions, Snapshot(n)
  PROVE  IInv'
<1>1. /\ server \in [Sessions -> ServerType] /\ blame \in [Sessions -> SUBSET Causes]
      /\ server[n].step \in 0..1
  BY StateIs DEF ServerType
<1>2. /\ page' = page /\ press' = press /\ exposed' = exposed /\ blame' = blame
      /\ server[n].phase \in {"running", "stopping"}
      /\ server[n].first \/ server[n].step = 0
  BY DEF Snapshot
<1> PICK v : v = IF server[n].first THEN server[n].step ELSE server[n].step + 1
  OBVIOUS
<1> PICK w : w = IF server[n].phase = "stopping" THEN "paused" ELSE server[n].phase
  OBVIOUS
<1>3. /\ v \in 0..1 /\ server[n].step <= v
      /\ w \in {"running", "paused"}
      /\ w = "running" => server[n].phase = "running"
      /\ w = "paused" => server[n].phase = "stopping"
  BY <1>1, <1>2
<1>4. /\ server' = [server EXCEPT ![n] = [server[n] EXCEPT !.step = v, !.first = FALSE, !.phase = w]]
      /\ Send(n, (IF v = 1 THEN <<"DONE">> ELSE <<>>)
                   \o (IF server[n].phase = "stopping" THEN <<"PAUSED", "end">> ELSE <<>>))
  BY DEF Snapshot
<1>5. /\ server' \in [Sessions -> ServerType]
      /\ \A s \in Sessions : s # n => server'[s] = server[s]
      /\ server'[n].stream = server[n].stream
      /\ server'[n].phase = w /\ server'[n].step = v
  <2>1. w \in Phases
    BY <1>3 DEF Phases
  <2>2. QED
    BY <1>1, <1>3, <1>4, <2>1, ZenonT(30) DEF ServerType
<1>6. /\ Grows
      /\ blame' \in [Sessions -> SUBSET Causes]
      /\ server'[n].phase # "new"
      /\ Passed(n) => server'[n].step = 1 \/ server'[n].phase \in {"done", "error"}
      /\ server[n].phase = "stopping" \/ blame[n] # {} =>
           server'[n].phase \in {"stopping", "paused"} \/ blame'[n] # {}
      /\ server'[n].phase = "running" =>
           server[n].phase = "running" /\ (server'[n].step = 0 => server[n].step = 0)
  <2>1. server[n].step = 1 => v = 1
    BY <1>1, <1>3
  <2>2. v = 0 => server[n].step = 0
    BY <1>1, <1>3
  <2>3. w = "paused" \/ server[n].phase # "stopping"
    OBVIOUS
  <2>4. QED
    BY <1>1, <1>2, <1>3, <1>5, <2>1, <2>2, <2>3 DEF Grows, Passed
<1> PICK told, tail : /\ told = IF v = 1 THEN <<"DONE">> ELSE <<>>
                      /\ tail = IF server[n].phase = "stopping" THEN <<"PAUSED", "end">>
                                                                ELSE <<>>
  OBVIOUS
<1>7. /\ told \in Seq(Events) /\ tail \in Seq(Events)
      /\ v = 1 => Len(told) = 1 /\ told[1] = "DONE"
      /\ v # 1 => Len(told) = 0
      /\ w = "paused" => Len(tail) = 2 /\ tail[1] = "PAUSED" /\ tail[2] = "end"
      /\ w # "paused" => Len(tail) = 0
  <2>1. <<>> \in Seq(Events) /\ <<"DONE">> \in Seq(Events) /\ <<"PAUSED", "end">> \in Seq(Events)
    BY DEF Events
  <2>2. v = 1 => told = <<"DONE">>
    OBVIOUS
  <2>3. v # 1 => told = <<>>
    OBVIOUS
  <2>4. w = "paused" => tail = <<"PAUSED", "end">>
    BY <1>3
  <2>5. w # "paused" => tail = <<>>
    OBVIOUS
  <2>6. QED
    BY <2>1, <2>2, <2>3, <2>4, <2>5
<1> PICK ev : ev = told \o tail
  OBVIOUS
<1>8. Send(n, ev)
  BY <1>4, Zenon
<1> PICK i, j : i = Len(told) /\ j = Len(tail)
  OBVIOUS
<1>9. /\ ev \in Seq(Events) /\ Len(ev) = i + j
      /\ \A k \in 1..i : ev[k] = told[k]
      /\ \A k \in 1..j : ev[i + k] = tail[k]
  BY <1>7
<1>10. Fitting(n, ev)
  <2>1. CASE v = 0 /\ w = "running"
    <3>1. Len(ev) = 0
      BY <1>7, <1>9, <2>1
    <3>2. QED
      BY <1>9, <3>1 DEF Fitting
  <2>2. CASE v = 1 /\ w = "running"
    <3>1. Len(ev) = 1 /\ ev[1] = "DONE"
      BY <1>7, <1>9, <2>2
    <3>2. QED
      BY <1>5, <2>2, <3>1 DEF Fitting
  <2>3. CASE v = 0 /\ w = "paused"
    <3>1. Len(ev) = 2 /\ ev[1] = "PAUSED" /\ ev[2] = "end"
      BY <1>7, <1>9, <2>3
    <3>2. QED
      BY <1>5, <2>3, <3>1 DEF Fitting
  <2>4. CASE v = 1 /\ w = "paused"
    <3>1. Len(ev) = 3 /\ ev[1] = "DONE" /\ ev[2] = "PAUSED" /\ ev[3] = "end"
      BY <1>7, <1>9, <2>4
    <3>2. QED
      BY <1>5, <2>4, <3>1, SMTT(20) DEF Fitting
  <2>5. QED
    BY <1>3, <2>1, <2>2, <2>3, <2>4
<1>11. QED
  BY <1>2, <1>5, <1>6, <1>8, <1>9, <1>10, TurnKeeps

LEMMA RunEndsKeeps ==
  ASSUME IInv, NEW n \in Sessions, RunEnds(n)
  PROVE  IInv'
<1>1. /\ server \in [Sessions -> ServerType] /\ blame \in [Sessions -> SUBSET Causes]
  BY StateIs
<1>2. /\ page' = page /\ press' = press /\ exposed' = exposed
      /\ server[n].phase \in {"running", "stopping"}
      /\ blame' = IF server[n].phase = "stopping" THEN Blamed("late", {n}) ELSE blame
  BY DEF RunEnds
<1>3. /\ blame' \in [Sessions -> SUBSET Causes] /\ Grows
      /\ server[n].phase = "stopping" => "late" \in blame'[n]
  BY <1>1, <1>2, BlamedIs DEF Grows, Causes
<1>4. ASSUME NEW w \in {"done", "error"}, server' = [server EXCEPT ![n].phase = w]
      PROVE  /\ server' \in [Sessions -> ServerType]
             /\ \A s \in Sessions : s # n => server'[s] = server[s]
             /\ server'[n].stream = server[n].stream
             /\ server'[n].phase = w
             /\ server'[n].phase # "new" /\ server'[n].phase # "running"
             /\ server[n].phase = "stopping" \/ blame[n] # {} =>
                  server'[n].phase \in {"stopping", "paused"} \/ blame'[n] # {}
  <2>1. w \in Phases
    BY DEF Phases
  <2>2. /\ server' \in [Sessions -> ServerType]
        /\ \A s \in Sessions : s # n => server'[s] = server[s]
        /\ server'[n].stream = server[n].stream
        /\ server'[n].phase = w
    BY <1>1, <1>4, <2>1 DEF ServerType
  <2>3. server[n].phase = "stopping" \/ blame[n] # {} => blame'[n] # {}
    BY <1>3 DEF Grows
  <2>4. QED
    BY <2>2, <2>3
<1>5. CASE server' = [server EXCEPT ![n].phase = "done"] /\ Send(n, <<"DONE", "end">>)
  <2>1. <<"DONE", "end">> \in Seq(Events)
    BY DEF Events
  <2>2. Fitting(n, <<"DONE", "end">>)
    BY <1>4, <1>5 DEF Fitting
  <2>3. QED
    BY <1>2, <1>3, <1>4, <1>5, <2>1, <2>2, TurnKeeps
<1>6. CASE server' = [server EXCEPT ![n].phase = "error"] /\ Send(n, <<"ERROR", "DONE", "end">>)
  <2>1. <<"ERROR", "DONE", "end">> \in Seq(Events)
    BY DEF Events
  <2>2. Fitting(n, <<"ERROR", "DONE", "end">>)
    BY <1>4, <1>6 DEF Fitting
  <2>3. QED
    BY <1>2, <1>3, <1>4, <1>6, <2>1, <2>2, TurnKeeps
<1>7. QED
  BY <1>5, <1>6 DEF RunEnds

-----------------------------------------------------------------------------
(* A question or a resume is sent. *)

LEMMA SubmitKeeps ==
  ASSUME IInv, NEW r \in Requests, NEW n \in Sessions, NEW resumes \in BOOLEAN,
         Submit(r, n, resumes),
         page' \in PageType, page'.loading = TRUE, page'.assistant = TRUE,
         page'.current = r, page'.active = page.active, page.asked <= page'.asked,
         n \in 1..page'.asked,
         IF resumes
         THEN n = page.offer /\ page'.offer = n /\ page'.asked = page.asked
         ELSE n = page'.asked /\ page'.offer = None /\ n > page.asked
  PROVE  IInv'
<1> PICK c : c = page.current
  OBVIOUS
<1> PICK a, b : a = page.asked /\ b = page'.asked
  OBVIOUS
<1>1. /\ page \in PageType /\ request \in [Requests -> RequestType]
      /\ press \in [Presses -> PressType] /\ server \in [Sessions -> ServerType]
      /\ blame \in [Sessions -> SUBSET Causes] /\ exposed \in BOOLEAN
      /\ c \in Nat /\ a \in Nat /\ r \in Nat /\ r # None
  BY StateIs, SMTT(20) DEF IInv, TypeOK, None
<1>2. /\ press' = press /\ server' = server /\ exposed' = exposed /\ blame' = blame
      /\ ~page.loading /\ request[r].state = "idle"
      /\ \A q \in 1..(r - 1) : request[q].state # "idle"
      /\ request' = [Aborted EXCEPT ![r] = [state |-> "sent", session |-> n,
                                            resumes |-> resumes,
                                            hadOffer |-> page.offer # None,
                                            begun |-> FALSE, queue |-> <<>>]]
  BY DEF Submit
<1>3. \A s \in Requests : request[s].state \notin Live
  BY <1>2 DEF IInv, OneStream
<1>4. /\ request' \in [Requests -> RequestType]
      /\ \A s \in Requests : s # r =>
           /\ request'[s].state = request[s].state
           /\ request'[s].session = request[s].session
           /\ request'[s].resumes = request[s].resumes
           /\ request'[s].begun = request[s].begun
      /\ request'[r].state = "sent" /\ request'[r].session = n
      /\ request'[r].resumes = resumes /\ request'[r].begun = FALSE
  <2>1. /\ Aborted \in [Requests -> RequestType]
        /\ \A s \in Requests :
             /\ Aborted[s].state = request[s].state
             /\ Aborted[s].session = request[s].session
             /\ Aborted[s].resumes = request[s].resumes
             /\ Aborted[s].begun = request[s].begun
    BY <1>1, <1>3, AbortedIs
  <2>2. PICK h \in BOOLEAN : h = (page.offer # None)
    OBVIOUS
  <2>3. <<>> \in Seq(Events)
    OBVIOUS
  <2>4. PICK d : d = [state |-> "sent", session |-> n, resumes |-> resumes,
                      hadOffer |-> h, begun |-> FALSE, queue |-> <<>>]
    OBVIOUS
  <2>5. /\ d \in RequestType /\ d.state = "sent" /\ d.session = n
        /\ d.resumes = resumes /\ d.begun = FALSE
    BY <2>3, <2>4 DEF RequestType, RequestStates
  <2>6. request' = [Aborted EXCEPT ![r] = d]
    BY <1>2, <2>2, <2>4
  <2>7. QED
    BY <2>1, <2>5, <2>6
<1>5. /\ r > c /\ \A s \in Requests : s # r => (request[s].state = "idle" <=> s > r)
  <2>1. \A s \in Requests : request[s].state = "idle" <=> s > c
    BY DEF IInv, Numbered
  <2>2. r > c
    BY <1>2, <2>1
  <2>3. ASSUME NEW s \in Requests, s # r
        PROVE  request[s].state = "idle" <=> s > r
    <3>1. s \in Nat /\ s > 0
      BY StateIs
    <3>2. CASE s > r
      BY <1>1, <2>1, <2>2, <3>1, <3>2
    <3>3. CASE s < r
      <4>1. s \in 1..(r - 1)
        BY <1>1, <3>1, <3>3
      <4>2. QED
        BY <1>1, <1>2, <3>1, <3>3, <4>1
    <3>4. QED
      BY <1>1, <2>3, <3>1, <3>2, <3>3
  <2>4. QED
    BY <2>2, <2>3
<1>6. /\ b \in Nat /\ a <= b /\ n \in 1..b /\ n \in Nat
  <2>1. b \in Sessions \cup {None} /\ n \in 1..b /\ a <= b
    BY DEF PageType
  <2>2. b \in Nat
    BY <2>1, StateIs DEF None
  <2>3. QED
    BY <2>1, <2>2
<1>7. TypeOK'
  BY <1>1, <1>2, <1>4 DEF TypeOK, PageType, RequestType, PressType, ServerType
<1>8. Numbered'
  <2>1. Numbered
    BY DEF IInv
  <2>2. \A s \in Requests : request'[s].state = "idle" <=> s > r
    BY <1>1, <1>4, <1>5
  <2>3. ASSUME NEW s \in Requests, request'[s].state # "idle"
        PROVE  request'[s].session \in 1..b
    <3>1. CASE s = r
      BY <1>4, <1>6, <3>1
    <3>2. CASE s # r
      <4>1. request[s].session \in 1..a
        BY <1>4, <2>1, <2>3, <3>2 DEF Numbered
      <4>2. request[s].session \in 1..b
        BY <1>1, <1>6, <4>1
      <4>3. QED
        BY <1>4, <3>2, <4>2
    <3>3. QED
      BY <3>1, <3>2
  <2>4. page'.offer <= b /\ page'.active <= b
    <3>1. page.active <= a /\ page.active \in Sessions \cup {None}
      BY <1>1, <2>1 DEF Numbered, PageType
    <3>2. PICK v \in Nat : v = page.active
      BY <3>1, StateIs DEF None
    <3>3. page'.active <= b
      BY <1>1, <1>6, <3>1, <3>2
    <3>4. page'.offer = n \/ page'.offer = 0
      BY DEF None
    <3>5. page'.offer <= b
      BY <1>6, <3>4
    <3>6. QED
      BY <3>3, <3>5
  <2>5. \A s \in Sessions : s > b => server'[s].phase = "new"
    <3>1. \A s \in Sessions : s > a => server[s].phase = "new"
      BY <2>1 DEF Numbered
    <3>2. QED
      BY <1>1, <1>2, <1>6, <3>1, StateIs
  <2>6. ASSUME NEW q \in Requests, NEW s \in Requests,
               "idle" \notin {request'[q].state, request'[s].state},
               request'[q].session = request'[s].session,
               ~request'[q].resumes, ~request'[s].resumes
        PROVE  q = s
    <3>1. ASSUME NEW x \in Requests, x # r, request[x].state # "idle", ~resumes
          PROVE  request[x].session # n
      <4>1. request[x].session \in 1..a /\ n > a
        BY <2>1, <3>1 DEF Numbered
      <4>2. QED
        BY <1>1, <1>6, <4>1
    <3>2. CASE q # r /\ s # r
      BY <1>4, <2>1, <2>6, <3>2 DEF Numbered
    <3>3. CASE q = r /\ s # r
      BY <1>4, <2>6, <3>1, <3>3
    <3>4. CASE q # r /\ s = r
      BY <1>4, <2>6, <3>1, <3>4
    <3>5. QED
      BY <3>2, <3>3, <3>4
  <2>7. QED
    BY <1>1, <2>2, <2>3, <2>4, <2>5, <2>6 DEF Numbered
<1>9. OneStream'
  BY <1>1, <1>3, <1>4 DEF OneStream, Live
<1>10. ASSUME NEW s \in Sessions, server[s].stream # None
       PROVE  /\ server[s].stream \in Requests /\ server[s].stream # r
              /\ request[server[s].stream].session = s
              /\ request[server[s].stream].state \in {"open", "closed"}
  BY <1>1, <1>2, <1>10 DEF IInv, Streams, ServerType
<1>11. Streams'
  <2>1. Streams
    BY DEF IInv
  <2>2. ASSUME NEW s \in Sessions
        PROVE  /\ server'[s].stream = None <=> server'[s].phase = "new"
               /\ server'[s].stream # None =>
                    /\ request'[server'[s].stream].session = s
                    /\ request'[server'[s].stream].state \in {"open", "closed"}
    BY <1>2, <1>4, <1>10, <2>1 DEF Streams
  <2>3. ~resumes => server[n].phase = "new"
    BY DEF IInv, Numbered
  <2>4. ASSUME NEW s \in Requests
        PROVE  /\ request'[s].state = "open" => server'[request'[s].session].phase # "new"
               /\ request'[s].state = "refused" => request'[s].resumes
               /\ request'[s].state \in {"sent", "refused"} => ~request'[s].begun
               /\ request'[s].state \in {"sent", "cut"} /\ ~request'[s].resumes =>
                    server'[request'[s].session].phase = "new"
    <3>1. CASE s = r
      BY <1>2, <1>4, <2>3, <3>1
    <3>2. CASE s # r
      BY <1>2, <1>4, <2>1, <3>2 DEF Streams
    <3>3. QED
      BY <3>1, <3>2
  <2>5. QED
    BY <1>2, <2>1, <2>2, <2>4 DEF Streams
<1>12. Queues'
  BY <1>3, <1>4 DEF Queues, Live
<1>13. Unread'
  <2>1. Unread
    BY DEF IInv
  <2>2. \A s \in Requests :
          request'[s].state = "cut" => blame'[request'[s].session] \cap Broken # {}
    BY <1>2, <1>4, <2>1 DEF Unread
  <2>3. ASSUME NEW s \in Sessions, server'[s].phase = "running", server'[s].step = 0,
               request'[server'[s].stream].state = "closed"
        PROVE  blame'[s] \cap Broken # {}
    <3>1. server[s].phase = "running" /\ server[s].step = 0 /\ server[s].stream # None
      BY <1>2, <2>3 DEF IInv, Streams
    <3>2. request[server[s].stream].state = "closed"
      BY <1>2, <1>4, <1>10, <2>3, <3>1
    <3>3. QED
      BY <1>2, <2>1, <3>1, <3>2 DEF Unread
  <2>4. QED
    BY <2>2, <2>3 DEF Unread
<1>14. Pressed'
  <2> SUFFICES ASSUME NEW p \in Presses, press[p].state \in {"sent", "answered"}
               PROVE  (Heard(p))'
    BY <1>2 DEF Pressed
  <2> PICK x, y : x = press[p].session /\ y = press[p].stream
    OBVIOUS
  <2>1. x # None /\ x <= a /\ y \in 1..c /\ server[x].phase # "new"
    BY DEF IInv, Pressed, Heard
  <2>2. y \in 1..r /\ y # r
    BY <1>1, <1>5, <2>1
  <2>3. x <= b
    <3>1. x \in Sessions \cup {None}
      BY <1>1 DEF PressType
    <3>2. x \in Nat
      BY <3>1, StateIs DEF None
    <3>3. QED
      BY <1>1, <1>6, <2>1, <3>2
  <2>4. x = press'[p].session /\ y = press'[p].stream
    BY <1>2
  <2>5. QED
    BY <1>2, <2>1, <2>2, <2>3, <2>4 DEF Heard
<1>15. Offered'
  <2>1. CASE resumes
    <3>1. page.offer # None
      BY <2>1, <1>6, StateIs DEF None
    <3>2. /\ Explained(n)
          /\ n # a => blame[n] \cap {"early", "crossed"} # {} /\ blame[a] # {}
      BY <1>2, <2>1, <3>1 DEF IInv, Offered
    <3>3. /\ page'.offer = n /\ page'.asked = a /\ page'.current = r
          /\ request'[r].session = n /\ server' = server /\ blame' = blame
      BY <1>2, <1>4, <2>1
    <3>4. QED
      BY <3>2, <3>3 DEF Offered, Explained
  <2>2. CASE ~resumes
    BY <1>4, <2>2 DEF Offered
  <2>3. QED
    BY <2>1, <2>2
<1>16. QED
  BY <1>7, <1>8, <1>9, <1>11, <1>12, <1>13, <1>14, <1>15 DEF IInv

LEMMA SubmitNewKeeps ==
  ASSUME IInv, NEW r \in Requests, SubmitNew(r)
  PROVE  IInv'
<1>1. page \in PageType /\ page.asked \in Nat /\ Sessions = 1..MaxAsks /\ MaxAsks \in Nat
  BY StateIs
<1> PICK n : n = page.asked + 1
  OBVIOUS
<1>2. n \in Sessions /\ page.asked <= n /\ n \in 1..n /\ n > page.asked
  BY <1>1 DEF SubmitNew
<1>3. Submit(r, n, FALSE)
  BY DEF SubmitNew
<1>4. page' = [page EXCEPT !.loading = TRUE, !.current = r, !.offer = None,
                           !.asked = n, !.assistant = TRUE]
  BY DEF SubmitNew
<1>5. /\ page' \in PageType /\ page'.loading = TRUE /\ page'.assistant = TRUE
      /\ page'.current = r /\ page'.active = page.active /\ page'.asked = n
      /\ page'.offer = None
  BY <1>1, <1>2, <1>4 DEF PageType
<1>6. QED
  BY <1>2, <1>3, <1>5, SubmitKeeps

LEMMA SubmitResumeKeeps ==
  ASSUME IInv, NEW r \in Requests, SubmitResume(r)
  PROVE  IInv'
<1>1. page \in PageType /\ page.asked \in Nat
  BY StateIs
<1> PICK n : n = page.offer
  OBVIOUS
<1>2. n \in Sessions /\ n <= page.asked /\ n \in 1..page.asked
  <2>1. n \in Sessions /\ n <= page.asked
    BY PageIs DEF IInv, Numbered, SubmitResume
  <2>2. n \in Nat /\ n > 0
    BY <2>1, StateIs
  <2>3. QED
    BY <1>1, <2>1, <2>2
<1>3. Submit(r, n, TRUE)
  BY DEF SubmitResume
<1>4. page' = [page EXCEPT !.loading = TRUE, !.current = r, !.assistant = TRUE]
  BY DEF SubmitResume
<1>5. /\ page' \in PageType /\ page'.loading = TRUE /\ page'.assistant = TRUE
      /\ page'.current = r /\ page'.active = page.active /\ page'.asked = page.asked
      /\ page'.offer = n
  BY <1>1, <1>4 DEF PageType
<1>6. page.asked <= page'.asked
  BY <1>1, <1>5
<1>7. QED
  BY <1>2, <1>3, <1>5, <1>6, SubmitKeeps

-----------------------------------------------------------------------------
(* The invariant, and what follows from it. *)

LEMMA InitIInv == Init => IInv
<1> SUFFICES ASSUME Init PROVE IInv
  OBVIOUS
<1>1. TypeOK
  BY InitTyped
<1>2. /\ \A r \in Requests : /\ request[r].state = "idle" /\ ~request[r].begun
                             /\ r \in Nat /\ r > 0
      /\ \A p \in Presses : press[p].state = "idle"
      /\ \A n \in Sessions : server[n].phase = "new" /\ server[n].stream = None
      /\ page.current = 0 /\ page.asked = 0 /\ page.active = 0 /\ page.offer = 0
      /\ ~page.loading
  BY ChatPageAssumption DEF Init, None, Requests
<1>3. Numbered /\ OneStream
  BY <1>2 DEF Numbered, OneStream, Live, None
<1>4. Streams /\ Queues /\ Unread
  BY <1>2 DEF Streams, Queues, Unread, None
<1>5. Pressed /\ Offered
  BY <1>2 DEF Pressed, Offered, None
<1>6. QED
  BY <1>1, <1>3, <1>4, <1>5 DEF IInv

LEMMA StutterKeeps == IInv /\ vars' = vars => IInv'
<1> SUFFICES ASSUME IInv, page' = page, request' = request, press' = press,
                    server' = server, exposed' = exposed, blame' = blame
             PROVE  IInv'
  BY DEF vars
<1>1. (TypeOK /\ Numbered /\ OneStream)'
  BY DEF IInv, TypeOK, Numbered, OneStream
<1>2. (Streams /\ Queues /\ Unread)'
  BY DEF IInv, Streams, Queues, Flows, Passed, Unread
<1>3. (Pressed /\ Offered)'
  BY DEF IInv, Pressed, Heard, Offered, Explained, Passed
<1>4. QED
  BY <1>1, <1>2, <1>3 DEF IInv

LEMMA StepIInv == IInv /\ [Next]_vars => IInv'
<1> SUFFICES ASSUME IInv, [Next]_vars PROVE IInv'
  OBVIOUS
<1>1. ASSUME NEW r \in Requests, SubmitNew(r) PROVE IInv'
  BY <1>1, SubmitNewKeeps
<1>2. ASSUME NEW r \in Requests, SubmitResume(r) PROVE IInv'
  BY <1>2, SubmitResumeKeeps
<1>3. ASSUME NEW r \in Requests, AskStream(r) PROVE IInv'
  BY <1>3, OpenKeeps
<1>4. ASSUME NEW r \in Requests, AskResume(r) PROVE IInv'
  <2>1. CASE server[request[r].session].phase = "paused"
    BY <1>4, <2>1, OpenKeeps
  <2>2. CASE server[request[r].session].phase # "paused"
    BY <1>4, <2>2, RefuseKeeps
  <2>3. QED
    BY <2>1, <2>2
<1>5. ASSUME NEW r \in Requests, Receive(r) PROVE IInv'
  BY <1>5, ReceiveKeeps
<1>6. ASSUME NEW r \in Requests, ReceiveRefusal(r) \/ ConnectionLost(r) PROVE IInv'
  BY <1>6, CloseKeeps
<1>7. ASSUME NEW p \in Presses, PressStop(p) PROVE IInv'
  BY <1>7, PressStopKeeps
<1>8. ASSUME NEW p \in Presses, AskStop(p) \/ StopLost(p) PROVE IInv'
  BY <1>8, StopHeardKeeps
<1>9. ASSUME NEW p \in Presses, StopReturns(p) PROVE IInv'
  BY <1>9, StopReturnsKeeps
<1>10. ASSUME NEW n \in Sessions, Snapshot(n) PROVE IInv'
  BY <1>10, SnapshotKeeps
<1>11. ASSUME NEW n \in Sessions, RunEnds(n) PROVE IInv'
  BY <1>11, RunEndsKeeps
<1>12. CASE vars' = vars
  BY <1>12, StutterKeeps
<1>13. QED
  BY <1>1, <1>2, <1>3, <1>4, <1>5, <1>6, <1>7, <1>8, <1>9, <1>10, <1>11, <1>12
     DEF Next, Handling, Arriving, Running

\* In every state the requests are numbered as they were sent, the page reads
\* the last one only, what a stream still holds leads to what the page goes by,
\* and a stop on its way is of the stream that is read or has been overtaken.
THEOREM PageInvariant == Spec => []IInv
BY InitIInv, StepIInv, PTL DEF Spec

\* A run that page.tsx no longer reads lost its reader for one of three reasons.
THEOREM RunsAreAttended == Spec => []UnattendedExplained
<1>1. ASSUME IInv PROVE UnattendedExplained
  <2>1. SUFFICES ASSUME NEW n \in Sessions, server[n].phase = "running", server[n].step = 0,
                        blame[n] \cap {"early", "crossed", "lost"} = {}
                 PROVE  \E r \in Requests : request[r].session = n /\ request[r].state = "open"
    BY DEF UnattendedExplained
  <2> PICK r : r = server[n].stream
    OBVIOUS
  <2>2. r \in Requests
    BY <1>1, <2>1, StateIs DEF ServerType, IInv, Streams
  <2>3. request[r].session = n /\ request[r].state \in {"open", "closed"}
    BY <1>1, <2>1, <2>2 DEF IInv, Streams
  <2>4. request[r].state # "closed"
    BY <1>1, <2>1 DEF IInv, Unread, Broken
  <2>5. QED
    BY <2>2, <2>3, <2>4
<1>2. QED
  BY InitIInv, StepIInv, <1>1, PTL DEF Spec

\* What the idle page offers to resume can be resumed, now or when the step in
\* progress ends, or the history says what went wrong.
THEOREM OffersAreExplained == Spec => []OfferExplained
<1>1. IInv => OfferExplained
  BY DEF IInv, Offered, OfferExplained, Explained
<1>2. QED
  BY InitIInv, StepIInv, <1>1, PTL DEF Spec

\* Events are written into the answer of the question they belong to, and a
\* resume continues the question that is shown.
THEOREM ShownQuestionsAreResumed == Spec => []ShownIsResumed
<1>1. ASSUME IInv PROVE ShownIsResumed
  <2>1. page.offer \in {None, page.asked} \/ blame[page.offer] \cap {"early", "crossed"} # {}
    BY <1>1 DEF IInv, Offered
  <2>2. ASSUME page.loading, request[page.current].session # page.asked
        PROVE  blame[request[page.current].session] \cap {"early", "crossed"} # {}
    BY <1>1, <2>2 DEF IInv, Offered, OneStream
  <2>3. QED
    BY <2>1, <2>2 DEF ShownIsResumed
<1>2. QED
  BY InitIInv, StepIInv, <1>1, PTL DEF Spec

\* A pause on the way is never forgotten by an idle page: the last question,
\* if it is paused before its last step, is the one that the page offers.
THEOREM PausesAreOffered == Spec => []PausedIsOffered
<1>1. ASSUME IInv PROVE PausedIsOffered
  <2>1. SUFFICES ASSUME ~page.loading, page.asked # None, page.offer # page.asked,
                        server[page.asked].phase = "paused", server[page.asked].step # 1
                 PROVE  blame[page.asked] # {}
    BY DEF PausedIsOffered
  <2>2. page.current # None
    BY <1>1, <2>1 DEF IInv, Numbered
  <2> PICK m : m = request[page.current].session
    OBVIOUS
  <2>3. CASE m # page.asked
    BY <1>1, <2>2, <2>3 DEF IInv, Offered
  <2>4. CASE m = page.asked
    BY <1>1, <2>1, <2>2, <2>4 DEF IInv, Offered, Passed
  <2>5. QED
    BY <2>3, <2>4
<1>2. QED
  BY InitIInv, StepIInv, <1>1, PTL DEF Spec

=============================================================================
