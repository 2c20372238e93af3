---------------------------- MODULE PgWire_proofs ----------------------------
(***************************************************************************)
(* Proofs about PgWire: the rows a scrape shows are those of their own      *)
(* queries, all of one sampling, beside the check of the same cycle, and    *)
(* queries go out only after mutual authentication.                         *)
(***************************************************************************)
EXTENDS PgWire, TLAPS

Connecting == {"startup", "publish"} \cup Auth
Connected  == Auth \cup Query \cup {"close", "terminate", "store"}

(* A sampling begins with nothing asked and nothing read.                  *)
Fresh ==
  at \in Connecting => asked = 0 /\ stream = Unread /\ result = NoStats

(* While it lasts, the stream stands at the answer to the query that was   *)
(* asked last, and the parts of the result are those of the queries before.*)
Pairing ==
  /\ at \in Query => ~result.ok
  /\ at = "ask" => /\ asked < 4 /\ stream = [query |-> asked + 1, part |-> "rows"]
                   /\ result.parts = [q \in Queries |-> IF q <= asked THEN {q} ELSE {}]
  /\ at = "answer" => /\ asked >= 1 /\ stream.query = asked
                      /\ result.parts = [q \in Queries |-> IF q < asked THEN {q} ELSE {}]
                      /\ stream.part = "rows" => rows = {}
                      /\ stream.part = "end" => rows = {asked}
                      /\ stream.part = "ready" /\ ~queryErr => rows = {asked}

ResultIsPaired == result.ok => result.parts = Whole

(* The peer that proved itself is the one that is connected.               *)
Proof ==
  /\ at \in {"publish", "auth", "readAuth", "awaitReady"} \cup Query => scram # "begun"
  /\ at = "startup" => scram = "none"
  /\ scram = "proven" => knows

(* Statistics are sampled, and kept, only behind a check that passed, which *)
(* the heartbeat alone may overwrite.                                       *)
Behind ==
  /\ at \in Connected => snapOk \/ beaten
  /\ at \in Auth \cup Query \cup {"terminate", "store"} => password
  /\ at = "close" => ~password
  /\ ~password => ~stats.ok
  /\ at = "sleep" /\ stats.ok => snapOk \/ beaten

(* A scrape is calm for as long as the checker sleeps.                     *)
Calm ==
  /\ scrape.calm /\ scrape.at # "idle" => at = "sleep"
  /\ scrape.calm /\ scrape.at = "stats" => (snapOk => scrape.up \/ beaten)

IInv == /\ TypeOK
        /\ Fresh /\ Pairing /\ ResultIsPaired /\ SampleIsPaired /\ ScrapeIsWhole
        /\ Proof /\ Behind /\ Calm /\ ScrapeAgrees

(* The parts of the type invariant.                                        *)
Control ==
  /\ at \in Places
  /\ request \in Requests
  /\ scram \in {"none", "begun", "proven"}
  /\ asked \in 0 .. 4

Flags ==
  /\ password \in BOOLEAN
  /\ socket \in BOOLEAN /\ expired \in BOOLEAN /\ knows \in BOOLEAN
  /\ queryErr \in BOOLEAN
  /\ snapOk \in BOOLEAN /\ beating \in BOOLEAN /\ beaten \in BOOLEAN

Parts == [Queries -> SUBSET Queries]
Data ==
  /\ stream \in Answers
  /\ rows \in SUBSET Queries
  /\ result \in [ok : BOOLEAN, parts : Parts]
  /\ stats \in [ok : BOOLEAN, parts : Parts]

Scrape == scrape \in [at : {"idle", "stats", "served"}, up : BOOLEAN, ok : BOOLEAN,
                      parts : Parts, calm : BOOLEAN]

LEMMA TypeParts == TypeOK <=> Control /\ Flags /\ Data /\ Scrape
BY DEF TypeOK, Control, Flags, Data, Scrape, Parts

LEMMA ControlStep == Control /\ Pairing /\ [Next]_vars => Control'
<1> SUFFICES ASSUME Control, Pairing, [Next]_vars PROVE Control'
  OBVIOUS
<1> USE DEF Control, Places, Auth, Query, Requests, connection, exchange, published, Go
<1>1. CASE Handshake
  BY <1>1 DEF Handshake, DialConnects, DialFails, StartupAnswered, StartupFails
<1>2. CASE Deadline \/ AuthFails \/ QueryFails
  BY <1>2 DEF Deadline, AuthFails, QueryFails
<1>3. CASE Sampling
  BY <1>3 DEF Sampling, Authenticate, ScramContinue, DeriveKey, ScramFinal, ReadAuth, ReadyForQuery, Ask,
              ReadRows, CommandComplete, ErrorResponse, AnswerEnds, Reads, Returns, Pairing
<1>4. CASE Local
  BY <1>4 DEF Local, Publish, Close, StoreNoStats, Terminate, Store, Wake
<1>5. CASE Collect \/ Heartbeat
  BY <1>5 DEF Collect, LoadSnapshot, RenderStats, Served, Heartbeat, Beat, BeatDone
<1>6. CASE UNCHANGED vars
  BY <1>6 DEF vars
<1> QED
  BY <1>1, <1>2, <1>3, <1>4, <1>5, <1>6 DEF Next

LEMMA FlagsStep == Flags /\ [Next]_vars => Flags'
<1> SUFFICES ASSUME Flags, [Next]_vars PROVE Flags'
  OBVIOUS
<1> USE DEF Flags, connection, exchange, heartbeat, published
<1>1. CASE Handshake
  BY <1>1 DEF Handshake, DialConnects, DialFails, StartupAnswered, StartupFails
<1>2. CASE Deadline \/ AuthFails \/ QueryFails
  BY <1>2 DEF Deadline, AuthFails, QueryFails
<1>3. CASE Sampling
  <2>1. CASE Authenticate \/ ScramContinue \/ DeriveKey \/ ScramFinal \/ ReadAuth
    BY <2>1 DEF Authenticate, ScramContinue, DeriveKey, ScramFinal, ReadAuth
  <2>2. CASE ReadyForQuery \/ Ask \/ ReadRows
    BY <2>2 DEF ReadyForQuery, Ask, ReadRows
  <2>3. CASE CommandComplete \/ ErrorResponse \/ AnswerEnds
    BY <2>3 DEF CommandComplete, ErrorResponse, AnswerEnds
  <2> QED
    BY <1>3, <2>1, <2>2, <2>3 DEF Sampling
<1>4. CASE Local
  <2>1. CASE Publish \/ Close \/ StoreNoStats
    BY <2>1 DEF Publish, Close, StoreNoStats
  <2>2. CASE Terminate \/ Store \/ Wake
    BY <2>2 DEF Terminate, Store, Wake
  <2> QED
    BY <1>4, <2>1, <2>2 DEF Local
<1>5. CASE Collect \/ Heartbeat
  BY <1>5 DEF Collect, LoadSnapshot, RenderStats, Served, Heartbeat, Beat, BeatDone
<1>6. CASE UNCHANGED vars
  BY <1>6 DEF vars
<1> QED
  BY <1>1, <1>2, <1>3, <1>4, <1>5, <1>6 DEF Next

LEMMA DataStep == Control /\ Data /\ [Next]_vars => Data'
<1> SUFFICES ASSUME Control, Data, [Next]_vars PROVE Data'
  OBVIOUS
<1>0. NoStats \in [ok : BOOLEAN, parts : Parts] /\ Unread \in Answers
  BY DEF NoStats, NoParts, Parts, Queries, Unread, Answers
<1> USE DEF Data, connection, exchange, published
<1>1. CASE Handshake
  BY <1>0, <1>1 DEF Handshake, DialConnects, DialFails, StartupAnswered, StartupFails
<1>2. CASE Deadline \/ AuthFails \/ QueryFails
  BY <1>2 DEF Deadline, AuthFails, QueryFails
<1>3. CASE Authenticate \/ ScramContinue \/ DeriveKey \/ ScramFinal \/ ReadAuth \/ ReadyForQuery \/ Ask
  BY <1>3 DEF Authenticate, ScramContinue, DeriveKey, ScramFinal, ReadAuth, ReadyForQuery, Ask
<1>4. CASE ReadRows \/ CommandComplete \/ ErrorResponse
  BY <1>4 DEF ReadRows, CommandComplete, ErrorResponse, Reads, Answers, Control, Queries
<1>5. CASE AnswerEnds
  <2>1. stream' \in Answers
    BY <1>5 DEF AnswerEnds, Reads, Answers, Control
  <2>2. rows' = rows /\ stats' = stats
    BY <1>5 DEF AnswerEnds
  <2>3. result' \in [ok : BOOLEAN, parts : Parts]
    <3>1. CASE result' = result
      BY <3>1
    <3>2. CASE result' = [ok |-> asked = 4, parts |-> [result.parts EXCEPT ![asked] = rows]]
      <4>1. [result.parts EXCEPT ![asked] = rows] \in Parts
        BY DEF Parts
      <4>2. (asked = 4) \in BOOLEAN
        OBVIOUS
      <4> QED
        BY <3>2, <4>1, <4>2, Zenon
    <3> QED
      BY <1>5, <3>1, <3>2 DEF AnswerEnds, Returns
  <2> QED
    BY <2>1, <2>2, <2>3
<1>6. CASE Publish \/ Close \/ Terminate \/ Store \/ Wake
  BY <1>6 DEF Publish, Close, Terminate, Store, Wake
<1>7. CASE StoreNoStats
  BY <1>0, <1>7 DEF StoreNoStats
<1>8. CASE Collect \/ Heartbeat
  BY <1>8 DEF Collect, LoadSnapshot, RenderStats, Served, Heartbeat, Beat, BeatDone
<1>9. CASE UNCHANGED vars
  BY <1>9 DEF vars
<1> QED
  BY <1>1, <1>2, <1>3, <1>4, <1>5, <1>6, <1>7, <1>8, <1>9 DEF Next, Sampling, Local

LEMMA ScrapeStep == Flags /\ Data /\ Scrape /\ [Next]_vars => Scrape'
<1> SUFFICES ASSUME Flags, Data, Scrape, [Next]_vars PROVE Scrape'
  OBVIOUS
<1> USE DEF Scrape, published
<1>1. CASE Handshake \/ Sampling
  BY <1>1 DEF Handshake, DialConnects, DialFails, StartupAnswered, StartupFails,
              Sampling, Authenticate, ScramContinue, DeriveKey, ScramFinal, ReadAuth, ReadyForQuery, Ask,
              ReadRows, CommandComplete, ErrorResponse, AnswerEnds, Reads, Returns
<1>2. CASE Deadline \/ AuthFails \/ QueryFails \/ Heartbeat
  BY <1>2 DEF Deadline, AuthFails, QueryFails, Heartbeat, Beat, BeatDone
<1>3. CASE Local
  BY <1>3 DEF Local, Publish, Close, StoreNoStats, Terminate, Store, Wake
<1>4. CASE LoadSnapshot
  BY <1>4 DEF LoadSnapshot, NoScrape, NoParts, Flags, Parts, Queries
<1>5. CASE RenderStats
  BY <1>5 DEF RenderStats, NoParts, Data, Parts, Queries
<1>6. CASE Served
  BY <1>6 DEF Served, NoScrape, NoParts, Parts, Queries
<1>7. CASE UNCHANGED vars
  BY <1>7 DEF vars
<1> QED
  BY <1>1, <1>2, <1>3, <1>4, <1>5, <1>6, <1>7 DEF Next, Collect

LEMMA TypeStep == TypeOK /\ Pairing /\ [Next]_vars => TypeOK'
<1> SUFFICES ASSUME TypeOK, Pairing, [Next]_vars PROVE TypeOK'
  OBVIOUS
<1>1. Control' /\ Flags' /\ Data' /\ Scrape'
  BY TypeParts, ControlStep, FlagsStep, DataStep, ScrapeStep
<1> QED
  BY <1>1 DEF TypeOK, Control, Flags, Data, Scrape, Parts

LEMMA Initially == Init => IInv
<1> SUFFICES ASSUME Init PROVE IInv
  OBVIOUS
<1> USE DEF Init, NoStats, NoScrape, NoParts, Unread
<1>1. Control
  BY DEF Control, Places, Auth, Query, Requests
<1>2. Flags
  BY DEF Flags
<1>3. Data
  BY DEF Data, Parts, Answers, Queries
<1>4. Scrape
  BY DEF Scrape, Parts, Queries
<1>5. Fresh /\ Pairing /\ ResultIsPaired /\ SampleIsPaired /\ ScrapeIsWhole
  BY DEF Fresh, Pairing, ResultIsPaired, SampleIsPaired, ScrapeIsWhole, Connecting, Auth, Query
<1>6. Proof /\ Behind /\ Calm /\ ScrapeAgrees
  BY DEF Proof, Behind, Calm, ScrapeAgrees, Connected, Auth, Query
<1> QED
  BY <1>1, <1>2, <1>3, <1>4, <1>5, <1>6, TypeParts DEF IInv

LEMMA FreshStep == Fresh /\ [Next]_vars => Fresh'
<1> SUFFICES ASSUME Fresh, [Next]_vars PROVE Fresh'
  OBVIOUS
<1> USE DEF Fresh, Connecting, Auth, connection, exchange, published, Go
<1>1. CASE Handshake
  BY <1>1 DEF Handshake, DialConnects, DialFails, StartupAnswered, StartupFails
<1>2. CASE Deadline \/ AuthFails \/ QueryFails
  BY <1>2 DEF Deadline, AuthFails, QueryFails, Query
<1>3. CASE Sampling
  BY <1>3 DEF Sampling, Authenticate, ScramContinue, DeriveKey, ScramFinal, ReadAuth, ReadyForQuery, Ask,
              ReadRows, CommandComplete, ErrorResponse, AnswerEnds, Reads, Returns
<1>4. CASE Local \/ Collect \/ Heartbeat
  BY <1>4 DEF Local, Publish, Close, StoreNoStats, Terminate, Store, Wake,
              Collect, LoadSnapshot, RenderStats, Served, Heartbeat, Beat, BeatDone
<1>5. CASE UNCHANGED vars
  BY <1>5 DEF vars
<1> QED
  BY <1>1, <1>2, <1>3, <1>4, <1>5 DEF Next

LEMMA PairingStep ==
  TypeOK /\ Fresh /\ Pairing /\ ResultIsPaired /\ [Next]_vars => Pairing' /\ ResultIsPaired'
<1> SUFFICES ASSUME Control, Data, Fresh, Pairing, ResultIsPaired, [Next]_vars
             PROVE  Pairing' /\ ResultIsPaired'
  BY TypeParts
<1> USE DEF Pairing, ResultIsPaired, Query, Go, connection, exchange, published
<1>1. CASE Handshake
  BY <1>1 DEF Handshake, DialConnects, DialFails, StartupAnswered, StartupFails, NoStats
<1>2. CASE Deadline \/ AuthFails \/ QueryFails
  <2>1. UNCHANGED exchange /\ UNCHANGED result /\ (UNCHANGED at \/ at' \in {"store", "terminate"})
    BY <1>2 DEF Deadline, AuthFails, QueryFails
  <2> QED
    BY <2>1
<1>3. CASE Authenticate \/ ScramContinue \/ DeriveKey \/ ScramFinal \/ ReadAuth
  BY <1>3 DEF Authenticate, ScramContinue, DeriveKey, ScramFinal, ReadAuth
<1>4. CASE ReadyForQuery
  BY <1>4 DEF ReadyForQuery, Fresh, Connecting, Auth, Unread, NoStats, NoParts, Queries
<1>5. CASE Ask
  <2>1. /\ at = "ask" /\ at' = "answer" /\ asked' = asked + 1 /\ rows' = {}
        /\ UNCHANGED <<stream, result>>
    BY <1>5 DEF Ask
  <2>2. asked \in Int /\ stream = [query |-> asked + 1, part |-> "rows"]
    BY <2>1 DEF Control
  <2>3. asked' >= 1 /\ stream'.query = asked' /\ stream'.part = "rows"
    BY <2>1, <2>2 DEF Control
  <2>4. result'.parts = [q \in Queries |-> IF q < asked' THEN {q} ELSE {}]
    <3>1. \A q \in Queries : q <= asked <=> q < asked + 1
      BY <2>2 DEF Queries
    <3> QED
      BY <2>1, <3>1
  <2>5. ~result'.ok
    BY <2>1
  <2> QED
    BY <2>1, <2>3, <2>4, <2>5
<1>6. CASE ReadRows
  BY <1>6 DEF ReadRows, Reads, Data, Answers
<1>7. CASE CommandComplete
  BY <1>7 DEF CommandComplete, Reads, Data, Answers
<1>8. CASE ErrorResponse
  BY <1>8 DEF ErrorResponse, Reads, Data, Answers
<1>9. CASE AnswerEnds
  <2>1. /\ at = "answer" /\ stream.part = "ready" /\ asked \in 1 .. 4 /\ ~result.ok
        /\ stream' = [query |-> asked + 1, part |-> "rows"] /\ asked' = asked
        /\ result.parts = [q \in Queries |-> IF q < asked THEN {q} ELSE {}]
    BY <1>9 DEF AnswerEnds, Reads, Control
  <2>2. CASE at' = "terminate" /\ result' = result
    BY <2>1, <2>2
  <2>3. CASE /\ rows = {asked}
             /\ result' = [ok |-> asked = 4, parts |-> [result.parts EXCEPT ![asked] = rows]]
             /\ at' = IF asked = 4 THEN "terminate" ELSE "ask"
    <3>1. result'.ok = (asked = 4)
      BY <2>3, Zenon
    <3>2. result'.parts = [q \in Queries |-> IF q <= asked THEN {q} ELSE {}]
      <4>1. result'.parts = [result.parts EXCEPT ![asked] = {asked}]
        BY <2>3, Zenon
      <4>2. \A q \in 1 .. 4 : q <= asked <=> (q < asked \/ q = asked)
        BY <2>1
      <4> QED
        BY <2>1, <4>1, <4>2 DEF Queries
    <3>3. CASE asked = 4
      <4>1. result'.parts = Whole /\ at' = "terminate"
        BY <2>3, <3>2, <3>3 DEF Whole, Queries
      <4> QED
        BY <4>1
    <3>4. CASE asked # 4
      <4>1. ~result'.ok /\ at' = "ask"
        BY <2>3, <3>1, <3>4, Zenon
      <4> QED
        BY <2>1, <3>2, <3>4, <4>1
    <3> QED
      BY <3>3, <3>4
  <2> QED
    BY <1>9, <2>1, <2>2, <2>3 DEF AnswerEnds, Returns
<1>10. CASE Local
  BY <1>10 DEF Local, Publish, Close, StoreNoStats, Terminate, Store, Wake
<1>11. CASE Collect \/ Heartbeat
  <2>1. UNCHANGED <<at, exchange, result>>
    BY <1>11 DEF Collect, LoadSnapshot, RenderStats, Served, Heartbeat, Beat, BeatDone
  <2> QED
    BY <2>1
<1>12. CASE UNCHANGED vars
  BY <1>12 DEF vars
<1> QED
  BY <1>1, <1>2, <1>3, <1>4, <1>5, <1>6, <1>7, <1>8, <1>9, <1>10, <1>11, <1>12
     DEF Next, Sampling

LEMMA StatsStep ==
  /\ Scrape /\ ResultIsPaired /\ SampleIsPaired /\ ScrapeIsWhole /\ [Next]_vars
  => SampleIsPaired' /\ ScrapeIsWhole'
<1> SUFFICES ASSUME Scrape, ResultIsPaired, SampleIsPaired, ScrapeIsWhole, [Next]_vars
             PROVE  SampleIsPaired' /\ ScrapeIsWhole'
  OBVIOUS
<1> USE DEF ResultIsPaired, SampleIsPaired, ScrapeIsWhole, published
<1>1. CASE Handshake \/ Sampling \/ Deadline \/ AuthFails \/ QueryFails \/ Heartbeat
  BY <1>1 DEF Handshake, DialConnects, DialFails, StartupAnswered, StartupFails,
              Sampling, Authenticate, ScramContinue, DeriveKey, ScramFinal, ReadAuth, ReadyForQuery, Ask,
              ReadRows, CommandComplete, ErrorResponse, AnswerEnds, Reads,
              Deadline, AuthFails, QueryFails, Heartbeat, Beat, BeatDone
<1>2. CASE Publish \/ Close \/ Terminate \/ Wake
  BY <1>2 DEF Publish, Close, Terminate, Wake, Scrape
<1>3. CASE StoreNoStats
  BY <1>3 DEF StoreNoStats, NoStats
<1>4. CASE Store
  BY <1>4 DEF Store
<1>5. CASE LoadSnapshot \/ Served
  <2>1. CASE LoadSnapshot
    <3>1. UNCHANGED stats /\ scrape'.at = "stats"
      BY <2>1, Zenon DEF LoadSnapshot
    <3> QED
      BY <3>1
  <2>2. CASE Served
    BY <2>2 DEF Served, NoScrape
  <2> QED
    BY <1>5, <2>1, <2>2
<1>6. CASE RenderStats
  BY <1>6 DEF RenderStats, Scrape
<1>7. CASE UNCHANGED vars
  BY <1>7 DEF vars
<1> QED
  BY <1>1, <1>2, <1>3, <1>4, <1>5, <1>6, <1>7 DEF Next, Local, Collect

LEMMA ProofStep == Control /\ Proof /\ [Next]_vars => Proof'
<1> SUFFICES ASSUME Control, Proof, [Next]_vars PROVE Proof'
  OBVIOUS
<1> USE DEF Proof, Query, Go, connection
<1>1. CASE DialConnects
  BY <1>1 DEF DialConnects
<1>2. CASE DialFails \/ StartupAnswered \/ StartupFails
  BY <1>2 DEF DialFails, StartupAnswered, StartupFails
<1>3. CASE Deadline \/ AuthFails \/ QueryFails
  BY <1>3 DEF Deadline, AuthFails, QueryFails
<1>4. CASE Publish
  BY <1>4 DEF Publish
<1>5. CASE Authenticate \/ ScramContinue \/ DeriveKey \/ ScramFinal \/ ReadAuth \/ ReadyForQuery
  BY <1>5 DEF Authenticate, ScramContinue, DeriveKey, ScramFinal, ReadAuth, ReadyForQuery
<1>6. CASE Ask \/ ReadRows \/ CommandComplete \/ ErrorResponse \/ AnswerEnds
  BY <1>6 DEF Ask, ReadRows, CommandComplete, ErrorResponse, AnswerEnds, Reads, Returns
<1>7. CASE Close \/ StoreNoStats \/ Terminate \/ Store \/ Wake
  BY <1>7 DEF Close, StoreNoStats, Terminate, Store, Wake
<1>8. CASE Collect \/ Heartbeat
  BY <1>8 DEF Collect, LoadSnapshot, RenderStats, Served, Heartbeat, Beat, BeatDone
<1>9. CASE UNCHANGED vars
  BY <1>9 DEF vars
<1> QED
  BY <1>1, <1>2, <1>3, <1>4, <1>5, <1>6, <1>7, <1>8, <1>9 DEF Next, Handshake, Sampling, Local

(* The heartbeat's snapshot leaves a trace when it hides a passed check.    *)
LEMMA BeatRecords ==
  ASSUME Heartbeat
  PROVE  /\ UNCHANGED <<password, at, stats, scrape>>
         /\ snapOk \/ beaten => snapOk' \/ beaten'
         /\ beaten => beaten'
<1>1. CASE Beat
  <2>1. UNCHANGED <<password, at, stats, scrape>> /\ beaten' = (beaten \/ snapOk)
    BY <1>1 DEF Beat
  <2> QED
    BY <2>1, Zenon
<1>2. CASE BeatDone
  BY <1>2 DEF BeatDone, published
<1> QED
  BY <1>1, <1>2 DEF Heartbeat

LEMMA BehindStep == Flags /\ Behind /\ [Next]_vars => Behind'
<1> SUFFICES ASSUME Flags, Behind, [Next]_vars PROVE Behind'
  OBVIOUS
<1> USE DEF Behind, Connected, Auth, Query, Go, heartbeat, published
<1>1. CASE Handshake
  BY <1>1 DEF Handshake, DialConnects, DialFails, StartupAnswered, StartupFails
<1>2. CASE Deadline \/ AuthFails \/ QueryFails
  BY <1>2 DEF Deadline, AuthFails, QueryFails
<1>3. CASE Sampling
  BY <1>3 DEF Sampling, Authenticate, ScramContinue, DeriveKey, ScramFinal, ReadAuth, ReadyForQuery, Ask,
              ReadRows, CommandComplete, ErrorResponse, AnswerEnds, Reads, Returns
<1>4. CASE Publish \/ Close \/ Terminate \/ Store \/ Wake
  BY <1>4 DEF Publish, Close, Terminate, Store, Wake
<1>5. CASE StoreNoStats
  BY <1>5 DEF StoreNoStats, NoStats
<1>6. CASE Collect
  BY <1>6 DEF Collect, LoadSnapshot, RenderStats, Served
<1>7. CASE Heartbeat
  BY <1>7, BeatRecords
<1>8. CASE UNCHANGED vars
  BY <1>8 DEF vars
<1> QED
  BY <1>1, <1>2, <1>3, <1>4, <1>5, <1>6, <1>7, <1>8 DEF Next, Local

LEMMA CalmStep ==
  /\ Flags /\ Data /\ Scrape /\ Behind /\ Calm /\ ScrapeAgrees /\ [Next]_vars
  => Calm' /\ ScrapeAgrees'
<1> SUFFICES ASSUME Flags, Data, Scrape, Behind, Calm, ScrapeAgrees, [Next]_vars
             PROVE  Calm' /\ ScrapeAgrees'
  OBVIOUS
<1> USE DEF Calm, ScrapeAgrees, Auth, Query, Go, heartbeat, published
<1>1. CASE Handshake \/ AuthFails \/ QueryFails
  BY <1>1 DEF Handshake, DialConnects, DialFails, StartupAnswered, StartupFails, AuthFails,
              QueryFails
<1>2. CASE Sampling \/ Deadline
  BY <1>2 DEF Deadline, Sampling, Authenticate, ScramContinue, DeriveKey, ScramFinal, ReadAuth,
              ReadyForQuery, Ask, ReadRows, CommandComplete, ErrorResponse, AnswerEnds, Reads
<1>3. CASE Publish \/ Close \/ StoreNoStats \/ Terminate \/ Store
  BY <1>3 DEF Publish, Close, StoreNoStats, Terminate, Store
<1>4. CASE Wake
  BY <1>4 DEF Wake, Scrape
<1>5. CASE LoadSnapshot
  BY <1>5 DEF LoadSnapshot, NoScrape
<1>6. CASE RenderStats
  BY <1>6 DEF RenderStats, Behind, Scrape, Data
<1>7. CASE Served
  BY <1>7 DEF Served, NoScrape
<1>8. CASE Heartbeat
  <2>1. snapOk' => snapOk
    BY <1>8 DEF Heartbeat, Beat, BeatDone, published
  <2> QED
    BY <1>8, <2>1, BeatRecords
<1>9. CASE UNCHANGED vars
  BY <1>9 DEF vars
<1> QED
  BY <1>1, <1>2, <1>3, <1>4, <1>5, <1>6, <1>7, <1>8, <1>9 DEF Next, Local, Collect

LEMMA Inductive == Spec => []IInv
<1>1. IInv /\ [Next]_vars => IInv'
  <2> SUFFICES ASSUME IInv, [Next]_vars PROVE IInv'
    OBVIOUS
  <2>1. Control /\ Flags /\ Data /\ Scrape
    BY TypeParts DEF IInv
  <2>2. TypeOK'
    BY TypeStep DEF IInv
  <2>3. Fresh' /\ Pairing' /\ ResultIsPaired'
    BY FreshStep, PairingStep DEF IInv
  <2>4. SampleIsPaired' /\ ScrapeIsWhole'
    BY <2>1, StatsStep DEF IInv
  <2>5. Proof' /\ Behind' /\ Calm' /\ ScrapeAgrees'
    BY <2>1, ProofStep, BehindStep, CalmStep DEF IInv
  <2> QED
    BY <2>2, <2>3, <2>4, <2>5 DEF IInv
<1> QED
  BY <1>1, Initially, PTL DEF Spec

(* Every value stays within its type; above all, the checker never sends a *)
(* fifth query on a connection.                                            *)
THEOREM TypeCorrect == Spec => []TypeOK
<1>1. IInv => TypeOK
  BY DEF IInv
<1> QED
  BY <1>1, Inductive, PTL

(* Statistics that count as sampled hold, part by part, the rows of their  *)
(* own query, wherever a peer that follows the simple-query protocol errs, *)
(* falls silent or breaks it detectably.                                   *)
THEOREM Paired == Spec => []SampleIsPaired
<1>1. IInv => SampleIsPaired
  BY DEF IInv
<1> QED
  BY <1>1, Inductive, PTL

(* No scrape mixes the families of a sampling that failed half way.        *)
THEOREM WholeOrNone == Spec => []ScrapeIsWhole
<1>1. IInv => ScrapeIsWhole
  BY DEF IInv
<1> QED
  BY <1>1, Inductive, PTL

(* Between cycles only a heartbeat that outlived the initialization makes  *)
(* pg_stats_up contradict pg_up.                                           *)
THEOREM Agreement == Spec => []ScrapeAgrees
<1>1. IInv => ScrapeAgrees
  BY DEF IInv
<1> QED
  BY <1>1, Inductive, PTL

(* No query goes to a peer that began SCRAM and did not prove itself.      *)
THEOREM Mutual == Spec => []ScramIsMutual
<1>1. IInv => ScramIsMutual
  BY DEF IInv, TypeOK, Proof, Query, ScramIsMutual
<1> QED
  BY <1>1, Inductive, PTL
-----------------------------------------------------------------------------
(* The socket.                                                             *)

(* The checker holds a connection only while it uses it.                   *)
Holding == {"startup", "publish", "close", "terminate"} \cup Auth \cup Query

(* Wherever a connection leaves off, its socket is closed with it: whenever *)
(* the loop stores, sleeps or dials again, it holds none, and a second one *)
(* is never opened beside the first.                                       *)
THEOREM SocketIsClosed == Spec => [](at \notin Holding => ~socket)
<1>1. Init => (at \notin Holding => ~socket)
  BY DEF Init
<1>2. (at \notin Holding => ~socket) /\ [Next]_vars => (at \notin Holding => ~socket)'
  <2> SUFFICES ASSUME at \notin Holding => ~socket, [Next]_vars
               PROVE  (at \notin Holding => ~socket)'
    OBVIOUS
  <2> USE DEF Holding, Auth, Query, Go, connection
  <2>1. CASE Handshake \/ Deadline \/ AuthFails \/ QueryFails
    BY <2>1 DEF Handshake, DialConnects, DialFails, StartupAnswered, StartupFails, Deadline,
                AuthFails, QueryFails
  <2>2. CASE Sampling
    BY <2>2 DEF Sampling, Authenticate, ScramContinue, DeriveKey, ScramFinal, ReadAuth, ReadyForQuery, Ask,
                ReadRows, CommandComplete, ErrorResponse, AnswerEnds, Reads, Returns
  <2>3. CASE Local \/ Collect \/ Heartbeat
    BY <2>3 DEF Local, Publish, Close, StoreNoStats, Terminate, Store, Wake, Collect, LoadSnapshot,
                RenderStats, Served, Heartbeat, Beat, BeatDone
  <2>4. CASE UNCHANGED vars
    BY <2>4 DEF vars
  <2> QED
    BY <2>1, <2>2, <2>3, <2>4 DEF Next
<1> QED
  BY <1>1, <1>2, PTL DEF Spec

-----------------------------------------------------------------------------
(* The refinement of CheckCycle.                                           *)

(* Reading the answers, waiting for them and the scrape are invisible.     *)
LEMMA CycleStutters ==
  ASSUME IInv,
         \/ UNCHANGED vars \/ Deadline \/ Sampling \/ AuthFails \/ QueryFails \/ Collect
         \/ DialConnects \/ StartupAnswered \/ Close \/ Terminate \/ BeatDone
  PROVE  UNCHANGED Cycle!vars
<1> USE DEF Auth, Query, Go, heartbeat, published
<1>1. UNCHANGED <<password, snapOk, stats, beaten>>
  BY DEF vars, Deadline, Sampling, Authenticate, ScramContinue, DeriveKey, ScramFinal, ReadAuth, ReadyForQuery,
         Ask, ReadRows, CommandComplete, ErrorResponse, AnswerEnds, AuthFails, QueryFails, Collect,
         LoadSnapshot, RenderStats, Served, DialConnects, StartupAnswered, Close, Terminate, BeatDone
<1>2. \/ at' = at
      \/ {at, at'} \subseteq Auth \cup Query \cup {"terminate", "store"}
      \/ {at, at'} \subseteq {"dial", "startup", "publish"}
      \/ at = "close" /\ at' = "sleep"
  <2>1. CASE Sampling
    BY <2>1 DEF Sampling, Authenticate, ScramContinue, DeriveKey, ScramFinal, ReadAuth, ReadyForQuery, Ask,
                ReadRows, CommandComplete, ErrorResponse, AnswerEnds, Reads, Returns
  <2>2. CASE UNCHANGED vars \/ Deadline \/ Collect \/ BeatDone
    BY <2>2 DEF vars, Deadline, Collect, LoadSnapshot, RenderStats, Served, BeatDone
  <2>3. CASE AuthFails \/ QueryFails \/ DialConnects \/ StartupAnswered \/ Close \/ Terminate
    BY <2>3 DEF AuthFails, QueryFails, DialConnects, StartupAnswered, Close, Terminate
  <2> QED
    BY <2>1, <2>2, <2>3
<1>3. CyclePhase' = CyclePhase
  <2>1. at = "close" => ~password
    BY DEF IInv, Behind
  <2> QED
    BY <1>1, <1>2, <2>1 DEF CyclePhase
<1> QED
  BY <1>1, <1>3 DEF Cycle!vars

(* The steps of the cycle itself.                                          *)
LEMMA CycleMoves ==
  ASSUME IInv, DialFails \/ StartupFails \/ Publish \/ StoreNoStats \/ Store \/ Wake \/ Beat
  PROVE  [Cycle!Next]_(Cycle!vars)
<1> USE DEF Go, heartbeat, published, Cycle!Next
<1>0. password \in BOOLEAN
  BY DEF IInv, TypeOK
<1>1. CASE DialFails \/ StartupFails
  <2>1. at \in {"dial", "startup"} /\ at' = "noStats" /\ snapOk' = FALSE /\ UNCHANGED <<password, stats, beaten>>
    BY <1>1 DEF DialFails, StartupFails
  <2>2. CyclePhase = "checking" /\ CyclePhase' = IF password THEN "invalidating" ELSE "idle"
    BY <1>0, <2>1 DEF CyclePhase
  <2>3. Cycle!Fail
    BY <2>1, <2>2 DEF Cycle!Fail
  <2> QED
    BY <2>3
<1>2. CASE Publish
  <2>1. /\ at = "publish" /\ at' = IF password THEN "auth" ELSE "close"
        /\ snapOk' = TRUE /\ UNCHANGED <<password, stats, beaten>>
    BY <1>2 DEF Publish
  <2>2. CyclePhase = "checking" /\ CyclePhase' = IF password THEN "sampling" ELSE "idle"
    BY <1>0, <2>1 DEF CyclePhase
  <2>3. Cycle!Pass
    BY <2>1, <2>2 DEF Cycle!Pass
  <2> QED
    BY <2>3
<1>3. CASE StoreNoStats
  <2>1. /\ at = "noStats" /\ at' = "sleep" /\ UNCHANGED <<password, snapOk, beaten>>
        /\ stats' = IF password THEN NoStats ELSE stats
    BY <1>3 DEF StoreNoStats
  <2>2. CASE password
    <3>1. stats'.ok = FALSE
      BY <2>1, <2>2 DEF NoStats
    <3>2. Cycle!Invalidate
      BY <2>1, <2>2, <3>1 DEF Cycle!Invalidate, CyclePhase
    <3> QED
      BY <3>2
  <2>3. CASE ~password
    BY <2>1, <2>3 DEF Cycle!vars, CyclePhase
  <2> QED
    BY <2>2, <2>3
<1>4. CASE Store
  <2>1. at = "store" /\ at' = "sleep" /\ stats' = result /\ UNCHANGED <<password, snapOk, beaten>>
    BY <1>4 DEF Store
  <2>2. password /\ result.ok \in BOOLEAN
    BY <2>1 DEF IInv, TypeOK, Behind
  <2>3. stats'.ok \in BOOLEAN
    BY <2>1, <2>2
  <2>4. CyclePhase = "sampling" /\ CyclePhase' = "idle"
    BY <2>1, <2>2 DEF CyclePhase
  <2>5. Cycle!Sample
    BY <2>1, <2>3, <2>4 DEF Cycle!Sample
  <2> QED
    BY <2>5
<1>5. CASE Wake
  <2>1. at = "sleep" /\ at' = "dial" /\ UNCHANGED <<password, snapOk, stats, beaten>>
    BY <1>5 DEF Wake
  <2>2. Cycle!Check
    BY <2>1 DEF Cycle!Check, CyclePhase
  <2> QED
    BY <2>2
<1>6. CASE Beat
  <2>1. UNCHANGED <<password, at, stats>> /\ snapOk' = FALSE /\ beaten' = (beaten \/ snapOk)
    BY <1>6 DEF Beat
  <2>2. CyclePhase' = CyclePhase
    BY <2>1 DEF CyclePhase
  <2>3. CASE snapOk
    <3>1. beaten' = TRUE
      BY <2>1, <2>3, Zenon
    <3>2. Cycle!Beat
      BY <2>1, <2>2, <3>1 DEF Cycle!Beat
    <3> QED
      BY <3>2
  <2>4. CASE ~snapOk
    <3>1. beaten' = beaten /\ snapOk' = snapOk
      BY <2>1, <2>4 DEF IInv, TypeOK
    <3> QED
      BY <2>1, <2>2, <3>1 DEF Cycle!vars
  <2> QED
    BY <2>3, <2>4
<1> QED
  BY <1>1, <1>2, <1>3, <1>4, <1>5, <1>6

(* Wherever the peer leaves off, the connection implements the cycle of    *)
(* CheckCycle, with the heartbeat's late snapshot as its Beat.             *)
THEOREM RefinesCycle == Spec => ImplementsCycle
<1>1. Init => Cycle!Init
  BY DEF Init, Cycle!Init, CyclePhase, NoStats
<1>2. IInv /\ [Next]_vars => [Cycle!Next]_(Cycle!vars)
  <2> SUFFICES ASSUME IInv, [Next]_vars PROVE [Cycle!Next]_(Cycle!vars)
    OBVIOUS
  <2> QED
    BY CycleStutters, CycleMoves DEF Next, Handshake, Local, Heartbeat
<1> QED
  BY Inductive, <1>1, <1>2, PTL DEF Spec, ImplementsCycle, Cycle!Spec

=============================================================================
