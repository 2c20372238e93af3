------------------------------- MODULE PgWire -------------------------------
(***************************************************************************)
(* One connection per cycle of the database supervisor's checker: dial,    *)
(* startup message, authentication, four simple queries, and the scrape    *)
(* that serves what they returned.                                         *)
(*                                                                         *)
(* TCP delivers in order, so the messages of the server are not queued     *)
(* here: stream says which answer, and which part of it, a read returns    *)
(* next.  During authentication the peer may send anything; afterwards it  *)
(* follows the simple-query protocol, or breaks it in a way the client     *)
(* detects and gives up at: an answer with well-formed rows of another     *)
(* query is out of scope.  SQL text, columns and numbers are left out.     *)
(*                                                                         *)
(* The heartbeat of a first initialization may outlive it and store its    *)
(* snapshot over those of the cycles.                                      *)
(***************************************************************************)
EXTENDS Integers

\* pg_stat_database, pg_stat_activity, pg_locks, max_connections.
Queries == 1 .. 4

\* Requests of the peer: AuthenticationOk, passwords, SASL, anything else.
Requests == {"ok", "cleartext", "md5", "sasl", "other"}

VARIABLES
  password,   \* the supervisor has a password
  at,         \* where checkerLoop is
  socket,     \* the connection is open
  expired,    \* the deadline of the connection has passed
  request,    \* authCode: the pending authentication request
  scram,      \* the SCRAM exchange of this connection
  knows,      \* the peer can prove that it knows the password
  asked,      \* queries sent on this connection
  stream,     \* what a read returns next: [query, part] of an answer
  rows,       \* the queries whose rows this call of query() has read
  queryErr,   \* this call has read an ErrorResponse
  result,     \* the sampling under way: for each query, the rows it was given
  beating,    \* the heartbeat's goroutine has not yet seen that it is done
  beaten,     \* history: it has stored its snapshot over a passed check
  snapOk,     \* pg_up: the check of the published snapshot passed
  stats,      \* st.stats: [ok, parts]
  scrape      \* one Collect: what it has loaded, and whether the checker slept

connection == <<socket, expired, request, scram, knows>>
exchange   == <<asked, stream, rows, queryErr>>
heartbeat  == <<beating, beaten>>
published  == <<snapOk, stats, scrape>>
vars == <<password, at, connection, exchange, result, heartbeat, published>>

NoParts == [q \in Queries |-> {}]
Whole   == [q \in Queries |-> {q}]
Answers == [query : 1 .. 5, part : {"rows", "end", "ready"}]

Auth  == {"auth", "continue", "pbkdf2", "final", "readAuth", "awaitReady"}
Query == {"ask", "answer"}
Places == Auth \cup Query \cup {"sleep", "dial", "startup", "publish", "close", "terminate",
                                "store", "noStats"}

TypeOK ==
  /\ password \in BOOLEAN
  /\ at \in Places
  /\ socket \in BOOLEAN /\ expired \in BOOLEAN /\ knows \in BOOLEAN
  /\ request \in Requests
  /\ scram \in {"none", "begun", "proven"}
  /\ asked \in 0 .. 4
  /\ stream \in Answers
  /\ rows \in SUBSET Queries
  /\ queryErr \in BOOLEAN
  /\ result \in [ok : BOOLEAN, parts : [Queries -> SUBSET Queries]]
  /\ beating \in BOOLEAN /\ beaten \in BOOLEAN
  /\ snapOk \in BOOLEAN
  /\ stats \in [ok : BOOLEAN, parts : [Queries -> SUBSET Queries]]
  /\ scrape \in [at : {"idle", "stats", "served"}, up : BOOLEAN, ok : BOOLEAN,
                 parts : [Queries -> SUBSET Queries], calm : BOOLEAN]

NoStats  == [ok |-> FALSE, parts |-> NoParts]
NoScrape == [at |-> "idle", up |-> FALSE, ok |-> FALSE, parts |-> NoParts, calm |-> FALSE]
Unread   == [query |-> 1, part |-> "rows"]

Init ==
  /\ password \in BOOLEAN
  /\ at = "dial"
  /\ socket = FALSE /\ expired = FALSE /\ request = "ok" /\ scram = "none" /\ knows = FALSE
  /\ asked = 0 /\ stream = Unread /\ rows = {} /\ queryErr = FALSE
  /\ result = NoStats
  /\ beating \in BOOLEAN /\ beaten = FALSE
  /\ snapOk = FALSE /\ stats = NoStats /\ scrape = NoScrape

Go(from, to) == at = from /\ at' = to

\* A read or a write that succeeds.
InTime == socket /\ ~expired

-----------------------------------------------------------------------------
(* The handshake of pgDial, which is the health check.                     *)

DialConnects ==
  /\ Go("dial", "startup")
  /\ socket' = TRUE /\ expired' = FALSE
  /\ knows' \in BOOLEAN /\ scram' = "none"
  /\ asked' = 0 /\ stream' = Unread /\ rows' = {} /\ queryErr' = FALSE
  /\ result' = NoStats
  /\ UNCHANGED <<password, request, heartbeat, published>>

DialFails ==
  /\ Go("dial", "noStats")
  /\ snapOk' = FALSE
  /\ UNCHANGED <<password, connection, exchange, result, heartbeat, stats, scrape>>

\* Variant: the deadline that is set when the connection stands is missing.
NoDeadline ==
  /\ FALSE
  /\ UNCHANGED vars

\* The deadline of the connection, at any moment of its use.
Deadline ==
  /\ InTime
  /\ expired' = TRUE
  /\ UNCHANGED <<password, at, socket, request, scram, knows, exchange, result, heartbeat,
                published>>

\* An authentication request: the postmaster accepts connections.
StartupAnswered ==
  /\ Go("startup", "publish") /\ InTime
  /\ request' \in Requests
  /\ UNCHANGED <<password, socket, expired, scram, knows, exchange, result, heartbeat,
                published>>

\* Variant: a check that fails after the dial publishes nothing.
StartupFailsQuietly ==
  /\ Go("startup", "noStats")
  /\ socket' = FALSE
  /\ UNCHANGED <<password, expired, request, scram, knows, exchange, result, heartbeat,
                 published>>

\* An ErrorResponse, another message, a closed connection, or the deadline.
StartupFails ==
  /\ Go("startup", "noStats")
  /\ socket' = FALSE /\ snapOk' = FALSE
  /\ UNCHANGED <<password, expired, request, scram, knows, exchange, result, heartbeat, stats,
                scrape>>

\* The snapshot with the passed check is stored before anything is sampled.
Publish ==
  /\ at = "publish"
  /\ at' = IF password THEN "auth" ELSE "close"
  /\ snapOk' = TRUE
  /\ UNCHANGED <<password, connection, exchange, result, heartbeat, stats, scrape>>

Close ==
  /\ Go("close", "sleep")
  /\ socket' = FALSE
  /\ UNCHANGED <<password, expired, request, scram, knows, exchange, result, heartbeat,
                published>>

\* Variant: the statistics survive the connection that could not be made.
NoStatsKept ==
  /\ Go("noStats", "sleep")
  /\ UNCHANGED <<password, connection, exchange, result, heartbeat, published>>

\* No connection: the statistics become invalid, if there were any to have.
StoreNoStats ==
  /\ Go("noStats", "sleep")
  /\ stats' = IF password THEN NoStats ELSE stats
  /\ UNCHANGED <<password, connection, exchange, result, heartbeat, snapOk, scrape>>

-----------------------------------------------------------------------------
(* The heartbeat that has not yet taken done: its ticker may come first.   *)

Beat ==
  /\ beating
  /\ snapOk' = FALSE /\ beaten' = (beaten \/ snapOk)
  /\ UNCHANGED <<password, at, connection, exchange, result, beating, stats, scrape>>

BeatDone ==
  /\ beating /\ beating' = FALSE
  /\ UNCHANGED <<password, at, connection, exchange, result, beaten, published>>

-----------------------------------------------------------------------------
(* authenticate, scramSHA256, awaitReady.                                  *)

\* Answers a request with a password, or begins SCRAM if it is offered.
Authenticate ==
  /\ at = "auth" /\ InTime
  /\ \/ request = "ok" /\ at' = "awaitReady" /\ scram' = scram
     \/ request \in {"cleartext", "md5"} /\ at' = "readAuth" /\ scram' = scram
     \/ request = "sasl" /\ at' = "continue" /\ scram' = "begun"
  /\ UNCHANGED <<password, socket, expired, request, knows, exchange, result, heartbeat,
                published>>

\* SASL continue with a nonce that extends ours, a salt and a count of iterations.
ScramContinue ==
  /\ Go("continue", "pbkdf2") /\ InTime
  /\ UNCHANGED <<password, connection, exchange, result, heartbeat, published>>

\* pbkdf2.Key over as many iterations as the peer asked for, which has no bound and
\* which no deadline interrupts; then the proof goes out, if it is in time.
DeriveKey ==
  /\ Go("pbkdf2", "final") /\ InTime
  /\ UNCHANGED <<password, connection, exchange, result, heartbeat, published>>

\* Variant: the signature of the server is not compared.
ScramFinalUnchecked ==
  /\ Go("final", "readAuth") /\ InTime
  /\ scram' = "proven"
  /\ UNCHANGED <<password, socket, expired, request, knows, exchange, result, heartbeat,
                published>>

\* SASL final with the signature only a server with the password can compute.
ScramFinal ==
  /\ Go("final", "readAuth") /\ InTime /\ knows
  /\ scram' = "proven"
  /\ UNCHANGED <<password, socket, expired, request, knows, exchange, result, heartbeat,
                published>>

ReadAuth ==
  /\ Go("readAuth", "auth") /\ InTime
  /\ request' \in Requests
  /\ UNCHANGED <<password, socket, expired, scram, knows, exchange, result, heartbeat,
                published>>

\* ReadyForQuery, after parameters and notices.
ReadyForQuery ==
  /\ Go("awaitReady", "ask") /\ InTime
  /\ UNCHANGED <<password, connection, exchange, result, heartbeat, published>>

\* An error of the peer, a message out of place, an unsupported method, a SCRAM
\* field that does not verify, or the deadline: a plain close.
AuthFails ==
  /\ at \in Auth /\ at' = "store"
  /\ socket' = FALSE
  /\ UNCHANGED <<password, expired, request, scram, knows, exchange, result, heartbeat,
                published>>

-----------------------------------------------------------------------------
(* query and its four calls in samplePgStats.                              *)

Ask ==
  /\ Go("ask", "answer") /\ InTime
  /\ asked' = asked + 1
  /\ rows' = {} /\ queryErr' = FALSE
  /\ UNCHANGED <<password, connection, stream, result, heartbeat, published>>

\* A read within the answers to what has been asked.
Reads(part) ==
  /\ at = "answer" /\ InTime
  /\ stream.part = part /\ stream.query <= asked

ReadRows ==
  /\ Reads("rows")
  /\ rows' = rows \cup {stream.query}
  /\ stream' = [stream EXCEPT !.part = "end"]
  /\ UNCHANGED <<password, at, connection, asked, queryErr, result, heartbeat, published>>

\* Variant: one call too many.
ReturnsLate(part) ==
  \/ /\ result' = [ok |-> asked = 4, parts |-> [result.parts EXCEPT ![asked] = part]]
     /\ at' = IF asked > 4 THEN "terminate" ELSE "ask"
  \/ /\ result' = result
     /\ at' = "terminate"

\* query() returned: its rows fill a part of the result, or have the wrong shape.
Returns(part) ==
  \/ /\ result' = [ok |-> asked = 4, parts |-> [result.parts EXCEPT ![asked] = part]]
     /\ at' = IF asked = 4 THEN "terminate" ELSE "ask"
  \/ /\ result' = result
     /\ at' = "terminate"

\* Variant: the call returns with the command instead of ReadyForQuery.
CompleteReturns ==
  /\ Reads("end")
  /\ stream' = [stream EXCEPT !.part = "ready"]
  /\ Returns(rows)
  /\ UNCHANGED <<password, connection, asked, rows, queryErr, heartbeat, published>>

CommandComplete ==
  /\ Reads("end")
  /\ stream' = [stream EXCEPT !.part = "ready"]
  /\ UNCHANGED <<password, at, connection, asked, rows, queryErr, result, heartbeat, published>>

\* The error is kept, and the answer read to its end.
ErrorResponse ==
  /\ Reads("rows") \/ Reads("end")
  /\ queryErr' = TRUE
  /\ stream' = [stream EXCEPT !.part = "ready"]
  /\ UNCHANGED <<password, at, connection, asked, rows, result, heartbeat, published>>

AnswerEnds ==
  /\ Reads("ready")
  /\ stream' = [query |-> stream.query + 1, part |-> "rows"]
  /\ IF queryErr THEN at' = "terminate" /\ result' = result ELSE Returns(rows)
  /\ UNCHANGED <<password, connection, asked, rows, queryErr, heartbeat, published>>

\* A malformed row, an unexpected message, a lost connection, or the deadline.
QueryFails ==
  /\ at \in Query /\ at' = "terminate"
  /\ UNCHANGED <<password, connection, exchange, result, heartbeat, published>>

Terminate ==
  /\ Go("terminate", "store")
  /\ socket' = FALSE
  /\ UNCHANGED <<password, expired, request, scram, knows, exchange, result, heartbeat,
                published>>

Store ==
  /\ Go("store", "sleep")
  /\ stats' = result
  /\ UNCHANGED <<password, connection, exchange, result, heartbeat, snapOk, scrape>>

Wake ==
  /\ Go("sleep", "dial")
  /\ scrape' = [scrape EXCEPT !.calm = FALSE]
  /\ UNCHANGED <<password, connection, exchange, result, heartbeat, snapOk, stats>>

-----------------------------------------------------------------------------
(* The collector of the database families.                                 *)

LoadSnapshot ==
  /\ scrape.at = "idle"
  /\ scrape' = [at |-> "stats", up |-> snapOk, ok |-> FALSE, parts |-> NoParts,
                calm |-> at = "sleep"]
  /\ UNCHANGED <<password, at, connection, exchange, result, heartbeat, snapOk, stats>>

\* Variant: the families are rendered from a failed sampling, too.
RenderAlways ==
  /\ scrape.at = "stats"
  /\ scrape' = [scrape EXCEPT !.at = "served", !.ok = stats.ok, !.parts = stats.parts]
  /\ UNCHANGED <<password, at, connection, exchange, result, heartbeat, snapOk, stats>>

\* The statistics are loaded once, and their families rendered only if they are valid.
RenderStats ==
  /\ scrape.at = "stats"
  /\ scrape' = [scrape EXCEPT !.at = "served", !.ok = stats.ok,
                              !.parts = IF stats.ok THEN stats.parts ELSE NoParts]
  /\ UNCHANGED <<password, at, connection, exchange, result, heartbeat, snapOk, stats>>

Served ==
  /\ scrape.at = "served"
  /\ scrape' = NoScrape
  /\ UNCHANGED <<password, at, connection, exchange, result, heartbeat, snapOk, stats>>

Handshake == DialConnects \/ DialFails \/ StartupAnswered \/ StartupFails
Sampling  == Authenticate \/ ScramContinue \/ DeriveKey \/ ScramFinal \/ ReadAuth \/ ReadyForQuery
             \/ Ask \/ ReadRows \/ CommandComplete \/ ErrorResponse \/ AnswerEnds
Fails     == StartupFails \/ AuthFails \/ QueryFails
Local     == Publish \/ Close \/ StoreNoStats \/ Terminate \/ Store \/ Wake
Heartbeat == Beat \/ BeatDone
Collect   == LoadSnapshot \/ RenderStats \/ Served

Next == Handshake \/ Deadline \/ Sampling \/ AuthFails \/ QueryFails \/ Local \/ Heartbeat
        \/ Collect

(* The dialer has a timeout of its own; after the deadline every read and  *)
(* write fails, and nothing else waits for the peer.  How long pbkdf2      *)
(* computes is the peer's choice: nothing is assumed of it.                *)
Fairness ==
  /\ WF_vars(DialConnects \/ DialFails)
  /\ WF_vars(Deadline)
  /\ WF_vars(expired /\ at # "pbkdf2" /\ Fails)
  /\ WF_vars(Local)

Spec == Init /\ [][Next]_vars /\ Fairness

-----------------------------------------------------------------------------
(* Properties.                                                             *)

(* A sampling counts as successful only if every part of it holds the rows *)
(* of its own query, all read, for a peer that keeps to the simple-query   *)
(* protocol or breaks it detectably: no early return of query() leaves     *)
(* messages on the connection that the next call takes for its answer.     *)
SampleIsPaired == stats.ok => stats.parts = Whole

(* A scrape shows all database families of one successful sampling or none *)
(* of them, although a failed sampling keeps the parts it had read.        *)
ScrapeIsWhole == scrape.at = "served" => scrape.parts \in {NoParts, Whole}

(* pg_stats_up beside a failed check (pg_up 0) is seen only by a scrape    *)
(* that overlaps a cycle, or once the heartbeat of the initialization has  *)
(* stored its snapshot over a passed check: otherwise the two agree        *)
(* between cycles.                                                         *)
ScrapeAgrees ==
  scrape.at = "served" /\ scrape.calm /\ scrape.ok => scrape.up \/ beaten

(* Queries go to a peer that began SCRAM only after it proved that it      *)
(* knows the password, whatever else it sent in between.                   *)
ScramIsMutual == at \in Query /\ scram # "none" => scram = "proven" /\ knows

(* Every connection is closed again, with and without a password, by every *)
(* failure and by a peer that keeps asking or falls silent: none is left   *)
(* to use up max_connections.  The one step that can hold it for good is   *)
(* the derivation of the SCRAM key.                                        *)
ConnectionEnds == socket ~> (~socket \/ [](at = "pbkdf2"))

CyclePhase ==
  CASE at \in {"dial", "startup", "publish"} -> "checking"
    [] at \in {"sleep", "close"} \/ (at = "noStats" /\ ~password) -> "idle"
    [] at = "noStats" /\ password -> "invalidating"
    [] OTHER -> "sampling"

Cycle == INSTANCE CheckCycle WITH
  sampled <- password,
  phase   <- CyclePhase,
  up      <- snapOk,
  valid   <- stats.ok,
  beaten  <- beaten

(* Wherever the peer leaves off, the connection gives the cycle that       *)
(* HealthCache times: one published check, then the sampling behind it or  *)
(* the end of the statistics.                                              *)
ImplementsCycle == Cycle!Spec

=============================================================================
