---------------------------- MODULE EdgeRequests ----------------------------
(***************************************************************************)
(* The requests of the Go edge server: which handler a path reaches, what  *)
(* the handler answers, the call it makes to the backend, and the gauges   *)
(* and the histogram that account for both.                                *)
(*                                                                         *)
(* A path is the sequence of its segments and a form: "clean", "slash"     *)
(* (with a trailing slash) or "unclean" (empty or dot segments), for which *)
(* the mux redirects.  Headers, bodies and byte counts are left out, and   *)
(* the labels method and peer; uri and status are kept.                    *)
(***************************************************************************)
EXTENDS Integers, FiniteSets, SequencesExt

CONSTANTS
  Conns,            \* connections of the main listener
  Inputs,           \* for each connection, the requests it may carry
  BackendStatuses,  \* statuses the backend answers with
  Files,            \* paths of the files of the exported bundle
  Html,             \* for a path, that of the file with .html appended
  Uuids             \* segments that are UUIDs

\* The backend speaks HTTP; a redirect of its own would be followed by the client.
ASSUME StatusAssumption == BackendStatuses \subseteq 200 .. 599
ASSUME ConnsAssumption == IsFiniteSet(Conns)

Forms == {"clean", "slash", "unclean"}
Requests == [method : STRING, path : Seq(STRING), form : Forms, cookie : BOOLEAN]
InputsOK == Inputs \in [Conns -> SUBSET Requests]
ASSUME InputsAssumption == InputsOK

VARIABLES
  urlOk,        \* API_URL parses (loadConfig checks its prefix only)
  at,           \* where the goroutine of a connection is
  req,          \* the request a connection carries, and its responseRecorder
  active,       \* http_server_requests_active, by uri
  clientActive, \* http_client_requests_active, by uri of the backend
  bodies,       \* response bodies of the backend that are not closed
  connections   \* http_server_connections_active{main}

gauges  == <<active, clientActive, bodies, connections>>
reqVars == <<urlOk, at, req, gauges>>

-----------------------------------------------------------------------------
(* Routes.                                                                 *)

Endpoints == {"login", "logout", "me", "signup", "modules"}

NamedRoutes == {<<>>, <<"login">>, <<"signup">>, <<"dashboard">>}
               \cup {<<"api", e>> : e \in Endpoints}

Template == <<"api", "users", "{id}", "modules", "{moduleId}">>
Static   == <<"/static/**">>
Unknown  == <<"UNKNOWN">>
Uris     == NamedRoutes \cup {Template, Static, Unknown}

\* The path itself, the index of the directory, or the path with .html appended.
ResolveStatic(p) ==
  \/ p \in Files
  \/ Append(p, "index.html") \in Files
  \/ p \in DOMAIN Html /\ Html[p] \in Files

IsSubscription(p) == \E u, v \in Uuids : p = <<"api", "users", u, "modules", v>>

\* The label of a request.
RouteClass(p) ==
  IF p \in NamedRoutes THEN p
  ELSE IF IsSubscription(p) THEN Template
  ELSE IF Len(p) > 1 /\ p[1] = "dashboard" THEN <<"dashboard">>
  ELSE IF (Len(p) > 1 /\ p[1] = "_next") \/ ResolveStatic(p) THEN Static
  ELSE Unknown

\* The handler the mux picks: exact patterns, one with wildcards, and "/".
Handler(p, form) ==
  IF form = "unclean" THEN "mux"
  ELSE IF form = "slash" THEN "static"
  ELSE IF \E e \in Endpoints : p = <<"api", e>> THEN p[2]
  ELSE IF Len(p) = 5 /\ p[1] = "api" /\ p[2] = "users" /\ p[4] = "modules"
  THEN "subscription"
  ELSE "static"

\* The path a handler calls at the backend, behind the base path of API_URL, which
\* is left out here: with one, every call is labelled Unknown.
Target(p) ==
  LET h == Handler(p, "clean")
  IN  CASE h = "login"        -> <<"users", "login">>
        [] h = "signup"       -> <<"users", "register">>
        [] h = "me"           -> <<"users", "me">>
        [] h = "modules"      -> <<"modules">>
        [] h = "subscription" -> <<"users", p[3], "modules", p[5]>>

BackendRoutes == {<<"users", "register">>, <<"users", "login">>, <<"users", "me">>,
                  <<"users">>, <<"modules">>}
UserRoute     == <<"users", "{id}">>
ModuleRoute   == <<"users", "{id}", "modules", "{moduleId}">>
BackendUris   == BackendRoutes \cup {UserRoute, ModuleRoute, Unknown}

\* The label of a call.
BackendRoute(p) ==
  IF p \in BackendRoutes THEN p
  ELSE IF \E u \in Uuids : p = <<"users", u>> THEN UserRoute
  ELSE IF \E u, v \in Uuids : p = <<"users", u, "modules", v>> THEN ModuleRoute
  ELSE Unknown

-----------------------------------------------------------------------------
(* What the browser is answered without a call.                            *)

\* Variant: /login sends everybody to the dashboard.
LoginBounces(p, cookie) ==
  IF p \in {<<>>, <<"login">>} THEN <<"dashboard">>
  ELSE IF p[1] = "dashboard" /\ ~cookie THEN <<"login">>
  ELSE p

\* The redirects of the upstream middleware; a path that is served is its own.
Middleware(p, cookie) ==
  IF p = <<>> \/ (p = <<"login">> /\ cookie) THEN <<"dashboard">>
  ELSE IF p[1] = "dashboard" /\ ~cookie THEN <<"login">>
  ELSE p

\* Where a GET of a page leads: the redirects of the mux, of handleStatic, and
\* of ServeFile for an index by its name; a path that is answered leads to itself.
Leads(p, form, cookie) ==
  IF form = "unclean" THEN [path |-> p, form |-> "clean"]
  ELSE IF Middleware(p, cookie) # p THEN [path |-> Middleware(p, cookie), form |-> "clean"]
  ELSE IF form = "clean" /\ ResolveStatic(p) /\ Last(p) = "index.html"
  THEN [path |-> Front(p), form |-> "slash"]
  ELSE [path |-> p, form |-> form]

\* A redirect of the middleware, or that of ServeFile.
HandleStatic(i) ==
  IF i.method \notin {"GET", "HEAD"} THEN 405
  ELSE IF Middleware(i.path, i.cookie) # i.path THEN 302
  ELSE IF Leads(i.path, i.form, i.cookie) # [path |-> i.path, form |-> i.form] THEN 301
  ELSE IF ResolveStatic(i.path) THEN 200
  ELSE 404

\* Variant: the ids are passed on as they are.
SubscriptionUnchecked(i) ==
  IF i.method \notin {"POST", "DELETE"} THEN 405
  ELSE IF ~i.cookie THEN 401
  ELSE 0

\* The guards before a call to the backend; 0 when there are no more.
HandleSubscription(i) ==
  IF i.method \notin {"POST", "DELETE"} THEN 405
  ELSE IF ~IsSubscription(i.path) THEN 404
  ELSE IF ~i.cookie THEN 401
  ELSE 0

HandleGet(i) ==
  IF i.method # "GET" THEN 405
  ELSE IF ~i.cookie THEN 401
  ELSE 0

HandlePost(i) == IF i.method # "POST" THEN 405 ELSE 0

HandleLogout(i) == IF i.method # "POST" THEN 405 ELSE 200

HandlerOf(i) == Handler(i.path, i.form)

\* The answer of a handler that makes no call, or 0.
AtOnce(i) ==
  LET h == HandlerOf(i)
  IN  CASE h = "mux"                 -> 301
        [] h \in {"login", "signup"} -> HandlePost(i)
        [] h = "logout"              -> HandleLogout(i)
        [] h \in {"me", "modules"}   -> HandleGet(i)
        [] h = "subscription"        -> HandleSubscription(i)
        [] h = "static"              -> HandleStatic(i)

OutcomeOf(s) ==
  IF s \in 200 .. 299 THEN "SUCCESS"
  ELSE IF s \in 300 .. 399 THEN "REDIRECTION"
  ELSE IF s \in 400 .. 499 THEN "CLIENT_ERROR"
  ELSE "SERVER_ERROR"

-----------------------------------------------------------------------------
(* A connection and its requests.                                          *)

Places   == {"closed", "idle", "handler", "call", "sent", "response", "done", "counted"}
InFlight == Places \ {"closed", "idle"}
AnyInput == UNION {Inputs[c] : c \in Conns}
Statuses == {0, 200, 301, 302, 400, 401, 404, 405, 500, 502} \cup BackendStatuses
Outcomes == {"none", "SUCCESS", "REDIRECTION", "CLIENT_ERROR", "SERVER_ERROR"}

NoInput == [method |-> "GET", path |-> <<>>, form |-> "clean", cookie |-> FALSE]

\* sent: the status line that went out (0: none, recorder.wrote is false).
NoRequest == [input |-> NoInput, uri |-> Unknown, status |-> 200, sent |-> 0,
              exception |-> "none", answered |-> 0, outcome |-> "none"]

Records == [input : AnyInput \cup {NoInput}, uri : Uris, status : Statuses, sent : Statuses,
            exception : {"none", "panic"}, answered : Statuses,
            outcome : Outcomes]

ReqTypeOK ==
  /\ urlOk \in BOOLEAN
  /\ at \in [Conns -> Places]
  /\ req \in [Conns -> Records]
  /\ active \in [Uris -> Nat]
  /\ clientActive \in [BackendUris -> Nat]
  /\ bodies \in Nat
  /\ connections \in Nat

ReqInit ==
  /\ urlOk \in BOOLEAN
  /\ at = [c \in Conns |-> "closed"]
  /\ req = [c \in Conns |-> NoRequest]
  /\ active = [u \in Uris |-> 0] /\ clientActive = [b \in BackendUris |-> 0]
  /\ bodies = 0 /\ connections = 0

Moves(c, from, to) == at[c] = from /\ at' = [at EXCEPT ![c] = to]

CallLabel(c) == BackendRoute(Target(req[c].input.path))

\* Variant: counted with its first request, and discounted when it is closed.
OpenUncounted(c) ==
  /\ Moves(c, "closed", "idle")
  /\ UNCHANGED <<urlOk, req, gauges>>

\* StateNew and StateClosed of the connection.
Open(c) ==
  /\ Moves(c, "closed", "idle")
  /\ connections' = connections + 1
  /\ UNCHANGED <<urlOk, req, active, clientActive, bodies>>

Close(c) ==
  /\ Moves(c, "idle", "closed")
  /\ connections' = connections - 1
  /\ UNCHANGED <<urlOk, req, active, clientActive, bodies>>

\* instrument, up to the handler.
Arrive(c, i) ==
  /\ Moves(c, "idle", "handler")
  /\ LET uri == RouteClass(i.path)
     IN  /\ req' = [req EXCEPT ![c] = [NoRequest EXCEPT !.input = i, !.uri = uri]]
         /\ active' = [active EXCEPT ![uri] = @ + 1]
  /\ UNCHANGED <<urlOk, clientActive, bodies, connections>>

\* writeJSON, Redirect or ServeFile through the recorder.
WriteHeader(r, s) == IF r.sent = 0 THEN [r EXCEPT !.status = s, !.sent = s] ELSE r

Answer(c, s) ==
  /\ at' = [at EXCEPT ![c] = "done"]
  /\ req' = [req EXCEPT ![c] = WriteHeader(@, s)]

AnswerAtOnce(c) ==
  /\ at[c] = "handler"
  /\ AtOnce(req[c].input) # 0
  /\ Answer(c, AtOnce(req[c].input))
  /\ UNCHANGED <<urlOk, gauges>>

\* MaxBytesReader: too long a body, or one that breaks off.
BodyFails(c) ==
  /\ at[c] = "handler" /\ AtOnce(req[c].input) = 0
  /\ HandlerOf(req[c].input) \in {"login", "signup"}
  /\ Answer(c, 400)
  /\ UNCHANGED <<urlOk, gauges>>

\* The request to the backend is built.
Prepare(c) ==
  /\ Moves(c, "handler", "call") /\ AtOnce(req[c].input) = 0
  /\ urlOk
  /\ UNCHANGED <<urlOk, req, gauges>>

\* The URL does not parse, and the handler checks the error.
PrepareFails(c) ==
  /\ at[c] = "handler" /\ AtOnce(req[c].input) = 0
  /\ ~urlOk /\ HandlerOf(req[c].input) # "me"
  /\ Answer(c, IF HandlerOf(req[c].input) = "signup" THEN 502 ELSE 500)
  /\ UNCHANGED <<urlOk, gauges>>

\* Variant: the status of a panic is recorded, but not written.
PanicRecordedOnly(c) ==
  /\ Moves(c, "handler", "done") /\ AtOnce(req[c].input) = 0
  /\ ~urlOk /\ HandlerOf(req[c].input) = "me"
  /\ req' = [req EXCEPT ![c].exception = "panic", ![c].status = 500]
  /\ UNCHANGED <<urlOk, gauges>>

\* handleMe does not check it: a nil request, recovered by instrument.
Panic(c) ==
  /\ Moves(c, "handler", "done") /\ AtOnce(req[c].input) = 0
  /\ ~urlOk /\ HandlerOf(req[c].input) = "me"
  /\ req' = [req EXCEPT ![c] = [WriteHeader(@, 500) EXCEPT !.exception = "panic"]]
  /\ UNCHANGED <<urlOk, gauges>>

\* RoundTrip, up to the transport.
Call(c) ==
  /\ Moves(c, "call", "sent")
  /\ clientActive' = [clientActive EXCEPT ![CallLabel(c)] = @ + 1]
  /\ UNCHANGED <<urlOk, req, active, bodies, connections>>

\* Variant: the gauge goes down only after an answer.
CallFailsActive(c) ==
  /\ at[c] = "sent"
  /\ Answer(c, IF HandlerOf(req[c].input) = "login" THEN 500 ELSE 502)
  /\ UNCHANGED <<urlOk, gauges>>

\* IO_ERROR: unreachable, broken off, the timeout of the client, or its user gone.
CallFails(c) ==
  /\ at[c] = "sent"
  /\ Answer(c, IF HandlerOf(req[c].input) = "login" THEN 500 ELSE 502)
  /\ clientActive' = [clientActive EXCEPT ![CallLabel(c)] = @ - 1]
  /\ UNCHANGED <<urlOk, active, bodies, connections>>

CallReturns(c) ==
  /\ Moves(c, "sent", "response")
  /\ \E s \in BackendStatuses : req' = [req EXCEPT ![c].answered = s]
  /\ clientActive' = [clientActive EXCEPT ![CallLabel(c)] = @ - 1]
  /\ bodies' = bodies + 1
  /\ UNCHANGED <<urlOk, active, connections>>

\* The body is closed when the handler returns.
Discard ==
  /\ bodies' = bodies - 1
  /\ UNCHANGED <<urlOk, active, clientActive, connections>>

\* handleLogin: the body is discarded, the token becomes the cookie.
LoginAnswers(c) ==
  /\ at[c] = "response" /\ HandlerOf(req[c].input) = "login"
  /\ IF OutcomeOf(req[c].answered) = "SUCCESS"
     THEN Answer(c, 200) \/ Answer(c, 500)
     ELSE Answer(c, 401)
  /\ Discard

\* handleMe: what the backend refused is refused with its status.
MeRefused(c) ==
  /\ at[c] = "response" /\ HandlerOf(req[c].input) = "me"
  /\ OutcomeOf(req[c].answered) # "SUCCESS"
  /\ Answer(c, req[c].answered)
  /\ Discard

\* The status goes out, then the body until it ends or breaks off; either way
\* the handler returns, and the response is ended as a complete one.
Relay(c) ==
  /\ at[c] = "response" /\ HandlerOf(req[c].input) # "login"
  /\ IF HandlerOf(req[c].input) = "me"
     THEN OutcomeOf(req[c].answered) = "SUCCESS" /\ Answer(c, 200)
     ELSE Answer(c, req[c].answered)
  /\ Discard

\* The histogram of instrument.
Observe(c) ==
  /\ Moves(c, "done", "counted")
  /\ req' = [req EXCEPT ![c].outcome = OutcomeOf(req[c].status)]
  /\ UNCHANGED <<urlOk, gauges>>

\* The deferred Dec, the end of the response, and the next request or none.
Finish(c, keepAlive) ==
  /\ Moves(c, "counted", IF keepAlive THEN "idle" ELSE "closed")
  /\ req' = [req EXCEPT ![c] = NoRequest]
  /\ active' = [active EXCEPT ![req[c].uri] = @ - 1]
  /\ connections' = IF keepAlive THEN connections ELSE connections - 1
  /\ UNCHANGED <<urlOk, clientActive, bodies>>

Handles(c) ==
  \/ AnswerAtOnce(c) \/ BodyFails(c) \/ Prepare(c) \/ PrepareFails(c) \/ Panic(c)
  \/ Call(c) \/ CallFails(c) \/ CallReturns(c)
  \/ LoginAnswers(c) \/ MeRefused(c) \/ Relay(c) \/ Observe(c)

-----------------------------------------------------------------------------
(* Properties.                                                             *)

Carrying(u) == {c \in Conns : at[c] \in InFlight /\ req[c].uri = u}
Calling(b)  == {c \in Conns : at[c] = "sent" /\ CallLabel(c) = b}
Holding     == {c \in Conns : at[c] = "response"}
Opened      == {c \in Conns : at[c] # "closed"}

(* Every gauge is the number of what it counts, on every path through the  *)
(* handlers: early answers, a failed call, a panic.  Nothing is leaked: no *)
(* body of the backend stays open when its handler has returned.           *)
GaugesTrackRequests ==
  /\ \A u \in Uris : active[u] = Cardinality(Carrying(u))
  /\ \A b \in BackendUris : clientActive[b] = Cardinality(Calling(b))
  /\ bodies = Cardinality(Holding)
  /\ connections = Cardinality(Opened)

\* net/http answers 200 for a handler that wrote nothing.
Received(r) == IF r.sent = 0 THEN 200 ELSE r.sent

(* A request is counted with the status its client got, and a handler that *)
(* panicked as a server error.                                             *)
CountedAsSent ==
  \A c \in Conns : at[c] = "counted" =>
    /\ req[c].outcome = OutcomeOf(Received(req[c]))
    /\ req[c].exception = "panic" => req[c].outcome = "SERVER_ERROR"

(* What is relayed to the backend was classified as the route it came by,  *)
(* and the call carries a label the backend knows, if API_URL has no base  *)
(* path: the route classes, the patterns of the mux, the handlers and the  *)
(* backend's templates, four tables kept by hand, agree.                   *)
ProxiedIsLabelled ==
  \A c \in Conns : at[c] \in {"call", "sent", "response"} =>
    /\ req[c].uri = IF HandlerOf(req[c].input) = "subscription" THEN Template
                    ELSE <<"api", HandlerOf(req[c].input)>>
    /\ CallLabel(c) \notin {Unknown, UserRoute, <<"users">>}

\* Where a browser that follows redirects is after one more request.
Hop(page, cookie) == Leads(page.path, page.form, cookie)

(* The redirects of the mux, of handleStatic and of ServeFile lead, with   *)
(* the cookie the browser has, to a page that is answered: whoever asks    *)
(* for a page is never sent in a circle.                                   *)
RedirectsEnd ==
  \A c \in Conns : at[c] \in InFlight =>
    LET i     == req[c].input
        first == [path |-> i.path, form |-> i.form]
        end   == Hop(Hop(Hop(Hop(first, i.cookie), i.cookie), i.cookie), i.cookie)
    IN  HandlerOf(i) \in {"mux", "static"} => Hop(end, i.cookie) = end

=============================================================================
