-------------------------- MODULE EdgeServer_proofs --------------------------
(***************************************************************************)
(* Proofs about EdgeServer for any number of connections, any requests and *)
(* any bundle: the gauges, the histogram and the route tables of the       *)
(* requests, and the drain.                                                *)
(***************************************************************************)
EXTENDS EdgeServer, FiniteSetTheorems, TLAPS

-----------------------------------------------------------------------------
(* The route tables.                                                       *)

Proxied == {"login", "signup", "me", "modules", "subscription"}

LEMMA HandlerKinds ==
  ASSUME NEW p, NEW form
  PROVE  /\ Handler(p, form) \in Endpoints \cup {"mux", "static", "subscription"}
         /\ Handler(p, form) \in Endpoints => p = <<"api", Handler(p, form)>>
         /\ Handler(p, form) \notin {"mux", "static"} => Handler(p, "clean") = Handler(p, form)
<1>1. CASE form = "unclean" \/ form = "slash"
  BY <1>1 DEF Handler, Endpoints
<1>2. CASE form \notin {"unclean", "slash"} /\ \E e \in Endpoints : p = <<"api", e>>
  BY <1>2 DEF Handler, Endpoints
<1>3. CASE form \notin {"unclean", "slash"} /\ ~\E e \in Endpoints : p = <<"api", e>>
  BY <1>3 DEF Handler, Endpoints
<1> QED
  BY <1>1, <1>2, <1>3

(* Only a request with all guards behind it gets to the backend.           *)
LEMMA GuardsPassed ==
  ASSUME NEW i, AtOnce(i) = 0
  PROVE  /\ HandlerOf(i) \in Proxied
         /\ HandlerOf(i) = "subscription" => IsSubscription(i.path)
<1>1. HandlerOf(i) \in Endpoints \cup {"mux", "static", "subscription"}
  BY HandlerKinds DEF HandlerOf
<1>2. HandlerOf(i) = "mux" => AtOnce(i) = 301
  BY DEF AtOnce
<1>3. HandlerOf(i) = "static" => AtOnce(i) = HandleStatic(i)
  BY DEF AtOnce
<1>4. HandleStatic(i) # 0
  BY DEF HandleStatic
<1>5. HandlerOf(i) = "logout" => AtOnce(i) = HandleLogout(i)
  BY DEF AtOnce
<1>6. HandleLogout(i) # 0
  BY DEF HandleLogout
<1>7. HandlerOf(i) = "subscription" => AtOnce(i) = HandleSubscription(i)
  BY DEF AtOnce
<1>8. HandleSubscription(i) = 0 => IsSubscription(i.path)
  BY DEF HandleSubscription
<1> QED
  BY <1>1, <1>2, <1>3, <1>4, <1>5, <1>6, <1>7, <1>8 DEF Proxied, Endpoints

Labelled(i) ==
  /\ RouteClass(i.path) = IF HandlerOf(i) = "subscription" THEN Template
                          ELSE <<"api", HandlerOf(i)>>
  /\ BackendRoute(Target(i.path)) \notin {Unknown, UserRoute, <<"users">>}

LEMMA PlainCalls ==
  ASSUME NEW t \in {<<"users", "login">>, <<"users", "register">>, <<"users", "me">>, <<"modules">>}
  PROVE  BackendRoute(t) = t /\ t # Unknown /\ t # UserRoute /\ t # <<"users">>
<1>1. CASE t = <<"modules">>
  BY <1>1 DEF BackendRoute, BackendRoutes, Unknown, UserRoute
<1>2. CASE t = <<"users", "login">>
  BY <1>2 DEF BackendRoute, BackendRoutes, Unknown, UserRoute
<1>3. CASE t = <<"users", "register">>
  BY <1>3 DEF BackendRoute, BackendRoutes, Unknown, UserRoute
<1>4. CASE t = <<"users", "me">>
  BY <1>4 DEF BackendRoute, BackendRoutes, Unknown, UserRoute
<1> QED
  BY <1>1, <1>2, <1>3, <1>4

LEMMA RoutesAgree ==
  ASSUME NEW i, AtOnce(i) = 0
  PROVE  Labelled(i)
<1> DEFINE p == i.path
           h == HandlerOf(i)
<1>1. /\ h \in Proxied
      /\ h = "subscription" => IsSubscription(p)
      /\ Handler(p, "clean") = h
      /\ h \in Endpoints => p = <<"api", h>>
  BY HandlerKinds, GuardsPassed DEF HandlerOf, Proxied
<1>2. CASE h = "subscription"
  <2>1. PICK u \in Uuids, v \in Uuids : p = <<"api", "users", u, "modules", v>>
    BY <1>1, <1>2 DEF IsSubscription
  <2>2. p \notin NamedRoutes
    BY <2>1 DEF NamedRoutes
  <2>3. RouteClass(p) = Template
    BY <1>1, <1>2, <2>2 DEF RouteClass
  <2>4. Target(p) = <<"users", u, "modules", v>>
    BY <1>1, <1>2, <2>1 DEF Target
  <2>5. Target(p) \notin BackendRoutes /\ ~\E w \in Uuids : Target(p) = <<"users", w>>
    BY <2>4 DEF BackendRoutes
  <2>6. BackendRoute(Target(p)) = ModuleRoute
    BY <2>4, <2>5 DEF BackendRoute
  <2>7. ModuleRoute # Unknown /\ ModuleRoute # UserRoute /\ ModuleRoute # <<"users">>
    BY DEF ModuleRoute, UserRoute, Unknown
  <2> QED
    BY <1>2, <2>3, <2>6, <2>7 DEF Labelled
<1>3. CASE h \in {"login", "signup", "me", "modules"}
  <2>1. p = <<"api", h>> /\ p \in NamedRoutes
    BY <1>1, <1>3 DEF Endpoints, NamedRoutes
  <2>2. RouteClass(p) = <<"api", h>>
    BY <2>1 DEF RouteClass
  <2>3. Target(p) \in {<<"users", "login">>, <<"users", "register">>, <<"users", "me">>, <<"modules">>}
    BY <1>1, <1>3 DEF Target
  <2> QED
    BY <1>3, <2>2, <2>3, PlainCalls DEF Labelled
<1> QED
  BY <1>1, <1>2, <1>3 DEF Proxied

-----------------------------------------------------------------------------
(* Redirects.                                                              *)

Page(p, form)  == [path |-> p, form |-> form]
Home   == Page(<<"dashboard">>, "clean")
SignIn == Page(<<"login">>, "clean")

\* After n hops the browser is answered.
Settled0(x, cookie) == Hop(x, cookie) = x
Settled1(x, cookie) == Settled0(Hop(x, cookie), cookie)
Settled2(x, cookie) == Settled1(Hop(x, cookie), cookie)
Settled3(x, cookie) == Settled2(Hop(x, cookie), cookie)
Settled4(x, cookie) == Settled3(Hop(x, cookie), cookie)

LEMMA SettledStays ==
  ASSUME NEW x, NEW cookie
  PROVE  /\ Settled0(x, cookie) => Settled1(x, cookie)
         /\ Settled1(x, cookie) => Settled2(x, cookie)
         /\ Settled2(x, cookie) => Settled3(x, cookie)
         /\ Settled3(x, cookie) => Settled4(x, cookie)
BY Zenon DEF Settled0, Settled1, Settled2, Settled3, Settled4

\* The page after four hops.
After4(x, cookie) == Hop(Hop(Hop(Hop(x, cookie), cookie), cookie), cookie)

LEMMA After4Settled ==
  ASSUME NEW x, NEW cookie, Settled4(x, cookie)
  PROVE  Hop(After4(x, cookie), cookie) = After4(x, cookie)
BY Zenon DEF After4, Settled0, Settled1, Settled2, Settled3, Settled4

LEMMA HopLeads ==
  ASSUME NEW p, NEW form, NEW cookie
  PROVE  Hop(Page(p, form), cookie) = Leads(p, form, cookie)
<1>1. Page(p, form).path = p /\ Page(p, form).form = form
  BY DEF Page
<1> QED
  BY <1>1, Zenon DEF Hop

LEMMA LeadsTo ==
  ASSUME NEW p, NEW form, NEW cookie, form # "unclean"
  PROVE  /\ Middleware(p, cookie) # p =>
              Hop(Page(p, form), cookie) = Page(Middleware(p, cookie), "clean")
         /\ Middleware(p, cookie) = p =>
              \/ Hop(Page(p, form), cookie) = Page(p, form)
              \/ /\ form = "clean" /\ Last(p) = "index.html"
                 /\ Hop(Page(p, form), cookie) = Page(Front(p), "slash")
<1>1. CASE Middleware(p, cookie) # p
  <2>1. Leads(p, form, cookie) = [path |-> Middleware(p, cookie), form |-> "clean"]
    BY <1>1, Zenon DEF Leads
  <2> QED
    BY <1>1, <2>1, HopLeads, Zenon DEF Page
<1>2. CASE Middleware(p, cookie) = p
  <2>1. \/ Leads(p, form, cookie) = [path |-> p, form |-> form]
        \/ /\ form = "clean" /\ Last(p) = "index.html"
           /\ Leads(p, form, cookie) = [path |-> Front(p), form |-> "slash"]
    BY <1>2, Zenon DEF Leads
  <2> QED
    BY <1>2, <2>1, HopLeads, Zenon DEF Page
<1> QED
  BY <1>1, <1>2

(* With the cookie the dashboard answers, without it the login page.       *)
LEMMA HomeSettles ==
  ASSUME NEW cookie \in BOOLEAN
  PROVE  /\ Settled1(Home, cookie)
         /\ ~cookie => Settled0(SignIn, cookie)
<1>1. <<"dashboard">> # <<>> /\ <<"dashboard">> # <<"login">> /\ <<"login">> # <<>>
  OBVIOUS
<1>2. Last(<<"dashboard">>) # "index.html" /\ Last(<<"login">>) # "index.html"
  BY DEF Last
<1>3. Middleware(<<"dashboard">>, cookie) = IF cookie THEN <<"dashboard">> ELSE <<"login">>
  BY <1>1 DEF Middleware
<1>4. ~cookie => Middleware(<<"login">>, cookie) = <<"login">>
  BY <1>1 DEF Middleware
<1>5. \A q : Middleware(q, cookie) = q /\ Last(q) # "index.html"
             => Hop(Page(q, "clean"), cookie) = Page(q, "clean")
  BY LeadsTo, Zenon
<1>6. \A q : Middleware(q, cookie) # q
             => Hop(Page(q, "clean"), cookie) = Page(Middleware(q, cookie), "clean")
  BY LeadsTo, Zenon
<1>7. <<"dashboard">> # <<"login">>
  OBVIOUS
<1>8. CASE cookie
  BY <1>2, <1>3, <1>5, <1>8 DEF Home, Settled0, Settled1
<1>9. CASE ~cookie
  <2>1. Hop(Home, cookie) = SignIn
    BY <1>3, <1>6, <1>7, <1>9 DEF Home, SignIn
  <2>2. Hop(SignIn, cookie) = SignIn
    BY <1>2, <1>4, <1>5, <1>9 DEF SignIn
  <2> QED
    BY <1>9, <2>1, <2>2 DEF Settled0, Settled1
<1> QED
  BY <1>8, <1>9

LEMMA MiddlewareLeads ==
  ASSUME NEW p, NEW cookie \in BOOLEAN
  PROVE  \/ Middleware(p, cookie) = p
         \/ Middleware(p, cookie) = <<"dashboard">>
         \/ Middleware(p, cookie) = <<"login">> /\ ~cookie
BY DEF Middleware

LEMMA SlashSettles ==
  ASSUME NEW p, NEW cookie \in BOOLEAN
  PROVE  Settled2(Page(p, "slash"), cookie)
<1>1. \/ Hop(Page(p, "slash"), cookie) = Page(p, "slash")
      \/ Hop(Page(p, "slash"), cookie) = Home
      \/ Hop(Page(p, "slash"), cookie) = SignIn /\ ~cookie
  <2>1. "clean" # "unclean" /\ "slash" # "unclean" /\ "slash" # "clean"
    OBVIOUS
  <2>2. CASE Middleware(p, cookie) = p
    BY <2>1, <2>2, LeadsTo
  <2>3. CASE Middleware(p, cookie) # p
    <3>1. Hop(Page(p, "slash"), cookie) = Page(Middleware(p, cookie), "clean")
      BY <2>1, <2>3, LeadsTo
    <3> QED
      BY <2>3, <3>1, MiddlewareLeads DEF Home, SignIn
  <2> QED
    BY <2>2, <2>3
<1> QED
  BY <1>1, HomeSettles, SettledStays DEF Settled0, Settled2

LEMMA CleanSettles ==
  ASSUME NEW p, NEW cookie \in BOOLEAN
  PROVE  Settled3(Page(p, "clean"), cookie)
<1>1. \/ Hop(Page(p, "clean"), cookie) = Page(p, "clean")
      \/ Hop(Page(p, "clean"), cookie) = Home
      \/ Hop(Page(p, "clean"), cookie) = SignIn /\ ~cookie
      \/ Hop(Page(p, "clean"), cookie) = Page(Front(p), "slash")
  <2>1. "clean" # "unclean" /\ "slash" # "unclean" /\ "slash" # "clean"
    OBVIOUS
  <2>2. CASE Middleware(p, cookie) = p
    BY <2>1, <2>2, LeadsTo
  <2>3. CASE Middleware(p, cookie) # p
    <3>1. Hop(Page(p, "clean"), cookie) = Page(Middleware(p, cookie), "clean")
      BY <2>1, <2>3, LeadsTo
    <3> QED
      BY <2>3, <3>1, MiddlewareLeads DEF Home, SignIn
  <2> QED
    BY <2>2, <2>3
<1>2. Settled2(Page(Front(p), "slash"), cookie)
  BY SlashSettles
<1> QED
  BY <1>1, <1>2, HomeSettles, SettledStays DEF Settled0, Settled3

LEMMA UncleanSettles ==
  ASSUME NEW p, NEW cookie \in BOOLEAN
  PROVE  Settled4(Page(p, "unclean"), cookie)
<1>1. Hop(Page(p, "unclean"), cookie) = Page(p, "clean")
  <2>1. Leads(p, "unclean", cookie) = [path |-> p, form |-> "clean"]
    BY Zenon DEF Leads
  <2> QED
    BY <2>1, HopLeads, Zenon DEF Page
<1> QED
  BY <1>1, CleanSettles DEF Settled4

(* For every path and every bundle: at most four redirects.                *)
LEMMA PathsSettle ==
  ASSUME NEW p, NEW form \in Forms, NEW cookie \in BOOLEAN
  PROVE  Settled4(Page(p, form), cookie)
BY CleanSettles, SlashSettles, UncleanSettles, SettledStays DEF Forms

-----------------------------------------------------------------------------
(* Types.                                                                  *)

LEMMA UriType == ASSUME NEW p PROVE RouteClass(p) \in Uris
BY DEF RouteClass, Uris, NamedRoutes

LEMMA CallType == ASSUME NEW p PROVE BackendRoute(p) \in BackendUris
BY DEF BackendRoute, BackendUris

LEMMA AtOnceType == ASSUME NEW i PROVE AtOnce(i) \in Statuses
<1>1. HandlerOf(i) \in Endpoints \cup {"mux", "static", "subscription"}
  BY HandlerKinds DEF HandlerOf
<1>2. /\ HandleStatic(i) \in Statuses /\ HandleSubscription(i) \in Statuses
      /\ HandleGet(i) \in Statuses /\ HandlePost(i) \in Statuses /\ HandleLogout(i) \in Statuses
      /\ 301 \in Statuses
  BY DEF HandleStatic, HandleSubscription, HandleGet, HandlePost, HandleLogout, Statuses
<1> QED
  BY <1>1, <1>2 DEF AtOnce, Endpoints

LEMMA NoRequestType == NoRequest \in Records
BY DEF NoRequest, Records, NoInput, Uris, Statuses, Outcomes

LEMMA OutcomeType == ASSUME NEW s PROVE OutcomeOf(s) \in Outcomes
BY DEF OutcomeOf, Outcomes

LEMMA WriteType ==
  ASSUME NEW r \in Records, NEW s \in Statuses
  PROVE  LET w == WriteHeader(r, s) IN
         /\ w \in Records
         /\ w.input = r.input /\ w.uri = r.uri /\ w.exception = r.exception
         /\ w.outcome = r.outcome
         /\ r.sent = 0 => w.status = s /\ w.sent = s
BY DEF WriteHeader, Records

(* A step of the goroutine of one connection: what it leaves alone, and    *)
(* what it does to the gauges.                                             *)
Step(c) ==
  /\ \A d \in Conns \ {c} : at'[d] = at[d] /\ req'[d] = req[d]
  /\ at[c] \in InFlight /\ at'[c] \in InFlight
  /\ req'[c].uri = req[c].uri /\ req'[c].input = req[c].input
  /\ UNCHANGED <<urlOk, active, connections>>
  /\ clientActive' = IF at[c] = "sent" THEN [clientActive EXCEPT ![CallLabel(c)] = @ - 1]
                     ELSE IF at'[c] = "sent" THEN [clientActive EXCEPT ![CallLabel(c)] = @ + 1]
                     ELSE clientActive
  /\ at[c] = "sent" => at'[c] # "sent"
  /\ bodies' = IF at[c] = "response" THEN bodies - 1
               ELSE IF at'[c] = "response" THEN bodies + 1
               ELSE bodies
  /\ at[c] = "response" => at'[c] # "response"

(* at and req of the type invariant; the gauges follow from what they count.*)
Control ==
  /\ urlOk \in BOOLEAN
  /\ at \in [Conns -> Places]
  /\ req \in [Conns -> Records]

LEMMA AnswerStep ==
  ASSUME Control, NEW c \in Conns, NEW s \in Statuses, Answer(c, s)
  PROVE  /\ at' \in [Conns -> Places] /\ req' \in [Conns -> Records]
         /\ \A d \in Conns \ {c} : at'[d] = at[d] /\ req'[d] = req[d]
         /\ at'[c] = "done"
         /\ req'[c] = WriteHeader(req[c], s)
         /\ req'[c].uri = req[c].uri /\ req'[c].input = req[c].input
<1>1. req[c] \in Records
  BY DEF Control
<1>2. WriteHeader(req[c], s) \in Records
  BY <1>1, WriteType
<1>3. req'[c] = WriteHeader(req[c], s)
  BY DEF Answer, Control
<1>4. req'[c].uri = req[c].uri /\ req'[c].input = req[c].input
  BY <1>1, <1>3, WriteType
<1>5. at' \in [Conns -> Places] /\ req' \in [Conns -> Records]
  BY <1>2 DEF Answer, Control, Places
<1> QED
  BY <1>3, <1>4, <1>5 DEF Answer, Control, Places

LEMMA HandlesStep ==
  ASSUME Control, NEW c \in Conns, Handles(c)
  PROVE  Control' /\ Step(c)
<1> USE StatusAssumption DEF gauges
<1>0. req[c] \in Records /\ at[c] \in Places
  BY DEF Control
<1>1. CASE AnswerAtOnce(c)
  <2>1. AtOnce(req[c].input) \in Statuses
    BY AtOnceType
  <2>2. at[c] = "handler" /\ Answer(c, AtOnce(req[c].input)) /\ UNCHANGED <<urlOk, gauges>>
    BY <1>1 DEF AnswerAtOnce
  <2> QED
    BY <2>1, <2>2, AnswerStep DEF Control, Step, InFlight, Places
<1>2. CASE BodyFails(c) \/ PrepareFails(c)
  <2>1. PICK s \in {400, 500, 502} : Answer(c, s) /\ at[c] = "handler" /\ UNCHANGED <<urlOk, gauges>>
    BY <1>2 DEF BodyFails, PrepareFails
  <2>2. s \in Statuses
    BY DEF Statuses
  <2> QED
    BY <2>1, <2>2, AnswerStep DEF Control, Step, InFlight, Places
<1>3. CASE Prepare(c)
  BY <1>3 DEF Prepare, Moves, Control, Step, InFlight, Places
<1>4. CASE Panic(c)
  <2>1. 500 \in Statuses
    BY DEF Statuses
  <2>2. [WriteHeader(req[c], 500) EXCEPT !.exception = "panic"] \in Records
    BY <1>0, <2>1, WriteType DEF Records
  <2>3. req'[c] = [WriteHeader(req[c], 500) EXCEPT !.exception = "panic"]
    BY <1>4 DEF Panic, Control
  <2>4. req'[c].uri = req[c].uri /\ req'[c].input = req[c].input
    BY <1>0, <2>1, <2>3, WriteType DEF Records
  <2> QED
    BY <1>4, <2>2, <2>4 DEF Panic, Moves, Control, Step, InFlight, Places
<1>5. CASE Call(c)
  BY <1>5 DEF Call, Moves, Control, Step, InFlight, Places
<1>6. CASE CallFails(c)
  <2>1. PICK s \in {500, 502} : Answer(c, s)
    BY <1>6 DEF CallFails
  <2>2. s \in Statuses
    BY DEF Statuses
  <2> QED
    BY <1>6, <2>1, <2>2, AnswerStep DEF CallFails, Control, Step, InFlight, Places
<1>7. CASE CallReturns(c)
  <2>1. PICK s \in BackendStatuses : req' = [req EXCEPT ![c].answered = s]
    BY <1>7 DEF CallReturns
  <2>2. /\ req' \in [Conns -> Records]
        /\ req'[c].uri = req[c].uri /\ req'[c].input = req[c].input
    BY <1>0, <2>1 DEF Control, Records, Statuses
  <2> QED
    BY <1>7, <2>1, <2>2 DEF CallReturns, Moves, Control, Step, InFlight, Places
<1>8. CASE LoginAnswers(c) \/ MeRefused(c) \/ Relay(c)
  <2>0. req[c].answered \in Statuses /\ {200, 401, 500} \subseteq Statuses
    BY <1>0 DEF Records, Statuses
  <2>1. PICK s \in Statuses : Answer(c, s)
    BY <1>8, <2>0 DEF LoginAnswers, MeRefused, Relay
  <2>2. at[c] = "response" /\ Discard
    BY <1>8 DEF LoginAnswers, MeRefused, Relay
  <2> QED
    BY <2>1, <2>2, AnswerStep DEF Discard, Control, Step, InFlight, Places
<1>9. CASE Observe(c)
  <2>1. OutcomeOf(req[c].status) \in Outcomes
    BY OutcomeType
  <2>2. /\ req' \in [Conns -> Records]
        /\ req'[c].uri = req[c].uri /\ req'[c].input = req[c].input
    BY <1>0, <1>9, <2>1 DEF Observe, Control, Records
  <2> QED
    BY <1>9, <2>2 DEF Observe, Moves, Control, Step, InFlight, Places
<1> QED
  BY <1>1, <1>2, <1>3, <1>4, <1>5, <1>6, <1>7, <1>8, <1>9 DEF Handles

-----------------------------------------------------------------------------
(* The gauges count.                                                       *)

LEMMA Counting ==
  ASSUME NEW S \in SUBSET Conns, NEW c \in Conns
  PROVE  /\ Cardinality(S) \in Nat
         /\ c \in S => Cardinality(S \ {c}) = Cardinality(S) - 1
         /\ c \notin S => Cardinality(S \cup {c}) = Cardinality(S) + 1 /\ S \ {c} = S
<1>1. IsFiniteSet(S)
  BY ConnsAssumption, FS_Subset
<1> QED
  BY <1>1, FS_CardinalityType, FS_AddElement, FS_RemoveElement

GaugeTypes ==
  /\ active \in [Uris -> Nat]
  /\ clientActive \in [BackendUris -> Nat]
  /\ bodies \in Nat /\ connections \in Nat

LEMMA TypeParts == ReqTypeOK <=> Control /\ GaugeTypes
BY DEF ReqTypeOK, Control, GaugeTypes

LEMMA HandlesGauges ==
  ASSUME Control, GaugeTypes, GaugesTrackRequests, NEW c \in Conns, Step(c)
  PROVE  GaugesTrackRequests'
<1>1. \A u \in Uris : Carrying(u)' = Carrying(u)
  BY DEF Carrying, Step
<1>2. Opened' = Opened
  BY DEF Opened, Step, InFlight
<1>3. \A d \in Conns : CallLabel(d)' = CallLabel(d)
  BY DEF CallLabel, Step
<1>4. ASSUME NEW b \in BackendUris
      PROVE  clientActive'[b] = Cardinality(Calling(b)')
  <2>1. Calling(b) \in SUBSET Conns /\ clientActive[b] = Cardinality(Calling(b))
    BY DEF Calling, GaugesTrackRequests
  <2>2. CallLabel(c) \in BackendUris
    BY CallType DEF CallLabel
  <2>3. CASE at[c] = "sent"
    <3>1. Calling(b)' = Calling(b) \ {c}
      BY <1>3, <2>3 DEF Calling, Step
    <3>2. c \in Calling(b) <=> b = CallLabel(c)
      BY <2>3 DEF Calling
    <3>3. clientActive'[b] = IF b = CallLabel(c) THEN clientActive[b] - 1 ELSE clientActive[b]
      BY <2>2, <2>3 DEF Step, GaugeTypes
    <3> QED
      BY <2>1, <3>1, <3>2, <3>3, Counting
  <2>4. CASE at[c] # "sent" /\ at'[c] = "sent"
    <3>1. Calling(b)' = IF b = CallLabel(c) THEN Calling(b) \cup {c} ELSE Calling(b)
      BY <1>3, <2>4 DEF Calling, Step
    <3>2. c \notin Calling(b)
      BY <2>4 DEF Calling
    <3>3. clientActive'[b] = IF b = CallLabel(c) THEN clientActive[b] + 1 ELSE clientActive[b]
      BY <2>2, <2>4 DEF Step, GaugeTypes
    <3> QED
      BY <2>1, <3>1, <3>2, <3>3, Counting
  <2>5. CASE at[c] # "sent" /\ at'[c] # "sent"
    <3>1. Calling(b)' = Calling(b) /\ clientActive' = clientActive
      BY <1>3, <2>5 DEF Calling, Step
    <3> QED
      BY <2>1, <3>1
  <2> QED
    BY <2>3, <2>4, <2>5
<1>5. bodies' = Cardinality(Holding')
  <2>1. Holding \in SUBSET Conns /\ bodies = Cardinality(Holding)
    BY DEF Holding, GaugesTrackRequests
  <2>2. CASE at[c] = "response"
    <3>1. Holding' = Holding \ {c} /\ c \in Holding /\ bodies' = bodies - 1
      BY <2>2 DEF Holding, Step
    <3> QED
      BY <2>1, <3>1, Counting
  <2>3. CASE at[c] # "response" /\ at'[c] = "response"
    <3>1. Holding' = Holding \cup {c} /\ c \notin Holding /\ bodies' = bodies + 1
      BY <2>3 DEF Holding, Step
    <3> QED
      BY <2>1, <3>1, Counting
  <2>4. CASE at[c] # "response" /\ at'[c] # "response"
    <3>1. Holding' = Holding /\ bodies' = bodies
      BY <2>4 DEF Holding, Step
    <3> QED
      BY <2>1, <3>1
  <2> QED
    BY <2>2, <2>3, <2>4
<1> QED
  BY <1>1, <1>2, <1>4, <1>5 DEF GaugesTrackRequests, Step

(* Accepting, arriving, responding and closing: the other steps.           *)
LEMMA OpenGauges ==
  ASSUME Control, GaugeTypes, GaugesTrackRequests, NEW c \in Conns,
         at[c] \in {"closed", "idle"}, at' = [at EXCEPT ![c] = IF @ = "closed" THEN "idle" ELSE "closed"],
         connections' = IF at[c] = "closed" THEN connections + 1 ELSE connections - 1,
         UNCHANGED <<req, active, clientActive, bodies>>
  PROVE  GaugesTrackRequests'
<1>1. /\ \A d \in Conns \ {c} : at'[d] = at[d]
      /\ at'[c] = IF at[c] = "closed" THEN "idle" ELSE "closed"
  BY DEF Control
<1>2. \A u \in Uris : Carrying(u)' = Carrying(u)
  BY <1>1 DEF Carrying, InFlight
<1>3. \A b \in BackendUris : Calling(b)' = Calling(b)
  BY <1>1 DEF Calling, CallLabel
<1>4. Holding' = Holding
  BY <1>1 DEF Holding
<1>5. connections' = Cardinality(Opened')
  <2>1. Opened \in SUBSET Conns /\ connections = Cardinality(Opened)
    BY DEF Opened, GaugesTrackRequests
  <2>2. CASE at[c] = "closed"
    <3>1. Opened' = Opened \cup {c} /\ c \notin Opened
      BY <1>1, <2>2 DEF Opened
    <3> QED
      BY <2>1, <2>2, <3>1, Counting
  <2>3. CASE at[c] # "closed"
    <3>1. Opened' = Opened \ {c} /\ c \in Opened
      BY <1>1, <2>3 DEF Opened
    <3> QED
      BY <2>1, <2>3, <3>1, Counting
  <2> QED
    BY <2>2, <2>3
<1> QED
  BY <1>2, <1>3, <1>4, <1>5 DEF GaugesTrackRequests

LEMMA ArriveGauges ==
  ASSUME Control, GaugeTypes, GaugesTrackRequests, NEW c \in Conns, NEW i \in AnyInput, Arrive(c, i)
  PROVE  Control' /\ GaugesTrackRequests'
<1> DEFINE uri == RouteClass(i.path)
<1>1. /\ \A d \in Conns \ {c} : at'[d] = at[d] /\ req'[d] = req[d]
      /\ at[c] = "idle" /\ at'[c] = "handler" /\ at' \in [Conns -> Places]
  BY DEF Control, Arrive, Moves, Places
<1>2. uri \in Uris
  BY UriType
<1>3. [NoRequest EXCEPT !.input = i, !.uri = uri] \in Records
  BY <1>2, NoRequestType DEF Records
<1>4. req' \in [Conns -> Records] /\ req'[c].uri = uri
  BY <1>3, NoRequestType DEF Arrive, Control, Records
<1>5. Control'
  BY <1>1, <1>4 DEF Arrive, Control
<1>6. ASSUME NEW u \in Uris
      PROVE  active'[u] = Cardinality(Carrying(u)')
  <2>1. Carrying(u)' = IF u = uri THEN Carrying(u) \cup {c} ELSE Carrying(u)
    BY <1>1, <1>4 DEF Carrying, InFlight, Places
  <2>2. c \notin Carrying(u) /\ Carrying(u) \in SUBSET Conns /\ active[u] = Cardinality(Carrying(u))
    BY <1>1 DEF Carrying, InFlight, GaugesTrackRequests
  <2>3. active'[u] = IF u = uri THEN active[u] + 1 ELSE active[u]
    BY <1>2 DEF Arrive, GaugeTypes
  <2> QED
    BY <2>1, <2>2, <2>3, Counting
<1>7. \A b \in BackendUris : Calling(b)' = Calling(b)
  BY <1>1 DEF Calling, CallLabel
<1>8. Holding' = Holding /\ Opened' = Opened
  BY <1>1 DEF Holding, Opened
<1> QED
  BY <1>5, <1>6, <1>7, <1>8 DEF GaugesTrackRequests, Arrive

LEMMA FinishGauges ==
  ASSUME Control, GaugeTypes, GaugesTrackRequests, NEW c \in Conns, NEW keepAlive \in BOOLEAN,
         Finish(c, keepAlive)
  PROVE  Control' /\ GaugesTrackRequests'
<1> DEFINE uri == req[c].uri
<1>1. /\ \A d \in Conns \ {c} : at'[d] = at[d] /\ req'[d] = req[d]
      /\ at[c] = "counted" /\ at'[c] = (IF keepAlive THEN "idle" ELSE "closed")
      /\ at' \in [Conns -> Places]
  BY DEF Control, Finish, Moves, Places
<1>2. uri \in Uris
  BY DEF Control, Records
<1>3. Control'
  BY <1>1, NoRequestType DEF Finish, Control
<1>4. ASSUME NEW u \in Uris
      PROVE  active'[u] = Cardinality(Carrying(u)')
  <2>1. Carrying(u)' = Carrying(u) \ {c}
    BY <1>1 DEF Carrying, InFlight
  <2>2. c \in Carrying(u) <=> u = uri
    BY <1>1 DEF Carrying, InFlight, Places
  <2>3. Carrying(u) \in SUBSET Conns /\ active[u] = Cardinality(Carrying(u))
    BY DEF Carrying, GaugesTrackRequests
  <2>4. active'[u] = IF u = uri THEN active[u] - 1 ELSE active[u]
    BY <1>2 DEF Finish, GaugeTypes
  <2> QED
    BY <2>1, <2>2, <2>3, <2>4, Counting
<1>5. \A b \in BackendUris : Calling(b)' = Calling(b)
  BY <1>1 DEF Calling, CallLabel
<1>6. Holding' = Holding
  BY <1>1 DEF Holding
<1>7. connections' = Cardinality(Opened')
  <2>1. c \in Opened /\ Opened \in SUBSET Conns /\ connections = Cardinality(Opened)
    BY <1>1 DEF Opened, GaugesTrackRequests
  <2>2. CASE keepAlive
    <3>1. Opened' = Opened /\ connections' = connections
      BY <1>1, <2>2 DEF Opened, Finish
    <3> QED
      BY <2>1, <3>1
  <2>3. CASE ~keepAlive
    <3>1. Opened' = Opened \ {c} /\ connections' = connections - 1
      BY <1>1, <2>3 DEF Opened, Finish
    <3> QED
      BY <2>1, <3>1, Counting
  <2> QED
    BY <2>2, <2>3
<1> QED
  BY <1>3, <1>4, <1>5, <1>6, <1>7 DEF GaugesTrackRequests, Finish

-----------------------------------------------------------------------------
(* One request, from its arrival to its observation.                       *)

(* Nothing has been sent before the handler is done; then the recorder has *)
(* the status that was sent.  A call is made only behind all guards.       *)
Consistent(place, r) ==
  /\ place \in {"handler", "call", "sent", "response"} => r.sent = 0 /\ r.exception = "none"
  /\ place = "response" => r.answered # 0
  /\ place \in InFlight => r.uri = RouteClass(r.input.path)
  /\ place \in {"call", "sent", "response"} => AtOnce(r.input) = 0
  /\ place \in {"done", "counted"} =>
       r.sent # 0 /\ r.status = r.sent /\ (r.exception = "panic" => r.status = 500)
  /\ place = "counted" => r.outcome = OutcomeOf(r.status)

AllConsistent == \A c \in Conns : Consistent(at[c], req[c])

LEMMA AnswerConsistent ==
  ASSUME Control, NEW c \in Conns, NEW s \in Statuses \ {0}, Answer(c, s),
         at[c] \in {"handler", "sent", "response"}, Consistent(at[c], req[c])
  PROVE  Consistent(at'[c], req'[c])
<1>1. /\ req'[c] = WriteHeader(req[c], s) /\ at'[c] = "done"
      /\ req'[c].uri = req[c].uri /\ req'[c].input = req[c].input
  BY AnswerStep
<1>2. req[c].sent = 0 /\ req[c].exception = "none" /\ req[c] \in Records
  BY DEF Consistent, Control
<1>3. req'[c].sent = s /\ req'[c].status = s /\ req'[c].exception = "none"
  BY <1>1, <1>2, WriteType
<1> QED
  BY <1>1, <1>3 DEF Consistent, InFlight, Places

LEMMA HandlesConsistent ==
  ASSUME Control, NEW c \in Conns, Handles(c), Consistent(at[c], req[c])
  PROVE  Consistent(at'[c], req'[c])
<1> USE StatusAssumption
<1>0. req[c] \in Records /\ at[c] \in Places
  BY DEF Control
<1>1. CASE AnswerAtOnce(c)
  <2>1. AtOnce(req[c].input) \in Statuses
    BY AtOnceType
  <2> QED
    BY <1>1, <2>1, AnswerConsistent DEF AnswerAtOnce
<1>2. CASE BodyFails(c) \/ PrepareFails(c) \/ CallFails(c)
  <2>1. PICK s \in {400, 500, 502} : Answer(c, s) /\ at[c] \in {"handler", "sent"}
    BY <1>2 DEF BodyFails, PrepareFails, CallFails
  <2>2. s \in Statuses \ {0}
    BY DEF Statuses
  <2> QED
    BY <2>1, <2>2, AnswerConsistent
<1>3. CASE Prepare(c) \/ Call(c)
  BY <1>3 DEF Prepare, Call, Moves, Control, Consistent, InFlight, Places
<1>4. CASE Panic(c)
  <2>1. 500 \in Statuses
    BY DEF Statuses
  <2>2. req'[c] = [WriteHeader(req[c], 500) EXCEPT !.exception = "panic"] /\ at'[c] = "done"
    BY <1>4 DEF Panic, Moves, Control
  <2>3. req[c].sent = 0 /\ req[c].uri = RouteClass(req[c].input.path)
    BY <1>4 DEF Panic, Moves, Consistent, InFlight, Places
  <2>4. /\ req'[c].uri = req[c].uri /\ req'[c].input = req[c].input
        /\ req'[c].sent = 500 /\ req'[c].status = 500
    BY <1>0, <2>1, <2>2, <2>3, WriteType DEF Records
  <2> QED
    BY <2>2, <2>3, <2>4 DEF Consistent
<1>5. CASE CallReturns(c)
  <2>1. PICK s \in BackendStatuses : req' = [req EXCEPT ![c].answered = s]
    BY <1>5 DEF CallReturns
  <2>2. /\ req'[c].uri = req[c].uri /\ req'[c].input = req[c].input
        /\ req'[c].sent = req[c].sent /\ req'[c].exception = req[c].exception
        /\ req'[c].answered = s
    BY <1>0, <2>1 DEF Control, Records
  <2>3. at[c] = "sent" /\ at'[c] = "response" /\ s # 0
    BY <1>5 DEF CallReturns, Moves, Control
  <2> QED
    BY <2>2, <2>3 DEF Consistent, InFlight, Places
<1>6. CASE LoginAnswers(c) \/ MeRefused(c)
  <2>0. req[c].answered \in Statuses /\ {200, 401, 500} \subseteq Statuses
    BY <1>0 DEF Records, Statuses
  <2>1. PICK s \in Statuses : Answer(c, s)
    BY <1>6, <2>0 DEF LoginAnswers, MeRefused
  <2>2. CASE LoginAnswers(c)
    <3>1. PICK t \in {200, 401, 500} : Answer(c, t)
      BY <2>2 DEF LoginAnswers
    <3> QED
      BY <2>0, <2>2, <3>1, AnswerConsistent DEF LoginAnswers
  <2>3. CASE MeRefused(c)
    <3>1. Answer(c, req[c].answered) /\ at[c] = "response"
      BY <2>3 DEF MeRefused
    <3>2. req[c].answered # 0
      BY <3>1 DEF Consistent
    <3> QED
      BY <2>0, <3>1, <3>2, AnswerConsistent
  <2> QED
    BY <1>6, <2>2, <2>3
<1>7. CASE Relay(c)
  <2>1. at[c] = "response" /\ req[c].answered \in Statuses \ {0}
    BY <1>0, <1>7 DEF Relay, Consistent, Records
  <2>2. PICK s \in Statuses \ {0} : Answer(c, s)
    BY <1>7, <2>1 DEF Relay, Statuses
  <2> QED
    BY <2>1, <2>2, AnswerConsistent
<1>8. CASE Observe(c)
  <2>1. req'[c] = [req[c] EXCEPT !.outcome = OutcomeOf(req[c].status)]
        /\ at[c] = "done" /\ at'[c] = "counted"
    BY <1>8 DEF Observe, Moves, Control
  <2> QED
    BY <1>0, <2>1 DEF Consistent, Records, InFlight, Places
<1> QED
  BY <1>1, <1>2, <1>3, <1>4, <1>5, <1>6, <1>7, <1>8 DEF Handles

-----------------------------------------------------------------------------
(* The process.                                                            *)

Flags ==
  /\ main \in MainPlaces /\ lb \in {"in", "out"} /\ passed \subseteq Checks
  /\ term \in BOOLEAN /\ draining \in BOOLEAN /\ started \in BOOLEAN
  /\ probed \in BOOLEAN /\ refused \subseteq {"early", "late"}

(* The latch is set before the delay begins, so a probe in the delay takes *)
(* the server out, and a late refusal means that there was none.           *)
Drain ==
  /\ main \in {"delay", "shutdown"} => draining
  /\ probed => draining /\ lb = "out"
  /\ "late" \in refused => main \in {"shutdown"} \cup Ended /\ ~probed

IInv == Control /\ GaugeTypes /\ GaugesTrackRequests /\ AllConsistent /\ Flags /\ Drain

Ends == \E how \in Ended : EndsAs(how)

Goes == StartAdmin \/ StartMain \/ Notify \/ Term \/ Latch \/ Shutdown \/ Cycle \/ Probe \/ Refuse

Connects(c) == Accept(c) \/ CloseIdle(c) \/ Request(c) \/ Serve(c) \/ Respond(c)

LEMMA Steps ==
  Next => Ends \/ Goes \/ \E c \in Conns : Connects(c)
<1>1. BindFails \/ ServeFails \/ TermKills \/ ShutdownReturns \/ BudgetExpires => Ends
  BY DEF BindFails, ServeFails, TermKills, ShutdownReturns, BudgetExpires, Ends, Ended
<1> QED
  BY <1>1 DEF Next, Main, Goes, Connects

LEMMA NothingInFlight ==
  ASSUME at = [c \in Conns |-> "closed"], active = [u \in Uris |-> 0],
         clientActive = [b \in BackendUris |-> 0], bodies = 0, connections = 0
  PROVE  GaugesTrackRequests
<1>1. /\ \A u \in Uris : Carrying(u) = {}
      /\ \A b \in BackendUris : Calling(b) = {}
      /\ Holding = {} /\ Opened = {}
  BY DEF Carrying, Calling, Holding, Opened, InFlight
<1> QED
  BY <1>1, FS_EmptySet DEF GaugesTrackRequests

LEMMA Initially == Init => IInv
<1> SUFFICES ASSUME Init PROVE IInv
  OBVIOUS
<1>1. Control /\ GaugeTypes
  BY NoRequestType DEF Init, ReqInit, Control, GaugeTypes, Places
<1>2. GaugesTrackRequests
  BY NothingInFlight DEF Init, ReqInit
<1>3. AllConsistent
  BY DEF Init, ReqInit, AllConsistent, Consistent, InFlight
<1>4. Flags /\ Drain
  BY DEF Init, Flags, Drain, MainPlaces, Ended
<1> QED
  BY <1>1, <1>2, <1>3, <1>4 DEF IInv

LEMMA EndsStep ==
  ASSUME IInv, Ends
  PROVE  IInv'
<1>1. PICK how \in Ended : EndsAs(how)
  BY DEF Ends
<1>2. Control' /\ GaugeTypes'
  BY <1>1, NoRequestType DEF EndsAs, IInv, Control, GaugeTypes, Places
<1>3. GaugesTrackRequests'
  <2>1. /\ \A u \in Uris : Carrying(u)' = {}
        /\ \A b \in BackendUris : Calling(b)' = {}
        /\ Holding' = {} /\ Opened' = {}
    BY <1>1 DEF EndsAs, Carrying, Calling, Holding, Opened, InFlight
  <2> QED
    BY <1>1, <2>1, FS_EmptySet DEF EndsAs, GaugesTrackRequests
<1>4. AllConsistent'
  BY <1>1 DEF EndsAs, AllConsistent, Consistent, InFlight
<1>5. Flags'
  BY <1>1 DEF EndsAs, IInv, Flags, MainPlaces
<1>6. Drain'
  BY <1>1 DEF EndsAs, IInv, Drain, Ended
<1> QED
  BY <1>2, <1>3, <1>4, <1>5, <1>6 DEF IInv

LEMMA RequestsUnchanged ==
  ASSUME IInv, UNCHANGED reqVars
  PROVE  Control' /\ GaugeTypes' /\ GaugesTrackRequests' /\ AllConsistent'
BY DEF IInv, reqVars, gauges, Control, GaugeTypes, GaugesTrackRequests, AllConsistent,
       Carrying, Calling, CallLabel, Holding, Opened

LEMMA GoesStep ==
  ASSUME IInv, Goes
  PROVE  IInv'
<1>1. UNCHANGED reqVars
  BY DEF Goes, StartAdmin, StartMain, Notify, Term, Latch, Shutdown, Cycle, Probe, Refuse
<1>2. Flags'
  <2> USE DEF IInv, Flags
  <2>1. CASE StartAdmin \/ StartMain \/ Notify \/ Term \/ Latch \/ Shutdown \/ Refuse
    BY <2>1 DEF StartAdmin, StartMain, Notify, Term, Latch, Shutdown, Refuse, MainPlaces, Listening
  <2>2. CASE Cycle
    <3>1. passed' \subseteq Checks /\ (started' = TRUE \/ started' = started \/ started' = FALSE)
      BY <2>2 DEF Cycle
    <3> QED
      BY <2>2, <3>1 DEF Cycle
  <2>3. CASE Probe
    <3>1. lb' \in {"in", "out"} /\ (probed' = TRUE \/ probed' = probed)
      BY <2>3 DEF Probe
    <3> QED
      BY <2>3, <3>1 DEF Probe
  <2> QED
    BY <2>1, <2>2, <2>3 DEF Goes
<1>3. Drain'
  <2> USE DEF IInv, Flags, Drain, Ended
  <2>1. CASE StartAdmin \/ StartMain \/ Notify \/ Term \/ Latch \/ Shutdown
    BY <2>1 DEF StartAdmin, StartMain, Notify, Term, Latch, Shutdown
  <2>2. CASE Cycle
    BY <2>2 DEF Cycle
  <2>3. CASE Probe
    <3>1. draining => lb' = "out"
      BY <2>3 DEF Probe, Ready
    <3>2. probed' => probed \/ main = "delay"
      BY <2>3 DEF Probe
    <3> QED
      BY <2>3, <3>1, <3>2 DEF Probe
  <2>4. CASE Refuse
    BY <2>4 DEF Refuse, MainPlaces
  <2> QED
    BY <2>1, <2>2, <2>3, <2>4 DEF Goes
<1> QED
  BY <1>1, <1>2, <1>3, RequestsUnchanged DEF IInv

LEMMA ConnectsStep ==
  ASSUME IInv, NEW c \in Conns, Connects(c)
  PROVE  IInv'
<1>0. Control /\ GaugeTypes /\ GaugesTrackRequests /\ Consistent(at[c], req[c])
  BY DEF IInv, AllConsistent
<1>1. UNCHANGED serverVars
  BY DEF Connects, Accept, CloseIdle, Request, Serve, Respond
<1>2. Flags' /\ Drain'
  BY <1>1 DEF IInv, serverVars, Flags, Drain
<1>3. Control' /\ GaugesTrackRequests'
  <2>1. CASE Accept(c) \/ CloseIdle(c)
    <3>1. /\ at[c] \in {"closed", "idle"}
          /\ at' = [at EXCEPT ![c] = IF @ = "closed" THEN "idle" ELSE "closed"]
          /\ connections' = IF at[c] = "closed" THEN connections + 1 ELSE connections - 1
          /\ UNCHANGED <<urlOk, req, active, clientActive, bodies>>
      BY <2>1 DEF Accept, CloseIdle, Open, Close, Moves
    <3> QED
      BY <1>0, <3>1, OpenGauges DEF Control, Places
  <2>2. CASE Request(c)
    <3>1. PICK i \in AnyInput : Arrive(c, i)
      BY <2>2 DEF Request, AnyInput
    <3> QED
      BY <1>0, <3>1, ArriveGauges
  <2>3. CASE Serve(c)
    BY <1>0, <2>3, HandlesStep, HandlesGauges DEF Serve
  <2>4. CASE Respond(c)
    BY <1>0, <2>4, FinishGauges DEF Respond
  <2> QED
    BY <2>1, <2>2, <2>3, <2>4 DEF Connects
<1>4. GaugeTypes'
  <2>1. active' \in [Uris -> Int] /\ clientActive' \in [BackendUris -> Int]
    <3>0. active \in [Uris -> Int] /\ clientActive \in [BackendUris -> Int]
      BY <1>0 DEF GaugeTypes
    <3>1. CASE Accept(c) \/ CloseIdle(c)
      BY <3>0, <3>1 DEF Accept, CloseIdle, Open, Close
    <3>2. CASE Request(c)
      <4>1. PICK i \in AnyInput : Arrive(c, i)
        BY <3>2 DEF Request, AnyInput
      <4>2. active' = [active EXCEPT ![RouteClass(i.path)] = @ + 1] /\ clientActive' = clientActive
        BY <4>1 DEF Arrive
      <4> QED
        BY <3>0, <4>2, UriType
    <3>3. CASE Serve(c)
      BY <3>0, <1>0, <3>3, HandlesStep DEF Serve, Step, GaugeTypes
    <3>4. CASE Respond(c)
      <4>1. active' = [active EXCEPT ![req[c].uri] = @ - 1] /\ clientActive' = clientActive
        BY <3>4 DEF Respond, Finish
      <4>2. req[c].uri \in Uris
        BY <1>0 DEF Control, Records
      <4> QED
        BY <3>0, <4>1, <4>2
    <3> QED
      BY <3>1, <3>2, <3>3, <3>4 DEF Connects
  <2>2. \A S \in SUBSET Conns : Cardinality(S) \in Nat
    BY ConnsAssumption, FS_Subset, FS_CardinalityType
  <2>3. /\ \A u \in Uris : Carrying(u)' \in SUBSET Conns
        /\ \A b \in BackendUris : Calling(b)' \in SUBSET Conns
        /\ Holding' \in SUBSET Conns /\ Opened' \in SUBSET Conns
    BY DEF Carrying, Calling, Holding, Opened
  <2> QED
    BY <1>3, <2>1, <2>2, <2>3 DEF GaugesTrackRequests, GaugeTypes
<1>5. AllConsistent'
  <2>1. ASSUME NEW d \in Conns, d # c
        PROVE  Consistent(at'[d], req'[d])
    <3>1. at'[d] = at[d] /\ req'[d] = req[d]
      <4>1. CASE Accept(c) \/ CloseIdle(c) \/ Request(c) \/ Respond(c)
        BY <1>0, <2>1, <4>1 DEF Accept, CloseIdle, Request, Respond, Open, Close, Arrive, Finish,
                                Moves, Control
      <4>2. CASE Serve(c)
        BY <1>0, <2>1, <4>2, HandlesStep DEF Serve, Step
      <4> QED
        BY <4>1, <4>2 DEF Connects
    <3> QED
      BY <3>1 DEF IInv, AllConsistent
  <2>2. Consistent(at'[c], req'[c])
    <3>1. CASE Accept(c) \/ CloseIdle(c) \/ Respond(c)
      <4>1. at'[c] \in {"closed", "idle"}
        BY <1>0, <3>1 DEF Accept, CloseIdle, Respond, Open, Close, Finish, Moves, Control
      <4> QED
        BY <4>1 DEF Consistent, InFlight
    <3>2. CASE Request(c)
      <4>1. PICK i \in AnyInput : Arrive(c, i)
        BY <3>2 DEF Request, AnyInput
      <4>2. at'[c] = "handler" /\ req'[c] = [NoRequest EXCEPT !.input = i, !.uri = RouteClass(i.path)]
        BY <1>0, <4>1 DEF Arrive, Moves, Control
      <4> QED
        BY <4>2, NoRequestType DEF Consistent, NoRequest, Records
    <3>3. CASE Serve(c)
      BY <1>0, <3>3, HandlesConsistent DEF Serve
    <3> QED
      BY <3>1, <3>2, <3>3 DEF Connects
  <2> QED
    BY <2>1, <2>2 DEF AllConsistent
<1> QED
  BY <1>2, <1>3, <1>4, <1>5 DEF IInv

LEMMA Inductive == Spec => []IInv
<1>1. IInv /\ [Next]_vars => IInv'
  <2> SUFFICES ASSUME IInv, [Next]_vars PROVE IInv'
    OBVIOUS
  <2>1. CASE Next
    BY <2>1, Steps, EndsStep, GoesStep, ConnectsStep
  <2>2. CASE UNCHANGED vars
    <3>1. UNCHANGED reqVars /\ UNCHANGED serverVars
      BY <2>2 DEF vars
    <3>2. Flags' /\ Drain'
      BY <3>1 DEF IInv, serverVars, Flags, Drain
    <3> QED
      BY <3>1, <3>2, RequestsUnchanged DEF IInv
  <2> QED
    BY <2>1, <2>2
<1> QED
  BY <1>1, Initially, PTL DEF Spec

(* Every value stays within its type: no gauge goes below zero.            *)
THEOREM TypeCorrect == Spec => []TypeOK
<1>1. IInv => TypeOK
  BY TypeParts DEF IInv, TypeOK, Flags
<1> QED
  BY <1>1, Inductive, PTL

(* The gauges are exact for any number of connections and requests.        *)
THEOREM GaugesExact == Spec => []GaugesTrackRequests
<1>1. IInv => GaugesTrackRequests
  BY DEF IInv
<1> QED
  BY <1>1, Inductive, PTL

(* Whatever page is asked for, of whatever bundle, at most four redirects. *)
THEOREM BrowserSettles == Spec => []RedirectsEnd
<1>1. ASSUME TypeOK, NEW c \in Conns
      PROVE  Settled4(Page(req[c].input.path, req[c].input.form), req[c].input.cookie)
  <2>1. req[c].input \in AnyInput \cup {NoInput}
    BY <1>1 DEF TypeOK, ReqTypeOK, Records
  <2>2. NoInput.form \in Forms /\ NoInput.cookie \in BOOLEAN
    BY DEF NoInput, Forms
  <2>3. AnyInput \subseteq Requests
    BY InputsAssumption DEF InputsOK, AnyInput
  <2>4. \A i \in Requests : i.form \in Forms /\ i.cookie \in BOOLEAN
    BY DEF Requests
  <2>5. req[c].input.form \in Forms /\ req[c].input.cookie \in BOOLEAN
    BY <2>1, <2>2, <2>3, <2>4
  <2> QED
    BY <2>5, PathsSettle, Zenon
<1>2. TypeOK => RedirectsEnd
  <2> SUFFICES ASSUME TypeOK, NEW c \in Conns
               PROVE  LET first  == Page(req[c].input.path, req[c].input.form)
                          cookie == req[c].input.cookie
                      IN  Hop(After4(first, cookie), cookie) = After4(first, cookie)
    BY Zenon DEF RedirectsEnd, After4, Page
  <2> QED
    BY <1>1, After4Settled, Zenon
<1> QED
  BY <1>2, TypeCorrect, PTL

(* The histogram counts what the client got, a panic as a server error.    *)
THEOREM HistogramHonest == Spec => []CountedAsSent
<1>1. IInv => CountedAsSent
  <2> SUFFICES ASSUME IInv, NEW c \in Conns, at[c] = "counted"
               PROVE  /\ req[c].outcome = OutcomeOf(Received(req[c]))
                      /\ req[c].exception = "panic" => req[c].outcome = "SERVER_ERROR"
    BY DEF CountedAsSent
  <2>1. Consistent(at[c], req[c])
    BY DEF IInv, AllConsistent
  <2>2. OutcomeOf(500) = "SERVER_ERROR"
    BY DEF OutcomeOf
  <2> QED
    BY <2>1, <2>2 DEF Consistent, Received
<1> QED
  BY <1>1, Inductive, PTL

(* Whatever the path: what is proxied has the label of its route, and its  *)
(* call one the backend has, too.                                          *)
THEOREM LabelsAgree == Spec => []ProxiedIsLabelled
<1>1. IInv => ProxiedIsLabelled
  <2> SUFFICES ASSUME IInv, NEW c \in Conns, at[c] \in {"call", "sent", "response"}
               PROVE  /\ req[c].uri = IF HandlerOf(req[c].input) = "subscription" THEN Template
                                      ELSE <<"api", HandlerOf(req[c].input)>>
                      /\ CallLabel(c) \notin {Unknown, UserRoute, <<"users">>}
    BY DEF ProxiedIsLabelled
  <2>1. AtOnce(req[c].input) = 0 /\ req[c].uri = RouteClass(req[c].input.path)
    BY DEF IInv, AllConsistent, Consistent, InFlight, Places
  <2>2. Labelled(req[c].input)
    BY <2>1, RoutesAgree
  <2> QED
    BY <2>1, <2>2 DEF Labelled, CallLabel
<1> QED
  BY <1>1, Inductive, PTL

(* A probe within the drain delay is enough: no connection is refused      *)
(* after it.                                                               *)
THEOREM ProbedIsNotRefused == Spec => []RefusedOnlyUnprobed
<1>1. IInv => RefusedOnlyUnprobed
  BY DEF IInv, Drain, RefusedOnlyUnprobed
<1> QED
  BY <1>1, Inductive, PTL

-----------------------------------------------------------------------------
(* How main() ends.                                                        *)

\* The places main() has still to go through.
Rank == [admin |-> 6, bind |-> 5, unnotified |-> 4, serving |-> 3, delay |-> 2, shutdown |-> 1,
         exit0 |-> 0, exit1 |-> 0, killed |-> 0][main]

\* What of main()'s state the rank needs: no signal before Notify, the latch in the drain.
OnItsWay ==
  /\ main \in MainPlaces /\ draining \in BOOLEAN
  /\ term => main \in {"serving", "delay", "shutdown"} \cup Ended
  /\ main \in {"delay", "shutdown"} => draining

\* A step of the drain lowers the rank, no step raises it or takes the latch back.
Nearer ==
  /\ Rank' <= Rank /\ (draining => draining')
  /\ Latch \/ Shutdown \/ BudgetExpires => Rank' < Rank

LEMMA WayStep ==
  ASSUME OnItsWay, [Next]_vars PROVE OnItsWay' /\ Nearer
<1> USE DEF OnItsWay, Nearer, MainPlaces, Listening, Ended
<1>1. CASE EndsAs("exit0") \/ EndsAs("exit1") \/ EndsAs("killed")
  <2>1. main' \in Ended /\ UNCHANGED <<term, draining>>
    BY <1>1 DEF EndsAs
  <2>2. /\ Rank \in 0 .. 6 /\ Rank' = 0
        /\ main \notin Ended => Rank > 0
    BY <2>1 DEF Rank
  <2>3. Latch \/ Shutdown \/ BudgetExpires => main \notin Ended
    BY DEF Latch, Shutdown, BudgetExpires
  <2>4. OnItsWay' /\ (draining => draining')
    BY <2>1
  <2>5. Rank' <= Rank /\ (Latch \/ Shutdown \/ BudgetExpires => Rank' < Rank)
    BY <2>2, <2>3
  <2> QED
    BY <2>4, <2>5
<1>2. CASE StartAdmin \/ StartMain \/ Notify \/ Latch \/ Shutdown
  <2>1. OnItsWay' /\ (draining => draining')
    <3>1. CASE StartAdmin
      BY <3>1 DEF StartAdmin
    <3>2. CASE StartMain
      BY <3>2 DEF StartMain
    <3>3. CASE Notify
      BY <3>3 DEF Notify
    <3>4. CASE Latch
      BY <3>4 DEF Latch
    <3>5. CASE Shutdown
      BY <3>5 DEF Shutdown
    <3> QED
      BY <1>2, <3>1, <3>2, <3>3, <3>4, <3>5
  <2>2. \/ main = "admin" /\ main' = "bind"
        \/ main = "bind" /\ main' = "unnotified"
        \/ main = "unnotified" /\ main' = "serving"
        \/ main = "serving" /\ main' = "delay"
        \/ main = "delay" /\ main' = "shutdown"
    BY <1>2 DEF StartAdmin, StartMain, Notify, Latch, Shutdown
  <2>3. Rank' < Rank /\ Rank' <= Rank
    BY <2>2 DEF Rank
  <2> QED
    BY <2>1, <2>3
<1>3. CASE Term
  <2>1. main' = main /\ OnItsWay' /\ draining' = draining
    BY <1>3 DEF Term
  <2>2. ~Latch /\ ~Shutdown
    BY <2>1 DEF Latch, Shutdown
  <2>3. ~BudgetExpires
    BY <2>1 DEF BudgetExpires, EndsAs
  <2> QED
    BY <2>1, <2>2, <2>3 DEF Rank
<1>4. CASE UNCHANGED <<main, term, draining>>
  <2>1. ~Latch /\ ~Shutdown
    BY <1>4 DEF Latch, Shutdown
  <2>2. ~BudgetExpires
    BY <1>4 DEF BudgetExpires, EndsAs
  <2> QED
    BY <1>4, <2>1, <2>2 DEF Rank
<1> QED
  <2>1. CASE Main
    BY <2>1, <1>1, <1>2, <1>3 DEF Main, BindFails, ServeFails, TermKills, ShutdownReturns,
                                  BudgetExpires
  <2>2. CASE ~Main
    <3>1. UNCHANGED <<main, term, draining>>
      BY <2>2 DEF Next, Cycle, Probe, Refuse, Accept, CloseIdle, Request, Serve, Respond, serverVars,
                  vars
    <3> QED
      BY <3>1, <1>4
  <2> QED
    BY <2>1, <2>2

(* From the signal on, the process is in its drain or has ended; the latch *)
(* is set before the listener closes and never taken back; the delay and   *)
(* the budget each bring the end nearer, and nothing a request, a peer or  *)
(* the checker does puts it off: what is left of DrainEnds is that the two *)
(* timers fire.                                                            *)
DrainNearer ==
  /\ [](term => main \in {"serving", "delay", "shutdown"} \cup Ended)
  /\ [](main \in {"delay", "shutdown"} => draining)
  /\ [][Nearer]_vars

THEOREM DrainProgress == Spec => DrainNearer
<1>1. Init => OnItsWay
  BY DEF Init, OnItsWay, MainPlaces
<1>2. OnItsWay /\ [Next]_vars => OnItsWay' /\ [Nearer]_vars
  BY WayStep
<1>3. /\ OnItsWay => (term => main \in {"serving", "delay", "shutdown"} \cup Ended)
      /\ OnItsWay => (main \in {"delay", "shutdown"} => draining)
  BY DEF OnItsWay
<1> QED
  BY <1>1, <1>2, <1>3, PTL DEF Spec, DrainNearer

=============================================================================
