----------------------------- MODULE EdgeServer -----------------------------
(***************************************************************************)
(* The process around EdgeRequests: its start, the health checker, the     *)
(* admin listener that answers probes, the drain, and the load balancer    *)
(* that counts on this server while /readyz answers 200.                   *)
(*                                                                         *)
(* A cycle of the checker is one step here (HealthCache has its inside and *)
(* the freshness of snapshots).  Times are left out: the drain delay and   *)
(* the budget end at any moment.                                           *)
(***************************************************************************)
EXTENDS EdgeRequests

\* static-root is a self check, backend-api a dependency.
Checks == {"static-root", "backend-api"}

VARIABLES
  main,      \* where main() is, or how the process ended
  term,      \* SIGTERM was sent
  draining,  \* st.draining
  passed,    \* checks that passed in the snapshot
  started,   \* st.started
  lb,        \* the load balancer sends connections here
  probed,    \* it has probed since the signal was received
  refused    \* connections it sent found no listener yet ("early"), or none any more

serverVars == <<main, term, draining, passed, started, lb, probed, refused>>
vars == <<reqVars, serverVars>>

Ended == {"exit0", "exit1", "killed"}
Listening == {"unnotified", "serving", "delay"}
MainPlaces == {"admin", "bind", "shutdown"} \cup Listening \cup Ended

TypeOK ==
  /\ ReqTypeOK
  /\ main \in MainPlaces
  /\ term \in BOOLEAN /\ draining \in BOOLEAN
  /\ passed \subseteq Checks
  /\ started \in BOOLEAN
  /\ lb \in {"in", "out"}
  /\ probed \in BOOLEAN /\ refused \subseteq {"early", "late"}

Init ==
  /\ ReqInit
  /\ main = "admin" /\ term = FALSE
  /\ draining = FALSE /\ passed = {} /\ started = FALSE
  /\ lb = "out" /\ probed = FALSE /\ refused = {}

Alive == main \notin Ended

-----------------------------------------------------------------------------
(* main().                                                                 *)

\* The process ends with whatever is in flight; its memory is gone.
EndsAs(how) ==
  /\ main' = how
  /\ urlOk' = urlOk
  /\ at' = [c \in Conns |-> "closed"] /\ req' = [c \in Conns |-> NoRequest]
  /\ active' = [u \in Uris |-> 0] /\ clientActive' = [b \in BackendUris |-> 0]
  /\ bodies' = 0 /\ connections' = 0
  /\ UNCHANGED <<term, draining, passed, started, lb, probed, refused>>

\* The admin listener, and the goroutine of the checker.
StartAdmin ==
  /\ main = "admin" /\ main' = "bind"
  /\ UNCHANGED <<reqVars, term, draining, passed, started, lb, probed, refused>>

StartMain ==
  /\ main = "bind" /\ main' = "unnotified"
  /\ UNCHANGED <<reqVars, term, draining, passed, started, lb, probed, refused>>

\* A port that is taken.
BindFails ==
  /\ main \in {"admin", "bind"}
  /\ EndsAs("exit1")

\* Serve of one of the listeners fails.
ServeFails ==
  /\ main \in Listening \cup {"bind", "shutdown"}
  /\ EndsAs("exit1")

\* Notify, after the listener serves.
Notify ==
  /\ main = "unnotified" /\ main' = "serving"
  /\ UNCHANGED <<reqVars, term, draining, passed, started, lb, probed, refused>>

\* The default action of SIGTERM until then.
TermKills ==
  /\ main \in {"admin", "bind", "unnotified"}
  /\ EndsAs("killed")

\* One signal is received, a second stays in the channel.
Term ==
  /\ main = "serving" /\ ~term
  /\ term' = TRUE
  /\ UNCHANGED <<reqVars, main, draining, passed, started, lb, probed, refused>>

\* Variant: the latch is set after the delay.
LatchLate ==
  /\ main = "serving" /\ term
  /\ main' = "delay"
  /\ UNCHANGED <<reqVars, term, draining, passed, started, lb, probed, refused>>

Latch ==
  /\ main = "serving" /\ term
  /\ main' = "delay" /\ draining' = TRUE
  /\ UNCHANGED <<reqVars, term, passed, started, lb, probed, refused>>

\* The delay is over: Shutdown closes the listener.
Shutdown ==
  /\ main = "delay" /\ main' = "shutdown"
  /\ UNCHANGED <<reqVars, term, draining, passed, started, lb, probed, refused>>

\* Every connection is closed within the budget.
ShutdownReturns ==
  /\ main = "shutdown"
  /\ \A c \in Conns : at[c] = "closed"
  /\ EndsAs("exit0")

\* Variant: the context of Shutdown has no deadline.
NoBudget ==
  /\ main = "shutdown"
  /\ FALSE
  /\ EndsAs("exit1")

\* The budget is exhausted: Close, and exit 1.
BudgetExpires ==
  /\ main = "shutdown"
  /\ EndsAs("exit1")

-----------------------------------------------------------------------------
(* The checker and the admin listener.                                     *)

AllOk(results) == results = Checks

SelfChecksOk(results) == "static-root" \in results

\* A cycle: each check passes, fails or times out; no request to the backend can
\* be built from a URL that does not parse.
Cycle ==
  /\ Alive /\ main # "admin"
  /\ \E results \in SUBSET Checks :
       /\ "backend-api" \in results => urlOk
       /\ passed' = results
       /\ started' = (started \/ SelfChecksOk(results))
  /\ UNCHANGED <<reqVars, main, term, draining, lb, probed, refused>>

Ready == Alive /\ main # "admin" /\ AllOk(passed) /\ ~draining

\* The load balancer probes /readyz; no answer is no.
Probe ==
  /\ lb' = IF Ready THEN "in" ELSE "out"
  /\ probed' = (probed \/ main = "delay")
  /\ UNCHANGED <<reqVars, main, term, draining, passed, started, refused>>

-----------------------------------------------------------------------------
(* The main listener.                                                      *)

\* Sent by the load balancer, or straight to the port.
Accept(c) ==
  /\ main \in Listening
  /\ Open(c)
  /\ UNCHANGED serverVars

\* The load balancer sends, and nobody listens: the checker and the admin listener
\* run before the main port is bound, and outlive it.
Refuse ==
  /\ lb = "in" /\ main \notin Listening
  /\ refused' = refused \cup {IF main \in {"admin", "bind"} THEN "early" ELSE "late"}
  /\ UNCHANGED <<reqVars, main, term, draining, passed, started, lb, probed>>

\* Shutdown closes idle connections, those that are new for five seconds and those
\* whose request has not been read among them; and so may the peer at any time.
CloseIdle(c) ==
  /\ Alive
  /\ Close(c)
  /\ UNCHANGED serverVars

\* A request on a connection that is open; one that Shutdown has not yet found
\* idle is served, too.
Request(c) ==
  /\ Alive
  /\ \E i \in Inputs[c] : Arrive(c, i)
  /\ UNCHANGED serverVars

Serve(c) ==
  /\ Alive
  /\ Handles(c)
  /\ UNCHANGED serverVars

\* The connection is kept, unless the peer or Shutdown ends it.
Respond(c) ==
  /\ Alive
  /\ \E keepAlive \in BOOLEAN : (keepAlive => main # "shutdown") /\ Finish(c, keepAlive)
  /\ UNCHANGED serverVars

Main == StartAdmin \/ StartMain \/ BindFails \/ ServeFails \/ Notify \/ TermKills \/ Term \/ Latch
        \/ Shutdown \/ ShutdownReturns \/ BudgetExpires

Next ==
  \/ Main \/ Cycle \/ Probe \/ Refuse
  \/ \E c \in Conns : Accept(c) \/ CloseIdle(c) \/ Request(c) \/ Serve(c) \/ Respond(c)

\* main() runs on, and its timers fire; nothing is assumed of requests and peers.
Fairness == WF_vars(Latch) /\ WF_vars(Shutdown) /\ WF_vars(BudgetExpires)

Spec == Init /\ [][Next]_vars /\ Fairness

-----------------------------------------------------------------------------
(* Properties.                                                             *)

(* Once the main port has been bound, the load balancer is refused a       *)
(* connection only if it did not probe in the drain delay: one probe there *)
(* is enough to take the server out, and nothing puts it back in.  Before, *)
(* /readyz may already answer 200 while the port is not bound.             *)
RefusedOnlyUnprobed == "late" \in refused => ~probed

(* Once a signal is received the process ends, whatever hangs in a request.*)
DrainEnds == term ~> main \in Ended

=============================================================================
