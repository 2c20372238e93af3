---------------------------- MODULE MCEdgeServer ----------------------------
(* A small instance of EdgeServer: two connections, every handler on one.  *)
EXTENDS EdgeServer

CONSTANTS c1, c2

MCConns == {c1, c2}

MCUuids == {"uuid"}

\* An exported bundle with both of Next's layouts, files and directories.
MCFiles == {<<"index.html">>, <<"login.html">>, <<"dashboard", "index.html">>,
            <<"_next", "app.js">>}
MCHtml  == [p \in {<<"login">>, <<"signup">>} |-> IF p = <<"login">> THEN <<"login.html">>
                                                  ELSE <<"signup.html">>]

In(method, path, form, cookie) ==
  [method |-> method, path |-> path, form |-> form, cookie |-> cookie]

Subscription(u, v) == <<"api", "users", u, "modules", v>>

EveryHandler ==
  {In("POST", <<"api", "login">>, "clean", FALSE),
   In("POST", <<"api", "signup">>, "clean", FALSE),
   In("POST", <<"api", "logout">>, "clean", TRUE),
   In("GET", <<"api", "me">>, "clean", TRUE),
   In("GET", <<"api", "modules">>, "clean", TRUE),
   In("DELETE", Subscription("uuid", "uuid"), "clean", TRUE),
   In("POST", Subscription("uuid", "other"), "clean", TRUE),
   In("GET", <<"api", "me">>, "slash", TRUE),
   In("GET", <<"dashboard", "index.html">>, "unclean", TRUE),
   In("GET", <<"dashboard", "other">>, "clean", FALSE),
   In("GET", <<>>, "slash", TRUE),
   In("GET", <<"login">>, "clean", TRUE)}

MCInputs == [c \in MCConns |->
  IF c = c1 THEN EveryHandler
  ELSE {In("GET", <<"api", "modules">>, "clean", TRUE), In("GET", <<"api", "me">>, "clean", TRUE)}]

MCBackendStatuses == {200, 403}
=============================================================================
