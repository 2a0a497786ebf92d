------------------------------ MODULE McpServer ------------------------------
(***************************************************************************)
(* The dispatch of mcpserver/server.go: what becomes of one JSON-RPC line. *)
(* A line is the facts dispatch looks at: does it parse, does it say       *)
(* "2.0", does it carry an id, and its method.                             *)
(***************************************************************************)

Plain         == {"initialize", "tools/list", "ping"}
Notifications == {"notifications/initialized", "notifications/cancelled"}
Methods       == Plain \cup Notifications \cup {"tools/call", "other"}

Lines == [ json : BOOLEAN, v2 : BOOLEAN, id : BOOLEAN, method : Methods ]

\* A notification omits the id.
Notification(m) == ~m.id

\* The way dispatch takes: the response it gives, "call" for a tool, or
\* "silent".  The id is only looked at on two of the ways.
Dispatch(m) ==
  CASE ~m.json                                       -> "parseError"
    [] m.json /\ ~m.v2 /\ m.id                       -> "invalidRequest"
    [] m.json /\ ~m.v2 /\ ~m.id                      -> "silent"
    [] m.json /\ m.v2 /\ m.method \in Plain          -> "result"
    [] m.json /\ m.v2 /\ m.method = "tools/call"     -> "call"
    [] m.json /\ m.v2 /\ m.method \in Notifications  -> "silent"
    [] m.json /\ m.v2 /\ m.method = "other" /\ m.id  -> "methodMissing"
    [] m.json /\ m.v2 /\ m.method = "other" /\ ~m.id -> "silent"
=============================================================================
