----------------------------- MODULE MCRuntime -----------------------------
(***************************************************************************)
(* Two threads and six programs: SQLite, Postgres and plugins, a queue,    *)
(* files and sockets, workflows, and notifications.                        *)
(***************************************************************************)
EXTENDS Workflow

CONSTANTS t1, t2, none

MCWord == -8 .. 7
MCEnv  == "HOME" :> Words("home")
Mix(a, b) == t1 :> a @@ t2 :> b
MCMixes ==
  {Mix({"sqlite", "db_execute", "db_query"}, {"stop"}),
   Mix({"postgres", "db_execute", "db_query"}, {"plugin", "stop"}),
   Mix({"mq_connect", "mq_publish", "stop"},
       {"mq_connect", "mq_consume", "stop", "builtin", "unsupported"}),
   Mix({"file_open", "tcp_connect", "stop", "io"},
       {"tcp_listen", "tcp_accept", "stop", "io"}),
   Mix({"start", "advance", "overdue"}, {"advance"}),
   Mix({"sqlite", "send", "stop"}, {"postgres", "plugin", "notify"})}
MCCeiling == [tcp |-> 2, file |-> 1, db |-> 1, plugin |-> 1, mq |-> 2]
MCPgColumns == [int2 |-> -2 .. 1, int8 |-> MCWord, float4 |-> {0, 2}, float8 |-> MCWord,
                text |-> {}, bool |-> {}]

Insert1 == [chars |-> <<"insert", "'", "?", "'", "?", "--", "'", "\n", "end">>, params |-> 1]
Bare    == [chars |-> <<"select", "--", "?">>, params |-> 0]
MCStatements == {Insert1, Bare}
NaN     == [Val(0) EXCEPT !.tag = 1]
MCBinds == {none, [ty |-> "i64", v |-> Val(3)], [ty |-> "f64", v |-> Val(2)],
            [ty |-> "f64", v |-> NaN], [ty |-> "str", v |-> StrVal(Words("x"))],
            [ty |-> "str", v |-> StrVal(JNum(3))], [ty |-> "bool", v |-> Val(1)]}

Doc == JObj(("s" :> JStr(Words("text"))) @@ ("n" :> JNum(9)) @@ ("b" :> JNum(1)))
MCDocs  == {Doc, JArr(<<Doc>>), Words("}")}
MCKeys  == {"s", "n", "b", "HOME"}
MCStrings == {Words("w")}
MCAnswers == {[status |-> 404, body |-> Words("body")], NoAnswer}

St(n, out, sla, acts) ==
  [name |-> n, terminal |-> out = <<>>, sla |-> sla, on_entry |-> acts, on_exit |-> acts,
   transitions |-> out]
Go(e, s) == [event |-> e, target |-> s, link |-> FALSE]
Wf(states) == [data |-> {}, states |-> states]
Order  == Wf(<<St("Open", <<Go("pay", "Paid"), Go("hold", "Open")>>, 1, 1),
               St("Paid", <<Go("ship", "Done")>>, none, 0), St("Done", <<>>, none, 0)>>)
Claim  == Wf(<<St("Open", <<Go("ship", "Done")>>, none, 0), St("Done", <<>>, none, 0)>>)
Stuck  == Wf(<<[St("Open", <<>>, none, 0) EXCEPT !.terminal = FALSE]>>)
Linked == Wf(<<St("Open", <<[Go("ok", "Open") EXCEPT !.link = TRUE]>>, none, 0)>>)
MCPrograms == {"order" :> Order @@ "claim" :> Claim, "order" :> Stuck, "order" :> Linked,
               "order" :> Wf(<<St("Open", <<Go("pay", "Gone")>>, none, 0)>>)}
MCExtracted == Order @@ [name |-> "order"]
=============================================================================
