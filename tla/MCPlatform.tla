------------------------------ MODULE MCPlatform ------------------------------
(***************************************************************************)
(* The collectors of the agent and the web application, each with whatever *)
(* it works against.  No two of them touch the same state, so a behaviour  *)
(* is one of them at work and the rest at rest.                            *)
(***************************************************************************)
EXTENDS KubeCursor, KeycloakCursor, FileTail, NetworkSecurity, HostPosture,
        Findings, SearchPipeline, Sharing, Accounts, TLC

VARIABLE part   \* the component at work

-----------------------------------------------------------------------------
(* Sockets, sessions *)

Socket(remote, status, pid) ==
  [protocol |-> "tcp", local |-> "a", remote |-> remote, status |-> status, pid |-> pid]
\* Two processes listen at one address; one connection in two statuses; a
\* socket that is neither, and one without a process.
MCSockets ==
  {Socket("none", "LISTEN", "p"), Socket("none", "LISTEN", "q"), Socket("r", "ESTABLISHED", "p"),
   Socket("r", "CLOSE_WAIT", "p"), Socket("none", "NONE", "none"), Socket("s", "TIME_WAIT", "none")}

\* Two sessions that agree in what they are sorted by.
MCSessions == {[id |-> 1, key |-> 1], [id |-> 2, key |-> 2], [id |-> 3, key |-> 2]}

-----------------------------------------------------------------------------
(* Findings, accounts *)

MCIndexOf == [e \in Events |-> "default"]
MCRules == {[split |-> TRUE, allow |-> {"default"}, deny |-> {}]}

MCFolded == [n \in Usernames |-> IF n = "Ann" THEN "ann" ELSE n]
MCGroupMap == [r \in Roles |-> IF r = "analyst" THEN {"Analysts"} ELSE {}]

-----------------------------------------------------------------------------
(* Tables and stages.  The rows have nulls, ties, arrays, objects and objects in them. *)

MCFields == {"host", "n", "data"}
x1 == Val(1)
x2 == Val(2)
Row(h, n, d) == [host |-> h, n |-> Val(n), data |-> d]
MCTables == {
  <<Row(x1, 3, Map([k |-> x1])), Row(x2, 1, Arr(<<x1, x2>>)), Row(x1, 2, Map([m |-> x2]))>>,
  <<Row(Null, 2, Arr(<<>>)), Row(x2, 1, Null), Row(Null, 3, Map([k |-> x1]))>>,
  <<[Row(x1, 0, Map([k |-> x1, o |-> Map([m |-> x2])])) EXCEPT !.n = Null]>>}

Cond(p, op, v) == [path |-> p, op |-> op, val |-> v]
Asc(f) == [f |-> f, desc |-> FALSE]
Desc(f) == [f |-> f, desc |-> TRUE]
Q(i) == Call("Q", Cond(<<"n">>, "gte", Val(i)))
Search == [cmd |-> "search", model |-> "events", filters |-> <<>>, excludes |-> <<>>,
           keys |-> <<>>, fields |-> {}, limit |-> NoLimit]
Counted == [count |-> [fn |-> "count", f |-> ""]]

MCCommands == {
  Search,
  [Search EXCEPT !.model = "users"],
  [Search EXCEPT !.filters = <<Cond(<<"n">>, "gte", x2)>>, !.keys = <<Desc("n")>>, !.limit = 2],
  [Search EXCEPT !.excludes = <<Cond(<<"host">>, "exact", x1)>>, !.fields = {"host", "n"}],
  [cmd |-> "filter", cond |-> Cond(<<"host">>, "exact", x1)],
  [cmd |-> "filter", cond |-> Cond(<<"n">>, "gte", x2)],
  [cmd |-> "filter", cond |-> Cond(<<"data", "k">>, "exact", x1)],
  [cmd |-> "filter", cond |-> Cond(<<"count">>, "gte", x2)],
  [cmd |-> "head", n |-> 2],
  [cmd |-> "tail", n |-> 2],
  [cmd |-> "sort", keys |-> <<Asc("n")>>],
  [cmd |-> "sort", keys |-> <<Desc("host"), Asc("n")>>],
  [cmd |-> "dedup", fields |-> {"host"}, keep |-> "last"],
  [cmd |-> "unique", fields |-> {"host"}],
  [cmd |-> "select", fields |-> {"host", "n"}],
  [cmd |-> "drop", fields |-> {"host"}],
  [cmd |-> "rename", old |-> "host", new |-> "h"],
  [cmd |-> "fillnull", field |-> "host", val |-> x1],
  [cmd |-> "event_split", field |-> "data"],
  [cmd |-> "explode", field |-> "data"],
  [cmd |-> "groupby", fields |-> {"host"}, aggs |-> Counted],
  [cmd |-> "stats", fields |-> {"host"}, aggs |-> [max |-> [fn |-> "max", f |-> "n"]]],
  [cmd |-> "stats", fields |-> {"host"}, aggs |-> [sum |-> [fn |-> "sum", f |-> "n"]]],
  [cmd |-> "stats", fields |-> {}, aggs |-> Counted],
  [cmd |-> "annotate", out |-> "next", expr |-> Binary("-", Call("F", Name("n")), Constant(1))],
  [cmd |-> "annotate", out |-> "odd", expr |-> Name("n")],
  [cmd |-> "annotate", out |-> "both", expr |-> Binary("&", Q(2), Q(3))],
  [Search EXCEPT !.cmd = "join", !.fields = {"host", "n"}, !.filters = <<Cond(<<"n">>, "gte", x2)>>]
    @@ [on |-> {"host"}, how |-> "left"],
  [cmd |-> "to_dataframe"]}

-----------------------------------------------------------------------------

platformVars == <<part, kubeVars, kcVars, tailVars, networkVars, postureVars, findingVars,
                  searchVars, sharingVars, accountVars>>

PlatformInit ==
  /\ part \in {"kube", "keycloak", "tail", "network", "posture", "findings", "search", "sharing",
               "accounts"}
  /\ KubeInit /\ KeycloakInit /\ TailInit /\ NetworkInit
  /\ PostureInit /\ (part # "posture" => system = "Linux")
  /\ FindingsInit
  /\ SearchInit /\ (part # "search" => table = CHOOSE t \in Tables : TRUE)
  /\ SharingInit
  /\ AccountsInit /\ realm["a"].name = "ann" /\ (part # "accounts" => realm["b"].name = "ann")

RunKube ==
  /\ part = "kube" /\ KubeNext
  /\ UNCHANGED <<part, kcVars, tailVars, networkVars, postureVars, findingVars, searchVars,
                 sharingVars, accountVars>>
RunKeycloak ==
  /\ part = "keycloak" /\ KeycloakNext
  /\ UNCHANGED <<part, kubeVars, tailVars, networkVars, postureVars, findingVars, searchVars,
                 sharingVars, accountVars>>
RunTail ==
  /\ part = "tail" /\ TailNext
  /\ UNCHANGED <<part, kubeVars, kcVars, networkVars, postureVars, findingVars, searchVars,
                 sharingVars, accountVars>>
RunNetwork ==
  /\ part = "network" /\ NetworkNext
  /\ UNCHANGED <<part, kubeVars, kcVars, tailVars, postureVars, findingVars, searchVars,
                 sharingVars, accountVars>>
RunPosture ==
  /\ part = "posture" /\ PostureNext
  /\ UNCHANGED <<part, kubeVars, kcVars, tailVars, networkVars, findingVars, searchVars,
                 sharingVars, accountVars>>
RunFindings ==
  /\ part = "findings" /\ FindingsNext
  /\ UNCHANGED <<part, kubeVars, kcVars, tailVars, networkVars, postureVars, searchVars,
                 sharingVars, accountVars>>
RunSearch ==
  /\ part = "search" /\ SearchNext
  /\ UNCHANGED <<part, kubeVars, kcVars, tailVars, networkVars, postureVars, findingVars,
                 sharingVars, accountVars>>
RunSharing ==
  /\ part = "sharing" /\ SharingNext
  /\ UNCHANGED <<part, kubeVars, kcVars, tailVars, networkVars, postureVars, findingVars,
                 searchVars, accountVars>>
RunAccounts ==
  /\ part = "accounts" /\ AccountsNext
  /\ UNCHANGED <<part, kubeVars, kcVars, tailVars, networkVars, postureVars, findingVars,
                 searchVars, sharingVars>>

PlatformNext ==
  RunKube \/ RunKeycloak \/ RunTail \/ RunNetwork \/ RunPosture \/ RunFindings \/ RunSearch
  \/ RunSharing \/ RunAccounts

PlatformSpec == PlatformInit /\ [][PlatformNext]_platformVars
=============================================================================
