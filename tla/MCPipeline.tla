----------------------------- MODULE MCPipeline ------------------------------
(***************************************************************************)
(* Instances of Pipeline for TLC.  The containers are those of             *)
(* docker-compose.yml; the routes are the shapes of the generator's        *)
(* routes/ files and of the requests that stress what they do not.         *)
(***************************************************************************)
EXTENDS PipelineContract

MCIds == {"py-gateway", "py-worker", "rs", "go", "ja", "cs", "js", "py"}

\* gateway-python, worker-python and one container of every other default
\* service; "js" is the nodejs profile, off by default.
Compose == {"gw", "pw", "rs", "go", "ja", "cs"}
WithNode == Compose \cup {"js"}

MCLangOf(nodes) == [n \in nodes |-> IF n \in {"gw", "pw"} THEN "py" ELSE n]
MCIdOf(nodes) ==
  [n \in nodes |-> CASE n = "gw" -> "py-gateway" [] n = "pw" -> "py-worker" [] OTHER -> n]
MCPeers(nodes) ==
  [n \in nodes |-> [i \in MCIds |-> {m \in nodes : MCIdOf(nodes)[m] = i}]]

ComposeLangOf == MCLangOf(Compose)
ComposeIdOf   == MCIdOf(Compose)
ComposePeers  == MCPeers(Compose)

WithNodeLangOf == MCLangOf(WithNode)
WithNodeIdOf   == MCIdOf(WithNode)

\* go resolved the name of the java worker once, at its start, and the address
\* has since gone to another container: it may reach either.
StalePeers ==
  [MCPeers(WithNode) EXCEPT !["go"]["ja"] = {"ja", "cs"}, !["js"]["rs"] = {"rs", "pw"}]

Seg(i, s) == [id |-> i, steps |-> s]

MCHops ==
  [ \* routes/3-nested-route.json, its sub-pipeline one hop shorter, one step per segment
    nested   |-> <<Seg("py-gateway", <<"cpu">>), Seg("rs", <<"chain">>), Seg("cs", <<"cpu">>)>>,
    chain    |-> <<Seg("go", <<"cpu">>), Seg("ja", <<"cpu">>), Seg("go", <<"cpu">>)>>,
    \* a java worker on the way of a second request
    java     |-> <<Seg("py-gateway", <<"cpu">>), Seg("ja", <<"cpu">>)>>,
    \* sub-pipelines of the other languages
    cshost   |-> <<Seg("py-gateway", <<"gocs">>), Seg("cs", <<"gocs">>), Seg("ja", <<"gocs">>)>>,
    gocs     |-> <<Seg("go", <<"cpu">>), Seg("cs", <<"cpu">>)>>,
    \* a route that comes back to java
    again    |-> <<Seg("py-gateway", <<"cpu">>), Seg("ja", <<"cpu">>), Seg("go", <<"cpu">>),
                   Seg("ja", <<"cpu">>)>>,
    \* the same through a sub-pipeline and a worker without a timer
    deep     |-> <<Seg("py-gateway", <<"cpu">>), Seg("ja", <<"rsja">>), Seg("cs", <<"cpu">>)>>,
    rsja     |-> <<Seg("rs", <<"cpu">>), Seg("ja", <<"cpu">>)>>,
    \* go in the middle: who repeats what after a crash
    gomid    |-> <<Seg("go", <<"rscs">>), Seg("rs", <<"cpu">>), Seg("cs", <<"cpu">>)>>,
    rscs     |-> <<Seg("rs", <<"cpu">>), Seg("cs", <<"cpu">>)>>,
    \* through workers with stale peer addresses
    stale    |-> <<Seg("go", <<"cpu">>), Seg("ja", <<"jars">>), Seg("js", <<"cpu">>)>>,
    jars     |-> <<Seg("js", <<"cpu">>), Seg("rs", <<"cpu">>)>>,
    \* malformed requests
    badja    |-> <<Seg("py-gateway", <<"cpu">>), Seg("ja", <<"gocs", "bad">>)>>,
    selfja   |-> <<Seg("py-gateway", <<"cpu">>), Seg("ja", <<"jacs">>)>>,
    jacs     |-> <<Seg("ja", <<"cpu">>), Seg("cs", <<"cpu">>)>>,
    badrs    |-> <<Seg("py-gateway", <<"cpu">>), Seg("go", <<"cpu">>), Seg("rs", <<"bad">>)>>,
    badgw    |-> <<Seg("py-gateway", <<"gocs", "gwrs">>), Seg("rs", <<"cpu">>)>>,
    gwrs     |-> <<Seg("py-gateway", <<"cpu">>), Seg("rs", <<"cpu">>)>>,
    empty    |-> <<>>,
    noempty  |-> <<Seg("py-gateway", <<"cpu">>), Seg("go", <<"empty">>), Seg("cs", <<"empty">>)>>,
    legacy   |-> <<Seg("py-gateway", <<"gocs">>), Seg("py", <<"cpu">>)>>,
    nosteps  |-> <<Seg("py-gateway", <<"cpu">>), Seg("cs", <<>>)>>,
    nopeer   |-> <<Seg("py-gateway", <<"cpu">>), Seg("cs", <<"cpu">>), Seg("js", <<"cpu">>)>>,
    nopeer2  |-> <<Seg("py-gateway", <<"cpu">>), Seg("rs", <<"jars">>)>>,
    wrong    |-> <<Seg("rs", <<"cpu">>)>> ]

MCRoutes == DOMAIN MCHops

ToGateway(routes) == [to : {"gw"}, route : routes]

MixedPosts     == ToGateway({"nested", "java",
                             "badja", "selfja", "badrs", "badgw", "empty", "noempty", "legacy",
                             "nosteps", "nopeer", "nopeer2", "wrong"})
AgainPosts     == ToGateway({"again"})
ImpatientPosts == ToGateway({"deep", "nested", "again", "badja", "badgw", "nopeer2", "legacy"})
                    \cup [to : {"go"}, route : {"gomid", "chain"}]

StalePosts     == [to : {"go"}, route : {"stale"}]
=============================================================================
