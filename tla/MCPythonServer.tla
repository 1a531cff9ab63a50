---------------------------- MODULE MCPythonServer ----------------------------
(***************************************************************************)
(* Instances of PythonServer: gateway-python of docker-compose.yml and     *)
(* what clients and operators may get wrong.                               *)
(***************************************************************************)
EXTENDS PythonServer

\* ids as they come; the ones with a capital or a blank are tidied.
MCTidy ==
  ("py-gateway" :> "py-gateway") @@ (" Py " :> "py") @@ ("py" :> "py") @@ ("RS" :> "rs")
  @@ ("rs" :> "rs") @@ ("go" :> "go") @@ ("" :> "") @@ ("  " :> "")
  @@ ("PY_WORKER" :> "py_worker") @@ ("py_worker" :> "py_worker")
  @@ ("py-worker" :> "py-worker") @@ ("none" :> "none") @@ ("list" :> "list")
  @@ ("l-stroke" :> "l-stroke")
MCDashed == [t \in DOMAIN MCTidy |-> IF t = "py_worker" THEN "py-worker" ELSE t]

\* "list": ["l-stroke"] as an id; "l-stroke" stands for a letter Latin-1 has not.
MCNoTexts == {"none", "list"}
MCForeign == {"list", "l-stroke"}

Cpu == <<CpuStep("ok")>>
Nested(route) == <<NestedStep("ok", route)>>
Seg(id, steps) == Object(id, FALSE, steps)
Msg(route) == [form |-> "object", route |-> route, counter |-> TRUE, ctx |-> TRUE]
Gw(steps) == Seg("py-gateway", steps)
Sub == <<Seg("rs", Cpu), Seg("py-worker", Cpu)>>

Plain    == Msg(<<Gw(Cpu), Seg("RS", Cpu)>>)
Terminal == [Msg(<<Gw(Cpu)>>) EXCEPT !.ctx = FALSE]
NestedMsg == Msg(<<Gw(Nested(Sub)), Seg("rs", <<>>)>>)
Twice    == Msg(<<Gw(Nested(Sub) \o Cpu \o Nested(Sub))>>)
Unnamed  == Msg(<<Gw(Nested(Sub)), Seg("  ", Cpu)>>)

\* What a client can get wrong, one body for each place that notices.
Wrong ==
  { [Terminal EXCEPT !.form = "junk"], [Terminal EXCEPT !.form = "raises"],
    [Plain EXCEPT !.counter = FALSE],
    Msg(<<>>), Msg(<<Gw(Cpu), NotObject>>), Msg(<<Gw(Cpu), Seg(" Py ", Cpu)>>),
    Msg(<<Object("py-gateway", TRUE, Cpu)>>), Msg(<<Seg("RS", Cpu)>>),
    Msg(<<Gw(<<>>)>>), Msg(<<Gw(Cpu \o <<BadStep>>)>>), Msg(<<Gw(Cpu \o <<CpuStep("bad")>>)>>),
    Msg(<<Gw(Cpu \o Nested(<<>>))>>), Msg(<<Gw(Nested(<<Seg("", Cpu)>>))>>),
    Msg(<<Gw(Nested(<<Seg("py-gateway", Cpu)>>))>>), Msg(<<Gw(Nested(<<Seg("rs", <<>>)>>))>>),
    Msg(<<Gw(Nested(<<Seg("go", Cpu)>>))>>), Msg(<<Gw(Cpu), Seg("go", Cpu)>>),
    Msg(<<Gw(Cpu), Seg("none", Cpu)>>),
    Msg(<<Seg("py", Nested(Sub)), Seg("py-worker", Cpu)>>),
    Msg(<<Seg("py", Nested(<<Gw(Cpu)>>)), Seg("RS", Cpu)>>),
    Msg(<<Seg("py", Cpu), Seg("py", Nested(<<Seg(" Py ", Cpu)>>))>>),
    Msg(<<Seg("py", Nested(<<Seg(" Py ", Cpu)>>))>>) }

\* Refusals that cannot be written, and next to them some that can.
Foreigners ==
  { Msg(<<Seg(id, Cpu)>>) : id \in {"l-stroke", "list", "none"} }
  \cup { Msg(<<Gw(Cpu), Seg(id, Cpu)>>) : id \in {"l-stroke", "list"} }
  \cup { Msg(<<Gw(Nested(<<Seg("l-stroke", Cpu)>>))>>), Msg(<<Gw(<<CpuStep("raises")>>)>>),
         Msg(<<Gw(<<BadStep, CpuStep("raises")>>)>>), Msg(<<Gw(<<NestedStep("raises", <<>>)>>)>>),
         Msg(<<Gw(Cpu \o <<NestedStep("raises", Sub)>>)>>),
         Msg(<<Seg("l-stroke", Cpu), Seg("py", Cpu)>>) }

Env ==
  [program |-> "gateway", mode |-> "complete", installed |-> TRUE, id |-> "py-gateway", peermap |-> "none",
   peers |-> {"RS", "PY_WORKER"}, taken |-> FALSE, export |-> "", logs |-> "otlp",
   profiler |-> "off", collector |-> "up"]
Lab == [Env EXCEPT !.mode = "lab"]
Old == [Env EXCEPT !.program = "legacy", !.id = "", !.peers = {"RS", "py-worker"}]

OneEnv == {Env}
FlakyEnv == [Env EXCEPT !.collector = "flaky"]
AnyBodyEnvs == {Env, Lab, Old, [Old EXCEPT !.id = "py-gateway"]}
BootEnvs ==
  { [Env EXCEPT !.program = g, !.mode = m, !.id = i, !.taken = b, !.export = e, !.logs = l,
                !.profiler = p] :
      g \in {"gateway", "legacy"}, m \in {"full", "lab"}, i \in {"py-gateway", ""},
      b \in BOOLEAN, e \in {"otlp", "ostream"}, l \in {"", "off"}, p \in {"off", "refused"} }
  \cup { [e EXCEPT !.installed = FALSE] : e \in AnyBodyEnvs }
  \cup { [e EXCEPT !.peermap = "junk"] : e \in AnyBodyEnvs }
  \cup { [e EXCEPT !.peers = {"rs", "py"}] : e \in AnyBodyEnvs }
  \cup { [e EXCEPT !.id = "l-stroke"] : e \in {Env, Old} }
AllEnvs == AnyBodyEnvs \cup BootEnvs \cup {FlakyEnv}

FewBodies == [e \in OneEnv |-> {Plain, Unnamed, NestedMsg}]
AllBodies ==
  [e \in AllEnvs |-> IF e \in AnyBodyEnvs
                     THEN {Plain, Terminal, NestedMsg, Twice, Unnamed} \cup Wrong \cup Foreigners
                     ELSE IF e = FlakyEnv THEN {Plain, NestedMsg, [Plain EXCEPT !.counter = FALSE]}
                     ELSE {Plain}]
=============================================================================
