------------------------------- MODULE Workers -------------------------------
(***************************************************************************)
(* What the six implementations of a pipeline worker decide: which request *)
(* they accept, which processing step they can execute, and what they do   *)
(* with the outcome of a POST to a peer.  The contract is shared; the      *)
(* places where the languages differ are the reason for this module.       *)
(*                                                                         *)
(*   py  pipeline_server.py (containers py-gateway and py-worker)          *)
(*   rs  axum      go  net/http      ja  com.sun.net.httpserver            *)
(*   cs  Kestrel   js  node:http                                           *)
(*                                                                         *)
(* A definition marked "slip" is a mistake somebody could make in the code *)
(* of the definition below it.  No model uses it; README.md says which run *)
(* notices which slip.                                                     *)
(***************************************************************************)
EXTENDS Payload

Langs == {"py", "rs", "go", "ja", "cs", "js"}

(* The status codes a worker answers a well-formed POST with, and what a   *)
(* client can see instead of an answer: nobody listens, the connection is  *)
(* reset, the connection ends without an answer, its own timer fires, the  *)
(* request it was working for has been cancelled.                          *)
Statuses == {"200", "400", "500", "502"}
Faults   == {"refused", "reset", "eof", "timeout", "cancelled"}
Outcomes == Statuses \cup Faults

-----------------------------------------------------------------------------
(* Accepting a request.  Everything refused here is answered with 400.     *)

AddressedToAnyone(id, p) == Hops[p.route] # <<>> /\ ~Complete(p) /\ Segment(p).steps # <<>>  \* slip

(* What all of them check before looking at the steps.                     *)
Addressed(id, p) ==
  /\ Hops[p.route] # <<>>
  /\ ~Complete(p)
  /\ Segment(p).id = id
  /\ Segment(p).steps # <<>>

StepsOf(p) == LET s == Segment(p).steps IN {s[k] : k \in DOMAIN s}

(* A nested_route: non-empty, every segment has steps, and it does not     *)
(* start at one of the barred ids.                                         *)
NestedOk(r, barred) ==
  /\ Hops[r] # <<>>
  /\ \A j \in DOMAIN Hops[r] : Hops[r][j].steps # <<>>
  /\ Hops[r][1].id \notin barred

PyStepOk(s) == s # Invalid /\ (s \in Routes => NestedOk(s, {"py", "py-gateway"}))

PyAdmits(id, p) ==
  /\ \A i \in DOMAIN Hops[p.route] : Hops[p.route][i].id # "py"
  /\ Addressed(id, p)
  /\ \A s \in StepsOf(p) : PyStepOk(s)

RsStepOk(s) == s # Invalid /\ (s \in Routes => NestedOk(s, {"py", "py-gateway"}))

RsAdmits(id, p) == Addressed(id, p) /\ \A s \in StepsOf(p) : RsStepOk(s)

(* An empty nested_route is no nested step at all for go and cs.           *)
GoStepOk(s) ==
  s # Invalid /\ (s \in Routes => Hops[s] = <<>> \/ NestedOk(s, {"py", "py-gateway"}))

GoAdmits(id, p) == Addressed(id, p) /\ \A s \in StepsOf(p) : GoStepOk(s)

CsStepOk(s) ==
  s # Invalid /\ (s \in Routes => Hops[s] = <<>> \/ NestedOk(s, {"py", "py-gateway"}))

CsAdmits(id, p) == Addressed(id, p) /\ \A s \in StepsOf(p) : CsStepOk(s)

JsStepOk(s) == s # Invalid /\ (s \in Routes => NestedOk(s, {"py"}))

JsAdmits(id, p) == Addressed(id, p) /\ \A s \in StepsOf(p) : JsStepOk(s)

(* Java looks at a step only when its turn comes.                          *)
JaAdmits(id, p) == Addressed(id, p)

Admits(lang, id, p) ==
  CASE lang = "py" -> PyAdmits(id, p)
    [] lang = "rs" -> RsAdmits(id, p)
    [] lang = "go" -> GoAdmits(id, p)
    [] lang = "ja" -> JaAdmits(id, p)
    [] lang = "cs" -> CsAdmits(id, p)
    [] lang = "js" -> JsAdmits(id, p)

-----------------------------------------------------------------------------
(* Executing a step.                                                       *)

(* Java's late validation: the step raises, and the request ends in 502    *)
(* with the steps before it already executed.                              *)
JaStepFails(id, s) ==
  \/ s = Invalid
  \/ s \in Routes /\ (Hops[s] = <<>> \/ Hops[s][1].id = id)

StepFails(lang, id, s) == lang = "ja" /\ JaStepFails(id, s)

StepIsNested(lang, s) ==
  s \in Routes /\ (lang \in {"go", "cs"} => Hops[s] # <<>>)

-----------------------------------------------------------------------------
(* The outcome of a POST to a peer.  After a nested_route POST the handler *)
(* either goes on with its next step or answers with a status; after a     *)
(* forward it always answers, with the body of the peer when the status is *)
(* relayed.                                                                *)

PyAfterNested(o) == IF o = "200" THEN "next" ELSE "502"
RsAfterNested(o) == IF o = "200" THEN "next" ELSE "502"
GoAfterNested(o) == IF o = "200" THEN "next" ELSE "502"
JaAfterNested(o) == IF o = "200" THEN "next" ELSE "502"
JsAfterNested(o) == IF o = "200" THEN "next" ELSE "502"

(* HttpClient.SendAsync raises on a fault and nothing catches it.          *)
CsAfterNested(o) ==
  IF o = "200" THEN "next" ELSE IF o \in Statuses THEN "502" ELSE "500"

FaultTakenForOk(o) == IF o \in Statuses THEN o ELSE "200"   \* slip

RsAfterForward(o) == IF o \in Statuses THEN o ELSE "502"
GoAfterForward(o) == IF o \in Statuses THEN o ELSE "502"
JaAfterForward(o) == IF o \in Statuses THEN o ELSE "502"
JsAfterForward(o) == IF o \in Statuses THEN o ELSE "502"
CsAfterForward(o) == IF o \in Statuses THEN o ELSE "500"

(* urlopen raises HTTPError on every status that is not 2xx, an OSError on *)
(* a fault.  An "eof" is a connection that ends without any answer; one    *)
(* that ends within an answer, for which python has no except clause, is   *)
(* "torn" in PythonServer.                                                 *)
PyAfterForward(o) == IF o = "200" THEN "200" ELSE "502"

AfterNested(lang, o) ==
  CASE lang = "py" -> PyAfterNested(o)
    [] lang = "rs" -> RsAfterNested(o)
    [] lang = "go" -> GoAfterNested(o)
    [] lang = "ja" -> JaAfterNested(o)
    [] lang = "cs" -> CsAfterNested(o)
    [] lang = "js" -> JsAfterNested(o)

AfterForward(lang, o) ==
  CASE lang = "py" -> PyAfterForward(o)
    [] lang = "rs" -> RsAfterForward(o)
    [] lang = "go" -> GoAfterForward(o)
    [] lang = "ja" -> JaAfterForward(o)
    [] lang = "cs" -> CsAfterForward(o)
    [] lang = "js" -> JsAfterForward(o)

(* httpPostJSON: go alone posts again, up to three times, after a fault it *)
(* takes for transient; a reset does not tell it whether the peer has      *)
(* already worked on the request.                                          *)
GoMaxAttempts == 3
TransientEof(o) == o \in {"refused", "reset", "eof"}   \* slip
GoTransient(o) == o \in {"refused", "reset"}
PostsAgain(lang, o, tries) == lang = "go" /\ GoTransient(o) /\ tries < GoMaxAttempts

-----------------------------------------------------------------------------
(* The HTTP server and client around the handler.                          *)

(* HttpServer with setExecutor(null) runs handlers on its dispatcher       *)
(* thread: one request at a time, the wait for a peer included.            *)
SerialToo(lang) == lang \in {"ja", "go"}   \* slip
Serial(lang) == lang = "ja"

(* reqwest::Client::new() has no timeout; all other clients have one.      *)
TimerLeftOut(lang) == lang \notin {"rs", "ja"}   \* slip
HasTimer(lang) == lang # "rs"

(* When the caller hangs up, hyper drops the handler's future and net/http *)
(* cancels the request context; the other servers do not notice.           *)
DropsAbandoned(lang) == lang = "rs"
CancelsAbandoned(lang) == lang = "go"
=============================================================================
