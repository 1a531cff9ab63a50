------------------------------ MODULE PyMessage -------------------------------
(***************************************************************************)
(* The body of a POST as a python worker finds it: JSON that nobody has    *)
(* looked at yet.  Payload and Workers speak of messages that parse; here  *)
(* are the ones that do not, and the places in the handler where that is   *)
(* noticed.                                                                *)
(*                                                                         *)
(* A body is [form, route, counter, ctx]: `form' is "object", "junk" for   *)
(* what is not JSON or no object, or "raises" for what nobody catches: a   *)
(* Content-Length that is no number, JSON nested too deep or with a number *)
(* too long for python, a lone surrogate, which print() refuses; route =   *)
(* <<>> stands for an absent, empty or ill-typed "route", `counter' for    *)
(* whether "counter" can be raised as an integer and "table_of_workers"    *)
(* is a list; `ctx' whether a traceparent comes with it.                   *)
(***************************************************************************)
EXTENDS Integers, Sequences

CONSTANTS
  Tidy,      \* Tidy[s]: the text s stripped and in lower case
  NoTexts,   \* an "id" that is absent or no string
  Foreign    \* values whose repr() has a character that is not in Latin-1

Texts == DOMAIN Tidy

(* A segment or step that is no JSON object is NotObject.  Its steps are   *)
(* <<>> when "processing_steps" is absent, empty or no list, or when the   *)
(* segment has the old field "processing_time".  A step is a CPU block or  *)
(* a nested route.  Its time is "ok", "bad", or "raises": an integer that  *)
(* float() cannot hold, or a bad text that is foreign and quoted.          *)
Object(id, visited, steps) ==
  [object |-> TRUE, id |-> id, visited |-> visited, steps |-> steps]
NotObject == [object |-> FALSE, id |-> "", visited |-> FALSE, steps |-> <<>>]

CpuStep(time) == [object |-> TRUE, time |-> time, nested |-> FALSE, route |-> <<>>]
NestedStep(time, route) == [object |-> TRUE, time |-> time, nested |-> TRUE, route |-> route]
BadStep == [object |-> FALSE, time |-> "bad", nested |-> FALSE, route |-> <<>>]

IsArray(s) == s \in Seq({s[i] : i \in DOMAIN s})

IsBody(b) ==
  /\ b.form \in {"object", "junk", "raises"} /\ {b.counter, b.ctx} \subseteq BOOLEAN
  /\ IsArray(b.route)
  /\ \A j \in DOMAIN b.route :
       /\ b.route[j].visited \in BOOLEAN /\ IsArray(b.route[j].steps)
       /\ \A k \in DOMAIN b.route[j].steps : b.route[j].steps[k].nested \in BOOLEAN

Named(id) == id \notin NoTexts /\ Tidy[id] # ""

(* The index of the first unvisited segment, 0 if there is none.           *)
FirstUnvisitedIndex(route) ==
  LET open == {i \in DOMAIN route : ~route[i].visited}
  IN  IF open = {} THEN 0 ELSE CHOOSE i \in open : \A j \in open : i <= j

SchemaOk(seg) == seg.steps # <<>>

(* `home': the ids a nested route must not begin with.                     *)
NestedRouteOk(route, home) ==
  /\ route # <<>>
  /\ \A j \in DOMAIN route : route[j].object /\ Named(route[j].id) /\ SchemaOk(route[j])
  /\ Tidy[route[1].id] \notin home

StepShaped(s, home) == s.object /\ (s.nested => NestedRouteOk(s.route, home))
StepOk(s, home) == StepShaped(s, home) /\ s.time = "ok"

StepsOk(seg, home) == SchemaOk(seg) /\ \A k \in DOMAIN seg.steps : StepOk(seg.steps[k], home)

(* The first step that is not in order decides how its segment is refused. *)
StepsRaise(seg, home) ==
  /\ SchemaOk(seg)
  /\ \E k \in DOMAIN seg.steps :
       /\ \A j \in 1 .. k - 1 : StepOk(seg.steps[j], home)
       /\ StepShaped(seg.steps[k], home) /\ seg.steps[k].time = "raises"

(* What the copies of _handle_route look at before they open a span: the   *)
(* segment ids are compared as they are, banned ids and the ids of nested  *)
(* routes after tidying, and steps of later segments are not looked at.    *)
Segment(body) == body.route[FirstUnvisitedIndex(body.route)]

Routed(body) ==
  /\ body.route # <<>>
  /\ \A j \in DOMAIN body.route : body.route[j].object
  /\ FirstUnvisitedIndex(body.route) # 0

Unbanned(body) ==
  \A j \in DOMAIN body.route :
    body.route[j].id \notin NoTexts => Tidy[body.route[j].id] # "py"

Accepts(id, body, home) == Routed(body) /\ Segment(body).id = id /\ StepsOk(Segment(body), home)

(* send_error puts its reason into the status line, in Latin-1.  A refusal *)
(* that quotes a foreign id raises instead, and the client gets nothing.   *)
Raises(id, body, home) ==
  /\ Routed(body)
  /\ IF Segment(body).id = id THEN StepsRaise(Segment(body), home)
     ELSE {id, Segment(body).id} \cap Foreign # {}

Admissible(id, body) == Accepts(id, body, {"py", "py-gateway"}) /\ Unbanned(body)
AdmissionRaises(id, body) == Raises(id, body, {"py", "py-gateway"}) /\ Unbanned(body)

(* workers/python_gateway: "py" is an id like others, its own.             *)
LegacyAdmissible(id, body) == Accepts(id, body, {"py"})
LegacyAdmissionRaises(id, body) == Raises(id, body, {"py"})

StepsOfBody(body) == Segment(body).steps

(* The route once this worker's segment is visited.                        *)
Marked(route) == [route EXCEPT ![FirstUnvisitedIndex(route)].visited = TRUE]

(* The id the message is forwarded to, looked at for the first time once   *)
(* all steps are done.                                                     *)
LastHop(body) == FirstUnvisitedIndex(Marked(body.route)) = 0
NextId(body) == LET r == Marked(body.route) IN r[FirstUnvisitedIndex(r)].id
=============================================================================
