---------------------------- MODULE WorkerContract ----------------------------
(***************************************************************************)
(* What every worker of the pipeline promises about one request: it either *)
(* refuses the request untouched or executes its steps one after the       *)
(* other, asks a peer for one thing at a time, and says 200 only when its  *)
(* own steps are done and, unless its segment is the last one, the         *)
(* forwarded rest of the route has been heard of.                          *)
(*                                                                         *)
(* The contract is a relation between the states of one request before and *)
(* after a step; requests move independently, also several in one step (a  *)
(* POST moves its caller and its callee, a crash every request of a        *)
(* container).                                                             *)
(***************************************************************************)
EXTENDS Integers

CONSTANTS Requests

VARIABLES req

(* unasked  nobody has posted it            asked    posted, not yet looked at *)
(* working  between two steps or in one     asking   a peer has been posted to *)
(* over     with `answer', or "lost": the caller gets no answer                *)
(* `todo' steps are to be executed, `done' are; `last': no segment follows.    *)
Unasked == [state |-> "unasked", todo |-> 0, done |-> 0, last |-> FALSE, answer |-> "none"]

Asked == [Unasked EXCEPT !.state = "asked"]

Over(a, o) == [a EXCEPT !.state = "over", !.answer = o]

(* Somebody posts it; perhaps nobody listens.                              *)
Posted(a, b) == a = Unasked /\ b \in {Asked, Over(Unasked, "lost")}

Refused(a, b) == a = Asked /\ b = Over(Asked, "400")

Admitted(a, b) ==
  /\ a = Asked
  /\ b.todo \in Nat \ {0} /\ b.last \in BOOLEAN
  /\ b = [Asked EXCEPT !.state = "working", !.todo = b.todo, !.last = b.last]

(* A step by itself, a peer asked, and its 200 for a step.                 *)
Worked(a, b) ==
  a.state = "working" /\ a.done < a.todo /\ b = [a EXCEPT !.done = @ + 1]

Sent(a, b) ==
  /\ a.state = "working"
  /\ a.done < a.todo \/ ~a.last
  /\ b = [a EXCEPT !.state = "asking"]

Heeded(a, b) ==
  /\ a.state = "asking" /\ a.done < a.todo
  /\ b = [a EXCEPT !.state = "working", !.done = @ + 1]

Finished(a, b) ==
  /\ a.done = a.todo
  /\ a.state = IF a.last THEN "working" ELSE "asking"
  /\ b = Over(a, "200")

(* No 400 once a step has been begun, unless all of them have been done:   *)
(* then the rest of the route is at fault.                                 *)
Failed(a, b) ==
  /\ a.state \in {"working", "asking"}
  /\ \/ b \in {Over(a, "500"), Over(a, "502")}
     \/ ~a.last /\ a.done = a.todo /\ b = Over(a, "400")

(* The worker dies, or gives the request up without a word.                *)
Lost(a, b) == a.state \in {"asked", "working", "asking"} /\ b = Over(a, "lost")

Moves(a, b) ==
  \/ Posted(a, b) \/ Refused(a, b) \/ Admitted(a, b) \/ Worked(a, b) \/ Sent(a, b)
  \/ Heeded(a, b) \/ Finished(a, b) \/ Failed(a, b) \/ Lost(a, b)

Init == req = [r \in Requests |-> Unasked]

Next ==
  /\ DOMAIN req' = Requests
  /\ \A r \in Requests : req'[r] = req[r] \/ Moves(req[r], req'[r])

Spec == Init /\ [][Next]_req
=============================================================================
