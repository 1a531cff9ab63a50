--------------------------- MODULE PipelineContract ---------------------------
(***************************************************************************)
(* Every call of Pipeline, in whatever language it is served, keeps the    *)
(* contract of a worker.                                                   *)
(***************************************************************************)
EXTENDS Pipeline

(* A call that was admitted works on segment `at'; its current step is the *)
(* first that is not done.  A fault is no answer.                          *)
AsRequest(c) ==
  LET me == call[c]
      begun == me.at # 0
  IN  [state  |-> CASE me.pc = "sent" -> "asked"
                    [] me.pc = "work" -> "working"
                    [] me.pc \in {"wait", "retry"} -> "asking"
                    [] me.pc = "done" -> "over",
       todo   |-> IF begun THEN Len(Hop(c).steps) ELSE 0,
       done   |-> IF begun THEN me.step - 1 ELSE 0,
       last   |-> begun /\ me.at = Len(Hops[me.pay.route]),
       answer |-> IF me.result \in Faults THEN "lost" ELSE me.result]

Unasked == [state |-> "unasked", todo |-> 0, done |-> 0, last |-> FALSE, answer |-> "none"]

AsRequests == [c \in CallIds |-> IF c \in DOMAIN call THEN AsRequest(c) ELSE Unasked]

Contract == INSTANCE WorkerContract WITH Requests <- CallIds, req <- AsRequests

(* A worker of any language keeps the contract for every call at once: steps in
   order and each once, one peer asked at a time, a 200 only at the end, a refusal
   only at the start or for the rest of the route - under timers, retries,
   cancellation, dropped handlers and crashes. *)
KeepsContract == Contract!Spec
=============================================================================
