------------------------------- MODULE Payload -------------------------------
(***************************************************************************)
(* The JSON message of POST /v1/pipeline and the operations every worker   *)
(* performs on it.                                                         *)
(*                                                                         *)
(* A route array is abstracted to a name r \in Routes; Hops[r] lists its   *)
(* segments.  A segment keeps its "id" and its "processing_steps"; a step  *)
(* is Cpu (a CPU block), Invalid (an entry whose "time" does not parse) or *)
(* the name of the route its "nested_route" holds.  steps = <<>> stands    *)
(* for every segment without a usable "processing_steps" array.            *)
(***************************************************************************)
EXTENDS Integers, Sequences

CONSTANTS
  Ids,      \* worker ids a segment can name ("py-gateway", "rs", ...)
  Routes,   \* names of the route arrays that occur in the traffic
  Hops,     \* Hops[r]: the segments of route r
  Cpu,      \* a processing step that only spins
  Invalid   \* a processing step that no parser accepts

Steps == Routes \cup {Cpu, Invalid}

Segments == [id : Ids, steps : Seq(Steps)]

ASSUME HopsAssumption == Hops \in [Routes -> Seq(Segments)]
ASSUME StepsAssumption == Cpu \notin Routes /\ Invalid \notin Routes /\ Cpu # Invalid

Payloads ==
  [route : Routes, visited : SUBSET Nat, log : Seq(Ids), counter : Nat, table : Seq(Ids)]

(* The body the traffic generator posts, and the body a nested_route step  *)
(* posts: nothing visited, empty visit_log, counter "0", empty table.      *)
Fresh(r) ==
  [route |-> r, visited |-> {}, log |-> <<>>, counter |-> 0, table |-> <<>>]

Unvisited(p) == DOMAIN Hops[p.route] \ p.visited

Complete(p) == Unvisited(p) = {}

(* The first segment that is not marked visited; meaningless when Complete. *)
FirstUnvisited(p) ==
  CHOOSE i \in Unvisited(p) : \A j \in Unvisited(p) : i <= j

(* The segment a handler works on, and the id it is addressed to.          *)
Segment(p) == Hops[p.route][FirstUnvisited(p)]

(* What every worker does to the message once the steps of its segment are *)
(* done: "visited", "visit_log", "counter" and "table_of_workers".          *)
MarkVisited(p, i, id) ==
  [p EXCEPT !.visited = @ \cup {i},
            !.log     = Append(@, id),
            !.counter = @ + 1,
            !.table   = Append(@, id)]
=============================================================================
