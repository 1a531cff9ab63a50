--------------------------- MODULE PythonServerProofs ---------------------------
(***************************************************************************)
(* What one python process guarantees for any number of requests and       *)
(* threads, bodies of any shape and length, any environment it may be      *)
(* started in, and signals at any time: the invariants of PythonServer,    *)
(* and that it keeps the contract of a worker for every request.           *)
(*                                                                         *)
(* ThreadInv says of one thread what its place in the handler tells of the *)
(* rest of it; a step of a thread is proved to keep it before any action   *)
(* is looked at.  Regular says what such a step lets the outside see: the  *)
(* client (Promised, Excused), the metrics (Uncounted), the trace          *)
(* (Follows).  The invariants of the process rest on the two.              *)
(***************************************************************************)
EXTENDS PythonServer, FiniteSetTheorems, SequenceTheorems, WellFoundedInduction, TLAPS

(* Where a thread is, or gets to once its spans have ended. *)
Stage(t) == IF t.pc = "ending" THEN t.then ELSE t.pc

Unbegun == {"none", "sent", "read", "route"}
Working == {"steps", "spin", "wait", "mark", "reply"}

StepCount(t) == Len(StepList(t))

(* The spans a thread begins, by their ids. *)
HopId == <<"hop", 0>>
ProcessingId == <<"processing", 0>>
StepId(j) == <<"step", j>>
ClientId(j) == <<"client", j>>

(* What holds of it wherever it is.  Begun: k counts steps of the segment.
   Chained: each open span is the parent of the next.  Sending: the POSTs carry
   the ids of CLIENT spans, ever later ones. *)
Begun(t) ==
  /\ t.k = 0 => t.sent = <<>> /\ t.heard = "none" /\ Len(t.open) = 0
  /\ t.k # 0 =>
       /\ FirstUnvisitedIndex(t.body.route) # 0 /\ StepList(t) # <<>>
       /\ t.k <= StepCount(t) + 1

Root(t) == IF t.body.ctx THEN Remote ELSE NoSpan

Linked(t) ==
  \A i \in DOMAIN t.open :
    t.open[i].parent = IF i = 1 THEN Root(t) ELSE t.open[i - 1].id

InStep(t) ==
  \E j \in 1 .. StepCount(t) :
    /\ t.open[3].id = StepId(j)
    /\ Len(t.open) = 4 => t.open[4].id = ClientId(j)

Shaped(t) ==
  /\ Len(t.open) <= 4
  /\ Len(t.open) >= 1 => t.open[1].id = HopId
  /\ Len(t.open) >= 2 => t.open[2].id \in {ProcessingId, ClientId(StepCount(t) + 1)}
  /\ Len(t.open) >= 3 => t.open[2].id = ProcessingId /\ InStep(t)

Chained(t) == IF Complete THEN Linked(t) /\ Shaped(t) ELSE Len(t.open) = 0

Sending(t) ==
  Complete =>
    /\ \A i \in DOMAIN t.sent : \E n \in 1 .. t.k : t.sent[i] = ClientId(n)
    /\ \A i, j \in DOMAIN t.sent : i < j => t.sent[i][2] < t.sent[j][2]

Core(t) == Begun(t) /\ Chained(t) /\ Sending(t)

(* The order of the handler. *)
Placed(t) ==
  /\ Stage(t) \in Unbegun => t.k = 0 /\ t.answer = "none" /\ ~t.missed
  /\ Stage(t) \notin {"none", "sent", "read", "over"} => t.body.form = "object"
  /\ Stage(t) \in Working => t.k # 0 /\ t.answer = "none" /\ t.heard \in {"none", "200"}
  /\ Stage(t) = "spin" => ~AllStepsDone(t) /\ ~StepList(t)[t.k].nested
  /\ Stage(t) \in {"mark", "reply", "count"} => t.k = StepCount(t) + 1
  /\ Stage(t) = "count" => t.k # 0 /\ t.answer \in OkAnswers
  /\ Stage(t) \in {"finally", "over"} => t.answer # "none"

(* How many spans are open. *)
Deep(t) ==
  /\ t.pc = "ending" =>
       /\ t.keep < Len(t.open)
       /\ \/ t.then = "steps" /\ t.keep = 2
          \/ t.then \in {"mark", "reply"} /\ t.keep = 1
          \/ t.then = "finally" /\ t.keep = 0
  /\ Complete =>
       /\ t.pc = "steps" => Len(t.open) = 2
       /\ Stage(t) = "steps" => t.open[2].id = ProcessingId
       /\ t.pc = "spin" => Len(t.open) = 3
       /\ t.pc = "wait" => Len(t.open) = IF AllStepsDone(t) THEN 2 ELSE 4
       /\ t.pc \in {"mark", "reply", "count"} => Len(t.open) = 1
       /\ t.pc = "finally" => Len(t.open) = 0

(* The POSTs made: one for every nested route left behind, and one for the rest
   of the route. *)
NestedBefore(s, k) == {j \in DOMAIN s : j < k /\ s[j].nested}
Behind(t) == Cardinality(NestedBefore(StepList(t), t.k))
Forwards(t) == IF LastHop(t.body) THEN 0 ELSE 1

Counted(t) ==
  /\ Stage(t) \in {"steps", "spin", "mark"} =>
       /\ Len(t.sent) = Behind(t)
       /\ Complete => \A i \in DOMAIN t.sent : t.sent[i][2] < t.k
  /\ Stage(t) = "wait" =>
       /\ Len(t.sent) = Behind(t) + 1
       /\ IF AllStepsDone(t) THEN ~LastHop(t.body) ELSE StepList(t)[t.k].nested
  /\ Stage(t) = "reply" \/ t.answer \in OkAnswers =>
       /\ t.k # 0 /\ t.k = StepCount(t) + 1 /\ t.heard \in {"none", "200"}
       /\ Len(t.sent) = Behind(t) + Forwards(t)

(* The reasons of an answer, but for those that lie with the process. *)
Answered(t) ==
  /\ t.answer = "400" =>
       \/ t.k = 0
       \/ AllStepsDone(t) /\ t.body.counter /\ ~LastHop(t.body) /\ ~Named(NextId(t.body))
  /\ t.answer = "502" => t.k # 0 /\ (t.heard = "error" \/ ~PeerUrl(NextPeer(t)))

LostByItself(t) ==
  t.gone \/ t.heard = "torn" \/ t.body.form = "raises" \/ ~t.body.counter \/ Unwritable(t)

ThreadInv(t) == Core(t) /\ Placed(t) /\ Deep(t) /\ Counted(t) /\ Answered(t)

(* What the collector, with the spans S, has of request r, whose thread is t. *)
IdsIn(S, r) == {s.id : s \in {q \in S : q.req = r}}
OpenIds(t) == {t.open[i].id : i \in DOMAIN t.open}

ParentOf(t, id) ==
  CASE id[1] = "hop" -> IF t.body.ctx THEN Remote ELSE NoSpan
    [] id[1] = "processing" -> <<"hop", 0>>
    [] id[1] = "step" -> <<"processing", 0>>
    [] id[1] = "client" -> IF id[2] > Len(StepList(t)) THEN <<"hop", 0>> ELSE <<"step", id[2]>>

Traced(S, r, t) ==
  /\ t.pc \in Unbegun => \A s \in S : s.req # r
  /\ \A s \in S : s.req = r => s.parent = ParentOf(t, s.id)
  /\ ~t.missed =>
       /\ \A s \in S : s.req = r => s.parent \in IdsIn(S, r) \cup OpenIds(t) \cup {NoSpan, Remote}
       /\ \A i \in DOMAIN t.sent : t.sent[i] \in IdsIn(S, r) \cup OpenIds(t)
       /\ t.pc = "over" => Len(t.open) = 0

TraceInv == Complete => \A r \in Reqs : Traced(spans, r, thread[r])

(* Nobody is served before the process serves, and then no request is given up
   for nothing. *)
ServedInv ==
  /\ proc \in {"entry", "config", "bind"} => \A r \in Reqs : thread[r].pc = "none"
  /\ \A r \in Reqs :
       thread[r].answer = "lost" => LostByItself(thread[r]) \/ proc # "serving"

(* Nothing is counted that was not sent or is not still to be sent. *)
InTime(m) ==
  [hops |-> m.hops - m.late.hops, messages |-> m.messages - m.late.messages]

Accounted(m) ==
  /\ m.on \subseteq m.set
  /\ ~Flaky => m.shipped + m.queue = m.lines - m.late.lines
  /\ "logs" \notin m.on => m.queue = 0
  /\ ~Flaky /\ "metrics" \notin m.on => m.seen = InTime(m)
  /\ "metrics" \in m.on => Complete /\ m.late.hops = 0 /\ m.late.messages = 0

TelInv ==
  /\ proc \in {"entry", "config"} => tel = Off
  /\ code = "137" => proc = "over"
  /\ proc = "over" => tel.on = {}
  /\ code # "137" => Accounted(tel)

(* Nothing is late before a request has been accepted. *)
LateInv ==
  /\ proc \in {"entry", "config", "bind"} => tel.on = tel.set
  /\ (\A r \in Reqs : thread[r].pc = "none") => tel.late = NothingLate

(* A set of naturals that is not empty has a least element. *)
LEMMA LeastExists ==
  ASSUME NEW S \in SUBSET Nat, S # {}
  PROVE  \E i \in S : \A j \in S : i <= j
<1>1. \E i \in S : \A j \in S : <<j, i>> \notin OpToRel(<, Nat)
  BY NatLessThanWellFounded, WFMin
<1>2. \A i, j \in Nat : <<j, i>> \notin OpToRel(<, Nat) => i <= j
  BY DEF OpToRel
<1>. QED  BY <1>1, <1>2

LEMMA FirstIsSegment ==
  ASSUME NEW b, IsBody(b), FirstUnvisitedIndex(b.route) # 0
  PROVE  /\ FirstUnvisitedIndex(b.route) \in DOMAIN b.route
         /\ LET s == StepsOfBody(b)
            IN  Len(s) \in Nat /\ DOMAIN s = 1 .. Len(s) /\ (s # <<>> => Len(s) # 0)
                /\ \A k \in DOMAIN s : s[k].nested \in BOOLEAN
<1>. DEFINE open == {i \in DOMAIN b.route : ~b.route[i].visited}
<1>1. Len(b.route) \in Nat /\ DOMAIN b.route = 1 .. Len(b.route)
  BY DEF IsBody, IsArray
<1>2. open # {} /\ open \in SUBSET Nat
  BY <1>1 DEF FirstUnvisitedIndex
<1>3. FirstUnvisitedIndex(b.route) \in open
  <2>1. \E i \in open : \A j \in open : i <= j
    BY <1>2, LeastExists
  <2>2. FirstUnvisitedIndex(b.route) = CHOOSE i \in open : \A j \in open : i <= j
    BY <1>2 DEF FirstUnvisitedIndex
  <2>. QED  BY <2>1, <2>2
<1>4. FirstUnvisitedIndex(b.route) \in DOMAIN b.route
  BY <1>3
<1>. DEFINE s == StepsOfBody(b)
<1>5. IsArray(s) /\ \A k \in DOMAIN s : s[k].nested \in BOOLEAN
  BY <1>4 DEF IsBody, StepsOfBody, Segment
<1>6. Len(s) \in Nat /\ DOMAIN s = 1 .. Len(s) /\ (s # <<>> => Len(s) # 0)
  <2>. HIDE DEF s
  <2>. DEFINE S == {s[i] : i \in DOMAIN s}
  <2>1. s \in Seq(S)
    BY <1>5 DEF IsArray
  <2>. HIDE DEF S
  <2>. QED  BY <2>1, EmptySeq, LenProperties
<1>. QED  BY <1>4, <1>5, <1>6

(* The body of a request is one, and a segment that has been begun has steps. *)
LEMMA BodyIsBody ==
  ASSUME env \in Envs, NEW t \in Threads
  PROVE  IsBody(t.body)
BY BodiesAssumption DEF Threads

LEMMA SegmentIsBegun ==
  ASSUME env \in Envs, NEW t \in Threads, FirstUnvisitedIndex(t.body.route) # 0
  PROVE  /\ StepCount(t) \in Nat /\ DOMAIN StepList(t) = 1 .. StepCount(t)
         /\ StepList(t) # <<>> => StepCount(t) # 0
         /\ \A k \in DOMAIN StepList(t) : StepList(t)[k].nested \in BOOLEAN
BY BodyIsBody, FirstIsSegment DEF StepCount, StepList

(* Counting nested routes. *)
LEMMA NestedCounts ==
  ASSUME NEW s, Len(s) \in Nat, DOMAIN s = 1 .. Len(s)
  PROVE  /\ Cardinality(NestedBefore(s, 1)) = 0
         /\ \A k \in Nat : IsFiniteSet(NestedBefore(s, k)) /\ Cardinality(NestedBefore(s, k)) \in Nat
         /\ \A k \in DOMAIN s :
              Cardinality(NestedBefore(s, k + 1)) =
                Cardinality(NestedBefore(s, k)) + IF s[k].nested THEN 1 ELSE 0
<1>1. NestedBefore(s, 1) = {}
  BY DEF NestedBefore
<1>2. \A k \in Nat : IsFiniteSet(NestedBefore(s, k))
  <2>1. IsFiniteSet(1 .. Len(s))
    BY FS_Interval
  <2>2. \A k \in Nat : NestedBefore(s, k) \subseteq 1 .. Len(s)
    BY DEF NestedBefore
  <2>. QED  BY <2>1, <2>2, FS_Subset
<1>3. \A k \in Nat : Cardinality(NestedBefore(s, k)) \in Nat
  BY <1>2, FS_CardinalityType
<1>4. ASSUME NEW k \in DOMAIN s
      PROVE  Cardinality(NestedBefore(s, k + 1)) =
               Cardinality(NestedBefore(s, k)) + IF s[k].nested THEN 1 ELSE 0
  <2>. k \in Nat
    OBVIOUS
  <2>1. CASE s[k].nested
    <3>1. NestedBefore(s, k + 1) = NestedBefore(s, k) \cup {k} /\ k \notin NestedBefore(s, k)
      BY <2>1 DEF NestedBefore
    <3>. QED  BY <3>1, <1>2, FS_AddElement, <2>1
  <2>2. CASE ~s[k].nested
    <3>1. NestedBefore(s, k + 1) = NestedBefore(s, k)
      BY <2>2 DEF NestedBefore
    <3>. QED  BY <3>1, <2>2, <1>3
  <2>. QED  BY <2>1, <2>2
<1>. QED  BY <1>1, <1>2, <1>3, <1>4, FS_EmptySet

(* What excuses a lost answer lies in these fields. *)
LEMMA LostStays ==
  ASSUME NEW t, NEW u, u.body = t.body, u.k = t.k, u.gone = t.gone, u.heard = t.heard
  PROVE  LostByItself(u) <=> LostByItself(t)
BY DEF LostByItself, Unwritable, NextPeer, AllStepsDone, StepList

-----------------------------------------------------------------------------
(* What the pieces of the handler do to the record of a thread.            *)

(* All but where it is, which step, and its answer. *)
Same(t, u) ==
  /\ u.body = t.body /\ u.open = t.open /\ u.sent = t.sent /\ u.heard = t.heard
  /\ u.gone = t.gone /\ u.missed = t.missed

Goals == {"steps", "mark", "reply", "finally"}

LEMMA EndsAre ==
  ASSUME NEW t \in Threads, NEW keep \in 0 .. 2, NEW then \in Goals
  PROVE  LET u == Ends(t, keep, then)
         IN  /\ u \in Threads /\ Same(t, u) /\ u.k = t.k /\ u.answer = t.answer
             /\ Stage(u) = then /\ u.keep = keep /\ u.then = then
             /\ u.pc = IF Len(t.open) <= keep THEN then ELSE "ending"
<1>. DEFINE e == [t EXCEPT !.pc = "ending", !.keep = keep, !.then = then]
            u == Settled(e)
<1>1. /\ e \in Threads /\ Same(t, e) /\ e.k = t.k /\ e.answer = t.answer
      /\ e.keep = keep /\ e.then = then /\ e.pc = "ending"
  BY DEF Threads, Same, Goals
<1>. HIDE DEF e
<1>2. CASE Len(t.open) <= keep
  <2>1. u = [e EXCEPT !.pc = then]
    BY <1>1, <1>2 DEF Settled, Same
  <2>2. /\ u \in Threads /\ Same(t, u) /\ u.k = t.k /\ u.answer = t.answer
        /\ u.keep = keep /\ u.then = then /\ u.pc = then
    BY <1>1, <2>1 DEF Threads, Same, Goals
  <2>. HIDE DEF u
  <2>. QED  BY <2>2, <1>2 DEF Ends, Stage, Goals, e, u
<1>3. CASE ~(Len(t.open) <= keep)
  <2>1. u = e
    BY <1>1, <1>3 DEF Settled, Same
  <2>. HIDE DEF u
  <2>. QED  BY <1>1, <2>1, <1>3 DEF Ends, Stage, Goals, e, u
<1>. QED  BY <1>2, <1>3

EndsSo(t, u, keep, then) ==
  /\ u \in Threads /\ Same(t, u) /\ u.k = t.k /\ u.answer = t.answer
  /\ Stage(u) = then /\ u.keep = keep /\ u.then = then
  /\ u.pc = IF Len(t.open) <= keep THEN then ELSE "ending"

LEMMA EndsAreSo ==
  ASSUME NEW t \in Threads, NEW keep \in 0 .. 2, NEW then \in Goals
  PROVE  EndsSo(t, Ends(t, keep, then), keep, then)
BY EndsAre, Zenon DEF EndsSo

LEMMA LeavesAre ==
  ASSUME NEW t \in Threads, NEW a \in {"400", "502", "lost"}
  PROVE  LET u == Leaves(t, a)
         IN  /\ u \in Threads /\ Same(t, u) /\ u.k = t.k
             /\ u.answer = IF t.gone THEN "lost" ELSE a
             /\ Stage(u) = "finally" /\ u.keep = 0 /\ u.then = "finally"
             /\ u.pc = IF Len(t.open) <= 0 THEN "finally" ELSE "ending"
<1>. DEFINE e == [t EXCEPT !.answer = IF t.gone THEN "lost" ELSE a]
<1>1. /\ e \in Threads /\ Same(t, e) /\ e.k = t.k
      /\ e.answer = IF t.gone THEN "lost" ELSE a
  BY DEF Threads, Same
<1>. HIDE DEF e
<1>. DEFINE u == Ends(e, 0, "finally")
<1>2. /\ u \in Threads /\ Same(e, u) /\ u.k = e.k /\ u.answer = e.answer
      /\ Stage(u) = "finally" /\ u.keep = 0 /\ u.then = "finally"
      /\ u.pc = IF Len(e.open) <= 0 THEN "finally" ELSE "ending"
  BY <1>1, EndsAre DEF Goals
<1>3. Leaves(t, a) = u
  BY DEF Leaves, e
<1>. HIDE DEF u
<1>. QED  BY <1>1, <1>2, <1>3 DEF Same

(* A span is begun, unless this is the lab's program. *)
Below(t) == IF t.open # <<>> THEN Last(t.open).id ELSE Root(t)

LEMMA BeginIs ==
  ASSUME NEW t \in Threads, NEW name \in {"hop", "processing", "step", "client"}
  PROVE  LET u == Begin(t, name)
         IN  /\ u \in Threads /\ u.body = t.body /\ u.sent = t.sent /\ u.heard = t.heard
             /\ u.gone = t.gone /\ u.missed = t.missed /\ u.pc = t.pc /\ u.k = t.k
             /\ u.answer = t.answer /\ u.keep = t.keep /\ u.then = t.then
             /\ ~Complete => u.open = t.open
             /\ Complete =>
                  /\ u.open = Append(t.open, [id |-> <<name, t.k>>, parent |-> Below(t)])
                  /\ <<name, t.k>> \in SpanIds /\ Below(t) \in SpanIds
<1>. DEFINE s == [id |-> <<name, t.k>>, parent |-> Below(t)]
            u == Begin(t, name)
<1>1. <<name, t.k>> \in SpanIds
  BY DEF Threads, SpanIds
<1>2. Below(t) \in SpanIds
  <2>1. t.open \in Seq([id : SpanIds, parent : SpanIds])
    BY DEF Threads
  <2>. DEFINE S == [id : SpanIds, parent : SpanIds]
  <2>2. CASE t.open # <<>>
    <3>1. Len(t.open) \in 1 .. Len(t.open)
      BY <2>1, <2>2, EmptySeq
    <3>2. t.open[Len(t.open)] \in S
      BY <2>1, <3>1, ElementOfSeq
    <3>. QED  BY <3>2, <2>2 DEF Below, Last
  <2>3. CASE t.open = <<>>
    BY <2>3 DEF Below, Root, SpanIds
  <2>. QED  BY <2>2, <2>3
<1>3. CASE Complete
  <2>1. u = [t EXCEPT !.open = Append(@, s)]
    BY <1>3 DEF Begin, Below, Root
  <2>2. s \in [id : SpanIds, parent : SpanIds]
    BY <1>1, <1>2
  <2>. HIDE DEF u, s
  <2>3. Append(t.open, s) \in Seq([id : SpanIds, parent : SpanIds])
    BY <2>2 DEF Threads
  <2>4. /\ u \in Threads /\ u.body = t.body /\ u.sent = t.sent /\ u.heard = t.heard
        /\ u.gone = t.gone /\ u.missed = t.missed /\ u.pc = t.pc /\ u.k = t.k
        /\ u.answer = t.answer /\ u.keep = t.keep /\ u.then = t.then
        /\ u.open = Append(t.open, s)
    BY <2>1, <2>3 DEF Threads
  <2>. QED  BY <2>4, <1>1, <1>2, <1>3 DEF u, s
<1>4. CASE ~Complete
  BY <1>4 DEF Begin
<1>. QED  BY <1>3, <1>4

LEMMA PostsIs ==
  ASSUME NEW t \in Threads, Complete => Len(t.open) # 0
  PROVE  LET u == Posts(t)
         IN  /\ u \in Threads /\ u.body = t.body /\ u.open = t.open /\ u.heard = t.heard
             /\ u.gone = t.gone /\ u.missed = t.missed /\ u.k = t.k /\ u.answer = t.answer
             /\ u.keep = t.keep /\ u.then = t.then /\ u.pc = "wait"
             /\ u.sent = Append(t.sent, Traceparent(t))
             /\ Complete => Traceparent(t) = t.open[Len(t.open)].id
             /\ Traceparent(t) \in SpanIds
<1>. DEFINE p == Traceparent(t)
<1>1. p \in SpanIds
  <2>1. CASE Complete
    <3>. DEFINE S == [id : SpanIds, parent : SpanIds]
    <3>1. t.open \in Seq(S)
      BY DEF Threads
    <3>. HIDE DEF S
    <3>2. Len(t.open) \in 1 .. Len(t.open)
      BY <3>1, <2>1, LenProperties
    <3>3. t.open[Len(t.open)] \in S
      BY <3>1, <3>2, ElementOfSeq
    <3>. QED  BY <3>3, <2>1 DEF Traceparent, Last, S
  <2>2. CASE ~Complete
    BY <2>2 DEF Traceparent, SpanIds
  <2>. QED  BY <2>1, <2>2
<1>2. Complete => p = t.open[Len(t.open)].id
  BY DEF Traceparent, Last
<1>. HIDE DEF p
<1>3. Append(t.sent, p) \in Seq(SpanIds)
  BY <1>1 DEF Threads
<1>. DEFINE u == [t EXCEPT !.pc = "wait", !.sent = Append(@, p)]
<1>4. /\ u \in Threads /\ u.body = t.body /\ u.open = t.open /\ u.heard = t.heard
      /\ u.gone = t.gone /\ u.missed = t.missed /\ u.k = t.k /\ u.answer = t.answer
      /\ u.keep = t.keep /\ u.then = t.then /\ u.pc = "wait"
      /\ u.sent = Append(t.sent, p)
  BY <1>3 DEF Threads
<1>5. Posts(t) = u
  BY DEF Posts, p
<1>. HIDE DEF u
<1>. QED  BY <1>1, <1>2, <1>4, <1>5 DEF p

-----------------------------------------------------------------------------
(* A thread that goes on as it should keeps ThreadInv.                     *)

(* What holds of t is a matter of fields that Same names, and of k. *)
LEMMA SameCore ==
  ASSUME NEW t, NEW u, Same(t, u), u.k = t.k, Core(t)
  PROVE  Core(u)
<1>1. Begun(u)
  BY DEF Core, Begun, Same, StepList, StepCount
<1>2. Chained(u)
  BY DEF Core, Chained, Linked, Shaped, InStep, Same, StepList, StepCount, Root
<1>3. Sending(u)
  BY DEF Core, Sending, Same
<1>. QED  BY <1>1, <1>2, <1>3 DEF Core

LEMMA SpanTypes ==
  ASSUME NEW t \in Threads
  PROVE  /\ Len(t.open) \in Nat /\ DOMAIN t.open = 1 .. Len(t.open)
         /\ Len(t.sent) \in Nat /\ DOMAIN t.sent = 1 .. Len(t.sent)
         /\ \A i \in DOMAIN t.open : t.open[i].id \in SpanIds /\ t.open[i].parent \in SpanIds
<1>. DEFINE S == [id : SpanIds, parent : SpanIds]
<1>1. t.open \in Seq(S) /\ t.sent \in Seq(SpanIds)
  BY DEF Threads
<1>2. \A s \in S : s.id \in SpanIds /\ s.parent \in SpanIds
  OBVIOUS
<1>. HIDE DEF S
<1>3. /\ Len(t.open) \in Nat /\ DOMAIN t.open = 1 .. Len(t.open)
      /\ Len(t.sent) \in Nat /\ DOMAIN t.sent = 1 .. Len(t.sent)
  BY <1>1, LenProperties
<1>4. \A i \in DOMAIN t.open : t.open[i] \in S
  BY <1>1, <1>3, ElementOfSeq
<1>. QED  BY <1>2, <1>3, <1>4

LEMMA EndsKeeps ==
  ASSUME NEW t \in Threads, NEW keep, NEW then, Core(t), Answered(t),
         \/ then = "steps" /\ keep = 2
         \/ then \in {"mark", "reply"} /\ keep = 1
         \/ then = "finally" /\ keep = 0,
         t.body.form = "object",
         Complete => /\ Len(t.open) >= keep
                     /\ then = "steps" => t.open[2].id = ProcessingId,
         then # "finally" => t.k # 0 /\ t.answer = "none" /\ t.heard \in {"none", "200"},
         then \in {"mark", "reply"} => t.k = StepCount(t) + 1,
         then = "finally" => t.answer # "none",
         then \in {"steps", "mark"} =>
           /\ Len(t.sent) = Behind(t)
           /\ Complete => \A i \in DOMAIN t.sent : t.sent[i][2] < t.k,
         then = "reply" \/ t.answer \in OkAnswers =>
           /\ t.k # 0 /\ t.k = StepCount(t) + 1 /\ t.heard \in {"none", "200"}
           /\ Len(t.sent) = Behind(t) + Forwards(t)
  PROVE  Ends(t, keep, then) \in Threads /\ ThreadInv(Ends(t, keep, then))
<1>. DEFINE u == Ends(t, keep, then)
<1>1. keep \in 0 .. 2 /\ then \in Goals
  BY DEF Goals
<1>2. /\ u \in Threads /\ Same(t, u) /\ u.k = t.k /\ u.answer = t.answer
      /\ Stage(u) = then /\ u.keep = keep /\ u.then = then
      /\ u.pc = IF Len(t.open) <= keep THEN then ELSE "ending"
  <2>1. EndsSo(t, u, keep, then)
    BY <1>1, EndsAreSo
  <2>. HIDE DEF u
  <2>. QED  BY <2>1 DEF EndsSo
<1>. HIDE DEF u
<1>3. Core(u)
  BY <1>2, SameCore
<1>4. /\ StepList(u) = StepList(t) /\ StepCount(u) = StepCount(t)
      /\ AllStepsDone(u) = AllStepsDone(t) /\ Behind(u) = Behind(t) /\ Forwards(u) = Forwards(t)
  BY <1>2 DEF Same, StepList, StepCount, AllStepsDone, Behind, Forwards
<1>5. Placed(u)
  BY <1>2, <1>4 DEF Placed, Same, Unbegun, Working
<1>6. Deep(u)
  <2>1. Len(u.open) = Len(t.open) /\ Len(t.open) \in Nat /\ u.open = t.open
    BY <1>2, SpanTypes DEF Same
  <2>2. u.pc = "ending" =>
          /\ u.keep < Len(u.open)
          /\ \/ u.then = "steps" /\ u.keep = 2
             \/ u.then \in {"mark", "reply"} /\ u.keep = 1
             \/ u.then = "finally" /\ u.keep = 0
    BY <1>1, <1>2, <2>1 DEF Goals
  <2>3. Complete /\ u.pc # "ending" => u.pc = then /\ Len(u.open) = keep
    BY <1>1, <1>2, <2>1
  <2>. QED  BY <1>2, <2>1, <2>2, <2>3 DEF Deep
<1>7. Counted(u)
  BY <1>2, <1>4 DEF Counted, Same
<1>8. Answered(u)
  BY <1>2, <1>4 DEF Answered, Same, NextPeer
<1>. QED  BY <1>2, <1>3, <1>5, <1>6, <1>7, <1>8 DEF ThreadInv, u

LEMMA LeavesKeeps ==
  ASSUME NEW t \in Threads, NEW a \in {"400", "502", "lost"}, Core(t),
         t.body.form = "object",
         a = "400" =>
           \/ t.k = 0
           \/ AllStepsDone(t) /\ t.body.counter /\ ~LastHop(t.body) /\ ~Named(NextId(t.body)),
         a = "502" => t.k # 0 /\ (t.heard = "error" \/ ~PeerUrl(NextPeer(t)))
  PROVE  Leaves(t, a) \in Threads /\ ThreadInv(Leaves(t, a))
<1>. DEFINE u == Leaves(t, a)
<1>2. /\ u \in Threads /\ Same(t, u) /\ u.k = t.k
      /\ u.answer = IF t.gone THEN "lost" ELSE a
      /\ Stage(u) = "finally" /\ u.keep = 0 /\ u.then = "finally"
      /\ u.pc = IF Len(t.open) <= 0 THEN "finally" ELSE "ending"
  BY LeavesAre
<1>. HIDE DEF u
<1>3. Core(u)
  BY <1>2, SameCore
<1>4. /\ StepList(u) = StepList(t) /\ StepCount(u) = StepCount(t)
      /\ AllStepsDone(u) = AllStepsDone(t)
  BY <1>2 DEF Same, StepList, StepCount, AllStepsDone
<1>5. Placed(u)
  BY <1>2, <1>4 DEF Placed, Same, Unbegun, Working
<1>6. Deep(u)
  BY <1>2, <1>4, SpanTypes DEF Deep, Same
<1>7. Counted(u)
  BY <1>2, <1>4 DEF Counted, Same, OkAnswers
<1>8. Answered(u)
  BY <1>2, <1>4 DEF Answered, Same, NextPeer
<1>. QED  BY <1>2, <1>3, <1>5, <1>6, <1>7, <1>8 DEF ThreadInv, u

LEMMA ConnectKeeps ==
  ASSUME NEW b \in Bodies[env]
  PROVE  LET u == [NoThread EXCEPT !.pc = "sent", !.body = b]
         IN  u \in Threads /\ ThreadInv(u)
<1>. DEFINE c == CHOOSE d \in Bodies[env] : TRUE
            u == [NoThread EXCEPT !.pc = "sent", !.body = b]
<1>0. NoThread = [pc |-> "none", body |-> c, k |-> 0, open |-> <<>>, keep |-> 0,
                  then |-> "none", sent |-> <<>>, heard |-> "none", answer |-> "none",
                  gone |-> FALSE, missed |-> FALSE]
  BY DEF NoThread
<1>. HIDE DEF c
<1>1. u = [pc |-> "sent", body |-> b, k |-> 0, open |-> <<>>, keep |-> 0,
           then |-> "none", sent |-> <<>>, heard |-> "none", answer |-> "none",
           gone |-> FALSE, missed |-> FALSE]
  <2>1. u = [NoThread EXCEPT !.pc = "sent", !.body = b]
    OBVIOUS
  <2>. HIDE DEF u
  <2>. QED  BY <1>0, <2>1
<1>2. u \in Threads
  <2>1. <<>> \in Seq([id : SpanIds, parent : SpanIds]) /\ <<>> \in Seq(SpanIds)
    BY EmptySeq
  <2>. HIDE DEF u
  <2>. QED  BY <1>1, <2>1 DEF Threads
<1>. HIDE DEF u
<1>3. /\ u.pc = "sent" /\ u.k = 0 /\ u.open = <<>> /\ u.sent = <<>> /\ u.heard = "none"
      /\ u.answer = "none" /\ ~u.missed
  BY <1>1
<1>4. Core(u)
  BY <1>3 DEF Core, Begun, Chained, Linked, Shaped, InStep, Sending
<1>5. Placed(u)
  BY <1>3 DEF Placed, Stage, Unbegun, Working
<1>6. Deep(u)
  BY <1>3 DEF Deep, Stage
<1>7. Counted(u) /\ Answered(u)
  BY <1>3 DEF Counted, Answered, Stage, OkAnswers
<1>. QED  BY <1>2, <1>4, <1>5, <1>6, <1>7 DEF ThreadInv, u

LEMMA NoThreadInv ==
  ASSUME env \in Envs
  PROVE  NoThread \in Threads /\ ThreadInv(NoThread)
<1>. DEFINE b == CHOOSE b \in Bodies[env] : TRUE
            u == NoThread
<1>0. b \in Bodies[env]
  BY BodiesAssumption
<1>. HIDE DEF b
<1>1. /\ u.pc = "none" /\ u.body = b /\ u.k = 0 /\ u.open = <<>> /\ u.keep = 0
      /\ u.then = "none" /\ u.sent = <<>> /\ u.heard = "none" /\ u.answer = "none"
      /\ u.gone = FALSE /\ u.missed = FALSE
      /\ u \in Threads
  BY <1>0 DEF NoThread, Threads, b
<1>. HIDE DEF u
<1>2. Core(u)
  BY <1>1 DEF Core, Begun, Chained, Linked, Shaped, InStep, Sending
<1>3. Placed(u) /\ Deep(u) /\ Counted(u) /\ Answered(u)
  BY <1>1 DEF Placed, Deep, Counted, Answered, Stage, Unbegun, Working, OkAnswers
<1>. QED  BY <1>1, <1>2, <1>3 DEF ThreadInv, u

LEMMA GoneKeeps ==
  ASSUME NEW t \in Threads, ThreadInv(t)
  PROVE  [t EXCEPT !.gone = TRUE] \in Threads /\ ThreadInv([t EXCEPT !.gone = TRUE])
<1>. DEFINE u == [t EXCEPT !.gone = TRUE]
<1>1. /\ u \in Threads /\ u.body = t.body /\ u.open = t.open /\ u.sent = t.sent
      /\ u.heard = t.heard /\ u.missed = t.missed /\ u.k = t.k /\ u.answer = t.answer
      /\ u.pc = t.pc /\ u.keep = t.keep /\ u.then = t.then
  BY DEF Threads
<1>. HIDE DEF u
<1>2. Stage(u) = Stage(t)
  BY <1>1 DEF Stage
<1>3. /\ StepList(u) = StepList(t) /\ StepCount(u) = StepCount(t) /\ Root(u) = Root(t)
      /\ AllStepsDone(u) = AllStepsDone(t) /\ Behind(u) = Behind(t) /\ Forwards(u) = Forwards(t)
      /\ NextPeer(u) = NextPeer(t)
  BY <1>1 DEF StepList, StepCount, AllStepsDone, Behind, Forwards, Root, NextPeer
<1>4. Core(u)
  BY <1>1, <1>3 DEF ThreadInv, Core, Begun, Chained, Linked, Shaped, InStep, Sending
<1>5. Placed(u)
  BY <1>1, <1>2, <1>3 DEF ThreadInv, Placed
<1>6. Deep(u)
  BY <1>1, <1>2, <1>3 DEF ThreadInv, Deep
<1>7. Counted(u)
  BY <1>1, <1>2, <1>3 DEF ThreadInv, Counted
<1>8. Answered(u)
  BY <1>1, <1>3 DEF ThreadInv, Answered
<1>. QED  BY <1>1, <1>4, <1>5, <1>6, <1>7, <1>8 DEF ThreadInv, u

(* Of an unbegun request hardly anything is left to prove. *)
LEMMA UnbegunKeeps ==
  ASSUME NEW t \in Threads, ThreadInv(t), t.pc \in Unbegun,
         NEW p \in {"read", "route"}, p = "route" => t.body.form = "object"
  PROVE  [t EXCEPT !.pc = p] \in Threads /\ ThreadInv([t EXCEPT !.pc = p])
<1>. DEFINE u == [t EXCEPT !.pc = p]
<1>1. u \in Threads /\ Same(t, u) /\ u.k = t.k /\ u.answer = t.answer /\ u.pc = p
  BY DEF Threads, Same
<1>2. t.k = 0 /\ t.answer = "none" /\ ~t.missed
  BY DEF ThreadInv, Placed, Stage, Unbegun
<1>. HIDE DEF u
<1>3. Core(u)
  BY <1>1, SameCore DEF ThreadInv
<1>4. Stage(u) = p
  BY <1>1 DEF Stage
<1>5. Placed(u)
  BY <1>1, <1>2, <1>4 DEF Placed, Unbegun, Working, Same
<1>6. Deep(u)
  BY <1>1, <1>4 DEF Deep
<1>7. Counted(u) /\ Answered(u)
  BY <1>1, <1>2, <1>4 DEF Counted, Answered, OkAnswers
<1>. QED  BY <1>1, <1>3, <1>5, <1>6, <1>7 DEF ThreadInv, u

LEMMA UnreadKeeps ==
  ASSUME NEW t \in Threads, ThreadInv(t), t.pc = "read", t.body.form # "object",
         NEW a \in {"lost", "400"}
  PROVE  LET u == [t EXCEPT !.pc = "over", !.answer = a]
         IN  u \in Threads /\ ThreadInv(u)
<1>. DEFINE u == [t EXCEPT !.pc = "over", !.answer = a]
<1>1. u \in Threads /\ Same(t, u) /\ u.k = t.k /\ u.answer = a /\ u.pc = "over"
  BY DEF Threads, Same
<1>2. t.k = 0 /\ ~t.missed
  BY DEF ThreadInv, Placed, Stage, Unbegun
<1>. HIDE DEF u
<1>3. Core(u)
  BY <1>1, SameCore DEF ThreadInv
<1>4. Stage(u) = "over"
  BY <1>1 DEF Stage
<1>5. Placed(u)
  BY <1>1, <1>2, <1>4 DEF Placed, Unbegun, Working, Same
<1>6. Deep(u)
  BY <1>1, <1>4 DEF Deep
<1>7. Counted(u) /\ Answered(u)
  BY <1>1, <1>2, <1>4 DEF Counted, Answered, OkAnswers
<1>. QED  BY <1>1, <1>3, <1>5, <1>6, <1>7 DEF ThreadInv, u

(* Whoever is admitted has a segment with steps. *)
LEMMA AdmittedHasSteps ==
  ASSUME env \in Envs, NEW t \in Threads, NEW id,
         Admissible(id, t.body) \/ LegacyAdmissible(id, t.body)
  PROVE  /\ FirstUnvisitedIndex(t.body.route) # 0 /\ StepList(t) # <<>>
         /\ StepCount(t) \in Nat \ {0} /\ DOMAIN StepList(t) = 1 .. StepCount(t)
         /\ \A k \in DOMAIN StepList(t) : StepList(t)[k].nested \in BOOLEAN
<1>1. FirstUnvisitedIndex(t.body.route) # 0 /\ StepList(t) # <<>>
  BY DEF Admissible, LegacyAdmissible, Accepts, Routed, Segment, StepsOk, SchemaOk, StepList,
         StepsOfBody
<1>. QED  BY <1>1, SegmentIsBegun

LEMMA AdmitKeeps ==
  ASSUME env \in Envs, NEW t \in Threads, ThreadInv(t), t.pc = "route", NEW id,
         Admissible(id, t.body) \/ LegacyAdmissible(id, t.body)
  PROVE  LET u == [Begin(Begin(t, "hop"), "processing") EXCEPT !.pc = "steps", !.k = 1]
         IN  u \in Threads /\ ThreadInv(u)
<1>1. /\ t.k = 0 /\ t.answer = "none" /\ ~t.missed /\ t.sent = <<>> /\ t.heard = "none"
      /\ t.open = <<>> /\ t.body.form = "object"
  <2>0. Stage(t) = "route"
    BY DEF Stage
  <2>1. t.k = 0 /\ t.answer = "none" /\ ~t.missed /\ t.body.form = "object"
    BY <2>0 DEF ThreadInv, Placed, Unbegun
  <2>2. t.sent = <<>> /\ t.heard = "none" /\ Len(t.open) = 0
    BY <2>1 DEF ThreadInv, Core, Begun
  <2>3. t.open = <<>>
    BY <2>2, EmptySeq DEF Threads
  <2>. QED  BY <2>1, <2>2, <2>3
<1>. DEFINE v == Begin(t, "hop")
            w == Begin(v, "processing")
            u == [w EXCEPT !.pc = "steps", !.k = 1]
            hop == [id |-> <<"hop", 0>>, parent |-> Root(t)]
            inner == [id |-> <<"processing", 0>>, parent |-> <<"hop", 0>>]
<1>2. /\ v \in Threads /\ v.body = t.body /\ v.sent = <<>> /\ v.heard = "none"
      /\ v.missed = t.missed /\ v.k = 0 /\ v.answer = "none"
      /\ IF Complete THEN v.open = <<hop>> ELSE v.open = <<>>
  <2>1. Below(t) = Root(t)
    BY <1>1 DEF Below
  <2>a. hop = [id |-> <<"hop", t.k>>, parent |-> Below(t)]
    BY <1>1, <2>1
  <2>. HIDE DEF hop
  <2>2. Complete => v.open = Append(t.open, hop)
    BY <2>a, BeginIs
  <2>3. Complete => v.open = <<hop>>
    BY <1>1, <2>2
  <2>4. /\ v \in Threads /\ v.body = t.body /\ v.sent = t.sent /\ v.heard = t.heard
        /\ v.missed = t.missed /\ v.k = t.k /\ v.answer = t.answer
        /\ ~Complete => v.open = t.open
    BY BeginIs
  <2>. HIDE DEF v
  <2>. QED  BY <1>1, <2>3, <2>4
<1>. HIDE DEF v
<1>3. /\ w \in Threads /\ w.body = t.body /\ w.sent = <<>> /\ w.heard = "none"
      /\ w.missed = t.missed /\ w.answer = "none"
      /\ IF Complete THEN w.open = <<hop, inner>> ELSE w.open = <<>>
  <2>1. Complete => Below(v) = <<"hop", 0>>
    <3>0. Complete => v.open = <<hop>>
      BY <1>2
    <3>1. Complete => Len(v.open) = 1 /\ v.open[1] = hop
      <4>. HIDE DEF hop
      <4>. QED  BY <3>0
    <3>2. Complete => v.open # <<>>
      BY <3>1
    <3>3. hop.id = <<"hop", 0>>
      OBVIOUS
    <3>. HIDE DEF hop
    <3>. QED  BY <3>1, <3>2, <3>3 DEF Below, Last
  <2>b. Complete => inner = [id |-> <<"processing", v.k>>, parent |-> Below(v)]
    BY <1>2, <2>1
  <2>. HIDE DEF inner
  <2>4. /\ w \in Threads /\ w.body = v.body /\ w.sent = v.sent /\ w.heard = v.heard
        /\ w.missed = v.missed /\ w.answer = v.answer
        /\ ~Complete => w.open = v.open
        /\ Complete =>
             w.open = Append(v.open, [id |-> <<"processing", v.k>>, parent |-> Below(v)])
    BY <1>2, BeginIs
  <2>. HIDE DEF w
  <2>2. Complete => w.open = Append(v.open, inner)
    BY <2>4, <2>b
  <2>c. Complete => v.open = <<hop>>
    BY <1>2
  <2>. HIDE DEF hop
  <2>3. Complete => w.open = <<hop, inner>>
    BY <2>c, <2>2
  <2>. QED  BY <1>2, <2>3, <2>4
<1>. HIDE DEF w
<1>4. /\ u \in Threads /\ u.body = t.body /\ u.sent = <<>> /\ u.heard = "none"
      /\ u.missed = t.missed /\ u.answer = "none" /\ u.open = w.open
      /\ u.pc = "steps" /\ u.k = 1
  BY <1>3 DEF Threads
<1>. HIDE DEF u
<1>5. /\ FirstUnvisitedIndex(u.body.route) # 0 /\ StepList(u) # <<>>
      /\ StepCount(u) \in Nat \ {0} /\ DOMAIN StepList(u) = 1 .. StepCount(u)
      /\ Behind(u) = 0 /\ Stage(u) = "steps"
  <2>1. /\ FirstUnvisitedIndex(u.body.route) # 0 /\ StepList(u) # <<>>
        /\ StepCount(u) \in Nat \ {0} /\ DOMAIN StepList(u) = 1 .. StepCount(u)
    BY <1>4, AdmittedHasSteps
  <2>. QED  BY <2>1, <1>4, NestedCounts DEF Behind, StepCount, Stage
<1>6. Core(u)
  <2>1. Begun(u)
    BY <1>4, <1>5 DEF Begun
  <2>2. Chained(u)
    <3>1. CASE Complete
      <4>1. /\ Len(u.open) = 2 /\ u.open[1] = hop /\ u.open[2] = inner
            /\ DOMAIN u.open = {1, 2}
        BY <1>3, <1>4, <3>1
      <4>2. Root(u) = Root(t)
        BY <1>4 DEF Root
      <4>. QED  BY <4>1, <4>2, <3>1 DEF Chained, Linked, Shaped, InStep, HopId, ProcessingId
    <3>2. CASE ~Complete
      BY <3>2, <1>3, <1>4 DEF Chained, Linked, Shaped, InStep
    <3>. QED  BY <3>1, <3>2
  <2>3. Sending(u)
    BY <1>4 DEF Sending
  <2>. QED  BY <2>1, <2>2, <2>3 DEF Core
<1>7. Placed(u)
  BY <1>1, <1>4, <1>5 DEF Placed, Unbegun, Working
<1>8. Deep(u)
  BY <1>3, <1>4, <1>5 DEF Deep, ProcessingId
<1>9. Counted(u) /\ Answered(u)
  BY <1>4, <1>5 DEF Counted, Answered, OkAnswers
<1>. QED  BY <1>4, <1>6, <1>7, <1>8, <1>9 DEF ThreadInv, u, w, v

LEMMA SegmentAt ==
  ASSUME env \in Envs, NEW t \in Threads, Core(t), t.k # 0
  PROVE  /\ FirstUnvisitedIndex(t.body.route) # 0 /\ StepList(t) # <<>>
         /\ StepCount(t) \in Nat \ {0} /\ DOMAIN StepList(t) = 1 .. StepCount(t)
         /\ \A k \in DOMAIN StepList(t) : StepList(t)[k].nested \in BOOLEAN
         /\ t.k \in 1 .. StepCount(t) + 1 /\ t.k \in Nat
<1>1. t.k \in Nat
  BY DEF Threads
<1>2. /\ FirstUnvisitedIndex(t.body.route) # 0 /\ StepList(t) # <<>>
      /\ t.k <= StepCount(t) + 1
  BY DEF Core, Begun
<1>3. /\ StepCount(t) \in Nat /\ DOMAIN StepList(t) = 1 .. StepCount(t) /\ StepCount(t) # 0
      /\ \A k \in DOMAIN StepList(t) : StepList(t)[k].nested \in BOOLEAN
  BY <1>2, SegmentIsBegun
<1>. QED  BY <1>1, <1>2, <1>3

(* Where a span may begin: a step in the processing, its POST in the step, and
   the forward in the hop. *)
Within(t, s) ==
  \/ Len(t.open) = 1 /\ s.id = ClientId(StepCount(t) + 1)
  \/ /\ Len(t.open) = 2 /\ t.open[2].id = ProcessingId
     /\ \E k \in 1 .. StepCount(t) : s.id = StepId(k)
  \/ /\ Len(t.open) = 3
     /\ \E k \in 1 .. StepCount(t) : t.open[3].id = StepId(k) /\ s.id = ClientId(k)

Pushes(t, u, s) ==
  /\ s \in [id : SpanIds, parent : SpanIds] /\ s.parent = Below(t)
  /\ u.body = t.body /\ u.open = Append(t.open, s)

(* A span that begins is chained to the one around it. *)
LEMMA PushKeeps ==
  ASSUME NEW t \in Threads, Complete, Chained(t), NEW u, NEW s, Pushes(t, u, s), Within(t, s)
  PROVE  /\ Chained(u) /\ Len(u.open) = Len(t.open) + 1
         /\ \A i \in 1 .. Len(t.open) : u.open[i] = t.open[i]
         /\ u.open[Len(u.open)] = s
<1>. DEFINE n == Len(t.open)
<1>a. n \in {1, 2, 3}
  BY DEF Within
<1>1. n \in Nat /\ DOMAIN t.open = 1 .. n /\ t.open # <<>>
  <2>1. n \in Nat /\ DOMAIN t.open = 1 .. n
    BY SpanTypes
  <2>2. n # 0
    BY <1>a
  <2>. QED  BY <2>1, <2>2
<1>2. s.parent = t.open[n].id
  BY <1>1 DEF Below, Last, Pushes
<1>3. /\ \A i \in DOMAIN t.open :
           t.open[i].parent = IF i = 1 THEN Root(t) ELSE t.open[i - 1].id
      /\ n >= 1 => t.open[1].id = HopId
      /\ n = 3 => t.open[2].id = ProcessingId
  <2>1. /\ \A i \in DOMAIN t.open :
             t.open[i].parent = IF i = 1 THEN Root(t) ELSE t.open[i - 1].id
        /\ n >= 1 => t.open[1].id = HopId
    BY DEF Chained, Linked, Shaped, InStep
  <2>2. n = 3 => n >= 3
    OBVIOUS
  <2>3. n >= 3 => t.open[2].id = ProcessingId
    BY DEF Chained, Linked, Shaped, InStep
  <2>. HIDE DEF n
  <2>. QED  BY <2>1, <2>2, <2>3
<1>4. /\ Len(u.open) = n + 1 /\ DOMAIN u.open = 1 .. n + 1 /\ u.open[n + 1] = s
      /\ \A i \in 1 .. n : u.open[i] = t.open[i]
  <2>1. t.open \in Seq([id : SpanIds, parent : SpanIds])
    BY DEF Threads
  <2>2. s \in [id : SpanIds, parent : SpanIds] /\ u.open = Append(t.open, s)
    BY DEF Pushes
  <2>. QED  BY <2>1, <2>2, <1>1
<1>5. Root(u) = Root(t) /\ StepCount(u) = StepCount(t)
  BY DEF Root, StepCount, StepList, Pushes
<1>6. \A i \in DOMAIN u.open :
        u.open[i].parent = IF i = 1 THEN Root(u) ELSE u.open[i - 1].id
  <2>2. ASSUME NEW i \in 1 .. n
        PROVE  u.open[i].parent = IF i = 1 THEN Root(u) ELSE u.open[i - 1].id
    <3>1. u.open[i] = t.open[i] /\ (i # 1 => u.open[i - 1] = t.open[i - 1])
      BY <1>1, <1>4
    <3>. QED  BY <3>1, <1>1, <1>3, <1>5
  <2>3. u.open[n + 1].parent = IF n + 1 = 1 THEN Root(u) ELSE u.open[(n + 1) - 1].id
    <3>1. n \in 1 .. n /\ n + 1 # 1 /\ (n + 1) - 1 = n
      BY <1>1, <1>a
    <3>2. u.open[n] = t.open[n]
      BY <3>1, <1>4
    <3>. HIDE DEF n
    <3>. QED  BY <3>1, <3>2, <1>2, <1>4
  <2>5. \A i \in 1 .. n + 1 : i \in 1 .. n \/ i = n + 1
    BY <1>1
  <2>. HIDE DEF n
  <2>. QED  BY <1>4, <2>2, <2>3, <2>5
<1>7. u.open[1].id = HopId /\ n + 1 <= 4
  <2>1. n <= 3 /\ n >= 1 /\ 1 \in 1 .. n
    <3>. HIDE DEF n
    <3>. QED  BY <1>1, <1>a
  <2>. QED  BY <1>1, <1>3, <1>4, <2>1
<1>8. CASE n = 1
  <2>0. s.id = ClientId(StepCount(t) + 1)
    BY <1>8 DEF Within
  <2>1. u.open[2].id = ClientId(StepCount(u) + 1) /\ Len(u.open) = 2
    BY <1>4, <1>5, <1>8, <2>0
  <2>. QED  BY <1>4, <1>6, <1>7, <2>1 DEF Chained, Linked, Shaped, InStep
<1>9. CASE n = 2
  <2>1. u.open[2] = t.open[2] /\ u.open[3] = s /\ Len(u.open) = 3
    BY <1>4, <1>9
  <2>0. /\ t.open[2].id = ProcessingId
        /\ \E k \in 1 .. StepCount(t) : s.id = StepId(k)
    BY <1>9 DEF Within
  <2>2. /\ u.open[2].id = ProcessingId
        /\ \E k \in 1 .. StepCount(u) : u.open[3].id = StepId(k)
    BY <1>5, <2>0, <2>1
  <2>3. Len(u.open) <= 4 /\ Len(u.open) # 4
    BY <2>1
  <2>4. InStep(u)
    BY <2>2, <2>3 DEF InStep
  <2>5. Linked(u)
    BY <1>6 DEF Linked
  <2>6. Shaped(u)
    BY <1>7, <2>2, <2>3, <2>4 DEF Shaped
  <2>. QED  BY <2>5, <2>6, <1>4 DEF Chained
<1>10. CASE n = 3
  <2>1. /\ u.open[2] = t.open[2] /\ u.open[3] = t.open[3] /\ u.open[4] = s
        /\ Len(u.open) = 4
    BY <1>4, <1>10
  <2>2. /\ u.open[2].id = ProcessingId
        /\ \E k \in 1 .. StepCount(u) :
             u.open[3].id = StepId(k) /\ u.open[4].id = ClientId(k)
    <3>1. \E k \in 1 .. StepCount(t) : t.open[3].id = StepId(k) /\ s.id = ClientId(k)
      BY <1>10 DEF Within
    <3>. QED  BY <1>3, <1>5, <1>10, <2>1, <3>1
  <2>3. Len(u.open) <= 4
    BY <2>1
  <2>4. InStep(u)
    BY <2>2 DEF InStep
  <2>5. Linked(u)
    BY <1>6 DEF Linked
  <2>6. Shaped(u)
    BY <1>7, <2>2, <2>3, <2>4 DEF Shaped
  <2>. QED  BY <2>5, <2>6, <1>4 DEF Chained
<1>11. Chained(u)
  BY <1>a, <1>8, <1>9, <1>10
<1>. QED  BY <1>4, <1>11

(* And one that ends leaves a chain. *)
Pops(t, u) == u.body = t.body /\ u.open = Front(t.open)

LEMMA PopKeeps ==
  ASSUME NEW t \in Threads, Len(t.open) > 0, Chained(t), NEW u, Pops(t, u)
  PROVE  /\ Chained(u) /\ Len(u.open) = Len(t.open) - 1
         /\ \A i \in 1 .. Len(u.open) : u.open[i] = t.open[i]
         /\ u.open \in Seq([id : SpanIds, parent : SpanIds])
<1>. DEFINE S == [id : SpanIds, parent : SpanIds]
            n == Len(t.open)
<1>1. t.open \in Seq(S) /\ n \in Nat /\ DOMAIN t.open = 1 .. n
  BY SpanTypes DEF Threads
<1>2. /\ u.open \in Seq(S) /\ Len(u.open) = n - 1
      /\ \A i \in 1 .. n - 1 : u.open[i] = t.open[i]
  <2>. HIDE DEF S
  <2>1. \A i \in 1 .. n - 1 : t.open[i] \in S
    BY <1>1, ElementOfSeq
  <2>2. u.open = SubSeq(t.open, 1, n - 1)
    BY DEF Front, Pops
  <2>. QED  BY <1>1, <2>1, <2>2, SubSeqProperties
<1>3. DOMAIN u.open = 1 .. n - 1
  BY <1>1, <1>2
<1>4. Root(u) = Root(t) /\ StepCount(u) = StepCount(t)
  BY DEF Root, StepCount, StepList, Pops
<1>5. CASE Complete
  <2>0. /\ n <= 4
        /\ \A i \in DOMAIN t.open :
             t.open[i].parent = IF i = 1 THEN Root(t) ELSE t.open[i - 1].id
        /\ n >= 1 => t.open[1].id = HopId
        /\ n >= 2 => t.open[2].id \in {ProcessingId, ClientId(StepCount(t) + 1)}
        /\ n >= 3 => t.open[2].id = ProcessingId
        /\ n >= 3 => \E j \in 1 .. StepCount(t) : t.open[3].id = StepId(j)
    <3>1. /\ n <= 4
          /\ \A i \in DOMAIN t.open :
               t.open[i].parent = IF i = 1 THEN Root(t) ELSE t.open[i - 1].id
      BY <1>5 DEF Chained, Linked, Shaped, InStep
    <3>2. n >= 1 => t.open[1].id = HopId
      BY <1>5 DEF Chained, Linked, Shaped, InStep
    <3>3. n >= 2 => t.open[2].id \in {ProcessingId, ClientId(StepCount(t) + 1)}
      BY <1>5 DEF Chained, Linked, Shaped, InStep
    <3>4. n >= 3 => t.open[2].id = ProcessingId
      BY <1>5 DEF Chained, Linked, Shaped, InStep
    <3>5. n >= 3 => \E j \in 1 .. StepCount(t) : t.open[3].id = StepId(j)
      BY <1>5 DEF Chained, Linked, Shaped, InStep
    <3>. QED  BY <3>1, <3>2, <3>3, <3>4, <3>5
  <2>1. Len(u.open) <= 4 /\ Len(u.open) # 4
    <3>1. n \in Nat /\ n <= 4 /\ Len(u.open) = n - 1
      BY <1>1, <1>2, <2>0
    <3>. HIDE DEF n
    <3>. QED  BY <3>1
  <2>2. \A i \in DOMAIN u.open :
          u.open[i].parent = IF i = 1 THEN Root(u) ELSE u.open[i - 1].id
    <3>1. SUFFICES ASSUME NEW i \in 1 .. n - 1
                   PROVE  u.open[i].parent = IF i = 1 THEN Root(u) ELSE u.open[i - 1].id
      BY <1>3
    <3>2. i \in DOMAIN t.open
      BY <1>1
    <3>3. u.open[i] = t.open[i] /\ (i # 1 => u.open[i - 1] = t.open[i - 1])
      BY <1>1, <1>2
    <3>. QED  BY <3>2, <3>3, <1>4, <2>0
  <2>3. Len(u.open) >= 1 => u.open[1].id = HopId
    BY <1>1, <1>2, <2>0
  <2>4. Len(u.open) >= 2 =>
          u.open[2].id \in {ProcessingId, ClientId(StepCount(u) + 1)}
    <3>1. Len(u.open) >= 2 => u.open[2] = t.open[2] /\ n >= 2
      BY <1>1, <1>2
    <3>. QED  BY <3>1, <1>4, <2>0
  <2>5. Len(u.open) >= 3 =>
          /\ u.open[2].id = ProcessingId
          /\ \E j \in 1 .. StepCount(u) : u.open[3].id = StepId(j)
    <3>1. Len(u.open) >= 3 => u.open[2] = t.open[2] /\ u.open[3] = t.open[3] /\ n >= 3
      <4>. HIDE DEF n
      <4>1. n - 1 >= 3 => 2 \in 1 .. n - 1 /\ 3 \in 1 .. n - 1 /\ n >= 3
        BY <1>1
      <4>. QED  BY <1>2, <4>1
    <3>2. n >= 3 => t.open[2].id = ProcessingId
      BY <2>0
    <3>3. n >= 3 => \E j \in 1 .. StepCount(t) : t.open[3].id = StepId(j)
      BY <2>0
    <3>. HIDE DEF n
    <3>4. Len(u.open) >= 3 => \E j \in 1 .. StepCount(t) : u.open[3].id = StepId(j)
      BY <3>1, <3>3
    <3>. QED  BY <3>1, <3>2, <3>4, <1>4
  <2>6. Len(u.open) >= 3 => InStep(u)
    BY <2>1, <2>5 DEF InStep
  <2>7. Linked(u)
    BY <2>2 DEF Linked
  <2>8. Shaped(u)
    BY <2>1, <2>3, <2>4, <2>5, <2>6 DEF Shaped
  <2>. QED  BY <2>7, <2>8, <1>2, <1>5 DEF Chained
<1>6. CASE ~Complete
  BY <1>6 DEF Chained, Linked, Shaped, InStep
<1>. QED  BY <1>2, <1>5, <1>6

Span(t, name) == [id |-> <<name, t.k>>, parent |-> Below(t)]

LEMMA BeginKeepsCore ==
  ASSUME NEW t \in Threads, Core(t), NEW name \in {"step", "client"}, t.k # 0,
         Complete => Within(t, Span(t, name))
  PROVE  LET u == Begin(t, name)
         IN  /\ Core(u)
             /\ ~Complete => Len(u.open) = 0
             /\ Complete =>
                  /\ Len(u.open) = Len(t.open) + 1
                  /\ \A i \in 1 .. Len(t.open) : u.open[i] = t.open[i]
                  /\ u.open[Len(u.open)].id = <<name, t.k>>
<1>. DEFINE u == Begin(t, name)
            s == Span(t, name)
<1>0. /\ s.id = <<name, t.k>> /\ s.parent = Below(t)
      /\ s = [id |-> <<name, t.k>>, parent |-> Below(t)]
  BY DEF Span
<1>. HIDE DEF s
<1>a. /\ u \in Threads /\ u.body = t.body /\ u.sent = t.sent /\ u.heard = t.heard
      /\ u.k = t.k
      /\ ~Complete => u.open = t.open
      /\ Complete =>
           /\ u.open = Append(t.open, [id |-> <<name, t.k>>, parent |-> Below(t)])
           /\ <<name, t.k>> \in SpanIds /\ Below(t) \in SpanIds
  <2>1. name \in {"hop", "processing", "step", "client"}
    OBVIOUS
  <2>. QED  BY <2>1, BeginIs, Zenon
<1>. HIDE DEF u
<1>1. /\ u \in Threads /\ u.body = t.body /\ u.sent = t.sent /\ u.heard = t.heard
      /\ u.k = t.k
      /\ ~Complete => u.open = t.open
      /\ Complete => u.open = Append(t.open, s)
      /\ Complete => <<name, t.k>> \in SpanIds /\ Below(t) \in SpanIds
  BY <1>0, <1>a
<1>2. Chained(t) /\ Begun(t) /\ Sending(t)
  BY DEF Core
<1>3. ASSUME Complete
      PROVE  /\ Chained(u) /\ Len(u.open) = Len(t.open) + 1
             /\ \A i \in 1 .. Len(t.open) : u.open[i] = t.open[i]
             /\ u.open[Len(u.open)] = s
  <2>1. Pushes(t, u, s)
    BY <1>0, <1>1, <1>3 DEF Pushes
  <2>2. Within(t, s)
    BY <1>3 DEF s
  <2>. QED  BY <1>2, <1>3, <2>1, <2>2, PushKeeps
<1>4. ~Complete => Chained(u) /\ Len(u.open) = 0
  BY <1>1, <1>2 DEF Chained
<1>5. Begun(u) /\ Sending(u)
  <2>1. t.k # 0 /\ StepList(u) = StepList(t) /\ StepCount(u) = StepCount(t)
    BY <1>1 DEF StepList, StepCount
  <2>2. Begun(u)
    BY <1>1, <1>2, <2>1 DEF Begun
  <2>3. Sending(u)
    BY <1>1, <1>2 DEF Sending
  <2>. QED  BY <2>2, <2>3
<1>6. Core(u)
  BY <1>3, <1>4, <1>5 DEF Core
<1>. QED  BY <1>0, <1>3, <1>4, <1>6 DEF u

LEMMA PostKeepsCore ==
  ASSUME NEW t \in Threads, Core(t), t.k # 0,
         Complete => /\ Len(t.open) # 0 /\ t.open[Len(t.open)].id = ClientId(t.k)
                     /\ \A i \in DOMAIN t.sent : t.sent[i][2] < t.k
  PROVE  Core(Posts(t)) /\ Len(Posts(t).sent) = Len(t.sent) + 1
<1>. DEFINE u == Posts(t)
            p == Traceparent(t)
<1>1. /\ u \in Threads /\ u.body = t.body /\ u.open = t.open /\ u.heard = t.heard /\ u.k = t.k
      /\ u.sent = Append(t.sent, p) /\ p \in SpanIds
      /\ Complete => p = ClientId(t.k)
  BY PostsIs
<1>. HIDE DEF u, p
<1>2. Begun(t) /\ Chained(t) /\ Sending(t) /\ t.k \in Nat
  BY DEF Core, Threads
<1>3. Begun(u)
  BY <1>1, <1>2 DEF Begun, StepList, StepCount
<1>4. Chained(u)
  BY <1>1, <1>2 DEF Chained, Linked, Shaped, InStep, StepList, StepCount, Root
<1>5. /\ Len(u.sent) = Len(t.sent) + 1 /\ DOMAIN u.sent = 1 .. Len(t.sent) + 1
      /\ DOMAIN t.sent = 1 .. Len(t.sent) /\ Len(t.sent) \in Nat
      /\ u.sent[Len(t.sent) + 1] = p
      /\ \A i \in 1 .. Len(t.sent) : u.sent[i] = t.sent[i]
  <2>1. t.sent \in Seq(SpanIds)
    BY DEF Threads
  <2>. QED  BY <1>1, <2>1
<1>6. Sending(u)
  <2>1. CASE Complete
    <3>. DEFINE m == Len(t.sent)
    <3>1. \A i \in 1 .. m : \E n \in 1 .. t.k : t.sent[i] = ClientId(n)
      BY <1>2, <1>5, <2>1 DEF Sending
    <3>2. \A i, j \in 1 .. m : i < j => t.sent[i][2] < t.sent[j][2]
      BY <1>2, <1>5, <2>1 DEF Sending
    <3>3. \A i \in 1 .. m : t.sent[i][2] < t.k
      BY <1>5, <2>1
    <3>4. u.sent[m + 1] = ClientId(t.k) /\ u.sent[m + 1][2] = t.k
      BY <1>1, <1>5, <2>1 DEF ClientId
    <3>5. /\ DOMAIN u.sent = 1 .. m + 1 /\ m \in Nat
          /\ \A i \in 1 .. m : u.sent[i] = t.sent[i]
      BY <1>5
    <3>. HIDE DEF m
    <3>6. \A i \in 1 .. m + 1 : i \in 1 .. m \/ i = m + 1
      BY <3>5
    <3>7. t.k \in 1 .. t.k
      BY <1>2
    <3>8. \A i \in DOMAIN u.sent : \E n \in 1 .. u.k : u.sent[i] = ClientId(n)
      BY <1>1, <3>1, <3>4, <3>5, <3>6, <3>7
    <3>9. ASSUME NEW i \in DOMAIN u.sent, NEW j \in DOMAIN u.sent, i < j
          PROVE  u.sent[i][2] < u.sent[j][2]
      <4>1. i \in 1 .. m
        BY <3>5, <3>9
      <4>2. CASE j \in 1 .. m
        BY <3>2, <3>5, <3>9, <4>1, <4>2
      <4>3. CASE j = m + 1
        BY <3>3, <3>4, <3>5, <4>1, <4>3
      <4>. QED  BY <3>5, <3>6, <4>2, <4>3
    <3>. QED  BY <3>8, <3>9 DEF Sending
  <2>2. CASE ~Complete
    BY <2>2 DEF Sending
  <2>. QED  BY <2>1, <2>2
<1>. QED  BY <1>3, <1>4, <1>5, <1>6 DEF Core, u

(* A handler between two steps. *)
LEMMA BetweenSteps ==
  ASSUME env \in Envs, NEW t \in Threads, ThreadInv(t), t.pc = "steps"
  PROVE  /\ Core(t) /\ Answered(t) /\ t.k # 0 /\ t.k \in Nat /\ t.answer = "none"
         /\ t.heard \in {"none", "200"} /\ t.body.form = "object"
         /\ Len(t.sent) = Behind(t) /\ Behind(t) \in Nat
         /\ Complete => \A i \in DOMAIN t.sent : t.sent[i][2] < t.k
         /\ Complete => Len(t.open) = 2 /\ t.open[2].id = ProcessingId
         /\ ~Complete => Len(t.open) = 0
         /\ StepCount(t) \in Nat \ {0} /\ DOMAIN StepList(t) = 1 .. StepCount(t)
         /\ IF AllStepsDone(t) THEN t.k = StepCount(t) + 1 ELSE t.k \in 1 .. StepCount(t)
<1>1. Stage(t) = "steps"
  BY DEF Stage
<1>2. /\ Core(t) /\ Answered(t) /\ t.k # 0 /\ t.answer = "none"
      /\ t.heard \in {"none", "200"} /\ t.body.form = "object"
  BY <1>1 DEF ThreadInv, Placed, Working
<1>3. /\ Len(t.sent) = Behind(t)
      /\ Complete => \A i \in DOMAIN t.sent : t.sent[i][2] < t.k
  BY <1>1 DEF ThreadInv, Counted
<1>4. /\ Complete => Len(t.open) = 2 /\ t.open[2].id = ProcessingId
      /\ ~Complete => Len(t.open) = 0
  <2>1. Complete => Len(t.open) = 2 /\ t.open[2].id = ProcessingId
    BY <1>1 DEF ThreadInv, Deep
  <2>2. ~Complete => Len(t.open) = 0
    BY <1>2 DEF Core, Chained
  <2>. QED  BY <2>1, <2>2
<1>5. /\ StepCount(t) \in Nat \ {0} /\ DOMAIN StepList(t) = 1 .. StepCount(t)
      /\ t.k \in 1 .. StepCount(t) + 1 /\ t.k \in Nat
  BY <1>2, SegmentAt
<1>6. Behind(t) \in Nat
  BY <1>5, NestedCounts DEF Behind, StepCount
<1>7. IF AllStepsDone(t) THEN t.k = StepCount(t) + 1 ELSE t.k \in 1 .. StepCount(t)
  BY <1>5 DEF AllStepsDone, StepCount
<1>. QED  BY <1>2, <1>3, <1>4, <1>5, <1>6, <1>7

(* The span of a step. *)
LEMMA StepBegins ==
  ASSUME env \in Envs, NEW t \in Threads, ThreadInv(t), t.pc = "steps", ~AllStepsDone(t)
  PROVE  LET u == Begin(t, "step")
         IN  /\ u \in Threads /\ u.body = t.body /\ u.sent = t.sent /\ u.heard = t.heard
             /\ u.gone = t.gone /\ u.missed = t.missed /\ u.pc = t.pc /\ u.k = t.k
             /\ u.answer = t.answer
             /\ Core(u)
             /\ ~Complete => Len(u.open) = 0
             /\ Complete => Len(u.open) = 3 /\ u.open[3].id = StepId(t.k)
<1>1. /\ Core(t) /\ t.k # 0 /\ t.k \in 1 .. StepCount(t)
      /\ Complete => Len(t.open) = 2 /\ t.open[2].id = ProcessingId
  BY BetweenSteps
<1>2. Complete => Within(t, Span(t, "step"))
  <2>1. Span(t, "step").id = StepId(t.k)
    BY DEF Span, StepId
  <2>. QED  BY <1>1, <2>1 DEF Within
<1>. DEFINE u == Begin(t, "step")
<1>3. /\ Core(u)
      /\ ~Complete => Len(u.open) = 0
      /\ Complete => /\ Len(u.open) = Len(t.open) + 1
                     /\ u.open[Len(u.open)].id = <<"step", t.k>>
  BY <1>1, <1>2, BeginKeepsCore
<1>4. /\ u \in Threads /\ u.body = t.body /\ u.sent = t.sent /\ u.heard = t.heard
      /\ u.gone = t.gone /\ u.missed = t.missed /\ u.pc = t.pc /\ u.k = t.k
      /\ u.answer = t.answer
  BY BeginIs
<1>. HIDE DEF u
<1>5. Complete => Len(u.open) = 3
  <2>. DEFINE n == Len(t.open)
              m == Len(u.open)
  <2>1. Complete => n = 2
    BY <1>1
  <2>2. Complete => m = n + 1
    BY <1>3
  <2>. HIDE DEF n, m
  <2>3. Complete => m = 3
    BY <2>1, <2>2
  <2>. QED  BY <2>3 DEF m
<1>6. Complete => u.open[3].id = StepId(t.k)
  BY <1>3, <1>5 DEF StepId
<1>7. /\ Core(u)
      /\ ~Complete => Len(u.open) = 0
      /\ Complete => Len(u.open) = 3 /\ u.open[3].id = StepId(t.k)
  BY <1>3, <1>5, <1>6
<1>. QED  BY <1>4, <1>7 DEF u

LEMMA SpinKeeps ==
  ASSUME env \in Envs, NEW t \in Threads, ThreadInv(t), t.pc = "steps", ~AllStepsDone(t),
         ~StepList(t)[t.k].nested
  PROVE  LET u == [Begin(t, "step") EXCEPT !.pc = "spin"] IN u \in Threads /\ ThreadInv(u)
<1>. DEFINE v == Begin(t, "step")
            u == [v EXCEPT !.pc = "spin"]
<1>1. /\ v \in Threads /\ v.body = t.body /\ v.sent = t.sent /\ v.heard = t.heard
      /\ v.k = t.k /\ v.answer = t.answer /\ Core(v)
      /\ Complete => Len(v.open) = 3 /\ v.open[3].id = StepId(t.k)
  BY StepBegins
<1>. HIDE DEF v
<1>2. u \in Threads /\ Same(v, u) /\ u.k = t.k /\ u.answer = t.answer /\ u.pc = "spin"
  BY <1>1 DEF Threads, Same
<1>. HIDE DEF u
<1>3. Core(u)
  BY <1>1, <1>2, SameCore
<1>4. /\ Stage(u) = "spin" /\ u.body = t.body /\ u.open = v.open /\ u.sent = t.sent
      /\ u.heard = t.heard
  BY <1>1, <1>2 DEF Stage, Same
<1>5. /\ StepList(u) = StepList(t) /\ StepCount(u) = StepCount(t) /\ ~AllStepsDone(u)
      /\ Behind(u) = Behind(t)
  BY <1>2, <1>4 DEF StepList, StepCount, AllStepsDone, Behind
<1>6. Placed(u)
  BY <1>2, <1>4, <1>5, BetweenSteps DEF Placed, Unbegun, Working
<1>7. Deep(u)
  BY <1>1, <1>2, <1>4 DEF Deep
<1>8. Counted(u)
  <2>1. /\ Len(u.sent) = Behind(u) /\ u.answer = "none"
        /\ Complete => \A i \in DOMAIN u.sent : u.sent[i][2] < u.k
    BY <1>2, <1>4, <1>5, BetweenSteps
  <2>. QED  BY <1>4, <2>1 DEF Counted, OkAnswers
<1>9. Answered(u)
  <2>1. u.answer = "none"
    BY <1>2, BetweenSteps
  <2>. QED  BY <2>1 DEF Answered
<1>. QED  BY <1>2, <1>3, <1>6, <1>7, <1>8, <1>9 DEF ThreadInv, u, v

LEMMA NoPeerKeeps ==
  ASSUME env \in Envs, NEW t \in Threads, ThreadInv(t), t.pc = "steps", ~AllStepsDone(t),
         ~PeerUrl(StepList(t)[t.k].route[1].id), NEW a \in {"502", "lost"}
  PROVE  LET u == Leaves(Begin(t, "step"), a) IN u \in Threads /\ ThreadInv(u)
<1>. DEFINE v == Begin(t, "step")
<1>1. v \in Threads /\ v.body = t.body /\ v.k = t.k /\ Core(v)
  BY StepBegins
<1>. HIDE DEF v
<1>2. t.k # 0 /\ t.body.form = "object"
  BY BetweenSteps
<1>3. NextPeer(v) = StepList(t)[t.k].route[1].id
  BY <1>1 DEF NextPeer, AllStepsDone, StepList
<1>4. Leaves(v, a) \in Threads /\ ThreadInv(Leaves(v, a))
  BY <1>1, <1>2, <1>3, LeavesKeeps
<1>. QED  BY <1>4 DEF v

LEMMA PostNestedKeeps ==
  ASSUME env \in Envs, NEW t \in Threads, ThreadInv(t), t.pc = "steps", ~AllStepsDone(t),
         StepList(t)[t.k].nested
  PROVE  LET u == Posts(Begin(Begin(t, "step"), "client")) IN u \in Threads /\ ThreadInv(u)
<1>. DEFINE v == Begin(t, "step")
            w == Begin(v, "client")
            u == Posts(w)
<1>0. /\ t.k # 0 /\ t.k \in Nat /\ t.k \in 1 .. StepCount(t) /\ Len(t.sent) = Behind(t)
      /\ t.body.form = "object" /\ t.answer = "none" /\ t.heard \in {"none", "200"}
      /\ Complete => \A i \in DOMAIN t.sent : t.sent[i][2] < t.k
  BY BetweenSteps
<1>1. /\ v \in Threads /\ v.body = t.body /\ v.sent = t.sent /\ v.heard = t.heard
      /\ v.k = t.k /\ v.answer = t.answer /\ Core(v)
      /\ ~Complete => Len(v.open) = 0
      /\ Complete => Len(v.open) = 3 /\ v.open[3].id = StepId(t.k)
  BY StepBegins
<1>. HIDE DEF v
<1>2. Complete => Within(v, Span(v, "client"))
  <2>1. Span(v, "client").id = ClientId(t.k)
    BY <1>1 DEF Span, ClientId
  <2>2. StepCount(v) = StepCount(t)
    BY <1>1 DEF StepCount, StepList
  <2>. QED  BY <1>0, <1>1, <2>1, <2>2 DEF Within
<1>3. /\ Core(w)
      /\ ~Complete => Len(w.open) = 0
      /\ Complete => /\ Len(w.open) = Len(v.open) + 1
                     /\ w.open[Len(w.open)].id = <<"client", v.k>>
  BY <1>0, <1>1, <1>2, BeginKeepsCore
<1>4. /\ w \in Threads /\ w.body = t.body /\ w.sent = t.sent /\ w.heard = t.heard
      /\ w.k = t.k /\ w.answer = t.answer
  BY <1>1, BeginIs
<1>. HIDE DEF w
<1>a. Complete => Len(w.open) = 4
  <2>. DEFINE n == Len(v.open)
              m == Len(w.open)
  <2>1. Complete => n = 3
    BY <1>1
  <2>2. Complete => m = n + 1
    BY <1>3
  <2>. HIDE DEF n, m
  <2>3. Complete => m = 4
    BY <2>1, <2>2
  <2>. QED  BY <2>3 DEF m
<1>b. Complete => w.open[Len(w.open)].id = ClientId(w.k)
  <2>1. w.k = v.k
    BY <1>1, <1>4
  <2>. QED  BY <1>3, <2>1 DEF ClientId
<1>5. /\ Complete => Len(w.open) # 0 /\ Len(w.open) = 4
      /\ Complete => w.open[Len(w.open)].id = ClientId(w.k)
  <2>1. 4 # 0
    OBVIOUS
  <2>. QED  BY <1>a, <1>b, <2>1
<1>6. Core(u) /\ Len(u.sent) = Len(w.sent) + 1
  BY <1>0, <1>3, <1>4, <1>5, PostKeepsCore
<1>7. /\ u \in Threads /\ u.body = t.body /\ u.open = w.open /\ u.heard = t.heard
      /\ u.k = t.k /\ u.answer = t.answer /\ u.pc = "wait"
  <2>1. Complete => Len(w.open) # 0
    BY <1>5
  <2>2. /\ u \in Threads /\ u.body = w.body /\ u.open = w.open /\ u.heard = w.heard
        /\ u.k = w.k /\ u.answer = w.answer /\ u.pc = "wait"
    BY <1>4, <2>1, PostsIs
  <2>. HIDE DEF u
  <2>. QED  BY <1>4, <2>2
<1>. HIDE DEF u
<1>8. /\ StepList(u) = StepList(t) /\ StepCount(u) = StepCount(t) /\ ~AllStepsDone(u)
      /\ Behind(u) = Behind(t) /\ Stage(u) = "wait"
  BY <1>7 DEF StepList, StepCount, AllStepsDone, Behind, Stage
<1>9. Placed(u)
  BY <1>0, <1>7, <1>8 DEF Placed, Unbegun, Working
<1>10. Deep(u)
  BY <1>5, <1>7, <1>8 DEF Deep
<1>11. Counted(u)
  BY <1>0, <1>4, <1>6, <1>7, <1>8 DEF Counted, OkAnswers
<1>12. Answered(u)
  BY <1>0, <1>7 DEF Answered
<1>. QED  BY <1>6, <1>7, <1>9, <1>10, <1>11, <1>12 DEF ThreadInv, u, w, v

(* A step is over, by itself or because a peer has answered. *)
LEMMA StepDoneKeeps ==
  ASSUME env \in Envs, NEW t \in Threads, Core(t), t.body.form = "object",
         t.k \in 1 .. StepCount(t), t.answer = "none", t.heard \in {"none", "200"},
         Complete => Len(t.open) >= 3,
         Len(t.sent) = Behind(t) + IF StepList(t)[t.k].nested THEN 1 ELSE 0
  PROVE  LET u == Ends([t EXCEPT !.k = @ + 1], 2, "steps") IN u \in Threads /\ ThreadInv(u)
<1>. DEFINE v == [t EXCEPT !.k = @ + 1]
<1>0. t.k \in Nat /\ t.k # 0
  BY DEF Threads
<1>1. /\ v \in Threads /\ v.body = t.body /\ v.open = t.open /\ v.sent = t.sent
      /\ v.heard = t.heard /\ v.answer = t.answer /\ v.k = t.k + 1
  BY DEF Threads
<1>. HIDE DEF v
<1>2. /\ StepList(v) = StepList(t) /\ StepCount(v) = StepCount(t) /\ Root(v) = Root(t)
      /\ StepCount(t) \in Nat \ {0} /\ DOMAIN StepList(t) = 1 .. StepCount(t)
  BY <1>0, <1>1, SegmentAt DEF StepList, StepCount, Root
<1>3. v.k # 0 /\ v.k <= StepCount(v) + 1
  <2>1. t.k \in 1 .. StepCount(t)
    OBVIOUS
  <2>. QED  BY <1>0, <1>1, <1>2, <2>1
<1>4. Begun(t) /\ Chained(t) /\ Sending(t)
  BY DEF Core
<1>5. Begun(v)
  BY <1>0, <1>1, <1>2, <1>3, <1>4 DEF Begun
<1>6. Chained(v)
  BY <1>1, <1>2, <1>4 DEF Chained, Linked, Shaped, InStep
<1>7. Complete => \A i \in DOMAIN t.sent : \E n \in 1 .. t.k : t.sent[i] = ClientId(n)
  BY <1>4 DEF Sending
<1>8. Sending(v)
  <2>1. \A n \in 1 .. t.k : n \in 1 .. t.k + 1
    BY <1>0
  <2>. QED  BY <1>1, <1>4, <1>7, <2>1 DEF Sending
<1>9. Complete => \A i \in DOMAIN v.sent : v.sent[i][2] < v.k
  <2>1. \A n \in 1 .. t.k : ClientId(n)[2] < t.k + 1
    BY <1>0 DEF ClientId
  <2>. QED  BY <1>1, <1>7, <2>1
<1>10. Len(v.sent) = Behind(v)
  <2>1. Cardinality(NestedBefore(StepList(t), t.k + 1)) =
          Cardinality(NestedBefore(StepList(t), t.k)) + IF StepList(t)[t.k].nested THEN 1 ELSE 0
    BY <1>2, NestedCounts DEF StepCount
  <2>. QED  BY <1>1, <1>2, <2>1 DEF Behind
<1>11. Complete => Len(v.open) >= 2 /\ v.open[2].id = ProcessingId
  <2>1. Complete => Len(v.open) >= 3
    BY <1>1
  <2>2. Complete => v.open[2].id = ProcessingId
    BY <1>6, <2>1 DEF Chained, Shaped
  <2>3. Complete => Len(v.open) >= 2
    <3>. DEFINE n == Len(v.open)
    <3>1. n \in Nat
      BY <1>1, SpanTypes
    <3>2. Complete => n >= 3
      BY <2>1
    <3>. HIDE DEF n
    <3>3. Complete => n >= 2
      BY <3>1, <3>2
    <3>. QED  BY <3>3 DEF n
  <2>. QED  BY <2>2, <2>3
<1>12. Core(v)
  BY <1>5, <1>6, <1>8 DEF Core
<1>13. Answered(v) /\ v.answer \notin OkAnswers
  BY <1>1 DEF Answered, OkAnswers
<1>14. Ends(v, 2, "steps") \in Threads /\ ThreadInv(Ends(v, 2, "steps"))
  BY <1>1, <1>3, <1>9, <1>10, <1>11, <1>12, <1>13, EndsKeeps
<1>. QED  BY <1>14 DEF v

LEMMA SpunKeeps ==
  ASSUME env \in Envs, NEW t \in Threads, ThreadInv(t), t.pc = "spin"
  PROVE  LET u == Ends([t EXCEPT !.k = @ + 1], 2, "steps") IN u \in Threads /\ ThreadInv(u)
<1>1. Stage(t) = "spin"
  BY DEF Stage
<1>2. /\ Core(t) /\ t.body.form = "object" /\ t.k # 0 /\ t.answer = "none"
      /\ t.heard \in {"none", "200"} /\ ~AllStepsDone(t) /\ ~StepList(t)[t.k].nested
  BY <1>1 DEF ThreadInv, Placed, Working
<1>3. Len(t.sent) = Behind(t)
  BY <1>1 DEF ThreadInv, Counted
<1>4. Complete => Len(t.open) >= 3
  <2>. DEFINE n == Len(t.open)
  <2>1. Complete => n = 3
    BY <1>1 DEF ThreadInv, Deep
  <2>. HIDE DEF n
  <2>2. Complete => n >= 3
    BY <2>1
  <2>. QED  BY <2>2 DEF n
<1>5. /\ t.k \in 1 .. StepCount(t) + 1 /\ StepCount(t) \in Nat
      /\ DOMAIN StepList(t) = 1 .. StepCount(t)
  BY <1>2, SegmentAt
<1>6. t.k \in 1 .. StepCount(t)
  BY <1>2, <1>5 DEF AllStepsDone, StepCount
<1>7. Behind(t) \in Nat
  BY <1>5, <1>6, NestedCounts DEF Behind, StepCount
<1>8. Len(t.sent) = Behind(t) + IF StepList(t)[t.k].nested THEN 1 ELSE 0
  BY <1>2, <1>3, <1>7
<1>. QED  BY <1>2, <1>4, <1>6, <1>8, StepDoneKeeps

LEMMA StepsEndKeeps ==
  ASSUME env \in Envs, NEW t \in Threads, ThreadInv(t), t.pc = "steps", AllStepsDone(t)
  PROVE  Ends(t, 1, "mark") \in Threads /\ ThreadInv(Ends(t, 1, "mark"))
<1>1. /\ Core(t) /\ Answered(t) /\ t.k # 0 /\ t.answer = "none"
      /\ t.heard \in {"none", "200"} /\ t.body.form = "object"
      /\ Len(t.sent) = Behind(t)
      /\ Complete => \A i \in DOMAIN t.sent : t.sent[i][2] < t.k
      /\ t.k = StepCount(t) + 1
  BY BetweenSteps
<1>2. Complete => Len(t.open) >= 1
  <2>. DEFINE n == Len(t.open)
  <2>1. Complete => n = 2
    BY BetweenSteps
  <2>. HIDE DEF n
  <2>2. Complete => n >= 1
    BY <2>1
  <2>. QED  BY <2>2 DEF n
<1>3. t.answer \notin OkAnswers
  BY <1>1 DEF OkAnswers
<1>. QED  BY <1>1, <1>2, <1>3, EndsKeeps

(* All steps are done, and what is left is the rest of the route. *)
LEMMA AtTheMark ==
  ASSUME env \in Envs, NEW t \in Threads, ThreadInv(t), t.pc = "mark"
  PROVE  /\ Core(t) /\ t.k # 0 /\ t.k \in Nat /\ t.answer = "none"
         /\ t.heard \in {"none", "200"} /\ t.body.form = "object"
         /\ Len(t.sent) = Behind(t) /\ Behind(t) \in Nat
         /\ Complete => \A i \in DOMAIN t.sent : t.sent[i][2] < t.k
         /\ Complete => Len(t.open) = 1
         /\ ~Complete => Len(t.open) = 0
         /\ t.k = StepCount(t) + 1 /\ AllStepsDone(t)
<1>1. Stage(t) = "mark"
  BY DEF Stage
<1>2. /\ Core(t) /\ t.k # 0 /\ t.answer = "none" /\ t.k = StepCount(t) + 1
      /\ t.heard \in {"none", "200"} /\ t.body.form = "object"
  BY <1>1 DEF ThreadInv, Placed, Working
<1>3. /\ Len(t.sent) = Behind(t)
      /\ Complete => \A i \in DOMAIN t.sent : t.sent[i][2] < t.k
  BY <1>1 DEF ThreadInv, Counted
<1>4. /\ Complete => Len(t.open) = 1
      /\ ~Complete => Len(t.open) = 0
  <2>1. Complete => Len(t.open) = 1
    BY <1>1 DEF ThreadInv, Deep
  <2>2. ~Complete => Len(t.open) = 0
    BY <1>2 DEF Core, Chained
  <2>. QED  BY <2>1, <2>2
<1>5. /\ StepCount(t) \in Nat \ {0} /\ DOMAIN StepList(t) = 1 .. StepCount(t) /\ t.k \in Nat
  BY <1>2, SegmentAt
<1>6. Behind(t) \in Nat
  BY <1>5, NestedCounts DEF Behind, StepCount
<1>7. AllStepsDone(t)
  <2>1. t.k > StepCount(t)
    BY <1>2, <1>5
  <2>. QED  BY <2>1 DEF AllStepsDone, StepCount
<1>. QED  BY <1>2, <1>3, <1>4, <1>5, <1>6, <1>7

LEMMA LastReplyKeeps ==
  ASSUME env \in Envs, NEW t \in Threads, ThreadInv(t), t.pc = "mark", LastHop(t.body)
  PROVE  [t EXCEPT !.pc = "reply"] \in Threads /\ ThreadInv([t EXCEPT !.pc = "reply"])
<1>. DEFINE u == [t EXCEPT !.pc = "reply"]
<1>1. u \in Threads /\ Same(t, u) /\ u.k = t.k /\ u.answer = t.answer /\ u.pc = "reply"
  BY DEF Threads, Same
<1>. HIDE DEF u
<1>2. /\ Core(t) /\ t.k # 0 /\ t.k \in Nat /\ t.answer = "none"
      /\ t.heard \in {"none", "200"} /\ t.body.form = "object"
      /\ Len(t.sent) = Behind(t) /\ Behind(t) \in Nat
      /\ Complete => Len(t.open) = 1
      /\ t.k = StepCount(t) + 1
  BY AtTheMark
<1>3. Core(u)
  BY <1>1, <1>2, SameCore
<1>4. /\ u.body = t.body /\ u.open = t.open /\ u.sent = t.sent /\ u.heard = t.heard
      /\ Stage(u) = "reply" /\ StepCount(u) = StepCount(t) /\ Behind(u) = Behind(t)
  BY <1>1 DEF Same, Stage, StepCount, StepList, Behind
<1>5. Placed(u)
  BY <1>1, <1>2, <1>4 DEF Placed, Unbegun, Working
<1>6. Deep(u)
  BY <1>1, <1>2, <1>4 DEF Deep
<1>7. Counted(u)
  <2>1. Forwards(u) = 0
    BY <1>4 DEF Forwards
  <2>2. Len(u.sent) = Behind(u) + Forwards(u)
    BY <1>2, <1>4, <2>1
  <2>. QED  BY <1>1, <1>2, <1>4, <2>2 DEF Counted
<1>8. Answered(u)
  BY <1>1, <1>2 DEF Answered
<1>. QED  BY <1>1, <1>3, <1>5, <1>6, <1>7, <1>8 DEF ThreadInv, u

LEMMA ForwardKeeps ==
  ASSUME env \in Envs, NEW t \in Threads, ThreadInv(t), t.pc = "mark", ~LastHop(t.body)
  PROVE  LET u == Posts(Begin(t, "client")) IN u \in Threads /\ ThreadInv(u)
<1>. DEFINE w == Begin(t, "client")
            u == Posts(w)
<1>0. /\ Core(t) /\ t.k # 0 /\ t.k \in Nat /\ t.answer = "none"
      /\ t.heard \in {"none", "200"} /\ t.body.form = "object"
      /\ Len(t.sent) = Behind(t) /\ Behind(t) \in Nat
      /\ Complete => \A i \in DOMAIN t.sent : t.sent[i][2] < t.k
      /\ Complete => Len(t.open) = 1
      /\ t.k = StepCount(t) + 1 /\ AllStepsDone(t)
  BY AtTheMark
<1>2. Complete => Within(t, Span(t, "client"))
  <2>1. Span(t, "client").id = ClientId(t.k)
    BY DEF Span, ClientId
  <2>. QED  BY <1>0, <2>1 DEF Within
<1>3. /\ Core(w)
      /\ ~Complete => Len(w.open) = 0
      /\ Complete => /\ Len(w.open) = Len(t.open) + 1
                     /\ w.open[Len(w.open)].id = <<"client", t.k>>
  BY <1>0, <1>2, BeginKeepsCore
<1>4. /\ w \in Threads /\ w.body = t.body /\ w.sent = t.sent /\ w.heard = t.heard
      /\ w.k = t.k /\ w.answer = t.answer
  BY BeginIs
<1>. HIDE DEF w
<1>a. Complete => Len(w.open) = 2
  <2>. DEFINE n == Len(t.open)
              m == Len(w.open)
  <2>1. Complete => n = 1
    BY <1>0
  <2>2. Complete => m = n + 1
    BY <1>3
  <2>. HIDE DEF n, m
  <2>3. Complete => m = 2
    BY <2>1, <2>2
  <2>. QED  BY <2>3 DEF m
<1>b. Complete => w.open[Len(w.open)].id = ClientId(w.k)
  <2>1. w.k = t.k
    BY <1>4
  <2>. QED  BY <1>3, <2>1 DEF ClientId
<1>5. /\ Complete => Len(w.open) # 0 /\ Len(w.open) = 2
      /\ Complete => w.open[Len(w.open)].id = ClientId(w.k)
  <2>1. 2 # 0
    OBVIOUS
  <2>. QED  BY <1>a, <1>b, <2>1
<1>6. Core(u) /\ Len(u.sent) = Len(w.sent) + 1
  BY <1>0, <1>3, <1>4, <1>5, PostKeepsCore
<1>7. /\ u \in Threads /\ u.body = t.body /\ u.open = w.open /\ u.heard = t.heard
      /\ u.k = t.k /\ u.answer = t.answer /\ u.pc = "wait"
  <2>1. Complete => Len(w.open) # 0
    BY <1>5
  <2>2. /\ u \in Threads /\ u.body = w.body /\ u.open = w.open /\ u.heard = w.heard
        /\ u.k = w.k /\ u.answer = w.answer /\ u.pc = "wait"
    BY <1>4, <2>1, PostsIs
  <2>. HIDE DEF u
  <2>. QED  BY <1>4, <2>2
<1>. HIDE DEF u
<1>8. /\ StepList(u) = StepList(t) /\ StepCount(u) = StepCount(t) /\ AllStepsDone(u)
      /\ Behind(u) = Behind(t) /\ Stage(u) = "wait"
  BY <1>0, <1>7 DEF StepList, StepCount, AllStepsDone, Behind, Stage
<1>9. Placed(u)
  BY <1>0, <1>7, <1>8 DEF Placed, Unbegun, Working
<1>10. Deep(u)
  BY <1>5, <1>7, <1>8 DEF Deep
<1>11. Counted(u)
  BY <1>0, <1>4, <1>6, <1>7, <1>8 DEF Counted, OkAnswers
<1>12. Answered(u)
  BY <1>0, <1>7 DEF Answered
<1>. QED  BY <1>6, <1>7, <1>9, <1>10, <1>11, <1>12 DEF ThreadInv, u, w

LEMMA MarkRefusesKeeps ==
  ASSUME env \in Envs, NEW t \in Threads, ThreadInv(t), t.pc = "mark", NEW a,
         \/ a = "lost"
         \/ a = "400" /\ t.body.counter /\ ~LastHop(t.body) /\ ~Named(NextId(t.body))
         \/ a = "502" /\ ~PeerUrl(NextId(t.body))
  PROVE  Leaves(t, a) \in Threads /\ ThreadInv(Leaves(t, a))
<1>1. Core(t) /\ t.k # 0 /\ t.body.form = "object" /\ AllStepsDone(t)
  BY AtTheMark
<1>2. NextPeer(t) = NextId(t.body)
  BY <1>1 DEF NextPeer
<1>3. a \in {"400", "502", "lost"}
  OBVIOUS
<1>. QED  BY <1>1, <1>2, <1>3, LeavesKeeps

(* A handler that has been answered. *)
LEMMA HeardIs ==
  ASSUME env \in Envs, NEW t \in Threads, ThreadInv(t), t.pc = "wait",
         NEW o \in {"200", "error", "torn"}
  PROVE  LET u == [t EXCEPT !.heard = o]
         IN  /\ u \in Threads /\ u.body = t.body /\ u.open = t.open /\ u.sent = t.sent
             /\ u.heard = o /\ u.k = t.k /\ u.answer = "none" /\ u.gone = t.gone
             /\ Core(u) /\ u.body.form = "object" /\ u.k # 0 /\ u.k \in Nat
             /\ StepCount(u) \in Nat \ {0} /\ DOMAIN StepList(u) = 1 .. StepCount(u)
             /\ Len(u.sent) = Behind(u) + 1 /\ Behind(u) \in Nat
             /\ IF AllStepsDone(u) THEN ~LastHop(u.body) /\ u.k = StepCount(u) + 1
                ELSE StepList(u)[u.k].nested /\ u.k \in 1 .. StepCount(u)
             /\ Complete => Len(u.open) = IF AllStepsDone(u) THEN 2 ELSE 4
             /\ ~Complete => Len(u.open) = 0
<1>. DEFINE u == [t EXCEPT !.heard = o]
<1>1. Stage(t) = "wait"
  BY DEF Stage
<1>2. /\ Core(t) /\ t.body.form = "object" /\ t.k # 0 /\ t.answer = "none"
  BY <1>1 DEF ThreadInv, Placed, Working
<1>3. /\ Len(t.sent) = Behind(t) + 1
      /\ IF AllStepsDone(t) THEN ~LastHop(t.body) ELSE StepList(t)[t.k].nested
  BY <1>1 DEF ThreadInv, Counted
<1>4. /\ Complete => Len(t.open) = IF AllStepsDone(t) THEN 2 ELSE 4
      /\ ~Complete => Len(t.open) = 0
  <2>1. Complete => Len(t.open) = IF AllStepsDone(t) THEN 2 ELSE 4
    BY <1>1 DEF ThreadInv, Deep
  <2>2. ~Complete => Len(t.open) = 0
    BY <1>2 DEF Core, Chained
  <2>. QED  BY <2>1, <2>2
<1>5. /\ t.k \in 1 .. StepCount(t) + 1 /\ StepCount(t) \in Nat \ {0} /\ t.k \in Nat
      /\ DOMAIN StepList(t) = 1 .. StepCount(t)
  BY <1>2, SegmentAt
<1>6. IF AllStepsDone(t) THEN t.k = StepCount(t) + 1 ELSE t.k \in 1 .. StepCount(t)
  BY <1>5 DEF AllStepsDone, StepCount
<1>7. Behind(t) \in Nat
  BY <1>5, NestedCounts DEF Behind, StepCount
<1>8. /\ u \in Threads /\ u.body = t.body /\ u.open = t.open /\ u.sent = t.sent
      /\ u.heard = o /\ u.k = t.k /\ u.answer = t.answer /\ u.gone = t.gone
  BY DEF Threads
<1>. HIDE DEF u
<1>9. /\ StepList(u) = StepList(t) /\ StepCount(u) = StepCount(t) /\ Root(u) = Root(t)
      /\ AllStepsDone(u) = AllStepsDone(t) /\ Behind(u) = Behind(t)
  BY <1>8 DEF StepList, StepCount, AllStepsDone, Behind, Root
<1>10. Core(u)
  <2>1. Begun(u)
    BY <1>2, <1>8, <1>9 DEF Core, Begun
  <2>2. Chained(u) /\ Sending(u)
    BY <1>2, <1>8, <1>9 DEF Core, Chained, Linked, Shaped, InStep, Sending
  <2>. QED  BY <2>1, <2>2 DEF Core
<1>11. IF AllStepsDone(u) THEN ~LastHop(u.body) /\ u.k = StepCount(u) + 1
       ELSE StepList(u)[u.k].nested /\ u.k \in 1 .. StepCount(u)
  BY <1>3, <1>6, <1>8, <1>9
<1>12. /\ Complete => Len(u.open) = IF AllStepsDone(u) THEN 2 ELSE 4
       /\ ~Complete => Len(u.open) = 0
  BY <1>4, <1>8, <1>9
<1>. QED  BY <1>2, <1>3, <1>5, <1>7, <1>8, <1>9, <1>10, <1>11, <1>12 DEF u

LEMMA ResumedKeeps ==
  ASSUME env \in Envs, NEW t \in Threads, ThreadInv(t), t.pc = "wait",
         NEW o \in {"200", "error", "torn"}
  PROVE  LET u == Resumed([t EXCEPT !.heard = o], o) IN u \in Threads /\ ThreadInv(u)
<1>. DEFINE v == [t EXCEPT !.heard = o]
<1>1. /\ v \in Threads /\ v.heard = o /\ v.answer = "none"
      /\ Core(v) /\ v.body.form = "object" /\ v.k # 0 /\ v.k \in Nat
      /\ StepCount(v) \in Nat \ {0} /\ DOMAIN StepList(v) = 1 .. StepCount(v)
      /\ Len(v.sent) = Behind(v) + 1 /\ Behind(v) \in Nat
      /\ IF AllStepsDone(v) THEN ~LastHop(v.body) /\ v.k = StepCount(v) + 1
         ELSE StepList(v)[v.k].nested /\ v.k \in 1 .. StepCount(v)
      /\ Complete => Len(v.open) = IF AllStepsDone(v) THEN 2 ELSE 4
      /\ ~Complete => Len(v.open) = 0
  <2>1. /\ v \in Threads /\ v.body = t.body /\ v.open = t.open /\ v.sent = t.sent
        /\ v.heard = o /\ v.k = t.k /\ v.answer = "none" /\ v.gone = t.gone
        /\ Core(v) /\ v.body.form = "object" /\ v.k # 0 /\ v.k \in Nat
        /\ StepCount(v) \in Nat \ {0} /\ DOMAIN StepList(v) = 1 .. StepCount(v)
        /\ Len(v.sent) = Behind(v) + 1 /\ Behind(v) \in Nat
        /\ IF AllStepsDone(v) THEN ~LastHop(v.body) /\ v.k = StepCount(v) + 1
           ELSE StepList(v)[v.k].nested /\ v.k \in 1 .. StepCount(v)
        /\ Complete => Len(v.open) = IF AllStepsDone(v) THEN 2 ELSE 4
        /\ ~Complete => Len(v.open) = 0
    BY HeardIs, Zenon
  <2>. HIDE DEF v
  <2>. QED  BY <2>1
<1>. HIDE DEF v
<1>2. CASE o = "error"
  <2>1. Leaves(v, "502") \in Threads /\ ThreadInv(Leaves(v, "502"))
    BY <1>1, <1>2, LeavesKeeps
  <2>. QED  BY <1>2, <2>1 DEF Resumed, v
<1>3. CASE o = "torn"
  <2>1. Leaves(v, "lost") \in Threads /\ ThreadInv(Leaves(v, "lost"))
    BY <1>1, LeavesKeeps
  <2>. QED  BY <1>3, <2>1 DEF Resumed, v
<1>4. CASE o = "200" /\ ~AllStepsDone(v)
  <2>1. Complete => Len(v.open) >= 3
    <3>. DEFINE n == Len(v.open)
    <3>1. Complete => n = 4
      BY <1>1, <1>4
    <3>. HIDE DEF n
    <3>2. Complete => n >= 3
      BY <3>1
    <3>. QED  BY <3>2 DEF n
  <2>2. Len(v.sent) = Behind(v) + IF StepList(v)[v.k].nested THEN 1 ELSE 0
    BY <1>1, <1>4
  <2>. DEFINE u == Ends([v EXCEPT !.k = @ + 1], 2, "steps")
  <2>3. u \in Threads /\ ThreadInv(u)
    BY <1>1, <1>4, <2>1, <2>2, StepDoneKeeps
  <2>4. Resumed(v, o) = u
    BY <1>4 DEF Resumed
  <2>. HIDE DEF u
  <2>. QED  BY <2>3, <2>4 DEF v
<1>5. CASE o = "200" /\ AllStepsDone(v)
  <2>1. Complete => Len(v.open) >= 1
    <3>. DEFINE n == Len(v.open)
    <3>1. Complete => n = 2
      BY <1>1, <1>5
    <3>. HIDE DEF n
    <3>2. Complete => n >= 1
      BY <3>1
    <3>. QED  BY <3>2 DEF n
  <2>2. Len(v.sent) = Behind(v) + Forwards(v)
    BY <1>1, <1>5 DEF Forwards
  <2>3. Answered(v) /\ v.answer \notin OkAnswers
    BY <1>1 DEF Answered, OkAnswers
  <2>. DEFINE u == Ends(v, 1, "reply")
  <2>4. u \in Threads /\ ThreadInv(u)
    BY <1>1, <1>5, <2>1, <2>2, <2>3, EndsKeeps
  <2>5. Resumed(v, o) = u
    BY <1>5 DEF Resumed
  <2>. HIDE DEF u
  <2>. QED  BY <2>4, <2>5 DEF v
<1>. QED  BY <1>2, <1>3, <1>4, <1>5

(* The 200. *)
LEMMA AtTheReply ==
  ASSUME env \in Envs, NEW t \in Threads, ThreadInv(t), t.pc = "reply"
  PROVE  /\ Core(t) /\ t.k # 0 /\ t.answer = "none" /\ t.body.form = "object"
         /\ t.k = StepCount(t) + 1 /\ t.heard \in {"none", "200"}
         /\ Len(t.sent) = Behind(t) + Forwards(t)
         /\ Complete => Len(t.open) = 1
<1>1. Stage(t) = "reply"
  BY DEF Stage
<1>. QED  BY <1>1 DEF ThreadInv, Placed, Working, Counted, Deep

LEMMA ReplyKeeps ==
  ASSUME env \in Envs, NEW t \in Threads, ThreadInv(t), t.pc = "reply", NEW a \in OkAnswers
  PROVE  LET u == [t EXCEPT !.pc = "count", !.answer = a] IN u \in Threads /\ ThreadInv(u)
<1>. DEFINE u == [t EXCEPT !.pc = "count", !.answer = a]
<1>1. u \in Threads /\ Same(t, u) /\ u.k = t.k /\ u.answer = a /\ u.pc = "count"
  BY DEF Threads, Same, OkAnswers
<1>. HIDE DEF u
<1>2. /\ Core(t) /\ t.k # 0 /\ t.body.form = "object"
      /\ t.k = StepCount(t) + 1 /\ t.heard \in {"none", "200"}
      /\ Len(t.sent) = Behind(t) + Forwards(t)
      /\ Complete => Len(t.open) = 1
  BY AtTheReply
<1>3. Core(u)
  BY <1>1, <1>2, SameCore
<1>4. /\ u.body = t.body /\ u.open = t.open /\ u.sent = t.sent /\ u.heard = t.heard
      /\ Stage(u) = "count" /\ StepCount(u) = StepCount(t) /\ Behind(u) = Behind(t)
      /\ Forwards(u) = Forwards(t)
  BY <1>1 DEF Same, Stage, StepCount, StepList, Behind, Forwards
<1>5. Placed(u)
  BY <1>1, <1>2, <1>4 DEF Placed, Unbegun, Working
<1>6. Deep(u)
  BY <1>1, <1>2, <1>4 DEF Deep
<1>7. Counted(u)
  BY <1>1, <1>2, <1>4 DEF Counted
<1>8. Answered(u)
  BY <1>1 DEF Answered, OkAnswers
<1>. QED  BY <1>1, <1>3, <1>5, <1>6, <1>7, <1>8 DEF ThreadInv, u

LEMMA UnsentKeeps ==
  ASSUME env \in Envs, NEW t \in Threads, ThreadInv(t), t.pc = "reply"
  PROVE  Leaves(t, "lost") \in Threads /\ ThreadInv(Leaves(t, "lost"))
<1>1. Core(t) /\ t.body.form = "object"
  BY AtTheReply
<1>. QED  BY <1>1, LeavesKeeps

LEMMA CountKeeps ==
  ASSUME env \in Envs, NEW t \in Threads, ThreadInv(t), t.pc = "count"
  PROVE  Ends(t, 0, "finally") \in Threads /\ ThreadInv(Ends(t, 0, "finally"))
<1>1. Stage(t) = "count"
  BY DEF Stage
<1>2. /\ Core(t) /\ Answered(t) /\ t.body.form = "object" /\ t.answer \in OkAnswers
  BY <1>1 DEF ThreadInv, Placed
<1>3. /\ t.k # 0 /\ t.k = StepCount(t) + 1 /\ t.heard \in {"none", "200"}
      /\ Len(t.sent) = Behind(t) + Forwards(t)
  BY <1>2 DEF ThreadInv, Counted
<1>4. Len(t.open) >= 0
  <2>. DEFINE n == Len(t.open)
  <2>1. n \in Nat
    BY SpanTypes
  <2>. HIDE DEF n
  <2>2. n >= 0
    BY <2>1
  <2>. QED  BY <2>2 DEF n
<1>5. t.answer # "none"
  BY <1>2 DEF OkAnswers
<1>. QED  BY <1>2, <1>3, <1>4, <1>5, EndsKeeps

(* The end of a handler, in its finally block, with its spans or by force. *)
LEMMA OverKeeps ==
  ASSUME NEW t \in Threads, ThreadInv(t), NEW u \in Threads,
         u.body = t.body, u.open = t.open, u.sent = t.sent, u.heard = t.heard, u.k = t.k,
         u.pc = "over", u.answer # "none",
         u.answer = t.answer \/ u.answer = "lost"
  PROVE  ThreadInv(u)
<1>1. /\ StepList(u) = StepList(t) /\ StepCount(u) = StepCount(t) /\ Root(u) = Root(t)
      /\ AllStepsDone(u) = AllStepsDone(t) /\ Behind(u) = Behind(t)
      /\ Forwards(u) = Forwards(t) /\ NextPeer(u) = NextPeer(t)
  BY DEF StepList, StepCount, AllStepsDone, Behind, Root, Forwards, NextPeer
<1>2. Core(u)
  BY <1>1 DEF ThreadInv, Core, Begun, Chained, Linked, Shaped, InStep, Sending
<1>3. Stage(u) = "over"
  BY DEF Stage
<1>4. Placed(u)
  BY <1>3 DEF Placed, Unbegun, Working
<1>5. Deep(u)
  BY <1>3 DEF Deep
<1>6. Counted(u)
  <2>1. u.answer \in OkAnswers => t.answer \in OkAnswers
    BY DEF OkAnswers
  <2>. QED  BY <1>1, <1>3, <2>1 DEF ThreadInv, Counted
<1>7. Answered(u)
  BY <1>1 DEF ThreadInv, Answered
<1>. QED  BY <1>2, <1>4, <1>5, <1>6, <1>7 DEF ThreadInv

LEMMA FinallyKeeps ==
  ASSUME NEW t \in Threads, ThreadInv(t), t.pc = "finally"
  PROVE  [t EXCEPT !.pc = "over"] \in Threads /\ ThreadInv([t EXCEPT !.pc = "over"])
<1>. DEFINE u == [t EXCEPT !.pc = "over"]
<1>1. /\ u \in Threads /\ u.body = t.body /\ u.open = t.open /\ u.sent = t.sent
      /\ u.heard = t.heard /\ u.k = t.k /\ u.answer = t.answer /\ u.pc = "over"
  BY DEF Threads
<1>2. t.answer # "none"
  BY DEF ThreadInv, Placed, Stage
<1>. HIDE DEF u
<1>3. ThreadInv(u)
  BY <1>1, <1>2, OverKeeps
<1>. QED  BY <1>1, <1>3 DEF u

LEMMA DeadKeeps ==
  ASSUME NEW t \in Threads, ThreadInv(t)
  PROVE  Dead(t) \in Threads /\ ThreadInv(Dead(t))
<1>1. CASE t.pc \in {"none", "over"}
  BY <1>1 DEF Dead
<1>2. CASE t.pc \notin {"none", "over"}
  <2>. DEFINE a == IF t.answer = "none" THEN "lost" ELSE t.answer
              u == [t EXCEPT !.pc = "over", !.answer = a, !.missed = TRUE]
  <2>1. Dead(t) = u
    BY <1>2 DEF Dead
  <2>2. a # "none" /\ (a = t.answer \/ a = "lost")
    OBVIOUS
  <2>3. a \in {"none", "200", "400", "502", "unread", "lost"}
    BY DEF Threads
  <2>. HIDE DEF a
  <2>4. u \in Threads
    BY <2>3 DEF Threads
  <2>5. /\ u.body = t.body /\ u.open = t.open /\ u.sent = t.sent
        /\ u.heard = t.heard /\ u.k = t.k /\ u.answer = a /\ u.pc = "over"
    BY DEF Threads
  <2>. HIDE DEF u
  <2>6. ThreadInv(u)
    BY <2>2, <2>4, <2>5, OverKeeps
  <2>. QED  BY <2>1, <2>4, <2>6
<1>. QED  BY <1>1, <1>2

(* A span ends: what is left is as before, or as the rest of the handler wants it. *)
LEMMA EndSpanKeeps ==
  ASSUME NEW t \in Threads, ThreadInv(t), t.pc = "ending"
  PROVE  LET u == Settled([t EXCEPT !.open = Front(@)])
         IN  /\ u \in Threads /\ ThreadInv(u) /\ u.body = t.body /\ u.sent = t.sent
             /\ u.k = t.k /\ u.answer = t.answer /\ u.gone = t.gone /\ u.heard = t.heard
             /\ u.missed = t.missed /\ u.open = Front(t.open)
             /\ Stage(u) = Stage(t) /\ u.pc = IF Len(u.open) <= t.keep THEN t.then ELSE "ending"
<1>. DEFINE e == [t EXCEPT !.open = Front(@)]
            u == Settled(e)
<1>0. /\ Stage(t) = t.then /\ t.keep \in Nat /\ t.keep < Len(t.open)
      /\ \/ t.then = "steps" /\ t.keep = 2
         \/ t.then \in {"mark", "reply"} /\ t.keep = 1
         \/ t.then = "finally" /\ t.keep = 0
  BY DEF Stage, ThreadInv, Deep, Threads
<1>1. Len(t.open) \in Nat /\ Len(t.open) > 0
  <2>. DEFINE n == Len(t.open)
  <2>1. n \in Nat
    BY SpanTypes
  <2>2. t.keep < n
    BY <1>0
  <2>. HIDE DEF n
  <2>3. n > 0
    BY <1>0, <2>1, <2>2
  <2>. QED  BY <2>1, <2>3 DEF n
<1>2. Pops(t, e)
  BY DEF Threads, Pops
<1>3. /\ Chained(e) /\ Len(e.open) = Len(t.open) - 1
      /\ \A i \in 1 .. Len(e.open) : e.open[i] = t.open[i]
      /\ e.open \in Seq([id : SpanIds, parent : SpanIds])
  <2>1. Chained(t)
    BY DEF ThreadInv, Core
  <2>. HIDE DEF e
  <2>. QED  BY <1>1, <1>2, <2>1, PopKeeps
<1>4. /\ e.body = t.body /\ e.sent = t.sent /\ e.k = t.k /\ e.answer = t.answer
      /\ e.gone = t.gone /\ e.heard = t.heard /\ e.missed = t.missed /\ e.pc = t.pc
      /\ e.keep = t.keep /\ e.then = t.then /\ e.open = Front(t.open)
  BY DEF Threads
<1>5. e \in Threads
  <2>. DEFINE f == Front(t.open)
  <2>1. f \in Seq([id : SpanIds, parent : SpanIds])
    BY <1>3, <1>4
  <2>2. e = [t EXCEPT !.open = f]
    OBVIOUS
  <2>. HIDE DEF f, e
  <2>. QED  BY <2>1, <2>2 DEF Threads
<1>. HIDE DEF e
<1>6. /\ u \in Threads /\ u.body = t.body /\ u.sent = t.sent
      /\ u.k = t.k /\ u.answer = t.answer /\ u.gone = t.gone /\ u.heard = t.heard
      /\ u.missed = t.missed /\ u.open = e.open /\ u.keep = t.keep /\ u.then = t.then
      /\ u.pc = IF Len(e.open) <= t.keep THEN t.then ELSE "ending"
  <2>1. CASE Len(e.open) <= e.keep
    <3>1. u = [e EXCEPT !.pc = e.then]
      BY <2>1 DEF Settled
    <3>2. e.then \in {"steps", "mark", "reply", "finally"}
      BY <1>0, <1>4
    <3>. HIDE DEF u
    <3>. QED  BY <3>1, <3>2, <2>1, <1>4, <1>5 DEF Threads
  <2>2. CASE ~(Len(e.open) <= e.keep)
    <3>1. u = e
      BY <2>2 DEF Settled
    <3>. HIDE DEF u
    <3>. QED  BY <3>1, <2>2, <1>4, <1>5
  <2>. QED  BY <2>1, <2>2
<1>. HIDE DEF u
<1>7. Stage(u) = Stage(t)
  BY <1>0, <1>6 DEF Stage
<1>8. /\ StepList(u) = StepList(t) /\ StepCount(u) = StepCount(t) /\ Root(u) = Root(t)
      /\ AllStepsDone(u) = AllStepsDone(t) /\ Behind(u) = Behind(t)
      /\ Forwards(u) = Forwards(t) /\ NextPeer(u) = NextPeer(t)
  BY <1>6 DEF StepList, StepCount, AllStepsDone, Behind, Root, Forwards, NextPeer
<1>9. Core(u)
  <2>1. Begun(t) /\ Sending(t)
    BY DEF ThreadInv, Core
  <2>2. t.k # 0
    BY <1>1, <2>1 DEF Begun
  <2>3. Begun(u)
    BY <1>6, <1>8, <2>1, <2>2 DEF Begun
  <2>4. Chained(u)
    <3>1. u.open = e.open /\ u.body = e.body /\ Chained(e)
      BY <1>3, <1>4, <1>6
    <3>2. Root(u) = Root(e) /\ StepCount(u) = StepCount(e)
      BY <3>1 DEF Root, StepCount, StepList
    <3>. QED  BY <3>1, <3>2 DEF Chained, Linked, Shaped, InStep
  <2>5. Sending(u)
    BY <1>6, <2>1 DEF Sending
  <2>. QED  BY <2>3, <2>4, <2>5 DEF Core
<1>10. Placed(u)
  BY <1>0, <1>6, <1>7, <1>8 DEF ThreadInv, Placed
<1>11. /\ Len(u.open) \in Nat /\ Len(u.open) = Len(t.open) - 1
       /\ Complete /\ Len(u.open) >= 2 => u.open[2] = t.open[2]
  <2>. DEFINE n == Len(u.open)
  <2>1. n \in Nat
    BY <1>6, SpanTypes
  <2>2. \A i \in 1 .. n : u.open[i] = t.open[i]
    BY <1>3, <1>6
  <2>3. n = Len(t.open) - 1
    BY <1>3, <1>6
  <2>. HIDE DEF n
  <2>4. n >= 2 => 2 \in 1 .. n
    BY <2>1
  <2>5. n >= 2 => u.open[2] = t.open[2]
    BY <2>2, <2>4
  <2>. QED  BY <2>1, <2>3, <2>5 DEF n
<1>12. Deep(u)
  <2>1. u.pc = "ending" => u.keep < Len(u.open)
    BY <1>0, <1>6, <1>11
  <2>2. u.pc # "ending" => u.pc = t.then /\ Len(u.open) = t.keep
    <3>1. u.pc # "ending" => Len(u.open) <= t.keep /\ u.pc = t.then
      BY <1>6
    <3>. DEFINE n == Len(t.open)
                m == Len(u.open)
    <3>2. m = n - 1 /\ n \in Nat /\ t.keep \in Nat /\ t.keep < n
      BY <1>0, <1>1, <1>11
    <3>. HIDE DEF n, m
    <3>3. m <= t.keep => m = t.keep
      BY <3>2
    <3>. QED  BY <3>1, <3>3 DEF m
  <2>3. Complete /\ Stage(u) = "steps" => u.open[2].id = ProcessingId
    <3>1. t.then = "steps" => Len(u.open) >= 2
      <4>. DEFINE n == Len(t.open)
                  m == Len(u.open)
      <4>1. m = n - 1 /\ n \in Nat /\ t.keep < n /\ (t.then = "steps" => t.keep = 2)
        BY <1>0, <1>1, <1>11
      <4>. HIDE DEF n, m
      <4>2. t.then = "steps" => m >= 2
        BY <4>1
      <4>. QED  BY <4>2 DEF m
    <3>2. Complete /\ t.then = "steps" => t.open[2].id = ProcessingId
      BY <1>0 DEF ThreadInv, Deep
    <3>. QED  BY <1>0, <1>7, <1>11, <3>1, <3>2
  <2>. QED  BY <1>0, <1>6, <2>1, <2>2, <2>3 DEF Deep
<1>13. Counted(u)
  BY <1>6, <1>7, <1>8 DEF ThreadInv, Counted
<1>14. Answered(u)
  BY <1>6, <1>8 DEF ThreadInv, Answered
<1>. QED  BY <1>4, <1>6, <1>7, <1>9, <1>10, <1>12, <1>13, <1>14 DEF ThreadInv, u, e

LEMMA MissedKeeps ==
  ASSUME NEW t \in Threads, ThreadInv(t), Stage(t) \notin Unbegun
  PROVE  [t EXCEPT !.missed = TRUE] \in Threads /\ ThreadInv([t EXCEPT !.missed = TRUE])
<1>. DEFINE u == [t EXCEPT !.missed = TRUE]
<1>1. /\ u \in Threads /\ u.body = t.body /\ u.open = t.open /\ u.sent = t.sent
      /\ u.heard = t.heard /\ u.gone = t.gone /\ u.k = t.k /\ u.answer = t.answer
      /\ u.pc = t.pc /\ u.keep = t.keep /\ u.then = t.then
  BY DEF Threads
<1>. HIDE DEF u
<1>2. Stage(u) = Stage(t)
  BY <1>1 DEF Stage
<1>3. /\ StepList(u) = StepList(t) /\ StepCount(u) = StepCount(t) /\ Root(u) = Root(t)
      /\ AllStepsDone(u) = AllStepsDone(t) /\ Behind(u) = Behind(t) /\ Forwards(u) = Forwards(t)
      /\ NextPeer(u) = NextPeer(t)
  BY <1>1 DEF StepList, StepCount, AllStepsDone, Behind, Forwards, Root, NextPeer
<1>4. Core(u)
  BY <1>1, <1>3 DEF ThreadInv, Core, Begun, Chained, Linked, Shaped, InStep, Sending
<1>5. Placed(u)
  BY <1>1, <1>2, <1>3 DEF ThreadInv, Placed
<1>6. Deep(u)
  BY <1>1, <1>2, <1>3 DEF ThreadInv, Deep
<1>7. Counted(u)
  BY <1>1, <1>2, <1>3 DEF ThreadInv, Counted
<1>8. Answered(u)
  BY <1>1, <1>3 DEF ThreadInv, Answered
<1>. QED  BY <1>1, <1>4, <1>5, <1>6, <1>7, <1>8 DEF ThreadInv, u

-----------------------------------------------------------------------------
(* The actions.                                                            *)

HandlersInv == TypeOK /\ \A r \in Reqs : ThreadInv(thread[r])

(* The environment never changes, and what is said of a thread depends on  *)
(* nothing else that could.                                                *)
LEMMA EnvStays ==
  ASSUME env' = env
  PROVE  /\ Complete' = Complete /\ Flaky' = Flaky /\ Legacy' = Legacy
         /\ Threads' = Threads
         /\ \A t : ThreadInv(t) => ThreadInv(t)'
<1>1. Complete' = Complete /\ Flaky' = Flaky /\ Legacy' = Legacy
  BY DEF Complete, Legacy, Flaky
<1>2. Threads' = Threads
  BY DEF Threads
<1>3. \A t : Core(t) => Core(t)'
  BY <1>1 DEF Core, Begun, Chained, Sending, Linked, Shaped, InStep, Root, StepCount, StepList
<1>4. \A t : Placed(t) => Placed(t)'
  BY DEF Placed
<1>5. \A t : Deep(t) => Deep(t)'
  BY <1>1 DEF Deep
<1>6. \A t : Counted(t) => Counted(t)'
  BY <1>1 DEF Counted
<1>7. \A x : PeerUrl(x)' = PeerUrl(x)
  BY DEF PeerUrl, PeerIds, LegacyPeerIds, Legacy
<1>8. \A t : Answered(t) => Answered(t)'
  BY <1>7 DEF Answered
<1>. QED  BY <1>1, <1>2, <1>3, <1>4, <1>5, <1>6, <1>8 DEF ThreadInv

LEMMA TelFields ==
  ASSUME NEW t \in Telemetry, NEW a \in Nat, NEW b \in Nat
  PROVE  /\ [t EXCEPT !.lines = a, !.queue = b] \in Telemetry
         /\ [t EXCEPT !.queue = a, !.shipped = b] \in Telemetry
         /\ [t EXCEPT !.hops = a] \in Telemetry
         /\ [t EXCEPT !.messages = a] \in Telemetry
BY DEF Telemetry

LEMMA LateFields ==
  ASSUME NEW t \in Telemetry, NEW a \in Nat, NEW l \in Late
  PROVE  /\ [t EXCEPT !.lines = a, !.late = l] \in Telemetry
         /\ [t EXCEPT !.hops = a, !.late = l] \in Telemetry
         /\ [t EXCEPT !.messages = a, !.late = l] \in Telemetry
<1>. USE DEF Telemetry
<1>1. [t EXCEPT !.lines = a, !.late = l] \in Telemetry
  OBVIOUS
<1>2. [t EXCEPT !.hops = a, !.late = l] \in Telemetry
  OBVIOUS
<1>3. [t EXCEPT !.messages = a, !.late = l] \in Telemetry
  OBVIOUS
<1>. QED  BY <1>1, <1>2, <1>3

(* What a line and a measurement do, to a provider that works, has been shut, *)
(* or never was.                                                           *)
LateLine(t) == [t.late EXCEPT !.lines = @ + 1]
LateHop(t) == [t.late EXCEPT !.hops = @ + 1]
LateMessage(t) == [t.late EXCEPT !.messages = @ + 1]

LEMMA LineIs ==
  ASSUME NEW t \in Telemetry
  PROVE  /\ LateLine(t) \in Late
         /\ LogPipelineLine(t) =
              IF "logs" \notin t.set THEN t
              ELSE IF "logs" \in t.on THEN [t EXCEPT !.lines = t.lines + 1, !.queue = t.queue + 1]
              ELSE [t EXCEPT !.lines = t.lines + 1, !.late = LateLine(t)]
BY DEF Telemetry, Late, LateLine, LogPipelineLine

LEMMA HopIs ==
  ASSUME NEW t \in Telemetry
  PROVE  /\ LateHop(t) \in Late
         /\ RecordHop(t) =
              IF "metrics" \notin t.set THEN t
              ELSE IF "metrics" \in t.on THEN [t EXCEPT !.hops = t.hops + 1]
              ELSE [t EXCEPT !.hops = t.hops + 1, !.late = LateHop(t)]
BY DEF Telemetry, Late, LateHop, RecordHop

LEMMA MessageIs ==
  ASSUME NEW t \in Telemetry
  PROVE  /\ LateMessage(t) \in Late
         /\ AddMessage(t) =
              IF "metrics" \notin t.set THEN t
              ELSE IF "metrics" \in t.on THEN [t EXCEPT !.messages = t.messages + 1]
              ELSE [t EXCEPT !.messages = t.messages + 1, !.late = LateMessage(t)]
BY DEF Telemetry, Late, LateMessage, AddMessage

LEMMA TelemetryTypes ==
  ASSUME NEW t \in Telemetry
  PROVE  /\ LogPipelineLine(t) \in Telemetry /\ LabLogPipelineLine(t) \in Telemetry
         /\ RecordHop(t) \in Telemetry /\ AddMessage(t) \in Telemetry
         /\ \A ok \in BOOLEAN : /\ ShipLogs(t, ok) \in Telemetry
                                /\ ShowSums(t, ok) \in Telemetry
         /\ [t EXCEPT !.on = {}] \in Telemetry
<1>0. t.lines + 1 \in Nat /\ t.queue + 1 \in Nat /\ t.hops + 1 \in Nat /\ t.messages + 1 \in Nat
  BY DEF Telemetry
<1>1. LogPipelineLine(t) \in Telemetry /\ LabLogPipelineLine(t) \in Telemetry
  <2>1. /\ [t EXCEPT !.lines = t.lines + 1, !.queue = t.queue + 1] \in Telemetry
        /\ [t EXCEPT !.lines = t.lines + 1, !.late = LateLine(t)] \in Telemetry
    BY <1>0, LineIs, TelFields, LateFields
  <2>. QED  BY <2>1, LineIs DEF LabLogPipelineLine
<1>2. RecordHop(t) \in Telemetry /\ AddMessage(t) \in Telemetry
  <2>1. /\ [t EXCEPT !.hops = t.hops + 1] \in Telemetry
        /\ [t EXCEPT !.hops = t.hops + 1, !.late = LateHop(t)] \in Telemetry
    BY <1>0, HopIs, TelFields, LateFields
  <2>2. /\ [t EXCEPT !.messages = t.messages + 1] \in Telemetry
        /\ [t EXCEPT !.messages = t.messages + 1, !.late = LateMessage(t)] \in Telemetry
    BY <1>0, MessageIs, TelFields, LateFields
  <2>. QED  BY <2>1, <2>2, HopIs, MessageIs
<1>3. ASSUME NEW ok \in BOOLEAN PROVE ShipLogs(t, ok) \in Telemetry
  <2>. DEFINE n == IF ok THEN t.shipped + t.queue ELSE t.shipped
  <2>1. n \in Nat
    BY DEF Telemetry
  <2>2. ShipLogs(t, ok) = [t EXCEPT !.queue = 0, !.shipped = n]
    BY DEF ShipLogs
  <2>. HIDE DEF n
  <2>3. [t EXCEPT !.queue = 0, !.shipped = n] \in Telemetry
    BY <2>1, TelFields
  <2>. QED  BY <2>2, <2>3
<1>4. ASSUME NEW ok \in BOOLEAN PROVE ShowSums(t, ok) \in Telemetry
  BY DEF ShowSums, Telemetry, Sums
<1>5. [t EXCEPT !.on = {}] \in Telemetry
  BY DEF Telemetry
<1>. QED  BY <1>1, <1>2, <1>3, <1>4, <1>5

LEMMA ShutTypes ==
  ASSUME NEW t \in Telemetry, NEW ok \in BOOLEAN, t.on # {}
  PROVE  Shut(t, ok) \in Telemetry
<1>. DEFINE k == NextToShut(t)
            sent == CASE k = "logs" -> ShipLogs(t, ok)
                      [] k = "metrics" -> ShowSums(t, ok)
                      [] k = "spans" -> t
<1>1. k \in {"logs", "metrics", "spans"}
  BY DEF NextToShut
<1>2. sent \in Telemetry
  BY <1>1, TelemetryTypes
<1>3. Shut(t, ok) = [sent EXCEPT !.on = @ \ {k}]
  BY DEF Shut
<1>. HIDE DEF sent, k
<1>4. [sent EXCEPT !.on = @ \ {k}] \in Telemetry
  BY <1>2 DEF Telemetry
<1>. QED  BY <1>3, <1>4

LEMMA InitTypes ==
  /\ Off \in Telemetry
  /\ InitTelemetry(env) \in Telemetry /\ LabInitTelemetry(env) \in Telemetry
  /\ InitPyroscopePush(env, InitTelemetry(env)) \in Telemetry
  /\ LabInitPyroscopePush(env, LabInitTelemetry(env)) \in Telemetry
<1>1. Off \in Telemetry
  BY DEF Off, Telemetry, Sums, Late, NothingLate
<1>2. InitTelemetry(env) \in Telemetry
  <2>1. Chosen(env) \subseteq Kinds
    BY DEF Chosen, Kinds
  <2>2. [Off EXCEPT !.set = Chosen(env), !.on = Chosen(env)] \in Telemetry
    BY <1>1, <2>1 DEF Telemetry
  <2>. QED  BY <2>2 DEF InitTelemetry
<1>. QED  BY <1>1, <1>2, TelemetryTypes
          DEF LabInitTelemetry, InitPyroscopePush, LabInitPyroscopePush

(* One thread moves. *)
LEMMA OneMoves ==
  ASSUME HandlersInv, NEW r \in Reqs, NEW u, NEW m, Goes(r, u, m),
         u \in Threads, ThreadInv(u), m \in Telemetry
  PROVE  HandlersInv'
<1>1. /\ thread' = [thread EXCEPT ![r] = u] /\ tel' = m
      /\ env' = env /\ proc' = proc /\ code' = code /\ spans' = spans
  BY DEF Goes
<1>2. thread \in [Reqs -> Threads]
  BY DEF HandlersInv, TypeOK
<1>3. /\ Threads' = Threads
      /\ \A t : ThreadInv(t) => ThreadInv(t)'
  BY <1>1, EnvStays
<1>4. thread' \in [Reqs -> Threads']
  BY <1>1, <1>2, <1>3
<1>5. TypeOK'
  BY <1>1, <1>4 DEF HandlersInv, TypeOK
<1>6. \A q \in Reqs : ThreadInv(thread'[q])
  <2>1. \A q \in Reqs : thread'[q] = IF q = r THEN u ELSE thread[q]
    BY <1>1, <1>2
  <2>. QED  BY <2>1 DEF HandlersInv
<1>7. \A q \in Reqs : ThreadInv(thread[q])'
  BY <1>3, <1>6
<1>. QED  BY <1>5, <1>7 DEF HandlersInv

LEMMA ConnectActs ==
  ASSUME HandlersInv, NEW r \in Reqs, Connect(r)
  PROVE  HandlersInv'
<1>1. PICK b \in Bodies[env] : Goes(r, [NoThread EXCEPT !.pc = "sent", !.body = b], tel)
  BY DEF Connect
<1>. DEFINE u == [NoThread EXCEPT !.pc = "sent", !.body = b]
<1>2. u \in Threads /\ ThreadInv(u)
  BY ConnectKeeps
<1>3. tel \in Telemetry /\ Goes(r, u, tel)
  BY <1>1 DEF HandlersInv, TypeOK
<1>. HIDE DEF u
<1>. QED  BY <1>2, <1>3, OneMoves

LEMMA GoneActs ==
  ASSUME HandlersInv, NEW r \in Reqs, ClientGone(r)
  PROVE  HandlersInv'
<1>. DEFINE t == thread[r]
            u == [t EXCEPT !.gone = TRUE]
<1>1. t \in Threads /\ ThreadInv(t) /\ tel \in Telemetry /\ Goes(r, u, tel)
  BY DEF HandlersInv, TypeOK, ClientGone
<1>. HIDE DEF t
<1>2. u \in Threads /\ ThreadInv(u)
  BY <1>1, GoneKeeps
<1>. HIDE DEF u
<1>. QED  BY <1>1, <1>2, OneMoves

LEMMA AcceptActs ==
  ASSUME HandlersInv, NEW r \in Reqs, Accept(r)
  PROVE  HandlersInv'
<1>. DEFINE t == thread[r]
            u == [t EXCEPT !.pc = "read"]
<1>1. /\ t \in Threads /\ ThreadInv(t) /\ tel \in Telemetry /\ Goes(r, u, tel)
      /\ t.pc \in Unbegun
  BY DEF HandlersInv, TypeOK, Accept, Unbegun
<1>. HIDE DEF t
<1>2. u \in Threads /\ ThreadInv(u)
  BY <1>1, UnbegunKeeps
<1>. HIDE DEF u
<1>. QED  BY <1>1, <1>2, OneMoves

LEMMA LoggedTypes ==
  ASSUME NEW m \in Telemetry
  PROVE  Logged(m) \in Telemetry
BY TelemetryTypes DEF Logged

LEMMA ReadActs ==
  ASSUME HandlersInv, NEW r \in Reqs, Read(r)
  PROVE  HandlersInv'
<1>. DEFINE t == thread[r]
            answer == IF t.body.form = "raises" \/ t.gone THEN "lost" ELSE "400"
            u == [t EXCEPT !.pc = "route"]
            v == [t EXCEPT !.pc = "over", !.answer = answer]
<1>1. /\ t \in Threads /\ ThreadInv(t) /\ tel \in Telemetry /\ t.pc = "read"
      /\ IF t.body.form = "object" THEN Goes(r, u, Logged(tel)) ELSE Goes(r, v, tel)
  BY DEF HandlersInv, TypeOK, Read
<1>2. answer \in {"lost", "400"} /\ Logged(tel) \in Telemetry
  BY <1>1, LoggedTypes
<1>. HIDE DEF t, answer
<1>3. CASE t.body.form = "object"
  <2>1. t.pc \in Unbegun
    BY <1>1 DEF Unbegun
  <2>2. u \in Threads /\ ThreadInv(u)
    BY <1>1, <1>3, <2>1, UnbegunKeeps
  <2>3. Goes(r, u, Logged(tel))
    BY <1>1, <1>3
  <2>. HIDE DEF u
  <2>. QED  BY <1>2, <2>2, <2>3, OneMoves
<1>4. CASE t.body.form # "object"
  <2>1. v \in Threads /\ ThreadInv(v)
    BY <1>1, <1>2, <1>4, UnreadKeeps
  <2>2. Goes(r, v, tel)
    BY <1>1, <1>4
  <2>. HIDE DEF v
  <2>. QED  BY <1>1, <2>1, <2>2, OneMoves
<1>. QED  BY <1>3, <1>4

LEMMA AdmitActs ==
  ASSUME HandlersInv, NEW r \in Reqs, Admit(r)
  PROVE  HandlersInv'
<1>. DEFINE t == thread[r]
            ok == Admitted(t)
            a == IF RefusalRaises(t) THEN "lost" ELSE "400"
            u == [Begin(Begin(t, "hop"), "processing") EXCEPT !.pc = "steps", !.k = 1]
            v == Leaves(t, a)
<1>1. /\ t \in Threads /\ ThreadInv(t) /\ tel \in Telemetry /\ t.pc = "route" /\ env \in Envs
      /\ Goes(r, IF ok THEN u ELSE v, tel)
  BY DEF HandlersInv, TypeOK, Admit
<1>2. /\ ok => LegacyAdmissible(WorkerId, t.body) \/ Admissible(WorkerId, t.body)
      /\ a \in {"400", "lost"} /\ (a = "lost" => RefusalRaises(t))
  BY DEF Admitted
<1>. HIDE DEF t, ok, a
<1>3. CASE ok
  <2>1. u \in Threads /\ ThreadInv(u)
    BY <1>1, <1>2, <1>3, AdmitKeeps
  <2>. HIDE DEF u
  <2>2. Goes(r, u, tel)
    BY <1>1, <1>3
  <2>. QED  BY <1>1, <2>1, <2>2, OneMoves
<1>4. CASE ~ok
  <2>0. Stage(t) = "route"
    BY <1>1 DEF Stage
  <2>1. Core(t) /\ t.k = 0 /\ t.body.form = "object"
    BY <2>0, <1>1 DEF ThreadInv, Placed, Unbegun
  <2>2. v \in Threads /\ ThreadInv(v)
    BY <1>1, <1>2, <2>1, LeavesKeeps
  <2>. HIDE DEF u, v
  <2>3. Goes(r, v, tel)
    BY <1>1, <1>4
  <2>. QED  BY <1>1, <2>2, <2>3, OneMoves
<1>. QED  BY <1>3, <1>4

LEMMA StepActs ==
  ASSUME HandlersInv, NEW r \in Reqs, Step(r)
  PROVE  HandlersInv'
<1>. DEFINE t == thread[r]
            s == StepList(t)[t.k]
            begun == Begin(t, "step")
            u == [begun EXCEPT !.pc = "spin"]
            a == NoPeerUrl(s.route[1].id)
            v == Leaves(begun, a)
            w == Posts(Begin(begun, "client"))
<1>1. /\ t \in Threads /\ ThreadInv(t) /\ tel \in Telemetry /\ t.pc = "steps" /\ env \in Envs
      /\ ~AllStepsDone(t)
      /\ IF ~s.nested THEN Goes(r, u, tel)
         ELSE IF ~PeerUrl(s.route[1].id) THEN Goes(r, v, tel)
         ELSE Goes(r, w, Logged(tel))
  BY DEF HandlersInv, TypeOK, Step
<1>2. Logged(tel) \in Telemetry
  BY <1>1, LoggedTypes
<1>. HIDE DEF t
<1>3. CASE ~s.nested
  <2>1. u \in Threads /\ ThreadInv(u)
    BY <1>1, <1>3, SpinKeeps
  <2>2. Goes(r, u, tel)
    BY <1>1, <1>3
  <2>. HIDE DEF u
  <2>. QED  BY <1>1, <2>1, <2>2, OneMoves
<1>4. CASE s.nested /\ ~PeerUrl(s.route[1].id)
  <2>0. a \in {"502", "lost"}
    BY DEF NoPeerUrl
  <2>. HIDE DEF a
  <2>1. v \in Threads /\ ThreadInv(v)
    BY <1>1, <1>4, <2>0, NoPeerKeeps
  <2>2. Goes(r, v, tel)
    BY <1>1, <1>4
  <2>. HIDE DEF v
  <2>. QED  BY <1>1, <2>1, <2>2, OneMoves
<1>5. CASE s.nested /\ PeerUrl(s.route[1].id)
  <2>1. w \in Threads /\ ThreadInv(w)
    BY <1>1, <1>5, PostNestedKeeps
  <2>2. Goes(r, w, Logged(tel))
    BY <1>1, <1>5
  <2>. HIDE DEF w
  <2>. QED  BY <1>2, <2>1, <2>2, OneMoves
<1>. QED  BY <1>3, <1>4, <1>5

LEMMA SpunActs ==
  ASSUME HandlersInv, NEW r \in Reqs, Spun(r)
  PROVE  HandlersInv'
<1>. DEFINE t == thread[r]
            u == Ends([t EXCEPT !.k = @ + 1], 2, "steps")
<1>1. /\ t \in Threads /\ ThreadInv(t) /\ tel \in Telemetry /\ env \in Envs
      /\ t.pc = "spin" /\ Goes(r, u, tel)
  BY DEF HandlersInv, TypeOK, Spun
<1>. HIDE DEF t
<1>2. u \in Threads /\ ThreadInv(u)
  BY <1>1, SpunKeeps
<1>. HIDE DEF u
<1>. QED  BY <1>1, <1>2, OneMoves

LEMMA StepsEndActs ==
  ASSUME HandlersInv, NEW r \in Reqs, StepsEnd(r)
  PROVE  HandlersInv'
<1>. DEFINE t == thread[r]
            u == Ends(t, 1, "mark")
<1>1. /\ t \in Threads /\ ThreadInv(t) /\ tel \in Telemetry /\ env \in Envs
      /\ t.pc = "steps" /\ AllStepsDone(t) /\ Goes(r, u, tel)
  BY DEF HandlersInv, TypeOK, StepsEnd
<1>. HIDE DEF t
<1>2. u \in Threads /\ ThreadInv(u)
  BY <1>1, StepsEndKeeps
<1>. HIDE DEF u
<1>. QED  BY <1>1, <1>2, OneMoves

LEMMA MarkActs ==
  ASSUME HandlersInv, NEW r \in Reqs, Mark(r)
  PROVE  HandlersInv'
<1>. DEFINE t == thread[r]
            reply == [t EXCEPT !.pc = "reply"]
            forward == Posts(Begin(t, "client"))
<1>1. /\ t \in Threads /\ ThreadInv(t) /\ tel \in Telemetry /\ env \in Envs
      /\ t.pc = "mark"
      /\ IF ~t.body.counter THEN Goes(r, Leaves(t, "lost"), tel)
         ELSE IF LastHop(t.body) THEN Goes(r, reply, Logged(tel))
         ELSE IF ~Named(NextId(t.body)) THEN Goes(r, Leaves(t, "400"), tel)
         ELSE IF ~PeerUrl(NextId(t.body))
              THEN Goes(r, Leaves(t, NoPeerUrl(NextId(t.body))), tel)
         ELSE Goes(r, forward, Logged(tel))
  BY DEF HandlersInv, TypeOK, Mark
<1>2. Logged(tel) \in Telemetry
  BY <1>1, LoggedTypes
<1>. HIDE DEF t
<1>3. CASE t.body.counter /\ LastHop(t.body)
  <2>1. reply \in Threads /\ ThreadInv(reply)
    BY <1>1, <1>3, LastReplyKeeps
  <2>2. Goes(r, reply, Logged(tel))
    BY <1>1, <1>3
  <2>. HIDE DEF reply
  <2>. QED  BY <1>2, <2>1, <2>2, OneMoves
<1>4. CASE /\ t.body.counter /\ ~LastHop(t.body) /\ Named(NextId(t.body))
           /\ PeerUrl(NextId(t.body))
  <2>1. forward \in Threads /\ ThreadInv(forward)
    BY <1>1, <1>4, ForwardKeeps
  <2>2. Goes(r, forward, Logged(tel))
    BY <1>1, <1>4
  <2>. HIDE DEF forward
  <2>. QED  BY <1>2, <2>1, <2>2, OneMoves
<1>5. CASE \/ ~t.body.counter
           \/ /\ t.body.counter /\ ~LastHop(t.body)
              /\ ~Named(NextId(t.body)) \/ ~PeerUrl(NextId(t.body))
  <2>1. PICK a : /\ \/ a = "lost"
                    \/ a = "400" /\ t.body.counter /\ ~LastHop(t.body) /\ ~Named(NextId(t.body))
                    \/ a = "502" /\ ~PeerUrl(NextId(t.body))
                 /\ Goes(r, Leaves(t, a), tel)
    BY <1>1, <1>5 DEF NoPeerUrl
  <2>. DEFINE u == Leaves(t, a)
  <2>2. u \in Threads /\ ThreadInv(u)
    BY <1>1, <2>1, MarkRefusesKeeps
  <2>3. Goes(r, u, tel)
    BY <2>1
  <2>. HIDE DEF u
  <2>. QED  BY <1>1, <2>2, <2>3, OneMoves
<1>. QED  BY <1>3, <1>4, <1>5

LEMMA HearActs ==
  ASSUME HandlersInv, NEW r \in Reqs, Hear(r)
  PROVE  HandlersInv'
<1>. DEFINE t == thread[r]
<1>1. /\ t \in Threads /\ ThreadInv(t) /\ tel \in Telemetry /\ env \in Envs
      /\ t.pc = "wait"
  BY DEF HandlersInv, TypeOK, Hear
<1>2. PICK o \in {"200", "error", "torn"} : Goes(r, Resumed([t EXCEPT !.heard = o], o), tel)
  BY DEF Hear
<1>. HIDE DEF t
<1>. DEFINE u == Resumed([t EXCEPT !.heard = o], o)
<1>3. u \in Threads /\ ThreadInv(u)
  BY <1>1, ResumedKeeps
<1>4. Goes(r, u, tel)
  BY <1>2
<1>. HIDE DEF u
<1>. QED  BY <1>1, <1>3, <1>4, OneMoves

LEMMA ReplyActs ==
  ASSUME HandlersInv, NEW r \in Reqs, Reply(r)
  PROVE  HandlersInv'
<1>. DEFINE t == thread[r]
<1>1. /\ t \in Threads /\ ThreadInv(t) /\ tel \in Telemetry /\ env \in Envs
      /\ t.pc = "reply"
      /\ \/ \E a \in OkAnswers : Goes(r, [t EXCEPT !.pc = "count", !.answer = a], tel)
         \/ Goes(r, Leaves(t, "lost"), tel)
  BY DEF HandlersInv, TypeOK, Reply, OkAnswers
<1>. HIDE DEF t
<1>2. ASSUME NEW a \in OkAnswers, Goes(r, [t EXCEPT !.pc = "count", !.answer = a], tel)
      PROVE  HandlersInv'
  <2>. DEFINE u == [t EXCEPT !.pc = "count", !.answer = a]
  <2>1. u \in Threads /\ ThreadInv(u)
    BY <1>1, ReplyKeeps
  <2>2. Goes(r, u, tel)
    BY <1>2
  <2>. HIDE DEF u
  <2>. QED  BY <1>1, <2>1, <2>2, OneMoves
<1>3. ASSUME Goes(r, Leaves(t, "lost"), tel)
      PROVE  HandlersInv'
  <2>. DEFINE u == Leaves(t, "lost")
  <2>1. u \in Threads /\ ThreadInv(u)
    BY <1>1, UnsentKeeps
  <2>2. Goes(r, u, tel)
    BY <1>3
  <2>. HIDE DEF u
  <2>. QED  BY <1>1, <2>1, <2>2, OneMoves
<1>. QED  BY <1>1, <1>2, <1>3

LEMMA CountActs ==
  ASSUME HandlersInv, NEW r \in Reqs, Count(r)
  PROVE  HandlersInv'
<1>. DEFINE t == thread[r]
            u == Ends(t, 0, "finally")
            m == IF Complete THEN AddMessage(tel) ELSE tel
<1>1. /\ t \in Threads /\ ThreadInv(t) /\ tel \in Telemetry /\ env \in Envs
      /\ t.pc = "count" /\ Goes(r, u, m)
  BY DEF HandlersInv, TypeOK, Count
<1>. HIDE DEF t
<1>2. u \in Threads /\ ThreadInv(u)
  BY <1>1, CountKeeps
<1>3. m \in Telemetry
  BY <1>1, TelemetryTypes
<1>. HIDE DEF u, m
<1>. QED  BY <1>1, <1>2, <1>3, OneMoves

LEMMA FinallyActs ==
  ASSUME HandlersInv, NEW r \in Reqs, Finally(r)
  PROVE  HandlersInv'
<1>. DEFINE t == thread[r]
            u == [t EXCEPT !.pc = "over"]
            m == IF Complete THEN RecordHop(tel) ELSE tel
<1>1. /\ t \in Threads /\ ThreadInv(t) /\ tel \in Telemetry /\ env \in Envs
      /\ t.pc = "finally" /\ Goes(r, u, m)
  BY DEF HandlersInv, TypeOK, Finally
<1>. HIDE DEF t
<1>2. u \in Threads /\ ThreadInv(u)
  BY <1>1, FinallyKeeps
<1>3. m \in Telemetry
  BY <1>1, TelemetryTypes
<1>. HIDE DEF u, m
<1>. QED  BY <1>1, <1>2, <1>3, OneMoves

LEMMA EndSpanActs ==
  ASSUME HandlersInv, NEW r \in Reqs, EndSpan(r)
  PROVE  HandlersInv'
<1>. DEFINE t == thread[r]
            left == Settled([t EXCEPT !.open = Front(@)])
            s == Last(t.open)
            missed == [left EXCEPT !.missed = TRUE]
<1>1. /\ t \in Threads /\ ThreadInv(t) /\ tel \in Telemetry /\ t.pc = "ending"
      /\ thread \in [Reqs -> Threads]
      /\ thread' = [thread EXCEPT ![r] = left] \/ thread' = [thread EXCEPT ![r] = missed]
      /\ spans' = spans \cup {[req |-> r, id |-> s.id, parent |-> s.parent]} \/ spans' = spans
      /\ env' = env /\ proc' = proc /\ code' = code /\ tel' = tel
  BY DEF HandlersInv, TypeOK, EndSpan
<1>2. s.id \in SpanIds /\ s.parent \in SpanIds
  <2>1. t.keep \in Nat /\ t.keep < Len(t.open)
    BY <1>1 DEF ThreadInv, Deep, Threads
  <2>2. DOMAIN t.open = 1 .. Len(t.open) /\ Len(t.open) \in Nat
    BY <1>1, SpanTypes
  <2>3. Len(t.open) \in DOMAIN t.open
    <3>. DEFINE n == Len(t.open)
    <3>1. n \in Nat /\ t.keep < n /\ t.keep \in Nat /\ DOMAIN t.open = 1 .. n
      BY <2>1, <2>2
    <3>. HIDE DEF n, t
    <3>2. n \in 1 .. n
      BY <3>1
    <3>. QED  BY <3>1, <3>2 DEF n
  <2>. HIDE DEF t
  <2>. QED  BY <1>1, <2>3, SpanTypes DEF Last
<1>3. /\ left \in Threads /\ ThreadInv(left)
      /\ Stage(left) \notin Unbegun
  <2>1. /\ left \in Threads /\ ThreadInv(left) /\ Stage(left) = Stage(t)
    BY <1>1, EndSpanKeeps
  <2>2. Stage(t) \notin Unbegun
    BY <1>1 DEF Stage, ThreadInv, Deep, Unbegun
  <2>. HIDE DEF left, t
  <2>. QED  BY <2>1, <2>2
<1>. HIDE DEF left, s
<1>4. missed \in Threads /\ ThreadInv(missed)
  BY <1>3, MissedKeeps
<1>5. PICK u \in Threads : ThreadInv(u) /\ thread' = [thread EXCEPT ![r] = u]
  BY <1>1, <1>3, <1>4
<1>. HIDE DEF missed
<1>6. /\ Threads' = Threads
      /\ \A x : ThreadInv(x) => ThreadInv(x)'
  BY <1>1, EnvStays
<1>7. \A q \in spans' : q.req \in Reqs /\ q.id \in SpanIds /\ q.parent \in SpanIds
  BY <1>1, <1>2 DEF HandlersInv, TypeOK
<1>8. TypeOK'
  <2>1. thread' \in [Reqs -> Threads']
    BY <1>1, <1>5, <1>6
  <2>. QED  BY <1>1, <1>7, <2>1 DEF HandlersInv, TypeOK
<1>9. \A q \in Reqs : ThreadInv(thread'[q])
  <2>1. \A q \in Reqs : thread'[q] = IF q = r THEN u ELSE thread[q]
    BY <1>1, <1>5
  <2>. QED  BY <1>5, <2>1 DEF HandlersInv
<1>10. \A q \in Reqs : ThreadInv(thread[q])'
  BY <1>6, <1>9
<1>. QED  BY <1>8, <1>10 DEF HandlersInv

(* The process moves, and some threads may die of it. *)
LEMMA ProcessMoves ==
  ASSUME HandlersInv, NEW to, NEW c, NEW m, Moves(to, c, m),
         to \in {"entry", "config", "bind", "serving", "closing", "exiting", "over"},
         c \in {"none", "0", "1", "2", "130", "137"}, m \in Telemetry,
         \/ thread' = thread
         \/ \E D \in SUBSET Reqs :
              thread' = [r \in Reqs |-> IF r \in D THEN Dead(thread[r]) ELSE thread[r]]
  PROVE  HandlersInv'
<1>1. proc' = to /\ code' = c /\ tel' = m /\ env' = env /\ spans' = spans
  BY DEF Moves
<1>2. thread \in [Reqs -> Threads] /\ \A q \in Reqs : ThreadInv(thread[q])
  BY DEF HandlersInv, TypeOK
<1>3. thread' \in [Reqs -> Threads] /\ \A q \in Reqs : ThreadInv(thread'[q])
  <2>1. CASE thread' = thread
    BY <1>2, <2>1
  <2>2. ASSUME NEW D \in SUBSET Reqs,
               thread' = [r \in Reqs |-> IF r \in D THEN Dead(thread[r]) ELSE thread[r]]
        PROVE  thread' \in [Reqs -> Threads] /\ \A q \in Reqs : ThreadInv(thread'[q])
    <3>1. \A q \in Reqs : Dead(thread[q]) \in Threads /\ ThreadInv(Dead(thread[q]))
      BY <1>2, DeadKeeps
    <3>. QED  BY <1>2, <2>2, <3>1
  <2>. QED  BY <2>1, <2>2
<1>4. Threads' = Threads /\ \A t : ThreadInv(t) => ThreadInv(t)'
  BY <1>1, EnvStays
<1>5. \A q \in Reqs : ThreadInv(thread[q])'
  BY <1>3, <1>4
<1>6. TypeOK'
  BY <1>1, <1>3, <1>4 DEF HandlersInv, TypeOK
<1>. QED  BY <1>5, <1>6 DEF HandlersInv

LEMMA InitHandlers ==
  ASSUME Init
  PROVE  HandlersInv
<1>1. /\ env \in Envs /\ proc = "entry" /\ code = "none" /\ tel = Off /\ spans = {}
      /\ thread = [r \in Reqs |-> NoThread]
  BY DEF Init
<1>2. NoThread \in Threads /\ ThreadInv(NoThread)
  BY <1>1, NoThreadInv
<1>3. TypeOK
  BY <1>1, <1>2, InitTypes DEF TypeOK
<1>. QED  BY <1>1, <1>2, <1>3 DEF HandlersInv

LEMMA RunsActs ==
  ASSUME HandlersInv, Runs \/ Interrupt \/ Kill
  PROVE  HandlersInv'
<1>0. tel \in Telemetry /\ code \in {"none", "0", "1", "2", "130", "137"}
  BY DEF HandlersInv, TypeOK
<1>1. CASE Enter
  BY <1>0, <1>1, ProcessMoves DEF Enter
<1>2. CASE Configure
  <2>1. thread' = thread
    BY <1>2 DEF Configure
  <2>2. PICK m \in Telemetry, to \in {"exiting", "bind"}, c \in {"1", "none"} : Moves(to, c, m)
    BY <1>0, <1>2, InitTypes DEF Configure
  <2>. QED  BY <2>1, <2>2, ProcessMoves
<1>3. CASE LegacyConfigure
  <2>1. thread' = thread
    BY <1>3 DEF LegacyConfigure
  <2>2. PICK m \in Telemetry, to \in {"exiting", "bind"}, c \in {"1", "none"} : Moves(to, c, m)
    BY <1>0, <1>3, InitTypes DEF LegacyConfigure
  <2>. QED  BY <2>1, <2>2, ProcessMoves
<1>4. CASE Bind
  <2>1. Logged(tel) \in Telemetry
    BY <1>0, LoggedTypes
  <2>. QED  BY <1>4, <2>1, ProcessMoves DEF Bind
<1>5. CASE Close
  <2>1. PICK D \in SUBSET Reqs : D = {r \in Reqs : thread[r].pc = "sent"}
    OBVIOUS
  <2>2. thread' = [r \in Reqs |-> IF r \in D THEN Dead(thread[r]) ELSE thread[r]]
    BY <1>5, <2>1 DEF Close
  <2>3. Moves("exiting", "0", tel)
    BY <1>5 DEF Close
  <2>. QED  BY <1>0, <2>2, <2>3, ProcessMoves
<1>6. CASE Exit
  <2>1. CASE tel.on # {} /\ thread' = thread
             /\ \E ok \in {TRUE, ~Flaky} : Moves("exiting", code, Shut(tel, ok))
    <3>1. PICK ok \in BOOLEAN : Moves("exiting", code, Shut(tel, ok))
      BY <2>1 DEF Flaky
    <3>2. Shut(tel, ok) \in Telemetry
      BY <1>0, <2>1, ShutTypes
    <3>. QED  BY <1>0, <2>1, <3>1, <3>2, ProcessMoves
  <2>2. CASE Moves("over", code, tel) /\ thread' = [r \in Reqs |-> Dead(thread[r])]
    <3>1. thread' = [r \in Reqs |-> IF r \in Reqs THEN Dead(thread[r]) ELSE thread[r]]
      BY <2>2
    <3>. QED  BY <1>0, <2>2, <3>1, ProcessMoves
  <2>. QED  BY <1>6, <2>1, <2>2 DEF Exit
<1>7. CASE Interrupt
  BY <1>0, <1>7, ProcessMoves DEF Interrupt
<1>8. CASE Kill
  <2>1. thread' = [r \in Reqs |-> IF r \in Reqs THEN Dead(thread[r]) ELSE thread[r]]
    BY <1>8 DEF Kill
  <2>2. [tel EXCEPT !.on = {}] \in Telemetry
    BY <1>0, TelemetryTypes
  <2>3. Moves("over", "137", [tel EXCEPT !.on = {}])
    BY <1>8 DEF Kill
  <2>. QED  BY <2>1, <2>2, <2>3, ProcessMoves
<1>. QED  BY <1>1, <1>2, <1>3, <1>4, <1>5, <1>6, <1>7, <1>8 DEF Runs

LEMMA TickActs ==
  ASSUME HandlersInv, ExportTick
  PROVE  HandlersInv'
<1>1. env' = env /\ proc' = proc /\ code' = code /\ thread' = thread /\ spans' = spans
  BY DEF ExportTick
<1>2. tel' \in Telemetry
  <2>1. tel \in Telemetry
    BY DEF HandlersInv, TypeOK
  <2>2. PICK ok \in BOOLEAN : tel' = ShipLogs(tel, ok) \/ tel' = ShowSums(tel, ok)
    BY DEF ExportTick, Flaky
  <2>. QED  BY <2>1, <2>2, TelemetryTypes
<1>3. Threads' = Threads /\ \A t : ThreadInv(t) => ThreadInv(t)'
  BY <1>1, EnvStays
<1>4. TypeOK'
  BY <1>1, <1>2, <1>3 DEF HandlersInv, TypeOK
<1>5. \A q \in Reqs : ThreadInv(thread[q])'
  BY <1>1, <1>3 DEF HandlersInv
<1>. QED  BY <1>4, <1>5 DEF HandlersInv

LEMMA RestsActs ==
  ASSUME HandlersInv, UNCHANGED vars
  PROVE  HandlersInv'
<1>1. /\ env' = env /\ proc' = proc /\ code' = code /\ tel' = tel /\ thread' = thread
      /\ spans' = spans
  BY DEF vars
<1>2. Threads' = Threads /\ \A t : ThreadInv(t) => ThreadInv(t)'
  BY <1>1, EnvStays
<1>3. TypeOK'
  BY <1>1, <1>2 DEF HandlersInv, TypeOK
<1>4. \A q \in Reqs : ThreadInv(thread[q])'
  BY <1>1, <1>2 DEF HandlersInv
<1>. QED  BY <1>3, <1>4 DEF HandlersInv

LEMMA HandlersNext ==
  ASSUME HandlersInv, [Next]_vars
  PROVE  HandlersInv'
<1>1. ASSUME NEW r \in Reqs, Connect(r) \/ Works(r) \/ Hear(r) \/ ClientGone(r)
      PROVE  HandlersInv'
  BY <1>1, ConnectActs, GoneActs, AcceptActs, ReadActs, AdmitActs, StepActs, SpunActs,
     StepsEndActs, MarkActs, HearActs, ReplyActs, CountActs, FinallyActs, EndSpanActs
     DEF Works
<1>2. CASE Runs \/ Interrupt \/ Kill
  BY <1>2, RunsActs
<1>3. CASE ExportTick
  BY <1>3, TickActs
<1>4. CASE UNCHANGED vars
  BY <1>4, RestsActs
<1>. QED  BY <1>1, <1>2, <1>3, <1>4 DEF Next, Rests

(* Every thread is where its record says: so many spans are open, so many POSTs
   have been made, and what has been answered has its cause - in every state of the
   process, whatever its other threads do. *)
THEOREM HandlersAreWell ==
  Spec => []HandlersInv
<1>1. Init => HandlersInv
  BY InitHandlers
<1>2. HandlersInv /\ [Next]_vars => HandlersInv'
  BY HandlersNext
<1>. QED  BY <1>1, <1>2, PTL DEF Spec

(* Everything has its type whatever request, environment or signal comes: the
   handler's record of run_server and telemetry.py's. *)
THEOREM PythonTypes ==
  Spec => []TypeOK
<1>1. HandlersInv => TypeOK
  BY DEF HandlersInv
<1>. QED  BY <1>1, HandlersAreWell, PTL

-----------------------------------------------------------------------------
(* The telemetry.  It does not matter who produces it.                     *)

(* What threads do to it: a line, a value, a count, or nothing. *)
Notes(m) == {m, Logged(m), AddMessage(m), RecordHop(m)}

LEMMA NotesAre ==
  ASSUME NEW m \in Telemetry, NEW n \in Notes(m)
  PROVE  /\ n \in Telemetry /\ n.on = m.on /\ n.set = m.set
         /\ m.set = {} => n = m
         /\ n = Logged(m) /\ m.set = m.on => n.late = m.late
<1>1. Logged(m) \in Telemetry /\ AddMessage(m) \in Telemetry /\ RecordHop(m) \in Telemetry
  BY TelemetryTypes, LoggedTypes
<1>2. /\ LogPipelineLine(m).on = m.on /\ LogPipelineLine(m).set = m.set
      /\ m.set = {} => LogPipelineLine(m) = m
      /\ m.set = m.on => LogPipelineLine(m).late = m.late
  BY LineIs DEF Telemetry
<1>3. /\ Logged(m).on = m.on /\ Logged(m).set = m.set /\ (m.set = {} => Logged(m) = m)
      /\ m.set = m.on => Logged(m).late = m.late
  BY <1>2 DEF Logged, LabLogPipelineLine
<1>4. /\ AddMessage(m).on = m.on /\ AddMessage(m).set = m.set
      /\ m.set = {} => AddMessage(m) = m
  BY MessageIs DEF Telemetry
<1>5. /\ RecordHop(m).on = m.on /\ RecordHop(m).set = m.set /\ (m.set = {} => RecordHop(m) = m)
  BY HopIs DEF Telemetry
<1>. QED  BY <1>1, <1>3, <1>4, <1>5 DEF Notes

(* Fields of the record, as numbers. *)
Numbers(m) ==
  /\ m.lines \in Nat /\ m.queue \in Nat /\ m.shipped \in Nat
  /\ m.hops \in Nat /\ m.messages \in Nat
  /\ m.late.lines \in Nat /\ m.late.hops \in Nat /\ m.late.messages \in Nat

LEMMA NumbersAre ==
  ASSUME NEW m \in Telemetry
  PROVE  Numbers(m) /\ m.late \in Late
BY DEF Telemetry, Late, Numbers

LEMMA LinesAccounted ==
  ASSUME NEW m \in Telemetry, Accounted(m)
  PROVE  Accounted(LogPipelineLine(m))
<1>1. Numbers(m) /\ m.late \in Late
  BY NumbersAre
<1>2. CASE "logs" \notin m.set
  BY <1>2 DEF LogPipelineLine
<1>3. CASE "logs" \in m.set /\ "logs" \in m.on
  <2>. DEFINE n == [m EXCEPT !.lines = m.lines + 1, !.queue = m.queue + 1]
  <2>1. /\ n.lines = m.lines + 1 /\ n.queue = m.queue + 1 /\ n.shipped = m.shipped
        /\ n.on = m.on /\ n.hops = m.hops /\ n.messages = m.messages /\ n.seen = m.seen
        /\ n.late = m.late /\ n.set = m.set
    BY DEF Telemetry
  <2>2. LogPipelineLine(m) = n
    BY <1>3, LineIs
  <2>. HIDE DEF n
  <2>3. InTime(n) = InTime(m)
    BY <2>1 DEF InTime
  <2>4. m.shipped + m.queue = m.lines - m.late.lines =>
          m.shipped + (m.queue + 1) = (m.lines + 1) - m.late.lines
    BY <1>1 DEF Numbers
  <2>5. Accounted(n)
    BY <1>3, <2>1, <2>3, <2>4 DEF Accounted
  <2>. QED  BY <2>2, <2>5
<1>4. CASE "logs" \in m.set /\ "logs" \notin m.on
  <2>. DEFINE l == LateLine(m)
              n == [m EXCEPT !.lines = m.lines + 1, !.late = l]
  <2>1. /\ n.lines = m.lines + 1 /\ n.queue = m.queue /\ n.shipped = m.shipped
        /\ n.on = m.on /\ n.hops = m.hops /\ n.messages = m.messages /\ n.seen = m.seen
        /\ n.late = l /\ n.set = m.set
    BY DEF Telemetry
  <2>2. LogPipelineLine(m) = n
    BY <1>4, LineIs
  <2>3. l.lines = m.late.lines + 1 /\ l.hops = m.late.hops /\ l.messages = m.late.messages
    BY <1>1 DEF LateLine, Late
  <2>. HIDE DEF n, l
  <2>4. InTime(n) = InTime(m)
    BY <2>1, <2>3 DEF InTime
  <2>5. m.lines - m.late.lines = (m.lines + 1) - (m.late.lines + 1)
    BY <1>1 DEF Numbers
  <2>6. Accounted(n)
    BY <2>1, <2>3, <2>4, <2>5 DEF Accounted
  <2>. QED  BY <2>2, <2>6
<1>. QED  BY <1>2, <1>3, <1>4

(* A measurement leaves the lines alone; one that is late is not in time. *)
LEMMA SumsAccounted ==
  ASSUME NEW m \in Telemetry, Accounted(m), NEW n \in Telemetry,
         n.lines = m.lines, n.queue = m.queue, n.shipped = m.shipped, n.seen = m.seen,
         n.on = m.on, n.set = m.set, n.late.lines = m.late.lines,
         "metrics" \in m.on => n.late = m.late,
         "metrics" \notin m.on => InTime(n) = InTime(m)
  PROVE  Accounted(n)
BY DEF Accounted

LEMMA NotesAccounted ==
  ASSUME NEW m \in Telemetry, Accounted(m), NEW n \in Notes(m)
  PROVE  Accounted(n)
<1>0. Numbers(m) /\ m.late \in Late
  BY NumbersAre
<1>1. Accounted(Logged(m))
  BY LinesAccounted DEF Logged, LabLogPipelineLine
<1>2. Accounted(AddMessage(m))
  <2>. DEFINE l == LateMessage(m)
              x == AddMessage(m)
  <2>1. x \in Telemetry
    BY TelemetryTypes
  <2>2. /\ x.lines = m.lines /\ x.queue = m.queue /\ x.shipped = m.shipped /\ x.seen = m.seen
        /\ x.on = m.on /\ x.set = m.set /\ x.hops = m.hops
        /\ "metrics" \in m.on => x.late = m.late
        /\ \/ x.messages = m.messages /\ x.late = m.late
           \/ x.messages = m.messages + 1 /\ (x.late = l \/ "metrics" \in m.on)
        /\ x.late \in {l, m.late}
    BY MessageIs DEF Telemetry
  <2>3. l.lines = m.late.lines /\ l.hops = m.late.hops /\ l.messages = m.late.messages + 1
    BY <1>0 DEF LateMessage, Late
  <2>. HIDE DEF l, x
  <2>4. (m.messages + 1) - (m.late.messages + 1) = m.messages - m.late.messages
    BY <1>0 DEF Numbers
  <2>5. "metrics" \notin m.on => InTime(x) = InTime(m)
    BY <2>2, <2>3, <2>4 DEF InTime
  <2>6. Accounted(x)
    BY <2>1, <2>2, <2>3, <2>5, SumsAccounted
  <2>. QED  BY <2>6 DEF x
<1>3. Accounted(RecordHop(m))
  <2>. DEFINE l == LateHop(m)
              x == RecordHop(m)
  <2>1. x \in Telemetry
    BY TelemetryTypes
  <2>2. /\ x.lines = m.lines /\ x.queue = m.queue /\ x.shipped = m.shipped /\ x.seen = m.seen
        /\ x.on = m.on /\ x.set = m.set /\ x.messages = m.messages
        /\ "metrics" \in m.on => x.late = m.late
        /\ \/ x.hops = m.hops /\ x.late = m.late
           \/ x.hops = m.hops + 1 /\ (x.late = l \/ "metrics" \in m.on)
        /\ x.late \in {l, m.late}
    BY HopIs DEF Telemetry
  <2>3. l.lines = m.late.lines /\ l.messages = m.late.messages /\ l.hops = m.late.hops + 1
    BY <1>0 DEF LateHop, Late
  <2>. HIDE DEF l, x
  <2>4. (m.hops + 1) - (m.late.hops + 1) = m.hops - m.late.hops
    BY <1>0 DEF Numbers
  <2>5. "metrics" \notin m.on => InTime(x) = InTime(m)
    BY <2>2, <2>3, <2>4 DEF InTime
  <2>6. Accounted(x)
    BY <2>1, <2>2, <2>3, <2>5, SumsAccounted
  <2>. QED  BY <2>6 DEF x
<1>. QED  BY <1>0, <1>1, <1>2, <1>3 DEF Notes

LEMMA ShipsAccounted ==
  ASSUME NEW m \in Telemetry, Accounted(m), NEW ok \in BOOLEAN, ok \/ Flaky
  PROVE  /\ Accounted(ShipLogs(m, ok)) /\ ShipLogs(m, ok).on = m.on
         /\ ShipLogs(m, ok).queue = 0 /\ ShipLogs(m, ok) \in Telemetry
<1>. DEFINE s == IF ok THEN m.shipped + m.queue ELSE m.shipped
            n == ShipLogs(m, ok)
<1>1. n = [m EXCEPT !.queue = 0, !.shipped = s]
  BY DEF ShipLogs
<1>2. /\ n.lines = m.lines /\ n.queue = 0 /\ n.shipped = s /\ n.late = m.late
      /\ n.on = m.on /\ n.hops = m.hops /\ n.messages = m.messages /\ n.seen = m.seen
      /\ n.set = m.set
  <2>. HIDE DEF n, s
  <2>. QED  BY <1>1 DEF Telemetry
<1>3. n \in Telemetry
  BY TelemetryTypes
<1>. HIDE DEF n
<1>4. Numbers(m)
  BY NumbersAre
<1>5. ~Flaky => n.shipped + n.queue = n.lines - n.late.lines
  <2>1. ~Flaky => s = m.shipped + m.queue /\ m.shipped + m.queue = m.lines - m.late.lines
    BY DEF Accounted
  <2>2. s = m.shipped + m.queue => s + 0 = m.shipped + m.queue
    BY <1>4 DEF Numbers
  <2>. HIDE DEF s
  <2>. QED  BY <1>2, <2>1, <2>2
<1>6. Accounted(n)
  BY <1>2, <1>5 DEF Accounted, InTime
<1>. QED  BY <1>2, <1>3, <1>6 DEF n

LEMMA ShowsAccounted ==
  ASSUME NEW m \in Telemetry, Accounted(m), NEW ok \in BOOLEAN, ok \/ Flaky,
         "metrics" \in m.on
  PROVE  /\ Accounted(ShowSums(m, ok)) /\ ShowSums(m, ok).on = m.on
         /\ ~Flaky => ShowSums(m, ok).seen = InTime(ShowSums(m, ok))
         /\ ShowSums(m, ok) \in Telemetry
<1>. DEFINE sums == [hops |-> m.hops, messages |-> m.messages]
            x == [m EXCEPT !.seen = sums]
            n == ShowSums(m, ok)
<1>1. n = IF ok THEN x ELSE m
  BY DEF ShowSums
<1>2. /\ x.lines = m.lines /\ x.queue = m.queue /\ x.shipped = m.shipped
      /\ x.on = m.on /\ x.hops = m.hops /\ x.messages = m.messages /\ x.seen = sums
      /\ x.late = m.late /\ x.set = m.set
  <2>. HIDE DEF sums
  <2>. QED  BY DEF Telemetry
<1>3. n \in Telemetry
  BY TelemetryTypes
<1>. HIDE DEF n, x
<1>4. Accounted(x)
  BY <1>2 DEF Accounted
<1>5. Accounted(n) /\ n.on = m.on /\ InTime(n) = InTime(m)
  BY <1>1, <1>2, <1>4 DEF InTime
<1>6. ~Flaky => n.seen = InTime(n)
  <2>1. m.late.hops = 0 /\ m.late.messages = 0
    BY DEF Accounted
  <2>2. m.hops - 0 = m.hops /\ m.messages - 0 = m.messages
    BY NumbersAre DEF Numbers
  <2>3. sums = InTime(m)
    BY <2>1, <2>2 DEF InTime
  <2>. QED  BY <1>1, <1>2, <1>5, <2>3
<1>. QED  BY <1>3, <1>5, <1>6 DEF n

LEMMA ShutAccounted ==
  ASSUME NEW m \in Telemetry, Accounted(m), NEW ok \in BOOLEAN, ok \/ Flaky, m.on # {}
  PROVE  Accounted(Shut(m, ok))
<1>. DEFINE k == NextToShut(m)
            sent == CASE k = "logs" -> ShipLogs(m, ok)
                      [] k = "metrics" -> ShowSums(m, ok)
                      [] k = "spans" -> m
            n == Shut(m, ok)
<1>1. k \in {"logs", "metrics", "spans"}
  BY DEF NextToShut
<1>2. n = [sent EXCEPT !.on = @ \ {k}]
  BY DEF Shut
<1>0. k = "metrics" => "metrics" \in m.on
  BY DEF NextToShut
<1>3. sent \in Telemetry /\ Accounted(sent) /\ sent.on = m.on
  BY <1>0, <1>1, ShipsAccounted, ShowsAccounted
<1>4. k = "logs" => sent.queue = 0
  BY ShipsAccounted
<1>5. k = "metrics" /\ ~Flaky => sent.seen = InTime(sent)
  BY <1>0, ShowsAccounted
<1>. HIDE DEF sent, k, n
<1>6. /\ n.lines = sent.lines /\ n.queue = sent.queue /\ n.shipped = sent.shipped
      /\ n.hops = sent.hops /\ n.messages = sent.messages /\ n.seen = sent.seen
      /\ n.on = sent.on \ {k} /\ n.late = sent.late /\ n.set = sent.set
  BY <1>2, <1>3 DEF Telemetry
<1>7. "logs" \notin n.on => n.queue = 0
  <2>1. "logs" \notin sent.on => sent.queue = 0
    BY <1>3 DEF Accounted
  <2>. QED  BY <1>4, <1>6, <2>1
<1>8. ~Flaky /\ "metrics" \notin n.on => n.seen = InTime(n)
  <2>1. ~Flaky /\ "metrics" \notin sent.on => sent.seen = InTime(sent)
    BY <1>3 DEF Accounted
  <2>2. InTime(n) = InTime(sent)
    BY <1>6 DEF InTime
  <2>. QED  BY <1>5, <1>6, <2>1, <2>2
<1>9. "metrics" \in n.on => Complete /\ n.late.hops = 0 /\ n.late.messages = 0
  BY <1>3, <1>6 DEF Accounted
<1>10. ~Flaky => n.shipped + n.queue = n.lines - n.late.lines
  BY <1>3, <1>6 DEF Accounted
<1>11. n.on \subseteq n.set
  BY <1>3, <1>6 DEF Accounted
<1>. QED  BY <1>7, <1>8, <1>9, <1>10, <1>11 DEF Accounted, n

LEMMA StartAccounted ==
  /\ Accounted(Off)
  /\ Complete => /\ Accounted(InitTelemetry(env))
                 /\ Accounted(InitPyroscopePush(env, InitTelemetry(env)))
  /\ Accounted(LabInitPyroscopePush(env, LabInitTelemetry(env)))
<1>1. /\ Off.on = {} /\ Off.lines = 0 /\ Off.queue = 0 /\ Off.shipped = 0 /\ Off.hops = 0
      /\ Off.messages = 0 /\ Off.seen = [hops |-> 0, messages |-> 0]
      /\ Off.late.lines = 0 /\ Off.late.hops = 0 /\ Off.late.messages = 0
  BY DEF Off, NothingLate
<1>2. Accounted(Off)
  BY <1>1 DEF Accounted, InTime
<1>3. ASSUME Complete PROVE Accounted(InitTelemetry(env))
  <2>. DEFINE n == InitTelemetry(env)
  <2>1. n = [Off EXCEPT !.set = Chosen(env), !.on = Chosen(env)]
    BY DEF InitTelemetry
  <2>2. Off \in Telemetry
    BY InitTypes
  <2>. HIDE DEF n
  <2>3. /\ n.lines = 0 /\ n.queue = 0 /\ n.shipped = 0 /\ n.hops = 0
        /\ n.messages = 0 /\ n.seen = [hops |-> 0, messages |-> 0]
        /\ n.late.lines = 0 /\ n.late.hops = 0 /\ n.late.messages = 0 /\ n.on = n.set
    BY <1>1, <2>1, <2>2 DEF Telemetry
  <2>4. Accounted(n)
    BY <1>3, <2>3 DEF Accounted, InTime
  <2>. QED  BY <2>4 DEF n
<1>4. ASSUME Complete PROVE Accounted(InitPyroscopePush(env, InitTelemetry(env)))
  BY <1>3, <1>4, LinesAccounted, InitTypes DEF InitPyroscopePush
<1>. QED  BY <1>2, <1>3, <1>4 DEF LabInitPyroscopePush, LabInitTelemetry

(* A thread leaves the process alone and only adds notes to the telemetry. *)
LEMMA ThreadsNote ==
  ASSUME NEW r, Connect(r) \/ Works(r) \/ Hear(r) \/ ClientGone(r)
  PROVE  tel' \in Notes(tel) /\ env' = env /\ proc' = proc /\ code' = code
<1>1. \A u, m : Goes(r, u, m) => tel' = m /\ env' = env /\ proc' = proc /\ code' = code
  BY DEF Goes
<1>2. CASE Connect(r) \/ ClientGone(r) \/ Accept(r) \/ Spun(r) \/ StepsEnd(r)
           \/ Admit(r) \/ Hear(r) \/ Reply(r)
  BY <1>1, <1>2 DEF Connect, ClientGone, Accept, Spun, StepsEnd, Admit, Hear, Reply, Notes
<1>3. CASE Read(r) \/ Step(r) \/ Mark(r) \/ Count(r) \/ Finally(r)
  BY <1>1, <1>3 DEF Read, Step, Mark, Count, Finally, Notes
<1>4. CASE EndSpan(r)
  BY <1>4 DEF EndSpan, Notes
<1>. QED  BY <1>2, <1>3, <1>4 DEF Works

LEMMA AccountedStays ==
  ASSUME env' = env
  PROVE  \A m : Accounted(m) => Accounted(m)'
BY EnvStays DEF Accounted, InTime

LEMMA TelemetryInit ==
  ASSUME Init
  PROVE  TelInv
BY StartAccounted DEF Init, TelInv, Off

LEMMA TelemetryNext ==
  ASSUME tel \in Telemetry, TelInv, [Next]_vars
  PROVE  TelInv'
<1>. DEFINE early == {"entry", "config"}
<1>1. /\ proc \in early => tel = Off
      /\ code = "137" => proc = "over"
      /\ proc = "over" => tel.on = {}
      /\ code # "137" => Accounted(tel)
  BY DEF TelInv
<1>2. SUFFICES ASSUME NEW n, tel' = n, env' = env,
                      proc' \in early => n = Off,
                      code' = "137" => proc' = "over",
                      proc' = "over" => n.on = {},
                      code' # "137" => Accounted(n)
               PROVE  TelInv'
  <2>1. CASE \E r \in Reqs : Connect(r) \/ Works(r) \/ Hear(r) \/ ClientGone(r)
    <3>1. tel' \in Notes(tel) /\ env' = env /\ proc' = proc /\ code' = code
      BY <2>1, ThreadsNote
    <3>2. tel'.on = tel.on /\ (tel.set = {} => tel' = tel)
      BY <3>1, NotesAre
    <3>3. Off.set = {}
      BY DEF Off
    <3>4. Accounted(tel) => \A n \in Notes(tel) : Accounted(n)
      BY NotesAccounted
    <3>. QED  BY <1>1, <1>2, <3>1, <3>2, <3>3, <3>4
  <2>2. CASE Enter \/ Interrupt \/ Kill
    <3>1. [tel EXCEPT !.on = {}].on = {}
      BY DEF Telemetry
    <3>. QED
      BY <1>1, <1>2, <2>2, <3>1 DEF Enter, Interrupt, Kill, Moves
  <2>3. CASE Configure \/ LegacyConfigure
    <3>1. Legacy => Complete
      BY DEF Complete
    <3>. QED
      BY <1>1, <1>2, <2>3, <3>1, StartAccounted DEF Configure, LegacyConfigure, Moves
  <2>4. CASE Bind
    <3>1. Accounted(tel) => Accounted(Logged(tel))
      BY NotesAccounted DEF Notes
    <3>. QED  BY <1>1, <1>2, <2>4, <3>1 DEF Bind, Moves
  <2>5. CASE Close
    BY <1>1, <1>2, <2>5 DEF Close, Moves
  <2>6. CASE Exit
    <3>1. CASE tel.on # {} /\ \E ok \in {TRUE, ~Flaky} : Moves("exiting", code, Shut(tel, ok))
      <4>1. PICK ok \in BOOLEAN : (ok \/ Flaky) /\ Moves("exiting", code, Shut(tel, ok))
        BY <3>1 DEF Flaky
      <4>2. Accounted(tel) => Accounted(Shut(tel, ok))
        BY <3>1, <4>1, ShutAccounted
      <4>. QED  BY <1>1, <1>2, <2>6, <4>1, <4>2 DEF Moves, Exit
    <3>2. CASE tel.on = {} /\ Moves("over", code, tel)
      BY <1>1, <1>2, <2>6, <3>2 DEF Moves, Exit
    <3>. QED  BY <2>6, <3>1, <3>2 DEF Exit
  <2>7. CASE ExportTick
    <3>1. PICK ok \in BOOLEAN : /\ ok \/ Flaky
                                /\ \/ "logs" \in tel.on /\ tel' = ShipLogs(tel, ok)
                                   \/ "metrics" \in tel.on /\ tel' = ShowSums(tel, ok)
      BY <2>7 DEF ExportTick, Flaky
    <3>2. ShipLogs(tel, ok).on = tel.on /\ ShowSums(tel, ok).on = tel.on
      BY DEF ShipLogs, ShowSums, Telemetry
    <3>3. Accounted(tel) => Accounted(tel')
      BY <3>1, ShipsAccounted, ShowsAccounted
    <3>4. tel.on # {} /\ Off.on = {}
      BY <3>1 DEF Off
    <3>5. env' = env /\ proc' = proc /\ code' = code
      BY <2>7 DEF ExportTick
    <3>. QED  BY <1>1, <1>2, <3>1, <3>2, <3>3, <3>4, <3>5
  <2>8. CASE UNCHANGED vars
    BY <1>1, <1>2, <2>8 DEF vars
  <2>. QED  BY <2>1, <2>2, <2>3, <2>4, <2>5, <2>6, <2>7, <2>8 DEF Next, Runs, Rests
<1>3. code' # "137" => Accounted(tel)'
  BY <1>2, AccountedStays
<1>. QED  BY <1>2, <1>3 DEF TelInv

(* Unless the process is killed, every line the log provider was handed while it
   worked is still in its queue or has been sent, once a provider has been shut
   nothing of it waits, and nothing is late for one that works: init_telemetry,
   log_pipeline_line and the SDK's processors. *)
THEOREM TelemetryIsKept ==
  Spec => []TelInv
<1>1. Init => TelInv
  BY TelemetryInit
<1>2. TypeOK /\ TelInv /\ [Next]_vars => TelInv'
  BY TelemetryNext DEF TypeOK
<1>. QED  BY <1>1, <1>2, PythonTypes, PTL DEF Spec

-----------------------------------------------------------------------------
(* What a thread tells the outside in one step, from t to u.               *)

(* AsRequest, field by field. *)
StateOf(t) ==
  IF t.pc = "none" THEN "unasked"
  ELSE IF t.answer # "none" THEN "over"
  ELSE IF t.pc \in {"sent", "read", "route"} THEN "asked"
  ELSE IF \/ t.pc = "wait"
          \/ /\ ~(t.k # 0 /\ LastHop(t.body))
             /\ t.pc = "reply" \/ (t.pc = "ending" /\ t.then = "reply")
       THEN "asking" ELSE "working"
TodoOf(t) == IF t.k # 0 THEN StepCount(t) ELSE 0
DoneOf(t) == IF t.k # 0 THEN t.k - 1 ELSE 0
LastOf(t) == t.k # 0 /\ LastHop(t.body)
AnswerOf(t) == IF t.answer = "unread" THEN "lost" ELSE t.answer

AsRecord(state, todo, done, last, answer) ==
  [state |-> state, todo |-> todo, done |-> done, last |-> last, answer |-> answer]

LEMMA RequestIsRecord ==
  ASSUME NEW t
  PROVE  AsRequest(t) = AsRecord(StateOf(t), TodoOf(t), DoneOf(t), LastOf(t), AnswerOf(t))
BY DEF AsRequest, AsRecord, StateOf, TodoOf, DoneOf, LastOf, AnswerOf, StepCount

(* And as the place in the handler tells it. *)
Waiting(state, answer) == AsRecord(state, 0, 0, FALSE, answer)
Doing(t, state, answer) ==
  AsRecord(state, StepCount(t), t.k - 1, LastHop(t.body), answer)

Asks(t) == t.pc = "wait" \/ (Stage(t) = "reply" /\ ~LastHop(t.body))

LEMMA FieldsOf ==
  ASSUME NEW t
  PROVE  /\ t.k = 0 => TodoOf(t) = 0 /\ DoneOf(t) = 0 /\ LastOf(t) = FALSE
         /\ t.k # 0 => /\ TodoOf(t) = StepCount(t) /\ DoneOf(t) = t.k - 1
                       /\ LastOf(t) = LastHop(t.body)
<1>1. t.k = 0 => TodoOf(t) = 0 /\ DoneOf(t) = 0 /\ LastOf(t) = FALSE
  BY DEF TodoOf, DoneOf, LastOf
<1>2. t.k # 0 => TodoOf(t) = StepCount(t) /\ DoneOf(t) = t.k - 1
  BY DEF TodoOf, DoneOf
<1>3. t.k # 0 => LastOf(t) = LastHop(t.body)
  BY DEF LastOf, LastHop
<1>. QED  BY <1>1, <1>2, <1>3

LEMMA RequestIs ==
  ASSUME NEW t \in Threads, ThreadInv(t)
  PROVE  /\ t.pc = "none" => AsRequest(t) = Waiting("unasked", "none")
         /\ Stage(t) \in {"sent", "read", "route"} => AsRequest(t) = Waiting("asked", "none")
         /\ Stage(t) \in Working =>
              AsRequest(t) = Doing(t, IF Asks(t) THEN "asking" ELSE "working", "none")
         /\ t.answer # "none" =>
              AsRequest(t) = IF t.k = 0 THEN Waiting("over", AnswerOf(t))
                             ELSE Doing(t, "over", AnswerOf(t))
<1>0. Placed(t) /\ Deep(t)
  BY DEF ThreadInv
<1>1. ASSUME t.pc = "none" PROVE AsRequest(t) = Waiting("unasked", "none")
  <2>1. t.k = 0 /\ t.answer = "none"
    BY <1>0, <1>1 DEF Placed, Stage, Unbegun
  <2>2. StateOf(t) = "unasked" /\ AnswerOf(t) = "none"
    BY <1>1, <2>1 DEF StateOf, AnswerOf
  <2>. QED  BY <2>1, <2>2, RequestIsRecord, FieldsOf DEF Waiting
<1>2. ASSUME Stage(t) \in {"sent", "read", "route"}
      PROVE  AsRequest(t) = Waiting("asked", "none")
  <2>1. t.pc = Stage(t)
    BY <1>0, <1>2 DEF Deep, Stage
  <2>2. t.k = 0 /\ t.answer = "none"
    BY <1>0, <1>2 DEF Placed, Unbegun
  <2>3. StateOf(t) = "asked" /\ AnswerOf(t) = "none"
    BY <1>2, <2>1, <2>2 DEF StateOf, AnswerOf
  <2>. QED  BY <2>2, <2>3, RequestIsRecord, FieldsOf DEF Waiting
<1>3. ASSUME Stage(t) \in Working
      PROVE  AsRequest(t) = Doing(t, IF Asks(t) THEN "asking" ELSE "working", "none")
  <2>1. t.k # 0 /\ t.answer = "none"
    BY <1>0, <1>3 DEF Placed
  <2>2. t.pc \notin {"none", "sent", "read", "route"}
    BY <1>3 DEF Stage, Working
  <2>3. Stage(t) = "reply" <=> t.pc = "reply" \/ (t.pc = "ending" /\ t.then = "reply")
    BY DEF Stage
  <2>4. AnswerOf(t) = "none"
    BY <2>1 DEF AnswerOf
  <2>5. StateOf(t) = IF Asks(t) THEN "asking" ELSE "working"
    BY <2>1, <2>2, <2>3 DEF StateOf, Asks
  <2>. QED  BY <2>1, <2>4, <2>5, RequestIsRecord, FieldsOf DEF Doing
<1>4. ASSUME t.answer # "none"
      PROVE  AsRequest(t) = IF t.k = 0 THEN Waiting("over", AnswerOf(t))
                            ELSE Doing(t, "over", AnswerOf(t))
  <2>1. t.pc # "none"
    BY <1>0, <1>4 DEF Placed, Stage, Unbegun
  <2>2. StateOf(t) = "over"
    BY <1>4, <2>1 DEF StateOf
  <2>3. CASE t.k = 0
    BY <2>2, <2>3, RequestIsRecord, FieldsOf DEF Waiting
  <2>4. CASE t.k # 0
    BY <2>2, <2>4, RequestIsRecord, FieldsOf DEF Doing
  <2>. QED  BY <2>3, <2>4
<1>. QED  BY <1>1, <1>2, <1>3, <1>4

(* Records of that form and their fields. *)
LEMMA RecordFields ==
  ASSUME NEW s, NEW n, NEW d, NEW l, NEW x
  PROVE  LET a == AsRecord(s, n, d, l, x)
         IN  a.state = s /\ a.todo = n /\ a.done = d /\ a.last = l /\ a.answer = x
BY DEF AsRecord

LEMMA RecordState ==
  ASSUME NEW s, NEW n, NEW d, NEW l, NEW x, NEW y
  PROVE  [AsRecord(s, n, d, l, x) EXCEPT !.state = y] = AsRecord(y, n, d, l, x)
<1>. DEFINE a == AsRecord(s, n, d, l, x)
<1>1. a = [state |-> s, todo |-> n, done |-> d, last |-> l, answer |-> x]
  BY DEF AsRecord
<1>. HIDE DEF a
<1>2. [a EXCEPT !.state = y] = AsRecord(y, n, d, l, x)
  BY <1>1 DEF AsRecord
<1>. QED  BY <1>2 DEF a

LEMMA RecordDone ==
  ASSUME NEW s, NEW n, NEW d, NEW l, NEW x
  PROVE  [AsRecord(s, n, d, l, x) EXCEPT !.done = @ + 1] = AsRecord(s, n, d + 1, l, x)
<1>. DEFINE a == AsRecord(s, n, d, l, x)
<1>1. a = [state |-> s, todo |-> n, done |-> d, last |-> l, answer |-> x]
  BY DEF AsRecord
<1>2. a.done = d
  BY DEF AsRecord
<1>. HIDE DEF a
<1>3. [a EXCEPT !.done = @ + 1] = AsRecord(s, n, d + 1, l, x)
  BY <1>1, <1>2 DEF AsRecord
<1>. QED  BY <1>3 DEF a

LEMMA RecordAnswer ==
  ASSUME NEW s, NEW n, NEW d, NEW l, NEW x, NEW y
  PROVE  [AsRecord(s, n, d, l, x) EXCEPT !.answer = y] = AsRecord(s, n, d, l, y)
<1>. DEFINE a == AsRecord(s, n, d, l, x)
<1>1. a = [state |-> s, todo |-> n, done |-> d, last |-> l, answer |-> x]
  BY DEF AsRecord
<1>. HIDE DEF a
<1>2. [a EXCEPT !.answer = y] = AsRecord(s, n, d, l, y)
  BY <1>1 DEF AsRecord
<1>. QED  BY <1>2 DEF a

LEMMA RecordTodo ==
  ASSUME NEW s, NEW n, NEW d, NEW l, NEW x, NEW y
  PROVE  [AsRecord(s, n, d, l, x) EXCEPT !.todo = y] = AsRecord(s, y, d, l, x)
<1>. DEFINE a == AsRecord(s, n, d, l, x)
<1>1. a = [state |-> s, todo |-> n, done |-> d, last |-> l, answer |-> x]
  BY DEF AsRecord
<1>. HIDE DEF a
<1>2. [a EXCEPT !.todo = y] = AsRecord(s, y, d, l, x)
  BY <1>1 DEF AsRecord
<1>. QED  BY <1>2 DEF a

LEMMA RecordLast ==
  ASSUME NEW s, NEW n, NEW d, NEW l, NEW x, NEW y
  PROVE  [AsRecord(s, n, d, l, x) EXCEPT !.last = y] = AsRecord(s, n, d, y, x)
<1>. DEFINE a == AsRecord(s, n, d, l, x)
<1>1. a = [state |-> s, todo |-> n, done |-> d, last |-> l, answer |-> x]
  BY DEF AsRecord
<1>. HIDE DEF a
<1>2. [a EXCEPT !.last = y] = AsRecord(s, n, d, y, x)
  BY <1>1 DEF AsRecord
<1>. QED  BY <1>2 DEF a

LEMMA OverIs ==
  ASSUME NEW s, NEW n, NEW d, NEW l, NEW x
  PROVE  Contract!Over(AsRecord(s, n, d, l, "none"), x) = AsRecord("over", n, d, l, x)
<1>. DEFINE a == AsRecord(s, n, d, l, "none")
            b == AsRecord("over", n, d, l, "none")
<1>1. b = [a EXCEPT !.state = "over"]
  BY RecordState
<1>2. [b EXCEPT !.answer = x] = AsRecord("over", n, d, l, x)
  BY RecordAnswer
<1>. HIDE DEF a, b
<1>3. Contract!Over(a, x) = [[a EXCEPT !.state = "over"] EXCEPT !.answer = x]
  BY DEF Contract!Over
<1>. QED  BY <1>1, <1>2, <1>3 DEF a

LEMMA WaitingIs ==
  \E l : /\ l = FALSE
         /\ \A s, x : Waiting(s, x) = AsRecord(s, 0, 0, l, x)
<1>1. PICK l : l = FALSE
  OBVIOUS
<1>2. \A s, x : Waiting(s, x) = AsRecord(s, 0, 0, l, x)
  BY <1>1 DEF Waiting
<1>. QED  BY <1>1, <1>2

LEMMA AskedIs ==
  /\ Contract!Unasked = Waiting("unasked", "none")
  /\ Contract!Asked = Waiting("asked", "none")
<1>1. Contract!Unasked = Waiting("unasked", "none")
  BY DEF Contract!Unasked, Waiting, AsRecord
<1>2. PICK l : \A s, x : Waiting(s, x) = AsRecord(s, 0, 0, l, x)
  BY WaitingIs
<1>3. Contract!Asked = Waiting("asked", "none")
  <2>1. Contract!Asked = [Waiting("unasked", "none") EXCEPT !.state = "asked"]
    BY <1>1 DEF Contract!Asked
  <2>2. [AsRecord("unasked", 0, 0, l, "none") EXCEPT !.state = "asked"] =
          AsRecord("asked", 0, 0, l, "none")
    BY RecordState
  <2>. QED  BY <1>2, <2>1, <2>2
<1>. QED  BY <1>1, <1>3

(* The moves of the contract. *)
LEMMA ContractBegins ==
  /\ Contract!Moves(Waiting("unasked", "none"), Waiting("asked", "none"))
  /\ Contract!Moves(Waiting("asked", "none"), Waiting("over", "400"))
  /\ Contract!Moves(Waiting("asked", "none"), Waiting("over", "lost"))
  /\ \A n \in Nat \ {0}, l \in BOOLEAN :
       Contract!Moves(Waiting("asked", "none"), AsRecord("working", n, 0, l, "none"))
<1>0. PICK f : \A s, x : Waiting(s, x) = AsRecord(s, 0, 0, f, x)
  BY WaitingIs
<1>1. Contract!Moves(Waiting("unasked", "none"), Waiting("asked", "none"))
  <2>1. Contract!Posted(Waiting("unasked", "none"), Waiting("asked", "none"))
    BY AskedIs DEF Contract!Posted
  <2>. QED  BY <2>1 DEF Contract!Moves
<1>2. \A x : Contract!Over(Waiting("asked", "none"), x) = Waiting("over", x)
  BY <1>0, OverIs
<1>3. Contract!Moves(Waiting("asked", "none"), Waiting("over", "400"))
  <2>1. Contract!Refused(Waiting("asked", "none"), Waiting("over", "400"))
    BY <1>2, AskedIs DEF Contract!Refused
  <2>. QED  BY <2>1 DEF Contract!Moves
<1>4. Contract!Moves(Waiting("asked", "none"), Waiting("over", "lost"))
  <2>1. Waiting("asked", "none").state = "asked"
    BY <1>0, RecordFields
  <2>. QED  BY <1>2, <2>1 DEF Contract!Moves, Contract!Lost
<1>5. ASSUME NEW n \in Nat \ {0}, NEW l \in BOOLEAN
      PROVE  Contract!Moves(Waiting("asked", "none"), AsRecord("working", n, 0, l, "none"))
  <2>. DEFINE b == AsRecord("working", n, 0, l, "none")
              a == AsRecord("asked", 0, 0, f, "none")
  <2>1. b.todo = n /\ b.last = l
    BY RecordFields
  <2>2. b = [a EXCEPT !.state = "working", !.todo = n, !.last = l]
    <3>. DEFINE c == AsRecord("working", 0, 0, f, "none")
                e == AsRecord("working", n, 0, f, "none")
    <3>1. c = [a EXCEPT !.state = "working"]
      BY RecordState
    <3>2. e = [c EXCEPT !.todo = n]
      BY RecordTodo
    <3>3. b = [e EXCEPT !.last = l]
      BY RecordLast
    <3>. HIDE DEF a, b, c, e
    <3>4. [a EXCEPT !.state = "working", !.todo = n, !.last = l] =
            [[[a EXCEPT !.state = "working"] EXCEPT !.todo = n] EXCEPT !.last = l]
      OBVIOUS
    <3>. QED  BY <3>1, <3>2, <3>3, <3>4
  <2>3. a = Contract!Asked /\ a = Waiting("asked", "none")
    BY <1>0, AskedIs
  <2>. HIDE DEF a, b
  <2>4. Contract!Admitted(a, b)
    BY <2>1, <2>2, <2>3 DEF Contract!Admitted
  <2>. QED  BY <2>3, <2>4 DEF Contract!Moves, b
<1>. QED  BY <1>1, <1>3, <1>4, <1>5

LEMMA ContractGoesOn ==
  ASSUME NEW n \in Nat, NEW d \in Nat, NEW l \in BOOLEAN
  PROVE  /\ d < n => /\ Contract!Moves(AsRecord("working", n, d, l, "none"),
                                       AsRecord("working", n, d + 1, l, "none"))
                     /\ Contract!Moves(AsRecord("asking", n, d, l, "none"),
                                       AsRecord("working", n, d + 1, l, "none"))
         /\ d < n \/ ~l => Contract!Moves(AsRecord("working", n, d, l, "none"),
                                          AsRecord("asking", n, d, l, "none"))
         /\ \A s \in {"working", "asking"} :
              /\ d = n /\ s = (IF l THEN "working" ELSE "asking") =>
                   Contract!Moves(AsRecord(s, n, d, l, "none"), AsRecord("over", n, d, l, "200"))
              /\ Contract!Moves(AsRecord(s, n, d, l, "none"), AsRecord("over", n, d, l, "502"))
              /\ Contract!Moves(AsRecord(s, n, d, l, "none"), AsRecord("over", n, d, l, "lost"))
              /\ d = n /\ ~l =>
                   Contract!Moves(AsRecord(s, n, d, l, "none"), AsRecord("over", n, d, l, "400"))
<1>. DEFINE At(s) == AsRecord(s, n, d, l, "none")
            Further(s) == AsRecord(s, n, d + 1, l, "none")
            End(a) == AsRecord("over", n, d, l, a)
<1>1. \A s : At(s).state = s /\ At(s).todo = n /\ At(s).done = d /\ At(s).last = l
  BY RecordFields
<1>2. /\ Further("working") = [At("working") EXCEPT !.done = @ + 1]
      /\ Further("working") = [At("asking") EXCEPT !.state = "working", !.done = @ + 1]
      /\ At("asking") = [At("working") EXCEPT !.state = "asking"]
      /\ \A s, x : Contract!Over(At(s), x) = End(x)
  <2>1. Further("working") = [At("working") EXCEPT !.done = @ + 1]
    BY RecordDone
  <2>2. Further("working") = [At("asking") EXCEPT !.state = "working", !.done = @ + 1]
    <3>. DEFINE a == At("asking")
                b == At("working")
                c == Further("working")
    <3>1. b = [a EXCEPT !.state = "working"]
      BY RecordState
    <3>2. c = [b EXCEPT !.done = @ + 1]
      BY RecordDone
    <3>. HIDE DEF a, b, c
    <3>3. [a EXCEPT !.state = "working", !.done = @ + 1] =
            [[a EXCEPT !.state = "working"] EXCEPT !.done = @ + 1]
      OBVIOUS
    <3>4. c = [a EXCEPT !.state = "working", !.done = @ + 1]
      BY <3>1, <3>2, <3>3
    <3>. QED  BY <3>4 DEF a, c
  <2>3. At("asking") = [At("working") EXCEPT !.state = "asking"]
    BY RecordState
  <2>4. \A s, x : Contract!Over(At(s), x) = End(x)
    BY OverIs
  <2>. QED  BY <2>1, <2>2, <2>3, <2>4, Zenon
<1>. HIDE DEF At, Further, End
<1>3. d < n => Contract!Moves(At("working"), Further("working"))
  BY <1>1, <1>2 DEF Contract!Moves, Contract!Worked
<1>4. d < n => Contract!Moves(At("asking"), Further("working"))
  BY <1>1, <1>2 DEF Contract!Moves, Contract!Heeded
<1>5. d < n \/ ~l => Contract!Moves(At("working"), At("asking"))
  BY <1>1, <1>2 DEF Contract!Moves, Contract!Sent
<1>6. ASSUME NEW s \in {"working", "asking"}
      PROVE  /\ d = n /\ s = (IF l THEN "working" ELSE "asking") =>
                  Contract!Moves(At(s), End("200"))
             /\ Contract!Moves(At(s), End("502")) /\ Contract!Moves(At(s), End("lost"))
             /\ d = n /\ ~l => Contract!Moves(At(s), End("400"))
  <2>0. d = n /\ s = (IF l THEN "working" ELSE "asking") => Contract!Moves(At(s), End("200"))
    BY <1>1, <1>2 DEF Contract!Moves, Contract!Finished
  <2>1. Contract!Moves(At(s), End("502"))
    BY <1>1, <1>2 DEF Contract!Moves, Contract!Failed
  <2>2. Contract!Moves(At(s), End("lost"))
    BY <1>1, <1>2 DEF Contract!Moves, Contract!Lost
  <2>3. d = n /\ ~l => Contract!Moves(At(s), End("400"))
    BY <1>1, <1>2 DEF Contract!Moves, Contract!Failed
  <2>. QED  BY <2>0, <2>1, <2>2, <2>3
<1>. QED  BY <1>3, <1>4, <1>5, <1>6 DEF At, Further, End

(* What a step from t to u promises, excuses, traces and counts. *)
Promised(t, u) ==
  AsRequest(u) = AsRequest(t) \/ Contract!Moves(AsRequest(t), AsRequest(u))

Excused(t, u) ==
  u.answer = "lost" =>
    LostByItself(u) \/ (t.answer = "lost" /\ (LostByItself(t) => LostByItself(u)))

InMessages(t) == t.answer \in OkAnswers /\ t.pc # "count"
InHops(t) == t.pc = "over" /\ t.body.form = "object"

Uncounted(t, u) == (InMessages(u) <=> InMessages(t)) /\ (InHops(u) <=> InHops(t))

Extends(t, u) ==
  /\ OpenIds(t) \subseteq OpenIds(u)
  /\ \A i \in DOMAIN u.sent :
       u.sent[i] \in OpenIds(u) \/ \E j \in DOMAIN t.sent : u.sent[i] = t.sent[j]

Follows(t, u) ==
  /\ t.pc # "none" => u.body = t.body
  /\ u.missed = t.missed
  /\ u.pc \in Unbegun => t.pc \in Unbegun
  /\ Complete => Extends(t, u)
  /\ u.pc = "over" => Len(u.open) = 0

Regular(t, u) == Promised(t, u) /\ Excused(t, u) /\ Uncounted(t, u) /\ Follows(t, u)

LEMMA SameExtends ==
  ASSUME NEW t, NEW u, u.open = t.open, u.sent = t.sent
  PROVE  Extends(t, u)
BY DEF Extends, OpenIds

(* A handler at work, for the contract. *)
LEMMA AtWork ==
  ASSUME env \in Envs, NEW t \in Threads, ThreadInv(t), Stage(t) \in Working
  PROVE  /\ AsRequest(t) = Doing(t, IF Asks(t) THEN "asking" ELSE "working", "none")
         /\ StepCount(t) \in Nat /\ t.k - 1 \in Nat /\ LastHop(t.body) \in BOOLEAN
         /\ t.k # 0 /\ t.answer = "none" /\ t.body.form = "object"
         /\ AllStepsDone(t) => t.k - 1 = StepCount(t)
         /\ ~AllStepsDone(t) => t.k - 1 < StepCount(t)
         /\ ~InMessages(t) /\ ~InHops(t)
<1>1. t.k # 0 /\ t.answer = "none" /\ t.body.form = "object" /\ Core(t)
  BY DEF ThreadInv, Placed, Working
<1>2. /\ StepCount(t) \in Nat \ {0} /\ DOMAIN StepList(t) = 1 .. StepCount(t)
      /\ t.k \in 1 .. StepCount(t) + 1 /\ t.k \in Nat
  BY <1>1, SegmentAt
<1>3. /\ AllStepsDone(t) => t.k - 1 = StepCount(t)
      /\ ~AllStepsDone(t) => t.k - 1 < StepCount(t)
  BY <1>2 DEF AllStepsDone, StepCount
<1>4. t.pc # "over"
  BY DEF Stage, Working
<1>5. LastHop(t.body) \in BOOLEAN
  BY DEF LastHop
<1>. QED  BY <1>1, <1>2, <1>3, <1>4, <1>5, RequestIs DEF InMessages, InHops, OkAnswers

LEMMA UntoldIs ==
  ASSUME env \in Envs, NEW t \in Threads, ThreadInv(t), NEW u \in Threads, ThreadInv(u),
         u.body = t.body, u.k = t.k, u.answer = t.answer,
         \/ t.answer # "none"
         \/ Stage(t) \in {"sent", "read", "route"} /\ Stage(u) \in {"sent", "read", "route"}
         \/ Stage(t) \in Working /\ Stage(u) \in Working /\ (Asks(t) <=> Asks(u))
  PROVE  AsRequest(u) = AsRequest(t)
<1>1. StepCount(u) = StepCount(t) /\ AnswerOf(u) = AnswerOf(t)
  BY DEF StepCount, StepList, AnswerOf
<1>2. \A s, x : Doing(u, s, x) = Doing(t, s, x)
  BY <1>1 DEF Doing
<1>3. CASE t.answer # "none"
  BY <1>1, <1>2, <1>3, RequestIs
<1>4. CASE Stage(t) \in {"sent", "read", "route"} /\ Stage(u) \in {"sent", "read", "route"}
  BY <1>4, RequestIs
<1>5. CASE Stage(t) \in Working /\ Stage(u) \in Working /\ (Asks(t) <=> Asks(u))
  <2>1. AsRequest(t) = Doing(t, IF Asks(t) THEN "asking" ELSE "working", "none")
    BY <1>5, RequestIs
  <2>2. AsRequest(u) = Doing(u, IF Asks(u) THEN "asking" ELSE "working", "none")
    BY <1>5, RequestIs
  <2>. QED  BY <1>2, <1>5, <2>1, <2>2
<1>. QED  BY <1>3, <1>4, <1>5

(* An answer, for the contract. *)
LEMMA ToldIs ==
  ASSUME env \in Envs, NEW t \in Threads, ThreadInv(t), Stage(t) \in Working,
         NEW u \in Threads, ThreadInv(u), u.body = t.body, u.k = t.k,
         u.answer \in {"200", "400", "502", "lost", "unread"},
         u.answer = "200" => Stage(t) = "reply" /\ t.pc # "wait" /\ AllStepsDone(t),
         u.answer = "400" => AllStepsDone(t) /\ ~LastHop(t.body)
  PROVE  Promised(t, u)
<1>. DEFINE n == StepCount(t)
            d == t.k - 1
            l == LastHop(t.body)
            s == IF Asks(t) THEN "asking" ELSE "working"
            a == AnswerOf(u)
<1>1. AsRequest(t) = AsRecord(s, n, d, l, "none")
  BY AtWork DEF Doing
<1>2. n \in Nat /\ d \in Nat /\ l \in BOOLEAN /\ t.k # 0
  BY AtWork
<1>3. AsRequest(u) = AsRecord("over", n, d, l, a)
  <2>1. AsRequest(u) = Doing(u, "over", AnswerOf(u))
    BY <1>2, RequestIs
  <2>2. StepCount(u) = StepCount(t)
    BY DEF StepCount, StepList
  <2>. QED  BY <2>1, <2>2 DEF Doing
<1>4. s \in {"working", "asking"}
  OBVIOUS
<1>5. /\ a \in {"200", "400", "502", "lost"}
      /\ a = "200" => d = n /\ s = (IF l THEN "working" ELSE "asking")
      /\ a = "400" => d = n /\ ~l
  <2>1. AllStepsDone(t) => d = n
    BY AtWork
  <2>2. u.answer = "200" => s = (IF l THEN "working" ELSE "asking")
    BY DEF Asks
  <2>. QED  BY <2>1, <2>2 DEF AnswerOf
<1>. HIDE DEF n, d, l, s, a
<1>6. Contract!Moves(AsRecord(s, n, d, l, "none"), AsRecord("over", n, d, l, a))
  BY <1>2, <1>4, <1>5, ContractGoesOn
<1>. QED  BY <1>1, <1>3, <1>6 DEF Promised

(* A step of the handler that is neither first nor last. *)
LEMMA WorkIs ==
  ASSUME env \in Envs, NEW t \in Threads, ThreadInv(t), Stage(t) \in Working,
         NEW u \in Threads, ThreadInv(u), Stage(u) \in Working, u.body = t.body,
         \/ ~AllStepsDone(t) /\ u.k = t.k + 1 /\ ~Asks(u)
         \/ (~AllStepsDone(t) \/ ~LastHop(t.body)) /\ u.k = t.k /\ ~Asks(t) /\ Asks(u)
  PROVE  Promised(t, u)
<1>. DEFINE n == StepCount(t)
            d == t.k - 1
            l == LastHop(t.body)
            s == IF Asks(t) THEN "asking" ELSE "working"
<1>1. AsRequest(t) = AsRecord(s, n, d, l, "none")
  BY AtWork DEF Doing
<1>2. n \in Nat /\ d \in Nat /\ l \in BOOLEAN /\ t.k # 0 /\ t.k \in Nat
  BY AtWork DEF Threads
<1>3. AsRequest(u) = AsRecord(IF Asks(u) THEN "asking" ELSE "working", n, u.k - 1, l, "none")
  <2>1. AsRequest(u) = Doing(u, IF Asks(u) THEN "asking" ELSE "working", "none")
    BY RequestIs
  <2>2. StepCount(u) = StepCount(t)
    BY DEF StepCount, StepList
  <2>. QED  BY <2>1, <2>2 DEF Doing
<1>4. ~AllStepsDone(t) => d < n
  BY AtWork
<1>5. CASE ~AllStepsDone(t) /\ u.k = t.k + 1 /\ ~Asks(u)
  <2>1. u.k - 1 = d + 1
    BY <1>2, <1>5
  <2>2. s \in {"working", "asking"}
    OBVIOUS
  <2>3. AsRequest(u) = AsRecord("working", n, d + 1, l, "none")
    BY <1>3, <1>5, <2>1
  <2>. HIDE DEF n, d, l, s
  <2>4. Contract!Moves(AsRecord(s, n, d, l, "none"), AsRecord("working", n, d + 1, l, "none"))
    BY <1>2, <1>4, <1>5, <2>2, ContractGoesOn
  <2>. QED  BY <1>1, <2>3, <2>4 DEF Promised
<1>6. CASE (~AllStepsDone(t) \/ ~LastHop(t.body)) /\ u.k = t.k /\ ~Asks(t) /\ Asks(u)
  <2>1. s = "working" /\ (d < n \/ ~l)
    BY <1>4, <1>6
  <2>2. AsRequest(u) = AsRecord("asking", n, d, l, "none")
    BY <1>3, <1>6
  <2>. HIDE DEF n, d, l, s
  <2>3. Contract!Moves(AsRecord(s, n, d, l, "none"), AsRecord("asking", n, d, l, "none"))
    BY <1>2, <2>1, ContractGoesOn
  <2>. QED  BY <1>1, <2>2, <2>3 DEF Promised
<1>. QED  BY <1>5, <1>6

(* Spans that begin and POSTs that carry them. *)
LEMMA ExtendsOn ==
  ASSUME NEW t, NEW v, NEW u, Extends(t, v), Extends(v, u)
  PROVE  Extends(t, u)
BY DEF Extends

LEMMA BeginExtends ==
  ASSUME NEW t \in Threads, NEW name \in {"hop", "processing", "step", "client"}
  PROVE  Extends(t, Begin(t, name))
<1>. DEFINE u == Begin(t, name)
            s == [id |-> <<name, t.k>>, parent |-> Below(t)]
<1>1. /\ u.sent = t.sent
      /\ ~Complete => u.open = t.open
      /\ Complete => u.open = Append(t.open, s)
      /\ Complete => <<name, t.k>> \in SpanIds /\ Below(t) \in SpanIds
  BY BeginIs
<1>2. CASE ~Complete
  BY <1>1, <1>2, SameExtends
<1>3. CASE Complete
  <2>. DEFINE S == [id : SpanIds, parent : SpanIds]
  <2>1. t.open \in Seq(S) /\ s \in S
    BY <1>1, <1>3 DEF Threads
  <2>. HIDE DEF S, s, u
  <2>2. /\ DOMAIN t.open = 1 .. Len(t.open) /\ Len(t.open) \in Nat
        /\ DOMAIN u.open = 1 .. Len(t.open) + 1
        /\ \A i \in 1 .. Len(t.open) : u.open[i] = t.open[i]
    BY <1>1, <1>3, <2>1
  <2>3. OpenIds(t) \subseteq OpenIds(u)
    BY <2>2 DEF OpenIds
  <2>. QED  BY <1>1, <2>3 DEF Extends, u
<1>. QED  BY <1>2, <1>3

LEMMA PostsExtends ==
  ASSUME NEW t \in Threads, Complete, Len(t.open) # 0
  PROVE  Extends(t, Posts(t))
<1>. DEFINE u == Posts(t)
            p == Traceparent(t)
<1>1. /\ u.open = t.open /\ u.sent = Append(t.sent, p)
      /\ p = t.open[Len(t.open)].id /\ p \in SpanIds
  BY PostsIs
<1>. HIDE DEF u, p
<1>2. /\ DOMAIN t.open = 1 .. Len(t.open) /\ Len(t.open) \in Nat
  BY SpanTypes
<1>3. Len(t.open) \in DOMAIN t.open
  <2>. DEFINE n == Len(t.open)
  <2>1. n \in Nat /\ n # 0 /\ DOMAIN t.open = 1 .. n
    BY <1>2
  <2>. HIDE DEF n
  <2>2. n \in DOMAIN t.open
    BY <2>1
  <2>. QED  BY <2>2 DEF n
<1>4. p \in OpenIds(u)
  BY <1>1, <1>3 DEF OpenIds
<1>5. \A i \in DOMAIN u.sent : u.sent[i] = p \/ \E j \in DOMAIN t.sent : u.sent[i] = t.sent[j]
  <2>1. t.sent \in Seq(SpanIds)
    BY DEF Threads
  <2>2. /\ DOMAIN t.sent = 1 .. Len(t.sent) /\ Len(t.sent) \in Nat
        /\ DOMAIN u.sent = 1 .. Len(t.sent) + 1
        /\ u.sent[Len(t.sent) + 1] = p
        /\ \A i \in 1 .. Len(t.sent) : u.sent[i] = t.sent[i]
    BY <1>1, <2>1
  <2>. DEFINE m == Len(t.sent)
  <2>. HIDE DEF m
  <2>3. \A i \in 1 .. m + 1 : i \in 1 .. m \/ i = m + 1
    BY <2>2 DEF m
  <2>. QED  BY <2>2, <2>3 DEF m
<1>. QED  BY <1>1, <1>4, <1>5 DEF Extends, OpenIds, u

(* A thread that begins nothing new for the contract. *)
LEMMA QuietRegular ==
  ASSUME env \in Envs, NEW t \in Threads, ThreadInv(t), NEW u \in Threads, ThreadInv(u),
         u.body = t.body, u.k = t.k, u.answer = "none", t.answer = "none",
         u.missed = t.missed, u.pc \notin {"none", "over"},
         u.pc \in Unbegun => t.pc \in Unbegun, Complete => Extends(t, u),
         \/ Stage(t) \in {"sent", "read", "route"} /\ Stage(u) \in {"sent", "read", "route"}
         \/ Stage(t) \in Working /\ Stage(u) \in Working /\ (Asks(t) <=> Asks(u))
  PROVE  Regular(t, u)
<1>1. Promised(t, u)
  BY UntoldIs DEF Promised
<1>2. Excused(t, u)
  BY DEF Excused
<1>3. Uncounted(t, u)
  <2>1. t.pc # "over"
    BY DEF Stage, Working
  <2>. QED  BY <2>1 DEF Uncounted, InMessages, InHops, OkAnswers
<1>4. Follows(t, u)
  BY DEF Follows
<1>. QED  BY <1>1, <1>2, <1>3, <1>4 DEF Regular

(* The way out with an answer, from a place in the segment. *)
LEMMA LeavesRegular ==
  ASSUME env \in Envs, NEW t \in Threads, ThreadInv(t), Stage(t) \in Working,
         NEW v \in Threads, NEW a \in {"400", "502", "lost"}, ThreadInv(Leaves(v, a)),
         v.body = t.body, v.k = t.k, v.gone = t.gone, v.missed = t.missed,
         Complete => Extends(t, v),
         a = "400" => AllStepsDone(t) /\ ~LastHop(t.body),
         a = "lost" => t.gone \/ v.heard = "torn" \/ ~t.body.counter \/ Unwritable(t)
  PROVE  Regular(t, Leaves(v, a))
<1>. DEFINE u == Leaves(v, a)
<1>1. /\ u \in Threads /\ Same(v, u) /\ u.k = v.k
      /\ u.answer = IF v.gone THEN "lost" ELSE a
      /\ u.pc \in {"finally", "ending"} /\ ThreadInv(u)
  BY LeavesAre
<1>. HIDE DEF u
<1>2. Promised(t, u)
  <2>1. u.body = t.body /\ u.k = t.k
    BY <1>1 DEF Same
  <2>2. /\ u.answer \in {"200", "400", "502", "lost", "unread"} /\ u.answer # "200"
        /\ u.answer = "400" => AllStepsDone(t) /\ ~LastHop(t.body)
    BY <1>1
  <2>. QED  BY <1>1, <2>1, <2>2, ToldIs
<1>3. Excused(t, u)
  <2>1. Unwritable(u) <=> Unwritable(t)
    BY <1>1 DEF Same, Unwritable, NextPeer, AllStepsDone, StepList
  <2>. QED  BY <1>1, <2>1 DEF Excused, LostByItself, Same
<1>4. Uncounted(t, u)
  BY <1>1, AtWork DEF Uncounted, InMessages, InHops, OkAnswers
<1>5. Complete => Extends(t, u)
  BY <1>1, SameExtends, ExtendsOn DEF Same
<1>6. Follows(t, u)
  BY <1>1, <1>5 DEF Follows, Same, Unbegun
<1>7. Regular(t, u)
  BY <1>2, <1>3, <1>4, <1>6 DEF Regular
<1>. QED  BY <1>7 DEF u

(* Spans end and the segment goes on. *)
LEMMA EndsRegular ==
  ASSUME env \in Envs, NEW t \in Threads, ThreadInv(t), Stage(t) \in Working,
         NEW v \in Threads, NEW keep, NEW then, keep \in 0 .. 2,
         then \in {"steps", "mark", "reply"}, ThreadInv(Ends(v, keep, then)),
         v.body = t.body, v.answer = "none", v.missed = t.missed,
         v.open = t.open, v.sent = t.sent,
         \/ ~AllStepsDone(t) /\ v.k = t.k + 1 /\ then = "steps"
         \/ v.k = t.k /\ (Asks(t) <=> then = "reply" /\ ~LastHop(t.body))
  PROVE  Regular(t, Ends(v, keep, then))
<1>. DEFINE u == Ends(v, keep, then)
<1>1. /\ u \in Threads /\ Same(v, u) /\ u.k = v.k /\ u.answer = "none"
      /\ Stage(u) = then /\ u.pc \in {"ending", "steps", "mark", "reply"} /\ ThreadInv(u)
  <2>0. then \in Goals
    BY DEF Goals
  <2>1. EndsSo(v, u, keep, then)
    BY <2>0, EndsAreSo
  <2>2. ThreadInv(u)
    OBVIOUS
  <2>. HIDE DEF u
  <2>. QED  BY <2>1, <2>2 DEF EndsSo
<1>. HIDE DEF u
<1>2. u.body = t.body /\ Stage(u) \in Working /\ t.answer = "none"
  BY <1>1, AtWork DEF Same, Working
<1>3. Asks(u) <=> then = "reply" /\ ~LastHop(t.body)
  BY <1>1, <1>2 DEF Asks
<1>4. Promised(t, u)
  <2>1. CASE ~AllStepsDone(t) /\ v.k = t.k + 1 /\ then = "steps"
    BY <1>1, <1>2, <1>3, <2>1, WorkIs
  <2>2. CASE v.k = t.k /\ (Asks(t) <=> then = "reply" /\ ~LastHop(t.body))
    BY <1>1, <1>2, <1>3, <2>2, UntoldIs DEF Promised
  <2>. QED  BY <2>1, <2>2
<1>5. Excused(t, u)
  BY <1>1 DEF Excused
<1>6. Uncounted(t, u)
  BY <1>1, AtWork DEF Uncounted, InMessages, InHops, OkAnswers
<1>7. Follows(t, u)
  <2>1. Extends(t, u)
    BY <1>1, SameExtends DEF Same
  <2>. QED  BY <1>1, <1>2, <2>1 DEF Follows, Same, Unbegun
<1>8. Regular(t, u)
  BY <1>4, <1>5, <1>6, <1>7 DEF Regular
<1>. QED  BY <1>8 DEF u

(* A POST. *)
LEMMA PostsRegular ==
  ASSUME env \in Envs, NEW t \in Threads, ThreadInv(t), Stage(t) \in Working, ~Asks(t),
         NEW v \in Threads, ThreadInv(Posts(v)), Complete => Len(v.open) # 0,
         v.body = t.body, v.k = t.k, v.answer = "none", v.missed = t.missed,
         Complete => Extends(t, v), ~AllStepsDone(t) \/ ~LastHop(t.body)
  PROVE  Regular(t, Posts(v))
<1>. DEFINE u == Posts(v)
<1>1. /\ u \in Threads /\ u.body = v.body /\ u.missed = v.missed /\ u.k = v.k
      /\ u.answer = v.answer /\ u.pc = "wait" /\ ThreadInv(u)
  BY PostsIs
<1>2. Complete => Extends(t, u)
  BY PostsExtends, ExtendsOn
<1>. HIDE DEF u
<1>3. Promised(t, u)
  <2>1. Stage(u) \in Working /\ Asks(u)
    BY <1>1 DEF Stage, Working, Asks
  <2>. QED  BY <1>1, <2>1, WorkIs
<1>4. Excused(t, u)
  BY <1>1 DEF Excused
<1>5. Uncounted(t, u)
  BY <1>1, AtWork DEF Uncounted, InMessages, InHops, OkAnswers
<1>6. Follows(t, u)
  BY <1>1, <1>2 DEF Follows, Unbegun
<1>7. Regular(t, u)
  BY <1>3, <1>4, <1>5, <1>6 DEF Regular
<1>. QED  BY <1>7 DEF u

(* From the backlog to the route. *)
LEMMA ConnectRegular ==
  ASSUME env \in Envs, NEW t \in Threads, ThreadInv(t), t.pc = "none", NEW b \in Bodies[env]
  PROVE  Regular(t, [NoThread EXCEPT !.pc = "sent", !.body = b])
<1>. DEFINE u == [NoThread EXCEPT !.pc = "sent", !.body = b]
<1>1. u \in Threads /\ ThreadInv(u)
  BY ConnectKeeps
<1>2. u.pc = "sent" /\ u.answer = "none" /\ u.missed = FALSE /\ u.sent = <<>>
  BY DEF NoThread
<1>. HIDE DEF u
<1>3. t.k = 0 /\ t.answer = "none" /\ t.missed = FALSE /\ Len(t.open) = 0
  BY DEF ThreadInv, Placed, Stage, Unbegun, Core, Begun, Threads
<1>4. Promised(t, u)
  <2>1. AsRequest(t) = Waiting("unasked", "none")
    BY RequestIs
  <2>2. Stage(u) \in {"sent", "read", "route"}
    BY <1>2 DEF Stage
  <2>3. AsRequest(u) = Waiting("asked", "none")
    BY <1>1, <2>2, RequestIs
  <2>. QED  BY <2>1, <2>3, ContractBegins DEF Promised
<1>5. Excused(t, u)
  BY <1>2 DEF Excused
<1>6. Uncounted(t, u)
  BY <1>2, <1>3 DEF Uncounted, InMessages, InHops, OkAnswers
<1>7. Follows(t, u)
  <2>1. OpenIds(t) = {}
    <3>1. DOMAIN t.open = {}
      BY <1>3, SpanTypes
    <3>. QED  BY <3>1 DEF OpenIds
  <2>2. DOMAIN u.sent = {}
    BY <1>2
  <2>. QED  BY <1>2, <1>3, <2>1, <2>2 DEF Follows, Extends, Unbegun
<1>8. Regular(t, u)
  BY <1>4, <1>5, <1>6, <1>7 DEF Regular
<1>. QED  BY <1>8 DEF u

LEMMA GoneRegular ==
  ASSUME env \in Envs, NEW t \in Threads, ThreadInv(t), t.pc \notin {"none", "over"},
         t.answer = "none"
  PROVE  Regular(t, [t EXCEPT !.gone = TRUE])
<1>. DEFINE u == [t EXCEPT !.gone = TRUE]
<1>1. u \in Threads /\ ThreadInv(u)
  BY GoneKeeps
<1>2. /\ u.pc = t.pc /\ u.then = t.then /\ u.body = t.body /\ u.k = t.k
      /\ u.answer = t.answer /\ u.missed = t.missed /\ u.open = t.open /\ u.sent = t.sent
  BY DEF Threads
<1>. HIDE DEF u
<1>3. Stage(u) = Stage(t) /\ (Asks(u) <=> Asks(t))
  BY <1>2 DEF Stage, Asks
<1>4. Stage(t) \in {"sent", "read", "route"} \/ Stage(t) \in Working
  BY DEF ThreadInv, Placed, Deep, Stage, Working, Threads, OkAnswers
<1>5. Regular(t, u)
  BY <1>1, <1>2, <1>3, <1>4, SameExtends, QuietRegular
<1>. QED  BY <1>5 DEF u

LEMMA UnbegunRegular ==
  ASSUME env \in Envs, NEW t \in Threads, ThreadInv(t), t.pc \in {"sent", "read"},
         NEW p \in {"read", "route"}, p = "route" => t.body.form = "object"
  PROVE  Regular(t, [t EXCEPT !.pc = p])
<1>. DEFINE u == [t EXCEPT !.pc = p]
<1>1. u \in Threads /\ ThreadInv(u)
  BY UnbegunKeeps DEF Unbegun
<1>2. /\ u.pc = p /\ u.body = t.body /\ u.k = t.k
      /\ u.answer = t.answer /\ u.missed = t.missed /\ u.open = t.open /\ u.sent = t.sent
  BY DEF Threads
<1>. HIDE DEF u
<1>3. Stage(t) \in {"sent", "read", "route"} /\ Stage(u) \in {"sent", "read", "route"}
  BY <1>2 DEF Stage
<1>4. t.answer = "none" /\ t.pc \in Unbegun
  BY DEF ThreadInv, Placed, Stage, Unbegun
<1>5. Regular(t, u)
  BY <1>1, <1>2, <1>3, <1>4, SameExtends, QuietRegular
<1>. QED  BY <1>5 DEF u

LEMMA UnreadRegular ==
  ASSUME env \in Envs, NEW t \in Threads, ThreadInv(t), t.pc = "read", t.body.form # "object",
         NEW a \in {"lost", "400"}, a = "lost" => t.body.form = "raises" \/ t.gone
  PROVE  Regular(t, [t EXCEPT !.pc = "over", !.answer = a])
<1>. DEFINE u == [t EXCEPT !.pc = "over", !.answer = a]
<1>1. u \in Threads /\ ThreadInv(u)
  BY UnreadKeeps
<1>2. /\ u.pc = "over" /\ u.body = t.body /\ u.k = t.k /\ u.answer = a /\ u.gone = t.gone
      /\ u.missed = t.missed /\ u.open = t.open /\ u.sent = t.sent
  BY DEF Threads
<1>. HIDE DEF u
<1>3. t.k = 0 /\ t.answer = "none" /\ Len(t.open) = 0
  BY DEF ThreadInv, Placed, Stage, Unbegun, Core, Begun
<1>4. Promised(t, u)
  <2>1. Stage(t) \in {"sent", "read", "route"}
    BY DEF Stage
  <2>2. AsRequest(t) = Waiting("asked", "none")
    BY <2>1, RequestIs
  <2>3. AsRequest(u) = Waiting("over", AnswerOf(u)) /\ AnswerOf(u) = a
    BY <1>1, <1>2, <1>3, RequestIs DEF AnswerOf
  <2>. QED  BY <2>2, <2>3, ContractBegins DEF Promised
<1>5. Excused(t, u)
  BY <1>2 DEF Excused, LostByItself
<1>6. Uncounted(t, u)
  BY <1>2, <1>3 DEF Uncounted, InMessages, InHops, OkAnswers
<1>7. Follows(t, u)
  BY <1>2, <1>3, SameExtends DEF Follows, Unbegun
<1>8. Regular(t, u)
  BY <1>4, <1>5, <1>6, <1>7 DEF Regular
<1>. QED  BY <1>8 DEF u

LEMMA BeginOpens ==
  ASSUME NEW t \in Threads, NEW name \in {"hop", "processing", "step", "client"}, Complete
  PROVE  Len(Begin(t, name).open) # 0
<1>. DEFINE S == [id : SpanIds, parent : SpanIds]
            s == [id |-> <<name, t.k>>, parent |-> Below(t)]
            u == Begin(t, name)
<1>1. /\ Complete => u.open = Append(t.open, s)
      /\ Complete => <<name, t.k>> \in SpanIds /\ Below(t) \in SpanIds
  BY BeginIs
<1>2. s \in S /\ t.open \in Seq(S)
  BY <1>1 DEF Threads
<1>. HIDE DEF s, S, u
<1>3. Len(u.open) # 0
  BY <1>1, <1>2
<1>. QED  BY <1>3 DEF u

LEMMA CountsSteps ==
  ASSUME env \in Envs, NEW t \in Threads, ThreadInv(t), t.pc = "reply"
  PROVE  AllStepsDone(t)
<1>1. Core(t) /\ t.k # 0 /\ t.k = StepCount(t) + 1
  BY AtTheReply
<1>2. StepCount(t) \in Nat
  BY <1>1, SegmentAt
<1>. DEFINE n == StepCount(t)
<1>3. n \in Nat /\ t.k = n + 1
  BY <1>1, <1>2
<1>. HIDE DEF n
<1>4. t.k > n
  BY <1>3
<1>. QED  BY <1>4 DEF n, StepCount, AllStepsDone

(* A refusal that raises has something in it that cannot be written. *)
LEMMA RefusalUnwritable ==
  ASSUME NEW t, t.k = 0, RefusalRaises(t)
  PROVE  Unwritable(t)
<1>1. PICK home : Raises(WorkerId, t.body, home)
  BY DEF RefusalRaises, LegacyAdmissionRaises, AdmissionRaises
<1>2. FirstUnvisitedIndex(t.body.route) # 0
  BY <1>1 DEF Raises, Routed
<1>3. StepList(t) = Segment(t.body).steps
  BY DEF StepList, StepsOfBody
<1>4. CASE Segment(t.body).id = WorkerId
  BY <1>1, <1>2, <1>3, <1>4 DEF Raises, StepsRaise, Unwritable
<1>5. CASE Segment(t.body).id # WorkerId
  BY <1>1, <1>2, <1>5 DEF Raises, Unwritable
<1>. QED  BY <1>4, <1>5

(* The route is looked at. *)
LEMMA AdmitRegular ==
  ASSUME env \in Envs, NEW t \in Threads, ThreadInv(t), t.pc = "route", NEW id,
         Admissible(id, t.body) \/ LegacyAdmissible(id, t.body)
  PROVE  Regular(t, [Begin(Begin(t, "hop"), "processing") EXCEPT !.pc = "steps", !.k = 1])
<1>. DEFINE v == Begin(t, "hop")
            w == Begin(v, "processing")
            u == [w EXCEPT !.pc = "steps", !.k = 1]
<1>1. u \in Threads /\ ThreadInv(u)
  BY AdmitKeeps
<1>2. /\ v \in Threads /\ v.body = t.body /\ v.missed = t.missed /\ v.answer = t.answer
      /\ Extends(t, v)
  BY BeginIs, BeginExtends
<1>. HIDE DEF v
<1>3. /\ w \in Threads /\ w.body = t.body /\ w.missed = t.missed /\ w.answer = t.answer
      /\ Extends(t, w)
  BY <1>2, BeginIs, BeginExtends, ExtendsOn
<1>. HIDE DEF w
<1>4. /\ u.pc = "steps" /\ u.k = 1 /\ u.body = t.body /\ u.missed = t.missed
      /\ u.answer = t.answer /\ u.open = w.open /\ u.sent = w.sent
  BY <1>3 DEF Threads
<1>. HIDE DEF u
<1>5. t.answer = "none" /\ t.k = 0
  BY DEF ThreadInv, Placed, Stage, Unbegun
<1>6. Promised(t, u)
  <2>1. Stage(t) \in {"sent", "read", "route"} /\ Stage(u) \in Working /\ ~Asks(u)
    BY <1>4 DEF Stage, Working, Asks
  <2>2. AsRequest(t) = Waiting("asked", "none")
    BY <2>1, RequestIs
  <2>3. AsRequest(u) = Doing(u, "working", "none") /\ LastHop(u.body) \in BOOLEAN
    BY <1>1, <2>1, AtWork
  <2>4. StepCount(u) \in Nat \ {0}
    <3>1. StepCount(t) \in Nat \ {0}
      BY AdmittedHasSteps
    <3>. QED  BY <3>1, <1>4 DEF StepCount, StepList
  <2>. DEFINE n == StepCount(u)
              l == LastHop(u.body)
  <2>5. AsRequest(u) = AsRecord("working", n, 0, l, "none")
    <3>1. u.k - 1 = 0
      BY <1>4
    <3>. QED  BY <2>3, <3>1 DEF Doing
  <2>6. n \in Nat \ {0} /\ l \in BOOLEAN
    BY <2>3, <2>4
  <2>. HIDE DEF n, l
  <2>. QED  BY <2>2, <2>5, <2>6, ContractBegins DEF Promised
<1>7. Excused(t, u)
  BY <1>4, <1>5 DEF Excused
<1>8. Uncounted(t, u)
  BY <1>4, <1>5 DEF Uncounted, InMessages, InHops, OkAnswers
<1>9. Follows(t, u)
  <2>1. Extends(t, u)
    BY <1>3, <1>4, SameExtends, ExtendsOn
  <2>. QED  BY <1>4, <2>1 DEF Follows, Unbegun
<1>10. Regular(t, u)
  BY <1>6, <1>7, <1>8, <1>9 DEF Regular
<1>. QED  BY <1>10 DEF u, w, v

LEMMA RefuseRegular ==
  ASSUME env \in Envs, NEW t \in Threads, ThreadInv(t), t.pc = "route",
         NEW a \in {"400", "lost"}, a = "lost" => RefusalRaises(t)
  PROVE  Regular(t, Leaves(t, a))
<1>. DEFINE u == Leaves(t, a)
<1>1. t.answer = "none" /\ t.k = 0 /\ Core(t) /\ t.body.form = "object"
  BY DEF ThreadInv, Placed, Stage, Unbegun
<1>2. u \in Threads /\ ThreadInv(u)
  BY <1>1, LeavesKeeps
<1>3. /\ Same(t, u) /\ u.k = t.k /\ u.answer = IF t.gone THEN "lost" ELSE a
      /\ u.pc \in {"finally", "ending"}
  <2>1. a \in {"400", "502", "lost"}
    OBVIOUS
  <2>2. /\ Same(t, u) /\ u.k = t.k /\ u.answer = IF t.gone THEN "lost" ELSE a
        /\ u.pc = IF Len(t.open) <= 0 THEN "finally" ELSE "ending"
    BY <2>1, LeavesAre
  <2>. QED  BY <2>2
<1>. HIDE DEF u
<1>4. Promised(t, u)
  <2>1. Stage(t) \in {"sent", "read", "route"}
    BY DEF Stage
  <2>2. AsRequest(t) = Waiting("asked", "none")
    BY <2>1, RequestIs
  <2>3. AsRequest(u) = Waiting("over", AnswerOf(u)) /\ AnswerOf(u) \in {"lost", "400"}
    BY <1>1, <1>2, <1>3, RequestIs DEF AnswerOf
  <2>. QED  BY <2>2, <2>3, ContractBegins DEF Promised
<1>5. Excused(t, u)
  <2>1. a = "lost" => Unwritable(t)
    BY <1>1, RefusalUnwritable
  <2>2. LostByItself(t) => LostByItself(u)
    BY <1>3, LostStays DEF Same
  <2>3. t.gone \/ Unwritable(t) => LostByItself(t)
    BY DEF LostByItself
  <2>. QED  BY <1>3, <2>1, <2>2, <2>3 DEF Excused
<1>6. Uncounted(t, u)
  BY <1>1, <1>3 DEF Uncounted, InMessages, InHops, OkAnswers
<1>7. Follows(t, u)
  BY <1>3, SameExtends DEF Follows, Unbegun, Same
<1>8. Regular(t, u)
  BY <1>4, <1>5, <1>6, <1>7 DEF Regular
<1>. QED  BY <1>8 DEF u

(* The steps of the segment. *)
LEMMA SpinRegular ==
  ASSUME env \in Envs, NEW t \in Threads, ThreadInv(t), t.pc = "steps", ~AllStepsDone(t),
         ~StepList(t)[t.k].nested
  PROVE  Regular(t, [Begin(t, "step") EXCEPT !.pc = "spin"])
<1>. DEFINE v == Begin(t, "step")
            u == [v EXCEPT !.pc = "spin"]
<1>1. u \in Threads /\ ThreadInv(u)
  BY SpinKeeps
<1>2. /\ v \in Threads /\ v.body = t.body /\ v.missed = t.missed /\ v.answer = t.answer
      /\ v.k = t.k /\ Extends(t, v)
  BY BeginIs, BeginExtends
<1>. HIDE DEF v
<1>3. /\ u.pc = "spin" /\ u.k = t.k /\ u.body = t.body /\ u.missed = t.missed
      /\ u.answer = t.answer /\ u.open = v.open /\ u.sent = v.sent
  BY <1>2 DEF Threads
<1>. HIDE DEF u
<1>4. Stage(t) \in Working /\ Stage(u) \in Working /\ (Asks(t) <=> Asks(u))
  BY <1>3 DEF Stage, Working, Asks
<1>5. Extends(t, u)
  BY <1>2, <1>3, SameExtends, ExtendsOn
<1>6. t.answer = "none"
  BY <1>4, AtWork
<1>7. Regular(t, u)
  BY <1>1, <1>3, <1>4, <1>5, <1>6, QuietRegular DEF Unbegun
<1>. QED  BY <1>7 DEF u, v

LEMMA NoPeerRegular ==
  ASSUME env \in Envs, NEW t \in Threads, ThreadInv(t), t.pc = "steps", ~AllStepsDone(t),
         ~PeerUrl(StepList(t)[t.k].route[1].id), NEW a \in {"502", "lost"},
         a = "lost" => StepList(t)[t.k].route[1].id \in Foreign
  PROVE  Regular(t, Leaves(Begin(t, "step"), a))
<1>. DEFINE v == Begin(t, "step")
<1>1. ThreadInv(Leaves(v, a))
  BY NoPeerKeeps
<1>2. /\ v \in Threads /\ v.body = t.body /\ v.missed = t.missed /\ v.gone = t.gone
      /\ v.k = t.k /\ Extends(t, v)
  BY BeginIs, BeginExtends
<1>. HIDE DEF v
<1>3. Stage(t) \in Working /\ t.k # 0
  BY BetweenSteps DEF Stage, Working
<1>4. a = "lost" => Unwritable(t)
  BY <1>3 DEF Unwritable, NextPeer
<1>5. Regular(t, Leaves(v, a))
  BY <1>1, <1>2, <1>3, <1>4, LeavesRegular
<1>. QED  BY <1>5 DEF v

LEMMA PostNestedRegular ==
  ASSUME env \in Envs, NEW t \in Threads, ThreadInv(t), t.pc = "steps", ~AllStepsDone(t),
         StepList(t)[t.k].nested
  PROVE  Regular(t, Posts(Begin(Begin(t, "step"), "client")))
<1>. DEFINE v == Begin(t, "step")
            w == Begin(v, "client")
<1>1. ThreadInv(Posts(w))
  BY PostNestedKeeps
<1>2. /\ v \in Threads /\ v.body = t.body /\ v.missed = t.missed /\ v.answer = t.answer
      /\ v.k = t.k /\ Extends(t, v)
  BY BeginIs, BeginExtends
<1>. HIDE DEF v
<1>3. /\ w \in Threads /\ w.body = t.body /\ w.missed = t.missed /\ w.answer = t.answer
      /\ w.k = t.k /\ Extends(t, w)
  BY <1>2, BeginIs, BeginExtends, ExtendsOn
<1>4. Complete => Len(w.open) # 0
  BY <1>2, BeginOpens
<1>. HIDE DEF w
<1>5. Stage(t) \in Working /\ ~Asks(t)
  BY DEF Stage, Working, Asks
<1>6. Regular(t, Posts(w))
  BY <1>1, <1>3, <1>4, <1>5, AtWork, PostsRegular
<1>. QED  BY <1>6 DEF w, v

LEMMA SpunRegular ==
  ASSUME env \in Envs, NEW t \in Threads, ThreadInv(t), t.pc = "spin"
  PROVE  Regular(t, Ends([t EXCEPT !.k = @ + 1], 2, "steps"))
<1>. DEFINE v == [t EXCEPT !.k = @ + 1]
<1>1. ThreadInv(Ends(v, 2, "steps"))
  BY SpunKeeps
<1>2. Stage(t) \in Working /\ ~AllStepsDone(t)
  BY DEF ThreadInv, Placed, Stage, Working
<1>3. /\ v \in Threads /\ v.k = t.k + 1 /\ v.body = t.body /\ v.answer = t.answer
      /\ v.missed = t.missed /\ v.open = t.open /\ v.sent = t.sent
  BY DEF Threads
<1>4. t.answer = "none"
  BY <1>2, AtWork
<1>. HIDE DEF v
<1>5. Regular(t, Ends(v, 2, "steps"))
  BY <1>1, <1>2, <1>3, <1>4, EndsRegular
<1>. QED  BY <1>5 DEF v

LEMMA StepsEndRegular ==
  ASSUME env \in Envs, NEW t \in Threads, ThreadInv(t), t.pc = "steps", AllStepsDone(t)
  PROVE  Regular(t, Ends(t, 1, "mark"))
<1>1. ThreadInv(Ends(t, 1, "mark"))
  BY StepsEndKeeps
<1>2. Stage(t) \in Working /\ ~Asks(t)
  BY DEF Stage, Working, Asks
<1>. QED  BY <1>1, <1>2, AtWork, EndsRegular

(* All steps are done. *)
LEMMA LastReplyRegular ==
  ASSUME env \in Envs, NEW t \in Threads, ThreadInv(t), t.pc = "mark", LastHop(t.body)
  PROVE  Regular(t, [t EXCEPT !.pc = "reply"])
<1>. DEFINE u == [t EXCEPT !.pc = "reply"]
<1>1. u \in Threads /\ ThreadInv(u)
  BY LastReplyKeeps
<1>2. /\ u.pc = "reply" /\ u.k = t.k /\ u.body = t.body /\ u.missed = t.missed
      /\ u.answer = t.answer /\ u.open = t.open /\ u.sent = t.sent
  BY DEF Threads
<1>. HIDE DEF u
<1>3. Stage(t) \in Working /\ Stage(u) \in Working /\ (Asks(t) <=> Asks(u))
  BY <1>2 DEF Stage, Working, Asks
<1>4. t.answer = "none"
  BY <1>3, AtWork
<1>5. Regular(t, u)
  BY <1>1, <1>2, <1>3, <1>4, SameExtends, QuietRegular DEF Unbegun
<1>. QED  BY <1>5 DEF u

LEMMA ForwardRegular ==
  ASSUME env \in Envs, NEW t \in Threads, ThreadInv(t), t.pc = "mark", ~LastHop(t.body)
  PROVE  Regular(t, Posts(Begin(t, "client")))
<1>. DEFINE w == Begin(t, "client")
<1>1. ThreadInv(Posts(w))
  BY ForwardKeeps
<1>2. /\ w \in Threads /\ w.body = t.body /\ w.missed = t.missed /\ w.answer = t.answer
      /\ w.k = t.k /\ Extends(t, w)
  BY BeginIs, BeginExtends
<1>3. Complete => Len(w.open) # 0
  BY BeginOpens
<1>. HIDE DEF w
<1>4. Stage(t) \in Working /\ ~Asks(t)
  BY DEF Stage, Working, Asks
<1>5. Regular(t, Posts(w))
  BY <1>1, <1>2, <1>3, <1>4, AtWork, PostsRegular
<1>. QED  BY <1>5 DEF w

LEMMA MarkRefusesRegular ==
  ASSUME env \in Envs, NEW t \in Threads, ThreadInv(t), t.pc = "mark", NEW a,
         \/ a = "lost" /\ ~t.body.counter
         \/ a = "lost" /\ NextId(t.body) \in Foreign /\ ~PeerUrl(NextId(t.body))
         \/ a = "400" /\ t.body.counter /\ ~LastHop(t.body) /\ ~Named(NextId(t.body))
         \/ a = "502" /\ ~PeerUrl(NextId(t.body))
  PROVE  Regular(t, Leaves(t, a))
<1>1. ThreadInv(Leaves(t, a))
  BY MarkRefusesKeeps
<1>2. Stage(t) \in Working
  BY DEF Stage, Working
<1>3. a \in {"400", "502", "lost"}
  OBVIOUS
<1>4. AllStepsDone(t) /\ t.k # 0
  BY AtTheMark
<1>5. Extends(t, t)
  BY SameExtends
<1>6. a = "lost" => ~t.body.counter \/ Unwritable(t)
  BY <1>4 DEF Unwritable, NextPeer
<1>. QED  BY <1>1, <1>2, <1>3, <1>4, <1>5, <1>6, LeavesRegular

LEMMA NextStep ==
  ASSUME NEW v \in Threads
  PROVE  LET w == [v EXCEPT !.k = @ + 1]
         IN  /\ w \in Threads /\ w.k = v.k + 1 /\ w.body = v.body /\ w.answer = v.answer
             /\ w.missed = v.missed /\ w.open = v.open /\ w.sent = v.sent
BY DEF Threads

(* A peer has answered, or has not. *)
LEMMA ResumedRegular ==
  ASSUME env \in Envs, NEW t \in Threads, ThreadInv(t), t.pc = "wait",
         NEW o \in {"200", "error", "torn"}
  PROVE  Regular(t, Resumed([t EXCEPT !.heard = o], o))
<1>. DEFINE v == [t EXCEPT !.heard = o]
<1>0. ThreadInv(Resumed(v, o))
  BY ResumedKeeps
<1>1. /\ v \in Threads /\ v.body = t.body /\ v.open = t.open /\ v.sent = t.sent
      /\ v.heard = o /\ v.k = t.k /\ v.answer = t.answer /\ v.gone = t.gone
      /\ v.missed = t.missed
  BY DEF Threads
<1>2. t.answer = "none" /\ (AllStepsDone(t) => ~LastHop(t.body))
  BY DEF ThreadInv, Placed, Counted, Stage, Working
<1>3. Stage(t) \in Working /\ Asks(t)
  BY DEF Stage, Working, Asks
<1>4. Extends(t, v)
  BY <1>1, SameExtends
<1>5. AllStepsDone(v) <=> AllStepsDone(t)
  BY <1>1 DEF AllStepsDone, StepList
<1>. HIDE DEF v
<1>6. CASE o = "error"
  <2>1. Resumed(v, o) = Leaves(v, "502")
    BY <1>6 DEF Resumed
  <2>. QED  BY <1>0, <1>1, <1>2, <1>3, <1>4, <2>1, LeavesRegular DEF v
<1>7. CASE o = "torn"
  <2>1. Resumed(v, o) = Leaves(v, "lost")
    BY <1>7 DEF Resumed
  <2>. QED  BY <1>0, <1>1, <1>2, <1>3, <1>4, <1>7, <2>1, LeavesRegular DEF v
<1>8. CASE o = "200" /\ ~AllStepsDone(t)
  <2>. DEFINE w == [v EXCEPT !.k = @ + 1]
  <2>1. Resumed(v, o) = Ends(w, 2, "steps")
    BY <1>5, <1>8 DEF Resumed
  <2>2. /\ w \in Threads /\ w.k = v.k + 1 /\ w.body = v.body /\ w.answer = v.answer
        /\ w.missed = v.missed /\ w.open = v.open /\ w.sent = v.sent
    BY <1>1, NextStep, Zenon
  <2>. HIDE DEF w
  <2>3. Regular(t, Ends(w, 2, "steps"))
    BY <1>0, <1>1, <1>2, <1>3, <1>8, <2>1, <2>2, EndsRegular
  <2>. QED  BY <2>1, <2>3 DEF v
<1>9. CASE o = "200" /\ AllStepsDone(t)
  <2>1. Resumed(v, o) = Ends(v, 1, "reply")
    BY <1>5, <1>9 DEF Resumed
  <2>2. Regular(t, Ends(v, 1, "reply"))
    BY <1>0, <1>1, <1>2, <1>3, <1>5, <1>9, <2>1, EndsRegular
  <2>. QED  BY <2>1, <2>2 DEF v
<1>. QED  BY <1>6, <1>7, <1>8, <1>9

(* The 200 is written, and perhaps nobody is there. *)
LEMMA ReplyRegular ==
  ASSUME env \in Envs, NEW t \in Threads, ThreadInv(t), t.pc = "reply", NEW a \in OkAnswers
  PROVE  Regular(t, [t EXCEPT !.pc = "count", !.answer = a])
<1>. DEFINE u == [t EXCEPT !.pc = "count", !.answer = a]
<1>1. u \in Threads /\ ThreadInv(u)
  BY ReplyKeeps
<1>2. /\ u.pc = "count" /\ u.k = t.k /\ u.body = t.body /\ u.missed = t.missed
      /\ u.answer = a /\ u.open = t.open /\ u.sent = t.sent
  BY DEF Threads
<1>. HIDE DEF u
<1>3. Stage(t) = "reply" /\ Stage(t) \in Working /\ AllStepsDone(t)
  BY <1>1, AtTheReply, CountsSteps DEF Stage, Working
<1>4. Promised(t, u)
  BY <1>1, <1>2, <1>3, ToldIs DEF OkAnswers
<1>5. Excused(t, u)
  BY <1>2 DEF Excused, OkAnswers
<1>6. Uncounted(t, u)
  BY <1>2, <1>3, AtWork DEF Uncounted, InMessages, InHops
<1>7. Follows(t, u)
  BY <1>2, SameExtends DEF Follows, Unbegun
<1>8. Regular(t, u)
  BY <1>4, <1>5, <1>6, <1>7 DEF Regular
<1>. QED  BY <1>8 DEF u

LEMMA UnsentRegular ==
  ASSUME env \in Envs, NEW t \in Threads, ThreadInv(t), t.pc = "reply", t.gone
  PROVE  Regular(t, Leaves(t, "lost"))
<1>1. ThreadInv(Leaves(t, "lost"))
  BY UnsentKeeps
<1>2. Stage(t) \in Working
  BY DEF Stage, Working
<1>3. Extends(t, t)
  BY SameExtends
<1>. QED  BY <1>1, <1>2, <1>3, LeavesRegular

-----------------------------------------------------------------------------
(* What one thread tells, in one step of the process.                      *)

Ordinary(r) ==
  \/ Connect(r) \/ ClientGone(r) \/ Accept(r) \/ Read(r) \/ Admit(r) \/ Step(r) \/ Spun(r)
  \/ StepsEnd(r) \/ Mark(r) \/ Hear(r) \/ Reply(r)

RegularStep(r) ==
  /\ Regular(thread[r], thread'[r])
  /\ \A q \in Reqs \ {r} : thread'[q] = thread[q]
  /\ tel' \in {tel, Logged(tel)}
  /\ env' = env /\ proc' = proc /\ code' = code /\ spans' = spans

LEMMA OneIsRegular ==
  ASSUME HandlersInv, NEW r \in Reqs, NEW u, NEW m, Goes(r, u, m),
         Regular(thread[r], u), m \in {tel, Logged(tel)}
  PROVE  RegularStep(r)
<1>1. /\ thread' = [thread EXCEPT ![r] = u] /\ tel' = m
      /\ env' = env /\ proc' = proc /\ code' = code /\ spans' = spans
  BY DEF Goes
<1>2. thread \in [Reqs -> Threads]
  BY DEF HandlersInv, TypeOK
<1>3. thread'[r] = u /\ \A q \in Reqs \ {r} : thread'[q] = thread[q]
  BY <1>1, <1>2
<1>. QED  BY <1>1, <1>3 DEF RegularStep

LEMMA ConnectIsRegular ==
  ASSUME HandlersInv, NEW r \in Reqs, Connect(r)
  PROVE  RegularStep(r)
<1>. DEFINE t == thread[r]
<1>1. PICK b \in Bodies[env] : Goes(r, [NoThread EXCEPT !.pc = "sent", !.body = b], tel)
  BY DEF Connect
<1>. DEFINE u == [NoThread EXCEPT !.pc = "sent", !.body = b]
<1>2. t \in Threads /\ ThreadInv(t) /\ env \in Envs /\ t.pc = "none"
  BY DEF HandlersInv, TypeOK, Connect
<1>. HIDE DEF t
<1>3. Regular(t, u)
  BY <1>2, ConnectRegular
<1>4. Goes(r, u, tel)
  BY <1>1
<1>. HIDE DEF u
<1>5. Regular(thread[r], u)
  BY <1>3 DEF t
<1>. QED  BY <1>4, <1>5, OneIsRegular

LEMMA GoneIsRegular ==
  ASSUME HandlersInv, NEW r \in Reqs, ClientGone(r)
  PROVE  RegularStep(r)
<1>. DEFINE t == thread[r]
            u == [t EXCEPT !.gone = TRUE]
<1>1. /\ t \in Threads /\ ThreadInv(t) /\ env \in Envs /\ Goes(r, u, tel)
      /\ t.pc \notin {"none", "over"} /\ t.answer = "none"
  BY DEF HandlersInv, TypeOK, ClientGone
<1>. HIDE DEF t
<1>2. Regular(t, u)
  BY <1>1, GoneRegular
<1>. HIDE DEF u
<1>3. Regular(thread[r], u)
  BY <1>2 DEF t
<1>. QED  BY <1>1, <1>3, OneIsRegular

LEMMA AcceptIsRegular ==
  ASSUME HandlersInv, NEW r \in Reqs, Accept(r)
  PROVE  RegularStep(r)
<1>. DEFINE t == thread[r]
            u == [t EXCEPT !.pc = "read"]
<1>1. /\ t \in Threads /\ ThreadInv(t) /\ env \in Envs /\ Goes(r, u, tel)
      /\ t.pc \in {"sent", "read"}
  BY DEF HandlersInv, TypeOK, Accept
<1>. HIDE DEF t
<1>2. Regular(t, u)
  BY <1>1, UnbegunRegular
<1>. HIDE DEF u
<1>3. Regular(thread[r], u)
  BY <1>2 DEF t
<1>. QED  BY <1>1, <1>3, OneIsRegular

LEMMA ReadIsRegular ==
  ASSUME HandlersInv, NEW r \in Reqs, Read(r)
  PROVE  RegularStep(r)
<1>. DEFINE t == thread[r]
            answer == IF t.body.form = "raises" \/ t.gone THEN "lost" ELSE "400"
            u == [t EXCEPT !.pc = "route"]
            v == [t EXCEPT !.pc = "over", !.answer = answer]
<1>1. /\ t \in Threads /\ ThreadInv(t) /\ env \in Envs /\ t.pc = "read"
      /\ IF t.body.form = "object" THEN Goes(r, u, Logged(tel)) ELSE Goes(r, v, tel)
  BY DEF HandlersInv, TypeOK, Read
<1>2. /\ answer \in {"lost", "400"}
      /\ answer = "lost" => t.body.form = "raises" \/ t.gone
  OBVIOUS
<1>. HIDE DEF t, answer
<1>3. CASE t.body.form = "object"
  <2>1. Regular(t, u)
    BY <1>1, <1>3, UnbegunRegular
  <2>2. Goes(r, u, Logged(tel))
    BY <1>1, <1>3
  <2>. HIDE DEF u
  <2>3. Regular(thread[r], u)
    BY <2>1 DEF t
  <2>. QED  BY <2>2, <2>3, OneIsRegular
<1>4. CASE t.body.form # "object"
  <2>1. Regular(t, v)
    BY <1>1, <1>2, <1>4, UnreadRegular
  <2>2. Goes(r, v, tel)
    BY <1>1, <1>4
  <2>. HIDE DEF v
  <2>3. Regular(thread[r], v)
    BY <2>1 DEF t
  <2>. QED  BY <2>2, <2>3, OneIsRegular
<1>. QED  BY <1>3, <1>4

LEMMA AdmitIsRegular ==
  ASSUME HandlersInv, NEW r \in Reqs, Admit(r)
  PROVE  RegularStep(r)
<1>. DEFINE t == thread[r]
            ok == Admitted(t)
            a == IF RefusalRaises(t) THEN "lost" ELSE "400"
            u == [Begin(Begin(t, "hop"), "processing") EXCEPT !.pc = "steps", !.k = 1]
            v == Leaves(t, a)
<1>1. /\ t \in Threads /\ ThreadInv(t) /\ t.pc = "route" /\ env \in Envs
      /\ Goes(r, IF ok THEN u ELSE v, tel)
  BY DEF HandlersInv, TypeOK, Admit
<1>2. /\ ok => LegacyAdmissible(WorkerId, t.body) \/ Admissible(WorkerId, t.body)
      /\ a \in {"400", "lost"} /\ (a = "lost" => RefusalRaises(t))
  BY DEF Admitted
<1>. HIDE DEF t, ok, a
<1>3. CASE ok
  <2>1. Regular(t, u)
    BY <1>1, <1>2, <1>3, AdmitRegular
  <2>. HIDE DEF u
  <2>2. Goes(r, u, tel)
    BY <1>1, <1>3
  <2>3. Regular(thread[r], u)
    BY <2>1 DEF t
  <2>. QED  BY <2>2, <2>3, OneIsRegular
<1>4. CASE ~ok
  <2>1. Regular(t, v)
    BY <1>1, <1>2, RefuseRegular
  <2>. HIDE DEF u, v
  <2>2. Goes(r, v, tel)
    BY <1>1, <1>4
  <2>3. Regular(thread[r], v)
    BY <2>1 DEF t
  <2>. QED  BY <2>2, <2>3, OneIsRegular
<1>. QED  BY <1>3, <1>4

LEMMA StepIsRegular ==
  ASSUME HandlersInv, NEW r \in Reqs, Step(r)
  PROVE  RegularStep(r)
<1>. DEFINE t == thread[r]
            s == StepList(t)[t.k]
            begun == Begin(t, "step")
            u == [begun EXCEPT !.pc = "spin"]
            a == NoPeerUrl(s.route[1].id)
            v == Leaves(begun, a)
            w == Posts(Begin(begun, "client"))
<1>1. /\ t \in Threads /\ ThreadInv(t) /\ t.pc = "steps" /\ env \in Envs
      /\ ~AllStepsDone(t)
      /\ IF ~s.nested THEN Goes(r, u, tel)
         ELSE IF ~PeerUrl(s.route[1].id) THEN Goes(r, v, tel)
         ELSE Goes(r, w, Logged(tel))
  BY DEF HandlersInv, TypeOK, Step
<1>. HIDE DEF t
<1>3. CASE ~s.nested
  <2>1. Regular(t, u)
    BY <1>1, <1>3, SpinRegular
  <2>2. Goes(r, u, tel)
    BY <1>1, <1>3
  <2>. HIDE DEF u
  <2>3. Regular(thread[r], u)
    BY <2>1 DEF t
  <2>. QED  BY <2>2, <2>3, OneIsRegular
<1>4. CASE s.nested /\ ~PeerUrl(s.route[1].id)
  <2>0. a \in {"502", "lost"} /\ (a = "lost" => s.route[1].id \in Foreign)
    BY DEF NoPeerUrl
  <2>. HIDE DEF a
  <2>1. Regular(t, v)
    BY <1>1, <1>4, <2>0, NoPeerRegular
  <2>2. Goes(r, v, tel)
    BY <1>1, <1>4
  <2>. HIDE DEF v
  <2>3. Regular(thread[r], v)
    BY <2>1 DEF t
  <2>. QED  BY <2>2, <2>3, OneIsRegular
<1>5. CASE s.nested /\ PeerUrl(s.route[1].id)
  <2>1. Regular(t, w)
    BY <1>1, <1>5, PostNestedRegular
  <2>2. Goes(r, w, Logged(tel))
    BY <1>1, <1>5
  <2>. HIDE DEF w
  <2>3. Regular(thread[r], w)
    BY <2>1 DEF t
  <2>. QED  BY <2>2, <2>3, OneIsRegular
<1>. QED  BY <1>3, <1>4, <1>5

LEMMA SpunIsRegular ==
  ASSUME HandlersInv, NEW r \in Reqs, Spun(r)
  PROVE  RegularStep(r)
<1>. DEFINE t == thread[r]
            u == Ends([t EXCEPT !.k = @ + 1], 2, "steps")
<1>1. /\ t \in Threads /\ ThreadInv(t) /\ env \in Envs /\ t.pc = "spin" /\ Goes(r, u, tel)
  BY DEF HandlersInv, TypeOK, Spun
<1>. HIDE DEF t
<1>2. Regular(t, u)
  BY <1>1, SpunRegular
<1>. HIDE DEF u
<1>3. Regular(thread[r], u)
  BY <1>2 DEF t
<1>. QED  BY <1>1, <1>3, OneIsRegular

LEMMA StepsEndIsRegular ==
  ASSUME HandlersInv, NEW r \in Reqs, StepsEnd(r)
  PROVE  RegularStep(r)
<1>. DEFINE t == thread[r]
            u == Ends(t, 1, "mark")
<1>1. /\ t \in Threads /\ ThreadInv(t) /\ env \in Envs
      /\ t.pc = "steps" /\ AllStepsDone(t) /\ Goes(r, u, tel)
  BY DEF HandlersInv, TypeOK, StepsEnd
<1>. HIDE DEF t
<1>2. Regular(t, u)
  BY <1>1, StepsEndRegular
<1>. HIDE DEF u
<1>3. Regular(thread[r], u)
  BY <1>2 DEF t
<1>. QED  BY <1>1, <1>3, OneIsRegular

LEMMA MarkIsRegular ==
  ASSUME HandlersInv, NEW r \in Reqs, Mark(r)
  PROVE  RegularStep(r)
<1>. DEFINE t == thread[r]
            reply == [t EXCEPT !.pc = "reply"]
            forward == Posts(Begin(t, "client"))
<1>1. /\ t \in Threads /\ ThreadInv(t) /\ env \in Envs /\ t.pc = "mark"
      /\ IF ~t.body.counter THEN Goes(r, Leaves(t, "lost"), tel)
         ELSE IF LastHop(t.body) THEN Goes(r, reply, Logged(tel))
         ELSE IF ~Named(NextId(t.body)) THEN Goes(r, Leaves(t, "400"), tel)
         ELSE IF ~PeerUrl(NextId(t.body))
              THEN Goes(r, Leaves(t, NoPeerUrl(NextId(t.body))), tel)
         ELSE Goes(r, forward, Logged(tel))
  BY DEF HandlersInv, TypeOK, Mark
<1>. HIDE DEF t
<1>3. CASE t.body.counter /\ LastHop(t.body)
  <2>1. Regular(t, reply)
    BY <1>1, <1>3, LastReplyRegular
  <2>2. Goes(r, reply, Logged(tel))
    BY <1>1, <1>3
  <2>. HIDE DEF reply
  <2>3. Regular(thread[r], reply)
    BY <2>1 DEF t
  <2>. QED  BY <2>2, <2>3, OneIsRegular
<1>4. CASE /\ t.body.counter /\ ~LastHop(t.body) /\ Named(NextId(t.body))
           /\ PeerUrl(NextId(t.body))
  <2>1. Regular(t, forward)
    BY <1>1, <1>4, ForwardRegular
  <2>2. Goes(r, forward, Logged(tel))
    BY <1>1, <1>4
  <2>. HIDE DEF forward
  <2>3. Regular(thread[r], forward)
    BY <2>1 DEF t
  <2>. QED  BY <2>2, <2>3, OneIsRegular
<1>5. CASE \/ ~t.body.counter
           \/ /\ t.body.counter /\ ~LastHop(t.body)
              /\ ~Named(NextId(t.body)) \/ ~PeerUrl(NextId(t.body))
  <2>1. PICK a : /\ \/ a = "lost" /\ ~t.body.counter
                    \/ a = "lost" /\ NextId(t.body) \in Foreign /\ ~PeerUrl(NextId(t.body))
                    \/ a = "400" /\ t.body.counter /\ ~LastHop(t.body) /\ ~Named(NextId(t.body))
                    \/ a = "502" /\ ~PeerUrl(NextId(t.body))
                 /\ Goes(r, Leaves(t, a), tel)
    BY <1>1, <1>5 DEF NoPeerUrl
  <2>. DEFINE u == Leaves(t, a)
  <2>2. Regular(t, u)
    BY <1>1, <2>1, MarkRefusesRegular
  <2>3. Goes(r, u, tel)
    BY <2>1
  <2>. HIDE DEF u
  <2>4. Regular(thread[r], u)
    BY <2>2 DEF t
  <2>. QED  BY <2>3, <2>4, OneIsRegular
<1>. QED  BY <1>3, <1>4, <1>5

LEMMA HearIsRegular ==
  ASSUME HandlersInv, NEW r \in Reqs, Hear(r)
  PROVE  RegularStep(r)
<1>. DEFINE t == thread[r]
<1>1. t \in Threads /\ ThreadInv(t) /\ env \in Envs /\ t.pc = "wait"
  BY DEF HandlersInv, TypeOK, Hear
<1>2. PICK o \in {"200", "error", "torn"} : Goes(r, Resumed([t EXCEPT !.heard = o], o), tel)
  BY DEF Hear
<1>. HIDE DEF t
<1>. DEFINE u == Resumed([t EXCEPT !.heard = o], o)
<1>3. Regular(t, u)
  BY <1>1, ResumedRegular
<1>4. Goes(r, u, tel)
  BY <1>2
<1>. HIDE DEF u
<1>5. Regular(thread[r], u)
  BY <1>3 DEF t
<1>. QED  BY <1>4, <1>5, OneIsRegular

LEMMA ReplyIsRegular ==
  ASSUME HandlersInv, NEW r \in Reqs, Reply(r)
  PROVE  RegularStep(r)
<1>. DEFINE t == thread[r]
<1>1. /\ t \in Threads /\ ThreadInv(t) /\ env \in Envs /\ t.pc = "reply"
      /\ \/ \E a \in OkAnswers : Goes(r, [t EXCEPT !.pc = "count", !.answer = a], tel)
         \/ t.gone /\ Goes(r, Leaves(t, "lost"), tel)
  BY DEF HandlersInv, TypeOK, Reply, OkAnswers
<1>. HIDE DEF t
<1>2. ASSUME NEW a \in OkAnswers, Goes(r, [t EXCEPT !.pc = "count", !.answer = a], tel)
      PROVE  RegularStep(r)
  <2>. DEFINE u == [t EXCEPT !.pc = "count", !.answer = a]
  <2>1. Regular(t, u)
    BY <1>1, ReplyRegular
  <2>2. Goes(r, u, tel)
    BY <1>2
  <2>. HIDE DEF u
  <2>3. Regular(thread[r], u)
    BY <2>1 DEF t
  <2>. QED  BY <2>2, <2>3, OneIsRegular
<1>3. ASSUME t.gone, Goes(r, Leaves(t, "lost"), tel)
      PROVE  RegularStep(r)
  <2>. DEFINE u == Leaves(t, "lost")
  <2>1. Regular(t, u)
    BY <1>1, <1>3, UnsentRegular
  <2>2. Goes(r, u, tel)
    BY <1>3
  <2>. HIDE DEF u
  <2>3. Regular(thread[r], u)
    BY <2>1 DEF t
  <2>. QED  BY <2>2, <2>3, OneIsRegular
<1>. QED  BY <1>1, <1>2, <1>3

LEMMA OrdinaryIsRegular ==
  ASSUME HandlersInv, NEW r \in Reqs, Ordinary(r)
  PROVE  RegularStep(r)
BY ConnectIsRegular, GoneIsRegular, AcceptIsRegular, ReadIsRegular, AdmitIsRegular,
   StepIsRegular, SpunIsRegular, StepsEndIsRegular, MarkIsRegular, HearIsRegular,
   ReplyIsRegular DEF Ordinary

-----------------------------------------------------------------------------
(* The contract of a worker.                                               *)

LEMMA CountPromised ==
  ASSUME env \in Envs, NEW t \in Threads, ThreadInv(t), t.pc = "count"
  PROVE  Promised(t, Ends(t, 0, "finally"))
<1>. DEFINE u == Ends(t, 0, "finally")
<1>1. u \in Threads /\ ThreadInv(u)
  BY CountKeeps
<1>2. Same(t, u) /\ u.k = t.k /\ u.answer = t.answer
  BY EndsAre DEF Goals
<1>3. t.answer # "none"
  BY DEF ThreadInv, Placed, Stage, OkAnswers
<1>. HIDE DEF u
<1>4. AsRequest(u) = AsRequest(t)
  BY <1>1, <1>2, <1>3, UntoldIs DEF Same
<1>. QED  BY <1>4 DEF Promised, u

LEMMA FinallyPromised ==
  ASSUME env \in Envs, NEW t \in Threads, ThreadInv(t), t.pc = "finally"
  PROVE  Promised(t, [t EXCEPT !.pc = "over"])
<1>. DEFINE u == [t EXCEPT !.pc = "over"]
<1>1. u \in Threads /\ ThreadInv(u)
  BY FinallyKeeps
<1>2. u.body = t.body /\ u.k = t.k /\ u.answer = t.answer
  BY DEF Threads
<1>3. t.answer # "none"
  BY DEF ThreadInv, Placed, Stage
<1>. HIDE DEF u
<1>4. AsRequest(u) = AsRequest(t)
  BY <1>1, <1>2, <1>3, UntoldIs
<1>. QED  BY <1>4 DEF Promised, u

LEMMA EndSpanPromised ==
  ASSUME env \in Envs, NEW t \in Threads, ThreadInv(t), t.pc = "ending"
  PROVE  LET u == Settled([t EXCEPT !.open = Front(@)])
         IN  Promised(t, u) /\ Promised(t, [u EXCEPT !.missed = TRUE])
<1>. DEFINE u == Settled([t EXCEPT !.open = Front(@)])
            w == [u EXCEPT !.missed = TRUE]
<1>1. /\ u \in Threads /\ ThreadInv(u) /\ u.body = t.body /\ u.k = t.k /\ u.answer = t.answer
      /\ Stage(u) = Stage(t) /\ u.pc = IF Len(u.open) <= t.keep THEN t.then ELSE "ending"
  BY EndSpanKeeps
<1>. HIDE DEF u
<1>2. t.then \in Goals /\ Stage(t) = t.then
  BY DEF ThreadInv, Deep, Stage, Goals
<1>3. Asks(u) <=> Asks(t)
  BY <1>1, <1>2 DEF Asks, Goals
<1>4. t.answer # "none" \/ Stage(t) \in Working
  BY <1>2 DEF ThreadInv, Placed, Goals, Working
<1>5. AsRequest(u) = AsRequest(t)
  BY <1>1, <1>3, <1>4, UntoldIs
<1>6. w \in Threads /\ ThreadInv(w)
  BY <1>1, <1>2, MissedKeeps DEF Goals, Unbegun
<1>7. /\ w.body = u.body /\ w.k = u.k /\ w.answer = u.answer /\ w.pc = u.pc /\ w.then = u.then
  BY <1>1 DEF Threads
<1>. HIDE DEF w
<1>8. Stage(w) = Stage(u) /\ (Asks(w) <=> Asks(u))
  BY <1>7 DEF Stage, Asks
<1>9. AsRequest(w) = AsRequest(u)
  BY <1>1, <1>4, <1>6, <1>7, <1>8, UntoldIs
<1>. QED  BY <1>5, <1>9 DEF Promised, u, w

LEMMA DeadPromised ==
  ASSUME env \in Envs, NEW t \in Threads, ThreadInv(t)
  PROVE  Promised(t, Dead(t))
<1>. DEFINE a == IF t.answer = "none" THEN "lost" ELSE t.answer
            w == [t EXCEPT !.pc = "over", !.answer = a, !.missed = TRUE]
            u == Dead(t)
<1>1. CASE t.pc \in {"none", "over"}
  BY <1>1 DEF Dead, Promised
<1>2. CASE t.pc \notin {"none", "over"}
  <2>1. u = w
    BY <1>2 DEF Dead
  <2>2. u \in Threads /\ ThreadInv(u)
    BY DeadKeeps
  <2>3. w.body = t.body /\ w.k = t.k /\ w.answer = a
    BY DEF Threads
  <2>. HIDE DEF w, u
  <2>4. CASE t.answer # "none"
    <3>1. AsRequest(u) = AsRequest(t)
      BY <2>1, <2>2, <2>3, <2>4, UntoldIs
    <3>. QED  BY <3>1 DEF Promised, u
  <2>5. CASE t.answer = "none"
    <3>1. Stage(t) \in {"sent", "read", "route"} \/ Stage(t) \in Working
      BY <1>2, <2>5 DEF ThreadInv, Placed, Deep, Stage, Working, Threads, OkAnswers
    <3>2. CASE Stage(t) \in {"sent", "read", "route"}
      <4>1. AsRequest(t) = Waiting("asked", "none")
        BY <3>2, RequestIs
      <4>2. t.k = 0
        BY <3>2 DEF ThreadInv, Placed, Unbegun
      <4>3. AsRequest(u) = Waiting("over", AnswerOf(u)) /\ AnswerOf(u) = "lost"
        BY <2>1, <2>2, <2>3, <2>5, <4>2, RequestIs DEF AnswerOf
      <4>. QED  BY <4>1, <4>3, ContractBegins DEF Promised, u
    <3>3. CASE Stage(t) \in Working
      <4>1. Promised(t, u)
        BY <2>1, <2>2, <2>3, <2>5, <3>3, ToldIs
      <4>. QED  BY <4>1 DEF u
    <3>. QED  BY <3>1, <3>2, <3>3
  <2>. QED  BY <2>4, <2>5
<1>. QED  BY <1>1, <1>2

(* Every request, in every step of the process. *)
LEMMA OnePromised ==
  ASSUME HandlersInv, NEW r \in Reqs, NEW u, thread' = [thread EXCEPT ![r] = u],
         Promised(thread[r], u), NEW q \in Reqs
  PROVE  Promised(thread[q], thread'[q])
<1>1. thread \in [Reqs -> Threads]
  BY DEF HandlersInv, TypeOK
<1>2. thread'[q] = IF q = r THEN u ELSE thread[q]
  BY <1>1
<1>. QED  BY <1>2 DEF Promised

LEMMA WorksPromised ==
  ASSUME HandlersInv, NEW r \in Reqs, Connect(r) \/ Works(r) \/ Hear(r) \/ ClientGone(r),
         NEW q \in Reqs
  PROVE  Promised(thread[q], thread'[q])
<1>. DEFINE t == thread[r]
<1>0. t \in Threads /\ ThreadInv(t) /\ env \in Envs
  BY DEF HandlersInv, TypeOK
<1>. HIDE DEF t
<1>1. CASE Ordinary(r)
  <2>1. RegularStep(r)
    BY <1>1, OrdinaryIsRegular
  <2>2. CASE q = r
    BY <2>1, <2>2 DEF RegularStep, Regular
  <2>3. CASE q # r
    BY <2>1, <2>3 DEF RegularStep, Promised
  <2>. QED  BY <2>2, <2>3
<1>2. CASE Count(r)
  <2>. DEFINE u == Ends(t, 0, "finally")
  <2>1. t.pc = "count" /\ thread' = [thread EXCEPT ![r] = u]
    BY <1>2 DEF Count, Goes, t
  <2>2. Promised(t, u)
    BY <1>0, <2>1, CountPromised
  <2>. HIDE DEF u
  <2>. QED  BY <2>1, <2>2, OnePromised DEF t
<1>3. CASE Finally(r)
  <2>. DEFINE u == [t EXCEPT !.pc = "over"]
  <2>1. t.pc = "finally" /\ thread' = [thread EXCEPT ![r] = u]
    BY <1>3 DEF Finally, Goes, t
  <2>2. Promised(t, u)
    BY <1>0, <2>1, FinallyPromised
  <2>. HIDE DEF u
  <2>. QED  BY <2>1, <2>2, OnePromised DEF t
<1>4. CASE EndSpan(r)
  <2>. DEFINE u == Settled([t EXCEPT !.open = Front(@)])
              w == [u EXCEPT !.missed = TRUE]
  <2>1. /\ t.pc = "ending"
        /\ thread' = [thread EXCEPT ![r] = u] \/ thread' = [thread EXCEPT ![r] = w]
    BY <1>4 DEF EndSpan, t
  <2>2. Promised(t, u) /\ Promised(t, w)
    BY <1>0, <2>1, EndSpanPromised
  <2>. HIDE DEF u, w
  <2>. QED  BY <2>1, <2>2, OnePromised DEF t
<1>. QED  BY <1>1, <1>2, <1>3, <1>4 DEF Works, Ordinary

LEMMA NextPromised ==
  ASSUME HandlersInv, [Next]_vars, NEW q \in Reqs
  PROVE  Promised(thread[q], thread'[q])
<1>1. ASSUME thread' = thread
      PROVE  Promised(thread[q], thread'[q])
  BY <1>1 DEF Promised
<1>2. ASSUME thread'[q] \in {thread[q], Dead(thread[q])}
      PROVE  Promised(thread[q], thread'[q])
  <2>1. thread[q] \in Threads /\ ThreadInv(thread[q]) /\ env \in Envs
    BY DEF HandlersInv, TypeOK
  <2>2. Promised(thread[q], Dead(thread[q]))
    BY <2>1, DeadPromised
  <2>. QED  BY <1>2, <2>2 DEF Promised
<1>3. CASE Close \/ Exit \/ Kill
  <2>1. thread' = thread \/ thread'[q] \in {thread[q], Dead(thread[q])}
    BY <1>3 DEF Close, Exit, Kill
  <2>. QED  BY <1>1, <1>2, <2>1
<1>4. CASE Enter \/ Configure \/ LegacyConfigure \/ Bind \/ Interrupt \/ ExportTick
  BY <1>1, <1>4 DEF Enter, Configure, LegacyConfigure, Bind, Interrupt, ExportTick
<1>5. CASE UNCHANGED vars
  BY <1>1, <1>5 DEF vars
<1>6. ASSUME NEW r \in Reqs, Connect(r) \/ Works(r) \/ Hear(r) \/ ClientGone(r)
      PROVE  Promised(thread[q], thread'[q])
  BY <1>6, WorksPromised
<1>. QED  BY <1>3, <1>4, <1>5, <1>6 DEF Next, Runs, Rests

(* One process that serves many requests at a time keeps, for each of them, the
   contract of a worker - refuse it untouched or execute its steps in order, ask for
   one thing at a time, and say 200 only when all is done - whatever the others do,
   whatever clients, peers and exporters do, and when it is stopped or killed: the
   Handler class of run_server, its ThreadingHTTPServer and the way out. *)
THEOREM PythonKeepsContract ==
  Spec => KeepsContract
<1>. DEFINE R == [r \in Reqs |-> AsRequest(thread[r])]
<1>1. Init => Contract!Init
  <2>. SUFFICES ASSUME Init PROVE Contract!Init
    OBVIOUS
  <2>1. thread = [r \in Reqs |-> NoThread] /\ env \in Envs
    BY DEF Init
  <2>2. NoThread \in Threads /\ ThreadInv(NoThread) /\ NoThread.pc = "none"
    BY <2>1, NoThreadInv DEF NoThread
  <2>3. AsRequest(NoThread) = Contract!Unasked
    BY <2>2, RequestIs, AskedIs
  <2>. QED  BY <2>1, <2>3 DEF Contract!Init
<1>2. HandlersInv /\ [Next]_vars => [Contract!Next]_R
  <2>. SUFFICES ASSUME HandlersInv, [Next]_vars PROVE Contract!Next
    OBVIOUS
  <2>1. \A r \in Reqs : R'[r] = AsRequest(thread'[r])
    BY DEF AsRequest, StepList
  <2>2. \A r \in Reqs : R'[r] = R[r] \/ Contract!Moves(R[r], R'[r])
    BY <2>1, NextPromised DEF Promised
  <2>3. DOMAIN R' = Reqs
    OBVIOUS
  <2>. HIDE DEF R
  <2>. QED  BY <2>2, <2>3 DEF Contract!Next, R
<1>. QED  BY <1>1, <1>2, HandlersAreWell, PTL DEF Spec, KeepsContract, Contract!Spec

-----------------------------------------------------------------------------
(* Why a request gets the answer it gets.                                  *)

LEMMA CountExcused ==
  ASSUME NEW t \in Threads
  PROVE  Excused(t, Ends(t, 0, "finally"))
<1>. DEFINE u == Ends(t, 0, "finally")
<1>1. Same(t, u) /\ u.answer = t.answer /\ u.k = t.k
  BY EndsAre DEF Goals
<1>. HIDE DEF u
<1>2. Excused(t, u)
  BY <1>1, LostStays DEF Excused, Same
<1>. QED  BY <1>2 DEF u

LEMMA EndSpanExcused ==
  ASSUME NEW t \in Threads, ThreadInv(t), t.pc = "ending"
  PROVE  LET u == Settled([t EXCEPT !.open = Front(@)])
         IN  Excused(t, u) /\ Excused(t, [u EXCEPT !.missed = TRUE])
<1>. DEFINE u == Settled([t EXCEPT !.open = Front(@)])
            w == [u EXCEPT !.missed = TRUE]
<1>1. /\ u \in Threads /\ u.body = t.body /\ u.answer = t.answer /\ u.gone = t.gone
      /\ u.heard = t.heard /\ u.k = t.k
  BY EndSpanKeeps
<1>. HIDE DEF u
<1>2. w.body = u.body /\ w.answer = u.answer /\ w.gone = u.gone /\ w.heard = u.heard /\ w.k = u.k
  BY <1>1 DEF Threads
<1>. HIDE DEF w
<1>3. Excused(t, u) /\ Excused(t, w)
  BY <1>1, <1>2, LostStays DEF Excused
<1>. QED  BY <1>3 DEF u, w

LEMMA WorksExcused ==
  ASSUME HandlersInv, NEW r \in Reqs, Connect(r) \/ Works(r) \/ Hear(r) \/ ClientGone(r)
  PROVE  /\ Excused(thread[r], thread'[r])
         /\ \A q \in Reqs \ {r} : thread'[q] = thread[q]
<1>. DEFINE t == thread[r]
<1>0. t \in Threads /\ ThreadInv(t) /\ thread \in [Reqs -> Threads]
  BY DEF HandlersInv, TypeOK
<1>1. ASSUME NEW u, thread' = [thread EXCEPT ![r] = u]
      PROVE  thread'[r] = u /\ \A q \in Reqs \ {r} : thread'[q] = thread[q]
  BY <1>0, <1>1
<1>. HIDE DEF t
<1>2. CASE Ordinary(r)
  BY <1>2, OrdinaryIsRegular DEF RegularStep, Regular
<1>3. CASE Count(r)
  <2>. DEFINE u == Ends(t, 0, "finally")
  <2>1. thread' = [thread EXCEPT ![r] = u]
    BY <1>3 DEF Count, Goes, t
  <2>2. Excused(t, u)
    BY <1>0, CountExcused
  <2>. HIDE DEF u
  <2>. QED  BY <1>1, <2>1, <2>2 DEF t
<1>4. CASE Finally(r)
  <2>. DEFINE u == [t EXCEPT !.pc = "over"]
  <2>1. thread' = [thread EXCEPT ![r] = u]
    BY <1>4 DEF Finally, Goes, t
  <2>2. u.body = t.body /\ u.answer = t.answer /\ u.gone = t.gone /\ u.heard = t.heard /\ u.k = t.k
    BY <1>0 DEF Threads
  <2>. HIDE DEF u
  <2>3. Excused(t, u)
    BY <2>2, LostStays DEF Excused
  <2>. QED  BY <1>1, <2>1, <2>3 DEF t
<1>5. CASE EndSpan(r)
  <2>. DEFINE u == Settled([t EXCEPT !.open = Front(@)])
              w == [u EXCEPT !.missed = TRUE]
  <2>1. /\ t.pc = "ending"
        /\ thread' = [thread EXCEPT ![r] = u] \/ thread' = [thread EXCEPT ![r] = w]
    BY <1>5 DEF EndSpan, t
  <2>2. Excused(t, u) /\ Excused(t, w)
    BY <1>0, <2>1, EndSpanExcused
  <2>. HIDE DEF u, w
  <2>. QED  BY <1>1, <2>1, <2>2 DEF t
<1>. QED  BY <1>2, <1>3, <1>4, <1>5 DEF Works, Ordinary

(* Nor does an excuse depend on anything that changes but the thread. *)
LEMMA EnvExcuses ==
  ASSUME env' = env
  PROVE  \A t : LostByItself(t) => LostByItself(t)'
<1>1. \A x : PeerUrl(x)' = PeerUrl(x)
  BY DEF PeerUrl, PeerIds, LegacyPeerIds, Legacy
<1>2. WorkerId' = WorkerId
  BY DEF WorkerId, Legacy
<1>3. \A t : Unwritable(t) => Unwritable(t)'
  BY <1>1, <1>2 DEF Unwritable
<1>. QED  BY <1>3 DEF LostByItself

LEMMA ServedNext ==
  ASSUME HandlersInv, ServedInv, [Next]_vars
  PROVE  ServedInv'
<1>1. ASSUME NEW r \in Reqs, Connect(r) \/ Works(r) \/ Hear(r) \/ ClientGone(r)
      PROVE  ServedInv'
  <2>1. proc' = proc /\ env' = env
    BY <1>1, ThreadsNote
  <2>2. thread[r].pc # "none" \/ proc = "serving"
    BY <1>1 DEF Connect, Works, Hear, ClientGone, Accept, Read, Admit, Step, Spun, StepsEnd,
                Mark, Reply, Count, Finally, EndSpan
  <2>3. proc \notin {"entry", "config", "bind"}
    BY <2>2 DEF ServedInv
  <2>4. /\ Excused(thread[r], thread'[r])
        /\ \A q \in Reqs \ {r} : thread'[q] = thread[q]
    BY <1>1, WorksExcused
  <2>5. ASSUME NEW q \in Reqs, thread'[q].answer = "lost"
        PROVE  LostByItself(thread'[q]) \/ proc' # "serving"
    <3>1. thread[q].answer = "lost" => LostByItself(thread[q]) \/ proc # "serving"
      BY DEF ServedInv
    <3>2. CASE q = r
      BY <2>1, <2>4, <2>5, <3>1, <3>2 DEF Excused
    <3>3. CASE q # r
      BY <2>1, <2>4, <2>5, <3>1, <3>3
    <3>. QED  BY <3>2, <3>3
  <2>6. \A t : LostByItself(t) => LostByItself(t)'
    BY <2>1, EnvExcuses
  <2>. QED  BY <2>1, <2>3, <2>5, <2>6 DEF ServedInv
<1>2. CASE Runs \/ Interrupt \/ Kill
  <2>1. CASE Bind
    <3>1. thread' = thread /\ proc = "bind" /\ proc' \notin {"entry", "config", "bind"}
      BY <2>1 DEF Bind, Moves
    <3>2. \A r \in Reqs : thread[r].answer = "none"
      BY <3>1 DEF ServedInv, HandlersInv, ThreadInv, Placed, Stage, Unbegun
    <3>. QED  BY <3>1, <3>2 DEF ServedInv
  <2>2. CASE Enter \/ Configure \/ LegacyConfigure
    <3>1. thread' = thread /\ proc \in {"entry", "config"} /\ proc' # "serving"
      BY <2>2 DEF Enter, Configure, LegacyConfigure, Moves
    <3>. QED  BY <3>1 DEF ServedInv
  <2>3. CASE Close \/ Exit \/ Interrupt \/ Kill
    <3>1. proc' \in {"closing", "exiting", "over"}
      BY <2>3 DEF Close, Exit, Interrupt, Kill, Moves
    <3>. QED  BY <3>1 DEF ServedInv
  <2>. QED  BY <1>2, <2>1, <2>2, <2>3 DEF Runs
<1>3. CASE ExportTick \/ UNCHANGED vars
  <2>1. thread' = thread /\ proc' = proc /\ env' = env
    BY <1>3 DEF ExportTick, vars
  <2>2. \A t : LostByItself(t) => LostByItself(t)'
    BY <2>1, EnvExcuses
  <2>. QED  BY <2>1, <2>2 DEF ServedInv
<1>. QED  BY <1>1, <1>2, <1>3 DEF Next, Rests

LEMMA AllBehind ==
  ASSUME env \in Envs, NEW t \in Threads, ThreadInv(t), t.answer \in OkAnswers
  PROVE  /\ AllStepsDone(t) /\ t.heard \in {"none", "200"}
         /\ Len(t.sent) = Cardinality({j \in DOMAIN StepList(t) : StepList(t)[j].nested})
                            + Forwards(t)
<1>1. /\ t.k # 0 /\ t.k = StepCount(t) + 1 /\ t.heard \in {"none", "200"}
      /\ Len(t.sent) = Behind(t) + Forwards(t) /\ Core(t)
  BY DEF ThreadInv, Counted
<1>2. StepCount(t) \in Nat /\ DOMAIN StepList(t) = 1 .. StepCount(t)
  BY <1>1, SegmentAt
<1>. DEFINE n == StepCount(t)
<1>3. n \in Nat /\ t.k = n + 1 /\ DOMAIN StepList(t) = 1 .. n
  BY <1>1, <1>2
<1>. HIDE DEF n
<1>4. t.k > n /\ \A j \in 1 .. n : j < t.k
  BY <1>3
<1>5. AllStepsDone(t)
  BY <1>4 DEF n, StepCount, AllStepsDone
<1>6. NestedBefore(StepList(t), t.k) = {j \in DOMAIN StepList(t) : StepList(t)[j].nested}
  BY <1>3, <1>4 DEF NestedBefore
<1>. QED  BY <1>1, <1>5, <1>6 DEF Behind

(* The handlers together with the process that runs them. *)
LEMMA ServedIsKept ==
  Spec => []ServedInv
<1>1. Init => ServedInv
  <2>. SUFFICES ASSUME Init PROVE ServedInv
    OBVIOUS
  <2>1. \A r \in Reqs : thread[r].pc = "none" /\ thread[r].answer = "none"
    BY DEF Init, NoThread
  <2>. QED  BY <2>1 DEF ServedInv
<1>2. HandlersInv /\ ServedInv /\ [Next]_vars => ServedInv'
  BY ServedNext
<1>. QED  BY <1>1, <1>2, HandlersAreWell, PTL DEF Spec

(* Whatever is posted, to whatever process, and whoever goes away meanwhile, every
   answer has its reason: no 200 without every step done and every POST made, no
   400 in the middle of a segment, no 502 without a peer that failed, nothing lost
   by a serving process but for the client, a body or counter that raises, a torn
   answer, or a refusal whose text the status line cannot hold - do_POST and
   _handle_route, with all their early returns. *)
THEOREM AnswersAreExplained ==
  Spec => []AnswerIsExplained
<1>1. HandlersInv /\ ServedInv => AnswerIsExplained
  <2>. SUFFICES ASSUME HandlersInv, ServedInv, NEW r \in Reqs
                PROVE  LET t == thread[r]
                           nested == {j \in DOMAIN StepList(t) : StepList(t)[j].nested}
                       IN  /\ t.answer \in OkAnswers =>
                                /\ AllStepsDone(t) /\ t.heard \in {"none", "200"}
                                /\ Len(t.sent) = Cardinality(nested)
                                                   + (IF LastHop(t.body) THEN 0 ELSE 1)
                           /\ t.answer = "400" =>
                                \/ t.k = 0 /\ t.sent = <<>>
                                \/ /\ t.k # 0 /\ AllStepsDone(t) /\ t.body.counter
                                   /\ ~LastHop(t.body) /\ ~Named(NextId(t.body))
                           /\ t.answer = "502" =>
                                t.k # 0 /\ (t.heard = "error" \/ ~PeerUrl(NextPeer(t)))
                           /\ t.answer = "lost" =>
                                \/ t.gone \/ proc \notin {"serving"} \/ t.heard = "torn"
                                \/ t.body.form = "raises" \/ ~t.body.counter \/ Unwritable(t)
    BY DEF AnswerIsExplained
  <2>. DEFINE t == thread[r]
  <2>1. t \in Threads /\ ThreadInv(t) /\ env \in Envs
    BY DEF HandlersInv, TypeOK
  <2>2. t.answer = "lost" => LostByItself(t) \/ proc # "serving"
    BY DEF ServedInv
  <2>. HIDE DEF t
  <2>3. t.answer \in OkAnswers =>
          /\ AllStepsDone(t) /\ t.heard \in {"none", "200"}
          /\ Len(t.sent) = Cardinality({j \in DOMAIN StepList(t) : StepList(t)[j].nested})
                             + (IF LastHop(t.body) THEN 0 ELSE 1)
    BY <2>1, AllBehind DEF Forwards
  <2>4. t.answer = "400" =>
          \/ t.k = 0 /\ t.sent = <<>>
          \/ /\ t.k # 0 /\ AllStepsDone(t) /\ t.body.counter
             /\ ~LastHop(t.body) /\ ~Named(NextId(t.body))
    BY <2>1 DEF ThreadInv, Answered, Core, Begun
  <2>5. t.answer = "502" => t.k # 0 /\ (t.heard = "error" \/ ~PeerUrl(NextPeer(t)))
    BY <2>1 DEF ThreadInv, Answered
  <2>6. t.answer = "lost" =>
          \/ t.gone \/ proc \notin {"serving"} \/ t.heard = "torn"
          \/ t.body.form = "raises" \/ ~t.body.counter \/ Unwritable(t)
    BY <2>2 DEF LostByItself
  <2>. QED  BY <2>3, <2>4, <2>5, <2>6 DEF t
<1>. QED  BY <1>1, HandlersAreWell, ServedIsKept, PTL

-----------------------------------------------------------------------------
(* What comes too late.                                                    *)

(* A thread that has none is one nobody has asked for anything. *)
LEMMA UnaskedIs ==
  ASSUME NEW t
  PROVE  AsRequest(t).state = "unasked" <=> t.pc = "none"
BY DEF AsRequest

LEMMA AskedStays ==
  ASSUME NEW t, NEW u, Promised(t, u), u.pc = "none"
  PROVE  t.pc = "none"
<1>1. AsRequest(u).state = "unasked"
  BY UnaskedIs
<1>2. CASE AsRequest(u) = AsRequest(t)
  BY <1>1, <1>2, UnaskedIs
<1>3. CASE Contract!Moves(AsRequest(t), AsRequest(u))
  <2>. DEFINE a == AsRequest(t)
              b == AsRequest(u)
  <2>1. a = [state |-> a.state, todo |-> a.todo, done |-> a.done, last |-> a.last,
             answer |-> a.answer]
    BY DEF AsRequest
  <2>2. Contract!Moves(a, b)
    BY <1>3
  <2>. SUFFICES b.state # "unasked"
    BY <1>1
  <2>. HIDE DEF a, b
  <2>3. CASE Contract!Posted(a, b) \/ Contract!Refused(a, b) \/ Contract!Admitted(a, b)
    BY <2>3 DEF Contract!Posted, Contract!Refused, Contract!Admitted, Contract!Over,
                Contract!Asked, Contract!Unasked
  <2>4. CASE Contract!Worked(a, b)
    <3>1. a.state = "working" /\ b = [a EXCEPT !.done = a.done + 1]
      BY <2>4 DEF Contract!Worked
    <3>2. b.state = a.state
      BY <2>1, <3>1
    <3>. QED  BY <3>1, <3>2
  <2>5. CASE Contract!Sent(a, b) \/ Contract!Heeded(a, b)
    <3>1. \A x : [a EXCEPT !.state = x].state = x
      BY <2>1
    <3>2. \A x, y : [a EXCEPT !.state = x, !.done = y].state = x
      BY <2>1
    <3>. QED  BY <2>5, <3>1, <3>2 DEF Contract!Sent, Contract!Heeded
  <2>6. CASE Contract!Finished(a, b) \/ Contract!Failed(a, b) \/ Contract!Lost(a, b)
    <3>1. \A o : Contract!Over(a, o).state = "over"
      BY <2>1 DEF Contract!Over
    <3>. QED  BY <2>6, <3>1 DEF Contract!Finished, Contract!Failed, Contract!Lost
  <2>. QED  BY <2>2, <2>3, <2>4, <2>5, <2>6 DEF Contract!Moves
<1>. QED  BY <1>2, <1>3 DEF Promised

(* The process brings nothing too late, and a thread only one that is there. *)
LEMMA LateBegins ==
  LET m == InitPyroscopePush(env, InitTelemetry(env))
  IN  m.on = m.set /\ m.late = NothingLate
<1>. DEFINE n == InitTelemetry(env)
<1>1. Off \in Telemetry /\ n \in Telemetry /\ Off.late = NothingLate
  BY InitTypes DEF Off
<1>2. n.on = n.set /\ n.late = NothingLate
  BY <1>1 DEF InitTelemetry, Telemetry
<1>. HIDE DEF n
<1>3. /\ LogPipelineLine(n).on = n.on /\ LogPipelineLine(n).set = n.set
      /\ LogPipelineLine(n).late = n.late
  BY <1>1, <1>2, LineIs DEF Telemetry
<1>. QED  BY <1>2, <1>3 DEF InitPyroscopePush, n

LEMMA ExportsLeave ==
  ASSUME NEW m \in Telemetry
  PROVE  /\ \A ok \in BOOLEAN :
              /\ ShipLogs(m, ok).late = m.late /\ ShowSums(m, ok).late = m.late
              /\ ShipLogs(m, ok).on = m.on /\ ShowSums(m, ok).on = m.on
              /\ ShipLogs(m, ok).set = m.set /\ ShowSums(m, ok).set = m.set
         /\ m.on # {} => \A ok \in BOOLEAN : Shut(m, ok).late = m.late
         /\ [m EXCEPT !.on = {}].late = m.late
<1>1. ASSUME NEW ok \in BOOLEAN
      PROVE  /\ ShipLogs(m, ok).late = m.late /\ ShowSums(m, ok).late = m.late
             /\ ShipLogs(m, ok).on = m.on /\ ShowSums(m, ok).on = m.on
             /\ ShipLogs(m, ok).set = m.set /\ ShowSums(m, ok).set = m.set
  BY DEF ShipLogs, ShowSums, Telemetry
<1>2. ASSUME NEW ok \in BOOLEAN, m.on # {}
      PROVE  Shut(m, ok).late = m.late
  <2>. DEFINE k == NextToShut(m)
              sent == CASE k = "logs" -> ShipLogs(m, ok)
                        [] k = "metrics" -> ShowSums(m, ok)
                        [] k = "spans" -> m
  <2>1. k \in {"logs", "metrics", "spans"}
    BY DEF NextToShut
  <2>2. sent \in Telemetry /\ sent.late = m.late
    BY <1>1, <2>1, TelemetryTypes
  <2>3. Shut(m, ok) = [sent EXCEPT !.on = @ \ {k}]
    BY DEF Shut
  <2>. HIDE DEF sent, k
  <2>4. [sent EXCEPT !.on = @ \ {k}].late = sent.late
    BY <2>2 DEF Telemetry
  <2>. QED  BY <2>2, <2>3, <2>4
<1>3. [m EXCEPT !.on = {}].late = m.late
  BY DEF Telemetry
<1>. QED  BY <1>1, <1>2, <1>3

(* Nothing is late as long as no thread is there: then only the process writes, and
   it has set everything up and shut nothing. *)
LEMMA LateNext ==
  ASSUME HandlersInv, TelInv, ServedInv, LateInv, [Next]_vars
  PROVE  LateInv'
<1>. DEFINE early == {"entry", "config", "bind"}
            idle == \A r \in Reqs : thread[r].pc = "none"
<1>1. /\ proc \in early => tel.on = tel.set
      /\ idle => tel.late = NothingLate
      /\ proc \in early => idle
      /\ proc \in {"entry", "config"} => tel = Off
  BY DEF LateInv, ServedInv, TelInv
<1>2. idle' => idle
  BY NextPromised, AskedStays
<1>3. Off.on = Off.set /\ Off.late = NothingLate
  BY DEF Off
<1>4. tel \in Telemetry
  BY DEF HandlersInv, TypeOK
<1>5. SUFFICES /\ proc' \in early => tel'.on = tel'.set
               /\ idle' /\ idle => tel'.late = NothingLate
  BY <1>2 DEF LateInv
<1>. HIDE DEF idle
<1>6. ASSUME NEW r \in Reqs, Connect(r) \/ Works(r) \/ Hear(r) \/ ClientGone(r)
      PROVE  proc' \notin early /\ ~idle'
  <2>1. proc' = proc
    BY <1>6, ThreadsNote
  <2>2. thread[r].pc # "none" \/ Connect(r)
    BY <1>6 DEF Works, Hear, ClientGone, Accept, Read, Admit, Step, Spun, StepsEnd,
                Mark, Reply, Count, Finally, EndSpan
  <2>3. CASE thread[r].pc # "none"
    <3>1. thread'[r].pc # "none"
      BY <2>3, NextPromised, AskedStays
    <3>. QED  BY <1>1, <2>1, <2>3, <3>1 DEF idle
  <2>4. CASE Connect(r)
    <3>1. PICK b \in Bodies[env] :
            thread' = [thread EXCEPT ![r] = [NoThread EXCEPT !.pc = "sent", !.body = b]]
      BY <2>4 DEF Connect, Goes
    <3>2. thread \in [Reqs -> Threads] /\ [NoThread EXCEPT !.pc = "sent", !.body = b].pc = "sent"
      BY DEF HandlersInv, TypeOK, NoThread
    <3>3. thread'[r].pc = "sent"
      BY <3>1, <3>2
    <3>4. proc = "serving"
      BY <2>4 DEF Connect
    <3>. QED  BY <2>1, <3>3, <3>4 DEF idle
  <2>. QED  BY <2>2, <2>3, <2>4
<1>7. CASE Enter \/ Interrupt
  <2>1. tel' = tel /\ (proc' \in early => proc \in early)
    BY <1>7 DEF Enter, Interrupt, Moves
  <2>. QED  BY <1>1, <2>1
<1>8. CASE Configure \/ LegacyConfigure
  <2>1. tel' \in {tel, Off, InitTelemetry(env), InitPyroscopePush(env, InitTelemetry(env))}
    BY <1>8 DEF Configure, LegacyConfigure, Moves, LabInitTelemetry, LabInitPyroscopePush
  <2>2. tel = Off
    BY <1>1, <1>8 DEF Configure, LegacyConfigure
  <2>3. InitTelemetry(env).on = InitTelemetry(env).set /\ InitTelemetry(env).late = NothingLate
    BY InitTypes DEF InitTelemetry, Off, Telemetry
  <2>. QED  BY <1>3, <2>1, <2>2, <2>3, LateBegins
<1>9. CASE Bind
  <2>1. tel' = Logged(tel) /\ proc = "bind" /\ proc' \notin early
    BY <1>9 DEF Bind, Moves
  <2>2. tel.on = tel.set => Logged(tel).late = tel.late
    BY <1>4, NotesAre DEF Notes
  <2>. QED  BY <1>1, <2>1, <2>2
<1>10. CASE Close \/ Kill
  <2>1. proc' \notin early /\ tel' \in {tel, [tel EXCEPT !.on = {}]}
    BY <1>10 DEF Close, Kill, Moves
  <2>. QED  BY <1>1, <1>4, <2>1, ExportsLeave
<1>11. CASE Exit
  <2>1. proc' \notin early
    BY <1>11 DEF Exit, Moves
  <2>2. tel' = tel \/ (tel.on # {} /\ \E ok \in BOOLEAN : tel' = Shut(tel, ok))
    BY <1>11 DEF Exit, Moves, Flaky
  <2>. QED  BY <1>1, <1>4, <2>1, <2>2, ExportsLeave
<1>12. CASE ExportTick
  <2>1. PICK ok \in BOOLEAN : proc' = proc /\ tel' \in {ShipLogs(tel, ok), ShowSums(tel, ok)}
    BY <1>12 DEF ExportTick, Flaky
  <2>. QED  BY <1>1, <1>4, <2>1, ExportsLeave
<1>13. CASE UNCHANGED vars
  BY <1>1, <1>13 DEF vars
<1>. QED  BY <1>6, <1>7, <1>8, <1>9, <1>10, <1>11, <1>12, <1>13 DEF Next, Runs, Rests

(* A process that ends by itself has sent every line and every measurement that a
   handler or the process itself handed over before atexit shut the provider, and
   nothing else is lost; with no request, nothing at all - whatever the order in which
   threads write, the exporters' threads export and the providers shut down: atexit of
   the SDK and run_server, in which nothing waits for the handlers. *)
THEOREM StopsCleanly ==
  Spec => []OnlyLateIsLost
<1>1. Init => LateInv
  <2>1. Off.on = Off.set /\ Off.late = NothingLate
    BY DEF Off
  <2>. QED  BY <2>1 DEF Init, LateInv
<1>2. HandlersInv /\ TelInv /\ ServedInv /\ LateInv /\ [Next]_vars => LateInv'
  BY LateNext
<1>3. TypeOK /\ TelInv /\ LateInv => OnlyLateIsLost
  <2>. SUFFICES ASSUME TypeOK, TelInv, LateInv, ~Flaky, proc = "over", code # "137"
                PROVE  /\ tel.queue = 0 /\ tel.shipped = tel.lines - tel.late.lines
                       /\ tel.seen = [hops     |-> tel.hops - tel.late.hops,
                                      messages |-> tel.messages - tel.late.messages]
                       /\ (\A r \in Reqs : thread[r].pc = "none") => tel.late = NothingLate
    BY DEF OnlyLateIsLost
  <2>1. Accounted(tel) /\ tel.on = {} /\ Numbers(tel)
    BY NumbersAre DEF TelInv, TypeOK
  <2>2. /\ tel.shipped + tel.queue = tel.lines - tel.late.lines /\ tel.queue = 0
        /\ tel.seen = InTime(tel)
    BY <2>1 DEF Accounted
  <2>3. tel.shipped = tel.lines - tel.late.lines
    BY <2>1, <2>2 DEF Numbers
  <2>4. (\A r \in Reqs : thread[r].pc = "none") => tel.late = NothingLate
    BY DEF LateInv
  <2>. QED  BY <2>2, <2>3, <2>4 DEF InTime
<1>. QED  BY <1>1, <1>2, <1>3, HandlersAreWell, TelemetryIsKept, ServedIsKept, PythonTypes, PTL
          DEF Spec

-----------------------------------------------------------------------------
(* What is counted.                                                        *)

Messages(th) == {r \in Reqs : InMessages(th[r])}
Hops(th) == {r \in Reqs : InHops(th[r])}

Tallied(S, n) == IsFiniteSet(S) /\ n = Cardinality(S)

CountInv ==
  "metrics" \in tel.on /\ proc \in {"bind", "serving", "closing"} =>
    Tallied(Messages(thread), tel.messages) /\ Tallied(Hops(thread), tel.hops)

LEMMA OneMore ==
  ASSUME NEW S, NEW n, Tallied(S, n), NEW x, x \notin S
  PROVE  Tallied(S \cup {x}, n + 1)
BY FS_AddElement DEF Tallied

LEMMA SumsStay ==
  ASSUME NEW m \in Telemetry
  PROVE  \A n \in {Logged(m)} \cup {ShipLogs(m, ok) : ok \in BOOLEAN}
                              \cup {ShowSums(m, ok) : ok \in BOOLEAN} :
           n.on = m.on /\ n.hops = m.hops /\ n.messages = m.messages
<1>1. Logged(m).on = m.on /\ Logged(m).hops = m.hops /\ Logged(m).messages = m.messages
  BY DEF Telemetry, Logged, LogPipelineLine, LabLogPipelineLine
<1>2. ASSUME NEW ok \in BOOLEAN
      PROVE  LET n == ShipLogs(m, ok)
             IN  n.on = m.on /\ n.hops = m.hops /\ n.messages = m.messages
  BY DEF Telemetry, ShipLogs
<1>3. ASSUME NEW ok \in BOOLEAN
      PROVE  LET n == ShowSums(m, ok)
             IN  n.on = m.on /\ n.hops = m.hops /\ n.messages = m.messages
  BY DEF Telemetry, ShowSums
<1>. QED  BY <1>1, <1>2, <1>3

LEMMA SumsGrow ==
  ASSUME NEW m \in Telemetry, "metrics" \in m.on, m.on \subseteq m.set
  PROVE  /\ AddMessage(m).on = m.on /\ AddMessage(m).hops = m.hops
         /\ AddMessage(m).messages = m.messages + 1
         /\ RecordHop(m).on = m.on /\ RecordHop(m).messages = m.messages
         /\ RecordHop(m).hops = m.hops + 1
BY DEF Telemetry, AddMessage, RecordHop

LEMMA SumsBegin ==
  LET m == IF Complete THEN InitPyroscopePush(env, InitTelemetry(env))
           ELSE LabInitPyroscopePush(env, LabInitTelemetry(env))
  IN  m.hops = 0 /\ m.messages = 0
<1>1. Off.hops = 0 /\ Off.messages = 0
  BY DEF Off
<1>2. InitTelemetry(env).hops = 0 /\ InitTelemetry(env).messages = 0
  BY DEF Off, InitTelemetry
<1>3. InitTelemetry(env) \in Telemetry
  BY InitTypes
<1>4. \A m \in Telemetry : /\ LogPipelineLine(m).hops = m.hops
                           /\ LogPipelineLine(m).messages = m.messages
  BY DEF Telemetry, LogPipelineLine
<1>. QED  BY <1>1, <1>2, <1>3, <1>4
          DEF InitPyroscopePush, LabInitPyroscopePush, LabInitTelemetry

LEMMA TallyStays ==
  ASSUME \A q \in Reqs : /\ InMessages(thread'[q]) <=> InMessages(thread[q])
                         /\ InHops(thread'[q]) <=> InHops(thread[q])
  PROVE  Messages(thread') = Messages(thread) /\ Hops(thread') = Hops(thread)
BY DEF Messages, Hops

LEMMA CountEnds ==
  ASSUME NEW t \in Threads
  PROVE  /\ Ends(t, 0, "finally").answer = t.answer
         /\ Ends(t, 0, "finally").pc \in {"finally", "ending"}
<1>. DEFINE u == Ends(t, 0, "finally")
<1>1. 0 \in 0 .. 2 /\ "finally" \in Goals
  BY DEF Goals
<1>2. EndsSo(t, u, 0, "finally")
  BY <1>1, EndsAreSo
<1>. HIDE DEF u
<1>3. u.answer = t.answer /\ u.pc \in {"finally", "ending"}
  BY <1>2 DEF EndsSo
<1>. QED  BY <1>3 DEF u

LEMMA CountCounts ==
  ASSUME HandlersInv, NEW r \in Reqs, Count(r)
  PROVE  /\ Messages(thread') = Messages(thread) \cup {r} /\ r \notin Messages(thread)
         /\ Hops(thread') = Hops(thread)
<1>. DEFINE t == thread[r]
            u == Ends(t, 0, "finally")
<1>1. t \in Threads /\ ThreadInv(t) /\ env \in Envs /\ thread \in [Reqs -> Threads]
  BY DEF HandlersInv, TypeOK
<1>2. t.pc = "count" /\ thread' = [thread EXCEPT ![r] = u]
  BY DEF Count, Goes
<1>3. thread'[r] = u /\ \A q \in Reqs \ {r} : thread'[q] = thread[q]
  BY <1>1, <1>2
<1>. HIDE DEF t
<1>4. u.answer = t.answer /\ u.pc \in {"finally", "ending"}
  BY <1>1, CountEnds
<1>5. t.answer \in OkAnswers
  BY <1>1, <1>2 DEF ThreadInv, Placed, Stage
<1>. HIDE DEF u
<1>6. InMessages(u) /\ ~InMessages(t) /\ ~InHops(u) /\ ~InHops(t)
  BY <1>2, <1>4, <1>5 DEF InMessages, InHops
<1>. QED  BY <1>3, <1>6 DEF Messages, Hops, t

LEMMA FinallyCounts ==
  ASSUME HandlersInv, NEW r \in Reqs, Finally(r)
  PROVE  /\ Hops(thread') = Hops(thread) \cup {r} /\ r \notin Hops(thread)
         /\ Messages(thread') = Messages(thread)
<1>. DEFINE t == thread[r]
            u == [t EXCEPT !.pc = "over"]
<1>1. t \in Threads /\ ThreadInv(t) /\ env \in Envs /\ thread \in [Reqs -> Threads]
  BY DEF HandlersInv, TypeOK
<1>2. t.pc = "finally" /\ thread' = [thread EXCEPT ![r] = u]
  BY DEF Finally, Goes
<1>3. thread'[r] = u /\ \A q \in Reqs \ {r} : thread'[q] = thread[q]
  BY <1>1, <1>2
<1>. HIDE DEF t
<1>4. u.answer = t.answer /\ u.pc = "over" /\ u.body = t.body
  BY <1>1 DEF Threads
<1>5. t.body.form = "object"
  BY <1>1, <1>2 DEF ThreadInv, Placed, Stage
<1>. HIDE DEF u
<1>6. (InMessages(u) <=> InMessages(t)) /\ InHops(u) /\ ~InHops(t)
  BY <1>2, <1>4, <1>5 DEF InMessages, InHops
<1>. QED  BY <1>3, <1>6 DEF Messages, Hops, t

LEMMA EndSpanCounts ==
  ASSUME HandlersInv, NEW r \in Reqs, EndSpan(r)
  PROVE  Messages(thread') = Messages(thread) /\ Hops(thread') = Hops(thread)
<1>. DEFINE t == thread[r]
            u == Settled([t EXCEPT !.open = Front(@)])
            w == [u EXCEPT !.missed = TRUE]
<1>1. t \in Threads /\ ThreadInv(t) /\ thread \in [Reqs -> Threads]
  BY DEF HandlersInv, TypeOK
<1>2. /\ t.pc = "ending"
      /\ thread' = [thread EXCEPT ![r] = u] \/ thread' = [thread EXCEPT ![r] = w]
  BY DEF EndSpan
<1>3. thread'[r] \in {u, w} /\ \A q \in Reqs \ {r} : thread'[q] = thread[q]
  BY <1>1, <1>2
<1>. HIDE DEF t
<1>4. /\ u \in Threads /\ u.answer = t.answer /\ u.body = t.body
      /\ u.pc = IF Len(u.open) <= t.keep THEN t.then ELSE "ending"
  BY <1>1, <1>2, EndSpanKeeps
<1>. HIDE DEF u
<1>5. u.pc \notin {"count", "over"}
  BY <1>1, <1>2, <1>4 DEF ThreadInv, Deep
<1>6. w.pc = u.pc /\ w.answer = u.answer /\ w.body = u.body
  BY <1>4 DEF Threads
<1>. HIDE DEF w
<1>7. \A x \in {u, w} : (InMessages(x) <=> InMessages(t)) /\ (InHops(x) <=> InHops(t))
  BY <1>2, <1>4, <1>5, <1>6 DEF InMessages, InHops
<1>8. \A q \in Reqs : /\ InMessages(thread'[q]) <=> InMessages(thread[q])
                      /\ InHops(thread'[q]) <=> InHops(thread[q])
  BY <1>3, <1>7 DEF t
<1>. QED  BY <1>8, TallyStays

LEMMA WorksCount ==
  ASSUME HandlersInv, TelInv, CountInv, NEW r \in Reqs,
         Connect(r) \/ Works(r) \/ Hear(r) \/ ClientGone(r)
  PROVE  CountInv'
<1>0. tel \in Telemetry
  BY DEF HandlersInv, TypeOK
<1>1. tel' \in Notes(tel) /\ proc' = proc
  BY ThreadsNote
<1>2. tel'.on = tel.on
  BY <1>0, <1>1, NotesAre
<1>3. SUFFICES ASSUME "metrics" \in tel.on, proc \in {"bind", "serving", "closing"}
               PROVE  Tallied(Messages(thread'), tel'.messages) /\ Tallied(Hops(thread'), tel'.hops)
  BY <1>1, <1>2 DEF CountInv, Messages, Hops, InMessages, InHops, Tallied
<1>4. Tallied(Messages(thread), tel.messages) /\ Tallied(Hops(thread), tel.hops)
  BY <1>3 DEF CountInv
<1>5. Complete /\ tel.on \subseteq tel.set
  BY <1>3 DEF TelInv, Accounted
<1>6. CASE Ordinary(r)
  <2>1. RegularStep(r)
    BY <1>6, OrdinaryIsRegular
  <2>2. \A q \in Reqs : /\ InMessages(thread'[q]) <=> InMessages(thread[q])
                        /\ InHops(thread'[q]) <=> InHops(thread[q])
    BY <2>1 DEF RegularStep, Regular, Uncounted
  <2>3. tel'.messages = tel.messages /\ tel'.hops = tel.hops
    BY <1>0, <2>1, SumsStay DEF RegularStep
  <2>. QED  BY <1>4, <2>2, <2>3, TallyStays
<1>7. CASE Count(r)
  <2>1. tel' = AddMessage(tel)
    BY <1>5, <1>7 DEF Count, Goes
  <2>2. tel'.messages = tel.messages + 1 /\ tel'.hops = tel.hops
    BY <1>0, <1>3, <1>5, <2>1, SumsGrow
  <2>. QED  BY <1>4, <1>7, <2>2, CountCounts, OneMore
<1>8. CASE Finally(r)
  <2>1. tel' = RecordHop(tel)
    BY <1>5, <1>8 DEF Finally, Goes
  <2>2. tel'.hops = tel.hops + 1 /\ tel'.messages = tel.messages
    BY <1>0, <1>3, <1>5, <2>1, SumsGrow
  <2>. QED  BY <1>4, <1>8, <2>2, FinallyCounts, OneMore
<1>9. CASE EndSpan(r)
  <2>1. tel' = tel
    BY <1>9 DEF EndSpan
  <2>. QED  BY <1>4, <1>9, <2>1, EndSpanCounts
<1>. QED  BY <1>6, <1>7, <1>8, <1>9 DEF Works, Ordinary

LEMMA CountNext ==
  ASSUME HandlersInv, TelInv, ServedInv, CountInv, [Next]_vars
  PROVE  CountInv'
<1>0. tel \in Telemetry
  BY DEF HandlersInv, TypeOK
<1>1. ASSUME thread' = thread, tel'.on = tel.on, tel'.messages = tel.messages,
             tel'.hops = tel.hops, proc \in {"bind", "serving", "closing"} \/ proc' = proc
      PROVE  CountInv'
  BY <1>1 DEF CountInv, Messages, Hops, InMessages, InHops, Tallied
<1>2. ASSUME proc' \notin {"bind", "serving", "closing"}
      PROVE  CountInv'
  BY <1>2 DEF CountInv
<1>3. CASE Configure \/ LegacyConfigure
  <2>1. proc = "config" /\ thread' = thread
    BY <1>3 DEF Configure, LegacyConfigure
  <2>2. \A r \in Reqs : thread[r].pc = "none" /\ thread[r].answer = "none"
    BY <2>1 DEF ServedInv, HandlersInv, ThreadInv, Placed, Stage, Unbegun
  <2>3. Messages(thread') = {} /\ Hops(thread') = {}
    BY <2>1, <2>2 DEF Messages, Hops, InMessages, InHops, OkAnswers
  <2>4. \/ proc' = "exiting"
        \/ tel'.hops = 0 /\ tel'.messages = 0
    BY <1>3, SumsBegin DEF Configure, LegacyConfigure, Moves, Complete
  <2>5. Tallied({}, 0)
    BY FS_EmptySet DEF Tallied
  <2>6. CASE tel'.hops = 0 /\ tel'.messages = 0
    BY <2>3, <2>5, <2>6 DEF CountInv, Messages, Hops, InMessages, InHops, Tallied
  <2>. QED  BY <1>2, <2>4, <2>6
<1>4. CASE Bind
  <2>1. proc = "bind" /\ thread' = thread /\ tel' = Logged(tel)
    BY <1>4 DEF Bind, Moves
  <2>2. tel'.on = tel.on /\ tel'.hops = tel.hops /\ tel'.messages = tel.messages
    BY <1>0, <2>1, SumsStay
  <2>. QED  BY <1>1, <2>1, <2>2
<1>5. CASE Interrupt
  <2>1. \/ proc' = "exiting"
        \/ proc = "serving" /\ thread' = thread /\ tel' = tel
    BY <1>5 DEF Interrupt, Moves
  <2>. QED  BY <1>1, <1>2, <2>1
<1>6. CASE Enter \/ Close \/ Exit \/ Kill
  <2>1. proc' \in {"config", "exiting", "over"}
    BY <1>6 DEF Enter, Close, Exit, Kill, Moves
  <2>. QED  BY <1>2, <2>1
<1>7. CASE ExportTick
  <2>1. PICK ok \in BOOLEAN : tel' \in {ShipLogs(tel, ok), ShowSums(tel, ok)}
    BY <1>7 DEF ExportTick, Flaky
  <2>2. tel'.on = tel.on /\ tel'.hops = tel.hops /\ tel'.messages = tel.messages
    BY <1>0, <2>1, SumsStay
  <2>3. thread' = thread /\ proc' = proc
    BY <1>7 DEF ExportTick
  <2>. QED  BY <1>1, <2>2, <2>3
<1>8. CASE UNCHANGED vars
  BY <1>1, <1>8 DEF vars
<1>9. ASSUME NEW r \in Reqs, Connect(r) \/ Works(r) \/ Hear(r) \/ ClientGone(r)
      PROVE  CountInv'
  BY <1>9, WorksCount
<1>. QED  BY <1>3, <1>4, <1>5, <1>6, <1>7, <1>8, <1>9 DEF Next, Runs, Rests

(* In every state of a serving or closing process that has metrics, the counter
   demo.pipeline.messages is the number of 200s written, less those of threads
   between writing and counting, and the histogram has one value for each JSON
   object whose handler is over: no number of concurrent handlers, no way out of
   _handle_route and no stop loses or doubles a count. *)
THEOREM AnswersAreCounted ==
  Spec => []CountsTellAnswers
<1>1. Init => CountInv
  BY DEF Init, CountInv
<1>2. HandlersInv /\ TelInv /\ ServedInv /\ CountInv /\ [Next]_vars => CountInv'
  BY CountNext
<1>3. CountInv => CountsTellAnswers
  <2>1. /\ Messages(thread) = {r \in Reqs : /\ thread[r].answer \in OkAnswers
                                            /\ thread[r].pc # "count"}
        /\ Hops(thread) = {r \in Reqs : /\ thread[r].pc = "over"
                                        /\ thread[r].body.form = "object"}
    BY DEF Messages, Hops, InMessages, InHops
  <2>. QED  BY <2>1 DEF CountInv, CountsTellAnswers, Tallied
<1>. QED  BY <1>1, <1>2, <1>3, HandlersAreWell, TelemetryIsKept, ServedIsKept, PTL DEF Spec

-----------------------------------------------------------------------------
(* What the collector can make of the spans.                               *)

LEMMA RegularTraced ==
  ASSUME NEW S, NEW r, NEW t, NEW u, Complete, Follows(t, u), Traced(S, r, t)
  PROVE  Traced(S, r, u)
<1>1. u.pc \in Unbegun => \A s \in S : s.req # r
  BY DEF Follows, Traced
<1>2. \A s \in S : s.req = r => s.parent = ParentOf(u, s.id)
  <2>1. CASE t.pc = "none"
    BY <2>1 DEF Traced, Unbegun
  <2>2. CASE t.pc # "none"
    <3>1. u.body = t.body
      BY <2>2 DEF Follows
    <3>2. \A id : ParentOf(u, id) = ParentOf(t, id)
      BY <3>1 DEF ParentOf, StepList
    <3>. QED  BY <3>2 DEF Traced
  <2>. QED  BY <2>1, <2>2
<1>3. ASSUME ~u.missed
      PROVE  /\ \A s \in S : s.req = r =>
                  s.parent \in IdsIn(S, r) \cup OpenIds(u) \cup {NoSpan, Remote}
             /\ \A i \in DOMAIN u.sent : u.sent[i] \in IdsIn(S, r) \cup OpenIds(u)
             /\ u.pc = "over" => Len(u.open) = 0
  <2>1. ~t.missed /\ Extends(t, u)
    BY <1>3 DEF Follows
  <2>2. \A s \in S : s.req = r => s.parent \in IdsIn(S, r) \cup OpenIds(t) \cup {NoSpan, Remote}
    BY <2>1 DEF Traced
  <2>3. \A i \in DOMAIN t.sent : t.sent[i] \in IdsIn(S, r) \cup OpenIds(t)
    BY <2>1 DEF Traced
  <2>. QED  BY <2>1, <2>2, <2>3 DEF Extends, Follows
<1>. QED  BY <1>1, <1>2, <1>3 DEF Traced

LEMMA CountFollows ==
  ASSUME NEW t \in Threads, t.pc = "count"
  PROVE  Follows(t, Ends(t, 0, "finally"))
<1>. DEFINE u == Ends(t, 0, "finally")
<1>1. Same(t, u)
  BY EndsAre DEF Goals
<1>2. u.pc \in {"finally", "ending"}
  BY CountEnds
<1>. HIDE DEF u
<1>3. Extends(t, u)
  BY <1>1, SameExtends DEF Same
<1>4. Follows(t, u)
  BY <1>1, <1>2, <1>3 DEF Follows, Same, Unbegun
<1>. QED  BY <1>4 DEF u

LEMMA FinallyFollows ==
  ASSUME NEW t \in Threads, ThreadInv(t), Complete, t.pc = "finally"
  PROVE  Follows(t, [t EXCEPT !.pc = "over"])
<1>. DEFINE u == [t EXCEPT !.pc = "over"]
<1>1. /\ u.pc = "over" /\ u.body = t.body /\ u.missed = t.missed /\ u.open = t.open
      /\ u.sent = t.sent
  BY DEF Threads
<1>. HIDE DEF u
<1>2. Extends(t, u)
  BY <1>1, SameExtends
<1>3. Len(t.open) = 0
  BY DEF ThreadInv, Deep
<1>4. Follows(t, u)
  BY <1>1, <1>2, <1>3 DEF Follows, Unbegun
<1>. QED  BY <1>4 DEF u

LEMMA DeadTraced ==
  ASSUME NEW S, NEW r, NEW t \in Threads, Traced(S, r, t)
  PROVE  Traced(S, r, Dead(t))
<1>. DEFINE w == [t EXCEPT !.pc = "over", !.answer = IF @ = "none" THEN "lost" ELSE @,
                           !.missed = TRUE]
<1>1. CASE t.pc \in {"none", "over"}
  BY <1>1 DEF Dead
<1>2. CASE t.pc \notin {"none", "over"}
  <2>1. Dead(t) = w
    BY <1>2 DEF Dead
  <2>2. w.pc = "over" /\ w.missed = TRUE /\ w.body = t.body
    BY DEF Threads
  <2>. HIDE DEF w
  <2>3. \A id : ParentOf(w, id) = ParentOf(t, id)
    BY <2>2 DEF ParentOf, StepList
  <2>4. Traced(S, r, w)
    BY <2>2, <2>3 DEF Traced, Unbegun
  <2>. QED  BY <2>1, <2>4
<1>. QED  BY <1>1, <1>2

(* The innermost span of a thread hangs where it should. *)
LEMMA LastHangs ==
  ASSUME env \in Envs, NEW t \in Threads, ThreadInv(t), Complete, Len(t.open) # 0
  PROVE  LET s == Last(t.open)
         IN  /\ s.parent = ParentOf(t, s.id)
             /\ s.parent \in {NoSpan, Remote} \cup
                             {t.open[i].id : i \in 1 .. Len(t.open) - 1}
<1>. DEFINE n == Len(t.open)
            s == t.open[n]
            m == StepCount(t)
<1>1. Linked(t) /\ Shaped(t) /\ t.k # 0 /\ Core(t)
  BY DEF ThreadInv, Core, Chained, Begun
<1>2. n \in Nat /\ n # 0 /\ DOMAIN t.open = 1 .. n
  BY SpanTypes
<1>3. m \in Nat
  BY <1>1, SegmentAt
<1>4. Last(t.open) = s
  BY DEF Last
<1>5. n \in 1 .. 4
  <2>1. n <= 4
    BY <1>1 DEF Shaped
  <2>. HIDE DEF n
  <2>. QED  BY <1>2, <2>1
<1>6. s.parent = IF n = 1 THEN Root(t) ELSE t.open[n - 1].id
  <2>. HIDE DEF n
  <2>1. n \in DOMAIN t.open
    BY <1>2
  <2>. QED  BY <1>1, <2>1 DEF Linked
<1>7. CASE n = 1
  <2>1. s.id = HopId /\ s.parent = Root(t)
    BY <1>1, <1>6, <1>7 DEF Shaped
  <2>2. ParentOf(t, HopId) = Root(t) /\ Root(t) \in {NoSpan, Remote}
    BY DEF ParentOf, HopId, Root
  <2>. HIDE DEF s
  <2>. QED  BY <1>4, <2>1, <2>2
<1>8. CASE n = 2
  <2>1. s.id \in {ProcessingId, ClientId(m + 1)} /\ s.parent = t.open[1].id
        /\ t.open[1].id = HopId
    BY <1>1, <1>6, <1>8 DEF Shaped
  <2>2. ParentOf(t, ProcessingId) = HopId
    BY DEF ParentOf, HopId, ProcessingId
  <2>3. ParentOf(t, ClientId(m + 1)) = HopId
    <3>1. m + 1 > m
      BY <1>3
    <3>. QED  BY <3>1 DEF ParentOf, HopId, ClientId, StepCount
  <2>4. 1 \in 1 .. n - 1
    BY <1>8
  <2>. HIDE DEF s, m, n
  <2>. QED  BY <1>4, <2>1, <2>2, <2>3, <2>4 DEF n
<1>9. CASE n = 3
  <2>1. PICK j \in 1 .. m : s.id = StepId(j)
    BY <1>1, <1>9 DEF Shaped, InStep
  <2>2. s.parent = t.open[2].id /\ t.open[2].id = ProcessingId
    BY <1>1, <1>6, <1>9 DEF Shaped
  <2>3. ParentOf(t, StepId(j)) = ProcessingId
    BY DEF ParentOf, StepId, ProcessingId
  <2>4. 2 \in 1 .. n - 1
    BY <1>9
  <2>. HIDE DEF s, m, n
  <2>. QED  BY <1>4, <2>1, <2>2, <2>3, <2>4 DEF n
<1>10. CASE n = 4
  <2>1. PICK j \in 1 .. m : t.open[3].id = StepId(j) /\ s.id = ClientId(j)
    BY <1>1, <1>10 DEF Shaped, InStep
  <2>2. s.parent = t.open[3].id
    BY <1>6, <1>10
  <2>3. ParentOf(t, ClientId(j)) = StepId(j)
    <3>1. ~(j > m)
      BY <1>3
    <3>. QED  BY <3>1 DEF ParentOf, StepId, ClientId, StepCount
  <2>4. 3 \in 1 .. n - 1
    BY <1>10
  <2>. HIDE DEF s, m, n
  <2>. QED  BY <1>4, <2>1, <2>2, <2>3, <2>4 DEF n
<1>. QED  BY <1>5, <1>7, <1>8, <1>9, <1>10

(* A span ends: the collector gets it, or it is missed. *)
LEMMA EndedTraced ==
  ASSUME env \in Envs, NEW S, NEW r, NEW t \in Threads, ThreadInv(t), Complete,
         Traced(S, r, t), t.pc = "ending"
  PROVE  LET u == Settled([t EXCEPT !.open = Front(@)])
             s == Last(t.open)
             T == S \cup {[req |-> r, id |-> s.id, parent |-> s.parent]}
         IN  Traced(T, r, u)
<1>. DEFINE u == Settled([t EXCEPT !.open = Front(@)])
            s == Last(t.open)
            x == [req |-> r, id |-> s.id, parent |-> s.parent]
            T == S \cup {x}
            n == Len(t.open)
<1>1. /\ u \in Threads /\ u.body = t.body /\ u.sent = t.sent /\ u.missed = t.missed
      /\ u.open = Front(t.open)
      /\ u.pc = IF Len(u.open) <= t.keep THEN t.then ELSE "ending"
  BY EndSpanKeeps
<1>. HIDE DEF u
<1>2. u.pc \notin Unbegun /\ u.pc # "over"
  BY <1>1 DEF ThreadInv, Deep, Unbegun
<1>3. n \in Nat /\ n # 0 /\ DOMAIN t.open = 1 .. n /\ s = t.open[n]
  <2>1. n \in Nat /\ DOMAIN t.open = 1 .. n /\ t.keep \in Nat /\ t.keep < n
    BY SpanTypes DEF ThreadInv, Deep, Threads
  <2>2. s = t.open[n]
    BY DEF Last
  <2>. HIDE DEF n, s
  <2>. QED  BY <2>1, <2>2
<1>4. /\ s.parent = ParentOf(t, s.id)
      /\ s.parent \in {NoSpan, Remote} \cup {t.open[i].id : i \in 1 .. n - 1}
  BY <1>3, LastHangs
<1>5. OpenIds(u) = {t.open[i].id : i \in 1 .. n - 1} /\ OpenIds(t) = OpenIds(u) \cup {s.id}
  <2>1. Len(u.open) = n - 1 /\ \A i \in 1 .. n - 1 : u.open[i] = t.open[i]
    <3>1. Pops(t, u) /\ Len(t.open) > 0 /\ Chained(t)
      <4>1. Pops(t, u) /\ Chained(t)
        BY <1>1 DEF Pops, ThreadInv, Core
      <4>2. n > 0
        <5>. HIDE DEF n
        <5>. QED  BY <1>3
      <4>. QED  BY <4>1, <4>2
    <3>2. Len(u.open) = Len(t.open) - 1 /\ \A i \in 1 .. Len(u.open) : u.open[i] = t.open[i]
      BY <3>1, PopKeeps
    <3>. QED  BY <3>2
  <2>2. DOMAIN u.open = 1 .. Len(u.open)
    BY <1>1, SpanTypes
  <2>3. OpenIds(u) = {t.open[i].id : i \in 1 .. n - 1}
    BY <2>1, <2>2 DEF OpenIds
  <2>4. 1 .. n = (1 .. n - 1) \cup {n}
    <3>. HIDE DEF n
    <3>. QED  BY <1>3
  <2>5. OpenIds(t) = {t.open[i].id : i \in 1 .. n - 1} \cup {s.id}
    <3>. HIDE DEF n, s
    <3>. QED  BY <1>3, <2>4 DEF OpenIds
  <2>. QED  BY <2>3, <2>5
<1>6. x.req = r /\ x.id = s.id /\ x.parent = s.parent
  OBVIOUS
<1>. HIDE DEF x, s, n
<1>7. \A id : ParentOf(u, id) = ParentOf(t, id)
  BY <1>1 DEF ParentOf, StepList
<1>8. \A y \in T : y.req = r => y.parent = ParentOf(u, y.id)
  BY <1>4, <1>6, <1>7 DEF Traced
<1>9. IdsIn(T, r) = IdsIn(S, r) \cup {s.id}
  BY <1>6 DEF IdsIn
<1>10. ASSUME ~u.missed
       PROVE  /\ \A y \in T : y.req = r =>
                   y.parent \in IdsIn(T, r) \cup OpenIds(u) \cup {NoSpan, Remote}
              /\ \A i \in DOMAIN u.sent : u.sent[i] \in IdsIn(T, r) \cup OpenIds(u)
  <2>1. /\ \A y \in S : y.req = r => y.parent \in IdsIn(S, r) \cup OpenIds(t) \cup {NoSpan, Remote}
        /\ \A i \in DOMAIN t.sent : t.sent[i] \in IdsIn(S, r) \cup OpenIds(t)
    BY <1>1, <1>10 DEF Traced
  <2>2. x.parent \in OpenIds(u) \cup {NoSpan, Remote}
    BY <1>4, <1>5, <1>6
  <2>. QED  BY <1>1, <1>5, <1>9, <2>1, <2>2
<1>11. Traced(T, r, u)
  BY <1>2, <1>8, <1>10 DEF Traced
<1>. QED  BY <1>11 DEF u, x, s, T

LEMMA MissedTraced ==
  ASSUME env \in Envs, NEW S, NEW r, NEW t \in Threads, ThreadInv(t),
         Traced(S, r, t), t.pc = "ending"
  PROVE  LET u == Settled([t EXCEPT !.open = Front(@)])
         IN  Traced(S, r, [u EXCEPT !.missed = TRUE])
<1>. DEFINE u == Settled([t EXCEPT !.open = Front(@)])
            w == [u EXCEPT !.missed = TRUE]
<1>1. /\ u \in Threads /\ u.body = t.body
      /\ u.pc = IF Len(u.open) <= t.keep THEN t.then ELSE "ending"
  BY EndSpanKeeps
<1>. HIDE DEF u
<1>2. u.pc \notin Unbegun
  BY <1>1 DEF ThreadInv, Deep, Unbegun
<1>3. w.pc = u.pc /\ w.body = u.body /\ w.missed = TRUE
  BY <1>1 DEF Threads
<1>. HIDE DEF w
<1>4. \A id : ParentOf(w, id) = ParentOf(t, id)
  BY <1>1, <1>3 DEF ParentOf, StepList
<1>5. Traced(S, r, w)
  BY <1>2, <1>3, <1>4 DEF Traced
<1>. QED  BY <1>5 DEF u, w

LEMMA OtherTraced ==
  ASSUME NEW S, NEW r, NEW t, Traced(S, r, t), NEW x, x.req # r
  PROVE  Traced(S \cup {x}, r, t)
<1>1. IdsIn(S \cup {x}, r) = IdsIn(S, r)
  BY DEF IdsIn
<1>. QED  BY <1>1 DEF Traced

LEMMA EndSpanTraces ==
  ASSUME HandlersInv, Complete, \A q \in Reqs : Traced(spans, q, thread[q]),
         NEW r \in Reqs, EndSpan(r), NEW q \in Reqs
  PROVE  Traced(spans', q, thread'[q])
<1>. DEFINE t == thread[r]
            s == Last(t.open)
            x == [req |-> r, id |-> s.id, parent |-> s.parent]
            u == Settled([t EXCEPT !.open = Front(@)])
            w == [u EXCEPT !.missed = TRUE]
<1>1. /\ t \in Threads /\ ThreadInv(t) /\ env \in Envs /\ t.pc = "ending"
      /\ thread \in [Reqs -> Threads] /\ Traced(spans, r, t)
      /\ \/ spans' = spans \cup {x} /\ thread' = [thread EXCEPT ![r] = u]
         \/ spans' = spans /\ thread' = [thread EXCEPT ![r] = w]
  BY DEF HandlersInv, TypeOK, EndSpan
<1>2. x.req = r
  OBVIOUS
<1>3. CASE spans' = spans \cup {x} /\ thread' = [thread EXCEPT ![r] = u]
  <2>1. thread'[q] = IF q = r THEN u ELSE thread[q]
    BY <1>1, <1>3
  <2>2. Traced(spans', r, u)
    <3>. HIDE DEF t
    <3>1. Traced(spans \cup {x}, r, u)
      BY <1>1, EndedTraced, Zenon
    <3>. HIDE DEF x, u
    <3>. QED  BY <1>3, <3>1
  <2>3. q # r => Traced(spans', q, thread[q])
    <3>. HIDE DEF x
    <3>1. q # r => Traced(spans \cup {x}, q, thread[q])
      BY <1>2, OtherTraced
    <3>. QED  BY <1>3, <3>1
  <2>. HIDE DEF u
  <2>. QED  BY <2>1, <2>2, <2>3
<1>4. CASE spans' = spans /\ thread' = [thread EXCEPT ![r] = w]
  <2>1. thread'[q] = IF q = r THEN w ELSE thread[q]
    BY <1>1, <1>4
  <2>2. Traced(spans, r, w)
    <3>. HIDE DEF t
    <3>. QED  BY <1>1, MissedTraced
  <2>. HIDE DEF w
  <2>. QED  BY <1>4, <2>1, <2>2
<1>. QED  BY <1>1, <1>3, <1>4

LEMMA WorksTraces ==
  ASSUME HandlersInv, Complete, \A q \in Reqs : Traced(spans, q, thread[q]),
         NEW r \in Reqs, Connect(r) \/ Works(r) \/ Hear(r) \/ ClientGone(r), NEW q \in Reqs
  PROVE  Traced(spans', q, thread'[q])
<1>. DEFINE t == thread[r]
<1>0. t \in Threads /\ ThreadInv(t) /\ thread \in [Reqs -> Threads]
  BY DEF HandlersInv, TypeOK
<1>1. ASSUME NEW u, thread'[r] = u, q # r => thread'[q] = thread[q],
             Follows(t, u), spans' = spans
      PROVE  Traced(spans', q, thread'[q])
  <2>1. Traced(spans, r, u)
    BY <1>1, RegularTraced
  <2>. QED  BY <1>1, <2>1
<1>. HIDE DEF t
<1>2. CASE Ordinary(r)
  <2>1. RegularStep(r)
    BY <1>2, OrdinaryIsRegular
  <2>2. Follows(t, thread'[r]) /\ spans' = spans /\ (q # r => thread'[q] = thread[q])
    BY <2>1 DEF RegularStep, Regular, t
  <2>. QED  BY <1>1, <2>2
<1>3. CASE Count(r)
  <2>. DEFINE u == Ends(t, 0, "finally")
  <2>1. t.pc = "count" /\ thread' = [thread EXCEPT ![r] = u] /\ spans' = spans
    BY <1>3 DEF Count, Goes, t
  <2>2. Follows(t, u)
    BY <1>0, <2>1, CountFollows
  <2>. HIDE DEF u
  <2>3. thread'[r] = u /\ (q # r => thread'[q] = thread[q])
    BY <1>0, <2>1
  <2>. QED  BY <1>1, <2>1, <2>2, <2>3
<1>4. CASE Finally(r)
  <2>. DEFINE u == [t EXCEPT !.pc = "over"]
  <2>1. t.pc = "finally" /\ thread' = [thread EXCEPT ![r] = u] /\ spans' = spans
    BY <1>4 DEF Finally, Goes, t
  <2>2. Follows(t, u)
    BY <1>0, <2>1, FinallyFollows
  <2>. HIDE DEF u
  <2>3. thread'[r] = u /\ (q # r => thread'[q] = thread[q])
    BY <1>0, <2>1
  <2>. QED  BY <1>1, <2>1, <2>2, <2>3
<1>5. CASE EndSpan(r)
  BY <1>5, EndSpanTraces
<1>. QED  BY <1>2, <1>3, <1>4, <1>5 DEF Works, Ordinary

LEMMA TraceNext ==
  ASSUME HandlersInv, TraceInv, [Next]_vars
  PROVE  TraceInv'
<1>1. env' = env
  BY ThreadsNote DEF Next, vars, Runs, Rests, Enter, Configure, LegacyConfigure, Bind, Close, Exit,
                     Interrupt, Kill, ExportTick, Moves
<1>2. Complete' = Complete
  BY <1>1, EnvStays
<1>3. SUFFICES ASSUME Complete, NEW q \in Reqs PROVE Traced(spans', q, thread'[q])
  BY <1>2 DEF TraceInv
<1>4. \A r \in Reqs : Traced(spans, r, thread[r])
  BY <1>3 DEF TraceInv
<1>5. ASSUME NEW r \in Reqs, Connect(r) \/ Works(r) \/ Hear(r) \/ ClientGone(r)
      PROVE  Traced(spans', q, thread'[q])
  BY <1>3, <1>4, <1>5, WorksTraces
<1>6. CASE Runs \/ Interrupt \/ Kill
  <2>1. spans' = spans /\ (thread' = thread \/ thread'[q] \in {thread[q], Dead(thread[q])})
    BY <1>6 DEF Runs, Enter, Configure, LegacyConfigure, Bind, Close, Exit, Interrupt, Kill, Moves
  <2>2. Traced(spans, q, Dead(thread[q]))
    <3>1. thread[q] \in Threads
      BY DEF HandlersInv, TypeOK
    <3>. QED  BY <1>4, <3>1, DeadTraced
  <2>. QED  BY <1>4, <2>1, <2>2
<1>7. CASE ExportTick \/ UNCHANGED vars
  <2>1. spans' = spans /\ thread' = thread
    BY <1>7 DEF ExportTick, vars
  <2>. QED  BY <1>4, <2>1
<1>. QED  BY <1>5, <1>6, <1>7 DEF Next, Rests

LEMMA TraceIsKept ==
  Spec => []TraceInv
<1>1. Init => TraceInv
  <2>. SUFFICES ASSUME Init, NEW r \in Reqs PROVE Traced(spans, r, thread[r])
    BY DEF TraceInv
  <2>1. spans = {} /\ thread[r].pc = "none" /\ thread[r].sent = <<>>
    BY DEF Init, NoThread
  <2>. QED  BY <2>1 DEF Traced
<1>2. HandlersInv /\ TraceInv /\ [Next]_vars => TraceInv'
  BY TraceNext
<1>. QED  BY <1>1, <1>2, HandlersAreWell, PTL DEF Spec

LEMMA SentOnce ==
  ASSUME NEW t \in Threads, Sending(t), Complete
  PROVE  /\ \A i \in DOMAIN t.sent : t.sent[i][1] = "client"
         /\ IsInjective(t.sent)
<1>1. /\ \A i \in DOMAIN t.sent : \E n \in 1 .. t.k : t.sent[i] = ClientId(n)
      /\ \A i, j \in DOMAIN t.sent : i < j => t.sent[i][2] < t.sent[j][2]
  BY DEF Sending
<1>2. \A i \in DOMAIN t.sent : t.sent[i][1] = "client" /\ t.sent[i][2] \in Nat
  <2>1. \A n \in 1 .. t.k : ClientId(n)[1] = "client" /\ ClientId(n)[2] \in Nat
    BY DEF ClientId, Threads
  <2>. QED  BY <1>1, <2>1
<1>3. \A i, j \in DOMAIN t.sent : i \in Nat /\ (i # j => i < j \/ j < i)
  <2>. DEFINE n == Len(t.sent)
  <2>1. n \in Nat /\ DOMAIN t.sent = 1 .. n
    BY SpanTypes
  <2>. HIDE DEF n
  <2>. QED  BY <2>1
<1>4. \A i, j \in DOMAIN t.sent : t.sent[i] = t.sent[j] => i = j
  <2>. SUFFICES ASSUME NEW i \in DOMAIN t.sent, NEW j \in DOMAIN t.sent, i # j
                PROVE  t.sent[i] # t.sent[j]
    OBVIOUS
  <2>. DEFINE a == t.sent[i][2]
              b == t.sent[j][2]
  <2>1. a \in Nat /\ b \in Nat
    BY <1>2
  <2>2. a < b \/ b < a
    BY <1>1, <1>3
  <2>. HIDE DEF a, b
  <2>3. a # b
    BY <2>1, <2>2
  <2>. QED  BY <2>3 DEF a, b
<1>. QED  BY <1>2, <1>4 DEF IsInjective

(* Of whatever requests come at a time, with steps of any number, every span that
   is exported hangs where the code begins it - the hop under the traceparent of
   the caller, a POST's span under the step or the hop that makes it - and no two
   POSTs of a request carry the same span, nor any but a CLIENT span: the context
   managers of Handler and what _forward_to_next injects. *)
THEOREM TracesContinue ==
  Spec => []TraceContinues
<1>1. HandlersInv /\ TraceInv => TraceContinues
  <2>. SUFFICES ASSUME HandlersInv, TraceInv, Complete, NEW r \in Reqs
                PROVE  /\ \A s \in spans : s.req = r => s.parent = ParentOf(thread[r], s.id)
                       /\ \A i \in DOMAIN thread[r].sent : thread[r].sent[i][1] = "client"
                       /\ IsInjective(thread[r].sent)
    BY DEF TraceContinues, ParentOf
  <2>1. thread[r] \in Threads /\ Sending(thread[r])
    BY DEF HandlersInv, TypeOK, ThreadInv, Core
  <2>2. \A s \in spans : s.req = r => s.parent = ParentOf(thread[r], s.id)
    BY DEF TraceInv, Traced
  <2>. QED  BY <2>1, <2>2, SentOnce
<1>. QED  BY <1>1, HandlersAreWell, TraceIsKept, PTL

(* However its handler ended, early or late, a request that is over has a whole
   trace at the collector, unless an export of its own failed or the process was
   shut down on the way: every span with its parent, every POST with its CLIENT
   span. *)
THEOREM TracesAreWhole ==
  Spec => []TraceIsWhole
<1>1. HandlersInv /\ TraceInv => TraceIsWhole
  <2>. SUFFICES ASSUME HandlersInv, TraceInv, Complete, NEW r \in Reqs, thread[r].pc = "over",
                       ~thread[r].missed
                PROVE  /\ \A s \in spans : s.req = r =>
                             s.parent \in IdsIn(spans, r) \cup {NoSpan, Remote}
                       /\ ToSet(thread[r].sent) \subseteq IdsIn(spans, r)
    BY DEF TraceIsWhole, IdsIn
  <2>1. /\ \A s \in spans : s.req = r =>
             s.parent \in IdsIn(spans, r) \cup OpenIds(thread[r]) \cup {NoSpan, Remote}
        /\ \A i \in DOMAIN thread[r].sent :
             thread[r].sent[i] \in IdsIn(spans, r) \cup OpenIds(thread[r])
        /\ Len(thread[r].open) = 0
    BY DEF TraceInv, Traced
  <2>2. thread[r] \in Threads
    BY DEF HandlersInv, TypeOK
  <2>3. DOMAIN thread[r].open = {}
    BY <2>1, <2>2, SpanTypes
  <2>. QED  BY <2>1, <2>3 DEF ToSet, OpenIds
<1>. QED  BY <1>1, HandlersAreWell, TraceIsKept, PTL
=============================================================================
