---------------------------- MODULE PipelineProofs ----------------------------
(***************************************************************************)
(* What holds of Pipeline for every set of containers, routes and bounds:  *)
(* its type invariant, LogTellsRoute and OpenCallsFormStack.               *)
(*                                                                         *)
(* TypeOK is not inductive alone: that a POST goes to a container needs a  *)
(* segment to send it for, hence that a nested_route which is executed is  *)
(* not empty (admission, or java's late check, has seen to it) and that a  *)
(* message which is forwarded has a segment left.  CallInv says both; it   *)
(* also places the handler on its route, which is what LogTellsRoute needs *)
(* to survive MarkVisited.                                                 *)
(***************************************************************************)
EXTENDS Pipeline, SequenceTheorems, TLAPS

Live == {"work", "wait", "retry"}

(* The message p has been through the first k segments of its route.       *)
Through(p, k) ==
  /\ k \in 0 .. Len(Hops[p.route])
  /\ p.visited = 1 .. k
  /\ p.log = [i \in 1 .. k |-> Hops[p.route][i].id]
  /\ p.table = p.log
  /\ p.counter = k

(* A step whose nested_route a worker posts.                               *)
PostsNested(lang, id, s) == StepIsNested(lang, s) /\ ~StepFails(lang, id, s)

(* No nested_route that is posted is empty.                                *)
NestedNotEmpty(lang, id, steps) ==
  \A k \in DOMAIN steps : PostsNested(lang, id, steps[k]) => Hops[steps[k]] # <<>>

(* The handler of x is at segment x.at, marked visited once its steps are  *)
(* done; a handler that waits within the steps has posted a nested_route.  *)
AtItsHop(x) ==
  LET segs == Hops[x.pay.route]
  IN  /\ x.at \in 1 .. Len(segs)
      /\ segs[x.at].id = IdOf[x.node]
      /\ x.step \in 1 .. Len(segs[x.at].steps) + 1
      /\ NestedNotEmpty(LangOf[x.node], IdOf[x.node], segs[x.at].steps)
      /\ IF x.pc = "work" \/ x.step <= Len(segs[x.at].steps)
         THEN Through(x.pay, x.at - 1)
         ELSE Through(x.pay, x.at) /\ x.at < Len(segs)
      /\ x.pc # "work" /\ x.step <= Len(segs[x.at].steps) =>
           PostsNested(LangOf[x.node], IdOf[x.node], segs[x.at].steps[x.step])

CallInv(x) ==
  /\ \E k \in Nat : Through(x.pay, k)
  /\ x.pc \in Live => AtItsHop(x)
  /\ x.pc = "done" <=> x.result # "none"
  /\ x.pc \in {"wait", "retry"} => x.sub # Client

CallsInv(cs) ==
  /\ cs \in Seq(Calls)
  /\ Len(cs) <= MaxCalls
  /\ \A c \in DOMAIN cs : CallInv(cs[c]) /\ cs[c].sub <= Len(cs)

IInv ==
  /\ CallsInv(call)
  /\ posted \in 0 .. MaxPosts
  /\ up \in SUBSET Nodes
  /\ crashes \in 0 .. MaxCrashes

-----------------------------------------------------------------------------
(* The message.                                                            *)

(* A fresh message has been nowhere. *)
LEMMA FreshThrough ==
  ASSUME NEW r \in Routes
  PROVE  Fresh(r) \in Payloads /\ Through(Fresh(r), 0)
<1>1. Hops[r] \in Seq(Segments)
  BY HopsAssumption
<1>2. <<>> = [i \in 1 .. 0 |-> Hops[r][i].id]
  OBVIOUS
<1>3. <<>> \in Seq(Ids) /\ 1 .. 0 = {}
  OBVIOUS
<1>4. Len(Hops[r]) \in Nat
  BY <1>1
<1> QED
  BY <1>2, <1>3, <1>4 DEF Fresh, Payloads, Through

(* The first unvisited segment of a message that has been through k of them. *)
LEMMA NextSegment ==
  ASSUME NEW p \in Payloads, NEW k \in Nat, Through(p, k)
  PROVE  /\ Complete(p) <=> k = Len(Hops[p.route])
         /\ ~Complete(p) => /\ FirstUnvisited(p) = k + 1
                            /\ k + 1 \in 1 .. Len(Hops[p.route])
                            /\ Segment(p) \in Segments
<1>1. p.route \in Routes /\ Hops[p.route] \in Seq(Segments)
  BY HopsAssumption DEF Payloads
<1> DEFINE n == Len(Hops[p.route])
<1>2. n \in Nat /\ DOMAIN Hops[p.route] = 1 .. n
  BY <1>1
<1>3. Unvisited(p) = (k + 1) .. n /\ k <= n
  BY <1>2 DEF Unvisited, Through
<1>4. Complete(p) <=> k = n
  <2>1. k = n => (k + 1) .. n = {}
    BY <1>2
  <2>2. k # n => k + 1 \in (k + 1) .. n
    BY <1>2, <1>3
  <2> QED
    BY <1>3, <2>1, <2>2 DEF Complete
<1>5. ASSUME ~Complete(p)
      PROVE  FirstUnvisited(p) = k + 1 /\ k + 1 \in 1 .. n
  <2>1. k + 1 <= n
    BY <1>2, <1>3, <1>4, <1>5
  <2>2. k + 1 \in Unvisited(p) /\ \A j \in Unvisited(p) : k + 1 <= j
    BY <1>2, <1>3, <2>1
  <2>3. \A i \in Unvisited(p) : (\A j \in Unvisited(p) : i <= j) => i = k + 1
    BY <1>2, <1>3, <2>2
  <2> QED
    BY <2>1, <2>2, <2>3, <1>2 DEF FirstUnvisited
<1>6. ~Complete(p) => Segment(p) \in Segments
  BY <1>1, <1>2, <1>5, ElementOfSeq DEF Segment
<1> QED
  BY <1>4, <1>5, <1>6

(* Marking the next segment takes the message one segment further. *)
LEMMA MarkedThrough ==
  ASSUME NEW p \in Payloads, NEW k \in Nat, Through(p, k), k + 1 <= Len(Hops[p.route]),
         NEW id \in Ids, id = Hops[p.route][k + 1].id
  PROVE  MarkVisited(p, k + 1, id) \in Payloads /\ Through(MarkVisited(p, k + 1, id), k + 1)
<1> DEFINE q == MarkVisited(p, k + 1, id)
<1>1. p.route \in Routes /\ Hops[p.route] \in Seq(Segments) /\ Len(Hops[p.route]) \in Nat
  BY HopsAssumption DEF Payloads
<1>2. p.log \in Seq(Ids) /\ p.table \in Seq(Ids) /\ p.visited \in SUBSET Nat /\ p.counter \in Nat
  BY DEF Payloads
<1>3. p.visited = 1 .. k /\ p.table = p.log /\ p.counter = k
  BY Zenon DEF Through
<1>4. p.log = [i \in 1 .. k |-> Hops[p.route][i].id]
  BY Zenon DEF Through
<1>5. /\ q.route = p.route /\ q.visited = p.visited \cup {k + 1}
      /\ q.log = Append(p.log, id) /\ q.table = Append(p.table, id)
      /\ q.counter = p.counter + 1
  BY DEF MarkVisited, Payloads
<1> HIDE DEF q
<1>6. q.log = [i \in 1 .. k + 1 |-> Hops[q.route][i].id]
  <2>1. Len(p.log) = k
    BY <1>2, <1>4
  <2>2. Append(p.log, id) = [i \in 1 .. k + 1 |-> Hops[p.route][i].id]
    BY <1>2, <1>4, <2>1
  <2> QED
    BY <1>5, <2>2, Zenon
<1>7. q.visited = 1 .. k + 1
  <2>1. (1 .. k) \cup {k + 1} = 1 .. k + 1
    OBVIOUS
  <2> QED
    BY <1>3, <1>5, <2>1
<1>8. q.table = q.log /\ q.counter = k + 1 /\ k + 1 \in 0 .. Len(Hops[q.route])
  BY <1>1, <1>3, <1>5
<1>9. Through(q, k + 1)
  BY <1>6, <1>7, <1>8, Zenon DEF Through
<1>10. q \in Payloads
  <2>1. p.visited \cup {k + 1} \in SUBSET Nat /\ p.counter + 1 \in Nat
    BY <1>2
  <2>2. Append(p.log, id) \in Seq(Ids) /\ Append(p.table, id) \in Seq(Ids)
    BY <1>2
  <2> QED
    BY <2>1, <2>2 DEF q, MarkVisited, Payloads
<1> QED
  BY <1>9, <1>10 DEF q

-----------------------------------------------------------------------------
(* Sequences of calls: what the handlers do to them.                       *)

(* One call changes. *)
LEMMA ReplaceOne ==
  ASSUME NEW cs, CallsInv(cs), NEW c \in DOMAIN cs,
         NEW x \in Calls, CallInv(x), x.sub <= Len(cs)
  PROVE  /\ CallsInv([cs EXCEPT ![c] = x])
         /\ Len([cs EXCEPT ![c] = x]) = Len(cs)
         /\ DOMAIN [cs EXCEPT ![c] = x] = DOMAIN cs
<1> DEFINE ds == [cs EXCEPT ![c] = x]
<1>1. cs \in Seq(Calls) /\ Len(cs) <= MaxCalls /\ Len(cs) \in Nat /\ DOMAIN cs = 1 .. Len(cs)
  BY DEF CallsInv
<1>2. /\ ds \in Seq(Calls) /\ Len(ds) = Len(cs) /\ DOMAIN ds = DOMAIN cs
      /\ \A d \in DOMAIN cs : ds[d] = IF d = c THEN x ELSE cs[d]
  BY <1>1, ExceptSeq
<1> HIDE DEF ds
<1>3. \A d \in DOMAIN ds : CallInv(ds[d]) /\ ds[d].sub <= Len(ds)
  BY <1>2 DEF CallsInv
<1>4. CallsInv(ds)
  BY <1>1, <1>2, <1>3 DEF CallsInv
<1> QED
  BY <1>2, <1>4 DEF ds

(* A call is made, by a client or by the handler that has just changed. *)
LEMMA AddOne ==
  ASSUME NEW cs \in Seq(Calls), Len(cs) < MaxCalls,
         \A c \in DOMAIN cs : CallInv(cs[c]) /\ cs[c].sub <= Len(cs) + 1,
         NEW y \in Calls, CallInv(y), y.sub = Client
  PROVE  CallsInv(Append(cs, y))
<1> DEFINE ds == Append(cs, y)
<1>1. Len(cs) \in Nat /\ MaxCalls \in Nat /\ DOMAIN cs = 1 .. Len(cs)
  BY BoundsAssumption
<1>2. /\ ds \in Seq(Calls) /\ Len(ds) = Len(cs) + 1
      /\ \A c \in 1 .. Len(cs) : ds[c] = cs[c]
      /\ ds[Len(cs) + 1] = y
  BY AppendProperties
<1>3. DOMAIN ds = 1 .. Len(cs) + 1
  BY <1>2
<1> HIDE DEF ds
<1>4. ASSUME NEW c \in DOMAIN ds PROVE CallInv(ds[c]) /\ ds[c].sub <= Len(ds)
  <2>1. CASE c \in 1 .. Len(cs)
    BY <1>1, <1>2, <2>1
  <2>2. CASE c = Len(cs) + 1
    BY <1>1, <1>2, <2>2 DEF Client
  <2> QED
    BY <1>1, <1>3, <2>1, <2>2
<1> QED
  BY <1>1, <1>2, <1>4 DEF CallsInv, ds

-----------------------------------------------------------------------------
(* Single calls.                                                           *)

(* A POST that arrives, or is refused, is well-formed if its message is. *)
LEMMA ArrivalInv ==
  ASSUME NEW n \in Nodes, NEW from \in CallIds \cup {Client}, NEW slot \in Nat,
         NEW p \in Payloads, NEW k \in Nat, Through(p, k)
  PROVE  /\ Arrival(n, from, slot, p) \in Calls
         /\ CallInv(Arrival(n, from, slot, p))
         /\ Arrival(n, from, slot, p).sub = Client
<1> DEFINE y == Arrival(n, from, slot, p)
<1>1. /\ y.pay = p /\ y.sub = Client
      /\ \/ y.pc = "sent" /\ y.result = "none"
         \/ y.pc = "done" /\ y.result = "refused"
  BY DEF Arrival
<1>2. y \in Calls
  BY DEF Arrival, Calls, Client, Outcomes, Faults
<1> HIDE DEF y
<1>3. CallInv(y)
  BY <1>1 DEF CallInv, Live
<1> QED
  BY <1>1, <1>2, <1>3 DEF y

(* A call that has ended is well-formed if its message is. *)
LEMMA EndedInv ==
  ASSUME NEW x \in Calls, NEW k \in Nat, Through(x.pay, k), NEW o \in Outcomes
  PROVE  /\ Ended(x, o) \in Calls /\ CallInv(Ended(x, o))
         /\ Ended(x, o).sub = x.sub
<1> DEFINE y == Ended(x, o)
<1>1. y.pay = x.pay /\ y.sub = x.sub /\ y.pc = "done" /\ y.result = o
  BY DEF Ended, Calls
<1>2. y \in Calls
  BY DEF Ended, Calls
<1>3. o # "none"
  BY DEF Outcomes, Statuses, Faults
<1> HIDE DEF y
<1>4. CallInv(y)
  BY <1>1, <1>3 DEF CallInv, Live
<1> QED
  BY <1>1, <1>2, <1>4 DEF y

(* A caller that hangs up changes nothing else. *)
LEMMA ClosedInv ==
  ASSUME NEW x \in Calls, CallInv(x), NEW b \in BOOLEAN
  PROVE  /\ [x EXCEPT !.open = b] \in Calls /\ CallInv([x EXCEPT !.open = b])
         /\ [x EXCEPT !.open = b].sub = x.sub
<1> DEFINE y == [x EXCEPT !.open = b]
<1>1. /\ y.node = x.node /\ y.pay = x.pay /\ y.pc = x.pc /\ y.at = x.at /\ y.step = x.step
      /\ y.sub = x.sub /\ y.result = x.result
  BY DEF Calls
<1>2. y \in Calls
  BY DEF Calls
<1> HIDE DEF y
<1>3. CallInv(y)
  BY <1>1 DEF CallInv, AtItsHop
<1> QED
  BY <1>1, <1>2, <1>3 DEF y

(* Types of the parts of a call that is being worked on. *)
LEMMA HopTypes ==
  ASSUME NEW x \in Calls
  PROVE  /\ x.node \in Nodes /\ LangOf[x.node] \in Langs /\ IdOf[x.node] \in Ids
         /\ x.pay \in Payloads /\ x.pay.route \in Routes
         /\ Hops[x.pay.route] \in Seq(Segments) /\ Len(Hops[x.pay.route]) \in Nat
         /\ \A i \in 1 .. Len(Hops[x.pay.route]) :
              LET s == Hops[x.pay.route][i]
              IN  /\ s \in Segments /\ s.id \in Ids
                  /\ s.steps \in Seq(Steps) /\ Len(s.steps) \in Nat
<1>1. x.node \in Nodes /\ x.pay \in Payloads
  BY DEF Calls
<1>2. LangOf[x.node] \in Langs /\ IdOf[x.node] \in Ids
  BY <1>1, NodesAssumption
<1>3. x.pay.route \in Routes
  BY <1>1 DEF Payloads
<1>4. Hops[x.pay.route] \in Seq(Segments) /\ Len(Hops[x.pay.route]) \in Nat
  BY <1>3, HopsAssumption
<1>5. \A i \in 1 .. Len(Hops[x.pay.route]) : Hops[x.pay.route][i] \in Segments
  BY <1>4, ElementOfSeq
<1>6. \A s \in Segments : s.id \in Ids /\ s.steps \in Seq(Steps) /\ Len(s.steps) \in Nat
  BY DEF Segments
<1> QED
  BY <1>1, <1>2, <1>3, <1>4, <1>5, <1>6

(* What every language makes sure of before it starts on a segment. *)
LEMMA AdmitsMeans ==
  ASSUME NEW lang \in Langs, NEW id, NEW p, Admits(lang, id, p)
  PROVE  ~Complete(p) /\ Segment(p).id = id /\ NestedNotEmpty(lang, id, Segment(p).steps)
<1> DEFINE steps == Segment(p).steps
<1>1. \A k \in DOMAIN steps : steps[k] \in StepsOf(p)
  BY DEF StepsOf
<1>2. CASE lang = "py"
  BY <1>1, <1>2 DEF Admits, PyAdmits, Addressed, PyStepOk, NestedOk, NestedNotEmpty, PostsNested, StepIsNested
<1>3. CASE lang = "rs"
  BY <1>1, <1>3 DEF Admits, RsAdmits, Addressed, RsStepOk, NestedOk, NestedNotEmpty, PostsNested, StepIsNested
<1>4. CASE lang = "go"
  BY <1>1, <1>4 DEF Admits, GoAdmits, Addressed, NestedNotEmpty, PostsNested, StepIsNested
<1>5. CASE lang = "ja"
  BY <1>5 DEF Admits, JaAdmits, Addressed, NestedNotEmpty, PostsNested, StepIsNested, StepFails, JaStepFails
<1>6. CASE lang = "cs"
  BY <1>1, <1>6 DEF Admits, CsAdmits, Addressed, NestedNotEmpty, PostsNested, StepIsNested
<1>7. CASE lang = "js"
  BY <1>1, <1>7 DEF Admits, JsAdmits, Addressed, JsStepOk, NestedOk, NestedNotEmpty, PostsNested, StepIsNested
<1> QED
  BY <1>2, <1>3, <1>4, <1>5, <1>6, <1>7 DEF Langs

(* A handler starts at the first step of the first unvisited segment. *)
LEMMA BegunInv ==
  ASSUME NEW x \in Calls, CallInv(x), x.pc = "sent",
         Admits(LangOf[x.node], IdOf[x.node], x.pay)
  PROVE  /\ Begun(x) \in Calls /\ CallInv(Begun(x))
         /\ Begun(x).sub = x.sub
<1> DEFINE y == Begun(x)
<1>1. PICK k \in Nat : Through(x.pay, k)
  BY DEF CallInv
<1>2. /\ ~Complete(x.pay) /\ Segment(x.pay).id = IdOf[x.node]
      /\ NestedNotEmpty(LangOf[x.node], IdOf[x.node], Segment(x.pay).steps)
  BY AdmitsMeans, HopTypes
<1>3. /\ FirstUnvisited(x.pay) = k + 1 /\ k + 1 \in 1 .. Len(Hops[x.pay.route])
      /\ Segment(x.pay) = Hops[x.pay.route][k + 1]
  BY <1>1, <1>2, NextSegment, HopTypes DEF Segment
<1>4. /\ y.node = x.node /\ y.pay = x.pay /\ y.sub = x.sub /\ y.result = x.result
      /\ y.pc = "work" /\ y.at = k + 1 /\ y.step = 1
  BY <1>3 DEF Begun, Calls
<1>5. y \in Calls
  <2>1. FirstUnvisited(x.pay) \in Nat
    BY <1>3
  <2> QED
    BY <2>1 DEF Begun, Calls
<1> HIDE DEF y
<1>6. AtItsHop(y)
  <2>1. Len(Hops[x.pay.route][k + 1].steps) \in Nat
    BY <1>3, HopTypes
  <2>2. 1 \in 1 .. Len(Hops[x.pay.route][k + 1].steps) + 1
    <3>1. \A n \in Nat : 1 \in 1 .. n + 1
      OBVIOUS
    <3> QED
      BY <2>1, <3>1, Zenon
  <2> DEFINE hop == Hops[x.pay.route][k + 1]
  <2>3. hop.id = IdOf[x.node] /\ NestedNotEmpty(LangOf[x.node], IdOf[x.node], hop.steps)
    BY <1>2, <1>3
  <2>4. Through(y.pay, y.at - 1)
    BY <1>1, <1>4
  <2> QED
    BY <1>3, <1>4, <2>2, <2>3, <2>4 DEF AtItsHop
<1>7. CallInv(y)
  BY <1>1, <1>4, <1>6 DEF CallInv, Live
<1> QED
  BY <1>4, <1>5, <1>7 DEF y

(* A call that is being worked on, at its place. *)
LEMMA LiveInv ==
  ASSUME NEW y \in Calls, y.pc \in Live, y.result = "none", AtItsHop(y),
         y.pc \in {"wait", "retry"} => y.sub # Client
  PROVE  CallInv(y)
<1>1. \E k \in Nat : Through(y.pay, k)
  <2>1. y.at \in Nat /\ y.at - 1 \in Nat
    BY HopTypes DEF AtItsHop
  <2> QED
    BY <2>1 DEF AtItsHop
<1> QED
  BY <1>1 DEF CallInv, Live

(* The handler has done its current step. *)
LEMMA SteppedInv ==
  ASSUME NEW x \in Calls, CallInv(x), x.pc \in Live,
         x.step <= Len(Hops[x.pay.route][x.at].steps), NEW t \in Nat
  PROVE  LET y == [x EXCEPT !.pc = "work", !.step = @ + 1, !.tries = t]
         IN  y \in Calls /\ CallInv(y) /\ y.sub = x.sub
<1> DEFINE y == [x EXCEPT !.pc = "work", !.step = @ + 1, !.tries = t]
           n == Len(Hops[x.pay.route][x.at].steps)
<1>1. AtItsHop(x) /\ x.result = "none"
  BY DEF CallInv, Live
<1>2. n \in Nat /\ x.step \in 1 .. n + 1
  BY <1>1, HopTypes DEF AtItsHop
<1>3. x.step + 1 \in 1 .. n + 1 /\ x.step + 1 \in Nat
  <2>1. \A m \in Nat : \A i \in 1 .. m + 1 : i <= m => i + 1 \in 1 .. m + 1 /\ i + 1 \in Nat
    OBVIOUS
  <2> QED
    BY <1>2, <2>1, Zenon
<1>4. /\ y.node = x.node /\ y.pay = x.pay /\ y.sub = x.sub /\ y.result = x.result
      /\ y.pc = "work" /\ y.at = x.at /\ y.step = x.step + 1
  BY DEF Calls
<1>5. y \in Calls
  BY <1>3 DEF Calls
<1> HIDE DEF y
<1>6. AtItsHop(y)
  BY <1>1, <1>3, <1>4 DEF AtItsHop
<1>7. CallInv(y)
  BY <1>1, <1>4, <1>5, <1>6, LiveInv DEF Live
<1> QED
  BY <1>4, <1>5, <1>7 DEF y

(* The handler of x has made call j. *)
Waiting(x, j) == [x EXCEPT !.pc = "wait", !.sub = j, !.tries = @ + 1]

(* A handler that waits for the POST it has just made is still a call. *)
LEMMA WaitingType ==
  ASSUME NEW x \in Calls, NEW j \in CallIds
  PROVE  Waiting(x, j) \in Calls
<1>1. x.tries + 1 \in Nat
  BY DEF Calls
<1>2. j \in CallIds \cup {Client}
  OBVIOUS
<1> QED
  BY <1>1, <1>2 DEF Calls, Waiting

(* A handler waits at the place it posts from. *)
LEMMA WaitingInv ==
  ASSUME NEW x \in Calls, CallInv(x), NEW j \in CallIds,
         \/ /\ x.pc = "work" /\ x.step <= Len(Hops[x.pay.route][x.at].steps)
            /\ PostsNested(LangOf[x.node], IdOf[x.node], Hops[x.pay.route][x.at].steps[x.step])
         \/ x.pc = "retry"
  PROVE  Waiting(x, j) \in Calls /\ CallInv(Waiting(x, j))
<1> DEFINE y == Waiting(x, j)
<1>1. AtItsHop(x) /\ x.result = "none"
  BY DEF CallInv, Live
<1>2. /\ y.node = x.node /\ y.pay = x.pay /\ y.sub = j /\ y.result = x.result
      /\ y.pc = "wait" /\ y.at = x.at /\ y.step = x.step
  BY DEF Calls, Waiting
<1>3. y \in Calls
  BY WaitingType
<1>4. j # Client
  BY DEF CallIds, Client
<1> HIDE DEF y
<1>5. AtItsHop(y)
  BY <1>1, <1>2 DEF AtItsHop
<1>6. CallInv(y)
  BY <1>1, <1>2, <1>3, <1>4, <1>5, LiveInv DEF Live
<1> QED
  BY <1>3, <1>6 DEF y

(* A handler that has done its last step: the message is one segment further,
   and if there is another one the handler can wait for it. *)
LEMMA MarkedInv ==
  ASSUME NEW x \in Calls, CallInv(x), x.pc = "work",
         ~(x.step <= Len(Hops[x.pay.route][x.at].steps))
  PROVE  LET q == MarkVisited(x.pay, x.at, IdOf[x.node])
             me == [x EXCEPT !.pay = q]
         IN  /\ q \in Payloads /\ x.at \in Nat /\ Through(q, x.at)
             /\ me \in Calls /\ me.sub = x.sub /\ me.node = x.node /\ me.step = x.step
             /\ ~Complete(q) => \A j \in CallIds :
                                  Waiting(me, j) \in Calls /\ CallInv(Waiting(me, j))
<1> DEFINE q == MarkVisited(x.pay, x.at, IdOf[x.node])
           me == [x EXCEPT !.pay = q]
<1>1. AtItsHop(x) /\ x.result = "none"
  BY DEF CallInv, Live
<1>2. /\ x.at \in 1 .. Len(Hops[x.pay.route]) /\ Len(Hops[x.pay.route]) \in Nat
      /\ IdOf[x.node] = Hops[x.pay.route][x.at].id
      /\ Through(x.pay, x.at - 1)
  BY <1>1, HopTypes DEF AtItsHop
<1>3. x.at \in Nat /\ x.at - 1 \in Nat /\ (x.at - 1) + 1 = x.at
  BY <1>2
<1>4. q \in Payloads /\ Through(q, x.at)
  <2>1. x.pay \in Payloads /\ IdOf[x.node] \in Ids
    BY HopTypes
  <2>2. (x.at - 1) + 1 <= Len(Hops[x.pay.route])
    BY <1>2, <1>3
  <2>3. /\ MarkVisited(x.pay, (x.at - 1) + 1, IdOf[x.node]) \in Payloads
        /\ Through(MarkVisited(x.pay, (x.at - 1) + 1, IdOf[x.node]), (x.at - 1) + 1)
    <3> DEFINE k == x.at - 1
    <3>1. IdOf[x.node] = Hops[x.pay.route][k + 1].id
      BY <1>2, <1>3
    <3> HIDE DEF k
    <3> QED
      BY <1>2, <1>3, <2>1, <2>2, <3>1, MarkedThrough DEF k
  <2> QED
    BY <1>3, <2>3
<1>5. me \in Calls /\ me.sub = x.sub /\ me.node = x.node /\ me.step = x.step
  BY <1>4 DEF Calls
<1>6. ASSUME ~Complete(q), NEW j \in CallIds
      PROVE  Waiting(me, j) \in Calls /\ CallInv(Waiting(me, j))
  <2> DEFINE y == Waiting(me, j)
  <2>1. /\ y.node = x.node /\ y.pay = q /\ y.sub = j /\ y.result = x.result
        /\ y.pc = "wait" /\ y.at = x.at /\ y.step = x.step
    BY <1>5 DEF Calls, Waiting
  <2>2. y \in Calls
    BY <1>5, WaitingType
  <2>3. q.route = x.pay.route
    BY DEF MarkVisited, Calls, Payloads
  <2>4. x.at < Len(Hops[q.route])
    BY <1>2, <1>3, <1>4, <1>6, <2>3, NextSegment
  <2>5. j # Client
    BY DEF CallIds, Client
  <2> HIDE DEF y, q
  <2>6. AtItsHop(y)
    BY <1>1, <1>4, <2>1, <2>3, <2>4 DEF AtItsHop
  <2>7. CallInv(y)
    BY <1>1, <2>1, <2>2, <2>5, <2>6, LiveInv DEF Live
  <2> QED
    BY <2>2, <2>7 DEF y
<1> QED
  BY <1>3, <1>4, <1>5, <1>6

(* go sleeps before it posts again. *)
LEMMA RetryInv ==
  ASSUME NEW x \in Calls, CallInv(x), x.pc \in {"wait", "retry"}
  PROVE  /\ [x EXCEPT !.pc = "retry"] \in Calls /\ CallInv([x EXCEPT !.pc = "retry"])
         /\ [x EXCEPT !.pc = "retry"].sub = x.sub
<1> DEFINE y == [x EXCEPT !.pc = "retry"]
<1>1. AtItsHop(x) /\ x.result = "none" /\ x.sub # Client
  BY DEF CallInv, Live
<1>2. /\ y.node = x.node /\ y.pay = x.pay /\ y.sub = x.sub /\ y.result = x.result
      /\ y.pc = "retry" /\ y.at = x.at /\ y.step = x.step
  BY DEF Calls
<1>3. y \in Calls
  BY DEF Calls
<1> HIDE DEF y
<1>4. AtItsHop(y)
  BY <1>1, <1>2 DEF AtItsHop
<1>5. CallInv(y)
  BY <1>1, <1>2, <1>3, <1>4, LiveInv DEF Live
<1> QED
  BY <1>2, <1>3, <1>5 DEF y

(* A handler goes on, or answers with a status. *)
LEMMA AfterTypes ==
  ASSUME NEW lang \in Langs, NEW o \in Outcomes
  PROVE  AfterNested(lang, o) \in Outcomes \cup {"next"} /\ AfterForward(lang, o) \in Outcomes
<1>1. AfterNested(lang, o) \in {"next", "502", "500"}
  BY DEF AfterNested, Langs, PyAfterNested, RsAfterNested, GoAfterNested, JaAfterNested,
         JsAfterNested, CsAfterNested
<1>2. AfterForward(lang, o) \in {o, "200", "502", "500"}
  BY DEF AfterForward, Langs, PyAfterForward, RsAfterForward, GoAfterForward, JaAfterForward,
         JsAfterForward, CsAfterForward
<1>3. {"200", "502", "500"} \subseteq Outcomes
  BY DEF Outcomes, Statuses
<1> QED
  BY <1>1, <1>2, <1>3

(* The handler of c is well-formed again once it has an outcome. *)
LEMMA ResumedInv ==
  ASSUME CallsInv(call), NEW c \in DOMAIN call, call[c].pc \in {"wait", "retry"},
         NEW o \in Outcomes
  PROVE  /\ call[c].sub \in DOMAIN call
         /\ Resumed(c, o) \in Calls /\ CallInv(Resumed(c, o))
         /\ Resumed(c, o).sub = call[c].sub
<1> DEFINE me == call[c]
           nested == AfterNested(Lang(c), o)
           answer == AfterForward(Lang(c), o)
<1>1. /\ call \in Seq(Calls) /\ DOMAIN call = 1 .. Len(call) /\ Len(call) \in Nat
      /\ me \in Calls /\ CallInv(me) /\ me.sub <= Len(call)
  BY ElementOfSeq DEF CallsInv
<1>2. me.sub \in CallIds /\ me.sub \in Nat /\ me.sub >= 1
  <2>1. me.sub # Client
    BY <1>1 DEF CallInv
  <2>2. me.sub \in CallIds
    BY <1>1, <2>1 DEF Calls
  <2> QED
    BY <2>2, BoundsAssumption DEF CallIds
<1>3. me.sub \in DOMAIN call
  BY <1>1, <1>2
<1>4. PICK k \in Nat : Through(me.pay, k)
  BY <1>1 DEF CallInv
<1>5. nested \in Outcomes \cup {"next"} /\ answer \in Outcomes
  BY <1>1, AfterTypes, HopTypes DEF Lang
<1> HIDE DEF nested, answer
<1>6. CASE PostsAgain(Lang(c), o, me.tries)
  <2>1. Resumed(c, o) = [me EXCEPT !.pc = "retry"]
    BY <1>6 DEF Resumed
  <2> QED
    BY <1>1, <1>3, <2>1, RetryInv
<1>7. CASE ~PostsAgain(Lang(c), o, me.tries) /\ InSteps(c) /\ nested = "next"
  <2>1. Resumed(c, o) = [me EXCEPT !.pc = "work", !.step = @ + 1, !.tries = 0]
    BY <1>7 DEF Resumed, nested
  <2>2. me.step <= Len(Hops[me.pay.route][me.at].steps)
    BY <1>7 DEF InSteps, Hop
  <2>3. LET y == [me EXCEPT !.pc = "work", !.step = @ + 1, !.tries = 0]
        IN  y \in Calls /\ CallInv(y) /\ y.sub = me.sub
    BY <1>1, <2>2, SteppedInv DEF Live
  <2> QED
    BY <1>3, <2>1, <2>3
<1>8. CASE ~PostsAgain(Lang(c), o, me.tries) /\ InSteps(c) /\ nested # "next"
  <2>1. Resumed(c, o) = Ended(me, nested)
    BY <1>8 DEF Resumed, nested
  <2> QED
    BY <1>1, <1>3, <1>4, <1>5, <1>8, <2>1, EndedInv
<1>9. CASE ~PostsAgain(Lang(c), o, me.tries) /\ ~InSteps(c)
  <2>1. CASE answer = "200"
    <3> DEFINE q == call[me.sub].pay
               you == [me EXCEPT !.pay = q]
    <3>1. Resumed(c, o) = Ended(you, answer)
      BY <1>9, <2>1 DEF Resumed, Relayed, answer
    <3>2. call[me.sub] \in Calls /\ CallInv(call[me.sub])
      BY <1>1, <1>3, ElementOfSeq DEF CallsInv
    <3>3. q \in Payloads /\ \E j \in Nat : Through(q, j)
      BY <3>2, HopTypes DEF CallInv
    <3>4. you \in Calls /\ you.pay = q /\ you.sub = me.sub
      BY <1>1, <3>3 DEF Calls
    <3> QED
      BY <1>3, <1>5, <3>1, <3>3, <3>4, EndedInv
  <2>2. CASE answer # "200"
    <3>1. Resumed(c, o) = Ended(me, answer)
      BY <1>9, <2>2 DEF Resumed, answer
    <3> QED
      BY <1>1, <1>3, <1>4, <1>5, <3>1, EndedInv
  <2> QED
    BY <2>1, <2>2
<1> QED
  BY <1>6, <1>7, <1>8, <1>9

-----------------------------------------------------------------------------
(* The actions.                                                            *)

(* What the invariant says of one call that has been made: its type, its place on the route,
   and that the call it waits for exists. *)
LEMMA CallTypes ==
  ASSUME CallsInv(call), NEW c \in DOMAIN call
  PROVE  /\ call[c] \in Calls /\ CallInv(call[c]) /\ call[c].sub <= Len(call)
         /\ DOMAIN call = 1 .. Len(call) /\ Len(call) \in Nat /\ c \in CallIds
         /\ \E k \in Nat : Through(call[c].pay, k)
<1>1. /\ call \in Seq(Calls) /\ DOMAIN call = 1 .. Len(call) /\ Len(call) \in Nat
      /\ Len(call) <= MaxCalls
  BY DEF CallsInv
<1>2. call[c] \in Calls /\ CallInv(call[c]) /\ call[c].sub <= Len(call)
  BY <1>1, ElementOfSeq DEF CallsInv
<1>3. c \in CallIds
  BY <1>1, BoundsAssumption DEF CallIds
<1> QED
  BY <1>1, <1>2, <1>3 DEF CallInv

(* Nobody waits for a call beyond the next one to be made. *)
LEMMA SubBounded ==
  ASSUME CallsInv(call)
  PROVE  \A d \in DOMAIN call : CallInv(call[d]) /\ call[d].sub <= Len(call) + 1
<1> SUFFICES ASSUME NEW d \in DOMAIN call
             PROVE  CallInv(call[d]) /\ call[d].sub <= Len(call) + 1
  OBVIOUS
<1>1. CallInv(call[d]) /\ call[d].sub <= Len(call) /\ Len(call) \in Nat /\ call[d] \in Calls
  BY CallTypes
<1>2. call[d].sub \in CallIds \cup {Client}
  BY <1>1 DEF Calls
<1>3. call[d].sub \in Int
  BY <1>2, BoundsAssumption DEF CallIds, Client
<1> QED
  BY <1>1, <1>3

(* A POST of message p on behalf of c, whose handler becomes me. *)
LEMMA SendToInv ==
  ASSUME CallsInv(call), NEW c \in DOMAIN call, NEW me \in Calls,
         me.node \in Nodes, me.sub <= Len(call),
         \A j \in CallIds : Waiting(me, j) \in Calls /\ CallInv(Waiting(me, j)),
         NEW i \in Nat, Through(me.pay, i),
         NEW p \in Payloads, NEW k \in Nat, Through(p, k), ~Complete(p),
         SendTo(c, me, p)
  PROVE  CallsInv(call')
<1> DEFINE targets == Peers[me.node][Segment(p).id]
           j == Len(call) + 1
           cs == [call EXCEPT ![c] = Waiting(me, j)]
<1>1. CASE targets = {} /\ call' = [call EXCEPT ![c] = Ended(me, "502")]
  <2>1. "502" \in Outcomes
    BY DEF Outcomes, Statuses
  <2> QED
    BY <1>1, <2>1, EndedInv, ReplaceOne
<1>2. ASSUME Len(call) < MaxCalls, NEW n \in targets,
             call' = Append(cs, Arrival(n, c, me.step, p))
      PROVE  CallsInv(call')
  <2>1. /\ call \in Seq(Calls) /\ DOMAIN call = 1 .. Len(call) /\ Len(call) \in Nat
        /\ c \in CallIds /\ c \in 1 .. Len(call)
    BY CallTypes DEF CallsInv
  <2>2. n \in Nodes
    <3>1. Segment(p) \in Segments
      BY NextSegment
    <3>2. Segment(p).id \in Ids
      BY <3>1 DEF Segments
    <3> QED
      BY <1>2, <3>2, NodesAssumption
  <2>3. j \in CallIds
    BY <1>2, <2>1, BoundsAssumption DEF CallIds
  <2>4. Waiting(me, j) \in Calls /\ CallInv(Waiting(me, j)) /\ Waiting(me, j).sub = j
    BY <2>3 DEF Waiting, Calls
  <2>5. /\ cs \in Seq(Calls) /\ Len(cs) = Len(call) /\ DOMAIN cs = 1 .. Len(call)
        /\ \A d \in 1 .. Len(call) : cs[d] = IF d = c THEN Waiting(me, j) ELSE call[d]
    BY <2>1, <2>4, ExceptSeq
  <2>6. \A d \in DOMAIN call : CallInv(call[d]) /\ call[d].sub <= Len(call) + 1
    BY SubBounded
  <2> HIDE DEF cs
  <2>7. \A d \in DOMAIN cs : CallInv(cs[d]) /\ cs[d].sub <= Len(cs) + 1
    <3>1. ASSUME NEW d \in DOMAIN cs PROVE CallInv(cs[d]) /\ cs[d].sub <= Len(cs) + 1
      <4>1. CASE d = c
        BY <2>1, <2>4, <2>5, <4>1
      <4>2. CASE d # c
        BY <2>1, <2>5, <2>6, <4>2
      <4> QED
        BY <4>1, <4>2
    <3> QED
      BY <3>1
  <2>8. me.step \in Nat
    BY DEF Calls
  <2>9. /\ Arrival(n, c, me.step, p) \in Calls /\ CallInv(Arrival(n, c, me.step, p))
        /\ Arrival(n, c, me.step, p).sub = Client
    BY <2>1, <2>2, <2>8, ArrivalInv
  <2> QED
    BY <1>2, <2>5, <2>7, <2>9, AddOne
<1> QED
  BY <1>1, <1>2 DEF SendTo, Waiting

(* A client's POST keeps the invariant: its message is fresh, also when nobody listens. *)
LEMMA ClientPostsInv ==
  ASSUME IInv, ClientPosts
  PROVE  IInv'
<1>1. PICK q \in Posts : call' = Append(call, Arrival(q.to, Client, 0, Fresh(q.route)))
  BY DEF ClientPosts
<1>2. q.to \in Nodes /\ q.route \in Routes
  BY NodesAssumption
<1>3. Fresh(q.route) \in Payloads /\ Through(Fresh(q.route), 0)
  BY <1>2, FreshThrough
<1> DEFINE y == Arrival(q.to, Client, 0, Fresh(q.route))
<1>4. y \in Calls /\ CallInv(y) /\ y.sub = Client
  BY <1>2, <1>3, ArrivalInv
<1>5. /\ call \in Seq(Calls)
      /\ \A d \in DOMAIN call : CallInv(call[d]) /\ call[d].sub <= Len(call) + 1
  BY SubBounded DEF IInv, CallsInv
<1> HIDE DEF y
<1>6. CallsInv(call')
  BY <1>1, <1>4, <1>5, AddOne DEF ClientPosts, y
<1>7. posted' \in 0 .. MaxPosts
  BY BoundsAssumption DEF IInv, ClientPosts
<1> QED
  BY <1>6, <1>7 DEF IInv, ClientPosts

(* Reading a request keeps it: an admitted handler begins at the first unvisited segment, which
   carries its own id; a refused one ends with 400. *)
LEMMA ReadInv ==
  ASSUME IInv, NEW c \in DOMAIN call, Read(c)
  PROVE  IInv'
<1>1. call[c] \in Calls /\ CallInv(call[c]) /\ call[c].sub <= Len(call)
  BY CallTypes DEF IInv
<1>2. CASE Admits(Lang(c), Id(c), call[c].pay)
  <2>1. call' = [call EXCEPT ![c] = Begun(call[c])]
    BY <1>2 DEF Read
  <2>2. /\ Begun(call[c]) \in Calls /\ CallInv(Begun(call[c]))
        /\ Begun(call[c]).sub = call[c].sub
    BY <1>1, <1>2, BegunInv DEF Read, Lang, Id
  <2>3. CallsInv(call')
    BY <1>1, <2>1, <2>2, ReplaceOne DEF IInv
  <2> QED
    BY <2>3 DEF IInv, Read
<1>3. CASE ~Admits(Lang(c), Id(c), call[c].pay)
  <2>1. call' = [call EXCEPT ![c] = Ended(call[c], "400")]
    BY <1>3 DEF Read
  <2>2. PICK k \in Nat : Through(call[c].pay, k)
    BY <1>1 DEF CallInv
  <2>3. "400" \in Outcomes
    BY DEF Outcomes, Statuses
  <2>4. CallsInv(call')
    BY <1>1, <2>1, <2>2, <2>3, EndedInv, ReplaceOne DEF IInv
  <2> QED
    BY <2>4 DEF IInv, Read
<1> QED
  BY <1>2, <1>3

(* A step that only spins takes the handler one step further on its own segment. *)
LEMMA SpinInv ==
  ASSUME IInv, NEW c \in DOMAIN call, Spin(c)
  PROVE  IInv'
<1>1. call[c] \in Calls /\ CallInv(call[c]) /\ call[c].sub <= Len(call)
  BY CallTypes DEF IInv
<1> DEFINE y == [call[c] EXCEPT !.pc = "work", !.step = @ + 1, !.tries = call[c].tries]
<1>2. call[c].step <= Len(Hops[call[c].pay.route][call[c].at].steps)
  BY DEF Spin, InSteps, Hop
<1>3. call[c].tries \in Nat
  BY <1>1 DEF Calls
<1>4. y \in Calls /\ CallInv(y) /\ y.sub = call[c].sub
  BY <1>1, <1>2, <1>3, SteppedInv DEF Spin, Live
<1>5. call' = [call EXCEPT ![c] = y]
  <2>1. y = [call[c] EXCEPT !.step = @ + 1]
    BY <1>1 DEF Spin, Calls
  <2> QED
    BY <2>1 DEF Spin
<1> HIDE DEF y
<1>6. CallsInv(call')
  BY <1>1, <1>4, <1>5, ReplaceOne DEF IInv
<1> QED
  BY <1>6 DEF IInv, Spin

(* A java step that raises ends the call with 502 and leaves the message alone. *)
LEMMA RaiseInStepInv ==
  ASSUME IInv, NEW c \in DOMAIN call, RaiseInStep(c)
  PROVE  IInv'
<1>1. call[c] \in Calls /\ CallInv(call[c]) /\ call[c].sub <= Len(call)
  BY CallTypes DEF IInv
<1>2. PICK k \in Nat : Through(call[c].pay, k)
  BY <1>1 DEF CallInv
<1>3. "502" \in Outcomes
  BY DEF Outcomes, Statuses
<1>4. CallsInv(call')
  BY <1>1, <1>2, <1>3, EndedInv, ReplaceOne DEF IInv, RaiseInStep
<1> QED
  BY <1>4 DEF IInv, RaiseInStep

(* The nested_route a handler posts has a segment to be posted to. *)
LEMMA NestedMessage ==
  ASSUME CallsInv(call), NEW c \in DOMAIN call, call[c].pc \in Live, InSteps(c),
         PostsNested(Lang(c), Id(c), Step(c))
  PROVE  Fresh(Step(c)) \in Payloads /\ Through(Fresh(Step(c)), 0) /\ ~Complete(Fresh(Step(c)))
<1>1. call[c] \in Calls /\ AtItsHop(call[c])
  BY CallTypes DEF CallInv
<1>2. /\ Hop(c).steps \in Seq(Steps) /\ Len(Hop(c).steps) \in Nat
      /\ NestedNotEmpty(Lang(c), Id(c), Hop(c).steps)
      /\ call[c].step \in 1 .. Len(Hop(c).steps) + 1
  BY <1>1, HopTypes DEF AtItsHop, Hop, Lang, Id
<1>3. call[c].step \in DOMAIN Hop(c).steps
  BY <1>2 DEF InSteps
<1>4. Step(c) \in Routes /\ Hops[Step(c)] # <<>>
  BY <1>2, <1>3 DEF NestedNotEmpty, PostsNested, StepIsNested, Step
<1>5. Fresh(Step(c)) \in Payloads /\ Through(Fresh(Step(c)), 0)
  BY <1>4, FreshThrough
<1>6. Fresh(Step(c)).route = Step(c) /\ Len(Hops[Step(c)]) # 0
  BY <1>4, HopsAssumption DEF Fresh
<1> QED
  BY <1>5, <1>6, NextSegment

(* A nested_route step posts a fresh message of a route that is not empty, and the handler waits. *)
LEMMA PostNestedInv ==
  ASSUME IInv, NEW c \in DOMAIN call, PostNested(c)
  PROVE  IInv'
<1>1. call[c] \in Calls /\ CallInv(call[c]) /\ call[c].sub <= Len(call) /\ call[c].node \in Nodes
  BY CallTypes, HopTypes DEF IInv
<1>2. PICK i \in Nat : Through(call[c].pay, i)
  BY <1>1 DEF CallInv
<1>3. PostsNested(Lang(c), Id(c), Step(c)) /\ InSteps(c) /\ call[c].pc = "work"
  BY DEF PostNested, PostsNested
<1>4. \A j \in CallIds : Waiting(call[c], j) \in Calls /\ CallInv(Waiting(call[c], j))
  BY <1>1, <1>3, WaitingInv DEF InSteps, Step, Hop, Lang, Id
<1>5. Fresh(Step(c)) \in Payloads /\ Through(Fresh(Step(c)), 0) /\ ~Complete(Fresh(Step(c)))
  BY <1>3, NestedMessage DEF IInv, Live
<1>6. CallsInv(call')
  BY <1>1, <1>2, <1>4, <1>5, SendToInv DEF PostNested, IInv
<1> QED
  BY <1>6 DEF IInv, PostNested

(* The terminal hop marks the last segment and answers 200. *)
LEMMA AnswerTerminalInv ==
  ASSUME IInv, NEW c \in DOMAIN call, AnswerTerminal(c)
  PROVE  IInv'
<1> DEFINE me == [call[c] EXCEPT !.pay = Visited(c)]
<1>1. call[c] \in Calls /\ CallInv(call[c]) /\ call[c].sub <= Len(call)
  BY CallTypes DEF IInv
<1>2. /\ Visited(c) \in Payloads /\ call[c].at \in Nat /\ Through(Visited(c), call[c].at)
      /\ me \in Calls /\ me.sub = call[c].sub
  BY <1>1, MarkedInv DEF AnswerTerminal, InSteps, Hop, Visited, Id
<1>3. me.pay = Visited(c)
  BY <1>1 DEF Calls
<1>4. "200" \in Outcomes
  BY DEF Outcomes, Statuses
<1>5. call' = [call EXCEPT ![c] = Ended(me, "200")]
  BY DEF AnswerTerminal
<1> HIDE DEF me
<1>6. CallsInv(call')
  BY <1>1, <1>2, <1>3, <1>4, <1>5, EndedInv, ReplaceOne DEF IInv
<1> QED
  BY <1>6 DEF IInv, AnswerTerminal

(* A forward marks the segment and posts the marked message, which has a segment left. *)
LEMMA ForwardInv ==
  ASSUME IInv, NEW c \in DOMAIN call, Forward(c)
  PROVE  IInv'
<1> DEFINE me == [call[c] EXCEPT !.pay = Visited(c)]
<1>1. call[c] \in Calls /\ CallInv(call[c]) /\ call[c].sub <= Len(call) /\ call[c].node \in Nodes
  BY CallTypes, HopTypes DEF IInv
<1>2. /\ Visited(c) \in Payloads /\ call[c].at \in Nat /\ Through(Visited(c), call[c].at)
      /\ me \in Calls /\ me.sub = call[c].sub /\ me.node = call[c].node
      /\ \A j \in CallIds : Waiting(me, j) \in Calls /\ CallInv(Waiting(me, j))
  BY <1>1, MarkedInv DEF Forward, InSteps, Hop, Visited, Id
<1>3. me.pay = Visited(c)
  BY <1>1 DEF Calls
<1>4. SendTo(c, me, Visited(c)) /\ ~Complete(Visited(c))
  BY DEF Forward
<1> HIDE DEF me
<1>5. CallsInv(call')
  BY <1>1, <1>2, <1>3, <1>4, SendToInv DEF IInv
<1> QED
  BY <1>5 DEF IInv, Forward

(* go posts the same body again: the fresh message of its step, or the message already marked. *)
LEMMA PostAgainInv ==
  ASSUME IInv, NEW c \in DOMAIN call, PostAgain(c)
  PROVE  IInv'
<1>1. call[c] \in Calls /\ CallInv(call[c]) /\ call[c].sub <= Len(call) /\ call[c].node \in Nodes
  BY CallTypes, HopTypes DEF IInv
<1>2. PICK i \in Nat : Through(call[c].pay, i)
  BY <1>1 DEF CallInv
<1>3. \A j \in CallIds : Waiting(call[c], j) \in Calls /\ CallInv(Waiting(call[c], j))
  BY <1>1, WaitingInv DEF PostAgain
<1>4. AtItsHop(call[c]) /\ call[c].pc = "retry"
  BY <1>1 DEF PostAgain, CallInv, Live
<1>5. CASE InSteps(c)
  <2>1. PostsNested(Lang(c), Id(c), Step(c))
    BY <1>4, <1>5 DEF AtItsHop, InSteps, Step, Hop, Lang, Id
  <2>2. Fresh(Step(c)) \in Payloads /\ Through(Fresh(Step(c)), 0) /\ ~Complete(Fresh(Step(c)))
    BY <1>4, <1>5, <2>1, NestedMessage DEF IInv, Live
  <2>3. CallsInv(call')
    BY <1>1, <1>2, <1>3, <1>5, <2>2, SendToInv DEF PostAgain, IInv
  <2> QED
    BY <2>3 DEF IInv, PostAgain
<1>6. CASE ~InSteps(c)
  <2>1. Through(call[c].pay, call[c].at) /\ call[c].at < Len(Hops[call[c].pay.route])
    BY <1>4, <1>6 DEF AtItsHop, InSteps, Hop
  <2>2. call[c].at \in Nat /\ call[c].pay \in Payloads
    BY <1>1 DEF Calls
  <2>3. ~Complete(call[c].pay)
    BY <2>1, <2>2, <1>1, HopTypes, NextSegment
  <2>4. CallsInv(call')
    BY <1>1, <1>3, <1>6, <2>1, <2>2, <2>3, SendToInv DEF PostAgain, IInv
  <2> QED
    BY <2>4 DEF IInv, PostAgain
<1> QED
  BY <1>5, <1>6

(* A handler that receives an answer goes on, posts again or answers in turn, with its own
   message or the body it relays. *)
LEMMA ReceiveInv ==
  ASSUME IInv, NEW c \in DOMAIN call, Receive(c)
  PROVE  IInv'
<1>1. call[c] \in Calls /\ CallInv(call[c]) /\ call[c].sub <= Len(call)
  BY CallTypes DEF IInv
<1> DEFINE o == call[call[c].sub].result
<1>2. "200" \in Outcomes
  BY DEF Outcomes, Statuses
<1>3. call[c].sub \in DOMAIN call
  BY <1>2, ResumedInv DEF IInv, Receive
<1>4. o \in Outcomes
  <2>1. call[call[c].sub] \in Calls /\ o # "none"
    BY <1>3, CallTypes DEF IInv, Receive, Answered
  <2> QED
    BY <2>1 DEF Calls
<1>5. CallsInv(call')
  BY <1>1, <1>4, ResumedInv, ReplaceOne DEF IInv, Receive
<1> QED
  BY <1>5 DEF IInv, Receive

(* Closing the connection of one call. *)
LEMMA CloseOne ==
  ASSUME NEW cs, CallsInv(cs), NEW s \in DOMAIN cs
  PROVE  CallsInv([cs EXCEPT ![s].open = FALSE])
<1>1. cs[s] \in Calls /\ CallInv(cs[s]) /\ cs[s].sub <= Len(cs)
  BY ElementOfSeq DEF CallsInv
<1>2. /\ [cs[s] EXCEPT !.open = FALSE] \in Calls
      /\ CallInv([cs[s] EXCEPT !.open = FALSE])
      /\ [cs[s] EXCEPT !.open = FALSE].sub = cs[s].sub
  BY <1>1, ClosedInv
<1> QED
  BY <1>1, <1>2, ReplaceOne

(* A handler that gives up goes on as with any other fault, and closes its connection. *)
LEMMA GiveUpInv ==
  ASSUME CallsInv(call), NEW c \in DOMAIN call, call[c].pc \in {"wait", "retry"},
         NEW o \in Outcomes, GiveUp(c, o)
  PROVE  CallsInv(call')
<1> DEFINE s == call[c].sub
           cs == [call EXCEPT ![c] = Resumed(c, o)]
<1>1. /\ s \in DOMAIN call /\ s <= Len(call)
      /\ Resumed(c, o) \in Calls /\ CallInv(Resumed(c, o)) /\ Resumed(c, o).sub = s
  BY ResumedInv, CallTypes
<1>2. CallsInv(cs) /\ DOMAIN cs = DOMAIN call
  BY <1>1, ReplaceOne
<1>3. call' = [cs EXCEPT ![s].open = FALSE]
  BY DEF GiveUp
<1> HIDE DEF cs
<1> QED
  BY <1>1, <1>2, <1>3, CloseOne

(* The timer of a handler fires. *)
LEMMA TimeOutInv ==
  ASSUME IInv, NEW c \in DOMAIN call, TimeOut(c)
  PROVE  IInv'
<1>1. "timeout" \in Outcomes
  BY DEF Outcomes, Faults
<1>2. CallsInv(call')
  BY <1>1, GiveUpInv DEF TimeOut, IInv
<1> QED
  BY <1>2 DEF IInv, TimeOut

(* go: the request context of an abandoned call is cancelled while it waits or sleeps. *)
LEMMA CancelInv ==
  ASSUME IInv, NEW c \in DOMAIN call, Cancel(c)
  PROVE  IInv'
<1>1. "cancelled" \in Outcomes
  BY DEF Outcomes, Faults
<1>2. CallsInv(call')
  BY <1>1, GiveUpInv DEF Cancel, IInv
<1> QED
  BY <1>2 DEF IInv, Cancel

(* go: a POST that does not leave ends the call with 502; before a forward the message is
   already marked. *)
LEMMA UnsentInv ==
  ASSUME IInv, NEW c \in DOMAIN call, Unsent(c)
  PROVE  IInv'
<1> DEFINE me == [call[c] EXCEPT !.pay = Visited(c)]
<1>1. call[c] \in Calls /\ CallInv(call[c]) /\ call[c].sub <= Len(call)
  BY CallTypes DEF IInv
<1>2. "502" \in Outcomes
  BY DEF Outcomes, Statuses
<1>3. PICK k \in Nat : Through(call[c].pay, k)
  BY <1>1 DEF CallInv
<1>4. ASSUME InSteps(c), call' = [call EXCEPT ![c] = Ended(call[c], "502")]
      PROVE  CallsInv(call')
  BY <1>1, <1>2, <1>3, <1>4, EndedInv, ReplaceOne DEF IInv
<1>5. ASSUME ~InSteps(c), call' = [call EXCEPT ![c] = Ended(me, "502")]
      PROVE  CallsInv(call')
  <2>1. /\ Visited(c) \in Payloads /\ call[c].at \in Nat /\ Through(Visited(c), call[c].at)
        /\ me \in Calls /\ me.sub = call[c].sub
    BY <1>1, <1>5, MarkedInv DEF Unsent, InSteps, Hop, Visited, Id
  <2>2. me.pay = Visited(c)
    BY <1>1 DEF Calls
  <2> HIDE DEF me
  <2> QED
    BY <1>1, <1>2, <1>5, <2>1, <2>2, EndedInv, ReplaceOne DEF IInv
<1>6. CallsInv(call')
  BY <1>4, <1>5 DEF Unsent
<1> QED
  BY <1>6 DEF IInv, Unsent

(* rs: the future of an abandoned call is dropped while it works or waits. *)
LEMMA DropInv ==
  ASSUME IInv, NEW c \in DOMAIN call, Drop(c)
  PROVE  IInv'
<1> DEFINE cs == [call EXCEPT ![c] = Ended(call[c], "eof")]
<1>1. "eof" \in Outcomes
  BY DEF Outcomes, Faults
<1>2. /\ call[c] \in Calls /\ CallInv(call[c]) /\ call[c].sub <= Len(call)
      /\ \E k \in Nat : Through(call[c].pay, k)
  BY CallTypes DEF IInv
<1>3. /\ Ended(call[c], "eof") \in Calls /\ CallInv(Ended(call[c], "eof"))
      /\ Ended(call[c], "eof").sub = call[c].sub
  BY <1>1, <1>2, EndedInv
<1>4. CallsInv(cs) /\ DOMAIN cs = DOMAIN call
  BY <1>2, <1>3, ReplaceOne DEF IInv
<1>5. CASE call' = cs
  BY <1>4, <1>5 DEF IInv, Drop
<1>6. CASE call[c].pc = "wait" /\ call' = [cs EXCEPT ![call[c].sub].open = FALSE]
  <2>1. call[c].sub \in DOMAIN cs
    BY <1>1, <1>4, <1>6, ResumedInv DEF IInv
  <2> HIDE DEF cs
  <2>2. CallsInv(call')
    BY <1>4, <1>6, <2>1, CloseOne
  <2> QED
    BY <2>2 DEF IInv, Drop
<1> QED
  BY <1>5, <1>6 DEF Drop

(* The client closes its connection; the call itself does not change. *)
LEMMA HangUpInv ==
  ASSUME IInv, NEW c \in DOMAIN call, HangUp(c)
  PROVE  IInv'
<1>1. CallsInv(call')
  BY CloseOne DEF IInv, HangUp
<1> QED
  BY <1>1 DEF IInv, HangUp

(* A crash ends every call its container was handling and leaves all messages as they are. *)
LEMMA CrashInv ==
  ASSUME IInv, NEW n \in Nodes, Crash(n)
  PROVE  IInv'
<1> DEFINE Left(c) == [call[c] EXCEPT !.open = @ /\ (Answered(c) \/ call[c].from \notin At(n))]
<1>1. PICK reset \in SUBSET At(n) :
        call' = [c \in DOMAIN call |->
                  IF c \notin At(n) THEN Left(c)
                  ELSE Ended(Left(c), IF c \in reset THEN "reset" ELSE "eof")]
  BY DEF Crash
<1>2. /\ call \in Seq(Calls) /\ DOMAIN call = 1 .. Len(call) /\ Len(call) \in Nat
      /\ Len(call) <= MaxCalls
  BY DEF IInv, CallsInv
<1>3. ASSUME NEW c \in DOMAIN call
      PROVE  call'[c] \in Calls /\ CallInv(call'[c]) /\ call'[c].sub = call[c].sub
  <2> DEFINE b == call[c].open /\ (Answered(c) \/ call[c].from \notin At(n))
             x == [call[c] EXCEPT !.open = b]
  <2>1. call[c] \in Calls /\ CallInv(call[c])
    BY CallTypes DEF IInv
  <2>2. b \in BOOLEAN
    OBVIOUS
  <2>3. Left(c) = x
    OBVIOUS
  <2> HIDE DEF b
  <2>4. x \in Calls /\ CallInv(x) /\ x.sub = call[c].sub
    BY <2>1, <2>2, ClosedInv
  <2>5. \E k \in Nat : Through(x.pay, k)
    BY <2>4 DEF CallInv
  <2> HIDE DEF x, Left
  <2>6. CASE c \notin At(n)
    BY <1>1, <2>3, <2>4, <2>6
  <2>7. CASE c \in At(n)
    <3> DEFINE o == IF c \in reset THEN "reset" ELSE "eof"
    <3>1. o \in Outcomes
      BY DEF Outcomes, Faults
    <3>2. call'[c] = Ended(x, o)
      BY <1>1, <2>3, <2>7
    <3> HIDE DEF o
    <3> QED
      BY <2>4, <2>5, <3>1, <3>2, EndedInv
  <2> QED
    BY <2>6, <2>7
<1> HIDE DEF Left
<1>4. DOMAIN call' = 1 .. Len(call)
  BY <1>1, <1>2
<1>5. call' \in Seq(Calls) /\ Len(call') = Len(call)
  <2>1. call' = [c \in 1 .. Len(call) |-> call'[c]]
    BY <1>1, <1>2
  <2>2. call' \in [1 .. Len(call) -> Calls]
    BY <1>2, <1>3, <2>1
  <2>3. call' \in Seq(Calls)
    BY <1>2, <2>2, SeqDef
  <2> QED
    BY <1>2, <1>4, <2>3, LenProperties
<1>6. CallsInv(call')
  <2>1. \A c \in DOMAIN call' : CallInv(call'[c]) /\ call'[c].sub <= Len(call')
    BY <1>2, <1>3, <1>4, <1>5, CallTypes DEF IInv
  <2> QED
    BY <1>2, <1>5, <2>1 DEF CallsInv
<1>7. crashes' \in 0 .. MaxCrashes
  BY BoundsAssumption DEF IInv, Crash
<1> QED
  BY <1>6, <1>7 DEF IInv, Crash

(* A container that starts again has no call of its own. *)
LEMMA RestartInv ==
  ASSUME IInv, NEW n \in Nodes, Restart(n)
  PROVE  IInv'
BY DEF IInv, Restart

-----------------------------------------------------------------------------
(* The theorems.                                                           *)

(* CallInv is an inductive invariant of Pipeline. *)
THEOREM Invariant == Spec => []IInv
<1>1. Init => IInv
  <2> SUFFICES ASSUME Init PROVE IInv
    OBVIOUS
  <2>1. call = <<>> /\ posted = 0 /\ up = Nodes /\ crashes = 0
    BY DEF Init
  <2>2. CallsInv(<<>>)
    BY EmptySeq, BoundsAssumption DEF CallsInv
  <2> QED
    BY <2>1, <2>2, BoundsAssumption DEF IInv
<1>2. IInv /\ [Next]_vars => IInv'
  <2> SUFFICES ASSUME IInv, [Next]_vars PROVE IInv'
    OBVIOUS
  <2>1. CASE ClientPosts
    BY <2>1, ClientPostsInv
  <2>2. ASSUME NEW c \in DOMAIN call, Handler(c) PROVE IInv'
    BY <2>2, ReadInv, SpinInv, RaiseInStepInv, PostNestedInv, AnswerTerminalInv, ForwardInv,
       PostAgainInv, ReceiveInv DEF Handler
  <2>3. ASSUME NEW c \in DOMAIN call, Abandon(c) PROVE IInv'
    BY <2>3, TimeOutInv, CancelInv, UnsentInv, DropInv DEF Abandon
  <2>4. ASSUME NEW c \in DOMAIN call, HangUp(c) PROVE IInv'
    BY <2>4, HangUpInv
  <2>5. ASSUME NEW n \in Nodes, Crash(n) \/ Restart(n) PROVE IInv'
    BY <2>5, CrashInv, RestartInv
  <2>6. CASE UNCHANGED vars
    BY <2>6 DEF vars, IInv
  <2> QED
    BY <2>1, <2>2, <2>3, <2>4, <2>5, <2>6 DEF Next, AllOver
<1> QED
  BY <1>1, <1>2, PTL DEF Spec

(* Every variable has its type, whatever the containers and the routes. *)
THEOREM TypeCorrect == Spec => []TypeOK
<1>1. IInv => TypeOK
  BY DEF IInv, CallsInv, TypeOK
<1> QED
  BY <1>1, Invariant, PTL

(* visited, visit_log, table_of_workers and counter of every message agree
   with its route, in every worker and after every retry, crash and timeout. *)
THEOREM MessagesTellTheirRoute == Spec => []LogTellsRoute
<1>1. IInv => LogTellsRoute
  <2> SUFFICES ASSUME IInv, NEW c \in DOMAIN call
               PROVE  \E k \in 0 .. Len(Hops[call[c].pay.route]) : Through(call[c].pay, k)
    BY Zenon DEF LogTellsRoute, Through
  <2>1. PICK k \in Nat : Through(call[c].pay, k)
    BY CallTypes DEF IInv
  <2>2. k \in 0 .. Len(Hops[call[c].pay.route])
    BY <2>1, Zenon DEF Through
  <2> QED
    BY <2>1, <2>2
<1> QED
  BY <1>1, Invariant, PTL

-----------------------------------------------------------------------------
(* The open calls form a stack.                                            *)
(* A step that makes a caller stop waiting must find its callee over, or   *)
(* close the connection to it; and a caller that starts to wait must have  *)
(* no open callee left, which it has because it did not wait.              *)

LiveOpen(x) == x.pc # "done" /\ x.open /\ x.from # Client

StackInv(cs) ==
  \A d \in DOMAIN cs :
    /\ cs[d].from \in DOMAIN cs \cup {Client}
    /\ LiveOpen(cs[d]) => cs[cs[d].from].pc = "wait" /\ cs[cs[d].from].sub = d

(* The callee the handler of c waits for is over or closed after the step. *)
NoOpenCallee(cs, c) == \A d \in DOMAIN cs : LiveOpen(cs[d]) => cs[d].from # c

(* A worker that does not wait has no open callee. *)
LEMMA OnlyWaitersHaveCallees ==
  ASSUME NEW cs, StackInv(cs), NEW c \in DOMAIN cs, cs[c].pc # "wait"
  PROVE  NoOpenCallee(cs, c)
BY DEF StackInv, NoOpenCallee

(* A call without an open callee may change, as long as it does not change
   hands and does not come back to life. *)
LEMMA StackReplace ==
  ASSUME NEW cs, StackInv(cs), NEW c \in DOMAIN cs, NoOpenCallee(cs, c),
         NEW x, x.from = cs[c].from, x.open = cs[c].open, cs[c].pc # "done"
  PROVE  StackInv([cs EXCEPT ![c] = x])
<1> DEFINE ds == [cs EXCEPT ![c] = x]
<1>1. DOMAIN ds = DOMAIN cs /\ \A d \in DOMAIN cs : ds[d] = IF d = c THEN x ELSE cs[d]
  OBVIOUS
<1> HIDE DEF ds
<1>2. ASSUME NEW d \in DOMAIN cs
      PROVE  /\ ds[d].from \in DOMAIN ds \cup {Client}
             /\ LiveOpen(ds[d]) => ds[ds[d].from].pc = "wait" /\ ds[ds[d].from].sub = d
  <2>1. ds[d].from = cs[d].from /\ (LiveOpen(ds[d]) => LiveOpen(cs[d]))
    BY <1>1 DEF LiveOpen
  <2>2. cs[d].from \in DOMAIN cs \cup {Client}
    BY DEF StackInv
  <2>3. ASSUME LiveOpen(ds[d])
        PROVE  ds[ds[d].from].pc = "wait" /\ ds[ds[d].from].sub = d
    <3>1. LiveOpen(cs[d]) /\ cs[d].from # c /\ cs[d].from # Client
      BY <2>1, <2>3 DEF NoOpenCallee, LiveOpen
    <3>2. cs[d].from \in DOMAIN cs /\ ds[cs[d].from] = cs[cs[d].from]
      BY <1>1, <2>2, <3>1
    <3> QED
      BY <2>1, <3>1, <3>2 DEF StackInv
  <2> QED
    BY <1>1, <2>1, <2>2, <2>3
<1> QED
  BY <1>1, <1>2 DEF StackInv, ds

(* The handler of c stops waiting and closes the connection to its callee. *)
LEMMA StackGiveUp ==
  ASSUME NEW cs \in Seq(Calls), StackInv(cs),
         NEW c \in DOMAIN cs, NEW s \in DOMAIN cs, s = cs[c].sub,
         NEW x, x.from = cs[c].from, x.open = cs[c].open, cs[c].pc # "done"
  PROVE  StackInv([cs EXCEPT ![c] = x, ![s].open = FALSE])
<1> DEFINE ds == [cs EXCEPT ![c] = x, ![s].open = FALSE]
<1>1. DOMAIN ds = DOMAIN cs
  OBVIOUS
<1>2. \A d \in DOMAIN cs : d # s => ds[d] = IF d = c THEN x ELSE cs[d]
  OBVIOUS
<1>3. ds[s] = [(IF s = c THEN x ELSE cs[s]) EXCEPT !.open = FALSE]
  OBVIOUS
<1> HIDE DEF ds
<1>4. ds[s].from = cs[s].from /\ ~LiveOpen(ds[s])
  BY <1>3 DEF LiveOpen
<1>5. ASSUME NEW d \in DOMAIN cs
      PROVE  /\ ds[d].from \in DOMAIN ds \cup {Client}
             /\ LiveOpen(ds[d]) => ds[ds[d].from].pc = "wait" /\ ds[ds[d].from].sub = d
  <2>1. ds[d].from = cs[d].from
    BY <1>2, <1>4
  <2>2. cs[d].from \in DOMAIN cs \cup {Client}
    BY DEF StackInv
  <2>3. ASSUME LiveOpen(ds[d])
        PROVE  ds[ds[d].from].pc = "wait" /\ ds[ds[d].from].sub = d
    <3>1. d # s /\ LiveOpen(cs[d])
      BY <1>2, <1>4, <2>3 DEF LiveOpen
    <3>2. cs[cs[d].from].pc = "wait" /\ cs[cs[d].from].sub = d /\ cs[d].from \in DOMAIN cs
      BY <2>2, <3>1 DEF StackInv, LiveOpen
    <3>3. cs[d].from # c
      BY <3>1, <3>2
    <3> DEFINE f == cs[d].from
    <3>4. ds[f].pc = cs[f].pc /\ ds[f].sub = cs[f].sub
      <4>1. CASE f # s
        BY <1>2, <3>2, <3>3, <4>1
      <4>2. CASE f = s
        <5>1. cs[s] \in Calls /\ ds[s] = [cs[s] EXCEPT !.open = FALSE]
          BY <1>3, <3>3, <4>2, ElementOfSeq
        <5> QED
          BY <4>2, <5>1 DEF Calls
      <4> QED
        BY <4>1, <4>2
    <3> QED
      BY <2>1, <3>2, <3>4
  <2> QED
    BY <1>1, <2>1, <2>2, <2>3
<1> QED
  BY <1>1, <1>5 DEF StackInv, ds

(* The handler of c, which did not wait, makes a call and waits for it. *)
LEMMA StackPush ==
  ASSUME NEW cs \in Seq(Calls), StackInv(cs), NEW c \in DOMAIN cs, NoOpenCallee(cs, c),
         NEW x \in Calls, x.from = cs[c].from, x.open = cs[c].open, cs[c].pc # "done",
         x.pc = "wait", x.sub = Len(cs) + 1, NEW y, y.from = c
  PROVE  StackInv(Append([cs EXCEPT ![c] = x], y))
<1> DEFINE bs == [cs EXCEPT ![c] = x]
           ds == Append(bs, y)
           j  == Len(cs) + 1
<1>1. Len(cs) \in Nat /\ DOMAIN cs = 1 .. Len(cs)
  OBVIOUS
<1>2. bs \in Seq(Calls) /\ Len(bs) = Len(cs) /\ \A d \in 1 .. Len(cs) : bs[d] = IF d = c THEN x ELSE cs[d]
  BY <1>1, ExceptSeq
<1>3. StackInv(bs)
  BY StackReplace
<1> HIDE DEF bs
<1>4. /\ DOMAIN ds = 1 .. j /\ ds[j] = y
      /\ \A d \in 1 .. Len(cs) : ds[d] = bs[d]
  BY <1>1, <1>2
<1> HIDE DEF ds
<1>5. DOMAIN bs = 1 .. Len(cs) /\ bs[c] = x /\ c \in 1 .. Len(cs)
  BY <1>1, <1>2
<1>6. ASSUME NEW d \in 1 .. Len(cs)
      PROVE  /\ ds[d].from \in DOMAIN ds \cup {Client}
             /\ LiveOpen(ds[d]) => ds[ds[d].from].pc = "wait" /\ ds[ds[d].from].sub = d
  <2>1. ds[d] = bs[d] /\ bs[d].from \in (1 .. Len(cs)) \cup {Client}
    BY <1>3, <1>4, <1>5 DEF StackInv
  <2>2. LiveOpen(bs[d]) => /\ bs[d].from \in 1 .. Len(cs)
                           /\ bs[bs[d].from].pc = "wait" /\ bs[bs[d].from].sub = d
    BY <1>3, <1>5, <2>1 DEF StackInv, LiveOpen
  <2> QED
    BY <1>1, <1>4, <2>1, <2>2
<1>7. /\ ds[j].from \in DOMAIN ds \cup {Client}
      /\ LiveOpen(ds[j]) => ds[ds[j].from].pc = "wait" /\ ds[ds[j].from].sub = j
  BY <1>1, <1>4, <1>5
<1>8. \A d \in DOMAIN ds : d \in 1 .. Len(cs) \/ d = j
  BY <1>1, <1>4
<1>9. StackInv(ds)
  BY <1>6, <1>7, <1>8 DEF StackInv
<1> QED
  BY <1>9 DEF ds, bs

(* Calls that end, and connections that close, all at once: whoever stays
   alive with an open connection has a caller that has not changed. *)
LEMMA StackShrink ==
  ASSUME NEW cs, StackInv(cs), NEW ds, DOMAIN ds = DOMAIN cs,
         \A d \in DOMAIN cs :
           /\ ds[d].from = cs[d].from
           /\ LiveOpen(ds[d]) => /\ LiveOpen(cs[d])
                                 /\ ds[cs[d].from].pc = cs[cs[d].from].pc
                                 /\ ds[cs[d].from].sub = cs[cs[d].from].sub
  PROVE  StackInv(ds)
BY DEF StackInv

-----------------------------------------------------------------------------
(* The actions.                                                            *)

(* What a change of a single call keeps. *)
LEMMA KeptFields ==
  ASSUME NEW x \in Calls
  PROVE  /\ Begun(x).from = x.from /\ Begun(x).open = x.open
         /\ \A o : Ended(x, o).from = x.from /\ Ended(x, o).open = x.open
         /\ \A j : /\ Waiting(x, j).from = x.from /\ Waiting(x, j).open = x.open
                  /\ Waiting(x, j).pc = "wait" /\ Waiting(x, j).sub = j
         /\ \A p \in Payloads : /\ [x EXCEPT !.pay = p] \in Calls
                                /\ [x EXCEPT !.pay = p].from = x.from
                                /\ [x EXCEPT !.pay = p].open = x.open
                                /\ [x EXCEPT !.pay = p].step = x.step
                                /\ [x EXCEPT !.pay = p].node = x.node
BY DEF Begun, Ended, Waiting, Calls

(* Going on after an outcome changes neither who made the call nor whether its caller waits. *)
LEMMA ResumedKept ==
  ASSUME CallsInv(call), NEW c \in DOMAIN call, call[c].pc \in {"wait", "retry"},
         NEW o \in Outcomes
  PROVE  Resumed(c, o).from = call[c].from /\ Resumed(c, o).open = call[c].open
<1>1. call[c] \in Calls /\ call[c].sub \in DOMAIN call
  BY CallTypes, ResumedInv
<1>2. call[call[c].sub].pay \in Payloads
  BY <1>1, CallTypes, HopTypes
<1> QED
  BY <1>1, <1>2, KeptFields DEF Resumed, Relayed, Calls

(* A POST of a handler that does not wait. *)
LEMMA StackSendTo ==
  ASSUME IInv, StackInv(call), NEW c \in DOMAIN call, call[c].pc \in {"work", "retry"},
         NEW me \in Calls, me.from = call[c].from, me.open = call[c].open,
         NEW p, SendTo(c, me, p)
  PROVE  StackInv(call')
<1>1. NoOpenCallee(call, c)
  BY OnlyWaitersHaveCallees
<1>2. CASE call' = [call EXCEPT ![c] = Ended(me, "502")]
  BY <1>1, <1>2, StackReplace, KeptFields
<1>3. ASSUME NEW n, Len(call) < MaxCalls,
             call' = Append([call EXCEPT ![c] = Waiting(me, Len(call) + 1)], Arrival(n, c, me.step, p))
      PROVE  StackInv(call')
  <2> DEFINE x == Waiting(me, Len(call) + 1)
             y == Arrival(n, c, me.step, p)
  <2>1. call \in Seq(Calls) /\ Len(call) \in Nat
    BY DEF IInv, CallsInv
  <2>2. Len(call) + 1 \in CallIds
    BY <1>3, <2>1, BoundsAssumption DEF CallIds
  <2>3. x \in Calls /\ x.from = call[c].from /\ x.open = call[c].open
        /\ x.pc = "wait" /\ x.sub = Len(call) + 1
    BY <2>2, WaitingType, KeptFields
  <2>4. y.from = c
    BY DEF Arrival
  <2> HIDE DEF x, y
  <2>5. StackInv(Append([call EXCEPT ![c] = x], y))
    BY <1>1, <2>1, <2>3, <2>4, StackPush
  <2> QED
    BY <1>3, <2>5 DEF x, y
<1> QED
  BY <1>2, <1>3 DEF SendTo, Waiting

(* A step that changes one call which does not wait. *)
LEMMA StackHandlerSteps ==
  ASSUME IInv, StackInv(call), NEW c \in DOMAIN call,
         Read(c) \/ Spin(c) \/ RaiseInStep(c) \/ AnswerTerminal(c)
  PROVE  StackInv(call')
<1>1. call[c] \in Calls
  BY CallTypes DEF IInv
<1>2. call[c].pc \in {"sent", "work"}
  BY DEF Read, Spin, RaiseInStep, AnswerTerminal
<1>3. NoOpenCallee(call, c)
  BY <1>2, OnlyWaitersHaveCallees
<1>4. ASSUME NEW x, x.from = call[c].from, x.open = call[c].open,
             call' = [call EXCEPT ![c] = x]
      PROVE  StackInv(call')
  BY <1>2, <1>3, <1>4, StackReplace
<1>5. CASE Read(c)
  <2>1. CASE call' = [call EXCEPT ![c] = Begun(call[c])]
    BY <1>1, <1>4, <2>1, KeptFields
  <2>2. CASE call' = [call EXCEPT ![c] = Ended(call[c], "400")]
    BY <1>1, <1>4, <2>2, KeptFields
  <2> QED
    BY <1>5, <2>1, <2>2 DEF Read
<1>6. CASE Spin(c)
  <2> DEFINE x == [call[c] EXCEPT !.step = @ + 1]
  <2>1. x.from = call[c].from /\ x.open = call[c].open
    BY <1>1 DEF Calls
  <2>2. call' = [call EXCEPT ![c] = x]
    BY <1>6 DEF Spin
  <2> HIDE DEF x
  <2> QED
    BY <1>4, <2>1, <2>2
<1>7. CASE RaiseInStep(c)
  <2>1. call' = [call EXCEPT ![c] = Ended(call[c], "502")]
    BY <1>7 DEF RaiseInStep
  <2> QED
    BY <1>1, <1>4, <2>1, KeptFields
<1>8. CASE AnswerTerminal(c)
  <2> DEFINE me == [call[c] EXCEPT !.pay = Visited(c)]
  <2>1. Visited(c) \in Payloads
    BY <1>1, <1>8, CallTypes, MarkedInv DEF IInv, AnswerTerminal, InSteps, Hop, Visited, Id
  <2>2. me \in Calls /\ me.from = call[c].from /\ me.open = call[c].open
    BY <1>1, <2>1, KeptFields
  <2>3. call' = [call EXCEPT ![c] = Ended(me, "200")]
    BY <1>8 DEF AnswerTerminal
  <2> HIDE DEF me
  <2>4. Ended(me, "200").from = call[c].from /\ Ended(me, "200").open = call[c].open
    BY <2>2, KeptFields
  <2> QED
    BY <1>4, <2>3, <2>4
<1> QED
  BY <1>5, <1>6, <1>7, <1>8

(* A handler that posts was not waiting: it has no open callee but the new one. *)
LEMMA StackPosts ==
  ASSUME IInv, StackInv(call), NEW c \in DOMAIN call,
         PostNested(c) \/ Forward(c) \/ PostAgain(c)
  PROVE  StackInv(call')
<1>1. call[c] \in Calls
  BY CallTypes DEF IInv
<1>2. CASE PostNested(c)
  BY <1>1, <1>2, StackSendTo DEF PostNested
<1>3. CASE Forward(c)
  <2>1. Visited(c) \in Payloads
    BY <1>1, <1>3, CallTypes, MarkedInv DEF IInv, Forward, InSteps, Hop, Visited, Id
  <2>2. /\ [call[c] EXCEPT !.pay = Visited(c)] \in Calls
        /\ [call[c] EXCEPT !.pay = Visited(c)].from = call[c].from
        /\ [call[c] EXCEPT !.pay = Visited(c)].open = call[c].open
    BY <1>1, <2>1, KeptFields
  <2> QED
    BY <1>3, <2>2, StackSendTo DEF Forward
<1>4. CASE PostAgain(c)
  BY <1>1, <1>4, StackSendTo DEF PostAgain
<1> QED
  BY <1>2, <1>3, <1>4

(* A handler that receives an answer leaves a callee behind that is over. *)
LEMMA StackReceive ==
  ASSUME IInv, StackInv(call), NEW c \in DOMAIN call, Receive(c)
  PROVE  StackInv(call')
<1> DEFINE s == call[c].sub
<1>1. "200" \in Outcomes
  BY DEF Outcomes, Statuses
<1>2. s \in DOMAIN call
  BY <1>1, ResumedInv DEF IInv, Receive
<1>3. call[s] \in Calls /\ call[s].result # "none" /\ call[s].pc = "done"
  BY <1>2, CallTypes DEF IInv, Receive, Answered, CallInv
<1>4. call[s].result \in Outcomes
  BY <1>3 DEF Calls
<1>5. NoOpenCallee(call, c)
  BY <1>3 DEF StackInv, NoOpenCallee, LiveOpen
<1>6. Resumed(c, call[s].result).from = call[c].from /\ Resumed(c, call[s].result).open = call[c].open
  BY <1>4, ResumedKept DEF IInv, Receive
<1> QED
  BY <1>5, <1>6, StackReplace DEF Receive

(* A handler that times out, is cancelled or dropped closes the connection to its callee. *)
LEMMA StackAbandon ==
  ASSUME IInv, StackInv(call), NEW c \in DOMAIN call, Abandon(c)
  PROVE  StackInv(call')
<1>1. /\ call \in Seq(Calls) /\ call[c] \in Calls
      /\ {"timeout", "cancelled", "eof"} \subseteq Outcomes
  BY CallTypes DEF IInv, CallsInv, Outcomes, Faults
<1>2. ASSUME NEW o \in Outcomes, call[c].pc \in {"wait", "retry"}, GiveUp(c, o)
      PROVE  StackInv(call')
  <2>1. call[c].sub \in DOMAIN call
    BY <1>2, ResumedInv DEF IInv
  <2>2. Resumed(c, o).from = call[c].from /\ Resumed(c, o).open = call[c].open
    BY <1>2, ResumedKept DEF IInv
  <2> QED
    BY <1>1, <1>2, <2>1, <2>2, StackGiveUp DEF GiveUp
<1>3. CASE TimeOut(c)
  BY <1>1, <1>2, <1>3 DEF TimeOut
<1>4. CASE Cancel(c)
  BY <1>1, <1>2, <1>4 DEF Cancel
<1>5. CASE Drop(c)
  <2>1. Ended(call[c], "eof").from = call[c].from /\ Ended(call[c], "eof").open = call[c].open
    BY <1>1, KeptFields
  <2>2. CASE call[c].pc = "work" /\ call' = [call EXCEPT ![c] = Ended(call[c], "eof")]
    BY <2>1, <2>2, OnlyWaitersHaveCallees, StackReplace
  <2>3. CASE /\ call[c].pc = "wait"
             /\ call' = [call EXCEPT ![c] = Ended(call[c], "eof"), ![call[c].sub].open = FALSE]
    <3>1. call[c].sub \in DOMAIN call
      BY <1>1, <2>3, ResumedInv DEF IInv
    <3> QED
      BY <1>1, <2>1, <2>3, <3>1, StackGiveUp
  <2> QED
    BY <1>5, <2>2, <2>3 DEF Drop
<1>6. CASE Unsent(c)
  <2> DEFINE me == [call[c] EXCEPT !.pay = Visited(c)]
  <2>1. Ended(call[c], "502").from = call[c].from /\ Ended(call[c], "502").open = call[c].open
    BY <1>1, KeptFields
  <2>2. CASE call' = [call EXCEPT ![c] = Ended(call[c], "502")]
    BY <1>6, <2>1, <2>2, OnlyWaitersHaveCallees, StackReplace DEF Unsent
  <2>3. CASE ~InSteps(c) /\ call' = [call EXCEPT ![c] = Ended(me, "502")]
    <3>1. Visited(c) \in Payloads
      BY <1>6, <2>3, CallTypes, MarkedInv DEF IInv, Unsent, InSteps, Hop, Visited, Id
    <3>2. me \in Calls /\ me.from = call[c].from /\ me.open = call[c].open
      BY <1>1, <3>1, KeptFields
    <3> HIDE DEF me
    <3>3. Ended(me, "502").from = call[c].from /\ Ended(me, "502").open = call[c].open
      BY <3>2, KeptFields
    <3> QED
      BY <1>6, <2>3, <3>3, OnlyWaitersHaveCallees, StackReplace DEF Unsent
  <2> QED
    BY <1>6, <2>2, <2>3 DEF Unsent
<1> QED
  BY <1>3, <1>4, <1>5, <1>6 DEF Abandon

(* A client that hangs up only makes one connection fewer open. *)
LEMMA StackHangUp ==
  ASSUME IInv, StackInv(call), NEW c \in DOMAIN call, HangUp(c)
  PROVE  StackInv(call')
<1>1. call' = [call EXCEPT ![c].open = FALSE] /\ DOMAIN call' = DOMAIN call
  BY DEF HangUp
<1>2. ASSUME NEW d \in DOMAIN call
      PROVE  /\ call'[d].from = call[d].from /\ call'[d].pc = call[d].pc /\ call'[d].sub = call[d].sub
             /\ LiveOpen(call'[d]) => LiveOpen(call[d])
  <2>1. call[d] \in Calls
    BY CallTypes DEF IInv
  <2>2. CASE d # c
    BY <1>1, <2>2
  <2>3. CASE d = c
    <3>1. call'[d] = [call[d] EXCEPT !.open = FALSE]
      BY <1>1, <2>3
    <3> QED
      BY <2>1, <3>1 DEF Calls, LiveOpen
  <2> QED
    BY <2>2, <2>3
<1>3. \A d \in DOMAIN call : LiveOpen(call[d]) => call[d].from \in DOMAIN call
  BY DEF StackInv, LiveOpen
<1> QED
  BY <1>1, <1>2, <1>3, StackShrink

(* A crash ends the calls of one container and closes the connections of
   their callees, whose callers are gone. *)
LEMMA StackCrash ==
  ASSUME IInv, StackInv(call), NEW n \in Nodes, Crash(n)
  PROVE  StackInv(call')
<1> DEFINE Left(c) == [call[c] EXCEPT !.open = @ /\ (Answered(c) \/ call[c].from \notin At(n))]
<1>1. PICK reset \in SUBSET At(n) :
        call' = [c \in DOMAIN call |->
                  IF c \notin At(n) THEN Left(c)
                  ELSE Ended(Left(c), IF c \in reset THEN "reset" ELSE "eof")]
  BY DEF Crash
<1>2. ASSUME NEW c \in DOMAIN call
      PROVE  /\ Left(c) \in Calls /\ Left(c).from = call[c].from
             /\ Left(c).pc = call[c].pc /\ Left(c).sub = call[c].sub
             /\ Left(c).open = (call[c].open /\ (Answered(c) \/ call[c].from \notin At(n)))
  <2>1. call[c] \in Calls
    BY CallTypes DEF IInv
  <2> QED
    BY <2>1 DEF Calls
<1> HIDE DEF Left
<1>3. DOMAIN call' = DOMAIN call
  BY <1>1
<1>4. \A c \in DOMAIN call : c \notin At(n) => call'[c] = Left(c)
  BY <1>1
<1>5. ASSUME NEW c \in DOMAIN call, c \in At(n)
      PROVE  call'[c].from = call[c].from /\ ~LiveOpen(call'[c])
  <2> DEFINE o == IF c \in reset THEN "reset" ELSE "eof"
  <2>1. call'[c] = Ended(Left(c), o)
    BY <1>1, <1>5
  <2> HIDE DEF o
  <2> QED
    BY <1>2, <2>1 DEF Ended, Calls, LiveOpen
<1>6. ASSUME NEW d \in DOMAIN call
      PROVE  /\ call'[d].from = call[d].from
             /\ LiveOpen(call'[d]) => /\ LiveOpen(call[d])
                                     /\ call'[call[d].from].pc = call[call[d].from].pc
                                     /\ call'[call[d].from].sub = call[call[d].from].sub
  <2>1. CASE d \in At(n)
    BY <1>5, <2>1
  <2>2. CASE d \notin At(n)
    <3>1. call'[d].from = call[d].from
      BY <1>2, <1>4, <2>2
    <3>2. ASSUME LiveOpen(call'[d])
          PROVE  LiveOpen(call[d]) /\ call[d].from \notin At(n) /\ call[d].from \in DOMAIN call
      <4>1. LiveOpen(Left(d))
        BY <1>4, <2>2, <3>2
      <4>2. LiveOpen(call[d]) /\ (Answered(d) \/ call[d].from \notin At(n))
        BY <1>2, <4>1, Zenon DEF LiveOpen
      <4>3. ~Answered(d)
        BY <4>2, CallTypes DEF IInv, CallInv, Answered, LiveOpen
      <4>4. call[d].from \in DOMAIN call
        BY <4>2 DEF StackInv, LiveOpen
      <4> QED
        BY <4>2, <4>3, <4>4
    <3>3. LiveOpen(call'[d]) => call'[call[d].from] = Left(call[d].from)
      BY <1>4, <3>2
    <3> QED
      BY <1>2, <3>1, <3>2, <3>3
  <2> QED
    BY <2>1, <2>2
<1> QED
  BY <1>3, <1>6, StackShrink

(* A call made by a client is nobody's callee. *)
LEMMA StackClientPosts ==
  ASSUME IInv, StackInv(call), ClientPosts
  PROVE  StackInv(call')
<1>1. PICK q \in Posts : call' = Append(call, Arrival(q.to, Client, 0, Fresh(q.route)))
  BY DEF ClientPosts
<1> DEFINE y == Arrival(q.to, Client, 0, Fresh(q.route))
<1>2. y.from = Client
  BY DEF Arrival
<1> HIDE DEF y
<1>3. call \in Seq(Calls) /\ Len(call) \in Nat /\ DOMAIN call = 1 .. Len(call)
  BY DEF IInv, CallsInv
<1>4. /\ DOMAIN call' = 1 .. Len(call) + 1 /\ call'[Len(call) + 1] = y
      /\ \A d \in 1 .. Len(call) : call'[d] = call[d]
  BY <1>1, <1>3 DEF y
<1>5. ASSUME NEW d \in 1 .. Len(call)
      PROVE  /\ call'[d].from \in DOMAIN call' \cup {Client}
             /\ LiveOpen(call'[d]) => call'[call'[d].from].pc = "wait" /\ call'[call'[d].from].sub = d
  <2>1. call'[d] = call[d] /\ call[d].from \in (1 .. Len(call)) \cup {Client}
    BY <1>3, <1>4 DEF StackInv
  <2>2. LiveOpen(call[d]) => /\ call[d].from \in 1 .. Len(call)
                             /\ call[call[d].from].pc = "wait" /\ call[call[d].from].sub = d
    BY <1>3, <2>1 DEF StackInv, LiveOpen
  <2> QED
    BY <1>3, <1>4, <2>1, <2>2
<1>6. ~LiveOpen(call'[Len(call) + 1]) /\ call'[Len(call) + 1].from = Client
  BY <1>2, <1>4 DEF LiveOpen
<1>7. \A d \in DOMAIN call' : d \in 1 .. Len(call) \/ d = Len(call) + 1
  BY <1>3, <1>4
<1> QED
  BY <1>5, <1>6, <1>7 DEF StackInv

-----------------------------------------------------------------------------
(* Everybody who is still waited for is waited for by his caller: the open
   calls of a request form one stack, whatever times out, crashes or is
   posted again. *)
THEOREM CallsFormStack == Spec => []OpenCallsFormStack
<1>1. Init => StackInv(call)
  BY DEF Init, StackInv
<1>2. IInv /\ StackInv(call) /\ [Next]_vars => StackInv(call')
  <2> SUFFICES ASSUME IInv, StackInv(call), [Next]_vars PROVE StackInv(call')
    OBVIOUS
  <2>1. CASE ClientPosts
    BY <2>1, StackClientPosts
  <2>2. ASSUME NEW c \in DOMAIN call, Handler(c) PROVE StackInv(call')
    BY <2>2, StackHandlerSteps, StackPosts, StackReceive DEF Handler
  <2>3. ASSUME NEW c \in DOMAIN call, Abandon(c) PROVE StackInv(call')
    BY <2>3, StackAbandon
  <2>4. ASSUME NEW c \in DOMAIN call, HangUp(c) PROVE StackInv(call')
    BY <2>4, StackHangUp
  <2>5. ASSUME NEW n \in Nodes, Crash(n) PROVE StackInv(call')
    BY <2>5, StackCrash
  <2>6. ASSUME NEW n \in Nodes, Restart(n) PROVE StackInv(call')
    BY <2>6 DEF Restart
  <2>7. CASE UNCHANGED vars
    BY <2>7 DEF vars
  <2> QED
    BY <2>1, <2>2, <2>3, <2>4, <2>5, <2>6, <2>7 DEF Next, AllOver
<1>3. StackInv(call) => OpenCallsFormStack
  BY DEF StackInv, LiveOpen, OpenCallsFormStack
<1>4. IInv /\ (IInv)' /\ StackInv(call) /\ [Next]_vars => (StackInv(call))'
  BY <1>2
<1> QED
  BY <1>1, <1>3, <1>4, Invariant, PTL DEF Spec
=============================================================================
