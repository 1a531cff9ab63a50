------------------------------ MODULE ServedProofs -----------------------------
(***************************************************************************)
(* What valid requests are answered, for every set of containers, routes   *)
(* and bounds.  First: they fail by a fault only, a refusal or a missing   *)
(* peer is never the reason.  Then: with patient timers no fault comes as  *)
(* long as no worker crashes, because somebody can always move.            *)
(*                                                                         *)
(* Served is the invariant of the first part: a call made to the container *)
(* its message is for is not answered otherwise than 200, and asks only    *)
(* such calls.  The second needs that a busy java worker never waits for   *)
(* itself; CalmBelow says so of the calls, JavaIsAskedOnce of the routes.  *)
(***************************************************************************)
EXTENDS HistoryProofs

-----------------------------------------------------------------------------
(* A valid request fails by a fault only.                                  *)

(* A route of CPU steps through named containers, and one whose nested_route *)
(* steps hold nothing but such routes: what Valid says of a request's route. *)
CpuOnly(r) ==
  /\ Hops[r] # <<>>
  /\ \A j \in DOMAIN Hops[r] :
       /\ Named(Hops[r][j].id) /\ Hops[r][j].steps # <<>>
       /\ \A m \in DOMAIN Hops[r][j].steps : Hops[r][j].steps[m] = Cpu

(* A step a worker of this id accepts and can take, in whatever language. *)
FineStep(id, s) ==
  s # Invalid /\ (s \in Routes => NestedOk(s, {"py", "py-gateway", id}) /\ CpuOnly(s))

(* A segment, and a route, of such steps only. *)
FineHop(h) ==
  Named(h.id) /\ h.steps # <<>> /\ \A k \in DOMAIN h.steps : FineStep(h.id, h.steps[k])

Fine(r) == Hops[r] # <<>> /\ \A i \in DOMAIN Hops[r] : FineHop(Hops[r][i])

(* A call with such a route that has come, or will come, to the container its *)
(* next segment names.                                                     *)
Aimed(x) ==
  /\ Fine(x.pay.route)
  /\ x.at = 0 => ~Complete(x.pay) /\ Segment(x.pay).id = IdOf[x.node]

(* No peer address is stale. *)
PeersAreRight == \A n \in Nodes : \A i \in Ids : \A m \in Peers[n][i] : IdOf[m] = i

(* No call has met a fault or lost its caller. *)
Undisturbed(cs) == \A c \in DOMAIN cs : cs[c].open /\ cs[c].result \notin Faults

(* The message of a client is fresh until it is read. *)
Unmoved(cs) ==
  \A c \in DOMAIN cs : cs[c].from = Client /\ cs[c].at = 0 => cs[c].pay = Fresh(cs[c].pay.route)

(* An aimed call is not answered otherwise than 200, and a handler that has such *)
(* a route waits for an aimed call.                                        *)
Served(cs) ==
  \A c \in DOMAIN cs :
    /\ Aimed(cs[c]) => cs[c].result \in {"none", "200"}
    /\ Fine(cs[c].pay.route) /\ cs[c].pc = "wait" => Aimed(cs[cs[c].sub])

(* A route of CPU steps is such a route. *)
LEMMA CpuIsFine ==
  ASSUME NEW r, CpuOnly(r)
  PROVE  Fine(r)
BY StepsAssumption DEF CpuOnly, Fine, FineHop, FineStep

(* So is the route of a request that Valid speaks of. *)
LEMMA ValidIsFine ==
  ASSUME NEW n \in Nodes, NEW r \in Routes, Valid(n, r)
  PROVE  Fine(r) /\ Hops[r][1].id = IdOf[n]
<1>1. ASSUME NEW i \in DOMAIN Hops[r] PROVE FineHop(Hops[r][i])
  <2> DEFINE h == Hops[r][i]
  <2>1. /\ Named(h.id) /\ h.steps # <<>>
        /\ \A k \in DOMAIN h.steps :
             /\ h.steps[k] # Invalid
             /\ h.steps[k] \in Routes =>
                  /\ NestedOk(h.steps[k], {"py", "py-gateway", h.id})
                  /\ \A j \in DOMAIN Hops[h.steps[k]] :
                       /\ Named(Hops[h.steps[k]][j].id)
                       /\ \A m \in DOMAIN Hops[h.steps[k]][j].steps :
                            Hops[h.steps[k]][j].steps[m] = Cpu
    BY DEF Valid
  <2> HIDE DEF h
  <2>2. \A k \in DOMAIN h.steps : FineStep(h.id, h.steps[k])
    BY <2>1 DEF FineStep, CpuOnly, NestedOk
  <2> QED
    BY <2>1, <2>2 DEF FineHop, h
<1> QED
  BY <1>1 DEF Valid, Fine

(* What a worker needs of a segment with such steps, whatever its language. *)
LEMMA FineHopMeans ==
  ASSUME NEW h, FineHop(h), NEW k \in DOMAIN h.steps, NEW lang \in Langs
  PROVE  /\ ~StepFails(lang, h.id, h.steps[k])
         /\ StepIsNested(lang, h.steps[k]) => CpuOnly(h.steps[k])
         /\ PyStepOk(h.steps[k]) /\ RsStepOk(h.steps[k]) /\ GoStepOk(h.steps[k])
         /\ CsStepOk(h.steps[k]) /\ JsStepOk(h.steps[k])
<1> DEFINE s == h.steps[k]
<1>1. FineStep(h.id, s)
  BY DEF FineHop
<1> HIDE DEF s
<1>2. s # Invalid /\ (s \in Routes => NestedOk(s, {"py", "py-gateway", h.id}) /\ CpuOnly(s))
  BY <1>1 DEF FineStep
<1>3. s \in Routes => /\ NestedOk(s, {"py", "py-gateway"}) /\ NestedOk(s, {"py"})
                      /\ Hops[s] # <<>> /\ Hops[s][1].id # h.id
  BY <1>2 DEF NestedOk
<1> QED
  BY <1>2, <1>3 DEF s, StepFails, JaStepFails, StepIsNested,
     PyStepOk, RsStepOk, GoStepOk, CsStepOk, JsStepOk

(* The segment a message on a fine route is at. *)
LEMMA FineSegment ==
  ASSUME NEW p \in Payloads, NEW k \in Nat, Through(p, k), Fine(p.route), ~Complete(p)
  PROVE  FineHop(Segment(p)) /\ Segment(p).id \in Ids
<1>1. FirstUnvisited(p) \in 1 .. Len(Hops[p.route]) /\ Segment(p) \in Segments
  BY NextSegment
<1>2. DOMAIN Hops[p.route] = 1 .. Len(Hops[p.route])
  BY HopsAssumption DEF Payloads
<1>3. FineHop(Segment(p))
  BY <1>1, <1>2 DEF Fine, Segment
<1> QED
  BY <1>1, <1>3 DEF Segments

(* Every language admits it where it is addressed to. *)
LEMMA FineIsAdmitted ==
  ASSUME NEW p \in Payloads, NEW k \in Nat, Through(p, k), Fine(p.route), ~Complete(p),
         NEW lang \in Langs
  PROVE  Admits(lang, Segment(p).id, p)
<1>1. FineHop(Segment(p))
  BY FineSegment
<1>2. Addressed(Segment(p).id, p)
  BY <1>1 DEF Addressed, Fine, FineHop
<1>3. \A s \in StepsOf(p) :
        PyStepOk(s) /\ RsStepOk(s) /\ GoStepOk(s) /\ CsStepOk(s) /\ JsStepOk(s)
  BY <1>1, FineHopMeans DEF StepsOf
<1>4. \A i \in DOMAIN Hops[p.route] : Hops[p.route][i].id # "py"
  BY DEF Fine, FineHop, Named
<1> QED
  BY <1>2, <1>3, <1>4 DEF Langs, Admits, PyAdmits, RsAdmits, GoAdmits, JaAdmits, CsAdmits, JsAdmits

(* A step in which one handler moves, that of c: it closes connections but     *)
(* opens none again, lets the others have their results, and sends a POST only *)
(* to where its peer URL leads.                                            *)
ByOne(cs, ds, c) ==
  /\ \A d \in DOMAIN cs :
       /\ d \in DOMAIN ds /\ (ds[d].open => cs[d].open)
       /\ d # c => ds[d].result = cs[d].result
  /\ Len(ds) # Len(cs) =>
       LET z == ds[Len(ds)]
       IN  z.from = c /\ z.node \in Peers[cs[c].node][Segment(z.pay).id]

(* The call of the handler is replaced. *)
LEMMA ReplacedByOne ==
  ASSUME NEW cs \in Seq(Calls), NEW c \in DOMAIN cs, NEW y \in Calls, y.open => cs[c].open
  PROVE  ByOne(cs, [cs EXCEPT ![c] = y], c)
<1> DEFINE ds == [cs EXCEPT ![c] = y]
<1>1. /\ Len(ds) = Len(cs) /\ DOMAIN ds = DOMAIN cs
      /\ \A d \in DOMAIN cs : ds[d] = IF d = c THEN y ELSE cs[d]
  BY ExceptSeq
<1> HIDE DEF ds
<1>2. ByOne(cs, ds, c)
  BY <1>1 DEF ByOne
<1> QED
  BY <1>2 DEF ds

(* So is that of another one, which is closed. *)
LEMMA ClosedByOne ==
  ASSUME NEW cs \in Seq(Calls), NEW c \in DOMAIN cs, NEW s \in DOMAIN cs,
         NEW y \in Calls, y.open => cs[c].open
  PROVE  ByOne(cs, [cs EXCEPT ![c] = y, ![s].open = FALSE], c)
<1> DEFINE bs == [cs EXCEPT ![c] = y]
           ds == [bs EXCEPT ![s].open = FALSE]
<1>1. /\ bs \in Seq(Calls) /\ Len(bs) = Len(cs) /\ DOMAIN bs = DOMAIN cs
      /\ \A d \in DOMAIN cs : bs[d] = IF d = c THEN y ELSE cs[d]
  BY ExceptSeq
<1>2. bs[s] \in Calls
  BY <1>1, ElementOfSeq
<1> HIDE DEF bs
<1> DEFINE w == [bs[s] EXCEPT !.open = FALSE]
<1>3. w \in Calls /\ ~w.open /\ w.result = bs[s].result
  BY <1>2 DEF Calls
<1>4. /\ Len(ds) = Len(cs) /\ DOMAIN ds = DOMAIN cs
      /\ \A d \in DOMAIN cs : ds[d] = IF d = s THEN w ELSE bs[d]
  BY <1>1, <1>3, ExceptSeq
<1> HIDE DEF ds, w
<1>5. ByOne(cs, ds, c)
  BY <1>1, <1>3, <1>4 DEF ByOne
<1> QED
  BY <1>5 DEF ds, bs

(* A handler that goes on keeps its own connection. *)
LEMMA ResumedOpen ==
  ASSUME NEW c, call[c] \in Calls, NEW o
  PROVE  Resumed(c, o).open = call[c].open
BY DEF Resumed, Ended, Relayed, Calls

(* A POST. *)
LEMMA SendToByOne ==
  ASSUME call \in Seq(Calls), NEW c \in DOMAIN call, NEW me \in Calls,
         me.open = call[c].open, me.node = call[c].node, NEW p, SendTo(c, me, p), CallsInv(call)'
  PROVE  ByOne(call, call', c)
<1>1. CASE call' = [call EXCEPT ![c] = Ended(me, "502")]
  <2>1. Ended(me, "502") \in Calls /\ Ended(me, "502").open = me.open
    BY DEF Ended, Calls, Outcomes, Statuses
  <2> QED
    BY <1>1, <2>1, ReplacedByOne
<1>2. ASSUME NEW n \in Peers[me.node][Segment(p).id], Len(call) < MaxCalls,
             call' = Append([call EXCEPT ![c] = Waiting(me, Len(call) + 1)],
                            Arrival(n, c, me.step, p))
      PROVE  ByOne(call, call', c)
  <2> DEFINE y == Waiting(me, Len(call) + 1)
             bs == [call EXCEPT ![c] = y]
             z == Arrival(n, c, me.step, p)
  <2>1. y.open = me.open
    BY DEF Waiting, Calls
  <2>2. z.node = n /\ z.from = c /\ z.pay = p
    BY DEF Arrival
  <2>3. Len(call) + 1 \in CallIds
    BY <1>2, BoundsAssumption DEF CallIds
  <2>4. y \in Calls
    BY <2>3, WaitingType
  <2>5. /\ bs \in Seq(Calls) /\ Len(bs) = Len(call)
        /\ \A d \in DOMAIN call : bs[d] = IF d = c THEN y ELSE call[d]
    BY <2>4, ExceptSeq
  <2>6. call' = Append(bs, z)
    BY <1>2
  <2> HIDE DEF y, bs, z
  <2>7. /\ Len(call') = Len(call) + 1 /\ call'[Len(call')] = z
        /\ \A d \in DOMAIN call : d \in DOMAIN call' /\ call'[d] = bs[d]
    BY <2>5, <2>6
  <2> QED
    BY <1>2, <2>1, <2>2, <2>5, <2>7 DEF ByOne
<1> QED
  BY <1>1, <1>2 DEF SendTo, Waiting

(* Every handler moves like that. *)
LEMMA HandlersMoveOne ==
  ASSUME IInv, (IInv)', NEW c \in DOMAIN call, Handler(c) \/ Abandon(c) \/ HangUp(c)
  PROVE  ByOne(call, call', c)
<1> DEFINE x == call[c]
           s == call[x.sub]
<1>1. /\ CallsInv(call) /\ CallsInv(call)' /\ call \in Seq(Calls) /\ x \in Calls /\ CallInv(x)
      /\ x.pc \in {"wait", "retry"} => x.sub \in DOMAIN call
  BY CallParts, CallTypes DEF IInv, CallsInv
<1>2. ASSUME NEW o \in Outcomes
      PROVE  Ended(x, o) \in Calls /\ Ended(x, o).open = x.open
  BY <1>1 DEF Ended, Calls
<1>3. "400" \in Outcomes /\ "502" \in Outcomes /\ "200" \in Outcomes /\ "eof" \in Outcomes
  BY DEF Outcomes, Statuses, Faults
<1>4. ASSUME NEW o \in Outcomes, x.pc \in {"wait", "retry"},
             o \in {"timeout", "cancelled"} \/ (x.pc = "wait" /\ o = s.result)
      PROVE  Resumed(c, o) \in Calls /\ Resumed(c, o).open = x.open
  BY <1>1, <1>4, ResumedInv, ResumedOpen
<1>5. CASE Read(c)
  <2>1. CASE Admits(Lang(c), Id(c), x.pay)
    <3>1. call' = [call EXCEPT ![c] = Begun(x)] /\ x.pc = "sent"
      BY <1>5, <2>1 DEF Read
    <3>2. Begun(x) \in Calls /\ Begun(x).open = x.open
      BY <1>1, <2>1, <3>1, BegunInv DEF Lang, Id, Begun, Calls
    <3> QED
      BY <1>1, <3>1, <3>2, ReplacedByOne
  <2>2. CASE ~Admits(Lang(c), Id(c), x.pay)
    <3>1. call' = [call EXCEPT ![c] = Ended(x, "400")]
      BY <1>5, <2>2 DEF Read
    <3> QED
      BY <1>1, <1>2, <1>3, <3>1, ReplacedByOne
  <2> QED
    BY <2>1, <2>2
<1>6. CASE Spin(c)
  <2> DEFINE y == [x EXCEPT !.step = @ + 1]
  <2>1. call' = [call EXCEPT ![c] = y]
    BY <1>6 DEF Spin
  <2>2. x.step + 1 \in Nat
    BY <1>1 DEF Calls
  <2>3. y \in Calls /\ y.open = x.open
    BY <1>1, <2>2 DEF Calls
  <2> HIDE DEF y
  <2> QED
    BY <1>1, <2>1, <2>3, ReplacedByOne
<1>7. CASE RaiseInStep(c)
  BY <1>1, <1>2, <1>3, <1>7, ReplacedByOne DEF RaiseInStep
<1>8. CASE PostNested(c)
  BY <1>1, <1>8, SendToByOne DEF PostNested
<1>9. ASSUME x.pc = "work", ~InSteps(c)
      PROVE  /\ [x EXCEPT !.pay = Visited(c)] \in Calls
             /\ [x EXCEPT !.pay = Visited(c)].open = x.open
             /\ [x EXCEPT !.pay = Visited(c)].node = x.node
  <2>1. Visited(c) \in Payloads
    BY <1>1, <1>9, MarkedInv DEF InSteps, Hop, Visited, Id
  <2> QED
    BY <1>1, <2>1 DEF Calls
<1>10. ASSUME NEW o \in Outcomes, x.pc = "work", ~InSteps(c),
              call' = [call EXCEPT ![c] = Ended([@ EXCEPT !.pay = Visited(c)], o)]
       PROVE  ByOne(call, call', c)
  <2> DEFINE me == [x EXCEPT !.pay = Visited(c)]
             y == Ended(me, o)
  <2>1. me \in Calls /\ me.open = x.open
    BY <1>9, <1>10
  <2> HIDE DEF me
  <2>2. y \in Calls /\ y.open = x.open
    BY <2>1 DEF Ended, Calls
  <2>3. call' = [call EXCEPT ![c] = y]
    BY <1>10 DEF me
  <2> HIDE DEF y
  <2> QED
    BY <1>1, <2>2, <2>3, ReplacedByOne
<1>11. CASE AnswerTerminal(c)
  BY <1>3, <1>10, <1>11 DEF AnswerTerminal
<1>12. CASE Forward(c)
  BY <1>1, <1>9, <1>12, SendToByOne DEF Forward
<1>13. CASE PostAgain(c)
  BY <1>1, <1>13, SendToByOne DEF PostAgain
<1>14. CASE Receive(c)
  <2>1. x.pc = "wait" /\ s.result # "none" /\ call' = [call EXCEPT ![c] = Resumed(c, s.result)]
    BY <1>14 DEF Receive, Answered
  <2>2. s \in Calls
    BY <1>1, <2>1, CallTypes
  <2>3. s.result \in Outcomes
    BY <2>1, <2>2 DEF Calls
  <2> QED
    BY <1>1, <1>4, <2>1, <2>3, ReplacedByOne
<1>15. ASSUME NEW o \in {"timeout", "cancelled"}, x.pc \in {"wait", "retry"}, GiveUp(c, o)
       PROVE  ByOne(call, call', c)
  <2>1. o \in Outcomes
    BY DEF Outcomes, Faults
  <2> QED
    BY <1>1, <1>4, <1>15, <2>1, ClosedByOne DEF GiveUp
<1>16. CASE TimeOut(c)
  BY <1>15, <1>16 DEF TimeOut
<1>17. CASE Cancel(c)
  BY <1>15, <1>17 DEF Cancel
<1>18. CASE Unsent(c)
  <2>1. CASE call' = [call EXCEPT ![c] = Ended(call[c], "502")]
    BY <1>1, <1>2, <1>3, <2>1, ReplacedByOne
  <2>2. CASE /\ ~InSteps(c)
             /\ call' = [call EXCEPT ![c] = Ended([@ EXCEPT !.pay = Visited(c)], "502")]
    BY <1>3, <1>10, <1>18, <2>2 DEF Unsent
  <2> QED
    BY <1>18, <2>1, <2>2 DEF Unsent
<1>19. CASE Drop(c)
  <2>1. CASE call' = [call EXCEPT ![c] = Ended(call[c], "eof")]
    BY <1>1, <1>2, <1>3, <2>1, ReplacedByOne
  <2>2. CASE /\ x.pc = "wait"
             /\ call' = [call EXCEPT ![c] = Ended(call[c], "eof"), ![call[c].sub].open = FALSE]
    BY <1>1, <1>2, <1>3, <2>2, ClosedByOne
  <2> QED
    BY <1>19, <2>1, <2>2 DEF Drop
<1>20. CASE HangUp(c)
  <2> DEFINE y == [x EXCEPT !.open = FALSE]
  <2>1. y \in Calls /\ ~y.open
    BY <1>1 DEF Calls
  <2>2. call' = [call EXCEPT ![c] = y]
    BY <1>20 DEF HangUp
  <2> HIDE DEF y
  <2> QED
    BY <1>1, <2>1, <2>2, ReplacedByOne
<1> QED
  BY <1>5, <1>6, <1>7, <1>8, <1>11, <1>12, <1>13, <1>14, <1>16, <1>17, <1>18, <1>19, <1>20
  DEF Handler, Abandon

(* A crash: a call is lost or keeps its result, and no connection opens. *)
LEMMA CrashMoves ==
  ASSUME IInv, NEW n \in Nodes, Crash(n)
  PROVE  /\ DOMAIN call' = DOMAIN call /\ Len(call') = Len(call)
         /\ \A d \in DOMAIN call :
              /\ call'[d].open => call[d].open
              /\ call'[d].result = call[d].result \/ call'[d].result \in Faults
<1> DEFINE b(c) == call[c].open /\ (Answered(c) \/ call[c].from \notin At(n))
<1>1. PICK reset \in SUBSET At(n) :
        call' = [c \in DOMAIN call |->
                  IF c \notin At(n) THEN [call[c] EXCEPT !.open = b(c)]
                  ELSE Ended([call[c] EXCEPT !.open = b(c)], IF c \in reset THEN "reset" ELSE "eof")]
  BY DEF Crash
<1>2. \A c \in DOMAIN call : b(c) => call[c].open
  OBVIOUS
<1> HIDE DEF b
<1>3. call \in Seq(Calls) /\ DOMAIN call = 1 .. Len(call) /\ Len(call) \in Nat
  BY DEF IInv, CallsInv
<1>4. DOMAIN call' = DOMAIN call
  BY <1>1
<1>5. Len(call') = Len(call)
  BY <1>1, <1>3
<1>6. ASSUME NEW d \in DOMAIN call
      PROVE  /\ call'[d].open => call[d].open
             /\ call'[d].result = call[d].result \/ call'[d].result \in Faults
  <2>1. call[d] \in Calls
    BY CallTypes DEF IInv
  <2>2. CASE d \notin At(n)
    <3>1. call'[d] = [call[d] EXCEPT !.open = b(d)]
      BY <1>1, <2>2
    <3> QED
      BY <1>2, <2>1, <3>1 DEF Calls
  <2>3. CASE d \in At(n)
    <3>1. call'[d] = Ended([call[d] EXCEPT !.open = b(d)], IF d \in reset THEN "reset" ELSE "eof")
      BY <1>1, <2>3
    <3>2. call'[d].open = b(d) /\ call'[d].result \in {"reset", "eof"}
      BY <2>1, <3>1 DEF Ended, Calls
    <3> QED
      BY <1>2, <3>2 DEF Faults
  <2> QED
    BY <2>2, <2>3
<1> QED
  BY <1>4, <1>5, <1>6

(* A disturbance is never undone. *)
LEMMA DisturbedForGood ==
  ASSUME IInv, (IInv)', History(call), [Next]_vars, Undisturbed(call)'
  PROVE  Undisturbed(call)
<1>1. CallsInv(call) /\ CallsInv(call)' /\ Changed(call, call')
  BY EveryStepIsChanged DEF IInv
<1>2. ASSUME NEW d \in DOMAIN call
      PROVE  d \in DOMAIN call' /\ (call'[d].open => call[d].open)
  <2>1. CASE call' = call
    BY <2>1
  <2>2. ASSUME NEW c \in DOMAIN call, Handler(c) \/ Abandon(c) \/ HangUp(c)
        PROVE  d \in DOMAIN call' /\ (call'[d].open => call[d].open)
    <3>1. ByOne(call, call', c)
      BY <2>2, HandlersMoveOne
    <3> QED
      BY <3>1 DEF ByOne
  <2>3. ASSUME NEW n \in Nodes, Crash(n)
        PROVE  d \in DOMAIN call' /\ (call'[d].open => call[d].open)
    BY <2>3, CrashMoves
  <2>4. CASE ClientPosts
    <3>1. PICK z : call' = Append(call, z)
      BY <2>4 DEF ClientPosts
    <3>2. call \in Seq(Calls)
      BY <1>1 DEF CallsInv
    <3> QED
      BY <3>1, <3>2
  <2> QED
    BY <2>1, <2>2, <2>3, <2>4 DEF Next, Restart, AllOver, vars
<1>3. ASSUME NEW d \in DOMAIN call
      PROVE  call[d].open /\ call[d].result \notin Faults
  <2>1. d \in DOMAIN call' /\ call'[d].open /\ call'[d].result \notin Faults /\ call[d].open
    BY <1>2 DEF Undisturbed
  <2>2. Grows(call[d], call'[d])
    BY <1>1, EveryCallGrows DEF History
  <2>3. call[d].result = "none" \/ call[d].pc = "done"
    BY <1>1, CallParts
  <2> QED
    BY <2>1, <2>2, <2>3 DEF Grows, Faults
<1> QED
  BY <1>3 DEF Undisturbed

(* A call that is nowhere yet has been nowhere before, with the same message. *)
LEMMA NowhereKept ==
  ASSUME NEW x \in Calls, NEW y \in Calls, NEW s, NEW j, CallInv(x), CallInv(y), Placed(x),
         Alone(x, y, s) \/ Asks(x, y, j), y.at = 0
  PROVE  x.at = 0 /\ y.pay = x.pay
<1>1. x.at = 0
  BY EveryCallAdvances DEF Advances
<1>2. x.pc \notin Live /\ y.pc \notin Live
  BY <1>1, LiveIsPlaced
<1>3. Rests(x, y) \/ Refuses(x, y) \/ Loses(x, y)
  BY <1>2 DEF Live, Alone, Begins, StepsOn, Sleeps, Asks, Ends, Fails, Refers, Earns, Relays
<1> QED
  BY <1>1, <1>3 DEF Rests, Refuses, Loses

(* Whether a call is aimed is settled when it is made. *)
LEMMA AimedKept ==
  ASSUME NEW x \in Calls, NEW y \in Calls, NEW s, NEW j, CallInv(x), CallInv(y), Placed(x),
         Fixed(x, y), Grows(x, y), Alone(x, y, s) \/ Asks(x, y, j)
  PROVE  Aimed(y) <=> Aimed(x)
<1>1. y.pay.route = x.pay.route /\ y.node = x.node
  BY DEF Grows, Fixed
<1>2. CASE y.at = 0
  <2>1. x.at = 0 /\ y.pay = x.pay
    BY <1>2, NowhereKept
  <2> QED
    BY <1>1, <1>2, <2>1 DEF Aimed
<1>3. CASE x.at # 0
  <2>1. y.at # 0
    BY <1>3, EveryCallAdvances DEF Advances
  <2> QED
    BY <1>1, <1>3, <2>1 DEF Aimed
<1>4. CASE x.at = 0 /\ y.at # 0
  <2>1. x.pc \notin Live
    BY <1>4, LiveIsPlaced
  <2>2. Begins(x, y)
    BY <1>4, <2>1 DEF Live, Alone, Rests, InPlace, StepsOn, Passes, Heeds, Sleeps, Asks, Ends
  <2>3. ~Complete(x.pay) /\ Segment(x.pay).id = IdOf[x.node]
    BY <2>2, HopTypes, AdmitsMeans DEF Begins
  <2> QED
    BY <1>1, <1>4, <2>3 DEF Aimed
<1> QED
  BY <1>2, <1>3, <1>4

(* The segment a handler on a fine route is at, and its steps. *)
LEMMA FinePlace ==
  ASSUME NEW x \in Calls, CallInv(x), x.pc \in Live, Fine(x.pay.route)
  PROVE  /\ FineHop(HopOf(x)) /\ HopOf(x).id = IdOf[x.node]
         /\ Within(x) => x.step \in DOMAIN HopOf(x).steps
<1>1. AtItsHop(x) /\ HopOf(x).id = IdOf[x.node]
  BY LiveIsPlaced
<1>2. x.at \in 1 .. Len(Hops[x.pay.route])
  BY <1>1 DEF AtItsHop
<1>3. /\ DOMAIN Hops[x.pay.route] = 1 .. Len(Hops[x.pay.route])
      /\ HopOf(x).steps \in Seq(Steps)
  <2>1. Hops[x.pay.route] \in Seq(Segments)
    BY HopTypes
  <2>2. DOMAIN Hops[x.pay.route] = 1 .. Len(Hops[x.pay.route])
    BY <2>1
  <2>3. HopOf(x).steps \in Seq(Steps)
    BY <1>2, HopTypes DEF HopOf
  <2> QED
    BY <2>2, <2>3
<1>4. FineHop(HopOf(x))
  BY <1>2, <1>3 DEF Fine, HopOf
<1>5. x.step \in 1 .. Len(HopOf(x).steps) + 1
  BY <1>1 DEF AtItsHop, HopOf
<1>6. Within(x) => x.step \in 1 .. Len(HopOf(x).steps)
  BY <1>5 DEF Within
<1>7. DOMAIN HopOf(x).steps = 1 .. Len(HopOf(x).steps)
  BY <1>3
<1> QED
  BY <1>1, <1>4, <1>6, <1>7

(* What it posts goes to a named container, and its route is fine again. *)
LEMMA FinePost ==
  ASSUME NEW x \in Calls, CallInv(x), x.pc \in Live, Fine(x.pay.route), Within(x),
         StepIsNested(LangOf[x.node], StepOf(x))
  PROVE  LET p == Fresh(StepOf(x))
         IN  /\ p \in Payloads /\ Through(p, 0) /\ Fine(p.route) /\ ~Complete(p)
             /\ p.route = StepOf(x)
<1> DEFINE r == StepOf(x)
           p == Fresh(r)
<1>1. /\ FineHop(HopOf(x)) /\ x.step \in DOMAIN HopOf(x).steps
      /\ LangOf[x.node] \in Langs
  BY FinePlace, HopTypes
<1>2. CpuOnly(r)
  BY <1>1, FineHopMeans DEF StepOf
<1>3. r \in Routes
  BY DEF StepIsNested
<1> HIDE DEF r
<1>4. Fine(r) /\ Hops[r] # <<>> /\ Hops[r] \in Seq(Segments)
  BY <1>2, <1>3, CpuIsFine, HopsAssumption DEF CpuOnly
<1>5. p \in Payloads /\ Through(p, 0) /\ p.route = r
  BY <1>3, FreshThrough DEF Fresh
<1>6. Len(Hops[r]) # 0
  BY <1>4
<1>7. ~Complete(p)
  <2> HIDE DEF p
  <2> QED
    BY <1>5, <1>6, NextSegment
<1> QED
  BY <1>4, <1>5, <1>7 DEF r

(* No POST of such a message lacks a peer. *)
LEMMA FineHasPeer ==
  ASSUME NEW p \in Payloads, NEW k \in Nat, Through(p, k), Fine(p.route), ~Complete(p),
         NEW n \in Nodes
  PROVE  Peers[n][Segment(p).id] # {}
BY FineSegment DEF FineHop, Named

(* Hence a handler that posts it waits. *)
LEMMA FineSendTo ==
  ASSUME call \in Seq(Calls), NEW c \in DOMAIN call, NEW me \in Calls, me.result = "none",
         NEW p \in Payloads, NEW k \in Nat, Through(p, k), Fine(p.route), ~Complete(p),
         SendTo(c, me, p)
  PROVE  call'[c].result = "none"
<1>1. me.node \in Nodes
  BY DEF Calls
<1>2. Peers[me.node][Segment(p).id] # {}
  BY <1>1, FineHasPeer
<1>3. PICK n : /\ Len(call) < MaxCalls
               /\ call' = Append([call EXCEPT ![c] = Waiting(me, Len(call) + 1)],
                                 Arrival(n, c, me.step, p))
  BY <1>2 DEF SendTo, Waiting
<1> DEFINE y == Waiting(me, Len(call) + 1)
           bs == [call EXCEPT ![c] = y]
<1>4. Len(call) + 1 \in CallIds
  BY <1>3, BoundsAssumption DEF CallIds
<1>5. y \in Calls /\ y.result = "none"
  BY <1>4, WaitingType DEF Waiting, Calls
<1> HIDE DEF y
<1>6. bs \in Seq(Calls) /\ Len(bs) = Len(call) /\ bs[c] = y /\ c \in DOMAIN bs
  BY <1>5, ExceptSeq
<1> HIDE DEF bs
<1>7. call'[c] = y
  BY <1>3, <1>6 DEF y, bs
<1> QED
  BY <1>5, <1>7

(* A handler whose message is aimed ends with 200 only, unless disturbed. *)
LEMMA AimedEndsWell ==
  ASSUME IInv, (IInv)', History(call), NEW c \in DOMAIN call,
         Handler(c) \/ Abandon(c) \/ HangUp(c),
         Undisturbed(call), Undisturbed(call)', Served(call), Aimed(call[c])
  PROVE  call'[c].result \in {"none", "200"}
<1> DEFINE x == call[c]
           s == call[x.sub]
<1>1. /\ CallsInv(call) /\ call \in Seq(Calls) /\ x \in Calls /\ CallInv(x) /\ Placed(x)
      /\ x.pc \in {"wait", "retry"} => x.sub \in DOMAIN call
      /\ x.pc = "done" <=> x.result # "none"
      /\ x.pay \in Payloads /\ LangOf[x.node] \in Langs
  BY CallParts, HopTypes DEF IInv, CallsInv, History
<1>2. /\ InSteps(c) <=> Within(x)
      /\ Step(c) = StepOf(x) /\ Lang(c) = LangOf[x.node] /\ Id(c) = IdOf[x.node]
      /\ Visited(c) = Marked(x) /\ Hop(c) = HopOf(x)
  BY DEF InSteps, Step, Hop, Within, HopOf, StepOf, Lang, Id, Visited, Marked
<1>3. Fine(x.pay.route) /\ x.result \in {"none", "200"}
  BY DEF Aimed, Served
<1>4. x.open /\ c \in DOMAIN call'
  BY HandlersMoveOne DEF ByOne, Undisturbed
<1>5. call'[c].open
  BY <1>4 DEF Undisturbed
<1>6. x.pc \in Live /\ InSteps(c) => ~StepFails(Lang(c), Id(c), Step(c))
  <2> SUFFICES ASSUME x.pc \in Live, Within(x) PROVE ~StepFails(Lang(c), Id(c), Step(c))
    BY <1>2
  <2>1. FineHop(HopOf(x)) /\ HopOf(x).id = IdOf[x.node] /\ x.step \in DOMAIN HopOf(x).steps
    BY <1>1, <1>3, FinePlace
  <2> QED
    BY <1>1, <1>2, <2>1, FineHopMeans DEF StepOf
<1>7. CASE Read(c)
  <2>1. x.pc = "sent"
    BY <1>7 DEF Read
  <2>2. ~Complete(x.pay) /\ Segment(x.pay).id = IdOf[x.node]
    BY <1>1, <2>1 DEF Placed, Aimed
  <2>3. PICK k \in Nat : Through(x.pay, k)
    BY <1>1 DEF CallInv
  <2>4. Admits(Lang(c), Id(c), x.pay)
    BY <1>1, <1>2, <1>3, <2>2, <2>3, FineIsAdmitted
  <2>5. call'[c] = Begun(x)
    BY <1>1, <1>7, <2>4 DEF Read
  <2>6. Begun(x).result = x.result
    BY <1>1 DEF Begun, Calls
  <2> QED
    BY <1>3, <2>5, <2>6
<1>8. CASE Spin(c)
  <2>1. call'[c] = [x EXCEPT !.step = @ + 1]
    BY <1>1, <1>8 DEF Spin
  <2> QED
    BY <1>1, <1>3, <2>1 DEF Calls
<1>9. CASE RaiseInStep(c)
  BY <1>6, <1>9 DEF RaiseInStep, Live
<1>10. CASE PostNested(c)
  <2>1. x.pc = "work" /\ Within(x) /\ StepIsNested(LangOf[x.node], StepOf(x))
    BY <1>2, <1>10 DEF PostNested
  <2>2. SendTo(c, x, Fresh(StepOf(x)))
    BY <1>2, <1>10 DEF PostNested
  <2>3. LET p == Fresh(StepOf(x))
        IN  p \in Payloads /\ Through(p, 0) /\ Fine(p.route) /\ ~Complete(p)
    BY <1>1, <1>3, <2>1, FinePost DEF Live
  <2>4. x.result = "none"
    BY <1>1, <2>1
  <2>5. call'[c].result = "none"
    BY <1>1, <2>2, <2>3, <2>4, FineSendTo
  <2> QED
    BY <2>5
<1>11. CASE AnswerTerminal(c)
  <2> DEFINE me == [x EXCEPT !.pay = Visited(c)]
  <2>1. call'[c] = Ended(me, "200")
    BY <1>1, <1>11 DEF AnswerTerminal
  <2>2. DOMAIN me = DOMAIN x
    OBVIOUS
  <2>3. call'[c].result = "200"
    BY <1>1, <2>1 DEF Ended, Calls
  <2> QED
    BY <2>3
<1>12. CASE Forward(c)
  <2> DEFINE me == [x EXCEPT !.pay = Visited(c)]
  <2>1. x.pc = "work" /\ ~InSteps(c) /\ ~Complete(Visited(c)) /\ SendTo(c, me, Visited(c))
    BY <1>12 DEF Forward
  <2>2. Visited(c) \in Payloads /\ Through(Visited(c), x.at) /\ x.at \in Nat
    BY <1>1, <2>1, MarkedInv DEF InSteps, Hop, Visited, Id
  <2>3. me \in Calls /\ me.result = x.result
    BY <1>1, <2>2, PayFields
  <2>4. Fine(Visited(c).route)
    BY <1>1, <1>2, <1>3, MarkedFields
  <2>5. x.result = "none"
    BY <1>1, <2>1
  <2> HIDE DEF me
  <2>6. call'[c].result = "none"
    BY <1>1, <2>1, <2>2, <2>3, <2>4, <2>5, FineSendTo
  <2> QED
    BY <2>6
<1>13. CASE PostAgain(c)
  <2>1. x.pc = "retry"
    BY <1>13 DEF PostAgain
  <2>2. GoTransient(s.result) /\ x.sub \in DOMAIN call
    BY <1>1, <2>1 DEF History, Awaited
  <2> QED
    BY <2>2 DEF GoTransient, Undisturbed, Faults
<1>14. CASE Receive(c)
  <2>1. x.pc = "wait" /\ s.result # "none" /\ call'[c] = Resumed(c, s.result)
    BY <1>1, <1>14 DEF Receive, Answered
  <2>2. x.sub \in DOMAIN call /\ Aimed(s)
    BY <1>1, <1>3, <2>1 DEF Served
  <2>3. s.result = "200"
    BY <2>1, <2>2 DEF Served
  <2>4. /\ ~PostsAgain(Lang(c), "200", x.tries)
        /\ AfterNested(Lang(c), "200") = "next" /\ AfterForward(Lang(c), "200") = "200"
    BY <1>1, <1>2 DEF PostsAgain, GoTransient, Langs, AfterNested, AfterForward, Statuses,
       PyAfterNested, PyAfterForward, RsAfterNested, RsAfterForward, GoAfterNested, GoAfterForward,
       JaAfterNested, JaAfterForward, CsAfterNested, CsAfterForward, JsAfterNested, JsAfterForward
  <2>5. call'[c] = IF InSteps(c) THEN [x EXCEPT !.pc = "work", !.step = @ + 1, !.tries = 0]
                   ELSE Ended(Relayed(x), "200")
    BY <2>1, <2>3, <2>4 DEF Resumed
  <2> HIDE DEF x
  <2>6. call'[c].result \in {x.result, "200"}
    BY <1>1, <2>5 DEF Ended, Relayed, Calls
  <2> QED
    BY <1>3, <2>6
<1>15. ASSUME NEW y \in Calls, call' = [call EXCEPT ![c] = y, ![x.sub].open = FALSE],
              x.sub \in DOMAIN call
       PROVE  FALSE
  <2> DEFINE bs == [call EXCEPT ![c] = y]
  <2>1. bs[x.sub] \in Calls /\ x.sub \in DOMAIN bs
    BY <1>1, <1>15
  <2>2. call' = [bs EXCEPT ![x.sub].open = FALSE]
    BY <1>15
  <2> HIDE DEF bs
  <2>3. call'[x.sub].open = FALSE /\ x.sub \in DOMAIN call'
    BY <2>1, <2>2 DEF Calls
  <2> QED
    BY <2>3 DEF Undisturbed
<1>16. CASE Abandon(c)
  <2>1. TimeOut(c)
    BY <1>4, <1>16 DEF Abandon, Cancel, Unsent, Drop
  <2>2. x.pc = "wait" /\ GiveUp(c, "timeout")
    BY <2>1 DEF TimeOut
  <2>3. Resumed(c, "timeout") \in Calls
    BY <1>1, <2>2, ResumedInv DEF Outcomes, Faults
  <2> QED
    BY <1>1, <1>15, <2>2, <2>3 DEF GiveUp
<1>17. CASE HangUp(c)
  <2>1. call'[c] = [x EXCEPT !.open = FALSE]
    BY <1>17 DEF HangUp
  <2> QED
    BY <1>1, <1>5, <2>1 DEF Calls
<1> QED
  BY <1>7, <1>8, <1>9, <1>10, <1>11, <1>12, <1>13, <1>14, <1>16, <1>17 DEF Handler

(* What the step of the system does to an aimed call. *)
LEMMA AimedStaysWell ==
  ASSUME IInv, (IInv)', History(call), [Next]_vars,
         Undisturbed(call), Undisturbed(call)', Served(call),
         NEW c \in DOMAIN call, Aimed(call[c])
  PROVE  call'[c].result \in {"none", "200"}
<1>1. CallsInv(call) /\ CallsInv(call)' /\ Changed(call, call') /\ c \in DOMAIN call'
  BY EveryStepIsChanged, ChangedOne DEF IInv
<1>2. call[c].result \in {"none", "200"}
  BY DEF Served
<1>3. CASE call' = call
  BY <1>2, <1>3
<1>4. ASSUME NEW d \in DOMAIN call, Handler(d) \/ Abandon(d) \/ HangUp(d)
      PROVE  call'[c].result \in {"none", "200"}
  <2>1. CASE d = c
    BY <1>4, <2>1, AimedEndsWell
  <2>2. CASE d # c
    <3>1. ByOne(call, call', d)
      BY <1>4, HandlersMoveOne
    <3> QED
      BY <1>2, <2>2, <3>1 DEF ByOne
  <2> QED
    BY <2>1, <2>2
<1>5. ASSUME NEW n \in Nodes, Crash(n)
      PROVE  call'[c].result \in {"none", "200"}
  BY <1>1, <1>2, <1>5, CrashMoves DEF Undisturbed
<1>6. CASE ClientPosts
  <2>1. PICK z : call' = Append(call, z)
    BY <1>6 DEF ClientPosts
  <2>2. call \in Seq(Calls)
    BY <1>1 DEF CallsInv
  <2> QED
    BY <1>2, <2>1, <2>2
<1> QED
  BY <1>3, <1>4, <1>5, <1>6 DEF Next, Restart, AllOver, vars

(* The call a handler makes goes where its peer URL leads. *)
LEMMA PostedToPeer ==
  ASSUME IInv, (IInv)', [Next]_vars, Len(call') # Len(call),
         call'[Len(call')].from # Client
  PROVE  LET z == call'[Len(call')]
         IN  z.node \in Peers[call[z.from].node][Segment(z.pay).id]
<1>1. call \in Seq(Calls)
  BY DEF IInv, CallsInv
<1>2. ~ClientPosts
  <2> SUFFICES ASSUME ClientPosts PROVE FALSE
    OBVIOUS
  <2>1. PICK q \in Posts : call' = Append(call, Arrival(q.to, Client, 0, Fresh(q.route)))
    BY DEF ClientPosts
  <2>2. call'[Len(call')] = Arrival(q.to, Client, 0, Fresh(q.route))
    BY <1>1, <2>1
  <2> QED
    BY <2>2 DEF Arrival
<1>3. ASSUME NEW n \in Nodes PROVE ~Crash(n)
  BY CrashMoves
<1>4. PICK c \in DOMAIN call : Handler(c) \/ Abandon(c) \/ HangUp(c)
  BY <1>2, <1>3 DEF Next, Restart, AllOver, vars
<1>5. ByOne(call, call', c)
  BY <1>4, HandlersMoveOne
<1> QED
  BY <1>5 DEF ByOne

(* A handler posts to the container its message is for when no peer address is stale. *)
LEMMA PostedRight ==
  ASSUME IInv, (IInv)', [Next]_vars, PeersAreRight,
         NEW c \in DOMAIN call, Len(call') = Len(call) + 1,
         call'[Len(call')].from = c, ~Complete(call'[Len(call')].pay)
  PROVE  LET z == call'[Len(call')]
         IN  /\ z \in Calls /\ CallInv(z) /\ Segment(z.pay).id = IdOf[z.node]
<1> DEFINE x == call[c]
           z == call'[Len(call')]
<1>1. /\ CallsInv(call) /\ CallsInv(call)' /\ Len(call) \in Nat /\ c # Client
      /\ x \in Calls /\ CallInv(x) /\ x.node \in Nodes
  BY CallParts, HopTypes DEF IInv, Client
<1>2. Len(call') \in DOMAIN call' /\ Len(call') # Len(call)
  BY <1>1 DEF CallsInv
<1>3. z \in Calls /\ CallInv(z) /\ z.pay \in Payloads
  <2>1. \A cs : CallsInv(cs) => \A d \in DOMAIN cs : cs[d] \in Calls /\ CallInv(cs[d]) /\ cs[d].pay \in Payloads
    BY CallParts
  <2> QED
    BY <1>1, <1>2, <2>1
<1>4. z.node \in Peers[x.node][Segment(z.pay).id]
  BY <1>1, <1>2, PostedToPeer
<1>5. Segment(z.pay).id \in Ids
  <2>1. PICK k \in Nat : Through(z.pay, k)
    BY <1>3 DEF CallInv
  <2>2. Segment(z.pay) \in Segments
    BY <1>3, <2>1, NextSegment
  <2> QED
    BY <2>2 DEF Segments
<1>6. IdOf[z.node] = Segment(z.pay).id
  BY <1>1, <1>4, <1>5 DEF PeersAreRight
<1> QED
  BY <1>3, <1>6

(* What a handler posts of a fine route is aimed when no peer address is stale. *)
LEMMA PostedIsAimed ==
  ASSUME IInv, (IInv)', [Next]_vars, PeersAreRight,
         NEW c \in DOMAIN call, Fine(call[c].pay.route),
         Asks(call[c], call'[c], Len(call) + 1), Len(call') = Len(call) + 1,
         LET z == call'[Len(call')]
         IN  z.from = c /\ MadeBy(call[c], call'[c], z)
  PROVE  Aimed(call'[Len(call')])
<1> DEFINE x == call[c]
           y == call'[c]
           z == call'[Len(call')]
<1>1. x \in Calls /\ CallInv(x) /\ x.pc \in Live
  BY CallParts DEF IInv, Asks, Live
<1>2. Fine(z.pay.route) /\ ~Complete(z.pay)
  <2>1. CASE Within(x)
    <3>1. StepIsNested(LangOf[x.node], StepOf(x)) /\ z.pay = Fresh(StepOf(x))
      BY <2>1 DEF Asks, MadeBy
    <3> QED
      BY <1>1, <2>1, <3>1, FinePost
  <2>2. CASE ~Within(x)
    <3>1. z.pay = y.pay /\ ~Complete(y.pay) /\ y.pay \in {x.pay, Marked(x)}
      BY <2>2 DEF Asks, MadeBy
    <3>2. Marked(x).route = x.pay.route
      BY <1>1, MarkedFields
    <3> QED
      BY <3>1, <3>2
  <2> QED
    BY <2>1, <2>2
<1>3. Segment(z.pay).id = IdOf[z.node]
  BY <1>2, PostedRight
<1> QED
  BY <1>2, <1>3 DEF Aimed

(* Served is kept by an undisturbed step. *)
LEMMA ServedKept ==
  ASSUME IInv, (IInv)', History(call), [Next]_vars, PeersAreRight,
         Undisturbed(call), Undisturbed(call)', Served(call)
  PROVE  Served(call)'
<1> DEFINE cs == call
           ds == call'
<1>1. CallsInv(cs) /\ CallsInv(ds) /\ Changed(cs, ds) /\ Lineage(cs) /\ Awaited(cs)
  BY EveryStepIsChanged DEF IInv, History
<1>2. ASSUME NEW c \in DOMAIN cs
      PROVE  /\ c \in DOMAIN ds /\ Fixed(cs[c], ds[c]) /\ Grows(cs[c], ds[c])
             /\ Alone(cs[c], ds[c], cs[cs[c].sub]) \/ Asks(cs[c], ds[c], Len(cs) + 1)
             /\ cs[c] \in Calls /\ ds[c] \in Calls /\ CallInv(cs[c]) /\ CallInv(ds[c])
             /\ Placed(cs[c])
  BY <1>1, ChangedOne, EveryCallGrows, CallParts DEF History
<1>3. ASSUME NEW c \in DOMAIN cs
      PROVE  Aimed(ds[c]) <=> Aimed(cs[c])
  BY <1>2, AimedKept
<1>4. ASSUME NEW c \in DOMAIN ds, c \notin DOMAIN cs
      PROVE  New(ds[c])
  BY <1>1, <1>4, OldOrNew
<1>5. ASSUME NEW c \in DOMAIN ds, Aimed(ds[c])
      PROVE  ds[c].result \in {"none", "200"}
  <2>1. CASE c \in DOMAIN cs
    BY <1>3, <1>5, <2>1, AimedStaysWell
  <2>2. CASE c \notin DOMAIN cs
    BY <1>4, <2>2 DEF New, Undisturbed, Faults
  <2> QED
    BY <2>1, <2>2
<1>6. ASSUME NEW c \in DOMAIN ds, Fine(ds[c].pay.route), ds[c].pc = "wait"
      PROVE  Aimed(ds[ds[c].sub])
  <2>1. c \in DOMAIN cs
    BY <1>4, <1>6 DEF New
  <2>2. Fine(cs[c].pay.route)
    BY <1>2, <1>6, <2>1 DEF Grows
  <2>3. CASE Asks(cs[c], ds[c], Len(cs) + 1)
    <3>1. /\ ds[c].sub = Len(cs) + 1 /\ Len(ds) = Len(cs) + 1 /\ ds[Len(ds)].from = c
          /\ MadeBy(cs[c], ds[c], ds[Len(ds)])
      <4>1. cs[c].pc # ds[c].pc /\ ds[c].sub = Len(cs) + 1
        BY <1>6, <2>3 DEF Asks
      <4>2. ~Alone(cs[c], ds[c], cs[cs[c].sub])
        BY <1>6, <4>1 DEF Alone, Rests, Begins, StepsOn, Sleeps, Ends
      <4>3. Len(ds) = Len(cs) + 1 /\ ds[Len(ds)].from = c
        BY <1>1, <2>1, <4>2 DEF Changed
      <4>4. c # Client
        BY <1>1, <2>1 DEF CallsInv, Client
      <4> QED
        BY <1>1, <4>1, <4>3, <4>4 DEF Changed, MadeByClient
    <3> QED
      BY <2>1, <2>2, <2>3, <3>1, PostedIsAimed
  <2>4. CASE Alone(cs[c], ds[c], cs[cs[c].sub])
    <3>1. cs[c].pc = "wait" /\ ds[c].sub = cs[c].sub
      BY <1>6, <2>4 DEF Alone, Rests, Begins, StepsOn, Sleeps, Ends
    <3>2. Aimed(cs[cs[c].sub]) /\ cs[c].sub \in DOMAIN cs
      BY <1>1, <2>1, <2>2, <3>1, CallParts DEF Served
    <3> QED
      BY <1>3, <3>1, <3>2
  <2> QED
    BY <1>2, <2>1, <2>3, <2>4
<1>7. Served(ds)
  BY <1>5, <1>6 DEF Served
<1> QED
  BY <1>7 DEF Served

(* So is what the requests of clients are before they are read. *)
LEMMA UnmovedKept ==
  ASSUME IInv, (IInv)', History(call), [Next]_vars, Unmoved(call)
  PROVE  Unmoved(call)'
<1> DEFINE cs == call
           ds == call'
<1>1. CallsInv(cs) /\ CallsInv(ds) /\ Changed(cs, ds)
  BY EveryStepIsChanged DEF IInv
<1>2. ASSUME NEW c \in DOMAIN ds, ds[c].from = Client, ds[c].at = 0
      PROVE  ds[c].pay = Fresh(ds[c].pay.route)
  <2>1. CASE c \in DOMAIN cs
    <3>1. /\ Fixed(cs[c], ds[c])
          /\ Alone(cs[c], ds[c], cs[cs[c].sub]) \/ Asks(cs[c], ds[c], Len(cs) + 1)
          /\ cs[c] \in Calls /\ ds[c] \in Calls /\ CallInv(cs[c]) /\ CallInv(ds[c])
          /\ Placed(cs[c])
      BY <1>1, <2>1, ChangedOne, CallParts DEF History
    <3>2. cs[c].at = 0 /\ ds[c].pay = cs[c].pay
      BY <1>2, <3>1, NowhereKept
    <3> QED
      BY <1>2, <2>1, <3>1, <3>2 DEF Unmoved, Fixed
  <2>2. CASE c \notin DOMAIN cs
    <3>1. MadeByClient(ds[c]) \/ ds[c].from \in DOMAIN cs
      BY <1>1, <2>2, OldOrNew
    <3>2. ds[c].from \notin DOMAIN cs
      BY <1>1, <1>2 DEF CallsInv, Client
    <3>3. PICK r \in Routes : ds[c].pay = Fresh(r)
      BY <3>1, <3>2 DEF MadeByClient
    <3>4. Fresh(r).route = r
      BY DEF Fresh
    <3> QED
      BY <3>3, <3>4
  <2> QED
    BY <2>1, <2>2
<1>3. Unmoved(ds)
  BY <1>2 DEF Unmoved
<1> QED
  BY <1>3 DEF Unmoved

(* While no peer address is stale, no connection is closed and no call meets a
   fault, every valid request that has been answered has been answered with 200:
   a refusal, a step that raises or a missing peer is never the reason - for every
   set of containers and routes, whatever else is being served. *)
THEOREM ValidFailsByFaultOnly ==
  Spec => [](PeersAreRight /\ Undisturbed(call) =>
               \A c \in DOMAIN call :
                 call[c].from = Client /\ Answered(c) /\ Valid(call[c].node, call[c].pay.route) =>
                   call[c].result = "200")
<1> DEFINE J == /\ Unmoved(call)
                /\ PeersAreRight /\ Undisturbed(call) => Served(call)
           Ok == PeersAreRight /\ Undisturbed(call) =>
                   \A c \in DOMAIN call :
                     call[c].from = Client /\ Answered(c)
                       /\ Valid(call[c].node, call[c].pay.route) =>
                     call[c].result = "200"
<1>1. Init => J
  BY DEF Init, Unmoved, Served
<1>2. IInv /\ IInv' /\ History(call) /\ J /\ [Next]_vars => J'
  <2> SUFFICES ASSUME IInv, IInv', History(call), J, [Next]_vars PROVE J'
    OBVIOUS
  <2>1. Unmoved(call)'
    BY UnmovedKept
  <2>2. PeersAreRight /\ Undisturbed(call)' => Served(call)'
    BY DisturbedForGood, ServedKept
  <2> QED
    BY <2>1, <2>2 DEF PeersAreRight
<1>3. IInv /\ J => Ok
  <2> SUFFICES ASSUME IInv, J, PeersAreRight, Undisturbed(call), NEW c \in DOMAIN call,
                      call[c].from = Client, Answered(c),
                      Valid(call[c].node, call[c].pay.route)
               PROVE  call[c].result = "200"
    OBVIOUS
  <2> DEFINE x == call[c]
  <2>1. x \in Calls /\ x.node \in Nodes /\ x.pay.route \in Routes
    BY CallTypes, HopTypes DEF IInv
  <2>2. Fine(x.pay.route) /\ Hops[x.pay.route][1].id = IdOf[x.node]
    BY <2>1, ValidIsFine
  <2>3. x.at = 0 => ~Complete(x.pay) /\ Segment(x.pay).id = IdOf[x.node]
    <3> SUFFICES ASSUME x.at = 0
                 PROVE  ~Complete(x.pay) /\ Segment(x.pay).id = IdOf[x.node]
      OBVIOUS
    <3> DEFINE r == x.pay.route
    <3>1. x.pay = Fresh(r)
      BY DEF Unmoved
    <3> HIDE DEF x
    <3>2. x.pay \in Payloads /\ Through(x.pay, 0)
      BY <2>1, <3>1, FreshThrough
    <3>3. Len(Hops[x.pay.route]) # 0
      BY <2>1, <2>2, HopsAssumption DEF Fine
    <3>4. ~Complete(x.pay) /\ FirstUnvisited(x.pay) = 1
      BY <3>2, <3>3, NextSegment
    <3> QED
      BY <2>2, <3>4 DEF Segment
  <2>4. Aimed(x)
    BY <2>2, <2>3 DEF Aimed
  <2> QED
    BY <2>4 DEF Served, Answered
<1> QED
  BY <1>1, <1>2, <1>3, HistoryHolds, PTL DEF Spec

-----------------------------------------------------------------------------
(* No fault comes while timers are patient and nobody crashes.             *)

(* A java worker serves nobody else while it waits; in what it waits for,  *)
(* no java worker may be asked again.                                      *)
SerialNodes == {n \in Nodes : Serial(LangOf[n])}
SerialIds == {IdOf[n] : n \in SerialNodes}

(* Segment h is for no java worker, and its nested routes are among Q.     *)
PassesBy(h, Q) ==
  /\ h.id \notin SerialIds
  /\ \A k \in DOMAIN h.steps : h.steps[k] \in Routes => h.steps[k] \in Q

(* The routes that do not come to a java worker, at whatever depth, and    *)
(* what is left of a route from segment i when it does not.                *)
FreeRoutes ==
  UNION {Q \in SUBSET Routes : \A r \in Q : \A i \in DOMAIN Hops[r] : PassesBy(Hops[r][i], Q)}

FreeFrom(r, i) == \A j \in DOMAIN Hops[r] : i <= j => PassesBy(Hops[r][j], FreeRoutes)

(* What a java worker at segment i of r posts is free of java.             *)
AsksOnce(r, i) ==
  \A n \in SerialNodes : IdOf[n] = Hops[r][i].id =>
    /\ FreeFrom(r, i + 1)
    /\ \A k \in DOMAIN Hops[r][i].steps :
         PostsNested(LangOf[n], IdOf[n], Hops[r][i].steps[k]) =>
           Hops[r][i].steps[k] \in FreeRoutes

(* The routes for which this holds, at whatever depth; all that clients post are such. *)
OrderlyRoutes ==
  UNION {Q \in SUBSET Routes :
           \A r \in Q : \A i \in DOMAIN Hops[r] :
             /\ AsksOnce(r, i)
             /\ \A k \in DOMAIN Hops[r][i].steps :
                  Hops[r][i].steps[k] \in Routes => Hops[r][i].steps[k] \in Q}

JavaIsAskedOnce == \A q \in Posts : q.route \in OrderlyRoutes

(* A call beneath which no java worker is asked, made to the right container. *)
Calm(x) ==
  /\ FreeFrom(x.pay.route, IF x.at = 0 THEN x.pay.counter + 1 ELSE x.at)
  /\ x.at = 0 => ~Complete(x.pay) /\ Segment(x.pay).id = IdOf[x.node]

(* What a java worker waits for is calm, and so is all beneath it. *)
CalmBelow(cs) ==
  \A c \in DOMAIN cs :
    cs[c].pc = "wait" /\ (Serial(LangOf[cs[c].node]) \/ Calm(cs[c])) => Calm(cs[cs[c].sub])

(* Calls are younger than the handlers that make them, and have orderly routes. *)
InOrder(cs) == \A c \in DOMAIN cs : cs[c].from < c /\ cs[c].pay.route \in OrderlyRoutes

(* The system as long as nobody has crashed. *)
Serene == crashes = 0 => up = Nodes /\ Undisturbed(call)

(* A route that does not come to a java worker passes by all of them, from each segment on. *)
LEMMA FreeMeans ==
  ASSUME NEW r \in FreeRoutes, NEW i
  PROVE  r \in Routes /\ FreeFrom(r, i)
<1>1. PICK Q \in SUBSET Routes :
        r \in Q /\ \A q \in Q : \A j \in DOMAIN Hops[q] : PassesBy(Hops[q][j], Q)
  BY DEF FreeRoutes
<1>2. Q \subseteq FreeRoutes
  BY <1>1 DEF FreeRoutes
<1> QED
  BY <1>1, <1>2 DEF FreeFrom, PassesBy

(* An orderly route asks java once, and its nested routes are orderly. *)
LEMMA OrderlyMeans ==
  ASSUME NEW r \in OrderlyRoutes, NEW i \in DOMAIN Hops[r]
  PROVE  /\ AsksOnce(r, i)
         /\ \A k \in DOMAIN Hops[r][i].steps :
              Hops[r][i].steps[k] \in Routes => Hops[r][i].steps[k] \in OrderlyRoutes
<1>1. PICK Q \in SUBSET Routes :
        /\ r \in Q
        /\ \A q \in Q : \A j \in DOMAIN Hops[q] :
             /\ AsksOnce(q, j)
             /\ \A k \in DOMAIN Hops[q][j].steps :
                  Hops[q][j].steps[k] \in Routes => Hops[q][j].steps[k] \in Q
  BY DEF OrderlyRoutes
<1>2. Q \subseteq OrderlyRoutes
  BY <1>1 DEF OrderlyRoutes
<1> QED
  BY <1>1, <1>2

(* Whether a call is calm is settled when it is made. *)
LEMMA CalmKept ==
  ASSUME NEW x \in Calls, NEW y \in Calls, NEW s, NEW j, CallInv(x), CallInv(y), Placed(x),
         Fixed(x, y), Grows(x, y), Alone(x, y, s) \/ Asks(x, y, j)
  PROVE  Calm(y) <=> Calm(x)
<1>1. y.pay.route = x.pay.route /\ y.node = x.node
  BY DEF Grows, Fixed
<1>2. CASE y.at = 0
  <2>1. x.at = 0 /\ y.pay = x.pay
    BY <1>2, NowhereKept
  <2> QED
    BY <1>1, <1>2, <2>1 DEF Calm
<1>3. CASE x.at # 0
  <2>1. y.at = x.at
    BY <1>3, EveryCallAdvances DEF Advances
  <2> QED
    BY <1>1, <1>3, <2>1 DEF Calm
<1>4. CASE x.at = 0 /\ y.at # 0
  <2>1. x.pc \notin Live
    BY <1>4, LiveIsPlaced
  <2>2. Begins(x, y)
    BY <1>4, <2>1 DEF Live, Alone, Rests, InPlace, StepsOn, Passes, Heeds, Sleeps, Asks, Ends
  <2>3. ~Complete(x.pay) /\ Segment(x.pay).id = IdOf[x.node]
    BY <2>2, HopTypes, AdmitsMeans DEF Begins
  <2>4. PICK k \in Nat : Through(x.pay, k)
    BY DEF CallInv
  <2>5. FirstUnvisited(x.pay) = k + 1 /\ x.pay.counter = k
    BY <2>3, <2>4, HopTypes, NextSegment DEF Through
  <2>6. y.at = x.pay.counter + 1
    BY <2>2, <2>5 DEF Begins
  <2> QED
    BY <1>1, <1>4, <2>3, <2>6 DEF Calm
<1> QED
  BY <1>2, <1>3, <1>4

(* What a java worker posts, and what is posted beneath it, is calm again. *)
LEMMA PostedIsCalm ==
  ASSUME IInv, (IInv)', [Next]_vars, PeersAreRight,
         NEW c \in DOMAIN call, call[c].pay.route \in OrderlyRoutes,
         Serial(LangOf[call[c].node]) \/ Calm(call[c]),
         Asks(call[c], call'[c], Len(call) + 1), Len(call') = Len(call) + 1,
         LET z == call'[Len(call')]
         IN  z.from = c /\ New(z) /\ MadeBy(call[c], call'[c], z)
  PROVE  Calm(call'[Len(call')])
<1> DEFINE x == call[c]
           y == call'[c]
           z == call'[Len(call')]
           r == x.pay.route
<1>1. /\ CallsInv(call) /\ CallsInv(call)' /\ Changed(call, call')
      /\ x \in Calls /\ CallInv(x) /\ r \in Routes /\ x.node \in Nodes
      /\ Hops[r] \in Seq(Segments) /\ x.pc \in Live
  BY EveryStepIsChanged, CallParts, HopTypes DEF IInv, Asks, Live
<1>2. y \in Calls /\ CallInv(y) /\ Fixed(x, y) /\ y.pc = "wait" /\ InPlace(x, y) /\ y.pay.route = r
  <2>1. \A cs : CallsInv(cs) => \A d \in DOMAIN cs : cs[d] \in Calls /\ CallInv(cs[d])
    BY CallParts
  <2>2. c \in DOMAIN call' /\ Fixed(x, y)
    BY <1>1, ChangedOne
  <2>3. Marked(x).route = r
    BY <1>1, MarkedFields
  <2> QED
    BY <1>1, <2>1, <2>2, <2>3 DEF Asks
<1>3. /\ x.at \in DOMAIN Hops[r] /\ x.at # 0 /\ x.at \in Nat
      /\ HopOf(x).id = IdOf[x.node] /\ HopOf(x).steps \in Seq(Steps)
  <2>1. AtItsHop(x) /\ x.at # 0 /\ HopOf(x).id = IdOf[x.node]
    BY <1>1, LiveIsPlaced
  <2>2. x.at \in 1 .. Len(Hops[r])
    BY <2>1 DEF AtItsHop
  <2>3. HopOf(x).steps \in Seq(Steps)
    BY <1>1, <2>2, HopTypes DEF HopOf
  <2> QED
    BY <1>1, <2>1, <2>2, <2>3
<1>4. z.at = 0
  BY DEF New
<1>5. AtItsHop(y) /\ HopOf(y) = HopOf(x)
  BY <1>2, LiveIsPlaced DEF Live, HopOf, InPlace
<1>6. Serial(LangOf[x.node]) => AsksOnce(r, x.at) /\ x.node \in SerialNodes
  BY <1>1, <1>3, OrderlyMeans DEF SerialNodes
<1>7. CASE Within(x)
  <2> DEFINE q == StepOf(x)
  <2>1. z.pay = Fresh(q) /\ q \in Routes
    BY <1>7 DEF Asks, MadeBy, StepIsNested
  <2>2. x.step \in DOMAIN HopOf(x).steps
    <3>1. x.step \in 1 .. Len(HopOf(x).steps) + 1
      BY <1>2, <1>5 DEF AtItsHop, HopOf, InPlace
    <3>2. x.step \in 1 .. Len(HopOf(x).steps)
      BY <1>3, <1>7, <3>1 DEF Within
    <3> QED
      BY <1>3, <3>2
  <2>3. PostsNested(LangOf[x.node], IdOf[x.node], q)
    BY <1>2, <1>5, <1>7 DEF AtItsHop, HopOf, StepOf, Within, InPlace, Fixed
  <2>4. Hops[q] # <<>> /\ Hops[q] \in Seq(Segments)
    BY <1>2, <1>5, <2>1, <2>2, <2>3, HopsAssumption
    DEF AtItsHop, NestedNotEmpty, HopOf, StepOf, InPlace, Fixed
  <2>5. q \in FreeRoutes
    <3>1. CASE Calm(x)
      <4>1. FreeFrom(r, x.at)
        BY <1>3, <3>1 DEF Calm
      <4>2. PassesBy(HopOf(x), FreeRoutes)
        BY <1>3, <4>1 DEF FreeFrom, HopOf
      <4> QED
        BY <2>1, <2>2, <4>2 DEF PassesBy, StepOf
    <3>2. CASE Serial(LangOf[x.node])
      BY <1>3, <1>6, <2>2, <2>3, <3>2 DEF AsksOnce, HopOf, StepOf
    <3> QED
      BY <3>1, <3>2
  <2> HIDE DEF q
  <2>6. z.pay \in Payloads /\ Through(z.pay, 0) /\ z.pay.route = q
    BY <2>1, FreshThrough DEF Fresh
  <2>7. ~Complete(z.pay)
    <3>1. Len(Hops[q]) # 0
      BY <2>4
    <3> HIDE DEF z
    <3> QED
      BY <2>6, <3>1, NextSegment
  <2>8. Segment(z.pay).id = IdOf[z.node]
    BY <2>7, PostedRight
  <2>9. FreeFrom(z.pay.route, z.pay.counter + 1)
    BY <2>5, <2>6, FreeMeans
  <2> QED
    BY <1>4, <2>7, <2>8, <2>9 DEF Calm
<1>8. CASE ~Within(x)
  <2>1. z.pay = y.pay /\ ~Complete(z.pay)
    BY <1>8 DEF Asks, MadeBy
  <2>2. y.pay.counter = x.at
    BY <1>2, <1>5, <1>8, ForwardedMessage DEF Within, InPlace
  <2>3. FreeFrom(r, x.at + 1)
    <3>1. CASE Calm(x)
      <4>1. FreeFrom(r, x.at)
        BY <1>3, <3>1 DEF Calm
      <4>2. \A i \in DOMAIN Hops[r] : x.at + 1 <= i => x.at <= i
        BY <1>1, <1>3
      <4> QED
        BY <4>1, <4>2 DEF FreeFrom
    <3>2. CASE Serial(LangOf[x.node])
      BY <1>3, <1>6, <3>2 DEF AsksOnce, HopOf
    <3> QED
      BY <3>1, <3>2
  <2>4. Segment(z.pay).id = IdOf[z.node]
    BY <2>1, PostedRight
  <2> QED
    BY <1>2, <1>4, <2>1, <2>2, <2>3, <2>4 DEF Calm
<1> QED
  BY <1>7, <1>8

(* What a java worker waits for stays calm, and whatever that waits for. *)
LEMMA CalmBelowKept ==
  ASSUME IInv, (IInv)', History(call), [Next]_vars, PeersAreRight,
         InOrder(call), CalmBelow(call)
  PROVE  CalmBelow(call)'
<1> DEFINE cs == call
           ds == call'
<1>1. CallsInv(cs) /\ CallsInv(ds) /\ Changed(cs, ds) /\ Lineage(cs) /\ Awaited(cs)
  BY EveryStepIsChanged DEF IInv, History
<1>2. ASSUME NEW c \in DOMAIN cs
      PROVE  /\ c \in DOMAIN ds /\ Fixed(cs[c], ds[c]) /\ Grows(cs[c], ds[c])
             /\ Alone(cs[c], ds[c], cs[cs[c].sub]) \/ Asks(cs[c], ds[c], Len(cs) + 1)
             /\ cs[c] \in Calls /\ ds[c] \in Calls /\ CallInv(cs[c]) /\ CallInv(ds[c])
             /\ Placed(cs[c])
  BY <1>1, ChangedOne, EveryCallGrows, CallParts DEF History
<1>3. ASSUME NEW c \in DOMAIN cs
      PROVE  Calm(ds[c]) <=> Calm(cs[c])
  BY <1>2, CalmKept
<1>4. ASSUME NEW c \in DOMAIN ds, ds[c].pc = "wait", Serial(LangOf[ds[c].node]) \/ Calm(ds[c])
      PROVE  Calm(ds[ds[c].sub])
  <2>1. c \in DOMAIN cs
    BY <1>1, <1>4, OldOrNew DEF New
  <2>2. Serial(LangOf[cs[c].node]) \/ Calm(cs[c])
    BY <1>2, <1>3, <1>4, <2>1 DEF Fixed
  <2>3. CASE Asks(cs[c], ds[c], Len(cs) + 1)
    <3>1. cs[c].pc # ds[c].pc /\ ds[c].sub = Len(cs) + 1
      BY <1>4, <2>3 DEF Asks
    <3>2. ~Alone(cs[c], ds[c], cs[cs[c].sub])
      BY <1>4, <3>1 DEF Alone, Rests, Begins, StepsOn, Sleeps, Ends
    <3>3. Len(ds) = Len(cs) + 1 /\ ds[Len(ds)].from = c
      BY <1>1, <2>1, <3>2 DEF Changed
    <3>4. c # Client
      BY <1>1, <2>1 DEF CallsInv, Client
    <3>5. New(ds[Len(ds)]) /\ MadeBy(cs[c], ds[c], ds[Len(ds)])
      BY <1>1, <3>3, <3>4 DEF Changed, MadeByClient
    <3>6. cs[c].pay.route \in OrderlyRoutes
      BY <2>1 DEF InOrder
    <3> QED
      BY <2>1, <2>2, <2>3, <3>1, <3>3, <3>5, <3>6, PostedIsCalm
  <2>4. CASE Alone(cs[c], ds[c], cs[cs[c].sub])
    <3>1. cs[c].pc = "wait" /\ ds[c].sub = cs[c].sub
      BY <1>4, <2>4 DEF Alone, Rests, Begins, StepsOn, Sleeps, Ends
    <3>2. Calm(cs[cs[c].sub]) /\ cs[c].sub \in DOMAIN cs
      BY <1>1, <2>1, <2>2, <3>1, CallParts DEF CalmBelow
    <3> QED
      BY <1>3, <3>1, <3>2
  <2> QED
    BY <1>2, <2>1, <2>3, <2>4
<1>5. CalmBelow(ds)
  BY <1>4 DEF CalmBelow
<1> QED
  BY <1>5 DEF CalmBelow

(* The message of a new call without a caller is one that clients post. *)
LEMMA PostedByClient ==
  ASSUME IInv, (IInv)', [Next]_vars, Len(call') # Len(call), call'[Len(call')].from = Client
  PROVE  \E q \in Posts : call'[Len(call')].pay.route = q.route
<1>1. call \in Seq(Calls) /\ Client \notin DOMAIN call
  BY DEF IInv, CallsInv, Client
<1>2. ASSUME NEW c \in DOMAIN call PROVE ~(Handler(c) \/ Abandon(c) \/ HangUp(c))
  BY <1>1, <1>2, HandlersMoveOne DEF ByOne
<1>3. ASSUME NEW n \in Nodes PROVE ~Crash(n)
  BY CrashMoves
<1>4. ClientPosts
  BY <1>2, <1>3 DEF Next, Restart, AllOver, vars
<1>5. PICK q \in Posts : call' = Append(call, Arrival(q.to, Client, 0, Fresh(q.route)))
  BY <1>4 DEF ClientPosts
<1>6. call'[Len(call')] = Arrival(q.to, Client, 0, Fresh(q.route))
  BY <1>1, <1>5
<1> QED
  BY <1>6 DEF Arrival, Fresh

(* The calls stay in order. *)
LEMMA InOrderKept ==
  ASSUME IInv, (IInv)', History(call), [Next]_vars, JavaIsAskedOnce, InOrder(call)
  PROVE  InOrder(call)'
<1> DEFINE cs == call
           ds == call'
<1>1. /\ CallsInv(cs) /\ CallsInv(ds) /\ Changed(cs, ds) /\ Lineage(cs) /\ Awaited(cs)
      /\ DOMAIN cs = 1 .. Len(cs) /\ Len(cs) \in Nat
  BY EveryStepIsChanged DEF IInv, History, CallsInv
<1>2. ASSUME NEW c \in DOMAIN cs
      PROVE  Fixed(cs[c], ds[c]) /\ Grows(cs[c], ds[c]) /\ cs[c] \in Calls /\ CallInv(cs[c])
  BY <1>1, ChangedOne, EveryCallGrows, CallParts
<1>3. ASSUME NEW d \in DOMAIN ds
      PROVE  ds[d].from < d /\ ds[d].pay.route \in OrderlyRoutes
  <2>1. CASE d \in DOMAIN cs
    BY <1>2, <2>1 DEF InOrder, Fixed, Grows
  <2>2. CASE d \notin DOMAIN cs
    <3> DEFINE z == ds[d]
    <3>1. /\ d = Len(cs) + 1 /\ Len(ds) = Len(cs) + 1
          /\ \/ MadeByClient(z)
             \/ /\ z.from \in DOMAIN cs
                /\ Asks(cs[z.from], ds[z.from], d)
                /\ MadeBy(cs[z.from], ds[z.from], z)
      BY <1>1, <2>2, OldOrNew
    <3>2. CASE MadeByClient(z)
      <4>1. z.from = Client
        BY <3>2 DEF MadeByClient
      <4>2. Client < d
        BY <1>1, <3>1 DEF Client
      <4>3. Len(ds) # Len(cs)
        <5>1. \A n \in Nat : n + 1 # n
          OBVIOUS
        <5> QED
          BY <1>1, <3>1, <5>1
      <4>4. \E q \in Posts : z.pay.route = q.route
        <5>1. call'[Len(call')].from = Client /\ Len(call') # Len(call) /\ call'[Len(call')] = z
          BY <3>1, <4>1, <4>3
        <5> QED
          BY <5>1, PostedByClient
      <4> QED
        BY <4>1, <4>2, <4>4 DEF JavaIsAskedOnce
    <3>3. CASE /\ z.from \in DOMAIN cs
               /\ Asks(cs[z.from], ds[z.from], d)
               /\ MadeBy(cs[z.from], ds[z.from], z)
      <4> DEFINE x == cs[z.from]
                 y == ds[z.from]
      <4>1. z.from < d
        BY <1>1, <3>1, <3>3
      <4>2. x \in Calls /\ CallInv(x) /\ x.pay.route \in OrderlyRoutes /\ y.pay.route = x.pay.route
        BY <1>2, <3>3 DEF InOrder, Grows
      <4>3. CASE ~Within(x)
        BY <3>3, <4>1, <4>2, <4>3 DEF MadeBy
      <4>4. CASE Within(x)
        <5>1. z.pay.route = StepOf(x) /\ StepOf(x) \in Routes
          BY <3>3, <4>4 DEF MadeBy, Asks, StepIsNested, Fresh
        <5>2. AtItsHop(x)
          BY <3>3, <4>2, LiveIsPlaced DEF Asks, Live
        <5>3. /\ x.at \in 1 .. Len(Hops[x.pay.route])
              /\ x.step \in 1 .. Len(HopOf(x).steps) + 1
          BY <5>2 DEF AtItsHop, HopOf
        <5>4. HopOf(x).steps \in Seq(Steps) /\ Hops[x.pay.route] \in Seq(Segments)
          BY <4>2, <5>3, HopTypes DEF HopOf
        <5>5. x.step \in DOMAIN HopOf(x).steps /\ x.at \in DOMAIN Hops[x.pay.route]
          BY <4>4, <5>3, <5>4 DEF Within
        <5>6. StepOf(x) \in OrderlyRoutes
          BY <4>2, <5>1, <5>5, OrderlyMeans DEF StepOf, HopOf
        <5> QED
          BY <4>1, <5>1, <5>6
      <4> QED
        BY <4>3, <4>4
    <3> QED
      BY <3>1, <3>2, <3>3
  <2> QED
    BY <2>1, <2>2
<1>4. InOrder(ds)
  BY <1>3 DEF InOrder
<1> QED
  BY <1>4 DEF InOrder

(* A bounded set of numbers has a greatest one. *)
LEMMA GreatestExists ==
  ASSUME NEW n \in Nat, NEW S \in SUBSET (1 .. n), S # {}
  PROVE  \E m \in S : \A i \in S : i <= m
<1> DEFINE T == {n - i : i \in S}
<1>1. T \subseteq Nat /\ T # {}
  <2>1. \A i \in S : n - i \in Nat
    OBVIOUS
  <2> QED
    BY <2>1
<1> HIDE DEF T
<1>2. PICK t \in T : \A u \in T : <<u, t>> \notin OpToRel(<, Nat)
  BY <1>1, NatLessThanWellFounded, WFMin
<1>3. \A i, j \in Nat : <<j, i>> \notin OpToRel(<, Nat) => i <= j
  BY DEF OpToRel
<1>4. PICK m \in S : t = n - m
  BY DEF T
<1>5. \A i \in S : n - m <= n - i
  <2>1. \A u \in T : t <= u
    BY <1>1, <1>2, <1>3
  <2> QED
    BY <1>4, <2>1 DEF T
<1>6. \A i \in S : i \in Int /\ (n - m <= n - i => i <= m)
  OBVIOUS
<1> QED
  BY <1>5, <1>6

(* Some call can always go on: the youngest of those that are left, or, when a java
   worker is busy, of those beneath what it waits for. *)
LEMMA SomebodyCanMove ==
  ASSUME IInv, History(call), CalmBelow(call), InOrder(call),
         NEW c \in DOMAIN call, call[c].pc # "done"
  PROVE  \E d \in DOMAIN call : CanMove(d)
<1> SUFFICES ASSUME \A d \in DOMAIN call : ~CanMove(d) PROVE FALSE
  OBVIOUS
<1> DEFINE Left == {d \in DOMAIN call : call[d].pc # "done"}
<1>1. CallsInv(call) /\ DOMAIN call = 1 .. Len(call) /\ Len(call) \in Nat
  BY DEF IInv, CallsInv
<1>2. ASSUME NEW d \in Left
      PROVE  /\ call[d].pc = "wait" \/ (call[d].pc = "sent" /\ Busy(call[d].node))
             /\ call[d].pc = "wait" => call[d].sub \in Left /\ d < call[d].sub
  <2>1. call[d].pc \in {"sent", "work", "wait", "retry"}
    BY <1>1, CallParts
  <2>2. call[d].pc = "wait" \/ (call[d].pc = "sent" /\ Busy(call[d].node))
    BY <2>1 DEF CanMove
  <2>3. ASSUME call[d].pc = "wait"
        PROVE  call[d].sub \in Left /\ d < call[d].sub
    <3>1. call[d].sub \in DOMAIN call
      BY <1>1, <2>3, CallParts
    <3>2. call[call[d].sub].result = "none"
      BY <2>3 DEF CanMove, Answered
    <3>3. call[call[d].sub].pc # "done"
      BY <1>1, <3>1, <3>2, CallParts
    <3>4. call[call[d].sub].from = d
      BY <2>3 DEF History, Awaited
    <3> QED
      BY <3>1, <3>3, <3>4 DEF InOrder
  <2> QED
    BY <2>2, <2>3
<1>3. ASSUME NEW S \in SUBSET Left, S # {},
             \A d \in S : call[d].pc = "wait" => call[d].sub \in S
      PROVE  \E m \in S : call[m].pc = "sent" /\ Busy(call[m].node)
  <2>1. PICK m \in S : \A i \in S : i <= m
    BY <1>1, <1>3, GreatestExists
  <2>2. m \in Nat /\ (call[m].pc = "wait" => call[m].sub \in Nat)
    BY <1>1, <1>2
  <2>3. call[m].pc # "wait"
    BY <1>2, <1>3, <2>1, <2>2
  <2> QED
    BY <1>2, <2>3
<1>4. PICK e \in DOMAIN call : Serial(LangOf[call[e].node]) /\ Running(e)
  <2>1. \E m \in Left : Busy(call[m].node)
    <3>1. Left # {}
      OBVIOUS
    <3> HIDE DEF Left
    <3> QED
      BY <1>2, <1>3, <3>1
  <2> QED
    BY <2>1 DEF Busy
<1>5. e \in Left /\ call[e].pc = "wait"
  BY <1>2, <1>4 DEF Running
<1> DEFINE S == {d \in Left : d = e \/ Calm(call[d])}
<1>6. ASSUME NEW d \in S, call[d].pc = "wait" PROVE call[d].sub \in S
  <2>1. Serial(LangOf[call[d].node]) \/ Calm(call[d])
    BY <1>4, <1>6
  <2>2. Calm(call[call[d].sub])
    BY <1>6, <2>1 DEF CalmBelow
  <2> QED
    BY <1>2, <1>6, <2>2
<1>7. S \in SUBSET Left /\ S # {}
  BY <1>5
<1>8. PICK m \in S : call[m].pc = "sent" /\ Busy(call[m].node)
  <2> HIDE DEF S, Left
  <2> QED
    BY <1>3, <1>6, <1>7
<1> DEFINE x == call[m]
<1>9. Calm(x) /\ x.at = 0 /\ x \in Calls /\ CallInv(x)
  BY <1>1, <1>5, <1>8, CallParts DEF History, Placed
<1>10. x.node \in SerialNodes
  BY <1>8, <1>9, HopTypes DEF Busy, SerialNodes
<1>11. PICK k \in Nat : Through(x.pay, k)
  BY <1>9 DEF CallInv
<1> HIDE DEF x
<1>12. /\ ~Complete(x.pay) /\ Segment(x.pay).id = IdOf[x.node]
       /\ FreeFrom(x.pay.route, x.pay.counter + 1)
  BY <1>9 DEF Calm
<1>13. /\ FirstUnvisited(x.pay) = k + 1 /\ x.pay.counter = k
       /\ k + 1 \in DOMAIN Hops[x.pay.route]
  <2>1. x.pay \in Payloads /\ Hops[x.pay.route] \in Seq(Segments)
    BY <1>9, HopTypes
  <2>2. FirstUnvisited(x.pay) = k + 1 /\ k + 1 \in 1 .. Len(Hops[x.pay.route])
    BY <1>11, <1>12, <2>1, NextSegment
  <2>3. x.pay.counter = k
    BY <1>11 DEF Through
  <2>4. DOMAIN Hops[x.pay.route] = 1 .. Len(Hops[x.pay.route])
    BY <2>1
  <2> QED
    BY <2>2, <2>3, <2>4
<1>14. PassesBy(Segment(x.pay), FreeRoutes)
  BY <1>12, <1>13 DEF FreeFrom, Segment
<1> QED
  BY <1>10, <1>12, <1>14 DEF PassesBy, SerialIds

(* A call that is replaced by one whose connection is held and that meets no fault. *)
LEMMA ReplacedUndisturbed ==
  ASSUME NEW cs \in Seq(Calls), Undisturbed(cs), NEW c \in DOMAIN cs,
         NEW y \in Calls, y.open, y.result \notin Faults
  PROVE  Undisturbed([cs EXCEPT ![c] = y])
<1> DEFINE ds == [cs EXCEPT ![c] = y]
<1>1. DOMAIN ds = DOMAIN cs /\ \A d \in DOMAIN cs : ds[d] = IF d = c THEN y ELSE cs[d]
  BY ExceptSeq
<1> HIDE DEF ds
<1>2. Undisturbed(ds)
  BY <1>1 DEF Undisturbed
<1> QED
  BY <1>2 DEF ds

(* A call that arrives where a container runs. *)
LEMMA ArrivedUndisturbed ==
  ASSUME NEW cs \in Seq(Calls), Undisturbed(cs), NEW n \in up, NEW from, NEW slot, NEW p
  PROVE  Undisturbed(Append(cs, Arrival(n, from, slot, p)))
<1> DEFINE z == Arrival(n, from, slot, p)
           ds == Append(cs, z)
<1>1. z.open /\ z.result = "none"
  BY DEF Arrival
<1> HIDE DEF z
<1>2. Len(cs) \in Nat /\ DOMAIN cs = 1 .. Len(cs) /\ DOMAIN ds = 1 .. Len(cs) + 1
  OBVIOUS
<1>3. /\ \A d \in DOMAIN cs : ds[d] = cs[d]
      /\ ds[Len(cs) + 1] = z
  OBVIOUS
<1> HIDE DEF ds
<1>4. \A d \in DOMAIN ds : d \in DOMAIN cs \/ d = Len(cs) + 1
  BY <1>2
<1>5. Undisturbed(ds)
  BY <1>1, <1>3, <1>4 DEF Undisturbed, Faults
<1> QED
  BY <1>5 DEF ds, z

(* A POST. *)
LEMMA SendToUndisturbed ==
  ASSUME call \in Seq(Calls), Undisturbed(call), up = Nodes, NEW c \in DOMAIN call,
         NEW me \in Calls, me.open, me.result = "none",
         NEW p, Segment(p).id \in Ids, SendTo(c, me, p)
  PROVE  Undisturbed(call')
<1>1. CASE call' = [call EXCEPT ![c] = Ended(me, "502")]
  <2>1. Ended(me, "502") \in Calls /\ Ended(me, "502").open /\ Ended(me, "502").result = "502"
    BY DEF Ended, Calls, Outcomes, Statuses
  <2> QED
    BY <1>1, <2>1, ReplacedUndisturbed DEF Faults
<1>2. ASSUME NEW n \in Peers[me.node][Segment(p).id], Len(call) < MaxCalls,
             call' = Append([call EXCEPT ![c] = Waiting(me, Len(call) + 1)],
                            Arrival(n, c, me.step, p))
      PROVE  Undisturbed(call')
  <2> DEFINE y == Waiting(me, Len(call) + 1)
             bs == [call EXCEPT ![c] = y]
  <2>1. n \in up
    <3>1. me.node \in Nodes
      BY DEF Calls
    <3>2. Peers[me.node] \in [Ids -> SUBSET Nodes]
      BY <3>1, NodesAssumption
    <3>3. Peers[me.node][Segment(p).id] \in SUBSET Nodes
      BY <3>2
    <3> QED
      BY <3>3
  <2>2. Len(call) + 1 \in CallIds
    BY <1>2, BoundsAssumption DEF CallIds
  <2>3. y \in Calls /\ y.open /\ y.result = "none"
    BY <2>2, WaitingType DEF Waiting, Calls
  <2> HIDE DEF y
  <2>4. bs \in Seq(Calls) /\ Undisturbed(bs)
    BY <2>3, ExceptSeq, ReplacedUndisturbed DEF Faults
  <2>5. call' = Append(bs, Arrival(n, c, me.step, p))
    BY <1>2 DEF y
  <2> HIDE DEF bs
  <2> QED
    BY <2>1, <2>4, <2>5, ArrivedUndisturbed
<1> QED
  BY <1>1, <1>2 DEF SendTo, Waiting

(* The segment that a POST is for names an id. *)
LEMMA SegmentNamed ==
  ASSUME NEW p \in Payloads, NEW k \in Nat, Through(p, k), ~Complete(p)
  PROVE  Segment(p).id \in Ids
BY NextSegment DEF Segments

(* While every container runs and nothing has been disturbed, no handler meets a fault. *)
LEMMA HandlersMeetNoFault ==
  ASSUME IInv, History(call), up = Nodes, Undisturbed(call), NEW c \in DOMAIN call, Handler(c)
  PROVE  Undisturbed(call')
<1> DEFINE x == call[c]
           s == call[x.sub]
<1>1. /\ CallsInv(call) /\ call \in Seq(Calls) /\ x \in Calls /\ CallInv(x)
      /\ x.pc \in {"wait", "retry"} => x.sub \in DOMAIN call
      /\ x.pc = "done" <=> x.result # "none"
      /\ x.pay \in Payloads /\ LangOf[x.node] \in Langs
  BY CallParts, HopTypes DEF IInv, CallsInv
<1>2. x.open /\ x.result \notin Faults
  BY DEF Undisturbed
<1>3. ASSUME NEW me \in Calls, me.open, NEW o \in {"200", "400", "500", "502"}
      PROVE  Ended(me, o) \in Calls /\ Ended(me, o).open /\ Ended(me, o).result \notin Faults
  BY <1>3 DEF Ended, Calls, Outcomes, Statuses, Faults
<1>4. ASSUME x.pc = "work", ~InSteps(c)
      PROVE  LET me == [x EXCEPT !.pay = Visited(c)]
             IN  /\ me \in Calls /\ me.open /\ me.result = "none"
                 /\ ~Complete(Visited(c)) => Segment(Visited(c)).id \in Ids
  <2>1. Visited(c) \in Payloads /\ Through(Visited(c), x.at) /\ x.at \in Nat
    BY <1>1, <1>4, MarkedInv DEF InSteps, Hop, Visited, Id
  <2>2. ~Complete(Visited(c)) => Segment(Visited(c)).id \in Ids
    BY <2>1, SegmentNamed
  <2>3. LET me == [x EXCEPT !.pay = Visited(c)] IN me \in Calls /\ me.open /\ me.result = x.result
    BY <1>1, <1>2, <2>1 DEF Calls
  <2> QED
    BY <1>1, <1>4, <2>2, <2>3
<1>5. CASE Read(c)
  <2>1. CASE Admits(Lang(c), Id(c), x.pay)
    <3>1. call' = [call EXCEPT ![c] = Begun(x)] /\ x.pc = "sent"
      BY <1>5, <2>1 DEF Read
    <3>2. Begun(x) \in Calls
      BY <1>1, <2>1, <3>1, BegunInv DEF Lang, Id
    <3>3. Begun(x).open = x.open /\ Begun(x).result = x.result
      BY <1>1 DEF Begun, Calls
    <3> QED
      BY <1>1, <1>2, <3>1, <3>2, <3>3, ReplacedUndisturbed
  <2>2. CASE ~Admits(Lang(c), Id(c), x.pay)
    <3>1. call' = [call EXCEPT ![c] = Ended(x, "400")]
      BY <1>5, <2>2 DEF Read
    <3> QED
      BY <1>1, <1>2, <1>3, <3>1, ReplacedUndisturbed
  <2> QED
    BY <2>1, <2>2
<1>6. CASE Spin(c)
  <2> DEFINE y == [x EXCEPT !.step = @ + 1]
  <2>1. call' = [call EXCEPT ![c] = y]
    BY <1>6 DEF Spin
  <2>2. x.step + 1 \in Nat
    BY <1>1 DEF Calls
  <2>3. y \in Calls /\ y.open = x.open /\ y.result = x.result
    BY <1>1, <2>2 DEF Calls
  <2> HIDE DEF y
  <2> QED
    BY <1>1, <1>2, <2>1, <2>3, ReplacedUndisturbed
<1>7. CASE RaiseInStep(c)
  BY <1>1, <1>2, <1>3, <1>7, ReplacedUndisturbed DEF RaiseInStep
<1>8. CASE PostNested(c)
  <2>1. PostsNested(Lang(c), Id(c), Step(c)) /\ InSteps(c) /\ x.pc = "work"
    BY <1>8 DEF PostNested, PostsNested
  <2>2. Fresh(Step(c)) \in Payloads /\ Through(Fresh(Step(c)), 0) /\ ~Complete(Fresh(Step(c)))
    BY <1>1, <2>1, NestedMessage DEF Live
  <2>3. Segment(Fresh(Step(c))).id \in Ids
    BY <2>2, SegmentNamed
  <2>4. SendTo(c, x, Fresh(Step(c)))
    BY <1>8 DEF PostNested
  <2> QED
    BY <1>1, <1>2, <2>1, <2>3, <2>4, SendToUndisturbed
<1>9. CASE AnswerTerminal(c)
  <2> DEFINE me == [x EXCEPT !.pay = Visited(c)]
  <2>1. me \in Calls /\ me.open
    BY <1>4, <1>9 DEF AnswerTerminal
  <2>2. call' = [call EXCEPT ![c] = Ended(me, "200")]
    BY <1>9 DEF AnswerTerminal
  <2> HIDE DEF me
  <2> QED
    BY <1>1, <1>3, <2>1, <2>2, ReplacedUndisturbed
<1>10. CASE Forward(c)
  <2> DEFINE me == [x EXCEPT !.pay = Visited(c)]
  <2>1. x.pc = "work" /\ ~InSteps(c) /\ ~Complete(Visited(c)) /\ SendTo(c, me, Visited(c))
    BY <1>10 DEF Forward
  <2>2. me \in Calls /\ me.open /\ me.result = "none" /\ Segment(Visited(c)).id \in Ids
    BY <1>4, <2>1
  <2> HIDE DEF me
  <2> QED
    BY <1>1, <2>1, <2>2, SendToUndisturbed
<1>11. CASE PostAgain(c)
  <2>1. GoTransient(s.result) /\ x.sub \in DOMAIN call
    BY <1>1, <1>11 DEF PostAgain, History, Awaited
  <2> QED
    BY <2>1 DEF GoTransient, Undisturbed, Faults
<1>12. CASE Receive(c)
  <2> DEFINE o == s.result
             y == Resumed(c, o)
             nested == AfterNested(Lang(c), o)
             answer == AfterForward(Lang(c), o)
  <2>1. x.pc = "wait" /\ o # "none" /\ call' = [call EXCEPT ![c] = y]
    BY <1>12 DEF Receive, Answered
  <2>2. s \in Calls
    BY <1>1, <2>1, CallTypes
  <2>3. o \in Outcomes
    BY <2>1, <2>2 DEF Calls
  <2>4. y \in Calls /\ y.open
    BY <1>1, <1>2, <2>1, <2>3, ResumedInv, ResumedOpen
  <2>5. nested \in {"next", "500", "502"} /\ answer \in {"200", "400", "500", "502"}
    BY <1>1, <2>3, AfterMeans DEF Lang
  <2>6. y.result \in {x.result, nested, answer} /\ y.result # "next"
    <3> DEFINE you == IF answer = "200" THEN Relayed(x) ELSE x
    <3>1. y = IF PostsAgain(Lang(c), o, x.tries) THEN [x EXCEPT !.pc = "retry"]
              ELSE IF InSteps(c)
              THEN IF nested = "next" THEN [x EXCEPT !.pc = "work", !.step = @ + 1, !.tries = 0]
                   ELSE Ended(x, nested)
              ELSE Ended(you, answer)
      BY DEF Resumed
    <3>2. [x EXCEPT !.pc = "retry"].result = x.result
      BY <1>1 DEF Calls
    <3>3. [x EXCEPT !.pc = "work", !.step = @ + 1, !.tries = 0].result = x.result
      BY <1>1 DEF Calls
    <3>4. Ended(x, nested).result = nested
      BY <1>1, EndedFields
    <3>5. Ended(you, answer).result = answer
      BY <1>1 DEF Ended, Relayed, Calls
    <3>6. x.result = "none"
      BY <1>1, <2>1
    <3> HIDE DEF nested, answer, y, x, you
    <3> QED
      BY <2>5, <3>1, <3>2, <3>3, <3>4, <3>5, <3>6
  <2>7. y.result \notin Faults
    <3> HIDE DEF nested, answer, y
    <3> QED
      BY <1>2, <2>5, <2>6 DEF Faults
  <2> HIDE DEF y
  <2> QED
    BY <1>1, <2>1, <2>4, <2>7, ReplacedUndisturbed
<1> QED
  BY <1>5, <1>6, <1>7, <1>8, <1>9, <1>10, <1>11, <1>12 DEF Handler

(* While timers are patient and nobody crashes, nothing is disturbed. *)
LEMMA SereneKept ==
  ASSUME IInv, History(call), CalmBelow(call), InOrder(call), Patient,
         Serene, [Next]_vars
  PROVE  Serene'
<1> SUFFICES ASSUME crashes' = 0 PROVE up' = Nodes /\ Undisturbed(call')
  BY DEF Serene, Undisturbed
<1>1. CallsInv(call) /\ call \in Seq(Calls) /\ crashes \in Nat
  BY BoundsAssumption DEF IInv, CallsInv
<1>2. ASSUME NEW n \in Nodes PROVE ~Crash(n)
  BY <1>1 DEF Crash
<1>3. crashes = 0
  BY <1>2 DEF Next, ClientPosts, Handler, Read, Spin, RaiseInStep, PostNested, AnswerTerminal,
     Forward, PostAgain, Receive, Abandon, TimeOut, Cancel, Unsent, Drop, HangUp, Restart,
     AllOver, vars
<1>4. up = Nodes /\ Undisturbed(call)
  BY <1>3 DEF Serene
<1>5. ASSUME NEW c \in DOMAIN call, TimersMayFire PROVE call[c].pc = "done"
  BY <1>5, SomebodyCanMove DEF TimersMayFire
<1>6. CASE ClientPosts
  <2>1. PICK q \in Posts : call' = Append(call, Arrival(q.to, Client, 0, Fresh(q.route)))
    BY <1>6 DEF ClientPosts
  <2>2. q.to \in up /\ up' = up
    BY <1>4, <1>6, NodesAssumption DEF ClientPosts
  <2> QED
    BY <1>1, <1>4, <2>1, <2>2, ArrivedUndisturbed
<1>7. ASSUME NEW c \in DOMAIN call, Handler(c) PROVE up' = Nodes /\ Undisturbed(call')
  <2>1. up' = up
    BY <1>7 DEF Handler, Read, Spin, RaiseInStep, PostNested, AnswerTerminal, Forward,
       PostAgain, Receive
  <2> QED
    BY <1>4, <1>7, <2>1, HandlersMeetNoFault
<1>8. ASSUME NEW c \in DOMAIN call, Abandon(c) PROVE FALSE
  <2>1. call[c].open
    BY <1>4 DEF Undisturbed
  <2>2. TimeOut(c)
    BY <1>8, <2>1 DEF Abandon, Cancel, Unsent, Drop
  <2> QED
    BY <1>5, <2>2 DEF TimeOut
<1>9. ASSUME NEW c \in DOMAIN call, HangUp(c) PROVE FALSE
  <2>1. call[c].pc = "done"
    BY <1>5, <1>9 DEF HangUp
  <2>2. call[c].result # "none"
    BY <1>1, <2>1, CallParts
  <2> QED
    BY <1>9, <2>2 DEF HangUp, Answered
<1>10. ASSUME NEW n \in Nodes, Restart(n) PROVE up' = Nodes /\ Undisturbed(call')
  BY <1>4, <1>10 DEF Restart
<1>11. CASE UNCHANGED vars
  BY <1>4, <1>11 DEF vars
<1> QED
  BY <1>2, <1>6, <1>7, <1>8, <1>9, <1>10, <1>11 DEF Next, AllOver

(* While no worker crashes, every valid request that has been answered has been
   answered with 200 - for every set of containers and routes, whatever is served at
   the same time: where timers outlast the work, no peer address is stale and no
   posted route asks java for what a java worker waits for, nobody meets a fault.
   None of the three can be spared (README.md, section 4). *)
THEOREM PatientServesValid ==
  ASSUME Patient, PeersAreRight, JavaIsAskedOnce
  PROVE  Spec => []ValidIsAnsweredOk
<1> DEFINE K == CalmBelow(call) /\ InOrder(call) /\ Serene
           Ok == PeersAreRight /\ Undisturbed(call) =>
                   \A c \in DOMAIN call :
                     call[c].from = Client /\ Answered(c)
                       /\ Valid(call[c].node, call[c].pay.route) =>
                     call[c].result = "200"
<1>1. Init => K
  BY DEF Init, CalmBelow, InOrder, Serene, Undisturbed
<1>2. IInv /\ IInv' /\ History(call) /\ K /\ [Next]_vars => K'
  <2> SUFFICES ASSUME IInv, IInv', History(call), K, [Next]_vars PROVE K'
    OBVIOUS
  <2>1. CalmBelow(call)'
    BY CalmBelowKept
  <2>2. InOrder(call)'
    BY InOrderKept
  <2>3. Serene'
    BY SereneKept
  <2> QED
    BY <2>1, <2>2, <2>3
<1>3. K /\ Ok => ValidIsAnsweredOk
  BY DEF Serene, ValidIsAnsweredOk
<1>4. Spec => []Ok
  BY ValidFailsByFaultOnly
<1> QED
  BY <1>1, <1>2, <1>3, <1>4, HistoryHolds, PTL DEF Spec
=============================================================================
