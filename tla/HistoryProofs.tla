----------------------------- MODULE HistoryProofs -----------------------------
(***************************************************************************)
(* What the calls of Pipeline keep of their past, for every set of         *)
(* containers, routes and bounds: NothingIsRewritten, OkIsEarned,          *)
(* NestedFirst, VisitsHappened, RepeatsOnlyByGo, BadRequestMeansUntouched, *)
(* and that every call keeps the contract of a worker.                     *)
(*                                                                         *)
(* All of them are proved from one summary of Next: Changed says what a    *)
(* step may do to each call, whichever action it is.  History is the       *)
(* inductive invariant: it ties a call to the call whose handler made it.  *)
(***************************************************************************)
EXTENDS PipelineProofs, PipelineContract, FiniteSetTheorems

(* The segment the handler of x works on, its current step, and its message *)
(* once that segment is marked.                                            *)
HopOf(x) == Hops[x.pay.route][x.at]
Within(x) == x.step <= Len(HopOf(x).steps)
StepOf(x) == HopOf(x).steps[x.step]
Marked(x) == MarkVisited(x.pay, x.at, IdOf[x.node])

-----------------------------------------------------------------------------
(* What a step may do to a call, x before and y after it; s is the call x  *)
(* waits for.                                                              *)

Fixed(x, y) == y.node = x.node /\ y.from = x.from /\ y.slot = x.slot

InPlace(x, y) == y.at = x.at /\ y.step = x.step

Rests(x, y) ==
  /\ InPlace(x, y) /\ y.pay = x.pay /\ y.pc = x.pc /\ y.sub = x.sub
  /\ y.tries = x.tries /\ y.result = x.result

Begins(x, y) ==
  /\ x.pc = "sent" /\ Admits(LangOf[x.node], IdOf[x.node], x.pay)
  /\ y.pc = "work" /\ y.at = FirstUnvisited(x.pay) /\ y.step = 1
  /\ y.pay = x.pay /\ y.tries = x.tries /\ y.result = x.result

(* The handler leaves its step behind. *)
Passes(x, y) ==
  /\ x.pc = "work" /\ Within(x) /\ ~StepIsNested(LangOf[x.node], StepOf(x))
  /\ y.tries = x.tries

Heeds(x, y, s) == x.pc = "wait" /\ Within(x) /\ s.result = "200" /\ y.tries = 0

StepsOn(x, y, s) ==
  /\ Passes(x, y) \/ Heeds(x, y, s)
  /\ y.pc = "work" /\ y.at = x.at /\ y.step = x.step + 1
  /\ y.pay = x.pay /\ y.result = x.result

(* It makes call j, for a nested_route or for the rest of the route. *)
Asks(x, y, j) ==
  /\ x.pc \in {"work", "retry"}
  /\ IF Within(x) THEN StepIsNested(LangOf[x.node], StepOf(x)) /\ y.pay = x.pay
     ELSE ~Complete(y.pay) /\ y.pay = IF x.pc = "work" THEN Marked(x) ELSE x.pay
  /\ y.pc = "wait" /\ y.sub = j /\ y.tries = x.tries + 1
  /\ InPlace(x, y) /\ y.result = x.result

Sleeps(x, y, s) ==
  /\ x.pc = "wait" /\ LangOf[x.node] = "go" /\ GoTransient(s.result)
  /\ x.tries < GoMaxAttempts
  /\ y.pc = "retry" /\ InPlace(x, y) /\ y.pay = x.pay /\ y.sub = x.sub
  /\ y.tries = x.tries /\ y.result = x.result

(* How it ends. *)
Refuses(x, y) == x.pc = "sent" /\ y.result = "400" /\ y.pay = x.pay

Loses(x, y) == x.pc # "done" /\ y.result \in Faults /\ y.pay = x.pay

Fails(x, y) ==
  /\ x.pc \in Live /\ y.result \in {"500", "502"}
  /\ \/ y.pay = x.pay
     \/ x.pc = "work" /\ ~Within(x) /\ ~Complete(Marked(x)) /\ y.pay = Marked(x)

Refers(x, y) ==
  /\ x.pc = "wait" /\ ~Within(x) /\ LangOf[x.node] # "py"
  /\ y.result = "400" /\ y.pay = x.pay

Earns(x, y) ==
  /\ x.pc = "work" /\ ~Within(x) /\ Complete(Marked(x))
  /\ y.result = "200" /\ y.pay = Marked(x)

Relays(x, y, s) ==
  /\ x.pc = "wait" /\ ~Within(x) /\ s.result = "200"
  /\ y.result = "200" /\ y.pay = s.pay

Ends(x, y, s) ==
  /\ \/ Refuses(x, y) \/ Loses(x, y) \/ Fails(x, y) \/ Refers(x, y)
     \/ Earns(x, y) \/ Relays(x, y, s)
  /\ y.pc = "done" /\ InPlace(x, y) /\ y.sub = x.sub

Alone(x, y, s) ==
  \/ Rests(x, y) \/ Begins(x, y) \/ StepsOn(x, y, s) \/ Sleeps(x, y, s) \/ Ends(x, y, s)

(* A call that has just been made, z. *)
New(z) ==
  /\ z.at = 0 /\ z.step = 0 /\ z.sub = Client /\ z.tries = 0
  /\ \/ z.pc = "sent" /\ z.result = "none"
     \/ z.pc = "done" /\ z.result = "refused"

(* By a client, or by the handler of x, which is y when it has made it. *)
MadeByClient(z) == z.from = Client /\ \E r \in Routes : z.pay = Fresh(r)

MadeBy(x, y, z) == z.slot = x.step /\ z.pay = IF Within(x) THEN Fresh(StepOf(x)) ELSE y.pay

(* One step of the system: the calls cs become ds. *)
Changed(cs, ds) ==
  /\ Len(ds) \in {Len(cs), Len(cs) + 1}
  /\ \A c \in DOMAIN cs :
       /\ Fixed(cs[c], ds[c])
       /\ \/ Alone(cs[c], ds[c], cs[cs[c].sub])
          \/ Asks(cs[c], ds[c], Len(cs) + 1) /\ Len(ds) = Len(cs) + 1 /\ ds[Len(ds)].from = c
  /\ Len(ds) = Len(cs) + 1 =>
       LET z == ds[Len(ds)]
       IN  /\ New(z)
           /\ \/ MadeByClient(z)
              \/ /\ z.from \in DOMAIN cs
                 /\ Asks(cs[z.from], ds[z.from], Len(ds))
                 /\ MadeBy(cs[z.from], ds[z.from], z)

-----------------------------------------------------------------------------
(* The inductive invariant.                                                *)

(* What is left of its place when a call is over. *)
Placed(x) ==
  /\ x.pc = "sent" => x.at = 0
  /\ IF x.at = 0 THEN x.step = 0
     ELSE /\ x.at \in 1 .. Len(Hops[x.pay.route])
          /\ HopOf(x).id = IdOf[x.node]
          /\ x.step \in 1 .. Len(HopOf(x).steps) + 1
  /\ x.pc \in {"sent", "work"} => x.tries = 0
  /\ x.pc = "retry" => LangOf[x.node] = "go" /\ x.tries < GoMaxAttempts
  /\ x.pc \in Live => x.tries <= GoMaxAttempts
  /\ x.result = "400" /\ LangOf[x.node] = "py" => x.at = 0

(* Call number d was made for the step `slot' of its caller x. *)
MadeFor(x, z) ==
  /\ x.at # 0 /\ z.slot \in 1 .. x.step
  /\ x.pc = "work" => z.slot < x.step
  /\ IF z.slot <= Len(HopOf(x).steps) THEN z.pay.route = HopOf(x).steps[z.slot]
     ELSE /\ z.pay.route = x.pay.route
          /\ x.at <= z.pay.counter
          /\ z.at # 0 => z.at = x.at + 1
          /\ z.pc = "sent" => z.pay.counter = x.at

Lineage(cs) ==
  \A d \in DOMAIN cs : cs[d].from # Client =>
    /\ cs[d].from \in DOMAIN cs
    /\ MadeFor(cs[cs[d].from], cs[d])
    /\ cs[cs[d].from].pc \in {"wait", "retry"} /\ cs[d].slot = cs[cs[d].from].step =>
         d <= cs[cs[d].from].sub

(* The call a handler waits for, or has just waited for, is its own. *)
Awaited(cs) ==
  \A c \in DOMAIN cs : cs[c].pc \in {"wait", "retry"} =>
    /\ cs[cs[c].sub].from = c /\ cs[cs[c].sub].slot = cs[c].step
    /\ cs[c].pc = "retry" => GoTransient(cs[cs[c].sub].result)

Earned(cs) ==
  \A c \in DOMAIN cs : cs[c].result = "200" =>
    /\ Complete(cs[c].pay) /\ cs[c].at # 0 /\ ~Within(cs[c])
    /\ \/ cs[c].at = Len(Hops[cs[c].pay.route])
       \/ LET d == cs[cs[c].sub]
          IN  /\ cs[c].sub \in DOMAIN cs
              /\ d.from = c /\ d.slot = cs[c].step /\ d.at = cs[c].at + 1
              /\ d.result = "200" /\ d.pay = cs[c].pay

NestedDone(cs) ==
  \A c \in DOMAIN cs : cs[c].at # 0 =>
    \A k \in DOMAIN HopOf(cs[c]).steps :
      k < cs[c].step /\ StepIsNested(LangOf[cs[c].node], HopOf(cs[c]).steps[k]) =>
        \E d \in DOMAIN cs :
          /\ cs[d].from = c /\ cs[d].slot = k
          /\ cs[d].pay.route = HopOf(cs[c]).steps[k] /\ cs[d].result = "200"

(* e has worked through segment i of route r. *)
HasVisited(e, r, i) ==
  /\ e.pay.route = r /\ e.at = i /\ ~Within(e) /\ IdOf[e.node] = Hops[r][i].id

(* Every segment that message p carries as visited has been worked through. *)
Attested(cs, p) ==
  \A i \in p.visited : i # 0 /\ \E e \in DOMAIN cs : HasVisited(cs[e], p.route, i)

Visits(cs) == \A c \in DOMAIN cs : Attested(cs, cs[c].pay)

Attempts(cs, c, k) == {e \in DOMAIN cs : cs[e].from = c /\ cs[e].slot = k}

Repeats(cs) ==
  /\ \A c, d \in DOMAIN cs :
       c < d /\ cs[c].from = cs[d].from /\ cs[c].slot = cs[d].slot /\ cs[c].from # Client =>
         LangOf[cs[cs[c].from].node] = "go" /\ GoTransient(cs[c].result)
  /\ \A c \in DOMAIN cs : \A k \in Nat :
       Cardinality(Attempts(cs, c, k)) <=
         IF cs[c].pc \in Live /\ k = cs[c].step THEN cs[c].tries ELSE GoMaxAttempts

History(cs) ==
  /\ \A c \in DOMAIN cs : Placed(cs[c])
  /\ Lineage(cs) /\ Awaited(cs)

-----------------------------------------------------------------------------
(* Every action is such a step.                                            *)

(* A call that differs in nothing but its connection rests. *)
LEMMA OnlyClosed ==
  ASSUME NEW x \in Calls, NEW b
  PROVE  Fixed(x, [x EXCEPT !.open = b]) /\ Rests(x, [x EXCEPT !.open = b])
BY DEF Calls, Fixed, Rests, InPlace

(* A call that rests may always do so. *)
LEMMA RestingIsChanged ==
  ASSUME NEW cs \in Seq(Calls), NEW ds, Len(ds) = Len(cs),
         \A c \in DOMAIN cs : Fixed(cs[c], ds[c]) /\ Alone(cs[c], ds[c], cs[cs[c].sub])
  PROVE  Changed(cs, ds)
<1>1. Len(cs) \in Nat
  OBVIOUS
<1>2. Len(ds) # Len(cs) + 1
  BY <1>1
<1> QED
  BY <1>2 DEF Changed

(* One call changes by itself. *)
LEMMA OneChanged ==
  ASSUME NEW cs \in Seq(Calls), NEW c \in DOMAIN cs, NEW y \in Calls,
         Fixed(cs[c], y), Alone(cs[c], y, cs[cs[c].sub])
  PROVE  Changed(cs, [cs EXCEPT ![c] = y])
<1> DEFINE ds == [cs EXCEPT ![c] = y]
<1>1. /\ ds \in Seq(Calls) /\ Len(ds) = Len(cs)
      /\ \A d \in DOMAIN cs : ds[d] = IF d = c THEN y ELSE cs[d]
  BY ExceptSeq
<1> HIDE DEF ds
<1>2. ASSUME NEW d \in DOMAIN cs
      PROVE  Fixed(cs[d], ds[d]) /\ Alone(cs[d], ds[d], cs[cs[d].sub])
  <2>1. CASE d = c
    BY <1>1, <2>1
  <2>2. CASE d # c
    <3>1. ds[d] = cs[d]
      BY <1>1, <2>2
    <3>2. Fixed(cs[d], cs[d]) /\ Rests(cs[d], cs[d])
      BY DEF Fixed, Rests, InPlace
    <3> QED
      BY <3>1, <3>2 DEF Alone
  <2> QED
    BY <2>1, <2>2
<1> QED
  BY <1>1, <1>2, RestingIsChanged DEF ds

(* Nothing in Alone depends on the connection. *)
LEMMA ClosedAlone ==
  ASSUME NEW x, NEW y \in Calls, NEW s, NEW b, Fixed(x, y), Alone(x, y, s)
  PROVE  Fixed(x, [y EXCEPT !.open = b]) /\ Alone(x, [y EXCEPT !.open = b], s)
<1> DEFINE z == [y EXCEPT !.open = b]
<1>1. /\ z.node = y.node /\ z.from = y.from /\ z.slot = y.slot /\ z.pay = y.pay /\ z.pc = y.pc
      /\ z.at = y.at /\ z.step = y.step /\ z.sub = y.sub /\ z.tries = y.tries /\ z.result = y.result
  BY DEF Calls
<1> HIDE DEF z
<1>2. Fixed(x, z)
  BY <1>1 DEF Fixed
<1>3. Rests(x, y) => Rests(x, z)
  BY <1>1 DEF Rests, InPlace
<1>4. Begins(x, y) => Begins(x, z)
  BY <1>1 DEF Begins
<1>5. StepsOn(x, y, s) => StepsOn(x, z, s)
  BY <1>1 DEF StepsOn, Passes, Heeds
<1>6. Sleeps(x, y, s) => Sleeps(x, z, s)
  BY <1>1 DEF Sleeps, InPlace
<1>7. Ends(x, y, s) => Ends(x, z, s)
  BY <1>1 DEF Ends, InPlace, Refuses, Loses, Fails, Refers, Earns, Relays
<1> QED
  BY <1>2, <1>3, <1>4, <1>5, <1>6, <1>7 DEF Alone, z

(* One call changes and closes the connection to another one. *)
LEMMA OneClosed ==
  ASSUME NEW cs \in Seq(Calls), NEW c \in DOMAIN cs, NEW s \in DOMAIN cs, NEW y \in Calls,
         Fixed(cs[c], y), Alone(cs[c], y, cs[cs[c].sub])
  PROVE  Changed(cs, [cs EXCEPT ![c] = y, ![s].open = FALSE])
<1> DEFINE bs == [cs EXCEPT ![c] = y]
           ds == [bs EXCEPT ![s].open = FALSE]
<1>1. /\ bs \in Seq(Calls) /\ Len(bs) = Len(cs) /\ DOMAIN bs = DOMAIN cs
      /\ \A d \in DOMAIN cs : bs[d] = IF d = c THEN y ELSE cs[d]
  BY ExceptSeq
<1> HIDE DEF bs
<1>2. bs[s] \in Calls
  BY <1>1, ElementOfSeq
<1>3. [bs[s] EXCEPT !.open = FALSE] \in Calls
  BY <1>2 DEF Calls
<1>4. /\ Len(ds) = Len(cs)
      /\ \A d \in DOMAIN cs : ds[d] = IF d = s THEN [bs[s] EXCEPT !.open = FALSE] ELSE bs[d]
  BY <1>1, <1>3, ExceptSeq
<1> HIDE DEF ds
<1>5. ASSUME NEW d \in DOMAIN cs
      PROVE  Fixed(cs[d], bs[d]) /\ Alone(cs[d], bs[d], cs[cs[d].sub])
  <2>1. Fixed(cs[d], cs[d]) /\ Rests(cs[d], cs[d])
    BY DEF Fixed, Rests, InPlace
  <2> QED
    BY <1>1, <2>1 DEF Alone
<1>6. ASSUME NEW d \in DOMAIN cs
      PROVE  Fixed(cs[d], ds[d]) /\ Alone(cs[d], ds[d], cs[cs[d].sub])
  <2>1. CASE d = s
    <3> DEFINE x == cs[s]
               y1 == bs[s]
               t == cs[cs[s].sub]
    <3>1. Fixed(x, y1) /\ Alone(x, y1, t) /\ y1 \in Calls
      BY <1>2, <1>5
    <3> HIDE DEF x, y1, t
    <3>2. Fixed(x, [y1 EXCEPT !.open = FALSE]) /\ Alone(x, [y1 EXCEPT !.open = FALSE], t)
      BY <3>1, ClosedAlone
    <3> QED
      BY <1>4, <2>1, <3>2 DEF x, y1, t
  <2>2. CASE d # s
    BY <1>4, <1>5, <2>2
  <2> QED
    BY <2>1, <2>2
<1> QED
  BY <1>4, <1>6, RestingIsChanged DEF ds, bs

(* A handler makes a call. *)
LEMMA OneAsked ==
  ASSUME NEW cs \in Seq(Calls), NEW c \in DOMAIN cs, NEW y \in Calls, NEW z,
         Fixed(cs[c], y), Asks(cs[c], y, Len(cs) + 1),
         New(z), z.from = c, MadeBy(cs[c], y, z)
  PROVE  Changed(cs, Append([cs EXCEPT ![c] = y], z))
<1> DEFINE bs == [cs EXCEPT ![c] = y]
           ds == Append(bs, z)
<1>1. /\ bs \in Seq(Calls) /\ Len(bs) = Len(cs) /\ DOMAIN cs = 1 .. Len(cs) /\ Len(cs) \in Nat
      /\ \A d \in DOMAIN cs : bs[d] = IF d = c THEN y ELSE cs[d]
  BY ExceptSeq
<1> HIDE DEF bs
<1>2. /\ Len(ds) = Len(cs) + 1 /\ ds[Len(ds)] = z
      /\ \A d \in DOMAIN cs : ds[d] = IF d = c THEN y ELSE cs[d]
  BY <1>1
<1> HIDE DEF ds
<1>3. ASSUME NEW d \in DOMAIN cs
      PROVE  /\ Fixed(cs[d], ds[d])
             /\ \/ Alone(cs[d], ds[d], cs[cs[d].sub])
                \/ Asks(cs[d], ds[d], Len(cs) + 1) /\ d = c
  <2>1. Fixed(cs[d], cs[d]) /\ Rests(cs[d], cs[d])
    BY DEF Fixed, Rests, InPlace
  <2> QED
    BY <1>2, <2>1 DEF Alone
<1> QED
  BY <1>2, <1>3 DEF Changed, ds, bs

(* Which outcomes let a handler go on, which it relays, and what it makes of the others. *)
LEMMA AfterMeans ==
  ASSUME NEW lang \in Langs, NEW o \in Outcomes
  PROVE  /\ AfterNested(lang, o) \in {"next", "500", "502"}
         /\ AfterNested(lang, o) = "next" => o = "200"
         /\ AfterForward(lang, o) \in {"200", "400", "500", "502"}
         /\ AfterForward(lang, o) = "200" => o = "200"
         /\ AfterForward(lang, o) = "400" => o = "400" /\ lang # "py"
<1> USE DEF Outcomes, Statuses, Faults
<1>1. CASE lang = "py"
  BY <1>1 DEF AfterNested, AfterForward, PyAfterNested, PyAfterForward
<1>2. CASE lang = "rs"
  BY <1>2 DEF AfterNested, AfterForward, RsAfterNested, RsAfterForward
<1>3. CASE lang = "go"
  BY <1>3 DEF AfterNested, AfterForward, GoAfterNested, GoAfterForward
<1>4. CASE lang = "ja"
  BY <1>4 DEF AfterNested, AfterForward, JaAfterNested, JaAfterForward
<1>5. CASE lang = "cs"
  BY <1>5 DEF AfterNested, AfterForward, CsAfterNested, CsAfterForward
<1>6. CASE lang = "js"
  BY <1>6 DEF AfterNested, AfterForward, JsAfterNested, JsAfterForward
<1> QED
  BY <1>1, <1>2, <1>3, <1>4, <1>5, <1>6 DEF Langs

(* The fields of a call that has ended. *)
LEMMA EndedFields ==
  ASSUME NEW x \in Calls, NEW o
  PROVE  /\ Fixed(x, Ended(x, o)) /\ InPlace(x, Ended(x, o))
         /\ Ended(x, o).pc = "done" /\ Ended(x, o).result = o
         /\ Ended(x, o).pay = x.pay /\ Ended(x, o).sub = x.sub
BY DEF Calls, Ended, Fixed, InPlace

(* The fields of a call whose message has been replaced. *)
LEMMA PayFields ==
  ASSUME NEW x \in Calls, NEW p \in Payloads
  PROVE  LET y == [x EXCEPT !.pay = p]
         IN  /\ y \in Calls /\ y.pay = p /\ Fixed(x, y) /\ InPlace(x, y)
             /\ y.pc = x.pc /\ y.sub = x.sub /\ y.tries = x.tries /\ y.result = x.result
BY DEF Calls, Fixed, InPlace

(* A handler that has an outcome - its timer, its cancellation or the answer
   of its own call - posts again, steps on or ends. *)
LEMMA ResumedAlone ==
  ASSUME CallsInv(call), NEW c \in DOMAIN call, call[c].pc \in {"wait", "retry"},
         NEW o \in Outcomes,
         \/ o \in {"timeout", "cancelled"}
         \/ call[c].pc = "wait" /\ o = call[call[c].sub].result
  PROVE  /\ Fixed(call[c], Resumed(c, o))
         /\ Alone(call[c], Resumed(c, o), call[call[c].sub])
<1> DEFINE x == call[c]
           s == call[x.sub]
           y == Resumed(c, o)
           nested == AfterNested(Lang(c), o)
           answer == AfterForward(Lang(c), o)
<1>1. x \in Calls /\ Lang(c) \in Langs /\ Lang(c) = LangOf[x.node] /\ x.sub \in DOMAIN call
  BY CallTypes, HopTypes, ResumedInv DEF Lang
<1>2. s \in Calls /\ s.pay \in Payloads
  BY <1>1, CallTypes, HopTypes
<1>3. /\ nested \in {"next", "500", "502"} /\ (nested = "next" => o = "200")
      /\ answer \in {"200", "400", "500", "502"} /\ (answer = "200" => o = "200")
      /\ answer = "400" => o = "400" /\ Lang(c) # "py"
  BY <1>1, AfterMeans
<1>4. InSteps(c) <=> Within(x)
  BY DEF InSteps, Hop, Within, HopOf
<1>5. o \in {"200", "400", "refused", "reset"} => x.pc = "wait" /\ o = s.result
  OBVIOUS
<1>6. x.pc \in Live
  BY DEF Live
<1> HIDE DEF nested, answer
<1>7. CASE PostsAgain(Lang(c), o, x.tries)
  <2>1. y = [x EXCEPT !.pc = "retry"]
    BY <1>7 DEF Resumed
  <2>2. Lang(c) = "go" /\ GoTransient(o) /\ x.tries < GoMaxAttempts
    BY <1>7 DEF PostsAgain
  <2>3. x.pc = "wait" /\ GoTransient(s.result)
    BY <1>5, <2>2 DEF GoTransient
  <2> HIDE DEF x, y, s
  <2>4. Fixed(x, y) /\ Sleeps(x, y, s)
    BY <1>1, <2>1, <2>2, <2>3 DEF Calls, Fixed, Sleeps, InPlace
  <2> QED
    BY <2>4 DEF Alone, x, y, s
<1>8. CASE ~PostsAgain(Lang(c), o, x.tries) /\ InSteps(c) /\ nested = "next"
  <2>1. y = [x EXCEPT !.pc = "work", !.step = @ + 1, !.tries = 0]
    BY <1>8 DEF Resumed, nested
  <2>2. x.pc = "wait" /\ s.result = "200" /\ Within(x)
    BY <1>3, <1>4, <1>5, <1>8
  <2> HIDE DEF x, y, s
  <2>3. Fixed(x, y) /\ StepsOn(x, y, s)
    BY <1>1, <2>1, <2>2 DEF Calls, Fixed, StepsOn, Heeds
  <2> QED
    BY <2>3 DEF Alone, x, y, s
<1>9. CASE ~PostsAgain(Lang(c), o, x.tries) /\ InSteps(c) /\ nested # "next"
  <2>1. y = Ended(x, nested)
    BY <1>8, <1>9 DEF Resumed, nested
  <2> HIDE DEF x, y, s
  <2>2. Fixed(x, y) /\ Ends(x, y, s)
    BY <1>1, <1>3, <1>6, <1>9, <2>1, EndedFields DEF Ends, Fails
  <2> QED
    BY <2>2 DEF Alone, x, y, s
<1>10. CASE ~PostsAgain(Lang(c), o, x.tries) /\ ~InSteps(c) /\ answer = "200"
  <2> DEFINE me == [x EXCEPT !.pay = s.pay]
  <2>1. y = Ended(me, "200")
    BY <1>10 DEF Resumed, Relayed, answer
  <2>2. x.pc = "wait" /\ s.result = "200" /\ ~Within(x)
    BY <1>3, <1>4, <1>5, <1>10
  <2> HIDE DEF x, y, s
  <2>3. /\ me \in Calls /\ me.pay = s.pay /\ Fixed(x, me) /\ InPlace(x, me) /\ me.sub = x.sub
    BY <1>1, <1>2, PayFields
  <2> HIDE DEF me
  <2>4. Fixed(x, y) /\ Ends(x, y, s)
    BY <2>1, <2>2, <2>3, EndedFields DEF Ends, Relays, Fixed, InPlace
  <2> QED
    BY <2>4 DEF Alone, x, y, s
<1>11. CASE ~PostsAgain(Lang(c), o, x.tries) /\ ~InSteps(c) /\ answer # "200"
  <2>1. y = Ended(x, answer)
    BY <1>11 DEF Resumed, answer
  <2>2. answer = "400" => x.pc = "wait" /\ ~Within(x) /\ LangOf[x.node] # "py"
    BY <1>1, <1>3, <1>4, <1>5, <1>11
  <2> HIDE DEF x, y, s
  <2>3. Fixed(x, y) /\ Ends(x, y, s)
    BY <1>1, <1>3, <1>6, <1>11, <2>1, <2>2, EndedFields DEF Ends, Fails, Refers
  <2> QED
    BY <2>3 DEF Alone, x, y, s
<1> QED
  BY <1>7, <1>8, <1>9, <1>10, <1>11

(* The handler of c, which becomes me, posts p: to nobody, or to a container. *)
LEMMA SendToChanged ==
  ASSUME CallsInv(call), NEW c \in DOMAIN call, NEW me \in Calls,
         Fixed(call[c], me), InPlace(call[c], me), call[c].pc \in {"work", "retry"},
         me.tries = call[c].tries, me.result = call[c].result,
         IF InSteps(c) THEN StepIsNested(Lang(c), Step(c)) /\ me.pay = call[c].pay
         ELSE ~Complete(me.pay) /\ me.pay = IF call[c].pc = "work" THEN Visited(c) ELSE call[c].pay,
         NEW p, p = IF InSteps(c) THEN Fresh(Step(c)) ELSE me.pay,
         me.sub = call[c].sub, SendTo(c, me, p)
  PROVE  Changed(call, call')
<1> DEFINE x == call[c]
           s == call[x.sub]
           j == Len(call) + 1
<1>1. x \in Calls /\ call \in Seq(Calls) /\ Len(call) \in Nat
  BY CallTypes DEF CallsInv
<1>2. /\ InSteps(c) <=> Within(x)
      /\ Step(c) = StepOf(x) /\ Lang(c) = LangOf[x.node] /\ Visited(c) = Marked(x)
  BY DEF InSteps, Step, Hop, Within, HopOf, StepOf, Lang, Visited, Marked, Id
<1>3. CASE call' = [call EXCEPT ![c] = Ended(me, "502")]
  <2> DEFINE y == Ended(me, "502")
  <2>1. y \in Calls
    BY DEF Ended, Calls, Outcomes, Statuses
  <2>2. /\ Fixed(me, y) /\ InPlace(me, y) /\ y.pc = "done" /\ y.result = "502"
        /\ y.pay = me.pay /\ y.sub = me.sub
    BY EndedFields
  <2> HIDE DEF y, x, s
  <2>3. Fixed(x, y) /\ InPlace(x, y) /\ y.sub = x.sub
    BY <2>2 DEF Fixed, InPlace, x
  <2>4. Fails(x, y)
    BY <1>2, <2>2 DEF Fails, Live, x
  <2>5. Alone(x, y, s)
    BY <2>2, <2>3, <2>4 DEF Alone, Ends
  <2> QED
    BY <1>1, <1>3, <2>1, <2>3, <2>5, OneChanged DEF x, y, s
<1>4. ASSUME NEW n, Len(call) < MaxCalls,
             call' = Append([call EXCEPT ![c] = Waiting(me, j)], Arrival(n, c, me.step, p))
      PROVE  Changed(call, call')
  <2> DEFINE y == Waiting(me, j)
             z == Arrival(n, c, me.step, p)
  <2>1. j \in CallIds
    BY <1>1, <1>4, BoundsAssumption DEF CallIds
  <2>2. y \in Calls
    BY <2>1, WaitingType
  <2>3. /\ y.pc = "wait" /\ y.sub = j /\ y.tries = me.tries + 1 /\ y.pay = me.pay
        /\ y.result = me.result /\ InPlace(me, y) /\ Fixed(me, y)
    BY DEF Waiting, Calls, InPlace, Fixed
  <2>4. New(z) /\ z.from = c /\ z.slot = me.step /\ z.pay = p
    BY DEF New, Arrival
  <2> HIDE DEF y, z, x
  <2>5. Fixed(x, y) /\ InPlace(x, y)
    BY <2>3 DEF Fixed, InPlace, x
  <2>6. Asks(x, y, j)
    BY <1>2, <2>3, <2>5 DEF Asks, x
  <2>7. MadeBy(x, y, z)
    BY <1>2, <2>3, <2>4 DEF MadeBy, InPlace, x
  <2> QED
    BY <1>1, <1>4, <2>2, <2>4, <2>5, <2>6, <2>7, OneAsked DEF x, y, z
<1> QED
  BY <1>3, <1>4 DEF SendTo, Waiting

(* Reading a request, a step that spins and one that raises. *)
LEMMA StepsChanged ==
  ASSUME IInv, NEW c \in DOMAIN call, Read(c) \/ Spin(c) \/ RaiseInStep(c)
  PROVE  Changed(call, call')
<1> DEFINE x == call[c]
           s == call[x.sub]
<1>1. call \in Seq(Calls) /\ x \in Calls /\ CallInv(x)
  BY CallTypes DEF IInv, CallsInv
<1>2. /\ InSteps(c) <=> Within(x)
      /\ Step(c) = StepOf(x) /\ Lang(c) = LangOf[x.node] /\ Id(c) = IdOf[x.node]
  BY DEF InSteps, Step, Hop, Within, HopOf, StepOf, Lang, Id
<1>3. CASE Read(c) /\ Admits(Lang(c), Id(c), x.pay)
  <2> DEFINE y == Begun(x)
  <2>1. call' = [call EXCEPT ![c] = y] /\ x.pc = "sent"
    BY <1>3 DEF Read
  <2>2. y \in Calls
    BY <1>1, <1>2, <1>3, <2>1, BegunInv
  <2> HIDE DEF x, s
  <2>3. Fixed(x, y) /\ Begins(x, y)
    BY <1>1, <1>2, <1>3, <2>1 DEF Begun, Begins, Fixed, Calls
  <2> HIDE DEF y
  <2>4. Alone(x, y, s)
    BY <2>3 DEF Alone
  <2> QED
    BY <1>1, <2>1, <2>2, <2>3, <2>4, OneChanged DEF x, s
<1>4. CASE Read(c) /\ ~Admits(Lang(c), Id(c), x.pay)
  <2> DEFINE y == Ended(x, "400")
  <2>1. call' = [call EXCEPT ![c] = y] /\ x.pc = "sent"
    BY <1>4 DEF Read
  <2>2. y \in Calls
    BY <1>1 DEF Ended, Calls, Outcomes, Statuses
  <2> HIDE DEF x, s
  <2>3. Fixed(x, y) /\ Ends(x, y, s)
    BY <1>1, <2>1, EndedFields DEF Ends, Refuses
  <2> HIDE DEF y
  <2>4. Alone(x, y, s)
    BY <2>3 DEF Alone
  <2> QED
    BY <1>1, <2>1, <2>2, <2>3, <2>4, OneChanged DEF x, s
<1>5. CASE Spin(c)
  <2> DEFINE y == [x EXCEPT !.step = @ + 1]
  <2>1. call' = [call EXCEPT ![c] = y]
    BY <1>5 DEF Spin
  <2>2. x.pc = "work" /\ Within(x) /\ ~StepIsNested(LangOf[x.node], StepOf(x))
    BY <1>2, <1>5 DEF Spin
  <2>3. y \in Calls
    <3>1. x.step + 1 \in Nat
      BY <1>1 DEF Calls
    <3> HIDE DEF x
    <3> QED
      BY <1>1, <3>1 DEF Calls
  <2> HIDE DEF x, s
  <2>4. Fixed(x, y) /\ StepsOn(x, y, s)
    BY <1>1, <2>2 DEF StepsOn, Passes, Fixed, Calls
  <2> HIDE DEF y
  <2>5. Alone(x, y, s)
    BY <2>4 DEF Alone
  <2> QED
    BY <1>1, <2>1, <2>3, <2>4, <2>5, OneChanged DEF x, s
<1>6. CASE RaiseInStep(c)
  <2> DEFINE y == Ended(x, "502")
  <2>1. call' = [call EXCEPT ![c] = y] /\ x.pc = "work"
    BY <1>6 DEF RaiseInStep
  <2>2. y \in Calls
    BY <1>1 DEF Ended, Calls, Outcomes, Statuses
  <2> HIDE DEF x, s
  <2>3. Fixed(x, y) /\ Ends(x, y, s)
    BY <1>1, <2>1, EndedFields DEF Ends, Fails, Live
  <2> HIDE DEF y
  <2>4. Alone(x, y, s)
    BY <2>3 DEF Alone
  <2> QED
    BY <1>1, <2>1, <2>2, <2>3, <2>4, OneChanged DEF x, s
<1> QED
  BY <1>3, <1>4, <1>5, <1>6

(* A handler that has done its steps ends with its message marked: with 200 when no segment is
   left, with 502 when the POST of the rest does not leave. *)
LEMMA MarkedChanged ==
  ASSUME IInv, NEW c \in DOMAIN call, call[c].pc = "work", ~InSteps(c), NEW o,
         o = (IF Complete(Visited(c)) THEN "200" ELSE "502"),
         call' = [call EXCEPT ![c] = Ended([@ EXCEPT !.pay = Visited(c)], o)]
  PROVE  Changed(call, call')
<1> DEFINE x == call[c]
           s == call[x.sub]
           me == [x EXCEPT !.pay = Visited(c)]
           y == Ended(me, o)
<1>1. call \in Seq(Calls) /\ x \in Calls /\ CallInv(x)
  BY CallTypes DEF IInv, CallsInv
<1>2. ~Within(x) /\ Visited(c) = Marked(x)
  BY DEF InSteps, Hop, Within, HopOf, Visited, Marked, Id
<1>3. Visited(c) \in Payloads
  BY <1>1, MarkedInv DEF InSteps, Hop, Visited, Id
<1>4. call' = [call EXCEPT ![c] = y]
  OBVIOUS
<1>5. x.pc = "work"
  OBVIOUS
<1> HIDE DEF x, s
<1>6. me \in Calls /\ me.pay = Visited(c) /\ Fixed(x, me) /\ InPlace(x, me) /\ me.sub = x.sub
  BY <1>1, <1>3, PayFields
<1> HIDE DEF me
<1>7. y \in Calls
  BY <1>6 DEF Ended, Calls, Outcomes, Statuses
<1>8. /\ Fixed(me, y) /\ InPlace(me, y) /\ y.pc = "done" /\ y.result = o
      /\ y.pay = me.pay /\ y.sub = me.sub
  BY <1>6, EndedFields
<1> HIDE DEF y
<1>9. Fixed(x, y) /\ InPlace(x, y)
  BY <1>6, <1>8 DEF Fixed, InPlace
<1>10. Earns(x, y) \/ Fails(x, y)
  BY <1>2, <1>5, <1>6, <1>8 DEF Earns, Fails, Live
<1>11. Alone(x, y, s)
  BY <1>6, <1>8, <1>9, <1>10 DEF Alone, Ends
<1> QED
  BY <1>1, <1>4, <1>7, <1>9, <1>11, OneChanged DEF x, s

(* The terminal answer. *)
LEMMA AnswerChanged ==
  ASSUME IInv, NEW c \in DOMAIN call, AnswerTerminal(c)
  PROVE  Changed(call, call')
BY MarkedChanged DEF AnswerTerminal

(* The three places a handler posts from. *)
LEMMA PostsChanged ==
  ASSUME IInv, NEW c \in DOMAIN call, PostNested(c) \/ Forward(c) \/ PostAgain(c)
  PROVE  Changed(call, call')
<1>1. CallsInv(call) /\ call[c] \in Calls /\ CallInv(call[c])
  BY CallTypes DEF IInv
<1>2. Fixed(call[c], call[c]) /\ InPlace(call[c], call[c])
  BY DEF Fixed, InPlace
<1>3. CASE PostNested(c)
  BY <1>1, <1>2, <1>3, SendToChanged DEF PostNested
<1>4. CASE Forward(c)
  <2> DEFINE me == [call[c] EXCEPT !.pay = Visited(c)]
  <2>1. Visited(c) \in Payloads
    BY <1>1, <1>4, MarkedInv DEF Forward, InSteps, Hop, Visited, Id
  <2>2. /\ me \in Calls /\ me.pay = Visited(c) /\ Fixed(call[c], me) /\ InPlace(call[c], me)
        /\ me.sub = call[c].sub /\ me.tries = call[c].tries /\ me.result = call[c].result
    BY <1>1, <2>1, PayFields
  <2>3. SendTo(c, me, Visited(c)) /\ ~Complete(Visited(c)) /\ ~InSteps(c) /\ call[c].pc = "work"
    BY <1>4 DEF Forward
  <2> HIDE DEF me
  <2> QED
    BY <1>1, <2>2, <2>3, SendToChanged
<1>5. CASE PostAgain(c)
  <2>1. AtItsHop(call[c]) /\ call[c].pc = "retry"
    BY <1>1, <1>5 DEF PostAgain, CallInv, Live
  <2>2. CASE InSteps(c)
    <3>1. StepIsNested(Lang(c), Step(c))
      BY <2>1, <2>2 DEF AtItsHop, PostsNested, InSteps, Step, Hop, Lang
    <3> QED
      BY <1>1, <1>2, <1>5, <2>1, <2>2, <3>1, SendToChanged DEF PostAgain
  <2>3. CASE ~InSteps(c)
    <3>1. Through(call[c].pay, call[c].at) /\ call[c].at < Len(Hops[call[c].pay.route])
      BY <2>1, <2>3 DEF AtItsHop, InSteps, Hop
    <3>2. call[c].at \in Nat /\ call[c].pay \in Payloads
      BY <1>1 DEF Calls
    <3>3. ~Complete(call[c].pay)
      BY <3>1, <3>2, <1>1, HopTypes, NextSegment
    <3> QED
      BY <1>1, <1>2, <1>5, <2>1, <2>3, <3>3, SendToChanged DEF PostAgain
  <2> QED
    BY <2>2, <2>3
<1> QED
  BY <1>3, <1>4, <1>5

(* An answer, a timer, a cancellation, a POST that does not leave, a dropped future. *)
LEMMA WaitersChanged ==
  ASSUME IInv, NEW c \in DOMAIN call, Receive(c) \/ Abandon(c)
  PROVE  Changed(call, call')
<1> DEFINE x == call[c]
           s == call[x.sub]
<1>1. CallsInv(call) /\ call \in Seq(Calls) /\ x \in Calls /\ CallInv(x)
  BY CallTypes DEF IInv, CallsInv
<1>2. {"timeout", "cancelled", "eof", "200"} \subseteq Outcomes
  BY DEF Outcomes, Faults, Statuses
<1>3. x.pc \in {"wait", "retry"} => x.sub \in DOMAIN call
  BY <1>1, <1>2, ResumedInv
<1>4. ASSUME NEW o \in Outcomes, x.pc \in {"wait", "retry"},
             o \in {"timeout", "cancelled"} \/ (x.pc = "wait" /\ o = s.result)
      PROVE  Resumed(c, o) \in Calls /\ Fixed(x, Resumed(c, o)) /\ Alone(x, Resumed(c, o), s)
  BY <1>1, <1>4, ResumedInv, ResumedAlone
<1>5. CASE Receive(c)
  <2>1. x.pc = "wait" /\ s.result # "none" /\ call' = [call EXCEPT ![c] = Resumed(c, s.result)]
    BY <1>5 DEF Receive, Answered
  <2>2. s.result \in Outcomes
    <3>1. s \in Calls
      BY <1>1, <1>3, <2>1, CallTypes
    <3> QED
      BY <2>1, <3>1 DEF Calls
  <2> QED
    BY <1>1, <1>4, <2>1, <2>2, OneChanged
<1>6. ASSUME NEW o \in {"timeout", "cancelled"}, x.pc \in {"wait", "retry"}, GiveUp(c, o)
      PROVE  Changed(call, call')
  <2>1. Resumed(c, o) \in Calls /\ Fixed(x, Resumed(c, o)) /\ Alone(x, Resumed(c, o), s)
    BY <1>2, <1>4, <1>6
  <2> QED
    BY <1>1, <1>3, <1>6, <2>1, OneClosed DEF GiveUp
<1>7. CASE TimeOut(c)
  BY <1>6, <1>7 DEF TimeOut
<1>8. CASE Cancel(c)
  BY <1>6, <1>8 DEF Cancel
<1>9. CASE Unsent(c)
  <2>1. CASE call' = [call EXCEPT ![c] = Ended(call[c], "502")]
    <3> DEFINE y == Ended(x, "502")
    <3>1. y \in Calls
      BY <1>1 DEF Ended, Calls, Outcomes, Statuses
    <3>2. x.pc = "work"
      BY <1>9 DEF Unsent
    <3>3. Fixed(x, y) /\ Ends(x, y, s)
      BY <1>1, <3>2, EndedFields DEF Ends, Fails, Live
    <3> HIDE DEF y
    <3>4. Alone(x, y, s)
      BY <3>3 DEF Alone
    <3> QED
      BY <1>1, <2>1, <3>1, <3>3, <3>4, OneChanged DEF y
  <2>2. CASE /\ ~InSteps(c) /\ ~Complete(Visited(c))
             /\ call' = [call EXCEPT ![c] = Ended([@ EXCEPT !.pay = Visited(c)], "502")]
    BY <1>9, <2>2, MarkedChanged DEF Unsent
  <2> QED
    BY <1>9, <2>1, <2>2 DEF Unsent
<1>10. CASE Drop(c)
  <2> DEFINE y == Ended(x, "eof")
  <2>1. y \in Calls
    BY <1>1 DEF Ended, Calls, Outcomes, Faults
  <2>2. x.pc \in {"work", "wait"}
    BY <1>10 DEF Drop
  <2>3. Fixed(x, y) /\ Ends(x, y, s)
    BY <1>1, <2>2, EndedFields DEF Ends, Loses, Faults
  <2>4. Alone(x, y, s)
    BY <2>3 DEF Alone
  <2> HIDE DEF y
  <2>5. CASE call' = [call EXCEPT ![c] = Ended(call[c], "eof")]
    BY <1>1, <2>1, <2>3, <2>4, <2>5, OneChanged DEF y
  <2>6. CASE x.pc = "wait" /\ call' = [call EXCEPT ![c] = Ended(call[c], "eof"), ![call[c].sub].open = FALSE]
    BY <1>1, <1>3, <2>1, <2>3, <2>4, <2>6, OneClosed DEF y
  <2> QED
    BY <1>10, <2>5, <2>6 DEF Drop
<1> QED
  BY <1>5, <1>7, <1>8, <1>9, <1>10 DEF Abandon

(* A crash loses the calls of its container; the others rest. *)
LEMMA CrashChanged ==
  ASSUME IInv, (IInv)', NEW n \in Nodes, Crash(n)
  PROVE  Changed(call, call')
<1> DEFINE b(c) == call[c].open /\ (Answered(c) \/ call[c].from \notin At(n))
<1>1. PICK reset \in SUBSET At(n) :
        call' = [c \in DOMAIN call |->
                  IF c \notin At(n) THEN [call[c] EXCEPT !.open = b(c)]
                  ELSE Ended([call[c] EXCEPT !.open = b(c)], IF c \in reset THEN "reset" ELSE "eof")]
  BY DEF Crash
<1> HIDE DEF b
<1>2. call \in Seq(Calls) /\ call' \in Seq(Calls) /\ DOMAIN call' = DOMAIN call
  BY <1>1 DEF IInv, CallsInv
<1>3. Len(call') = Len(call)
  BY <1>2
<1>4. ASSUME NEW c \in DOMAIN call
      PROVE  Fixed(call[c], call'[c]) /\ Alone(call[c], call'[c], call[call[c].sub])
  <2> DEFINE x == call[c]
             s == call[x.sub]
             me == [x EXCEPT !.open = b(c)]
  <2>1. x \in Calls
    BY CallTypes DEF IInv
  <2>2. me \in Calls
    BY <2>1 DEF Calls, b
  <2>3. Fixed(x, me) /\ Rests(x, me)
    BY <2>1, OnlyClosed
  <2>4. CASE c \notin At(n)
    <3>1. call'[c] = me
      BY <1>1, <2>4
    <3> QED
      BY <2>3, <3>1 DEF Alone
  <2>5. CASE c \in At(n)
    <3> DEFINE o == IF c \in reset THEN "reset" ELSE "eof"
    <3>1. call'[c] = Ended(me, o)
      BY <1>1, <2>5
    <3>2. o \in Faults
      BY DEF Faults
    <3>3. x.pc # "done"
      BY <2>5 DEF At
    <3> HIDE DEF o, me, x, s
    <3> DEFINE y == Ended(me, o)
    <3>4. /\ Fixed(me, y) /\ InPlace(me, y) /\ y.pc = "done" /\ y.result = o
          /\ y.pay = me.pay /\ y.sub = me.sub
      BY <2>2, EndedFields
    <3> HIDE DEF y
    <3>5. Fixed(x, y) /\ Ends(x, y, s)
      BY <2>3, <3>2, <3>3, <3>4 DEF Ends, Loses, Fixed, InPlace, Rests
    <3> QED
      BY <3>1, <3>5 DEF Alone, x, y, s
  <2> QED
    BY <2>4, <2>5
<1> QED
  BY <1>2, <1>3, <1>4, RestingIsChanged

(* A client posts: every other call rests. *)
LEMMA ClientPostsChanged ==
  ASSUME IInv, ClientPosts
  PROVE  Changed(call, call')
<1>1. PICK q \in Posts : call' = Append(call, Arrival(q.to, Client, 0, Fresh(q.route)))
  BY DEF ClientPosts
<1> DEFINE z == Arrival(q.to, Client, 0, Fresh(q.route))
<1>2. call \in Seq(Calls) /\ DOMAIN call = 1 .. Len(call) /\ Len(call) \in Nat
  BY DEF IInv, CallsInv
<1>3. New(z) /\ z.from = Client /\ z.pay = Fresh(q.route) /\ q.route \in Routes
  BY NodesAssumption DEF New, Arrival
<1>4. MadeByClient(z)
  BY <1>3 DEF MadeByClient
<1>5. call' = Append(call, z)
  BY <1>1
<1> HIDE DEF z
<1>6. /\ Len(call') = Len(call) + 1 /\ call'[Len(call')] = z
      /\ \A c \in DOMAIN call : call'[c] = call[c]
  BY <1>2, <1>5
<1>7. \A c \in DOMAIN call : Fixed(call[c], call'[c]) /\ Rests(call[c], call'[c])
  BY <1>6 DEF Fixed, Rests, InPlace
<1> QED
  BY <1>3, <1>4, <1>6, <1>7 DEF Changed, Alone

(* Whatever the system does, it changes the calls in these ways only. *)
LEMMA EveryStepIsChanged ==
  ASSUME IInv, (IInv)', [Next]_vars
  PROVE  Changed(call, call')
<1>1. CASE call' = call
  <2>1. call \in Seq(Calls)
    BY DEF IInv, CallsInv
  <2>2. \A c \in DOMAIN call : Fixed(call[c], call[c]) /\ Rests(call[c], call[c])
    BY DEF Fixed, Rests, InPlace
  <2> QED
    BY <1>1, <2>1, <2>2, RestingIsChanged DEF Alone
<1>2. ASSUME NEW c \in DOMAIN call, Handler(c) PROVE Changed(call, call')
  BY <1>2, StepsChanged, PostsChanged, AnswerChanged, WaitersChanged DEF Handler
<1>3. ASSUME NEW c \in DOMAIN call, Abandon(c) PROVE Changed(call, call')
  BY <1>3, WaitersChanged
<1>4. ASSUME NEW c \in DOMAIN call, HangUp(c) PROVE Changed(call, call')
  <2> DEFINE y == [call[c] EXCEPT !.open = FALSE]
  <2>1. call \in Seq(Calls) /\ call[c] \in Calls
    BY CallTypes DEF IInv, CallsInv
  <2>2. y \in Calls
    BY <2>1 DEF Calls
  <2>3. Fixed(call[c], y) /\ Rests(call[c], y)
    BY <2>1, OnlyClosed
  <2>4. call' = [call EXCEPT ![c] = y]
    BY <1>4 DEF HangUp
  <2> HIDE DEF y
  <2> QED
    BY <2>1, <2>2, <2>3, <2>4, OneChanged DEF Alone
<1>5. ASSUME NEW n \in Nodes, Crash(n) \/ Restart(n) PROVE Changed(call, call')
  BY <1>1, <1>5, CrashChanged DEF Restart
<1> QED
  BY <1>1, <1>2, <1>3, <1>4, <1>5, ClientPostsChanged DEF Next, AllOver, vars

-----------------------------------------------------------------------------
(* What a step leaves of a call.                                           *)

(* A message only ever gets further, and what is over stays as it is. *)
Grows(x, y) ==
  /\ y.pay.route = x.pay.route /\ x.pay.counter <= y.pay.counter
  /\ x.pc = "done" => y.pc = "done" /\ y.result = x.result /\ y.pay = x.pay

(* A handler stays on its segment and does not go back. *)
Advances(x, y) == x.step <= y.step /\ (x.at # 0 => y.at = x.at)

(* The types of two successive sequences of calls and of what a call waits for. *)
LEMMA CallParts ==
  ASSUME NEW cs, CallsInv(cs), NEW c \in DOMAIN cs
  PROVE  /\ cs \in Seq(Calls) /\ DOMAIN cs = 1 .. Len(cs) /\ Len(cs) \in Nat /\ c \in Nat
         /\ cs[c] \in Calls /\ CallInv(cs[c]) /\ cs[c].pay \in Payloads
         /\ cs[c].at \in Nat /\ cs[c].step \in Nat /\ cs[c].slot \in Nat
         /\ cs[c].pay.counter \in Nat /\ cs[c].tries \in Nat
         /\ cs[c].pc \in {"wait", "retry"} => cs[c].sub \in DOMAIN cs
         /\ cs[c].pc \in {"sent", "work", "wait", "retry", "done"}
         /\ cs[c].pc = "done" <=> cs[c].result # "none"
<1>1. /\ cs \in Seq(Calls) /\ DOMAIN cs = 1 .. Len(cs) /\ Len(cs) \in Nat
      /\ cs[c] \in Calls /\ CallInv(cs[c]) /\ cs[c].sub <= Len(cs)
  BY ElementOfSeq DEF CallsInv
<1>2. /\ cs[c].pay \in Payloads /\ cs[c].at \in Nat /\ cs[c].step \in Nat /\ cs[c].slot \in Nat
      /\ cs[c].tries \in Nat /\ cs[c].pc \in {"sent", "work", "wait", "retry", "done"}
      /\ cs[c].sub \in CallIds \cup {Client}
  BY <1>1 DEF Calls
<1>3. cs[c].pay.counter \in Nat
  BY <1>2 DEF Payloads
<1>4. cs[c].pc = "done" <=> cs[c].result # "none"
  BY <1>1 DEF CallInv
<1>5. cs[c].pc \in {"wait", "retry"} => cs[c].sub \in 1 .. Len(cs)
  <2>1. cs[c].pc \in {"wait", "retry"} => cs[c].sub \in CallIds
    BY <1>1, <1>2 DEF CallInv
  <2> QED
    BY <1>1, <2>1, BoundsAssumption DEF CallIds
<1> QED
  BY <1>1, <1>2, <1>3, <1>4, <1>5

(* A handler that has left its steps behind and waits has the message it forwarded. *)
LEMMA ForwardedMessage ==
  ASSUME NEW x \in Calls, CallInv(x), x.pc \in {"wait", "retry"}, ~Within(x)
  PROVE  Through(x.pay, x.at) /\ x.pay.counter = x.at
<1>1. AtItsHop(x)
  BY DEF CallInv, Live
<1>2. Through(x.pay, x.at)
  BY <1>1 DEF AtItsHop, Within, HopOf
<1> QED
  BY <1>2 DEF Through

(* A handler that has begun is at a segment of its route. *)
LEMMA LiveIsPlaced ==
  ASSUME NEW x \in Calls, CallInv(x), x.pc \in Live
  PROVE  AtItsHop(x) /\ x.at # 0 /\ HopOf(x).id = IdOf[x.node]
<1>1. AtItsHop(x)
  BY DEF CallInv
<1>2. x.at \in 1 .. Len(Hops[x.pay.route]) /\ HopOf(x).id = IdOf[x.node]
  BY <1>1 DEF AtItsHop, HopOf
<1>3. x.at # 0
  BY <1>2, HopTypes
<1> QED
  BY <1>1, <1>2, <1>3

(* What marking a segment does to the parts of a message that the history is about. *)
LEMMA MarkedFields ==
  ASSUME NEW x \in Calls
  PROVE  /\ Marked(x).route = x.pay.route /\ Marked(x).counter = x.pay.counter + 1
         /\ Marked(x).visited = x.pay.visited \cup {x.at}
BY DEF Marked, MarkVisited, Calls, Payloads

(* The kinds of step a call can take, by where it is: the tests the lemmas below split on. *)
LEMMA ChangedOne ==
  ASSUME NEW cs, NEW ds, CallsInv(cs), CallsInv(ds), Changed(cs, ds), NEW c \in DOMAIN cs
  PROVE  /\ c \in DOMAIN ds /\ Fixed(cs[c], ds[c])
         /\ Alone(cs[c], ds[c], cs[cs[c].sub]) \/ Asks(cs[c], ds[c], Len(cs) + 1)
<1>1. /\ DOMAIN cs = 1 .. Len(cs) /\ Len(cs) \in Nat /\ DOMAIN ds = 1 .. Len(ds) /\ Len(ds) \in Nat
  BY DEF CallsInv
<1>2. Len(ds) \in {Len(cs), Len(cs) + 1}
  BY DEF Changed
<1>3. c \in DOMAIN ds
  <2>1. \A m, n \in Nat : n \in {m, m + 1} => 1 .. m \subseteq 1 .. n
    OBVIOUS
  <2> QED
    BY <1>1, <1>2, <2>1
<1> QED
  BY <1>3 DEF Changed

(* A forwarded message comes back with the same route and at least as far. *)
LEMMA AwaitedMessage ==
  ASSUME NEW cs, CallsInv(cs), Lineage(cs), Awaited(cs), NEW c \in DOMAIN cs,
         cs[c].pc \in {"wait", "retry"}, ~Within(cs[c])
  PROVE  LET s == cs[cs[c].sub]
         IN  /\ cs[c].sub \in DOMAIN cs /\ s.from = c /\ s.slot = cs[c].step
             /\ s.pay.route = cs[c].pay.route /\ cs[c].pay.counter <= s.pay.counter
             /\ s.at # 0 => s.at = cs[c].at + 1
<1> DEFINE s == cs[cs[c].sub]
<1>1. cs[c].sub \in DOMAIN cs /\ c # Client
  BY CallParts DEF Client
<1>2. s.from = c /\ s.slot = cs[c].step
  BY DEF Awaited
<1>3. MadeFor(cs[c], s)
  BY <1>1, <1>2 DEF Lineage
<1>4. cs[c].at # 0 /\ ~(s.slot <= Len(HopOf(cs[c]).steps))
  BY <1>2, <1>3 DEF MadeFor, Within
<1>5. /\ s.pay.route = cs[c].pay.route /\ cs[c].at <= s.pay.counter
      /\ s.at # 0 => s.at = cs[c].at + 1
  BY <1>3, <1>4 DEF MadeFor
<1>6. cs[c].pay.counter = cs[c].at
  BY CallParts, ForwardedMessage
<1> QED
  BY <1>1, <1>2, <1>5, <1>6

(* Every step lets every message grow. *)
LEMMA EveryCallGrows ==
  ASSUME NEW cs, NEW ds, CallsInv(cs), CallsInv(ds), Changed(cs, ds),
         Lineage(cs), Awaited(cs), NEW c \in DOMAIN cs
  PROVE  Grows(cs[c], ds[c])
<1> DEFINE x == cs[c]
           y == ds[c]
           s == cs[cs[c].sub]
<1>1. Alone(x, y, s) \/ Asks(x, y, Len(cs) + 1)
  BY ChangedOne
<1>2. x \in Calls /\ x.pay \in Payloads /\ x.pay.counter \in Nat
  BY CallParts
<1>3. Relays(x, y, s) => y.pay.route = x.pay.route /\ x.pay.counter <= y.pay.counter
  BY AwaitedMessage DEF Relays
<1> SUFFICES Grows(x, y)
  OBVIOUS
<1> HIDE DEF x, y, s
<1>4. x.pay.counter <= x.pay.counter
  BY <1>2
<1>5. Marked(x).route = x.pay.route /\ Marked(x).counter = x.pay.counter + 1
  BY <1>2, MarkedFields
<1>6. x.pay.counter <= Marked(x).counter
  BY <1>2, <1>5
<1>7. CASE Rests(x, y)
  BY <1>4, <1>7 DEF Rests, Grows
<1>8. CASE Begins(x, y)
  BY <1>4, <1>8 DEF Begins, Grows
<1>9. CASE StepsOn(x, y, s)
  BY <1>4, <1>9 DEF StepsOn, Passes, Heeds, Grows
<1>10. CASE Sleeps(x, y, s)
  BY <1>4, <1>10 DEF Sleeps, Grows
<1>11. CASE Ends(x, y, s)
  BY <1>3, <1>4, <1>5, <1>6, <1>11 DEF Ends, Refuses, Loses, Fails, Refers, Earns, Relays, Grows, Live
<1>12. CASE Asks(x, y, Len(cs) + 1)
  BY <1>4, <1>5, <1>6, <1>12 DEF Asks, Grows
<1> QED
  BY <1>1, <1>7, <1>8, <1>9, <1>10, <1>11, <1>12 DEF Alone

(* Every handler advances. *)
LEMMA EveryCallAdvances ==
  ASSUME NEW x \in Calls, NEW y, NEW s, NEW j, Placed(x),
         Alone(x, y, s) \/ Asks(x, y, j)
  PROVE  Advances(x, y)
<1>1. x.step \in Nat /\ x.step <= x.step /\ x.step <= x.step + 1
  BY DEF Calls
<1>2. CASE Begins(x, y)
  BY <1>2 DEF Begins, Placed, Advances
<1>3. CASE StepsOn(x, y, s)
  BY <1>1, <1>3 DEF StepsOn, Advances
<1>4. CASE InPlace(x, y)
  BY <1>1, <1>4 DEF InPlace, Advances
<1> QED
  BY <1>2, <1>3, <1>4 DEF Alone, Rests, Sleeps, Ends, Asks

-----------------------------------------------------------------------------
(* History is inductive.                                                   *)

(* A call that was there before the step, or the one the step has made. *)
LEMMA OldOrNew ==
  ASSUME NEW cs, NEW ds, CallsInv(cs), CallsInv(ds), Changed(cs, ds),
         NEW d \in DOMAIN ds, d \notin DOMAIN cs
  PROVE  /\ d = Len(cs) + 1 /\ Len(ds) = Len(cs) + 1 /\ New(ds[d])
         /\ \/ MadeByClient(ds[d])
            \/ /\ ds[d].from \in DOMAIN cs
               /\ Asks(cs[ds[d].from], ds[ds[d].from], d)
               /\ MadeBy(cs[ds[d].from], ds[ds[d].from], ds[d])
<1>1. /\ DOMAIN cs = 1 .. Len(cs) /\ Len(cs) \in Nat /\ DOMAIN ds = 1 .. Len(ds) /\ Len(ds) \in Nat
  BY DEF CallsInv
<1>2. Len(ds) \in {Len(cs), Len(cs) + 1}
  BY DEF Changed
<1>3. \A m, n \in Nat : n \in {m, m + 1} =>
        \A i \in 1 .. n : i \notin 1 .. m => i = n /\ n = m + 1
  OBVIOUS
<1>4. d = Len(ds) /\ Len(ds) = Len(cs) + 1
  BY <1>1, <1>2, <1>3
<1> QED
  BY <1>4 DEF Changed

(* A handler keeps its place on the route, also when the call is over. *)
LEMMA PlacedKept ==
  ASSUME NEW x \in Calls, NEW y \in Calls, NEW s, NEW j, Placed(x), CallInv(y),
         Fixed(x, y), Alone(x, y, s) \/ Asks(x, y, j), Grows(x, y)
  PROVE  Placed(y)
<1>1. y.at \in Nat /\ x.at \in Nat /\ y.tries \in Nat /\ x.tries \in Nat
  BY DEF Calls
<1>2. y.pc = "sent" => Rests(x, y)
  BY DEF Alone, Begins, StepsOn, Sleeps, Ends, Asks
<1>3. y.pc = "done" => InPlace(x, y)
  BY DEF Alone, Begins, StepsOn, Sleeps, Ends, Asks, Rests
<1>4. y.pc = "sent" => y.at = 0
  BY <1>2 DEF Rests, InPlace, Placed
<1>5. IF y.at = 0 THEN y.step = 0
      ELSE /\ y.at \in 1 .. Len(Hops[y.pay.route])
           /\ HopOf(y).id = IdOf[y.node]
           /\ y.step \in 1 .. Len(HopOf(y).steps) + 1
  <2>1. CASE y.pc \in Live
    <3>1. AtItsHop(y)
      BY <2>1 DEF CallInv
    <3>2. y.at # 0
      BY <3>1, HopTypes DEF AtItsHop
    <3> QED
      BY <3>1, <3>2 DEF AtItsHop, HopOf
  <2>2. CASE y.pc \in {"sent", "done"}
    <3>1. InPlace(x, y)
      BY <1>2, <1>3, <2>2 DEF Rests
    <3> QED
      BY <3>1 DEF InPlace, Placed, HopOf, Grows, Fixed
  <2> QED
    BY <2>1, <2>2 DEF Calls, Live
<1>6. y.pc \in {"sent", "work"} => y.tries = 0
  BY DEF Alone, Rests, Begins, StepsOn, Passes, Heeds, Sleeps, Ends, Asks, Placed
<1>7. y.pc = "retry" => LangOf[y.node] = "go" /\ y.tries < GoMaxAttempts
  BY DEF Alone, Rests, Begins, StepsOn, Sleeps, Ends, Asks, Placed, Fixed
<1>8. y.pc \in Live => y.tries <= GoMaxAttempts
  <2>1. CASE Asks(x, y, j)
    <3>1. x.tries < GoMaxAttempts
      BY <2>1 DEF Asks, Placed, GoMaxAttempts
    <3> QED
      BY <1>1, <2>1, <3>1 DEF Asks, GoMaxAttempts
  <2>2. CASE y.tries = 0
    BY <2>2 DEF GoMaxAttempts
  <2>3. CASE Rests(x, y) \/ Sleeps(x, y, s)
    BY <2>3 DEF Rests, Sleeps, Placed, Live
  <2>4. CASE Begins(x, y) \/ (StepsOn(x, y, s) /\ Passes(x, y))
    BY <2>2, <2>4 DEF Begins, Passes, Placed
  <2> QED
    BY <2>1, <2>2, <2>3, <2>4 DEF Alone, StepsOn, Heeds, Ends, Live
<1>9. y.result = "400" /\ LangOf[y.node] = "py" => y.at = 0
  <2>1. CASE Ends(x, y, s)
    BY <2>1 DEF Ends, InPlace, Refuses, Loses, Fails, Refers, Earns, Relays, Faults, Placed, Fixed
  <2>2. CASE y.result = x.result /\ InPlace(x, y)
    BY <2>2 DEF InPlace, Placed, Fixed
  <2>3. CASE y.pc \in Live
    BY <2>3 DEF CallInv, Live
  <2> QED
    BY <2>1, <2>2, <2>3 DEF Alone, Rests, Begins, StepsOn, Sleeps, Asks, Live
<1> QED
  BY <1>4, <1>5, <1>6, <1>7, <1>8, <1>9 DEF Placed

(* A call that has just been made is nowhere yet. *)
LEMMA NewPlaced ==
  ASSUME NEW z, New(z)
  PROVE  Placed(z)
BY DEF New, Placed, GoMaxAttempts

(* The bond between a call and the step it was made for survives whatever both of them do. *)
LEMMA MadeForKept ==
  ASSUME NEW x \in Calls, NEW y \in Calls, NEW z \in Calls, NEW w \in Calls,
         MadeFor(x, z), CallInv(z), Advances(x, y), Grows(x, y), Grows(z, w),
         Fixed(z, w), Placed(x), Placed(z),
         NEW s, NEW j, Alone(x, y, s) \/ Asks(x, y, j),
         NEW t, NEW i, Alone(z, w, t) \/ Asks(z, w, i)
  PROVE  MadeFor(y, w)
<1>1. /\ x.step \in Nat /\ y.step \in Nat /\ z.slot \in Nat /\ x.at \in Nat
      /\ z.pay \in Payloads /\ z.pay.counter \in Nat /\ w.pay.counter \in Nat
      /\ z.pay.route \in Routes
  BY DEF Calls, Payloads
<1>2. x.at # 0 /\ y.at = x.at /\ x.step <= y.step /\ HopOf(y) = HopOf(x) /\ w.slot = z.slot
  BY DEF MadeFor, Advances, Grows, HopOf, Fixed
<1>3. w.slot \in 1 .. y.step
  <2>1. z.slot \in 1 .. x.step
    BY DEF MadeFor
  <2>2. \A a, b, m \in Nat : a \in 1 .. b /\ b <= m => a \in 1 .. m
    OBVIOUS
  <2> QED
    BY <1>1, <1>2, <2>1, <2>2
<1>4. y.pc = "work" => w.slot < y.step
  <2>1. CASE Rests(x, y)
    BY <1>2, <2>1 DEF Rests, InPlace, MadeFor
  <2>2. CASE StepsOn(x, y, s)
    <3>1. \A a, b \in Nat : a \in 1 .. b => a < b + 1
      OBVIOUS
    <3>2. z.slot < x.step + 1
      BY <1>1, <3>1 DEF MadeFor
    <3> QED
      BY <1>2, <2>2, <3>2 DEF StepsOn
  <2>3. ~Begins(x, y)
    BY <1>2 DEF Begins, Placed
  <2> QED
    BY <2>1, <2>2, <2>3 DEF Alone, Sleeps, Ends, Asks
<1>5. w.pay.route = z.pay.route
  BY DEF Grows
<1>6. CASE w.slot <= Len(HopOf(y).steps)
  <2>1. w.pay.route = HopOf(y).steps[w.slot]
    BY <1>2, <1>5, <1>6 DEF MadeFor
  <2> QED
    BY <1>2, <1>3, <1>4, <1>6, <2>1 DEF MadeFor
<1>7. CASE ~(w.slot <= Len(HopOf(y).steps))
  <2>1. /\ z.pay.route = x.pay.route /\ x.at <= z.pay.counter
        /\ z.at # 0 => z.at = x.at + 1
        /\ z.pc = "sent" => z.pay.counter = x.at
    BY <1>2, <1>7 DEF MadeFor
  <2>2. w.pay.route = y.pay.route
    BY <1>5, <2>1 DEF Grows
  <2>3. y.at <= w.pay.counter
    <3>1. z.pay.counter <= w.pay.counter
      BY DEF Grows
    <3> QED
      BY <1>1, <1>2, <2>1, <3>1
  <2>4. w.at # 0 => w.at = y.at + 1
    <3>1. CASE InPlace(z, w) \/ StepsOn(z, w, t)
      BY <1>2, <2>1, <3>1 DEF InPlace, StepsOn
    <3>2. CASE Begins(z, w)
      <4>1. z.pay.counter = x.at /\ w.at = FirstUnvisited(z.pay) /\ ~Complete(z.pay)
        BY <2>1, <3>2, HopTypes, AdmitsMeans DEF Begins
      <4>2. PICK k \in Nat : Through(z.pay, k)
        BY DEF CallInv
      <4>3. k = x.at
        BY <4>1, <4>2 DEF Through
      <4>4. FirstUnvisited(z.pay) = k + 1
        BY <1>1, <4>1, <4>2, NextSegment
      <4> QED
        BY <1>2, <4>1, <4>3, <4>4
    <3> QED
      BY <3>1, <3>2 DEF Alone, Rests, Sleeps, Ends, Asks
  <2>5. w.pc = "sent" => w.pay.counter = y.at
    <3>1. w.pc = "sent" => Rests(z, w)
      BY DEF Alone, Begins, StepsOn, Sleeps, Ends, Asks
    <3> QED
      BY <1>2, <2>1, <3>1 DEF Rests
  <2> QED
    BY <1>2, <1>3, <1>4, <1>7, <2>2, <2>3, <2>4, <2>5 DEF MadeFor
<1> QED
  BY <1>6, <1>7

(* Every step keeps the calls on their places and bound to their callers. *)
LEMMA LineageKept ==
  ASSUME NEW cs, NEW ds, CallsInv(cs), CallsInv(ds), Changed(cs, ds), History(cs)
  PROVE  Lineage(ds)
<1> USE DEF History
<1> SUFFICES ASSUME NEW d \in DOMAIN ds, ds[d].from # Client
             PROVE  /\ ds[d].from \in DOMAIN ds
                    /\ MadeFor(ds[ds[d].from], ds[d])
                    /\ ds[ds[d].from].pc \in {"wait", "retry"} /\ ds[d].slot = ds[ds[d].from].step =>
                         d <= ds[ds[d].from].sub
  BY DEF Lineage
<1> DEFINE c == ds[d].from
<1>1. CASE d \in DOMAIN cs
  <2> DEFINE x == cs[c]
             y == ds[c]
             z == cs[d]
             w == ds[d]
             s == cs[x.sub]
             t == cs[z.sub]
             j == Len(cs) + 1
  <2>1. /\ Fixed(z, w) /\ (Alone(z, w, t) \/ Asks(z, w, j))
        /\ Grows(z, w) /\ z \in Calls /\ w \in Calls /\ CallInv(z)
    BY <1>1, ChangedOne, EveryCallGrows, CallParts
  <2>2. c = z.from
    BY <2>1 DEF Fixed
  <2>3. /\ c \in DOMAIN cs /\ MadeFor(x, z)
        /\ x.pc \in {"wait", "retry"} /\ z.slot = x.step => d <= x.sub
    BY <1>1, <2>2 DEF Lineage
  <2>4. /\ c \in DOMAIN ds /\ Fixed(x, y) /\ (Alone(x, y, s) \/ Asks(x, y, j))
        /\ Grows(x, y) /\ x \in Calls /\ y \in Calls /\ Placed(x) /\ Placed(z)
    BY <1>1, <2>3, ChangedOne, EveryCallGrows, CallParts
  <2>5. /\ d <= j /\ z.slot = w.slot /\ z.slot \in Nat /\ x.step \in Nat
    <3>1. d \in 1 .. Len(cs) /\ Len(cs) \in Nat
      BY <1>1, CallParts
    <3>2. d <= j
      BY <3>1
    <3>3. z.slot \in Nat /\ x.step \in Nat
      BY <1>1, <2>3, CallParts
    <3>4. w.slot = z.slot
      BY <2>1 DEF Fixed
    <3> QED
      BY <3>2, <3>3, <3>4
  <2> HIDE DEF x, y, z, w, s, t, j
  <2>6. Advances(x, y)
    BY <2>4, EveryCallAdvances
  <2>7. MadeFor(y, w)
    BY <2>1, <2>3, <2>4, <2>6, MadeForKept
  <2>8. ASSUME y.pc \in {"wait", "retry"}, w.slot = y.step
        PROVE  d <= y.sub
    <3>1. CASE Asks(x, y, j)
      BY <2>5, <3>1 DEF Asks
    <3>2. CASE Rests(x, y) \/ Sleeps(x, y, s)
      BY <2>3, <2>5, <2>8, <3>2 DEF Rests, Sleeps, InPlace
    <3> QED
      BY <2>4, <2>8, <3>1, <3>2 DEF Alone, Begins, StepsOn, Ends
  <2> QED
    BY <2>4, <2>7, <2>8 DEF y, w
<1>2. CASE d \notin DOMAIN cs
  <2> DEFINE x == cs[c]
             y == ds[c]
             z == ds[d]
  <2>1. New(z) /\ c \in DOMAIN cs /\ Asks(x, y, d) /\ MadeBy(x, y, z)
    BY <1>2, OldOrNew DEF MadeByClient
  <2>2. c \in DOMAIN ds /\ Grows(x, y) /\ y \in Calls /\ CallInv(y) /\ d \in Nat
    BY <2>1, ChangedOne, EveryCallGrows, CallParts
  <2> HIDE DEF c, x, y, z
  <2>3. y.pc = "wait" /\ y.sub = d /\ InPlace(x, y) /\ HopOf(y) = HopOf(x)
    BY <2>1, <2>2 DEF Asks, Grows, HopOf, InPlace
  <2>4. AtItsHop(y)
    BY <2>2, <2>3 DEF CallInv, Live
  <2>5. y.at \in Nat /\ y.at # 0 /\ y.step \in Nat /\ y.step >= 1
    BY <2>2, <2>4, HopTypes DEF AtItsHop
  <2>6. z.slot = y.step /\ z.at = 0
    BY <2>1, <2>3 DEF MadeBy, InPlace, New
  <2>7. z.slot \in 1 .. y.step
    BY <2>5, <2>6
  <2>8. CASE Within(y)
    <3>1. Within(x) /\ StepOf(x) = StepOf(y)
      BY <2>3, <2>8 DEF Within, StepOf, InPlace
    <3>2. z.pay.route = HopOf(y).steps[z.slot]
      BY <2>1, <2>6, <3>1 DEF MadeBy, Fresh, StepOf
    <3>3. MadeFor(y, z)
      BY <2>3, <2>5, <2>6, <2>7, <2>8, <3>2 DEF MadeFor, Within
    <3> QED
      BY <2>2, <2>3, <3>3 DEF c, y, z
  <2>9. CASE ~Within(y)
    <3>1. ~Within(x)
      BY <2>3, <2>9 DEF Within, InPlace
    <3>2. z.pay = y.pay /\ y.pay.counter = y.at
      BY <2>1, <2>2, <2>3, <2>9, <3>1, ForwardedMessage DEF MadeBy
    <3>3. MadeFor(y, z)
      BY <2>3, <2>5, <2>6, <2>7, <2>9, <3>2 DEF MadeFor, Within
    <3> QED
      BY <2>2, <2>3, <3>3 DEF c, y, z
  <2> QED
    BY <2>8, <2>9
<1> QED
  BY <1>1, <1>2

(* What a handler waits for is a call of its own, before and after the step. *)
LEMMA AwaitedKept ==
  ASSUME NEW cs, NEW ds, CallsInv(cs), CallsInv(ds), Changed(cs, ds), History(cs)
  PROVE  Awaited(ds)
<1> USE DEF History
<1> SUFFICES ASSUME NEW c \in DOMAIN ds, ds[c].pc \in {"wait", "retry"}
             PROVE  /\ ds[ds[c].sub].from = c /\ ds[ds[c].sub].slot = ds[c].step
                    /\ ds[c].pc = "retry" => GoTransient(ds[ds[c].sub].result)
  BY DEF Awaited
<1>1. c \in DOMAIN cs
  BY OldOrNew DEF New
<1> DEFINE x == cs[c]
           y == ds[c]
           s == cs[x.sub]
           j == Len(cs) + 1
<1>2. /\ Alone(x, y, s) \/ (Asks(x, y, j) /\ Len(ds) = j /\ ds[j].from = c)
      /\ c \in Nat /\ c # Client
  BY <1>1, CallParts DEF Changed, Client
<1>3. CASE Rests(x, y) \/ Sleeps(x, y, s)
  <2>1. x.pc \in {"wait", "retry"} /\ y.sub = x.sub /\ y.step = x.step
    BY <1>3 DEF Rests, Sleeps, InPlace
  <2>2. x.sub \in DOMAIN cs /\ s.from = c /\ s.slot = x.step
        /\ (x.pc = "retry" => GoTransient(s.result))
    BY <1>1, <2>1, CallParts DEF Awaited
  <2>3. Fixed(s, ds[x.sub]) /\ Grows(s, ds[x.sub]) /\ (s.pc = "done" <=> s.result # "none")
    BY <2>2, ChangedOne, EveryCallGrows, CallParts
  <2>4. y.pc = "retry" => GoTransient(s.result)
    BY <1>3, <2>2 DEF Rests, Sleeps
  <2>5. GoTransient(s.result) => ds[x.sub].result = s.result
    BY <2>3 DEF GoTransient, Grows
  <2> QED
    BY <2>1, <2>2, <2>3, <2>4, <2>5 DEF Fixed
<1>4. CASE Asks(x, y, j) /\ Len(ds) = j /\ ds[j].from = c
  <2>1. j \in DOMAIN ds /\ j \notin DOMAIN cs
    BY <1>1, <1>4, CallParts
  <2>2. MadeBy(x, y, ds[j])
    BY <1>2, <1>4, <2>1, OldOrNew DEF MadeByClient
  <2> QED
    BY <1>4, <2>2 DEF Asks, MadeBy, InPlace
<1> QED
  BY <1>2, <1>3, <1>4 DEF Alone, Begins, StepsOn, Ends

(* History is inductive. *)
LEMMA HistoryKept ==
  ASSUME NEW cs, NEW ds, CallsInv(cs), CallsInv(ds), Changed(cs, ds), History(cs)
  PROVE  History(ds)
<1>1. ASSUME NEW d \in DOMAIN ds PROVE Placed(ds[d])
  <2>1. CASE d \in DOMAIN cs
    <3>1. Fixed(cs[d], ds[d]) /\ (Alone(cs[d], ds[d], cs[cs[d].sub]) \/ Asks(cs[d], ds[d], Len(cs) + 1))
      BY <2>1, ChangedOne
    <3>2. Grows(cs[d], ds[d]) /\ cs[d] \in Calls /\ Placed(cs[d])
      BY <2>1, EveryCallGrows, CallParts DEF History
    <3>3. ds[d] \in Calls /\ CallInv(ds[d])
      BY CallParts
    <3> QED
      BY <3>1, <3>2, <3>3, PlacedKept
  <2>2. CASE d \notin DOMAIN cs
    BY <2>2, OldOrNew, NewPlaced
  <2> QED
    BY <2>1, <2>2
<1> QED
  BY <1>1, LineageKept, AwaitedKept DEF History

(* From the first state on, every call has a place, a caller and a step it was made for. *)
LEMMA HistoryHolds == Spec => [](IInv /\ History(call))
<1>1. Init => History(call)
  BY DEF Init, History, Lineage, Awaited
<1>2. IInv /\ (IInv)' /\ History(call) /\ [Next]_vars => (History(call))'
  <2> SUFFICES ASSUME IInv, (IInv)', History(call), [Next]_vars PROVE History(call')
    OBVIOUS
  <2>1. CallsInv(call) /\ CallsInv(call')
    BY DEF IInv
  <2> QED
    BY <2>1, EveryStepIsChanged, HistoryKept
<1> QED
  BY <1>1, <1>2, Invariant, PTL DEF Spec

-----------------------------------------------------------------------------
(* The theorems about single steps and about bad requests.                 *)

(* Of two messages on the same route the one that has been further continues the other's log. *)
LEMMA LogsArePrefixes ==
  ASSUME NEW p \in Payloads, NEW q \in Payloads, q.route = p.route, p.counter <= q.counter,
         NEW k \in Nat, Through(p, k), NEW m \in Nat, Through(q, m)
  PROVE  IsPrefix(p.log, q.log)
<1>1. k <= m
  BY DEF Through
<1>2. /\ p.log = [i \in 1 .. k |-> Hops[p.route][i].id]
      /\ q.log = [i \in 1 .. m |-> Hops[p.route][i].id]
  BY Zenon DEF Through
<1>3. p.log \in Seq(Ids) /\ q.log \in Seq(Ids)
  BY DEF Payloads
<1>4. Len(p.log) = k /\ Len(q.log) = m
  BY <1>2, <1>3
<1>5. \A i \in 1 .. k : p.log[i] = q.log[i]
  BY <1>1, <1>2
<1>6. SubSeq(p.log, 1, k) = SubSeq(q.log, 1, k)
  BY <1>1, <1>3, <1>4, <1>5
<1> QED
  BY <1>1, <1>4, <1>6 DEF IsPrefix

(* The visit_log of a message never shrinks or changes and the result of a call is final,
   whatever answers come late and whichever workers die. *)
THEOREM HistoryIsFinal == Spec => NothingIsRewritten
<1> DEFINE Final ==
      \A c \in DOMAIN call :
        /\ IsPrefix(call[c].pay.log, call'[c].pay.log)
        /\ Answered(c) => call'[c].result = call[c].result /\ call'[c].pay = call[c].pay
<1>1. IInv /\ (IInv)' /\ History(call) /\ [Next]_vars => Final
  <2> SUFFICES ASSUME IInv, (IInv)', History(call), [Next]_vars, NEW c \in DOMAIN call
               PROVE  /\ IsPrefix(call[c].pay.log, call'[c].pay.log)
                      /\ Answered(c) => call'[c].result = call[c].result /\ call'[c].pay = call[c].pay
    OBVIOUS
  <2>1. CallsInv(call) /\ CallsInv(call') /\ Changed(call, call')
    BY EveryStepIsChanged DEF IInv
  <2>2. Grows(call[c], call'[c]) /\ c \in DOMAIN call'
    BY <2>1, EveryCallGrows, ChangedOne DEF History
  <2>3. /\ call[c].pay \in Payloads /\ CallInv(call[c])
        /\ call[c].pc = "done" <=> call[c].result # "none"
    BY <2>1, CallParts
  <2>4. call'[c].pay \in Payloads /\ CallInv(call'[c])
    BY <2>1, <2>2, CallParts
  <2>5. IsPrefix(call[c].pay.log, call'[c].pay.log)
    BY <2>2, <2>3, <2>4, LogsArePrefixes DEF CallInv, Grows
  <2> QED
    BY <2>2, <2>3, <2>5 DEF Grows, Answered
<1>2. IInv /\ (IInv)' /\ History(call) /\ [Next]_vars => [Final]_vars
  BY <1>1
<1>3. Spec => [][Final]_vars
  BY <1>2, HistoryHolds, PTL DEF Spec
<1> QED
  BY <1>3 DEF NothingIsRewritten

(* A client of a python worker that is told 400 sent a message nobody has worked on: a
   handler that has begun answers no such client with 400 and a call that has not begun has
   made no other. *)
THEOREM RefusedIsUntouched == Spec => []BadRequestMeansUntouched
<1>1. IInv /\ History(call) => BadRequestMeansUntouched
  <2> SUFFICES ASSUME IInv, History(call), NEW c \in DOMAIN call,
                      Lang(c) = "py", call[c].result = "400"
               PROVE  call[c].at = 0 /\ \A d \in DOMAIN call : call[d].from # c
    BY DEF BadRequestMeansUntouched
  <2>1. call[c].at = 0
    BY DEF History, Placed, Lang
  <2>2. c # Client
    BY CallParts DEF IInv, Client
  <2>3. ASSUME NEW d \in DOMAIN call, call[d].from = c PROVE FALSE
    BY <2>1, <2>2, <2>3 DEF History, Lineage, MadeFor
  <2> QED
    BY <2>1, <2>3
<1> QED
  BY <1>1, HistoryHolds, PTL

-----------------------------------------------------------------------------
(* A 200 is earned.                                                        *)

(* A call that has answered 200 keeps everything Earned says of it. *)
LEMMA AnsweredKept ==
  ASSUME NEW cs, NEW ds, CallsInv(cs), CallsInv(ds), Changed(cs, ds), History(cs),
         NEW c \in DOMAIN cs, cs[c].result # "none"
  PROVE  /\ c \in DOMAIN ds /\ Fixed(cs[c], ds[c]) /\ Rests(cs[c], ds[c])
<1> DEFINE x == cs[c]
           y == ds[c]
           s == cs[cs[c].sub]
           j == Len(cs) + 1
<1>1. /\ c \in DOMAIN ds /\ Fixed(x, y)
      /\ Alone(x, y, s) \/ Asks(x, y, j)
      /\ x.pc = "done"
  BY ChangedOne, CallParts
<1> SUFFICES Rests(x, y)
  BY <1>1
<1> HIDE DEF x, y, s, j
<1> QED
  BY <1>1 DEF Alone, Begins, StepsOn, Passes, Heeds, Sleeps, Ends, Refuses, Loses, Fails, Refers,
              Earns, Relays, Asks, Live

(* A new 200 is earned if the ones before it were. *)
LEMMA EarnedKept ==
  ASSUME NEW cs, NEW ds, CallsInv(cs), CallsInv(ds), Changed(cs, ds), History(cs), Earned(cs)
  PROVE  Earned(ds)
<1> SUFFICES ASSUME NEW c \in DOMAIN ds, ds[c].result = "200"
             PROVE  /\ Complete(ds[c].pay) /\ ds[c].at # 0 /\ ~Within(ds[c])
                    /\ \/ ds[c].at = Len(Hops[ds[c].pay.route])
                       \/ LET d == ds[ds[c].sub]
                          IN  /\ ds[c].sub \in DOMAIN ds
                              /\ d.from = c /\ d.slot = ds[c].step /\ d.at = ds[c].at + 1
                              /\ d.result = "200" /\ d.pay = ds[c].pay
  BY DEF Earned
<1>1. c \in DOMAIN cs
  BY OldOrNew DEF New
<1> DEFINE x == cs[c]
           y == ds[c]
           s == cs[x.sub]
           j == Len(cs) + 1
<1>2. /\ Alone(x, y, s) \/ Asks(x, y, j)
      /\ x \in Calls /\ CallInv(x) /\ y \in Calls /\ CallInv(y) /\ Placed(x)
  BY <1>1, ChangedOne, CallParts DEF History
<1>3. ASSUME x.result = "200"
      PROVE  Rests(x, y) /\ Earned(cs)
  BY <1>1, <1>3, AnsweredKept
<1>4. ASSUME x.sub \in DOMAIN cs, s.result = "200"
      PROVE  x.sub \in DOMAIN ds /\ Fixed(s, ds[x.sub]) /\ Rests(s, ds[x.sub])
  BY <1>4, AnsweredKept
<1>5. CASE x.result = "200"
  <2>1. Rests(x, y)
    BY <1>3, <1>5
  <2>2. /\ y.pay = x.pay /\ y.at = x.at /\ y.step = x.step /\ y.sub = x.sub
    BY <2>1 DEF Rests, InPlace
  <2>3. Complete(y.pay) /\ y.at # 0 /\ ~Within(y)
    BY <1>1, <1>5, <2>2 DEF Earned, Within, HopOf
  <2>4. CASE x.at = Len(Hops[x.pay.route])
    BY <2>2, <2>3, <2>4
  <2>5. CASE /\ x.sub \in DOMAIN cs
             /\ s.from = c /\ s.slot = x.step /\ s.at = x.at + 1
             /\ s.result = "200" /\ s.pay = x.pay
    <3>1. x.sub \in DOMAIN ds /\ Fixed(s, ds[x.sub]) /\ Rests(s, ds[x.sub])
      BY <1>4, <2>5
    <3> QED
      BY <2>2, <2>3, <2>5, <3>1 DEF Fixed, Rests, InPlace
  <2> QED
    BY <1>1, <1>5, <2>4, <2>5 DEF Earned
<1>6. CASE Earns(x, y) /\ InPlace(x, y)
  <2>1. x.pc = "work" /\ ~Within(x) /\ Complete(Marked(x)) /\ y.pay = Marked(x)
    BY <1>6 DEF Earns
  <2>2. Marked(x) \in Payloads /\ x.at \in Nat /\ Through(Marked(x), x.at)
    BY <1>2, <2>1, MarkedInv DEF Within, HopOf, Marked
  <2>3. x.at = Len(Hops[y.pay.route])
    BY <2>1, <2>2, NextSegment
  <2>4. x.at # 0
    BY <1>2, <2>1, LiveIsPlaced DEF Live
  <2>5. y.pay.route = x.pay.route
    BY <1>2, <2>1, MarkedFields
  <2>6. y.at = x.at /\ ~Within(y)
    BY <1>6, <2>1, <2>5 DEF InPlace, Within, HopOf
  <2> QED
    BY <2>1, <2>3, <2>4, <2>6
<1>7. CASE Relays(x, y, s) /\ InPlace(x, y) /\ y.sub = x.sub
  <2>1. x.pc = "wait" /\ ~Within(x) /\ s.result = "200" /\ y.pay = s.pay
    BY <1>7 DEF Relays
  <2>2. /\ x.sub \in DOMAIN cs /\ s.from = c /\ s.slot = x.step
        /\ s.pay.route = x.pay.route /\ (s.at # 0 => s.at = x.at + 1)
    BY <1>1, <2>1, AwaitedMessage DEF History
  <2>3. Complete(s.pay) /\ s.at # 0
    BY <2>1, <2>2 DEF Earned
  <2>4. x.sub \in DOMAIN ds /\ Fixed(s, ds[x.sub]) /\ Rests(s, ds[x.sub])
    BY <1>4, <2>1, <2>2
  <2>5. x.at # 0
    BY <1>2, <2>1, LiveIsPlaced DEF Live
  <2>6. y.at = x.at /\ y.step = x.step /\ y.at # 0 /\ ~Within(y)
    BY <1>7, <2>1, <2>2, <2>5 DEF InPlace, Within, HopOf
  <2> QED
    BY <1>7, <2>1, <2>2, <2>3, <2>4, <2>6 DEF Fixed, Rests, InPlace
<1>8. x.result = "200" \/ (Ends(x, y, s) /\ (Earns(x, y) \/ Relays(x, y, s)))
  <2>1. y.pc = "done"
    BY <1>2 DEF CallInv
  <2>2. y.result = "200"
    OBVIOUS
  <2> HIDE DEF x, y, s, j
  <2> QED
    BY <1>2, <2>1, <2>2 DEF Alone, Rests, Begins, StepsOn, Sleeps, Asks, Ends, Refuses, Loses, Faults, Fails, Refers
<1> QED
  BY <1>5, <1>6, <1>7, <1>8 DEF Ends

(* A 200 comes from the last segment of the route, or is the 200, with the same body, of the call
   that took the message one segment further. *)
THEOREM EveryOkIsEarned == Spec => []OkIsEarned
<1>1. Init => Earned(call)
  BY DEF Init, Earned
<1>2. IInv /\ (IInv)' /\ History(call) /\ Earned(call) /\ [Next]_vars => (Earned(call))'
  <2> SUFFICES ASSUME IInv, (IInv)', History(call), Earned(call), [Next]_vars PROVE Earned(call')
    OBVIOUS
  <2>1. CallsInv(call) /\ CallsInv(call') /\ Changed(call, call')
    BY EveryStepIsChanged DEF IInv
  <2> QED
    BY <2>1, EarnedKept
<1>3. Earned(call) => OkIsEarned
  BY DEF Earned, OkIsEarned
<1> QED
  BY <1>1, <1>2, <1>3, HistoryHolds, PTL DEF Spec

-----------------------------------------------------------------------------
(* Nested pipelines come first.                                            *)

(* A step that is left behind has had its sub-pipeline answered, and the answer stays. *)
LEMMA NestedDoneKept ==
  ASSUME NEW cs, NEW ds, CallsInv(cs), CallsInv(ds), Changed(cs, ds), History(cs), NestedDone(cs)
  PROVE  NestedDone(ds)
<1> SUFFICES ASSUME NEW c \in DOMAIN ds, ds[c].at # 0, NEW k \in DOMAIN HopOf(ds[c]).steps,
                    k < ds[c].step, StepIsNested(LangOf[ds[c].node], HopOf(ds[c]).steps[k])
             PROVE  \E d \in DOMAIN ds :
                      /\ ds[d].from = c /\ ds[d].slot = k
                      /\ ds[d].pay.route = HopOf(ds[c]).steps[k] /\ ds[d].result = "200"
  BY DEF NestedDone
<1>1. c \in DOMAIN cs
  BY OldOrNew DEF New
<1> DEFINE x == cs[c]
           y == ds[c]
           s == cs[x.sub]
           j == Len(cs) + 1
<1>2. /\ Alone(x, y, s) \/ Asks(x, y, j)
      /\ x \in Calls /\ CallInv(x) /\ Placed(x) /\ Grows(x, y) /\ Fixed(x, y)
      /\ y \in Calls /\ CallInv(y)
  BY <1>1, ChangedOne, CallParts, EveryCallGrows DEF History
<1>3. Placed(y)
  <2> HIDE DEF x, y, s, j
  <2> QED
    BY <1>2, PlacedKept
<1>4. k \in Nat /\ k >= 1 /\ k <= Len(HopOf(y).steps) /\ x.step \in Nat
  <2>1. Len(HopOf(y).steps) \in Nat /\ HopOf(y).steps \in Seq(Steps)
    BY <1>2, <1>3, HopTypes DEF Placed, HopOf
  <2>2. k \in 1 .. Len(HopOf(y).steps)
    BY <2>1
  <2> QED
    BY <1>1, <2>1, <2>2, CallParts
<1>5. ASSUME NEW d \in DOMAIN cs, cs[d].from = c, cs[d].slot = k,
             cs[d].pay.route = HopOf(x).steps[k], cs[d].result = "200", HopOf(y) = HopOf(x)
      PROVE  /\ d \in DOMAIN ds /\ ds[d].from = c /\ ds[d].slot = k
             /\ ds[d].pay.route = HopOf(y).steps[k] /\ ds[d].result = "200"
  <2>1. d \in DOMAIN ds /\ Fixed(cs[d], ds[d]) /\ Rests(cs[d], ds[d])
    BY <1>5, AnsweredKept
  <2> QED
    BY <1>5, <2>1 DEF Fixed, Rests
<1>6. CASE Begins(x, y)
  BY <1>4, <1>6 DEF Begins
<1>7. ASSUME y.at = x.at
      PROVE  x.at # 0 /\ HopOf(y) = HopOf(x) /\ y.node = x.node
  BY <1>2, <1>7 DEF Grows, HopOf, Fixed
<1>8. CASE y.at = x.at /\ k < x.step
  <2>1. PICK d \in DOMAIN cs :
          /\ cs[d].from = c /\ cs[d].slot = k
          /\ cs[d].pay.route = HopOf(x).steps[k] /\ cs[d].result = "200"
    BY <1>1, <1>7, <1>8 DEF NestedDone
  <2> QED
    BY <1>5, <1>7, <1>8, <2>1
<1>9. CASE StepsOn(x, y, s) /\ ~(k < x.step)
  <2>1. y.at = x.at /\ y.step = x.step + 1
    BY <1>9 DEF StepsOn
  <2>2. k = x.step
    BY <1>4, <1>9, <2>1
  <2>3. StepOf(x) = HopOf(y).steps[k]
    BY <1>7, <2>1, <2>2 DEF StepOf
  <2>4. Heeds(x, y, s)
    BY <1>7, <1>9, <2>1, <2>3 DEF StepsOn, Passes
  <2>5. x.pc = "wait" /\ s.result = "200"
    BY <2>4 DEF Heeds
  <2>6. x.sub \in DOMAIN cs /\ s.from = c /\ s.slot = k /\ c # Client
    BY <1>1, <2>2, <2>5, CallParts DEF History, Awaited, Client
  <2>7. MadeFor(x, s)
    BY <2>6 DEF History, Lineage
  <2>8. s.pay.route = HopOf(x).steps[k]
    BY <1>4, <1>7, <2>1, <2>6, <2>7 DEF MadeFor
  <2> QED
    BY <1>5, <1>7, <2>1, <2>5, <2>6, <2>8
<1>10. CASE InPlace(x, y)
  BY <1>8, <1>10 DEF InPlace
<1>11. StepsOn(x, y, s) => y.at = x.at
  BY DEF StepsOn
<1> QED
  BY <1>2, <1>6, <1>8, <1>9, <1>10, <1>11 DEF Alone, Rests, Sleeps, Ends, Asks

(* A nested_route step is only left behind by a 200 of its sub-pipeline. *)
THEOREM NestedComesFirst == Spec => []NestedFirst
<1>1. Init => NestedDone(call)
  BY DEF Init, NestedDone
<1>2. IInv /\ (IInv)' /\ History(call) /\ NestedDone(call) /\ [Next]_vars => (NestedDone(call))'
  <2> SUFFICES ASSUME IInv, (IInv)', History(call), NestedDone(call), [Next]_vars
               PROVE  NestedDone(call')
    OBVIOUS
  <2>1. CallsInv(call) /\ CallsInv(call') /\ Changed(call, call')
    BY EveryStepIsChanged DEF IInv
  <2> QED
    BY <2>1, NestedDoneKept
<1>3. NestedDone(call) => NestedFirst
  BY DEF NestedDone, NestedFirst, HopOf, Hop, Lang
<1> QED
  BY <1>1, <1>2, <1>3, HistoryHolds, PTL DEF Spec

-----------------------------------------------------------------------------
(* Visits have happened.                                                   *)

(* Who has worked through a segment keeps having done so. *)
LEMMA VisitedKept ==
  ASSUME NEW cs, NEW ds, CallsInv(cs), CallsInv(ds), Changed(cs, ds), History(cs),
         NEW p, Attested(cs, p)
  PROVE  Attested(ds, p)
<1> SUFFICES ASSUME NEW i \in p.visited
             PROVE  i # 0 /\ \E e \in DOMAIN ds : HasVisited(ds[e], p.route, i)
  BY DEF Attested
<1>1. PICK e \in DOMAIN cs : i # 0 /\ HasVisited(cs[e], p.route, i)
  BY DEF Attested
<1> DEFINE x == cs[e]
           y == ds[e]
           s == cs[x.sub]
           j == Len(cs) + 1
<1>2. /\ e \in DOMAIN ds /\ (Alone(x, y, s) \/ Asks(x, y, j))
      /\ Fixed(x, y) /\ Grows(x, y) /\ x \in Calls /\ Placed(x) /\ x.step \in Nat
      /\ y.step \in Nat
  BY ChangedOne, CallParts, EveryCallGrows DEF History
<1>3. HasVisited(x, p.route, i)
  BY <1>1
<1> SUFFICES e \in DOMAIN ds /\ HasVisited(y, p.route, i)
  BY <1>1
<1> HIDE DEF x, y, s, j
<1>4. Advances(x, y)
  BY <1>2, EveryCallAdvances
<1>5. y.at = x.at /\ HopOf(y) = HopOf(x)
  BY <1>1, <1>2, <1>3, <1>4 DEF Advances, Grows, HopOf, HasVisited
<1>6. Placed(x) /\ x.at # 0
  BY <1>1, <1>2, <1>3 DEF HasVisited
<1>7. Len(HopOf(x).steps) \in Nat
  BY <1>2, <1>6, HopTypes DEF Placed, HopOf
<1>8. ~Within(y)
  BY <1>2, <1>3, <1>4, <1>5, <1>7 DEF Within, Advances, HasVisited
<1> QED
  BY <1>2, <1>3, <1>5, <1>8 DEF HasVisited, Grows, Fixed

(* A message that is marked has its new segment worked through by the handler that marks it. *)
LEMMA MarkedAttested ==
  ASSUME NEW ds, NEW c \in DOMAIN ds, NEW x \in Calls, CallInv(x), x.pc = "work", ~Within(x),
         Attested(ds, x.pay), Fixed(x, ds[c]), InPlace(x, ds[c]), ds[c].pay = Marked(x)
  PROVE  Attested(ds, ds[c].pay)
<1> DEFINE y == ds[c]
<1>1. x.at # 0 /\ HopOf(x).id = IdOf[x.node]
  BY LiveIsPlaced DEF Live
<1>2. y.pay.route = x.pay.route /\ y.pay.visited = x.pay.visited \cup {x.at}
  BY MarkedFields
<1>3. HasVisited(y, y.pay.route, x.at)
  BY <1>1, <1>2 DEF HasVisited, InPlace, Within, HopOf, Fixed
<1> QED
  BY <1>1, <1>2, <1>3 DEF Attested

(* Every message stays attested: it is unchanged, marked, or taken over from another call. *)
LEMMA VisitsKept ==
  ASSUME NEW cs, NEW ds, CallsInv(cs), CallsInv(ds), Changed(cs, ds), History(cs), Visits(cs)
  PROVE  Visits(ds)
<1>1. ASSUME NEW c \in DOMAIN cs PROVE c \in DOMAIN ds /\ Attested(ds, ds[c].pay)
  <2> DEFINE x == cs[c]
             y == ds[c]
             s == cs[x.sub]
             j == Len(cs) + 1
  <2>1. /\ c \in DOMAIN ds /\ (Alone(x, y, s) \/ Asks(x, y, j))
        /\ Fixed(x, y) /\ x \in Calls /\ CallInv(x)
    BY ChangedOne, CallParts
  <2>2. Attested(ds, x.pay)
    BY VisitedKept DEF Visits
  <2>3. Relays(x, y, s) => Attested(ds, y.pay)
    <3>1. x.pc = "wait" => x.sub \in DOMAIN cs
      BY CallParts
    <3> QED
      BY <3>1, VisitedKept DEF Visits, Relays
  <2>4. ASSUME x.pc = "work", ~Within(x), InPlace(x, y), y.pay = Marked(x)
        PROVE  Attested(ds, y.pay)
    BY <2>1, <2>2, <2>4, MarkedAttested
  <2> SUFFICES Attested(ds, y.pay)
    BY <2>1
  <2> HIDE DEF x, y, s, j
  <2>5. CASE y.pay = x.pay
    BY <2>2, <2>5
  <2> QED
    BY <2>1, <2>3, <2>4, <2>5
       DEF Alone, Rests, Begins, StepsOn, Sleeps, Ends, Refuses, Loses, Fails, Refers, Earns, Asks
<1>2. ASSUME NEW d \in DOMAIN ds, d \notin DOMAIN cs PROVE Attested(ds, ds[d].pay)
  <2>1. \A r : Attested(ds, Fresh(r))
    BY DEF Attested, Fresh
  <2>2. CASE MadeByClient(ds[d])
    BY <2>1, <2>2 DEF MadeByClient
  <2>3. CASE ds[d].from \in DOMAIN cs /\ MadeBy(cs[ds[d].from], ds[ds[d].from], ds[d])
    BY <1>1, <2>1, <2>3 DEF MadeBy
  <2> QED
    BY <1>2, <2>2, <2>3, OldOrNew
<1> QED
  BY <1>1, <1>2 DEF Visits

(* visited and visit_log do not lie: every segment a message carries as visited has been worked
   through, steps and all, by a container of that id. *)
THEOREM VisitedIsWorked == Spec => []VisitsHappened
<1>1. Init => Visits(call)
  BY DEF Init, Visits
<1>2. IInv /\ (IInv)' /\ History(call) /\ Visits(call) /\ [Next]_vars => (Visits(call))'
  <2> SUFFICES ASSUME IInv, (IInv)', History(call), Visits(call), [Next]_vars
               PROVE  Visits(call')
    OBVIOUS
  <2>1. CallsInv(call) /\ CallsInv(call') /\ Changed(call, call')
    BY EveryStepIsChanged DEF IInv
  <2> QED
    BY <2>1, VisitsKept
<1>3. Visits(call) => VisitsHappened
  BY DEF Visits, Attested, HasVisited, VisitsHappened, Within, HopOf, InSteps, Hop, Id
<1> QED
  BY <1>1, <1>2, <1>3, HistoryHolds, PTL DEF Spec

-----------------------------------------------------------------------------
(* The same POST again.                                                    *)

(* The attempts a handler makes at one step are finitely many. *)
LEMMA AttemptsFinite ==
  ASSUME NEW cs \in Seq(Calls), NEW c, NEW k
  PROVE  IsFiniteSet(Attempts(cs, c, k)) /\ Cardinality(Attempts(cs, c, k)) \in Nat
<1>1. Len(cs) \in Nat /\ DOMAIN cs = 1 .. Len(cs)
  OBVIOUS
<1>2. IsFiniteSet(DOMAIN cs)
  BY <1>1, FS_Interval
<1>3. Attempts(cs, c, k) \subseteq DOMAIN cs
  BY DEF Attempts
<1> QED
  BY <1>2, <1>3, FS_Subset, FS_CardinalityType

(* A step adds at most one attempt, the call it makes. *)
LEMMA AttemptsChanged ==
  ASSUME NEW cs, NEW ds, CallsInv(cs), CallsInv(ds), Changed(cs, ds), NEW c, NEW k
  PROVE  LET j == Len(cs) + 1
         IN  \/ Attempts(ds, c, k) = Attempts(cs, c, k)
             \/ /\ j \in DOMAIN ds /\ j \notin DOMAIN cs
                /\ ds[j].from = c /\ ds[j].slot = k
                /\ Attempts(ds, c, k) = Attempts(cs, c, k) \cup {j}
<1>1. \A e \in DOMAIN cs : e \in DOMAIN ds /\ ds[e].from = cs[e].from /\ ds[e].slot = cs[e].slot
  BY ChangedOne DEF Fixed
<1>2. \A e \in DOMAIN ds : e \notin DOMAIN cs => e = Len(cs) + 1
  BY OldOrNew
<1>3. Attempts(cs, c, k) \subseteq Attempts(ds, c, k)
  BY <1>1 DEF Attempts
<1>4. \A e \in Attempts(ds, c, k) : e \in DOMAIN cs => e \in Attempts(cs, c, k)
  BY <1>1 DEF Attempts
<1>5. CASE \A e \in Attempts(ds, c, k) : e \in DOMAIN cs
  BY <1>3, <1>4, <1>5
<1>6. ASSUME NEW e \in Attempts(ds, c, k), e \notin DOMAIN cs
      PROVE  LET j == Len(cs) + 1
             IN  /\ j \in DOMAIN ds /\ j \notin DOMAIN cs
                 /\ ds[j].from = c /\ ds[j].slot = k
                 /\ Attempts(ds, c, k) = Attempts(cs, c, k) \cup {j}
  <2>1. e \in DOMAIN ds /\ ds[e].from = c /\ ds[e].slot = k
    BY <1>6 DEF Attempts
  <2>2. e = Len(cs) + 1
    BY <1>2, <1>6, <2>1
  <2>3. \A i \in Attempts(ds, c, k) : i \in Attempts(cs, c, k) \/ i = e
    BY <1>2, <1>4, <2>2 DEF Attempts
  <2>4. Attempts(ds, c, k) = Attempts(cs, c, k) \cup {e}
    BY <1>3, <1>6, <2>3
  <2> QED
    BY <1>6, <2>1, <2>2, <2>4
<1> QED
  BY <1>5, <1>6

(* At the step a handler is at, it has made at most `tries' attempts, none when it gets there. *)
LEMMA AttemptsBounded ==
  ASSUME NEW cs, NEW ds, CallsInv(cs), CallsInv(ds), Changed(cs, ds), History(cs), Repeats(cs),
         NEW c \in DOMAIN cs, NEW k \in Nat
  PROVE  Cardinality(Attempts(ds, c, k)) <=
           IF ds[c].pc \in Live /\ k = ds[c].step THEN ds[c].tries ELSE GoMaxAttempts
<1> DEFINE x == cs[c]
           y == ds[c]
           s == cs[x.sub]
           j == Len(cs) + 1
           before == Attempts(cs, c, k)
           after == Attempts(ds, c, k)
<1>1. /\ c \in DOMAIN ds /\ (Alone(x, y, s) \/ Asks(x, y, j))
      /\ Placed(x) /\ x.tries \in Nat /\ y.tries \in Nat /\ x.step \in Nat /\ c # Client
  BY ChangedOne, CallParts DEF History, Client
<1>2. Cardinality(before) \in Nat /\ IsFiniteSet(before)
  BY AttemptsFinite DEF CallsInv
<1>3. Cardinality(before) <= IF x.pc \in Live /\ k = x.step THEN x.tries ELSE GoMaxAttempts
  BY DEF Repeats
<1>4. Cardinality(before) <= GoMaxAttempts
  BY <1>1, <1>2, <1>3 DEF Placed, GoMaxAttempts
<1>5. before # {} => x.at # 0 /\ k \in 1 .. x.step
  BY <1>1 DEF Attempts, History, Lineage, MadeFor
<1>6. before = {} => Cardinality(before) = 0
  BY FS_EmptySet
<1>7. ASSUME after = before
      PROVE  Cardinality(after) <= IF y.pc \in Live /\ k = y.step THEN y.tries ELSE GoMaxAttempts
  <2> SUFFICES ASSUME y.pc \in Live, k = y.step
               PROVE  Cardinality(before) <= y.tries
    BY <1>4, <1>7
  <2> HIDE DEF x, y, s, j, before, after
  <2>1. CASE Rests(x, y) \/ Sleeps(x, y, s) \/ Asks(x, y, j)
    BY <1>1, <1>2, <1>3, <2>1 DEF Rests, Sleeps, Asks, InPlace, Live
  <2>2. CASE Begins(x, y)
    BY <1>1, <1>5, <1>6, <2>2 DEF Begins, Placed
  <2>3. CASE StepsOn(x, y, s)
    BY <1>1, <1>5, <1>6, <2>3 DEF StepsOn
  <2>4. CASE Ends(x, y, s)
    BY <2>4 DEF Ends, Live
  <2> QED
    BY <1>1, <2>1, <2>2, <2>3, <2>4 DEF Alone
<1>8. ASSUME j \in DOMAIN ds, j \notin DOMAIN cs, ds[j].from = c, ds[j].slot = k,
             after = before \cup {j}
      PROVE  Cardinality(after) <= IF y.pc \in Live /\ k = y.step THEN y.tries ELSE GoMaxAttempts
  <2>1. Asks(x, y, j) /\ k = x.step
    BY <1>1, <1>8, OldOrNew DEF MadeByClient, MadeBy
  <2>2. j \notin before
    BY <1>8 DEF Attempts
  <2> HIDE DEF x, y, s, j, before, after
  <2>3. Cardinality(after) = Cardinality(before) + 1
    BY <1>2, <1>8, <2>2, FS_AddElement
  <2>4. x.pc \in Live /\ y.pc \in Live /\ k = y.step /\ y.tries = x.tries + 1
    BY <2>1 DEF Asks, InPlace, Live
  <2>5. Cardinality(before) <= x.tries
    BY <1>3, <2>1, <2>4
  <2>6. \A m, n \in Nat : m <= n => m + 1 <= n + 1
    OBVIOUS
  <2>7. Cardinality(after) <= y.tries
    BY <1>1, <1>2, <2>3, <2>4, <2>5, <2>6
  <2> QED
    BY <2>4, <2>7
<1> QED
  BY <1>7, <1>8, AttemptsChanged

(* Two calls for one step: the first has met a fault its go caller takes for transient. *)
LEMMA PairsKept ==
  ASSUME NEW cs, NEW ds, CallsInv(cs), CallsInv(ds), Changed(cs, ds), History(cs), Repeats(cs),
         NEW c \in DOMAIN ds, NEW d \in DOMAIN ds, c < d,
         ds[c].from = ds[d].from, ds[c].slot = ds[d].slot, ds[c].from # Client
  PROVE  LangOf[ds[ds[c].from].node] = "go" /\ GoTransient(ds[c].result)
<1> DEFINE f == ds[d].from
<1>1. c \in DOMAIN cs
  <2>1. DOMAIN cs = 1 .. Len(cs) /\ DOMAIN ds = 1 .. Len(ds) /\ Len(ds) \in {Len(cs), Len(cs) + 1}
        /\ Len(cs) \in Nat /\ Len(ds) \in Nat
    BY DEF Changed, CallsInv
  <2>2. \A m, n, i, l \in Nat : i >= 1 /\ i < l /\ l <= n /\ n \in {m, m + 1} => i \in 1 .. m
    OBVIOUS
  <2>3. c \in 1 .. Len(ds) /\ d \in 1 .. Len(ds)
    BY <2>1
  <2>4. \A n \in Nat : \A i \in 1 .. n : i \in Nat /\ i >= 1 /\ i <= n
    OBVIOUS
  <2>5. c \in Nat /\ d \in Nat /\ c >= 1 /\ d <= Len(ds)
    BY <2>1, <2>3, <2>4
  <2> QED
    BY <2>1, <2>2, <2>5
<1>2. /\ ds[c].from = cs[c].from /\ ds[c].slot = cs[c].slot /\ f = cs[c].from /\ f \in DOMAIN cs
      /\ ds[f].node = cs[f].node
  <2>1. ds[c].from = cs[c].from /\ ds[c].slot = cs[c].slot
    BY <1>1, ChangedOne DEF Fixed
  <2>2. cs[c].from \in DOMAIN cs
    BY <1>1, <2>1 DEF History, Lineage
  <2> QED
    BY <2>1, <2>2, ChangedOne DEF Fixed
<1>3. SUFFICES LangOf[cs[f].node] = "go" /\ GoTransient(cs[c].result)
  <2>1. ASSUME GoTransient(cs[c].result) PROVE GoTransient(ds[c].result)
    <3>1. cs[c].result # "none"
      BY <2>1 DEF GoTransient
    <3> QED
      BY <1>1, <2>1, <3>1, AnsweredKept DEF Rests
  <2> QED
    BY <1>2, <2>1
<1>4. CASE d \in DOMAIN cs
  <2>1. cs[d].from = f /\ cs[d].slot = ds[d].slot
    BY <1>4, ChangedOne DEF Fixed
  <2> QED
    BY <1>1, <1>2, <1>4, <2>1 DEF Repeats
<1>5. CASE d \notin DOMAIN cs
  <2> DEFINE x == cs[f]
             y == ds[f]
  <2>1. Asks(x, y, d) /\ MadeBy(x, y, ds[d])
    BY <1>2, <1>5, OldOrNew DEF MadeByClient
  <2>2. cs[c].slot = x.step
    BY <1>2, <2>1 DEF MadeBy
  <2>3. MadeFor(x, cs[c])
    BY <1>1, <1>2 DEF History, Lineage
  <2>4. x.pc = "retry"
    <3>1. x.step \in Nat
      BY <1>2, CallParts
    <3>2. x.pc # "work"
      BY <2>2, <2>3, <3>1 DEF MadeFor
    <3> QED
      BY <2>1, <3>2 DEF Asks
  <2>5. LangOf[x.node] = "go"
    BY <1>2, <2>4 DEF History, Placed
  <2>6. c <= x.sub
    BY <1>1, <1>2, <2>2, <2>4 DEF History, Lineage
  <2>7. x.sub \in DOMAIN cs /\ cs[x.sub].from = f /\ cs[x.sub].slot = x.step
        /\ GoTransient(cs[x.sub].result)
    BY <1>2, <2>4, CallParts DEF History, Awaited
  <2>8. CASE c = x.sub
    BY <2>5, <2>7, <2>8
  <2>9. CASE c # x.sub
    <3>1. c \in Nat /\ x.sub \in Nat
      BY <1>1, <2>7, CallParts
    <3>2. c < x.sub
      BY <2>6, <2>9, <3>1
    <3> QED
      BY <1>1, <1>2, <2>2, <2>7, <3>2 DEF Repeats
  <2> QED
    BY <2>8, <2>9
<1> QED
  BY <1>4, <1>5

(* Both halves of Repeats survive a step; a call that is new has made no attempt. *)
LEMMA RepeatsKept ==
  ASSUME NEW cs, NEW ds, CallsInv(cs), CallsInv(ds), Changed(cs, ds), History(cs), Repeats(cs)
  PROVE  Repeats(ds)
<1>1. ASSUME NEW c \in DOMAIN ds, c \notin DOMAIN cs, NEW k \in Nat
      PROVE  Cardinality(Attempts(ds, c, k)) <=
               IF ds[c].pc \in Live /\ k = ds[c].step THEN ds[c].tries ELSE GoMaxAttempts
  <2>1. New(ds[c])
    BY <1>1, OldOrNew
  <2>2. c # Client
    BY CallParts DEF Client
  <2>3. Attempts(ds, c, k) = {}
    <3>1. History(ds)
      BY HistoryKept
    <3> QED
      BY <2>1, <2>2, <3>1 DEF Attempts, History, Lineage, MadeFor, New
  <2> QED
    BY <2>1, <2>3, FS_EmptySet DEF New, GoMaxAttempts
<1> QED
  BY <1>1, PairsKept, AttemptsBounded DEF Repeats

(* A handler makes the same POST twice only in a go worker, at most three
   times, and only after a refused or reset connection. *)
THEOREM OnlyGoRepeats == Spec => []RepeatsOnlyByGo
<1>1. Init => Repeats(call)
  BY DEF Init, Repeats
<1>2. IInv /\ (IInv)' /\ History(call) /\ Repeats(call) /\ [Next]_vars => (Repeats(call))'
  <2> SUFFICES ASSUME IInv, (IInv)', History(call), Repeats(call), [Next]_vars
               PROVE  Repeats(call')
    OBVIOUS
  <2>1. CallsInv(call) /\ CallsInv(call') /\ Changed(call, call')
    BY EveryStepIsChanged DEF IInv
  <2> QED
    BY <2>1, RepeatsKept
<1>3. IInv /\ History(call) /\ Repeats(call) => RepeatsOnlyByGo
  <2> SUFFICES ASSUME IInv, History(call), Repeats(call),
                      NEW c \in DOMAIN call, NEW d \in DOMAIN call,
                      c < d, call[c].from = call[d].from, call[c].slot = call[d].slot,
                      call[c].from # Client
               PROVE  /\ Lang(call[c].from) = "go"
                      /\ call[c].result \in {"refused", "reset"}
                      /\ Cardinality(Attempts(call, call[c].from, call[c].slot)) <= GoMaxAttempts
    BY DEF RepeatsOnlyByGo, Attempts
  <2> DEFINE f == call[c].from
             k == call[c].slot
  <2>1. CallsInv(call)
    BY DEF IInv
  <2>2. f \in DOMAIN call /\ k \in Nat
    BY <2>1, CallParts DEF History, Lineage
  <2>3. Cardinality(Attempts(call, f, k)) <=
          IF call[f].pc \in Live /\ k = call[f].step THEN call[f].tries ELSE GoMaxAttempts
    BY <2>2 DEF Repeats
  <2>4. call[f].pc \in Live => call[f].tries <= GoMaxAttempts
    BY <2>2 DEF History, Placed
  <2>5. call[f].tries \in Nat /\ Cardinality(Attempts(call, f, k)) \in Nat
    BY <2>1, <2>2, CallParts, AttemptsFinite
  <2>6. Cardinality(Attempts(call, f, k)) <= GoMaxAttempts
    <3> HIDE DEF f, k
    <3> QED
      BY <2>3, <2>4, <2>5 DEF GoMaxAttempts
  <2> QED
    BY <2>6 DEF Repeats, Lang, GoTransient
<1> QED
  BY <1>1, <1>2, <1>3, HistoryHolds, PTL DEF Spec

-----------------------------------------------------------------------------
(* The contract of a worker.                                               *)

(* AsRequest as a function of the call alone. *)
Stage(x) ==
  IF x.pc = "sent" THEN "asked"
  ELSE IF x.pc = "work" THEN "working"
  ELSE IF x.pc = "done" THEN "over" ELSE "asking"

Told(x) == IF x.result \in Faults THEN "lost" ELSE x.result

Todo(x) == IF x.at # 0 THEN Len(HopOf(x).steps) ELSE 0
DoneSteps(x) == IF x.at # 0 THEN x.step - 1 ELSE 0
AtLast(x) == x.at # 0 /\ x.at = Len(Hops[x.pay.route])

AsReq(x) ==
  [state |-> Stage(x), todo |-> Todo(x), done |-> DoneSteps(x), last |-> AtLast(x),
   answer |-> Told(x)]

Reqs(cs) == [c \in CallIds |-> IF c \in DOMAIN cs THEN AsReq(cs[c]) ELSE Unasked]

(* The refinement mapping is a function of the calls. *)
LEMMA MappingOfCalls ==
  ASSUME CallsInv(call)
  PROVE  AsRequests = Reqs(call)
<1>1. ASSUME NEW c \in DOMAIN call PROVE AsRequest(c) = AsReq(call[c])
  <2>1. call[c].pc \in {"sent", "work", "wait", "retry", "done"}
    BY CallParts
  <2> QED
    BY <2>1 DEF AsRequest, AsReq, Stage, Told, Todo, DoneSteps, AtLast, Hop, HopOf
<1> QED
  BY <1>1 DEF AsRequests, Reqs

(* While a handler stays where it is, only the state and the answer of its request can change. *)
LEMMA SamePlace ==
  ASSUME NEW x, NEW y, InPlace(x, y), y.pay.route = x.pay.route
  PROVE  /\ AsReq(y) = [AsReq(x) EXCEPT !.state = Stage(y), !.answer = Told(y)]
         /\ Stage(y) = Stage(x) /\ Told(y) = Told(x) => AsReq(y) = AsReq(x)
<1>1. Todo(y) = Todo(x) /\ DoneSteps(y) = DoneSteps(x)
  BY DEF Todo, DoneSteps, InPlace, HopOf
<1>2. AtLast(y) = AtLast(x)
  BY Zenon DEF AtLast, InPlace
<1>3. AsReq(y) = [state |-> Stage(y), todo |-> Todo(x), done |-> DoneSteps(x), last |-> AtLast(x),
                  answer |-> Told(y)]
  BY <1>1, <1>2 DEF AsReq
<1>4. AsReq(x) = [state |-> Stage(x), todo |-> Todo(x), done |-> DoneSteps(x), last |-> AtLast(x),
                  answer |-> Told(x)]
  BY DEF AsReq
<1> DEFINE a == AsReq(x)
           v == Stage(y)
           w == Told(y)
           b == [a EXCEPT !.state = v, !.answer = w]
<1>5. b = [a EXCEPT !.state = v, !.answer = w]
  OBVIOUS
<1>6. b = [state |-> v, todo |-> Todo(x), done |-> DoneSteps(x), last |-> AtLast(x), answer |-> w]
  <2>1. a = [state |-> Stage(x), todo |-> Todo(x), done |-> DoneSteps(x), last |-> AtLast(x),
             answer |-> Told(x)]
    BY <1>4
  <2> HIDE DEF a, b, v, w
  <2> QED
    BY <1>5, <2>1
<1>7. Stage(y) = Stage(x) /\ Told(y) = Told(x) => AsReq(y) = AsReq(x)
  BY <1>3, <1>4
<1> QED
  BY <1>3, <1>5, <1>6, <1>7, Zenon

(* The request of a call that no handler has admitted. *)
LEMMA UntouchedRequest ==
  ASSUME NEW x, x.at = 0
  PROVE  /\ Stage(x) = "asked" /\ Told(x) = "none" => AsReq(x) = Contract!Asked
         /\ Stage(x) = "over" /\ Told(x) = "lost" =>
              AsReq(x) = Contract!Over(Contract!Unasked, "lost")
<1>1. Todo(x) = 0 /\ DoneSteps(x) = 0
  BY DEF Todo, DoneSteps
<1>2. AtLast(x) = FALSE
  BY Zenon DEF AtLast
<1>3. AsReq(x) = [state |-> Stage(x), todo |-> 0, done |-> 0, last |-> FALSE, answer |-> Told(x)]
  BY <1>1, <1>2 DEF AsReq
<1> DEFINE a == Contract!Unasked
           b == Contract!Asked
           c == Contract!Over(Contract!Unasked, "lost")
<1>4. a = [state |-> "unasked", todo |-> 0, done |-> 0, last |-> FALSE, answer |-> "none"]
  BY DEF Contract!Unasked
<1>5. b = [a EXCEPT !.state = "asked"]
  BY DEF Contract!Asked
<1>6. c = [a EXCEPT !.state = "over", !.answer = "lost"]
  BY DEF Contract!Over
<1> HIDE DEF a, b, c
<1>7. b = [state |-> "asked", todo |-> 0, done |-> 0, last |-> FALSE, answer |-> "none"]
  BY <1>4, <1>5
<1>8. c = [state |-> "over", todo |-> 0, done |-> 0, last |-> FALSE, answer |-> "lost"]
  BY <1>4, <1>6
<1> QED
  BY <1>3, <1>7, <1>8 DEF b, c

(* A call that is not over has not been answered, and one that has not been read has nothing done. *)
LEMMA NotOver ==
  ASSUME NEW x \in Calls, CallInv(x), Placed(x)
  PROVE  /\ x.pc # "done" => Told(x) = "none" /\ Stage(x) \in {"asked", "working", "asking"}
         /\ x.pc = "sent" => AsReq(x) = Contract!Asked
<1>1. x.pc # "done" => Told(x) = "none"
  BY DEF CallInv, Told, Faults
<1>2. x.pc # "done" => Stage(x) \in {"asked", "working", "asking"}
  BY DEF Stage
<1>3. ASSUME x.pc = "sent" PROVE AsReq(x) = Contract!Asked
  <2>1. x.at = 0 /\ Stage(x) = "asked" /\ Told(x) = "none"
    BY <1>1, <1>3 DEF Placed, Stage
  <2> QED
    BY <2>1, UntouchedRequest
<1> QED
  BY <1>1, <1>2, <1>3

(* What the fields of the request say about a handler that is at work. *)
LEMMA AtWork ==
  ASSUME NEW x \in Calls, CallInv(x), x.pc \in Live
  PROVE  LET a == AsReq(x)
             n == Len(HopOf(x).steps)
         IN  /\ a.todo = n /\ a.done = x.step - 1 /\ n \in Nat /\ x.step \in 1 .. n + 1
             /\ a.last <=> x.at = Len(Hops[x.pay.route])
             /\ a.done < a.todo <=> Within(x)
             /\ a.done = a.todo <=> ~Within(x)
             /\ ~Within(x) /\ x.pc # "work" => ~a.last
<1> DEFINE a == AsReq(x)
           n == Len(HopOf(x).steps)
<1>1. /\ AtItsHop(x) /\ x.at # 0
  BY LiveIsPlaced
<1>2. n \in Nat /\ x.step \in 1 .. n + 1
  BY <1>1, HopTypes DEF AtItsHop, HopOf
<1>3. a.todo = n /\ a.done = x.step - 1 /\ (a.last <=> x.at = Len(Hops[x.pay.route]))
  BY <1>1 DEF AsReq, Todo, DoneSteps, AtLast
<1>4. /\ a.done < a.todo <=> Within(x)
      /\ a.done = a.todo <=> ~Within(x)
  <2>1. \A m \in Nat : \A i \in 1 .. m + 1 : (i - 1 < m <=> i <= m) /\ (i - 1 = m <=> ~(i <= m))
    OBVIOUS
  <2> HIDE DEF a
  <2> QED
    BY <1>2, <1>3, <2>1 DEF Within
<1>5. ~Within(x) /\ x.pc # "work" => ~a.last
  <2>1. x.at \in 1 .. Len(Hops[x.pay.route]) /\ Len(Hops[x.pay.route]) \in Nat
    BY <1>1, HopTypes DEF AtItsHop
  <2>2. ~Within(x) /\ x.pc # "work" => x.at < Len(Hops[x.pay.route])
    BY <1>1 DEF AtItsHop, Within, HopOf
  <2> QED
    BY <1>3, <2>1, <2>2
<1> QED
  BY <1>2, <1>3, <1>4, <1>5

(* Every implementation refuses a segment without steps. *)
LEMMA AdmittedHasSteps ==
  ASSUME NEW lang \in Langs, NEW id, NEW p, Admits(lang, id, p)
  PROVE  Segment(p).steps # <<>>
<1>1. CASE lang = "py"
  BY <1>1 DEF Admits, PyAdmits, Addressed
<1>2. CASE lang = "rs"
  BY <1>2 DEF Admits, RsAdmits, Addressed
<1>3. CASE lang = "go"
  BY <1>3 DEF Admits, GoAdmits, Addressed
<1>4. CASE lang = "ja"
  BY <1>4 DEF Admits, JaAdmits, Addressed
<1>5. CASE lang = "cs"
  BY <1>5 DEF Admits, CsAdmits, Addressed
<1>6. CASE lang = "js"
  BY <1>6 DEF Admits, JsAdmits, Addressed
<1> QED
  BY <1>1, <1>2, <1>3, <1>4, <1>5, <1>6 DEF Langs

(* Admission is the contract's: there is something to do, and nothing of it is done. *)
LEMMA BeginsKeeps ==
  ASSUME NEW x \in Calls, NEW y \in Calls, CallInv(x), CallInv(y), Placed(x), Fixed(x, y),
         Begins(x, y)
  PROVE  Contract!Admitted(AsReq(x), AsReq(y))
<1> DEFINE b == AsReq(y)
<1>1. y.pc = "work" /\ y.step = 1 /\ y.result = x.result /\ y.pay = x.pay /\ x.pc = "sent"
  BY DEF Begins
<1>2. Segment(x.pay).steps # <<>>
  BY AdmittedHasSteps, HopTypes DEF Begins
<1>3. HopOf(y) = Segment(x.pay) /\ y.at # 0 /\ y.at \in 1 .. Len(Hops[y.pay.route])
  BY <1>1, LiveIsPlaced DEF Begins, HopOf, Segment, Live, AtItsHop
<1>4. HopOf(y).steps \in Seq(Steps) /\ Len(HopOf(y).steps) \in Nat
  BY <1>3, HopTypes DEF HopOf
<1>5. Len(HopOf(y).steps) \in Nat \ {0}
  BY <1>2, <1>3, <1>4
<1>6. Stage(y) = "working" /\ Told(y) = "none"
  BY <1>1 DEF Stage, Told, CallInv, Faults
<1>7. b = [state |-> "working", todo |-> b.todo, done |-> 0, last |-> b.last, answer |-> "none"]
  BY <1>1, <1>3, <1>6 DEF AsReq, DoneSteps
<1>8. b.todo \in Nat \ {0} /\ b.last \in BOOLEAN
  BY <1>3, <1>5 DEF AsReq, Todo, AtLast
<1> HIDE DEF b
<1>9. AsReq(x) = Contract!Asked
  BY <1>1, NotOver
<1> SUFFICES Contract!Admitted(AsReq(x), b)
  BY DEF b
<1>10. b = [Contract!Asked EXCEPT !.state = "working", !.todo = b.todo, !.last = b.last]
  <2> DEFINE a == Contract!Unasked
             d == Contract!Asked
             e == [d EXCEPT !.state = "working", !.todo = b.todo, !.last = b.last]
  <2>1. a = [state |-> "unasked", todo |-> 0, done |-> 0, last |-> FALSE, answer |-> "none"]
    BY DEF Contract!Unasked
  <2>2. d = [a EXCEPT !.state = "asked"]
    BY DEF Contract!Asked
  <2>3. e = [d EXCEPT !.state = "working", !.todo = b.todo, !.last = b.last]
    OBVIOUS
  <2> SUFFICES b = e
    OBVIOUS
  <2> HIDE DEF a, d, e
  <2>4. d = [state |-> "asked", todo |-> 0, done |-> 0, last |-> FALSE, answer |-> "none"]
    BY <2>1, <2>2
  <2>5. e = [state |-> "working", todo |-> b.todo, done |-> 0, last |-> b.last, answer |-> "none"]
    BY <2>3, <2>4
  <2> QED
    BY <1>7, <2>5
<1> QED
  BY <1>8, <1>9, <1>10 DEF Contract!Admitted

(* A step left behind, by itself or by a 200, is one more step done. *)
LEMMA StepsOnKeeps ==
  ASSUME NEW x \in Calls, NEW y \in Calls, NEW s, CallInv(x), CallInv(y), Placed(x),
         StepsOn(x, y, s)
  PROVE  Contract!Moves(AsReq(x), AsReq(y))
<1> DEFINE a == AsReq(x)
           b == AsReq(y)
<1>1. /\ y.pc = "work" /\ y.at = x.at /\ y.step = x.step + 1 /\ y.pay = x.pay
      /\ y.result = x.result /\ x.pc \in {"work", "wait"} /\ Within(x)
  BY DEF StepsOn, Passes, Heeds
<1>2. x.at # 0 /\ x.step \in Nat
  BY <1>1, LiveIsPlaced DEF Live, Calls
<1>3. Stage(y) = "working" /\ Told(y) = Told(x) /\ Stage(x) = IF x.pc = "work" THEN "working" ELSE "asking"
  BY <1>1 DEF Stage, Told
<1>4. a.done = x.step - 1 /\ b.done = x.step
  BY <1>1, <1>2 DEF AsReq, DoneSteps
<1>5. b = [a EXCEPT !.state = "working", !.done = b.done]
  <2>1. Todo(y) = Todo(x)
    BY <1>1 DEF Todo, HopOf
  <2>2. AtLast(y) = AtLast(x)
    BY <1>1, Zenon DEF AtLast
  <2>3. b = [state |-> "working", todo |-> Todo(x), done |-> DoneSteps(y), last |-> AtLast(x),
             answer |-> Told(x)]
    BY <1>3, <2>1, <2>2 DEF AsReq
  <2>4. a = [state |-> Stage(x), todo |-> Todo(x), done |-> DoneSteps(x), last |-> AtLast(x),
             answer |-> Told(x)]
    BY DEF AsReq
  <2>5. b.done = DoneSteps(y)
    BY <2>3
  <2> DEFINE c == [a EXCEPT !.state = "working", !.done = b.done]
  <2>6. c = [a EXCEPT !.state = "working", !.done = b.done]
    OBVIOUS
  <2> SUFFICES b = c
    OBVIOUS
  <2> HIDE DEF a, b, c
  <2>7. c = [state |-> "working", todo |-> Todo(x), done |-> DoneSteps(y), last |-> AtLast(x),
             answer |-> Told(x)]
    BY <2>4, <2>5, <2>6
  <2> QED
    BY <2>3, <2>7
<1>6. b.done = a.done + 1
  BY <1>2, <1>4
<1>7. a.state = Stage(x) /\ a.done < a.todo
  <2>1. a.done < a.todo
    BY <1>1, AtWork DEF Live
  <2> QED
    BY <2>1 DEF AsReq
<1>8. a = [state |-> a.state, todo |-> a.todo, done |-> a.done, last |-> a.last, answer |-> a.answer]
  BY DEF AsReq
<1> SUFFICES Contract!Moves(a, b)
  OBVIOUS
<1> HIDE DEF a, b
<1>9. CASE x.pc = "work"
  BY <1>3, <1>5, <1>6, <1>7, <1>8, <1>9 DEF Contract!Moves, Contract!Worked
<1>10. CASE x.pc = "wait"
  BY <1>3, <1>5, <1>6, <1>7, <1>8, <1>10 DEF Contract!Moves, Contract!Heeded
<1> QED
  BY <1>1, <1>9, <1>10

(* A peer is asked for a step, or for the rest of a route that has one. *)
LEMMA AsksKeeps ==
  ASSUME NEW x \in Calls, NEW y \in Calls, NEW j, CallInv(x), CallInv(y), Placed(x),
         Asks(x, y, j), y.pay.route = x.pay.route
  PROVE  AsReq(y) = AsReq(x) \/ Contract!Sent(AsReq(x), AsReq(y))
<1> DEFINE a == AsReq(x)
           b == AsReq(y)
<1>1. /\ y.pc = "wait" /\ InPlace(x, y) /\ y.result = x.result /\ x.pc \in {"work", "retry"}
  BY DEF Asks
<1>2. Stage(y) = "asking" /\ Told(y) = Told(x) /\ Stage(x) = IF x.pc = "work" THEN "working" ELSE "asking"
  BY <1>1 DEF Stage, Told
<1>3. b = [a EXCEPT !.state = Stage(y), !.answer = Told(y)]
  BY <1>1, SamePlace
<1>4. a.state = Stage(x) /\ a.answer = Told(x)
  BY DEF AsReq
<1>5. a = [state |-> a.state, todo |-> a.todo, done |-> a.done, last |-> a.last, answer |-> a.answer]
  BY DEF AsReq
<1>6. a.done < a.todo \/ ~a.last
  <2>1. CASE Within(x)
    BY <1>1, <2>1, AtWork DEF Live
  <2>2. CASE ~Within(x)
    <3>1. ~Within(y)
      BY <1>1, <2>2 DEF Within, HopOf, InPlace
    <3>2. ~b.last
      BY <1>1, <3>1, AtWork DEF Live
    <3> QED
      BY <1>3, <1>5, <3>2
  <2> QED
    BY <2>1, <2>2
<1> SUFFICES b = a \/ Contract!Sent(a, b)
  OBVIOUS
<1> HIDE DEF a, b
<1>7. CASE x.pc = "work"
  BY <1>2, <1>3, <1>4, <1>5, <1>6, <1>7 DEF Contract!Sent
<1>8. CASE x.pc = "retry"
  BY <1>2, <1>3, <1>4, <1>5, <1>8
<1> QED
  BY <1>1, <1>7, <1>8

(* Every way a call ends is one the contract has: a refusal before the first step, a loss, a
   failure, a 200 once everything is done. *)
LEMMA EndsKeeps ==
  ASSUME NEW x \in Calls, NEW y \in Calls, NEW s, CallInv(x), CallInv(y), Placed(x),
         Ends(x, y, s), y.pay.route = x.pay.route, x.pc # "done"
  PROVE  Contract!Moves(AsReq(x), AsReq(y))
<1> DEFINE a == AsReq(x)
           b == AsReq(y)
<1>1. y.pc = "done" /\ InPlace(x, y)
  BY DEF Ends
<1>2. b = [a EXCEPT !.state = "over", !.answer = Told(y)]
  BY <1>1, SamePlace DEF Stage
<1>3. /\ a.state = Stage(x) /\ a.state \in {"asked", "working", "asking"}
      /\ x.pc \in {"wait", "retry"} => a.state = "asking"
      /\ x.pc = "work" => a.state = "working"
  BY NotOver DEF AsReq, Stage
<1>4. x.pc = "sent" => a = Contract!Asked
  BY NotOver
<1>5. x.pc \in Live => /\ a.done = a.todo <=> ~Within(x)
                       /\ ~Within(x) /\ x.pc # "work" => ~a.last
  BY AtWork
<1>6. ASSUME Earns(x, y) PROVE x.pc = "work" /\ a.last /\ a.done = a.todo
  <2>1. x.pc = "work" /\ ~Within(x) /\ Complete(Marked(x))
    BY <1>6 DEF Earns
  <2>2. Marked(x) \in Payloads /\ x.at \in Nat /\ Through(Marked(x), x.at)
    BY <2>1, MarkedInv DEF Within, HopOf, Marked
  <2>3. x.at = Len(Hops[x.pay.route])
    BY <2>1, <2>2, NextSegment, MarkedFields
  <2> QED
    BY <2>1, <2>3, AtWork DEF Live
<1> SUFFICES Contract!Moves(a, b)
  OBVIOUS
<1> HIDE DEF a, b
<1>7. CASE Refuses(x, y)
  <2>1. Told(y) = "400"
    BY <1>7 DEF Refuses, Told, Faults
  <2> QED
    BY <1>2, <1>4, <1>7, <2>1 DEF Refuses, Contract!Moves, Contract!Refused, Contract!Over
<1>8. CASE Loses(x, y)
  <2>1. Told(y) = "lost"
    BY <1>8 DEF Loses, Told
  <2> QED
    BY <1>2, <1>3, <2>1 DEF Contract!Moves, Contract!Lost, Contract!Over
<1>9. CASE Fails(x, y)
  <2>1. Told(y) \in {"500", "502"} /\ a.state \in {"working", "asking"}
    BY <1>3, <1>9 DEF Fails, Told, Faults, Live
  <2> QED
    BY <1>2, <2>1 DEF Contract!Moves, Contract!Failed, Contract!Over
<1>10. CASE Refers(x, y)
  <2>1. Told(y) = "400" /\ a.state = "asking" /\ ~a.last /\ a.done = a.todo
    BY <1>3, <1>5, <1>10 DEF Refers, Told, Faults, Live
  <2> QED
    BY <1>2, <2>1 DEF Contract!Moves, Contract!Failed, Contract!Over
<1>11. CASE Earns(x, y)
  <2>1. Told(y) = "200" /\ a.state = "working" /\ a.last /\ a.done = a.todo
    BY <1>3, <1>6, <1>11 DEF Earns, Told, Faults
  <2> QED
    BY <1>2, <2>1 DEF Contract!Moves, Contract!Finished, Contract!Over
<1>12. CASE Relays(x, y, s)
  <2>1. Told(y) = "200" /\ a.state = "asking" /\ ~a.last /\ a.done = a.todo
    BY <1>3, <1>5, <1>12 DEF Relays, Told, Faults, Live
  <2> QED
    BY <1>2, <2>1 DEF Contract!Moves, Contract!Finished, Contract!Over
<1> QED
  BY <1>7, <1>8, <1>9, <1>10, <1>11, <1>12 DEF Ends

(* A step of a call is a step of the contract, or none. *)
LEMMA CallKeepsContract ==
  ASSUME NEW x \in Calls, NEW y \in Calls, NEW s, NEW j, CallInv(x), CallInv(y), Placed(x),
         Fixed(x, y), Grows(x, y), Alone(x, y, s) \/ Asks(x, y, j)
  PROVE  AsReq(y) = AsReq(x) \/ Contract!Moves(AsReq(x), AsReq(y))
<1>1. y.pay.route = x.pay.route
  BY DEF Grows
<1>2. CASE Rests(x, y)
  <2>1. InPlace(x, y) /\ Stage(y) = Stage(x) /\ Told(y) = Told(x)
    BY <1>2 DEF Rests, Stage, Told
  <2> QED
    BY <1>1, <2>1, SamePlace
<1>3. CASE Sleeps(x, y, s)
  <2>1. InPlace(x, y) /\ Stage(y) = Stage(x) /\ Told(y) = Told(x)
    BY <1>3 DEF Sleeps, Stage, Told
  <2> QED
    BY <1>1, <2>1, SamePlace
<1>4. CASE Begins(x, y)
  BY <1>4, BeginsKeeps DEF Contract!Moves
<1>5. CASE StepsOn(x, y, s)
  BY <1>5, StepsOnKeeps
<1>6. CASE Asks(x, y, j)
  BY <1>1, <1>6, AsksKeeps DEF Contract!Moves
<1>7. CASE Ends(x, y, s)
  <2>1. x.pc # "done"
    BY <1>7 DEF Ends, Refuses, Loses, Fails, Refers, Earns, Relays, Live
  <2> QED
    BY <1>1, <1>7, <2>1, EndsKeeps
<1> QED
  BY <1>2, <1>3, <1>4, <1>5, <1>6, <1>7 DEF Alone

(* A call that is made is a request that is posted. *)
LEMMA NewIsPosted ==
  ASSUME NEW z, New(z)
  PROVE  Contract!Posted(Unasked, AsReq(z))
<1>1. z.at = 0 /\ Unasked = Contract!Unasked
  BY DEF New, Unasked, Contract!Unasked
<1>2. CASE z.pc = "sent" /\ z.result = "none"
  <2>1. Stage(z) = "asked" /\ Told(z) = "none"
    BY <1>2 DEF Stage, Told, Faults
  <2> QED
    BY <1>1, <2>1, UntouchedRequest DEF Contract!Posted
<1>3. CASE z.pc = "done" /\ z.result = "refused"
  <2>1. Stage(z) = "over" /\ Told(z) = "lost"
    BY <1>3 DEF Stage, Told, Faults
  <2> QED
    BY <1>1, <2>1, UntouchedRequest DEF Contract!Posted
<1> QED
  BY <1>2, <1>3 DEF New

(* Every step of the system is a step of the contract for every request. *)
LEMMA ReqsMove ==
  ASSUME NEW cs, NEW ds, CallsInv(cs), CallsInv(ds), Changed(cs, ds), History(cs),
         NEW c \in CallIds
  PROVE  Reqs(ds)[c] = Reqs(cs)[c] \/ Contract!Moves(Reqs(cs)[c], Reqs(ds)[c])
<1>1. CASE c \in DOMAIN cs
  <2> DEFINE x == cs[c]
             y == ds[c]
  <2>1. /\ c \in DOMAIN ds /\ x \in Calls /\ y \in Calls /\ CallInv(x) /\ CallInv(y)
        /\ Placed(x) /\ Fixed(x, y) /\ Grows(x, y)
        /\ Alone(x, y, cs[x.sub]) \/ Asks(x, y, Len(cs) + 1)
    BY <1>1, ChangedOne, CallParts, EveryCallGrows DEF History
  <2>2. AsReq(y) = AsReq(x) \/ Contract!Moves(AsReq(x), AsReq(y))
    <3> HIDE DEF x, y
    <3> QED
      BY <2>1, CallKeepsContract
  <2> QED
    BY <1>1, <2>1, <2>2 DEF Reqs
<1>2. CASE c \notin DOMAIN cs /\ c \in DOMAIN ds
  <2>1. Contract!Posted(Unasked, AsReq(ds[c]))
    BY <1>2, OldOrNew, NewIsPosted
  <2>2. Reqs(cs)[c] = Unasked /\ Reqs(ds)[c] = AsReq(ds[c])
    BY <1>2 DEF Reqs
  <2> QED
    BY <2>1, <2>2 DEF Contract!Moves
<1>3. CASE c \notin DOMAIN cs /\ c \notin DOMAIN ds
  BY <1>3 DEF Reqs
<1> QED
  BY <1>1, <1>2, <1>3

(* A worker of any language keeps the contract for every call at once, under timers, retries,
   cancellation, dropped handlers and crashes: Pipeline implements WorkerContract. *)
THEOREM EveryCallKeepsContract == Spec => KeepsContract
<1>1. Init => Contract!Init
  BY DEF Init, AsRequests, Contract!Init, Contract!Unasked, Unasked
<1>2. CallsInv(call) => AsRequests = Reqs(call)
  BY MappingOfCalls
<1>3. (CallsInv(call) => AsRequests = Reqs(call))'
  BY <1>2, PTL
<1>4. IInv /\ (IInv)' /\ History(call) /\ [Next]_vars => [Contract!Next]_AsRequests
  <2> SUFFICES ASSUME IInv, (IInv)', History(call), [Next]_vars
               PROVE  Contract!Next
    OBVIOUS
  <2>1. CallsInv(call) /\ CallsInv(call') /\ Changed(call, call')
    BY EveryStepIsChanged DEF IInv
  <2>2. AsRequests = Reqs(call)
    BY <1>2, <2>1
  <2>3. AsRequests' = Reqs(call')
    BY <1>3, <2>1
  <2>4. \A c \in CallIds :
          Reqs(call')[c] = Reqs(call)[c] \/ Contract!Moves(Reqs(call)[c], Reqs(call')[c])
    BY <2>1, ReqsMove
  <2>5. DOMAIN Reqs(call') = CallIds
    BY DEF Reqs
  <2> QED
    BY <2>2, <2>3, <2>4, <2>5 DEF Contract!Next
<1> QED
  BY <1>1, <1>4, HistoryHolds, PTL DEF Spec, KeepsContract, Contract!Spec
=============================================================================
