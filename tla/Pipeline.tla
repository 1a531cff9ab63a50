------------------------------ MODULE Pipeline -------------------------------
(***************************************************************************)
(* The demo as a set of synchronous HTTP calls.  A call is one POST        *)
(* /v1/pipeline: a client posts the first one, and the handler of a call   *)
(* may make further ones, to execute a nested_route step and to forward    *)
(* the message to the next segment.  The handler waits for the answer, so  *)
(* the calls made on behalf of one client request form a stack spread over *)
(* the workers - until a timer fires, a worker dies or go posts again.     *)
(***************************************************************************)
EXTENDS Workers, FiniteSets, SequencesExt

CONSTANTS
  Nodes,      \* the containers
  LangOf,     \* LangOf[n]: the implementation container n runs
  IdOf,       \* IdOf[n]: its DEMO_WORKER_ID
  Peers,      \* Peers[n][i]: the containers n's peer URL for id i may reach, {} if none
  Posts,      \* what clients post: [to : Nodes, route : Routes]
  MaxPosts,   \* bound: client requests
  MaxCalls,   \* bound: calls altogether
  MaxCrashes, \* bound: worker crashes
  Patient     \* TRUE: timers are long, one fires only when nothing else can happen

ASSUME NodesAssumption ==
  /\ LangOf \in [Nodes -> Langs]
  /\ IdOf \in [Nodes -> Ids]
  /\ Peers \in [Nodes -> [Ids -> SUBSET Nodes]]
  /\ Posts \subseteq [to : Nodes, route : Routes]
ASSUME BoundsAssumption ==
  /\ MaxPosts \in Nat /\ MaxCalls \in Nat /\ MaxCrashes \in Nat
  /\ Patient \in BOOLEAN

VARIABLES
  call,     \* call[c]: the c-th POST made in the system
  posted,   \* how many of them clients have made
  up,       \* the containers that run
  crashes   \* how many crashes there have been

vars == <<call, posted, up, crashes>>

CallIds == 1 .. MaxCalls
Client == 0

(***************************************************************************)
(* pc of a call, as seen from the worker it was made to:                   *)
(*   sent     in the worker's socket, not read                             *)
(*   work     the handler is at step `step' of segment `at'                *)
(*   wait     the handler waits for call `sub'                             *)
(*   retry    go sleeps before it posts again, `tries' POSTs made          *)
(*   done     over; `result' is what the caller sees or would have seen    *)
(* `from' is the call whose handler made this one and `slot' the step that *)
(* handler was at (its last step + 1: the forward); `open' says whether    *)
(* the caller still holds the connection.                                  *)
(***************************************************************************)
Calls ==
  [node : Nodes, from : CallIds \cup {Client}, slot : Nat, pay : Payloads,
   pc : {"sent", "work", "wait", "retry", "done"}, at : Nat, step : Nat,
   sub : CallIds \cup {Client}, tries : Nat, open : BOOLEAN,
   result : Outcomes \cup {"none"}]

Lang(c) == LangOf[call[c].node]
Id(c)   == IdOf[call[c].node]

(* The segment the handler of c works on and its current step.             *)
Hop(c)     == Hops[call[c].pay.route][call[c].at]
InSteps(c) == call[c].step <= Len(Hop(c).steps)
Step(c)    == Hop(c).steps[call[c].step]

Running(c) == call[c].pc \in {"work", "wait", "retry"}
Answered(c) == call[c].result # "none"

(* A POST that reaches container n, or finds nobody listening there.       *)
Arrival(n, from, slot, p) ==
  [node |-> n, from |-> from, slot |-> slot, pay |-> p,
   pc |-> IF n \in up THEN "sent" ELSE "done", at |-> 0, step |-> 0,
   sub |-> Client, tries |-> 0, open |-> TRUE,
   result |-> IF n \in up THEN "none" ELSE "refused"]

Ended(me, o) == [me EXCEPT !.pc = "done", !.result = o]

Init ==
  /\ call = <<>>
  /\ posted = 0
  /\ up = Nodes
  /\ crashes = 0

-----------------------------------------------------------------------------
(* The handler.                                                            *)

ClientPosts ==
  /\ posted < MaxPosts
  /\ Len(call) < MaxCalls
  /\ \E q \in Posts : call' = Append(call, Arrival(q.to, Client, 0, Fresh(q.route)))
  /\ posted' = posted + 1
  /\ UNCHANGED <<up, crashes>>

(* A java worker is busy until the handler it runs has answered.           *)
Busy(n) == Serial(LangOf[n]) /\ \E d \in DOMAIN call : call[d].node = n /\ Running(d)

Begun(me) == [me EXCEPT !.pc = "work", !.at = FirstUnvisited(me.pay), !.step = 1]

Read(c) ==
  /\ call[c].pc = "sent"
  /\ ~Busy(call[c].node)
  /\ call' = [call EXCEPT ![c] =
                IF Admits(Lang(c), Id(c), @.pay) THEN Begun(@) ELSE Ended(@, "400")]
  /\ UNCHANGED <<posted, up, crashes>>

(* The POST itself: no peer URL is answered with 502.                      *)
SendTo(c, me, p) ==
  LET targets == Peers[me.node][Segment(p).id]
  IN  \/ /\ targets = {}
         /\ call' = [call EXCEPT ![c] = Ended(me, "502")]
      \/ /\ Len(call) < MaxCalls
         /\ \E n \in targets :
              call' = Append([call EXCEPT ![c] = [me EXCEPT !.pc = "wait",
                                                            !.sub = Len(call) + 1,
                                                            !.tries = @ + 1]],
                             Arrival(n, c, me.step, p))

Spin(c) ==
  /\ call[c].pc = "work" /\ InSteps(c)
  /\ ~StepFails(Lang(c), Id(c), Step(c))
  /\ ~StepIsNested(Lang(c), Step(c))
  /\ call' = [call EXCEPT ![c].step = @ + 1]
  /\ UNCHANGED <<posted, up, crashes>>

RaiseAs400(c) ==   \* slip
  /\ call[c].pc = "work" /\ InSteps(c)
  /\ StepFails(Lang(c), Id(c), Step(c))
  /\ call' = [call EXCEPT ![c] = Ended(@, "400")]
  /\ UNCHANGED <<posted, up, crashes>>

RaiseInStep(c) ==
  /\ call[c].pc = "work" /\ InSteps(c)
  /\ StepFails(Lang(c), Id(c), Step(c))
  /\ call' = [call EXCEPT ![c] = Ended(@, "502")]
  /\ UNCHANGED <<posted, up, crashes>>

PostNestedUnawaited(c) ==   \* slip
  /\ call[c].pc = "work" /\ InSteps(c) /\ StepIsNested(Lang(c), Step(c))
  /\ Len(call) < MaxCalls
  /\ \E n \in Peers[call[c].node][Hops[Step(c)][1].id] :
       call' = Append([call EXCEPT ![c].step = @ + 1],
                      Arrival(n, c, call[c].step, Fresh(Step(c))))
  /\ UNCHANGED <<posted, up, crashes>>

PostNested(c) ==
  /\ call[c].pc = "work" /\ InSteps(c)
  /\ ~StepFails(Lang(c), Id(c), Step(c))
  /\ StepIsNested(Lang(c), Step(c))
  /\ SendTo(c, call[c], Fresh(Step(c)))
  /\ UNCHANGED <<posted, up, crashes>>

(* The message after this worker's segment.                                *)
Visited(c) == MarkVisited(call[c].pay, call[c].at, Id(c))

AnswerTerminal(c) ==
  /\ call[c].pc = "work" /\ ~InSteps(c)
  /\ Complete(Visited(c))
  /\ call' = [call EXCEPT ![c] = Ended([@ EXCEPT !.pay = Visited(c)], "200")]
  /\ UNCHANGED <<posted, up, crashes>>

Forward(c) ==
  /\ call[c].pc = "work" /\ ~InSteps(c)
  /\ ~Complete(Visited(c))
  /\ SendTo(c, [call[c] EXCEPT !.pay = Visited(c)], Visited(c))
  /\ UNCHANGED <<posted, up, crashes>>

PostAgainMarked(c) ==   \* slip
  /\ call[c].pc = "retry"
  /\ LET p == IF InSteps(c) THEN Fresh(Step(c)) ELSE Visited(c)
     IN  SendTo(c, call[c], p)
  /\ UNCHANGED <<posted, up, crashes>>

(* The same POST again, body included.                                     *)
PostAgain(c) ==
  /\ call[c].pc = "retry"
  /\ SendTo(c, call[c], IF InSteps(c) THEN Fresh(Step(c)) ELSE call[c].pay)
  /\ UNCHANGED <<posted, up, crashes>>

(* A 200 is relayed with the body of the peer.                             *)
Relayed(me) == [me EXCEPT !.pay = call[me.sub].pay]

(* The handler of c goes on with outcome o of the POST it waited for.      *)
Resumed(c, o) ==
  LET me == call[c]
      nested == AfterNested(Lang(c), o)
      answer == AfterForward(Lang(c), o)
  IN  IF PostsAgain(Lang(c), o, me.tries) THEN [me EXCEPT !.pc = "retry"]
      ELSE IF InSteps(c)
      THEN IF nested = "next"
           THEN [me EXCEPT !.pc = "work", !.step = @ + 1, !.tries = 0]
           ELSE Ended(me, nested)
      ELSE Ended(IF answer = "200" THEN Relayed(me) ELSE me, answer)

ReceiveLate(c) ==   \* slip
  /\ call[c].pc \in {"wait", "done"} /\ call[c].sub # Client
  /\ Answered(call[c].sub)
  /\ call' = [call EXCEPT ![c] = Resumed(c, call[call[c].sub].result)]
  /\ UNCHANGED <<posted, up, crashes>>

Receive(c) ==
  /\ call[c].pc = "wait"
  /\ Answered(call[c].sub)
  /\ call' = [call EXCEPT ![c] = Resumed(c, call[call[c].sub].result)]
  /\ UNCHANGED <<posted, up, crashes>>

-----------------------------------------------------------------------------
(* Timers and hang-ups.                                                    *)

(* Something other than a timer or the environment can move call c.        *)
CanMove(c) ==
  \/ call[c].pc = "sent" /\ ~Busy(call[c].node)
  \/ call[c].pc \in {"work", "retry"}
  \/ call[c].pc = "wait" /\ Answered(call[c].sub)
  \/ Running(c) /\ ~call[c].open /\ (DropsAbandoned(Lang(c)) \/ CancelsAbandoned(Lang(c)))

TimersMayFire == Patient => \A c \in DOMAIN call : ~CanMove(c)

GiveUpSilently(c, o) == call' = [call EXCEPT ![c] = Resumed(c, o)]   \* slip

(* The handler stops waiting for o's reason and closes the connection.     *)
GiveUp(c, o) ==
  call' = [call EXCEPT ![c] = Resumed(c, o), ![call[c].sub].open = FALSE]

TimeOut(c) ==
  /\ call[c].pc = "wait" /\ HasTimer(Lang(c))
  /\ ~Answered(call[c].sub)
  /\ TimersMayFire
  /\ GiveUp(c, "timeout")
  /\ UNCHANGED <<posted, up, crashes>>

(* go: the request context of an abandoned call is cancelled.              *)
Cancel(c) ==
  /\ CancelsAbandoned(Lang(c)) /\ ~call[c].open
  /\ call[c].pc \in {"wait", "retry"}
  /\ GiveUp(c, "cancelled")
  /\ UNCHANGED <<posted, up, crashes>>

(* go: nor does a POST leave any more once the context is cancelled.       *)
Unsent(c) ==
  /\ CancelsAbandoned(Lang(c)) /\ ~call[c].open
  /\ call[c].pc = "work"
  /\ \/ /\ InSteps(c) /\ StepIsNested(Lang(c), Step(c))
        /\ call' = [call EXCEPT ![c] = Ended(@, "502")]
     \/ /\ ~InSteps(c) /\ ~Complete(Visited(c))
        /\ call' = [call EXCEPT ![c] = Ended([@ EXCEPT !.pay = Visited(c)], "502")]
  /\ UNCHANGED <<posted, up, crashes>>

(* rs: the handler of an abandoned call is dropped at its next await, and  *)
(* with it the connection it waits on.                                     *)
Drop(c) ==
  /\ DropsAbandoned(Lang(c)) /\ ~call[c].open
  /\ \/ /\ call[c].pc = "work"
        /\ call' = [call EXCEPT ![c] = Ended(@, "eof")]
     \/ /\ call[c].pc = "wait"
        /\ call' = [call EXCEPT ![c] = Ended(@, "eof"), ![call[c].sub].open = FALSE]
  /\ UNCHANGED <<posted, up, crashes>>

(* The client's own timer.                                                 *)
HangUp(c) ==
  /\ call[c].from = Client /\ call[c].open /\ ~Answered(c)
  /\ TimersMayFire
  /\ call' = [call EXCEPT ![c].open = FALSE]
  /\ UNCHANGED <<posted, up, crashes>>

-----------------------------------------------------------------------------
(* Containers stop and start.                                              *)

At(n) == {c \in DOMAIN call : call[c].node = n /\ call[c].pc # "done"}

(* Every handler of n is gone.  Its callers see the connection end or, a   *)
(* transient fault to go, reset or without a route; the calls it waited    *)
(* for go on without a caller.                                             *)
Crash(n) ==
  /\ crashes < MaxCrashes
  /\ n \in up
  /\ \E reset \in SUBSET At(n) :
       LET Left(c) == [call[c] EXCEPT !.open =
                         @ /\ (Answered(c) \/ call[c].from \notin At(n))]
       IN  call' = [c \in DOMAIN call |->
                     IF c \notin At(n) THEN Left(c)
                     ELSE Ended(Left(c), IF c \in reset THEN "reset" ELSE "eof")]
  /\ up' = up \ {n}
  /\ crashes' = crashes + 1
  /\ UNCHANGED posted

Restart(n) ==
  /\ n \notin up
  /\ up' = up \cup {n}
  /\ UNCHANGED <<call, posted, crashes>>

-----------------------------------------------------------------------------
Handler(c) ==
  \/ Read(c) \/ Spin(c) \/ RaiseInStep(c) \/ PostNested(c)
  \/ AnswerTerminal(c) \/ Forward(c) \/ PostAgain(c) \/ Receive(c)

Abandon(c) == TimeOut(c) \/ Cancel(c) \/ Unsent(c) \/ Drop(c)

(* Nothing is left to do: every call is over and no client posts again.    *)
AllOver ==
  /\ posted = MaxPosts
  /\ \A c \in DOMAIN call : call[c].pc = "done"
  /\ UNCHANGED vars

Next ==
  \/ ClientPosts
  \/ \E c \in DOMAIN call : Handler(c) \/ Abandon(c) \/ HangUp(c)
  \/ \E n \in Nodes : Crash(n) \/ Restart(n)
  \/ AllOver

Spec == Init /\ [][Next]_vars

(* Every handler that can take a step takes it, and timers do fire; nothing *)
(* is assumed of clients, crashes and restarts.                            *)
Fairness ==
  \A c \in CallIds :
    /\ WF_vars(c \in DOMAIN call /\ Handler(c))
    /\ WF_vars(c \in DOMAIN call /\ Abandon(c))

FairSpec == Spec /\ Fairness

-----------------------------------------------------------------------------
(* Properties.                                                             *)

(* Every variable has its type. *)
TypeOK ==
  /\ call \in Seq(Calls)
  /\ Len(call) <= MaxCalls
  /\ posted \in 0 .. MaxPosts
  /\ up \in SUBSET Nodes
  /\ crashes \in 0 .. MaxCrashes

(* The message of a call tells where the request has been: the visited
   segments are a prefix of the route, and visit_log, table_of_workers and
   counter agree with it - across forwards, relayed bodies, retries and
   crashes, whatever languages the message has passed through. *)
LogTellsRoute ==
  \A c \in DOMAIN call :
    LET p == call[c].pay
    IN  \E k \in 0 .. Len(Hops[p.route]) :
          /\ p.visited = 1 .. k
          /\ p.log = [i \in 1 .. k |-> Hops[p.route][i].id]
          /\ p.table = p.log
          /\ p.counter = k

(* visited and visit_log do not lie: every segment a message carries as visited
   has been worked through, steps and all, by a container whose own id the
   segment names - also where a stale peer address has led the message to the
   wrong container first. *)
VisitsHappened ==
  \A c \in DOMAIN call : \A i \in call[c].pay.visited :
    \E e \in DOMAIN call :
      /\ call[e].pay.route = call[c].pay.route
      /\ call[e].at = i /\ ~InSteps(e)
      /\ Id(e) = Hops[call[c].pay.route][i].id

(* A nested_route step is only left behind by a 200 of its sub-pipeline. *)
NestedFirst ==
  \A c \in DOMAIN call : call[c].at # 0 =>
    \A k \in DOMAIN Hop(c).steps :
      k < call[c].step /\ StepIsNested(Lang(c), Hop(c).steps[k]) =>
        \E d \in DOMAIN call :
          /\ call[d].from = c /\ call[d].slot = k
          /\ call[d].pay.route = Hop(c).steps[k]
          /\ call[d].result = "200"

(* A 200 is earned: it comes from the last segment of the route, or is the
   200, with the same body, of the call that took the message one segment
   further.  With NestedFirst: whoever sees 200 has had every hop and every
   sub-pipeline of the request executed. *)
OkIsEarned ==
  \A c \in DOMAIN call : call[c].result = "200" =>
    /\ Complete(call[c].pay)
    /\ \/ call[c].at = Len(Hops[call[c].pay.route])
       \/ LET d == call[c].sub
          IN  /\ call[d].from = c /\ call[d].slot = call[c].step
              /\ call[d].at = call[c].at + 1
              /\ call[d].result = "200"
              /\ call[d].pay = call[c].pay

(* The calls somebody still waits for form a stack: a live call with an open
   connection is the one its caller waits for, so a handler never has two of
   them and one that has ended leaves none behind. *)
OpenCallsFormStack ==
  \A d \in DOMAIN call :
    call[d].pc # "done" /\ call[d].open /\ call[d].from # Client =>
      call[call[d].from].pc = "wait" /\ call[call[d].from].sub = d

(* A handler makes the same POST twice only in a go worker, at most three
   times, and only after a refused or reset connection. *)
RepeatsOnlyByGo ==
  \A c, d \in DOMAIN call :
    /\ c < d /\ call[c].from = call[d].from /\ call[c].slot = call[d].slot
    /\ call[c].from # Client
    => /\ Lang(call[c].from) = "go"
       /\ call[c].result \in {"refused", "reset"}
       /\ Cardinality({e \in DOMAIN call : call[e].from = call[c].from
                                          /\ call[e].slot = call[c].slot}) <= GoMaxAttempts

(* The visit_log of a message never shrinks or changes, and the result of a
   call is final: a late answer to a caller that has given up, or the death of
   a worker, rewrites nothing. *)
NothingIsRewritten ==
  [][\A c \in DOMAIN call :
       /\ IsPrefix(call[c].pay.log, call'[c].pay.log)
       /\ Answered(c) => call'[c].result = call[c].result
                         /\ call'[c].pay = call[c].pay]_vars

(* A container every worker has a URL for.                                  *)
Named(i) == i # "py" /\ \A n \in Nodes : Peers[n][i] # {}

(* A request every worker on its way accepts and can pass on.               *)
Valid(n, r) ==
  /\ Hops[r] # <<>> /\ Hops[r][1].id = IdOf[n]
  /\ \A i \in DOMAIN Hops[r] :
       LET s == Hops[r][i].steps
       IN  /\ Named(Hops[r][i].id)
           /\ s # <<>> /\ \A k \in DOMAIN s :
                /\ s[k] # Invalid
                /\ s[k] \in Routes =>
                     /\ NestedOk(s[k], {"py", "py-gateway", Hops[r][i].id})
                     /\ \A j \in DOMAIN Hops[s[k]] :
                          /\ Named(Hops[s[k]][j].id)
                          /\ \A m \in DOMAIN Hops[s[k]][j].steps : Hops[s[k]][j].steps[m] = Cpu

(* While no worker crashes, a well-formed request is answered with 200, whatever
   is wrong with the one that is served at the same time. *)
ValidIsAnsweredOk ==
  crashes = 0 =>
    \A c \in DOMAIN call :
      call[c].from = Client /\ Answered(c) /\ Valid(call[c].node, call[c].pay.route) =>
        call[c].result = "200"

(* A client of a python worker that is told 400 sent a message nobody has
   worked on: a 400 from further down the route arrives as 502.  (Every segment
   has a proper id here; PythonServer has the one 400 that comes after the work.) *)
BadRequestMeansUntouched ==
  \A c \in DOMAIN call :
    call[c].from = Client /\ Lang(c) = "py" /\ call[c].result = "400" =>
      /\ call[c].at = 0
      /\ \A d \in DOMAIN call : call[d].from # c

(* Every call comes to an end, also one nobody waits for any more and one
   queued behind a busy java worker. *)
EveryCallEnds == <>[](\A c \in DOMAIN call : call[c].pc = "done")
=============================================================================
