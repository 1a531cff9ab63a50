----------------------------- MODULE PythonServer -----------------------------
(***************************************************************************)
(* One container of the python worker: the process from its entry point to *)
(* its exit, the threads that serve requests, and the telemetry both       *)
(* produce.  It runs the complete worker, the incomplete one of the lab,   *)
(* which has the same handler and no telemetry, or the legacy gateway the  *)
(* two descend from, which has no entry point of its own.                  *)
(*                                                                         *)
(* Pipeline has many containers and messages that parse; here are one      *)
(* process and raw bodies, and the peers are what they answer.             *)
(***************************************************************************)
EXTENDS PyMessage, PyTelemetry, FiniteSets, SequencesExt

CONSTANTS
  Reqs,      \* the requests clients may post
  Envs,      \* the environments the process may be started in
  Bodies,    \* Bodies[e]: what they may carry there, a body and a traceparent
  Dashed,    \* Dashed[t]: "_" replaced by "-" in a text t that begins with "py_"
  Ticks,     \* TRUE: the exporters' own threads may find it time to export
  Signals    \* the signals the process may get: a subset of {"INT", "KILL"}

(* What clients may post is JSON, so arrays are finite; wherever the process *)
(* is started, there is something they may post.                            *)
ASSUME BodiesAssumption ==
  \A e \in Envs : Bodies[e] # {} /\ \A b \in Bodies[e] : IsBody(b)

(* env      the environment the process was started in                     *)
(* proc     entry -> config -> bind -> serving -> closing -> exiting ->    *)
(*          over, and from almost anywhere to exiting                      *)
(* code     the exit code it has, or is going to have; "none"              *)
(* tel      see PyTelemetry                                                *)
(* thread   thread[r]: the connection of request r and the thread it has   *)
(* spans    the spans the collector has received                           *)
VARIABLES env, proc, code, tel, thread, spans

vars == <<env, proc, code, tel, thread, spans>>

-----------------------------------------------------------------------------
(* The environment variables.                                              *)

NormalizeMode(raw) ==
  IF raw \in {"incomplete", "lab", "partial", "0", "no", "false"}
  THEN "incomplete" ELSE "complete"

Legacy == env.program = "legacy"
Complete == Legacy \/ NormalizeMode(env.mode) = "complete"

(* DEMO_WORKER_ID: the legacy gateway can do without.                      *)
WorkerId == IF Legacy /\ env.id = "" THEN "py" ELSE env.id

(* DEMO_PEER_MAP or the DEMO_PEER_ variables: keys with a URL that is not  *)
(* blank.  "py" is refused, "py_worker" becomes "py-worker".               *)
PeersOk == env.peermap # "junk" /\ \A k \in env.peers : Tidy[k] # "py"
PeerIds == {Dashed[Tidy[k]] : k \in env.peers}
LegacyPeersOk == env.peermap # "junk"
LegacyPeerIds == {Tidy[k] : k \in env.peers}

(* Whether an export to the collector may fail.                            *)
Flaky == env.collector = "flaky"

PeerUrl(id) == Tidy[id] \in (IF Legacy THEN LegacyPeerIds ELSE PeerIds)

-----------------------------------------------------------------------------
(* The thread of a request.                                                *)
(*   none, sent    not posted; in the backlog of the socket                *)
(*   read, route   the body is read; its route is looked at                *)
(*   steps, spin   before step k of the segment; in it                     *)
(*   wait          urlopen, for a nested route or (k > steps) the forward  *)
(*   ending        spans end until `keep' are left, then `then' follows    *)
(*   mark          all steps done; reply: the 200 is about to be written   *)
(*   count         it has been; finally: the finally block of do_POST      *)
(*   over                                                                  *)
(* `open' are the spans begun and not ended, innermost last, `sent' the    *)
(* traceparents of its POSTs, `heard' the outcome of the last one.         *)
(* `answer' is what the client gets, "unread" a 200 written to a           *)
(* connection whose other end has just been closed.                        *)

NoSpan == <<"none", 0>>
Remote == <<"remote", 0>>
SpanIds == ({"hop", "processing", "step", "client"} \X Nat) \cup {NoSpan, Remote}

Threads ==
  [pc : {"none", "sent", "read", "route", "steps", "spin", "wait", "ending", "mark",
         "reply", "count", "finally", "over"},
   body : Bodies[env], k : Nat, open : Seq([id : SpanIds, parent : SpanIds]),
   keep : 0 .. 2, then : {"none", "steps", "mark", "reply", "finally"},
   sent : Seq(SpanIds), heard : {"none", "200", "error", "torn"},
   answer : {"none", "200", "400", "502", "unread", "lost"}, gone : BOOLEAN,
   missed : BOOLEAN]

NoThread ==
  [pc |-> "none", body |-> CHOOSE b \in Bodies[env] : TRUE, k |-> 0, open |-> <<>>,
   keep |-> 0, then |-> "none", sent |-> <<>>, heard |-> "none", answer |-> "none",
   gone |-> FALSE, missed |-> FALSE]

TypeOK ==
  /\ env \in Envs
  /\ proc \in {"entry", "config", "bind", "serving", "closing", "exiting", "over"}
  /\ code \in {"none", "0", "1", "2", "130", "137"}
  /\ tel \in Telemetry
  /\ thread \in [Reqs -> Threads]
  /\ \A s \in spans : s.req \in Reqs /\ s.id \in SpanIds /\ s.parent \in SpanIds

StepList(t) == StepsOfBody(t.body)
AllStepsDone(t) == t.k > Len(StepList(t))

(* The id of the peer it is posting to, or would.                          *)
NextPeer(t) == IF AllStepsDone(t) THEN NextId(t.body) ELSE StepList(t)[t.k].route[1].id

(* start_as_current_span; the lab's tracer begins nothing.                 *)
Begin(t, name) ==
  LET parent == IF t.open # <<>> THEN Last(t.open).id ELSE IF t.body.ctx THEN Remote ELSE NoSpan
  IN  IF Complete
      THEN [t EXCEPT !.open = Append(@, [id |-> <<name, t.k>>, parent |-> parent])]
      ELSE t

(* The with blocks end down to `keep' of them, then `then' is next.        *)
Settled(t) == IF Len(t.open) <= t.keep THEN [t EXCEPT !.pc = t.then] ELSE t
Ends(t, keep, then) ==
  Settled([t EXCEPT !.pc = "ending", !.keep = keep, !.then = then])

LeavesAtOnce(t, answer) ==   \* slip
  Ends([t EXCEPT !.answer = IF t.gone THEN "lost" ELSE answer], 0, "over")

(* An answer and the way out, by return or by an exception.                *)
Leaves(t, answer) ==
  Ends([t EXCEPT !.answer = IF t.gone THEN "lost" ELSE answer], 0, "finally")

LabTraceparent(t) == NoSpan   \* slip
Traceparent(t) == IF Complete THEN Last(t.open).id ELSE NoSpan

(* _forward_to_next, up to the answer.                                     *)
Posts(t) == [t EXCEPT !.pc = "wait", !.sent = Append(@, Traceparent(t))]

Logged(t) == IF Complete THEN LogPipelineLine(t) ELSE LabLogPipelineLine(t)

(* Thread r becomes t, the telemetry m.                                    *)
Goes(r, t, m) ==
  /\ thread' = [thread EXCEPT ![r] = t]
  /\ tel' = m
  /\ UNCHANGED <<env, proc, code, spans>>

Connect(r) ==
  /\ proc = "serving" /\ thread[r].pc = "none"
  /\ \E b \in Bodies[env] : Goes(r, [NoThread EXCEPT !.pc = "sent", !.body = b], tel)

ClientGone(r) ==
  /\ thread[r].pc \notin {"none", "over"} /\ thread[r].answer = "none" /\ ~thread[r].gone
  /\ Goes(r, [thread[r] EXCEPT !.gone = TRUE], tel)

AcceptSerial(r) ==   \* slip
  /\ proc = "serving" /\ thread[r].pc = "sent"
  /\ \A q \in Reqs : thread[q].pc \in {"none", "sent", "over"}
  /\ Goes(r, [thread[r] EXCEPT !.pc = "read"], tel)

Accept(r) ==
  /\ proc = "serving" /\ thread[r].pc = "sent"
  /\ Goes(r, [thread[r] EXCEPT !.pc = "read"], tel)

(* Up to the line "received".                                              *)
Read(r) ==
  LET t == thread[r]
      answer == IF t.body.form = "raises" \/ t.gone THEN "lost" ELSE "400"
  IN  /\ t.pc = "read"
      /\ IF t.body.form = "object"
         THEN Goes(r, [t EXCEPT !.pc = "route"], Logged(tel))
         ELSE Goes(r, [t EXCEPT !.pc = "over", !.answer = answer], tel)

Admitted(t) ==
  IF Legacy THEN LegacyAdmissible(WorkerId, t.body) ELSE Admissible(WorkerId, t.body)
RefusalRaises(t) ==
  IF Legacy THEN LegacyAdmissionRaises(WorkerId, t.body) ELSE AdmissionRaises(WorkerId, t.body)

Admit(r) ==
  LET t == thread[r]
  IN  /\ t.pc = "route"
      /\ Goes(r, IF Admitted(t)
                 THEN [Begin(Begin(t, "hop"), "processing") EXCEPT !.pc = "steps", !.k = 1]
                 ELSE Leaves(t, IF RefusalRaises(t) THEN "lost" ELSE "400"),
              tel)

(* send_error(502) quotes the id that has no URL.                          *)
NoPeerUrl(id) == IF id \in Foreign THEN "lost" ELSE "502"

Step(r) ==
  LET t == thread[r]
      s == StepList(t)[t.k]
      begun == Begin(t, "step")
  IN  /\ t.pc = "steps" /\ ~AllStepsDone(t)
      /\ IF ~s.nested THEN Goes(r, [begun EXCEPT !.pc = "spin"], tel)
         ELSE IF ~PeerUrl(s.route[1].id)
              THEN Goes(r, Leaves(begun, NoPeerUrl(s.route[1].id)), tel)
         ELSE Goes(r, Posts(Begin(begun, "client")), Logged(tel))

Spun(r) ==
  LET t == thread[r]
  IN  /\ t.pc = "spin"
      /\ Goes(r, Ends([t EXCEPT !.k = @ + 1], 2, "steps"), tel)

StepsEnd(r) ==
  LET t == thread[r]
  IN  /\ t.pc = "steps" /\ AllStepsDone(t)
      /\ Goes(r, Ends(t, 1, "mark"), tel)

MarkRefusing(r) ==   \* slip
  LET t == thread[r]
  IN  /\ t.pc = "mark"
      /\ IF ~t.body.counter THEN Goes(r, Leaves(t, "400"), tel)
         ELSE IF LastHop(t.body) THEN Goes(r, [t EXCEPT !.pc = "reply"], Logged(tel))
         ELSE IF ~PeerUrl(NextId(t.body))
              THEN Goes(r, Leaves(t, NoPeerUrl(NextId(t.body))), tel)
         ELSE Goes(r, Posts(Begin(t, "client")), Logged(tel))

(* _bump_counter_table raises on a counter that is no number; the id of    *)
(* the next segment is looked at here and nowhere before.                  *)
Mark(r) ==
  LET t == thread[r]
  IN  /\ t.pc = "mark"
      /\ IF ~t.body.counter THEN Goes(r, Leaves(t, "lost"), tel)
         ELSE IF LastHop(t.body) THEN Goes(r, [t EXCEPT !.pc = "reply"], Logged(tel))
         ELSE IF ~Named(NextId(t.body)) THEN Goes(r, Leaves(t, "400"), tel)
         ELSE IF ~PeerUrl(NextId(t.body))
              THEN Goes(r, Leaves(t, NoPeerUrl(NextId(t.body))), tel)
         ELSE Goes(r, Posts(Begin(t, "client")), Logged(tel))

StatusRelayed(t, o) ==   \* slip
  CASE o = "error" -> Leaves(t, "400")
    [] o = "torn" -> Leaves(t, "lost")
    [] o = "200" -> IF ~AllStepsDone(t) THEN Ends([t EXCEPT !.k = @ + 1], 2, "steps")
                    ELSE Ends(t, 1, "reply")

(* "error": URLError or OSError, an HTTP status from 400 and the timeout   *)
(* included; "torn": an HTTPException, which nobody catches.               *)
Resumed(t, o) ==
  CASE o = "error" -> Leaves(t, "502")
    [] o = "torn" -> Leaves(t, "lost")
    [] o = "200" -> IF ~AllStepsDone(t) THEN Ends([t EXCEPT !.k = @ + 1], 2, "steps")
                    ELSE Ends(t, 1, "reply")

Hear(r) ==
  LET t == thread[r]
  IN  /\ t.pc = "wait"
      /\ \E o \in {"200", "error", "torn"} :
           Goes(r, Resumed([t EXCEPT !.heard = o], o), tel)

ReplyUnchecked(r) ==   \* slip
  LET t == thread[r]
  IN  /\ t.pc = "reply"
      /\ Goes(r, [t EXCEPT !.pc = "count", !.answer = IF t.gone THEN "lost" ELSE "200"], tel)

(* Writing to a connection the client has closed may raise or not.         *)
Reply(r) ==
  LET t == thread[r]
  IN  /\ t.pc = "reply"
      /\ \/ ~t.gone /\ Goes(r, [t EXCEPT !.pc = "count", !.answer = "200"], tel)
         \/ t.gone /\ Goes(r, [t EXCEPT !.pc = "count", !.answer = "unread"], tel)
         \/ t.gone /\ Goes(r, Leaves(t, "lost"), tel)

Count(r) ==
  LET t == thread[r]
  IN  /\ t.pc = "count"
      /\ Goes(r, Ends(t, 0, "finally"), IF Complete THEN AddMessage(tel) ELSE tel)

(* The outermost finally: the histogram.                                   *)
Finally(r) ==
  /\ thread[r].pc = "finally"
  /\ Goes(r, [thread[r] EXCEPT !.pc = "over"], IF Complete THEN RecordHop(tel) ELSE tel)

EndSpanLost(r) ==   \* slip
  LET t == thread[r]
  IN  /\ t.pc = "ending"
      /\ thread' = [thread EXCEPT ![r] = Settled([t EXCEPT !.open = SubSeq(@, 1, t.keep)])]
      /\ spans' = spans \cup {[req |-> r, id |-> Last(t.open).id, parent |-> Last(t.open).parent]}
      /\ UNCHANGED <<env, proc, code, tel>>

(* A span is exported by the thread that ends it, before it goes on.       *)
EndSpan(r) ==
  LET t == thread[r]
      s == Last(t.open)
      left == Settled([t EXCEPT !.open = Front(@)])
  IN  /\ t.pc = "ending"
      /\ \/ /\ "spans" \in tel.on
            /\ spans' = spans \cup {[req |-> r, id |-> s.id, parent |-> s.parent]}
            /\ thread' = [thread EXCEPT ![r] = left]
         \/ /\ "spans" \notin tel.on \/ Flaky
            /\ thread' = [thread EXCEPT ![r] = [left EXCEPT !.missed = TRUE]]
            /\ UNCHANGED spans
      /\ UNCHANGED <<env, proc, code, tel>>

-----------------------------------------------------------------------------
(* The process.                                                            *)

Moves(to, c, m) == proc' = to /\ code' = c /\ tel' = m /\ UNCHANGED <<env, spans>>

(* A thread that is still at work when the process ends.                   *)
Dead(t) ==
  IF t.pc \in {"none", "over"} THEN t
  ELSE [t EXCEPT !.pc = "over", !.answer = IF @ = "none" THEN "lost" ELSE @, !.missed = TRUE]

(* The directory of the mode is put on the path - if the image has it.     *)
Enter ==
  /\ proc = "entry"
  /\ IF Legacy \/ env.installed THEN Moves("config", "none", tel) ELSE Moves("exiting", "1", tel)
  /\ UNCHANGED thread

(* run_server up to the handler class.                                     *)
Configure ==
  /\ proc = "config" /\ ~Legacy
  /\ IF WorkerId = "" \/ ~PeersOk THEN Moves("exiting", "1", tel)
     ELSE Moves("bind", "none",
                IF Complete THEN InitPyroscopePush(env, InitTelemetry(env))
                ELSE LabInitPyroscopePush(env, LabInitTelemetry(env)))
  /\ UNCHANGED thread

LegacyConfigure ==
  /\ proc = "config" /\ Legacy
  /\ IF ~LegacyPeersOk THEN Moves("exiting", "1", tel)
     ELSE IF LegacyPyroscopeRaises(env) THEN Moves("exiting", "1", InitTelemetry(env))
     ELSE Moves("bind", "none", InitPyroscopePush(env, InitTelemetry(env)))
  /\ UNCHANGED thread

Bind ==
  /\ proc = "bind"
  /\ IF env.taken THEN Moves("exiting", "2", Logged(tel))
     ELSE Moves("serving", "none", Logged(tel))
  /\ UNCHANGED thread

(* Only serve_forever is prepared for a KeyboardInterrupt; the entry point *)
(* makes an exit code of one that comes earlier or later.                  *)
Interrupt ==
  /\ "INT" \in Signals
  /\ \/ proc = "serving" /\ Moves("closing", "0", tel)
     \/ proc \in {"entry", "config", "bind", "closing"}
        /\ Moves("exiting", IF Legacy THEN "130" ELSE "1", tel)
  /\ UNCHANGED thread

CloseJoining ==   \* slip
  /\ proc = "closing"
  /\ \A r \in Reqs : thread[r].pc \in {"none", "sent", "over"}
  /\ Moves("exiting", "0", tel)
  /\ thread' = [r \in Reqs |-> IF thread[r].pc = "sent" THEN Dead(thread[r]) ELSE thread[r]]

(* server_close does not wait for the threads, they are daemons;           *)
(* force_flush finds nothing to send.                                      *)
Close ==
  /\ proc = "closing"
  /\ Moves("exiting", "0", tel)
  /\ thread' = [r \in Reqs |-> IF thread[r].pc = "sent" THEN Dead(thread[r]) ELSE thread[r]]

(* atexit, while threads go on; then the process ends and they with it.    *)
Exit ==
  /\ proc = "exiting"
  /\ \/ /\ tel.on # {}
        /\ \E ok \in {TRUE, ~Flaky} : Moves("exiting", code, Shut(tel, ok))
        /\ UNCHANGED thread
     \/ /\ tel.on = {}
        /\ Moves("over", code, tel)
        /\ thread' = [r \in Reqs |-> Dead(thread[r])]

(* docker stop: python, the first process of the container, has no handler *)
(* for SIGTERM and is killed ten seconds later.                            *)
Kill ==
  /\ "KILL" \in Signals /\ proc # "over"
  /\ Moves("over", "137", [tel EXCEPT !.on = {}])
  /\ thread' = [r \in Reqs |-> Dead(thread[r])]

(* The exporters' own threads.                                             *)
ExportTick ==
  /\ Ticks
  /\ \E ok \in {TRUE, ~Flaky} :
       \/ "logs" \in tel.on /\ tel.queue > 0 /\ tel' = ShipLogs(tel, ok)
       \/ "metrics" \in tel.on /\ tel' = ShowSums(tel, ok) /\ tel' # tel
  /\ UNCHANGED <<env, proc, code, thread, spans>>

Init ==
  /\ env \in Envs
  /\ proc = "entry" /\ code = "none"
  /\ tel = Off
  /\ thread = [r \in Reqs |-> NoThread]
  /\ spans = {}

(* What thread r does by itself.                                           *)
Works(r) ==
  \/ Accept(r) \/ Read(r) \/ Admit(r) \/ Step(r) \/ Spun(r) \/ StepsEnd(r) \/ Mark(r)
  \/ Reply(r) \/ Count(r) \/ Finally(r) \/ EndSpan(r)

Runs == Enter \/ Configure \/ LegacyConfigure \/ Bind \/ Close \/ Exit

Rests == proc \in {"serving", "over"} /\ UNCHANGED vars

Next ==
  \/ \E r \in Reqs : Connect(r) \/ Works(r) \/ Hear(r) \/ ClientGone(r)
  \/ Runs \/ Interrupt \/ Kill \/ ExportTick \/ Rests

Spec == Init /\ [][Next]_vars

(* The process and its threads are scheduled.  Of peers nothing is assumed *)
(* here, not even that they answer.                                        *)
FairSpec == Spec /\ WF_vars(Runs) /\ \A r \in Reqs : WF_vars(Works(r))

-----------------------------------------------------------------------------
(* Properties.                                                             *)

(* A thread as a request of WorkerContract: what the client has been told  *)
(* ends it, whatever spans are still to end; a forwarded message is asked  *)
(* for until the 200 is written.                                           *)
AsRequest(t) ==
  LET begun == t.k # 0
      last == begun /\ LastHop(t.body)
      replies == t.pc = "reply" \/ (t.pc = "ending" /\ t.then = "reply")
      state ==
        IF t.pc = "none" THEN "unasked"
        ELSE IF t.answer # "none" THEN "over"
        ELSE IF t.pc \in {"sent", "read", "route"} THEN "asked"
        ELSE IF t.pc = "wait" \/ (~last /\ replies) THEN "asking"
        ELSE "working"
  IN  [state  |-> state,
       todo   |-> IF begun THEN Len(StepList(t)) ELSE 0,
       done   |-> IF begun THEN t.k - 1 ELSE 0,
       last   |-> last,
       answer |-> IF t.answer = "unread" THEN "lost" ELSE t.answer]

Contract == INSTANCE WorkerContract WITH Requests <- Reqs,
                                         req <- [r \in Reqs |-> AsRequest(thread[r])]

(* The python server keeps the contract of a worker for requests it serves
   concurrently, with bodies of any shape, clients that leave, exports that fail,
   signals and a kill: run_server and the Handler class. *)
KeepsContract == Contract!Spec

OkAnswers == {"200", "unread"}

(* What a refusal would have to quote and the status line cannot hold: an id that is
   not the own one or has no URL, the time of a step; or the time is no float. *)
Unwritable(t) ==
  IF t.k = 0
  THEN /\ FirstUnvisitedIndex(t.body.route) # 0
       /\ \/ WorkerId # Segment(t.body).id /\ {WorkerId, Segment(t.body).id} \cap Foreign # {}
          \/ \E j \in DOMAIN StepList(t) : StepList(t)[j].time = "raises"
  ELSE NextPeer(t) \in Foreign /\ ~PeerUrl(NextPeer(t))

(* Every answer has its reason.  200: all steps are done, each nested route and the
   rest of the message was posted once and the last answer was no failure.  400:
   nobody has done anything yet - or everything, and the next segment has no name.
   502: a peer failed or has no URL.  No answer: the client or the process is gone,
   the body or the counter raises, a peer's answer was torn, or the refusal could
   not be written. *)
AnswerIsExplained ==
  \A r \in Reqs :
    LET t == thread[r]
        nested == {j \in DOMAIN StepList(t) : StepList(t)[j].nested}
    IN  /\ t.answer \in OkAnswers =>
             /\ AllStepsDone(t) /\ t.heard \in {"none", "200"}
             /\ Len(t.sent) = Cardinality(nested) + (IF LastHop(t.body) THEN 0 ELSE 1)
        /\ t.answer = "400" =>
             \/ t.k = 0 /\ t.sent = <<>>
             \/ /\ t.k # 0 /\ AllStepsDone(t) /\ t.body.counter /\ ~LastHop(t.body)
                /\ ~Named(NextId(t.body))
        /\ t.answer = "502" => t.k # 0 /\ (t.heard = "error" \/ ~PeerUrl(NextPeer(t)))
        /\ t.answer = "lost" =>
             \/ t.gone \/ proc \notin {"serving"} \/ t.heard = "torn"
             \/ t.body.form = "raises" \/ ~t.body.counter \/ Unwritable(t)

(* One trace per request: every span the collector gets hangs where the code says,
   the hop under the caller's traceparent, a POST under the step or hop that makes
   it, and every POST carries the id of a CLIENT span of its own
   (docs/python-gateway-worker-integration.md, _forward_to_next). *)
TraceContinues ==
  Complete =>
    \A r \in Reqs :
      LET t == thread[r]
          Parent(id) == CASE id[1] = "hop" -> IF t.body.ctx THEN Remote ELSE NoSpan
                          [] id[1] = "processing" -> <<"hop", 0>>
                          [] id[1] = "step" -> <<"processing", 0>>
                          [] id[1] = "client" -> IF id[2] > Len(StepList(t)) THEN <<"hop", 0>>
                                                 ELSE <<"step", id[2]>>
      IN  /\ \A s \in spans : s.req = r => s.parent = Parent(s.id)
          /\ \A i \in DOMAIN t.sent : t.sent[i][1] = "client"
          /\ IsInjective(t.sent)

(* However a request ends, the trace the collector has of it is whole: no span
   without its parent, no POST without its CLIENT span - unless an export failed
   or the process was shut down on the way. *)
TraceIsWhole ==
  Complete =>
    \A r \in Reqs : thread[r].pc = "over" /\ ~thread[r].missed =>
      LET ids == {s.id : s \in {q \in spans : q.req = r}}
      IN  /\ \A s \in spans : s.req = r => s.parent \in ids \cup {NoSpan, Remote}
          /\ ToSet(thread[r].sent) \subseteq ids

(* demo.pipeline.messages counts the 200s that were written, one that nobody read
   included, and lags behind only by threads between writing and counting; the
   histogram has one value per JSON object read, whatever became of it. *)
CountsTellAnswers ==
  "metrics" \in tel.on /\ proc \in {"serving", "closing"} =>
    /\ tel.messages = Cardinality({r \in Reqs : /\ thread[r].answer \in OkAnswers
                                                /\ thread[r].pc # "count"})
    /\ tel.hops = Cardinality({r \in Reqs : /\ thread[r].pc = "over"
                                            /\ thread[r].body.form = "object"})

(* Nothing in the code shuts the providers down, and handler threads run until the
   very end.  What they hand over once atexit has shut a provider is lost, and only
   that: a process that ends by itself - stopped by SIGINT, misconfigured, or its
   port taken - has sent every other line and the sums of all other measurements,
   and if nobody was served, every line there was. *)
OnlyLateIsLost ==
  ~Flaky /\ proc = "over" /\ code # "137" =>
    /\ tel.queue = 0 /\ tel.shipped = tel.lines - tel.late.lines
    /\ tel.seen = [hops     |-> tel.hops - tel.late.hops,
                   messages |-> tel.messages - tel.late.messages]
    /\ (\A r \in Reqs : thread[r].pc = "none") => tel.late = NothingLate

(* Once it closes, the process ends, also while handlers wait for their peers. *)
StopEnds == (proc \in {"closing", "exiting"}) ~> (proc = "over")

(* Only a peer can hold a request up: not another request, not the collector. *)
OnlyPeersHoldRequests == <>[](\A r \in Reqs : thread[r].pc \in {"none", "wait", "over"})
=============================================================================
