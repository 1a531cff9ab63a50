----------------------------- MODULE PyTelemetry ------------------------------
(***************************************************************************)
(* What telemetry.py sets up in a python worker and what it does with the  *)
(* lines, measurements and spans the handler produces.                     *)
(*                                                                         *)
(* Lines wait in the queue of a BatchLogRecordProcessor, measurements are  *)
(* sums that a PeriodicExportingMetricReader sends every five seconds, a   *)
(* span is exported by the thread that ends it (SimpleSpanProcessor).      *)
(* Nothing is switched off explicitly: the SDK's providers shut down in    *)
(* atexit handlers, the last one registered first.                         *)
(*                                                                         *)
(* `tel' is a record: set, the providers that were set up; on, those that  *)
(* work; lines, how many lines the log provider was handed; queue, how     *)
(* many of them wait; shipped, how many arrived; hops and messages,        *)
(* histogram count and counter; seen, the last values of both the          *)
(* collector was sent; late, history: how much of lines, hops and messages *)
(* came to a provider that had been shut, which drops it.                  *)
(***************************************************************************)
EXTENDS Integers, Sequences

Kinds == {"spans", "metrics", "logs"}

Sums == [hops : Nat, messages : Nat]

Late == [lines : Nat, hops : Nat, messages : Nat]
NothingLate == [lines |-> 0, hops |-> 0, messages |-> 0]

Telemetry ==
  [set : SUBSET Kinds, on : SUBSET Kinds, lines : Nat, queue : Nat, shipped : Nat,
   hops : Nat, messages : Nat, seen : Sums, late : Late]

Off ==
  [set |-> {}, on |-> {}, lines |-> 0, queue |-> 0, shipped |-> 0, hops |-> 0,
   messages |-> 0, seen |-> [hops |-> 0, messages |-> 0], late |-> NothingLate]

(* OTEL_DEMO_TRACE_EXPORT and OTEL_DEMO_LOG_EXPORT: any other value than   *)
(* these sends the spans to stderr and nothing else anywhere.              *)
UseOtlpHttp(env) == env.export \in {"", "otlp", "http"}
UseOtlpLogExport(env) == UseOtlpHttp(env) /\ env.logs \notin {"0", "false", "no", "off"}

Chosen(env) ==
  {"spans"} \cup (IF UseOtlpHttp(env) THEN {"metrics"} ELSE {})
            \cup (IF UseOtlpLogExport(env) THEN {"logs"} ELSE {})

InitTelemetry(env) == [Off EXCEPT !.set = Chosen(env), !.on = Chosen(env)]

(* The lab's module has the same functions and sets up nothing.            *)
LabInitTelemetry(env) == Off

(* log_pipeline_line: stdout, and the log provider if there is one, which  *)
(* it does not ask whether it has been shut.                               *)
LogPipelineLine(t) ==
  IF "logs" \notin t.set THEN t
  ELSE IF "logs" \in t.on THEN [t EXCEPT !.lines = @ + 1, !.queue = @ + 1]
  ELSE [t EXCEPT !.lines = @ + 1, !.late.lines = @ + 1]
LabLogPipelineLine(t) == t

RecordHop(t) ==
  IF "metrics" \notin t.set THEN t
  ELSE IF "metrics" \in t.on THEN [t EXCEPT !.hops = @ + 1]
  ELSE [t EXCEPT !.hops = @ + 1, !.late.hops = @ + 1]

AddMessage(t) ==
  IF "metrics" \notin t.set THEN t
  ELSE IF "metrics" \in t.on THEN [t EXCEPT !.messages = @ + 1]
  ELSE [t EXCEPT !.messages = @ + 1, !.late.messages = @ + 1]

(* init_pyroscope_push: off, pushing, without its package, or refused by   *)
(* pyroscope.configure - a line, and never a reason not to start.          *)
InitPyroscopePush(env, t) == IF env.profiler = "off" THEN t ELSE LogPipelineLine(t)
LabInitPyroscopePush(env, t) == t

(* The legacy gateway does not catch what pyroscope.configure raises.      *)
LegacyPyroscopeRaises(env) == env.profiler = "refused"

-----------------------------------------------------------------------------
(* The SDK's exporters.  A batch that cannot be sent is dropped; the next  *)
(* sums make up for lost ones.                                             *)

ShipLogs(t, ok) ==
  [t EXCEPT !.queue = 0, !.shipped = IF ok THEN @ + t.queue ELSE @]

ShowSums(t, ok) ==
  IF ok THEN [t EXCEPT !.seen = [hops |-> t.hops, messages |-> t.messages]] ELSE t

(* Shutting a provider down sends what it has; afterwards it takes nothing *)
(* more.  Log provider before meter provider before tracer provider.       *)
NextToShut(t) ==
  IF "logs" \in t.on THEN "logs" ELSE IF "metrics" \in t.on THEN "metrics" ELSE "spans"

ShutUnsent(t, ok) == [t EXCEPT !.on = @ \ {NextToShut(t)}]   \* slip

Shut(t, ok) ==
  LET k == NextToShut(t)
      sent == CASE k = "logs" -> ShipLogs(t, ok)
                [] k = "metrics" -> ShowSums(t, ok)
                [] k = "spans" -> t
  IN  [sent EXCEPT !.on = @ \ {k}]

=============================================================================
