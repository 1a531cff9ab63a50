------------------------------- MODULE Startup --------------------------------
(***************************************************************************)
(* How docker compose brings the services of docker-compose.yml up, and    *)
(* what go's book of peer addresses, written once at its start, is worth   *)
(* afterwards.  Pipeline takes for granted that every container listens    *)
(* and that Peers tells who is reached; this module is where that comes    *)
(* from.                                                                   *)
(***************************************************************************)
EXTENDS Integers, FiniteSets, FiniteSetsExt

CONSTANT MaxStops   \* bound on containers that stop

ASSUME StartupAssumption == MaxStops \in Nat

VARIABLES
  phase,      \* of every service's container
  health,     \* what docker says of those with a healthcheck
  addr,       \* the address of every container, 0 for none
  book,       \* go's peers: a name not yet looked up, looked up in vain, or an address
  compose,    \* docker compose up: running, done, failed
  met,        \* <<s, d>>: compose has found d healthy, which s waits for
  stops,      \* history: how many containers have stopped
  heard,      \* history: services that have listened
  gone, born  \* history: services that stopped and started since go looked them up

vars == <<phase, health, addr, book, compose, met, stops, heard, gone, born>>

(* rust and csharp have the dependencies of go and nobody waits for them:  *)
(* go may well look them up in vain, and they are left out.                *)
Services == {"ja", "gateway", "pw", "go"}
Peers == Services \ {"go"}
Addresses == 1 .. Cardinality(Services)

PwOnlyJava == [s \in Services |-> {"ja"} \ {s}]   \* slip

(* depends_on: what has to be healthy, and what has to have been started.  *)
(* All wait for the collector and pyroscope to be started, the collector   *)
(* for jaeger and tempo; none of these waits for a worker or is a peer, and *)
(* they are left out.                                                      *)
Healthy ==
  [ja |-> {}, gateway |-> {"ja"}, pw |-> {"ja", "gateway"},
   go |-> {"ja"}]

NoneStarted == [s \in Services |-> {}]   \* slip

Started ==
  [s \in Services |-> IF s = "go" THEN {"pw"} ELSE {}]

Checked == UNION {Healthy[s] : s \in Services}

Runs(s) == phase[s] \in {"booting", "listening"}

CountedAddress == Cardinality({s \in Services : addr[s] # 0}) + 1   \* slip

(* Docker hands out the lowest free address.                               *)
FreeAddress == Min({a \in Addresses : \A s \in Services : addr[s] # a})

(* What go's book says of a peer that has no address in it.                *)
NotAsked == -3
NoSuchName == -2
TooSlow == -1

Init ==
  /\ phase = [s \in Services |-> "created"]
  /\ health = [s \in Checked |-> "starting"]
  /\ addr = [s \in Services |-> 0]
  /\ book = [p \in Peers |-> NotAsked]
  /\ compose = "running" /\ met = {} /\ stops = 0
  /\ heard = {} /\ gone = {} /\ born = {}

-----------------------------------------------------------------------------
(* Containers.                                                             *)

BeginWithOldBook(s) ==   \* slip
  /\ phase' = [phase EXCEPT ![s] = "booting"]
  /\ addr' = [addr EXCEPT ![s] = FreeAddress]
  /\ IF s = "go" THEN gone' = {} /\ born' = {} ELSE gone' = gone /\ born' = born \cup {s}
  /\ UNCHANGED <<health, book>>

(* go's process starts with an empty book.                                 *)
Begin(s) ==
  /\ phase' = [phase EXCEPT ![s] = "booting"]
  /\ addr' = [addr EXCEPT ![s] = FreeAddress]
  /\ health' = [d \in Checked |-> IF d = s THEN "starting" ELSE health[d]]
  /\ IF s = "go"
     THEN book' = [p \in Peers |-> NotAsked] /\ gone' = {} /\ born' = {}
     ELSE book' = book /\ gone' = gone /\ born' = born \cup {s}

Stop(s) ==
  /\ Runs(s) /\ stops < MaxStops
  /\ phase' = [phase EXCEPT ![s] = "down"]
  /\ addr' = [addr EXCEPT ![s] = 0]
  /\ stops' = stops + 1
  /\ gone' = gone \cup {s}
  /\ UNCHANGED <<health, book, compose, met, heard, born>>

Restart(s) ==
  /\ phase[s] = "down" /\ Begin(s)
  /\ UNCHANGED <<compose, met, stops, heard>>

AnswersWaited(p) == IF Runs(p) THEN {addr[p]} ELSE {}   \* slip

(* main of the go worker: a name is looked up once, for eight seconds at   *)
(* most, and what is not found stays a name in the URL.                    *)
Answers(p) == {TooSlow, IF Runs(p) THEN addr[p] ELSE NoSuchName}

LookUp(p) ==
  /\ phase["go"] = "booting" /\ book[p] = NotAsked
  /\ \E a \in Answers(p) : book' = [book EXCEPT ![p] = a]
  /\ gone' = gone \ {p}
  /\ UNCHANGED <<phase, health, addr, compose, met, stops, heard, born>>

Boot(s) ==
  /\ phase[s] = "booting"
  /\ s = "go" => \A p \in Peers : book[p] # NotAsked
  /\ phase' = [phase EXCEPT ![s] = "listening"]
  /\ heard' = heard \cup {s}
  /\ UNCHANGED <<health, addr, book, compose, met, stops, gone, born>>

-----------------------------------------------------------------------------
(* Healthchecks: a connection to port 8080.  One that succeeds makes a     *)
(* container healthy, a number of failures in a row, on a slow host as     *)
(* likely as on a broken one, makes it unhealthy.  Nobody but compose      *)
(* asks, so what docker finds after its end is left out.                   *)

Judged(s, h) ==
  /\ compose = "running" /\ health' = [health EXCEPT ![s] = h]
  /\ UNCHANGED <<phase, addr, book, compose, met, stops, heard, gone, born>>

ProbeOk(s) == phase[s] = "listening" /\ Judged(s, "healthy")
ProbesFail(s) == Runs(s) /\ Judged(s, "unhealthy")

-----------------------------------------------------------------------------
(* docker compose up.                                                      *)

(* Once all its dependencies have been started, each is waited for by      *)
(* itself: one found healthy is not looked at again.                       *)
Awaits(s, d) ==
  /\ phase[s] = "created" /\ d \in Healthy[s] /\ <<s, d>> \notin met
  /\ \A e \in Healthy[s] \cup Started[s] : phase[e] # "created"

FindHealthy(s, d) ==
  /\ compose = "running" /\ Awaits(s, d)
  /\ Runs(d) /\ health[d] = "healthy"
  /\ met' = met \cup {<<s, d>>}
  /\ UNCHANGED <<phase, health, addr, book, compose, stops, heard, gone, born>>

Start(s) ==
  /\ compose = "running" /\ phase[s] = "created"
  /\ \A d \in Healthy[s] : <<s, d>> \in met
  /\ \A d \in Started[s] : phase[d] # "created"
  /\ Begin(s)
  /\ UNCHANGED <<compose, met, stops, heard>>

Over(o) ==
  /\ compose = "running" /\ compose' = o
  /\ UNCHANGED <<phase, health, addr, book, met, stops, heard, gone, born>>

GiveUp ==
  /\ \E s \in Services : \E d \in Checked :
       Awaits(s, d) /\ (phase[d] = "down" \/ health[d] = "unhealthy")
  /\ Over("failed")

Done == (\A s \in Services : phase[s] # "created") /\ Over("done")

Compose == GiveUp \/ Done \/ \E s \in Services : Start(s) \/ \E d \in Checked : FindHealthy(s, d)

Next ==
  \/ Compose
  \/ \E s \in Services : Stop(s) \/ Restart(s) \/ Boot(s)
  \/ \E p \in Peers : LookUp(p)
  \/ \E s \in Checked : ProbeOk(s) \/ ProbesFail(s)

(* Processes run, docker probes, and compose, which looks twice a second,  *)
(* does not miss a state of health for ever.  Stops are not fair.          *)
Spec ==
  /\ Init /\ [][Next]_vars
  /\ SF_vars(Compose)
  /\ \A s \in Services : WF_vars(Boot(s))
  /\ WF_vars(\E p \in Peers : LookUp(p))
  /\ \A s \in Checked : WF_vars(ProbeOk(s) \/ ProbesFail(s))

-----------------------------------------------------------------------------
(* Properties.                                                             *)

TypeOK ==
  /\ phase \in [Services -> {"created", "booting", "listening", "down"}]
  /\ health \in [Checked -> {"starting", "healthy", "unhealthy"}]
  /\ addr \in [Services -> Addresses \cup {0}]
  /\ \A s, d \in Services : s # d /\ addr[s] = addr[d] => addr[s] = 0
  /\ book \in [Peers -> Addresses \cup {NotAsked, NoSuchName, TooSlow}]
  /\ compose \in {"running", "done", "failed"} /\ met \subseteq Services \X Checked
  /\ stops \in 0 .. MaxStops

(* A container that is started finds everybody it cannot do without: before
   any worker but java starts, java has listened, and before go starts so has the
   gateway, on which go itself does not depend. *)
StartedInOrder ==
  \A s \in Services : phase[s] # "created" =>
    /\ s # "ja" => "ja" \in heard
    /\ s \in {"pw", "go"} => "gateway" \in heard

(* Unless a container stops, go looks nobody up too soon: java, for whose health it
   waits (docker-compose.yml:19), and the python workers, for whose start it waits,
   have an address by then.  The look-up itself may still take too long; go then
   keeps the name. *)
NoLookUpTooSoon ==
  stops = 0 => \A p \in {"ja", "gateway", "pw"} : book[p] # NoSuchName

(* An address in go's book that is not its peer's any more, or that is another
   container's, comes from a peer that has stopped since and from one that was
   started since: nothing but a redeploy asks for a restart of go (main.go:297). *)
BookAgesOnlyByRestart ==
  \A p \in Peers : book[p] \in Addresses =>
    /\ book[p] # addr[p] => p \in gone
    /\ \A q \in Services \ {p} : addr[q] = book[p] => q \in born

(* Starting comes to an end: compose gives up, or every container listens or
   has been stopped. *)
StartEnds ==
  <>[](compose = "failed" \/ \A s \in Services : phase[s] \in {"listening", "down"})
=============================================================================
