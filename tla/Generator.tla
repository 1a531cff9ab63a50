------------------------------ MODULE Generator ------------------------------
(***************************************************************************)
(* The traffic generator running a scenario: one asyncio task per group,   *)
(* and a monitor when the scenario sets a limit.  A task runs without      *)
(* interruption from one await to the next, so an action is one such       *)
(* stretch: what a task does between waking up and going to sleep again.   *)
(* Taking state.lock never suspends a task, because nobody awaits anything *)
(* while holding it.                                                       *)
(***************************************************************************)
EXTENDS Integers, FiniteSets, FiniteSetsExt

CONSTANTS
  Groups,      \* the groups of the scenario
  Skipped,     \* groups whose configuration is refused
  Sequential,  \* groups with send.mode sequential; the others are parallel
  Files,       \* Files[g]: how many payload_files
  Unreadable,  \* Unreadable[g]: which of them do not hold a JSON object
  Reps,        \* Reps[g]: repetitions, meaningless for an endless group
  Endless,     \* groups that repeat until they are stopped
  Pausing,     \* groups with periodicity > 0
  Capped, Cap, \* stop.after_total_requests, if Capped
  Timed        \* whether stop.after_duration_sec is set

ASSUME ScenarioAssumption ==
  /\ IsFiniteSet(Groups) /\ Groups # {}
  /\ Skipped \subseteq Groups /\ Sequential \subseteq Groups
  /\ Endless \subseteq Groups /\ Pausing \subseteq Groups
  /\ Files \in [Groups -> Nat \ {0}]
  /\ Unreadable \in [Groups -> SUBSET Nat]
  /\ Reps \in [Groups -> Nat]
  /\ Capped \in BOOLEAN /\ Cap \in Nat /\ Timed \in BOOLEAN

VARIABLES
  pc,       \* pc[g]: what the task of g awaits
  rep,      \* rep[g]: series it has completed (rep_i)
  file,     \* file[g]: the payload file a sequential group is at
  flying,   \* the POSTs begun and not answered, as <<group, slot>>
  total,    \* state.total_requests
  stop,     \* state.stop is set
  expired,  \* after_duration_sec have passed
  monitor   \* global_monitor runs

vars == <<pc, rep, file, flying, total, stop, expired, monitor>>

(* What can be in flight for a group: one POST if it is sequential, one    *)
(* per payload file if it is parallel.  The POSTs of a parallel series are *)
(* begun when gather makes their tasks: nothing stops them from then on.   *)
SlotsOf(g) == {g} \X (IF g \in Sequential THEN {1} ELSE 1 .. Files[g])
Slots == UNION {SlotsOf(g) : g \in Groups}

Init ==
  /\ pc = [g \in Groups |-> IF g \in Skipped THEN "done" ELSE "delay"]
  /\ rep = [g \in Groups |-> 0]
  /\ file = [g \in Groups |-> 1]
  /\ flying = {}
  /\ total = 0
  /\ stop = FALSE
  /\ expired = FALSE
  /\ monitor = (Capped \/ Timed)

-----------------------------------------------------------------------------
(* group_runner.  In what follows t is the number of requests counted and  *)
(* out the POSTs in flight at that point of the task's stretch.            *)

ShouldStopLate(t) == stop \/ (Timed /\ expired) \/ (Capped /\ t > Cap)   \* slip
ShouldStopGlobal(t) == stop \/ (Timed /\ expired) \/ (Capped /\ t >= Cap)

OneSeriesMore(g, r) == g \notin Endless /\ r > Reps[g]   \* slip
SeriesDone(g, r) == g \notin Endless /\ r >= Reps[g]

(* _load_payload_file raises for a file that holds no object, and with it  *)
(* the task is over; a parallel group loads all of them first.             *)
CanLoad(g) ==
  IF g \in Sequential THEN 1 \notin Unreadable[g]
  ELSE Unreadable[g] \cap (1 .. Files[g]) = {}

(* The task ends.                                                          *)
End(g, out) ==
  /\ pc' = [pc EXCEPT ![g] = "done"]
  /\ flying' = out
  /\ UNCHANGED file

SeriesHeedless(g, r, t, out) ==   \* slip
  \/ SeriesDone(g, r) /\ End(g, out)
  \/ /\ ~SeriesDone(g, r) /\ CanLoad(g)
     /\ pc' = [pc EXCEPT ![g] = "send"]
     /\ flying' = out \cup SlotsOf(g)
     /\ file' = [file EXCEPT ![g] = 1]

(* From the head of the loop to the first await of the series.             *)
Series(g, r, t, out) ==
  \/ /\ ShouldStopGlobal(t) \/ SeriesDone(g, r) \/ ~CanLoad(g)
     /\ End(g, out)
  \/ /\ ~ShouldStopGlobal(t) /\ ~SeriesDone(g, r) /\ CanLoad(g)
     /\ pc' = [pc EXCEPT ![g] = "send"]
     /\ flying' = out \cup SlotsOf(g)
     /\ file' = [file EXCEPT ![g] = 1]

Advanced(g) == IF g \in Endless THEN rep[g] ELSE rep[g] + 1

(* From the last answer of a series on.                                    *)
SeriesEnd(g, t, out) ==
  IF ShouldStopGlobal(t) THEN End(g, out) /\ UNCHANGED rep
  ELSE /\ rep' = [rep EXCEPT ![g] = Advanced(g)]
       /\ \/ SeriesDone(g, Advanced(g)) /\ End(g, out)
          \/ /\ ~SeriesDone(g, Advanced(g)) /\ g \in Pausing
             /\ pc' = [pc EXCEPT ![g] = "pause"]
             /\ flying' = out
             /\ UNCHANGED file
          \/ /\ ~SeriesDone(g, Advanced(g)) /\ g \notin Pausing
             /\ Series(g, Advanced(g), t, out)

(* asyncio.sleep(initial) or asyncio.sleep(periodicity) is over.           *)
Wake(g) ==
  /\ pc[g] \in {"delay", "pause"}
  /\ Series(g, rep[g], total, flying)
  /\ UNCHANGED <<rep, total, stop, expired, monitor>>

(* A sequential group gets its answer, or the error that stands for one,   *)
(* and goes on with the next file.                                         *)
Answer(g) ==
  LET t == total + 1
      out == flying \ {<<g, 1>>}
      next == file[g] + 1
  IN  /\ g \in Sequential /\ <<g, 1>> \in flying
      /\ total' = t
      /\ \/ /\ file[g] = Files[g]
            /\ SeriesEnd(g, t, out)
         \/ /\ file[g] < Files[g]
            /\ UNCHANGED rep
            /\ \/ /\ ShouldStopGlobal(t) \/ next \in Unreadable[g]
                  /\ End(g, out)
               \/ /\ ~ShouldStopGlobal(t) /\ next \notin Unreadable[g]
                  /\ file' = [file EXCEPT ![g] = next]
                  /\ UNCHANGED <<pc, flying>>
      /\ UNCHANGED <<stop, expired, monitor>>

(* one_parallel: one POST of a parallel series is answered.                *)
OneParallel(g) ==
  /\ g \notin Sequential
  /\ \E s \in flying \cap SlotsOf(g) : flying' = flying \ {s}
  /\ total' = total + 1
  /\ UNCHANGED <<pc, rep, file, stop, expired, monitor>>

GatheredEarly(g) ==   \* slip
  /\ g \notin Sequential /\ pc[g] = "send" /\ SlotsOf(g) \ flying # {}
  /\ SeriesEnd(g, total, flying)
  /\ UNCHANGED <<total, stop, expired, monitor>>

(* asyncio.gather returns once all of them are.                            *)
Gathered(g) ==
  /\ g \notin Sequential /\ pc[g] = "send" /\ flying \cap SlotsOf(g) = {}
  /\ SeriesEnd(g, total, flying)
  /\ UNCHANGED <<total, stop, expired, monitor>>

-----------------------------------------------------------------------------
(* The other tasks and the world.                                          *)

MonitorForgetsTime ==   \* slip
  /\ monitor /\ (stop \/ (Capped /\ total >= Cap))
  /\ stop' = TRUE /\ monitor' = FALSE
  /\ UNCHANGED <<pc, rep, file, flying, total, expired>>

(* The monitor looks every 0.2 s; as long as there is nothing to do it     *)
(* goes back to sleep.                                                     *)
GlobalMonitor ==
  /\ monitor /\ ShouldStopGlobal(total)
  /\ stop' = TRUE /\ monitor' = FALSE
  /\ UNCHANGED <<pc, rep, file, flying, total, expired>>

Expire ==
  /\ Timed /\ ~expired
  /\ expired' = TRUE
  /\ UNCHANGED <<pc, rep, file, flying, total, stop, monitor>>

(* SIGINT or SIGTERM.                                                      *)
RequestStop ==
  /\ ~stop
  /\ stop' = TRUE
  /\ UNCHANGED <<pc, rep, file, flying, total, expired, monitor>>

GroupsOver == \A g \in Groups : pc[g] = "done"

(* gather has returned in run_scenario and the process exits - or the      *)
(* groups are over and the monitor keeps looking.                          *)
Idle == GroupsOver /\ UNCHANGED vars

Group(g) == Wake(g) \/ Answer(g) \/ OneParallel(g) \/ Gathered(g)

Next == (\E g \in Groups : Group(g)) \/ GlobalMonitor \/ Expire \/ RequestStop \/ Idle

Spec == Init /\ [][Next]_vars

(* Tasks that can run do run, every POST is answered or times out, and     *)
(* time passes.  Nobody has to send a signal.                              *)
Fairness ==
  /\ \A g \in Groups : WF_vars(Group(g))
  /\ WF_vars(GlobalMonitor)
  /\ WF_vars(Expire)

FairSpec == Spec /\ Fairness

-----------------------------------------------------------------------------
(* Properties.                                                             *)

(* Every variable has its type; a task that waits for answers is the only
   one that has POSTs in flight. *)
TypeOK ==
  /\ pc \in [Groups -> {"delay", "send", "pause", "done"}]
  /\ rep \in [Groups -> Nat]
  /\ file \in [Groups -> Nat \ {0}]
  /\ flying \subseteq {s \in Slots : pc[s[1]] = "send"}
  /\ total \in Nat
  /\ stop \in BOOLEAN /\ expired \in BOOLEAN /\ monitor \in BOOLEAN

(* Once a limit is reached or a signal has come no group begins a POST any
   more: between a look at the limits and the start of a POST, or of the
   tasks of a parallel series, nobody else runs. *)
NothingSentAfterStop ==
  [][ShouldStopGlobal(total) => flying' \subseteq flying /\ file' = file]_vars

(* Requests are counted when they are answered, so the limit is exceeded, but
   by less than what the groups can have in flight together. *)
OvershootBounded == Capped => total + Cardinality(flying) < Cap + Cardinality(Slots)

(* Without a limit, a signal or an unreadable file every group sends its
   series exactly as often as the scenario says. *)
EverySeriesSent ==
  (GroupsOver /\ ~ShouldStopGlobal(total) /\ \A g \in Groups : Unreadable[g] = {}) =>
    total = MapThenSumSet(LAMBDA g : Reps[g] * Files[g], Groups \ Skipped)

(* After a signal, or when a limit is reached, every task ends, the monitor
   included, so that the process exits. *)
StopEndsAll == ShouldStopGlobal(total) ~> (GroupsOver /\ ~monitor)
=============================================================================
