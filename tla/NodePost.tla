------------------------------- MODULE NodePost -------------------------------
(***************************************************************************)
(* httpPostJSON of the nodejs worker: several handlers of one process each *)
(* wait for the answer to a POST, and share an event loop that any of them *)
(* holds while a step spins.  Pipeline has Receive and GiveUp as single    *)
(* steps; here are the timer, the events of the connection and the promise *)
(* they settle.                                                            *)
(***************************************************************************)
EXTENDS Integers, Sequences

CONSTANTS
  Calls,      \* POSTs, each made by a handler of its own
  Limit,      \* ticks of the timer (120 s)
  MaxSpin,    \* bound on the ticks a step spins
  MaxParts,   \* bound on the pieces of a body
  Nobody

ASSUME NodePostAssumption ==
  Limit \in Nat \ {0} /\ MaxSpin \in Nat /\ MaxParts \in Nat /\ Nobody \notin Calls

VARIABLES
  promise,    \* unmade, pending, resolved, failed, timed out
  timer,      \* ticks until it is due, Off
  open,       \* calls whose connection node has not destroyed
  said,       \* what the peer has sent
  got,        \* how much of it node has read
  busy, spin, \* the handler that spins, and for how long still
  turn,       \* of the event loop: asleep, poll, timers
  batch,      \* connections that were ready when the poll began
  waited,     \* history: ticks since the POST, up to Limit
  kept        \* history: calls whose answer has ended since the last poll began

vars == <<promise, timer, open, said, got, busy, spin, turn, batch, waited, kept>>

Off == -1
Pieces == {"head", "part", "end", "cut"}
Settled == {"resolved", "failed", "timed out"}
Over(s) == s # <<>> /\ s[Len(s)] \in {"end", "cut"}
Unread(c) == c \in open /\ got[c] < Len(said[c])
Due == {c \in Calls : timer[c] = 0}

Init ==
  /\ promise = [c \in Calls |-> "unmade"]
  /\ timer = [c \in Calls |-> Off] /\ open = {}
  /\ said = [c \in Calls |-> <<>>] /\ got = [c \in Calls |-> 0]
  /\ busy = Nobody /\ spin = 0 /\ turn = "asleep" /\ batch = {}
  /\ waited = [c \in Calls |-> 0] /\ kept = {}

-----------------------------------------------------------------------------
(* The handlers.                                                           *)

SpinOnce(c, k) == busy' = c /\ spin' = k + 1   \* slip: do while
SpinFor(c, k) == busy' = c /\ spin' = k

(* The loop looks at its connections: what is ready now is read, what comes *)
(* later waits for the next poll, and the timers have their turn before.    *)
PollBegins ==
  /\ turn' = "poll" /\ batch' = {c \in Calls : Unread(c)}
  /\ kept' = kept \ batch'

(* A poll finds a request, alone or with others, and its step begins with  *)
(* cpuSpin.                                                                *)
Handle(c) ==
  /\ busy = Nobody /\ promise[c] = "unmade"
  /\ \/ turn = "asleep" /\ PollBegins
     \/ turn = "poll" /\ UNCHANGED <<turn, batch, kept>>
  /\ \E k \in 0 .. MaxSpin : SpinFor(c, k)
  /\ UNCHANGED <<promise, timer, open, said, got, waited>>

ArmedBefore(c) == [timer EXCEPT ![c] = Limit - 1]   \* slip: before a step of one tick

Armed(c) == [timer EXCEPT ![c] = Limit]

Posted(c) ==
  /\ promise' = [promise EXCEPT ![c] = "pending"]
  /\ timer' = Armed(c)
  /\ open' = open \cup {c}

SpinOver ==
  /\ busy # Nobody /\ spin = 0
  /\ busy' = Nobody
  /\ IF promise[busy] = "unmade" THEN Posted(busy) ELSE UNCHANGED <<promise, timer, open>>
  /\ UNCHANGED <<said, got, spin, turn, batch, waited, kept>>

-----------------------------------------------------------------------------
(* The event loop: what is ready, then the timers that are due.  It sleeps *)
(* when there is nothing of either kind.                                   *)

Poll ==
  /\ turn = "asleep" /\ busy = Nobody
  /\ Due # {} \/ \E c \in Calls : Unread(c)
  /\ PollBegins
  /\ UNCHANGED <<promise, timer, open, said, got, busy, spin, waited>>

SharedCleared(c) == [d \in Calls |-> Off]   \* slip: let t outside of httpPostJSON
Cleared(c) == [timer EXCEPT ![c] = Off]

OutcomeOfHead(s) ==   \* slip: resolves in the callback of lib.request
  IF s[1] = "head" THEN "resolved" ELSE "failed"

(* The end of the response resolves; a connection that ends before raises  *)
(* an error, of the request before the head and of the response after it.  *)
Outcome(s) ==
  CASE s[Len(s)] = "end" -> "resolved"
    [] s[Len(s)] = "cut" -> "failed"
    [] OTHER             -> "pending"

(* Everything there is to read of one connection.  The handler goes on at  *)
(* once, with the next step if it has one.                                 *)
Read(c) ==
  /\ turn = "poll" /\ busy = Nobody /\ c \in batch
  /\ batch' = batch \ {c}
  /\ got' = [got EXCEPT ![c] = Len(said[c])]
  /\ LET o == IF promise[c] = "pending" THEN Outcome(said[c]) ELSE promise[c]
     IN  IF o # promise[c]
         THEN /\ promise' = [promise EXCEPT ![c] = o]
              /\ timer' = Cleared(c)
              /\ \/ o = "resolved" /\ \E k \in 0 .. MaxSpin : SpinFor(c, k)
                 \/ UNCHANGED <<busy, spin>>
         ELSE UNCHANGED <<promise, timer, busy, spin>>
  /\ UNCHANGED <<open, said, turn, waited, kept>>

Polled ==
  /\ turn = "poll" /\ busy = Nobody /\ batch = {}
  /\ turn' = "timers"
  /\ UNCHANGED <<promise, timer, open, said, got, busy, spin, batch, waited, kept>>

Undestroyed(c) == open   \* slip
Destroyed(c) == open \ {c}

(* The callback of setTimeout.                                             *)
TimeOut(c) ==
  /\ turn = "timers" /\ c \in Due
  /\ promise' = [promise EXCEPT ![c] = "timed out"]
  /\ timer' = [timer EXCEPT ![c] = Off]
  /\ open' = Destroyed(c)
  /\ UNCHANGED <<said, got, busy, spin, turn, batch, waited, kept>>

Timed ==
  /\ turn = "timers" /\ Due = {}
  /\ turn' = "asleep"
  /\ UNCHANGED <<promise, timer, open, said, got, busy, spin, batch, waited, kept>>

-----------------------------------------------------------------------------
(* Peers and time.                                                         *)

Say(c) ==
  /\ c \in open /\ ~Over(said[c])
  /\ \E p \in Pieces :
       /\ said[c] = <<>> => p \in {"head", "cut"}
       /\ said[c] # <<>> => p # "head" /\ (p = "part" => Len(said[c]) <= MaxParts)
       /\ said' = [said EXCEPT ![c] = Append(@, p)]
       /\ kept' = IF p = "end" THEN kept \cup {c} ELSE kept
  /\ UNCHANGED <<promise, timer, open, got, busy, spin, turn, batch, waited>>

(* Time passes while the loop sleeps or a step spins.                      *)
Tick ==
  /\ IF busy # Nobody THEN spin > 0
     ELSE turn = "asleep" /\ Due = {} /\ ~\E c \in Calls : Unread(c)
  /\ busy # Nobody \/ \E c \in Calls : timer[c] # Off
  /\ spin' = IF spin > 0 THEN spin - 1 ELSE 0
  /\ timer' = [c \in Calls |-> IF timer[c] > 0 THEN timer[c] - 1 ELSE timer[c]]
  /\ waited' = [c \in Calls |-> IF promise[c] = "pending" /\ waited[c] < Limit
                                THEN waited[c] + 1 ELSE waited[c]]
  /\ UNCHANGED <<promise, open, said, got, busy, turn, batch, kept>>

Loop ==
  \/ SpinOver \/ Poll \/ Polled \/ Timed
  \/ \E c \in Calls : Read(c) \/ TimeOut(c)

Next == Loop \/ Tick \/ \E c \in Calls : Handle(c) \/ Say(c)

(* The process runs and time passes; peers need not answer.                *)
Spec == Init /\ [][Next]_vars /\ WF_vars(Loop) /\ WF_vars(Tick)

-----------------------------------------------------------------------------
(* Properties.                                                             *)

TypeOK ==
  /\ promise \in [Calls -> Settled \cup {"unmade", "pending"}]
  /\ timer \in [Calls -> Off .. Limit] /\ open \subseteq Calls
  /\ said \in [Calls -> Seq(Pieces)] /\ got \in [Calls -> Nat]
  /\ \A c \in Calls : got[c] <= Len(said[c])
  /\ busy \in Calls \cup {Nobody} /\ spin \in 0 .. MaxSpin
  /\ turn \in {"asleep", "poll", "timers"} /\ batch \subseteq open
  /\ kept \subseteq Calls /\ waited \in [Calls -> 0 .. Limit]

(* Who is told of an answer has all of it, however its pieces and those of other
   answers arrive between the steps of the process. *)
ResolvedWhole ==
  \A c \in Calls : promise[c] = "resolved" =>
    Over(said[c]) /\ said[c][Len(said[c])] = "end" /\ got[c] = Len(said[c])

(* A call is given up no earlier than the timer says, after a full Limit of its
   own; and if its answer was whole by then, its end came after the last poll had
   begun, while the loop read others, was held by a step or turned to its timers:
   no poll finds an answer and leaves it to the timer. *)
TimeOutIsLate ==
  \A c \in Calls : promise[c] = "timed out" =>
    /\ waited[c] = Limit
    /\ Over(said[c]) /\ said[c][Len(said[c])] = "end" => c \in kept

(* A call that is settled leaves nothing to come: no armed timer and no connection
   on which its answer could still arrive. *)
SettledIsClosed ==
  \A c \in Calls : promise[c] \in Settled => timer[c] = Off /\ ~Unread(c)

(* Every POST settles, whatever its peer does and however long others spin. *)
EveryPostSettles ==
  \A c \in Calls : promise[c] = "pending" ~> promise[c] \in Settled
=============================================================================
