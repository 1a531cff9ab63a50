---------------------------- MODULE NodePostProofs ----------------------------
(***************************************************************************)
(* What httpPostJSON promises for any number of POSTs, steps of any length *)
(* and answers in any number of pieces: whole answers, no call given up    *)
(* early, nothing left open.                                               *)
(***************************************************************************)
EXTENDS NodePost, TLAPS

Ended(c) == Over(said[c])
Whole(c) == Over(said[c]) /\ said[c][Len(said[c])] = "end"
AllRead(c) == got[c] = Len(said[c])

(* The end of the answer to a pending call is still to be read, by the poll that is
   under way unless it came after that had begun. *)
PendingInv(c) ==
  promise[c] = "pending" =>
    /\ c \in open
    /\ Ended(c) => ~AllRead(c)
    /\ Whole(c) => c \in kept \/ c \in batch

(* What is known of calls that are not pending. *)
OutcomeInv(c) ==
  /\ promise[c] = "unmade" => c \notin open /\ said[c] = <<>> /\ AllRead(c)
  /\ promise[c] \in {"resolved", "failed"} => Ended(c) /\ AllRead(c)
  /\ promise[c] = "resolved" => Whole(c)
  /\ promise[c] = "timed out" => c \notin open /\ (Whole(c) => c \in kept)

(* The timer agrees with the time a call has waited. *)
TimeInv(c) ==
  /\ promise[c] = "pending" => timer[c] \in 0 .. Limit /\ waited[c] = Limit - timer[c]
  /\ promise[c] # "pending" => timer[c] = Off
  /\ promise[c] = "unmade" => waited[c] = 0
  /\ promise[c] = "timed out" => waited[c] = Limit

LoopInv ==
  /\ turn # "poll" => batch = {}
  /\ \A c \in batch : c \in open /\ ~AllRead(c)

AnswerInv == LoopInv /\ \A c \in Calls : PendingInv(c) /\ OutcomeInv(c)

IInv == TypeOK /\ AnswerInv /\ \A c \in Calls : TimeInv(c)

-----------------------------------------------------------------------------
(* The values of a timer. *)
LEMMA TimerValues ==
  /\ Limit \in Nat /\ Off \notin Nat /\ Off # 0
  /\ Off \in Off .. Limit /\ Limit \in Off .. Limit
  /\ \A k \in Off .. Limit : k # Off => k \in 0 .. Limit
  /\ \A k \in 0 .. Limit : k \in Off .. Limit /\ Limit - k \in 0 .. Limit
<1>1. Limit \in Nat /\ Off = -1
  BY NodePostAssumption DEF Off
<1> QED
  BY <1>1

(* A connection is unread if and only if it is open and not all of it is read. *)
LEMMA UnreadOrAllRead ==
  ASSUME TypeOK, NEW c \in Calls
  PROVE  Unread(c) <=> c \in open /\ ~AllRead(c)
<1>1. said[c] \in Seq(Pieces) /\ got[c] \in Nat /\ got[c] <= Len(said[c])
  BY DEF TypeOK
<1>2. Len(said[c]) \in Nat
  BY <1>1
<1> QED
  BY <1>1, <1>2 DEF Unread, AllRead

(* Only a pending call has something to read. *)
LEMMA OpenIsPending ==
  ASSUME IInv, NEW c \in Calls, c \in open, ~(Ended(c) /\ AllRead(c))
  PROVE  promise[c] = "pending"
<1>1. promise[c] \in Settled \cup {"unmade", "pending"}
  BY DEF IInv, TypeOK
<1>2. OutcomeInv(c)
  BY DEF IInv, AnswerInv
<1> QED
  BY <1>1, <1>2 DEF OutcomeInv, Settled

(* What a step does not touch keeps its part of the invariant. *)
LEMMA AnswerFrame ==
  ASSUME AnswerInv, UNCHANGED <<promise, open, said, got, turn, batch, kept>>
  PROVE  AnswerInv'
BY DEF AnswerInv, LoopInv, PendingInv, OutcomeInv, Ended, Whole, AllRead

LEMMA TimeFrame ==
  ASSUME NEW c, TimeInv(c), UNCHANGED <<promise[c], timer[c], waited[c]>>
  PROVE  TimeInv(c)'
BY DEF TimeInv

LEMMA CallFrame ==
  ASSUME NEW c, UNCHANGED <<said[c], got[c]>>
  PROVE  (Ended(c)' <=> Ended(c)) /\ (Whole(c)' <=> Whole(c)) /\ (AllRead(c)' <=> AllRead(c))
BY DEF Ended, Whole, AllRead

-----------------------------------------------------------------------------
(* The initial state. *)
LEMMA InitIInv == Init => IInv
<1> SUFFICES ASSUME Init PROVE IInv
  OBVIOUS
<1>1. TypeOK
  BY NodePostAssumption DEF Init, TypeOK, Off, Settled
<1>2. \A c \in Calls : said[c] = <<>> /\ AllRead(c) /\ promise[c] = "unmade"
  BY DEF Init, AllRead
<1>3. AnswerInv
  BY <1>2 DEF Init, AnswerInv, LoopInv, PendingInv, OutcomeInv
<1>4. \A c \in Calls : TimeInv(c)
  BY DEF Init, TimeInv
<1> QED
  BY <1>1, <1>3, <1>4 DEF IInv

(* A poll takes every answer there is to read. *)
LEMMA PollBeginsStep ==
  ASSUME IInv, PollBegins, UNCHANGED <<promise, open, said, got>>
  PROVE  AnswerInv' /\ batch' \subseteq open' /\ kept' \subseteq Calls
<1>1. turn' = "poll" /\ batch' = {c \in Calls : Unread(c)} /\ kept' = kept \ batch'
  BY DEF PollBegins
<1>2. \A c \in Calls : Unread(c) <=> c \in open /\ ~AllRead(c)
  BY UnreadOrAllRead DEF IInv
<1>3. \A c \in Calls : /\ Ended(c)' <=> Ended(c)
                       /\ Whole(c)' <=> Whole(c)
                       /\ AllRead(c)' <=> AllRead(c)
  BY CallFrame
<1>4. LoopInv'
  BY <1>1, <1>2, <1>3 DEF LoopInv
<1>5. ASSUME NEW c \in Calls PROVE PendingInv(c)' /\ OutcomeInv(c)'
  <2>1. PendingInv(c) /\ OutcomeInv(c)
    BY DEF IInv, AnswerInv
  <2>2. Whole(c) => Ended(c)
    BY DEF Whole, Ended
  <2>3. PendingInv(c)'
    BY <1>1, <1>2, <1>3, <2>1, <2>2 DEF PendingInv
  <2>4. promise[c] = "timed out" => (c \in kept' <=> c \in kept)
    BY <1>1, <1>2, <2>1 DEF OutcomeInv
  <2>5. OutcomeInv(c)'
    BY <1>3, <2>1, <2>4 DEF OutcomeInv
  <2> QED
    BY <2>3, <2>5
<1> QED
  BY <1>1, <1>2, <1>4, <1>5 DEF AnswerInv, IInv, TypeOK

(* The steps of handlers. *)
LEMMA HandleStep ==
  ASSUME IInv, NEW c \in Calls, Handle(c)
  PROVE  IInv'
<1>1. UNCHANGED <<promise, timer, open, said, got, waited>>
      /\ busy' \in Calls \cup {Nobody} /\ spin' \in 0 .. MaxSpin
  BY DEF Handle, SpinFor
<1>2. \A d \in Calls : TimeInv(d)'
  BY <1>1, TimeFrame DEF IInv
<1>3. CASE turn = "asleep" /\ PollBegins
  <2>1. AnswerInv' /\ batch' \subseteq open' /\ kept' \subseteq Calls /\ turn' = "poll"
    BY <1>1, <1>3, PollBeginsStep DEF PollBegins
  <2>2. TypeOK'
    BY <1>1, <2>1 DEF IInv, TypeOK
  <2> QED
    BY <1>2, <2>1, <2>2 DEF IInv
<1>4. CASE UNCHANGED <<turn, batch, kept>>
  <2>1. AnswerInv'
    BY <1>1, <1>4, AnswerFrame DEF IInv
  <2>2. TypeOK'
    BY <1>1, <1>4 DEF IInv, TypeOK
  <2> QED
    BY <1>2, <2>1, <2>2 DEF IInv
<1> QED
  BY <1>3, <1>4 DEF Handle

LEMMA SpinOverStep ==
  ASSUME IInv, SpinOver
  PROVE  IInv'
<1>1. CASE promise[busy] = "unmade"
  <2> DEFINE b == busy
  <2>1. /\ b \in Calls /\ promise[b] = "unmade"
        /\ promise' = [promise EXCEPT ![b] = "pending"]
        /\ timer' = [timer EXCEPT ![b] = Limit]
        /\ open' = open \cup {b}
        /\ busy' = Nobody
        /\ UNCHANGED <<said, got, spin, turn, batch, waited, kept>>
    BY <1>1 DEF SpinOver, Posted, Armed, IInv, TypeOK
  <2> HIDE DEF b
  <2>2. TypeOK'
    <3>1. promise' \in [Calls -> Settled \cup {"unmade", "pending"}]
      BY <2>1 DEF IInv, TypeOK
    <3>2. timer' \in [Calls -> Off .. Limit]
      BY <2>1, TimerValues DEF IInv, TypeOK
    <3>3. open' \subseteq Calls /\ batch' \subseteq open' /\ busy' \in Calls \cup {Nobody}
      BY <2>1 DEF IInv, TypeOK
    <3> QED
      BY <2>1, <3>1, <3>2, <3>3 DEF IInv, TypeOK
  <2>3. said[b] = <<>> /\ AllRead(b)
    BY <2>1 DEF IInv, AnswerInv, OutcomeInv
  <2>4. ~Ended(b) /\ ~Whole(b)
    BY <2>3 DEF Ended, Whole, Over
  <2>5. AnswerInv'
    <3>1. \A c \in Calls : /\ Ended(c)' <=> Ended(c)
                           /\ Whole(c)' <=> Whole(c)
                           /\ AllRead(c)' <=> AllRead(c)
      BY <2>1, CallFrame
    <3>2. LoopInv'
      BY <2>1, <3>1 DEF IInv, AnswerInv, LoopInv, TypeOK
    <3>3. ASSUME NEW c \in Calls PROVE PendingInv(c)' /\ OutcomeInv(c)'
      <4>1. PendingInv(c) /\ OutcomeInv(c)
        BY DEF IInv, AnswerInv
      <4>2. promise'[c] = IF c = b THEN "pending" ELSE promise[c]
        BY <2>1 DEF IInv, TypeOK
      <4>3. CASE c = b
        <5>1. ~Ended(c)' /\ ~Whole(c)'
          BY <2>4, <3>1, <4>3
        <5>2. promise'[c] = "pending" /\ c \in open'
          BY <2>1, <4>2, <4>3
        <5> QED
          BY <5>1, <5>2 DEF PendingInv, OutcomeInv
      <4>4. CASE c # b
        <5>1. promise'[c] = promise[c] /\ (c \in open' <=> c \in open) /\ said' = said
              /\ kept' = kept /\ turn' = turn /\ batch' = batch
          BY <2>1, <4>2, <4>4
        <5> QED
          BY <3>1, <4>1, <5>1 DEF PendingInv, OutcomeInv
      <4> QED
        BY <4>3, <4>4
    <3> QED
      BY <3>2, <3>3 DEF AnswerInv
  <2>6. ASSUME NEW c \in Calls PROVE TimeInv(c)'
    <3>1. CASE c = b
      <4>1. promise'[b] = "pending" /\ timer'[b] = Limit /\ waited'[b] = 0
        BY <2>1 DEF IInv, TypeOK, TimeInv
      <4>2. Limit \in 0 .. Limit /\ 0 = Limit - Limit
        BY TimerValues
      <4> QED
        BY <3>1, <4>1, <4>2 DEF TimeInv
    <3>2. CASE c # b
      BY <2>1, <3>2, TimeFrame DEF IInv
    <3> QED
      BY <3>1, <3>2
  <2> QED
    BY <2>2, <2>5, <2>6 DEF IInv
<1>2. CASE promise[busy] # "unmade"
  <2>1. TypeOK'
    BY <1>2 DEF SpinOver, IInv, TypeOK
  <2>2. AnswerInv'
    BY <1>2, AnswerFrame DEF SpinOver, IInv
  <2>3. \A d \in Calls : TimeInv(d)'
    BY <1>2, TimeFrame DEF SpinOver, IInv
  <2> QED
    BY <2>1, <2>2, <2>3 DEF IInv
<1> QED
  BY <1>1, <1>2

-----------------------------------------------------------------------------
(* The steps of the event loop. *)
LEMMA PollStep ==
  ASSUME IInv, Poll
  PROVE  IInv'
<1>1. PollBegins /\ UNCHANGED <<promise, timer, open, said, got, busy, spin, waited>>
  BY DEF Poll
<1>2. AnswerInv' /\ batch' \subseteq open' /\ kept' \subseteq Calls /\ turn' = "poll"
  BY <1>1, PollBeginsStep DEF PollBegins
<1>3. TypeOK'
  BY <1>1, <1>2 DEF IInv, TypeOK
<1>4. \A c \in Calls : TimeInv(c)'
  BY <1>1, TimeFrame DEF IInv
<1> QED
  BY <1>2, <1>3, <1>4 DEF IInv

LEMMA ReadStep ==
  ASSUME IInv, NEW c \in Calls, Read(c)
  PROVE  IInv'
<1> DEFINE o == Outcome(said[c])
<1>1. c \in open /\ ~AllRead(c) /\ turn = "poll" /\ c \in batch
  BY DEF Read, IInv, AnswerInv, LoopInv
<1>2. promise[c] = "pending"
  BY <1>1, OpenIsPending
<1>3. /\ batch' = batch \ {c}
      /\ got' = [got EXCEPT ![c] = Len(said[c])]
      /\ UNCHANGED <<open, said, turn, waited, kept>>
      /\ busy' \in Calls \cup {Nobody} /\ spin' \in 0 .. MaxSpin
  BY DEF Read, SpinFor, IInv, TypeOK
<1>4. said[c] \in Seq(Pieces) /\ got[c] \in Nat /\ got[c] <= Len(said[c])
  BY DEF IInv, TypeOK
<1>5. Len(said[c]) \in Nat /\ said[c] # <<>>
  BY <1>1, <1>4 DEF AllRead
<1>6. /\ o = "resolved" <=> Whole(c)
      /\ o = "pending" <=> ~Ended(c)
      /\ o \in {"pending", "resolved", "failed"}
  BY <1>5 DEF Outcome, Whole, Ended, Over
<1>7. /\ o = "pending" => UNCHANGED <<promise, timer>>
      /\ o # "pending" => /\ promise' = [promise EXCEPT ![c] = o]
                          /\ timer' = [timer EXCEPT ![c] = Off]
  BY <1>2 DEF Read, Cleared
<1> HIDE DEF o
<1>8. TypeOK'
  <2>1. promise' \in [Calls -> Settled \cup {"unmade", "pending"}]
    BY <1>6, <1>7 DEF IInv, TypeOK, Settled
  <2>2. timer' \in [Calls -> Off .. Limit]
    BY <1>7, TimerValues DEF IInv, TypeOK
  <2>3. got' \in [Calls -> Nat] /\ \A d \in Calls : got'[d] <= Len(said'[d])
    BY <1>3, <1>5 DEF IInv, TypeOK
  <2> QED
    BY <1>3, <2>1, <2>2, <2>3 DEF IInv, TypeOK
<1>9. /\ AllRead(c)'
      /\ \A d \in Calls : (Ended(d)' <=> Ended(d)) /\ (Whole(d)' <=> Whole(d))
      /\ \A d \in Calls \ {c} : AllRead(d)' <=> AllRead(d)
  BY <1>3 DEF AllRead, Ended, Whole, IInv, TypeOK
<1>10. LoopInv'
  BY <1>1, <1>3, <1>9 DEF IInv, AnswerInv, LoopInv, TypeOK
<1>11. ASSUME NEW d \in Calls PROVE PendingInv(d)' /\ OutcomeInv(d)'
  <2>1. PendingInv(d) /\ OutcomeInv(d)
    BY DEF IInv, AnswerInv
  <2>2. CASE d = c
    <3>1. promise'[c] = o /\ (Whole(c) => Ended(c))
      BY <1>2, <1>6, <1>7 DEF IInv, TypeOK, Whole, Ended
    <3> QED
      BY <1>1, <1>3, <1>6, <1>9, <2>2, <3>1 DEF PendingInv, OutcomeInv
  <2>3. CASE d # c
    <3>1. promise'[d] = promise[d]
      BY <1>7, <2>3 DEF IInv, TypeOK
    <3> QED
      BY <1>3, <1>9, <2>1, <2>3, <3>1 DEF PendingInv, OutcomeInv
  <2> QED
    BY <2>2, <2>3
<1>12. ASSUME NEW d \in Calls PROVE TimeInv(d)'
  <2>1. CASE d = c /\ o # "pending"
    <3>1. promise'[d] = o /\ timer'[d] = Off
      BY <1>7, <2>1 DEF IInv, TypeOK
    <3> QED
      BY <1>6, <2>1, <3>1 DEF TimeInv
  <2>2. CASE d # c \/ o = "pending"
    <3>1. UNCHANGED <<promise[d], timer[d], waited[d]>>
      BY <1>3, <1>7, <2>2 DEF IInv, TypeOK
    <3> QED
      BY <3>1, TimeFrame DEF IInv
  <2> QED
    BY <2>1, <2>2
<1> QED
  BY <1>8, <1>10, <1>11, <1>12 DEF IInv, AnswerInv

LEMMA TurnStep ==
  ASSUME IInv, Polled \/ Timed
  PROVE  IInv'
<1>1. /\ UNCHANGED <<promise, timer, open, said, got, busy, spin, batch, waited, kept>>
      /\ \/ turn = "poll" /\ batch = {} /\ turn' = "timers"
         \/ turn = "timers" /\ turn' = "asleep"
  BY DEF Polled, Timed
<1>2. TypeOK'
  BY <1>1 DEF IInv, TypeOK
<1>3. \A c \in Calls : /\ Ended(c)' <=> Ended(c)
                       /\ Whole(c)' <=> Whole(c)
                       /\ AllRead(c)' <=> AllRead(c)
  BY <1>1, CallFrame
<1>4. LoopInv'
  BY <1>1, <1>3 DEF IInv, AnswerInv, LoopInv, TypeOK
<1>5. ASSUME NEW c \in Calls PROVE PendingInv(c)' /\ OutcomeInv(c)'
  <2>1. PendingInv(c) /\ OutcomeInv(c)
    BY DEF IInv, AnswerInv
  <2> QED
    BY <1>1, <1>3, <2>1 DEF PendingInv, OutcomeInv
<1>6. \A c \in Calls : TimeInv(c)'
  BY <1>1, TimeFrame DEF IInv
<1> QED
  BY <1>2, <1>4, <1>5, <1>6 DEF IInv, AnswerInv

LEMMA TimeOutStep ==
  ASSUME IInv, NEW c \in Calls, TimeOut(c)
  PROVE  IInv'
<1>1. /\ turn = "timers" /\ timer[c] = 0
      /\ promise' = [promise EXCEPT ![c] = "timed out"]
      /\ timer' = [timer EXCEPT ![c] = Off]
      /\ open' = open \ {c}
      /\ UNCHANGED <<said, got, busy, spin, turn, batch, waited, kept>>
  BY DEF TimeOut, Due, Destroyed
<1>2. promise[c] = "pending" /\ waited[c] = Limit /\ batch = {}
  <2>1. TimeInv(c)
    BY DEF IInv
  <2>2. promise[c] = "pending"
    BY <1>1, <2>1, TimerValues DEF TimeInv
  <2>3. waited[c] = Limit
    <3>1. waited[c] = Limit - 0
      BY <1>1, <2>1, <2>2 DEF TimeInv
    <3> QED
      BY <3>1, TimerValues
  <2>4. batch = {}
    BY <1>1 DEF IInv, AnswerInv, LoopInv
  <2> QED
    BY <2>2, <2>3, <2>4
<1>3. TypeOK'
  <2>1. timer' \in [Calls -> Off .. Limit]
    BY <1>1, TimerValues DEF IInv, TypeOK
  <2> QED
    BY <1>1, <1>2, <2>1 DEF IInv, TypeOK, Settled
<1>4. \A d \in Calls : /\ Ended(d)' <=> Ended(d)
                       /\ Whole(d)' <=> Whole(d)
                       /\ AllRead(d)' <=> AllRead(d)
  BY <1>1, CallFrame
<1>5. LoopInv'
  BY <1>1, <1>2 DEF LoopInv
<1>6. ASSUME NEW d \in Calls PROVE PendingInv(d)' /\ OutcomeInv(d)'
  <2>1. PendingInv(d) /\ OutcomeInv(d)
    BY DEF IInv, AnswerInv
  <2>2. promise'[d] = IF d = c THEN "timed out" ELSE promise[d]
    BY <1>1 DEF IInv, TypeOK
  <2>3. CASE d = c
    <3>1. d \notin open' /\ (Whole(d) => d \in kept)
      BY <1>1, <1>2, <2>1, <2>3 DEF PendingInv
    <3>2. promise'[d] = "timed out"
      BY <2>2, <2>3
    <3>3. Whole(d)' => d \in kept'
      BY <1>1, <1>4, <3>1
    <3> QED
      BY <3>1, <3>2, <3>3 DEF PendingInv, OutcomeInv
  <2>4. CASE d # c
    <3>1. promise'[d] = promise[d] /\ (d \in open' <=> d \in open) /\ said' = said
          /\ kept' = kept /\ turn' = turn /\ batch' = batch
      BY <1>1, <2>2, <2>4
    <3> QED
      BY <1>4, <2>1, <3>1 DEF PendingInv, OutcomeInv
  <2> QED
    BY <2>3, <2>4
<1>7. ASSUME NEW d \in Calls PROVE TimeInv(d)'
  <2>1. CASE d = c
    <3>1. promise'[d] = "timed out" /\ timer'[d] = Off /\ waited'[d] = Limit
      BY <1>1, <1>2, <2>1 DEF IInv, TypeOK
    <3> QED
      BY <3>1 DEF TimeInv
  <2>2. CASE d # c
    <3>1. UNCHANGED <<promise[d], timer[d], waited[d]>>
      BY <1>1, <2>2 DEF IInv, TypeOK
    <3> QED
      BY <3>1, TimeFrame DEF IInv
  <2> QED
    BY <2>1, <2>2
<1> QED
  BY <1>3, <1>5, <1>6, <1>7 DEF IInv, AnswerInv

-----------------------------------------------------------------------------
(* Peers and time. *)
LEMMA SayStep ==
  ASSUME IInv, NEW c \in Calls, Say(c)
  PROVE  IInv'
<1>1. PICK p \in Pieces :
        /\ said' = [said EXCEPT ![c] = Append(@, p)]
        /\ kept' = IF p = "end" THEN kept \cup {c} ELSE kept
  BY DEF Say
<1>2. /\ c \in open /\ ~Ended(c)
      /\ UNCHANGED <<promise, timer, open, got, busy, spin, turn, batch, waited>>
  BY DEF Say, Ended
<1>3. promise[c] = "pending"
  BY <1>2, OpenIsPending
<1>4. /\ said[c] \in Seq(Pieces) /\ got[c] \in Nat /\ got[c] <= Len(said[c])
      /\ said'[c] = Append(said[c], p)
      /\ \A d \in Calls \ {c} : said'[d] = said[d]
  BY <1>1 DEF IInv, TypeOK
<1>5. /\ said'[c] \in Seq(Pieces) /\ Len(said'[c]) = Len(said[c]) + 1
      /\ said'[c][Len(said'[c])] = p
  BY <1>4
<1>6. TypeOK'
  <2>1. said' \in [Calls -> Seq(Pieces)]
    BY <1>1, <1>4, <1>5 DEF IInv, TypeOK
  <2>2. \A d \in Calls : got[d] <= Len(said'[d])
    <3>1. got[c] <= Len(said'[c])
      BY <1>4, <1>5
    <3> QED
      BY <1>4, <3>1 DEF IInv, TypeOK
  <2>3. kept' \subseteq Calls
    BY <1>1 DEF IInv, TypeOK
  <2> QED
    BY <1>2, <2>1, <2>2, <2>3 DEF IInv, TypeOK
<1>7. ~AllRead(c)'
  BY <1>2, <1>4, <1>5 DEF AllRead
<1>8. Whole(c)' => p = "end"
  BY <1>5 DEF Whole
<1>9. ASSUME NEW d \in Calls, d # c
      PROVE  /\ Ended(d)' <=> Ended(d)
             /\ Whole(d)' <=> Whole(d)
             /\ AllRead(d)' <=> AllRead(d)
  <2>1. UNCHANGED <<said[d], got[d]>>
    BY <1>2, <1>4, <1>9
  <2> QED
    BY <2>1, CallFrame
<1>10. LoopInv'
  <2>1. turn' # "poll" => batch' = {}
    BY <1>2 DEF IInv, AnswerInv, LoopInv
  <2>2. ASSUME NEW d \in batch PROVE d \in open' /\ ~AllRead(d)'
    <3>1. d \in Calls /\ d \in open /\ ~AllRead(d)
      BY DEF IInv, AnswerInv, LoopInv, TypeOK
    <3>2. CASE d = c
      BY <1>2, <1>7, <3>2
    <3>3. CASE d # c
      BY <1>2, <1>9, <3>1, <3>3
    <3> QED
      BY <3>2, <3>3
  <2> QED
    BY <1>2, <2>1, <2>2 DEF LoopInv
<1>11. ASSUME NEW d \in Calls PROVE PendingInv(d)' /\ OutcomeInv(d)'
  <2>1. PendingInv(d) /\ OutcomeInv(d)
    BY DEF IInv, AnswerInv
  <2>2. CASE d = c
    <3>1. Whole(c)' => c \in kept'
      BY <1>1, <1>2, <1>8
    <3>2. c \in open' /\ promise'[c] = "pending"
      BY <1>2, <1>3
    <3> QED
      BY <1>7, <2>2, <3>1, <3>2 DEF PendingInv, OutcomeInv
  <2>3. CASE d # c
    <3>1. d \in kept' <=> d \in kept
      BY <1>1, <2>3
    <3>2. said'[d] = said[d]
      BY <1>4, <2>3
    <3>3. /\ promise'[d] = promise[d] /\ (d \in open' <=> d \in open)
          /\ turn' = turn /\ batch' = batch
      BY <1>2
    <3>4. (Ended(d)' <=> Ended(d)) /\ (Whole(d)' <=> Whole(d)) /\ (AllRead(d)' <=> AllRead(d))
      BY <1>9, <2>3
    <3>5. PendingInv(d)'
      BY <2>1, <3>1, <3>3, <3>4 DEF PendingInv
    <3>6. OutcomeInv(d)'
      BY <2>1, <3>1, <3>2, <3>3, <3>4 DEF OutcomeInv
    <3> QED
      BY <3>5, <3>6
  <2> QED
    BY <2>2, <2>3
<1>12. \A d \in Calls : TimeInv(d)'
  BY <1>2, TimeFrame DEF IInv
<1> QED
  BY <1>6, <1>10, <1>11, <1>12 DEF IInv, AnswerInv

LEMMA TickStep ==
  ASSUME IInv, Tick
  PROVE  IInv'
<1>1. AnswerInv'
  BY AnswerFrame DEF Tick, IInv
<1>2. /\ timer' = [c \in Calls |-> IF timer[c] > 0 THEN timer[c] - 1 ELSE timer[c]]
      /\ waited' = [c \in Calls |-> IF promise[c] = "pending" /\ waited[c] < Limit
                                    THEN waited[c] + 1 ELSE waited[c]]
      /\ spin' = (IF spin > 0 THEN spin - 1 ELSE 0)
      /\ UNCHANGED <<promise, open, said, got, busy, turn, batch, kept>>
  BY DEF Tick
<1>3. \A c \in Calls : timer[c] \in Off .. Limit /\ waited[c] \in 0 .. Limit
  BY DEF IInv, TypeOK
<1>4. TypeOK'
  <2>1. timer' \in [Calls -> Off .. Limit] /\ waited' \in [Calls -> 0 .. Limit]
    BY <1>2, <1>3, NodePostAssumption DEF Off
  <2>2. spin' \in 0 .. MaxSpin
    BY <1>2, NodePostAssumption DEF IInv, TypeOK
  <2> QED
    BY <1>2, <2>1, <2>2 DEF IInv, TypeOK
<1>5. ASSUME NEW c \in Calls PROVE TimeInv(c)'
  <2>1. TimeInv(c) /\ promise'[c] = promise[c]
    BY <1>2 DEF IInv
  <2>2. timer[c] \in Off .. Limit /\ waited[c] \in 0 .. Limit
    BY <1>3
  <2>3. CASE promise[c] = "pending"
    <3>1. timer[c] \in 0 .. Limit /\ waited[c] = Limit - timer[c] /\ Limit \in Nat
      BY <2>1, <2>3, TimerValues DEF TimeInv
    <3>2. timer'[c] = (IF timer[c] > 0 THEN timer[c] - 1 ELSE timer[c])
          /\ waited'[c] = (IF waited[c] < Limit THEN waited[c] + 1 ELSE waited[c])
      BY <1>2, <2>3
    <3>3. timer'[c] \in 0 .. Limit /\ waited'[c] = Limit - timer'[c]
      BY <3>1, <3>2
    <3> QED
      BY <2>1, <2>3, <3>3 DEF TimeInv
  <2>4. CASE promise[c] # "pending"
    <3>1. timer[c] = Off /\ ~(Off > 0)
      <4>1. timer[c] = Off
        BY <2>1, <2>4, Zenon DEF TimeInv
      <4>2. ~(Off > 0)
        BY DEF Off
      <4> QED
        BY <4>1, <4>2
    <3>2. timer'[c] = Off /\ waited'[c] = waited[c]
      BY <1>2, <2>4, <3>1
    <3> QED
      BY <2>1, <2>4, <3>2 DEF TimeInv
  <2> QED
    BY <2>3, <2>4
<1> QED
  BY <1>1, <1>4, <1>5 DEF IInv

(* Every step keeps the invariant. *)
LEMMA StepIInv == IInv /\ [Next]_vars => IInv'
<1> SUFFICES ASSUME IInv, [Next]_vars PROVE IInv'
  OBVIOUS
<1>1. CASE Next
  BY <1>1, HandleStep, SpinOverStep, PollStep, ReadStep, TurnStep, TimeOutStep, SayStep, TickStep
     DEF Next, Loop
<1>2. CASE UNCHANGED vars
  <2>1. TypeOK'
    BY <1>2 DEF vars, IInv, TypeOK
  <2> QED
    BY <1>2, <2>1, AnswerFrame, TimeFrame DEF vars, IInv
<1> QED
  BY <1>1, <1>2

(* The invariant, and with it the types, in every reachable state. *)
THEOREM NodeInvariant == Spec => []IInv
<1>1. Init => IInv
  BY InitIInv
<1>2. IInv /\ [Next]_vars => IInv'
  BY StepIInv
<1> QED
  BY <1>1, <1>2, PTL DEF Spec

(* Timers, promises and connections keep their types, and nothing is read that has
   not been said: the state httpPostJSON leaves to node. *)
THEOREM NodeTypes == Spec => []TypeOK
<1>1. IInv => TypeOK
  BY DEF IInv
<1> QED
  BY <1>1, NodeInvariant, PTL

-----------------------------------------------------------------------------
(* Who is told of an answer has all of it: resolve() of httpPostJSON. *)
THEOREM AnswersAreWhole == Spec => []ResolvedWhole
<1>1. IInv => ResolvedWhole
  BY DEF IInv, AnswerInv, OutcomeInv, ResolvedWhole, Whole, AllRead
<1> QED
  BY <1>1, NodeInvariant, PTL

(* A call is given up after its own time, and with its answer there only if the
   last poll had begun before the end came: the timer of httpPostJSON next to
   cpuSpin. *)
THEOREM GivenUpLate == Spec => []TimeOutIsLate
<1>1. IInv => TimeOutIsLate
  BY DEF IInv, AnswerInv, OutcomeInv, TimeInv, TimeOutIsLate, Whole
<1> QED
  BY <1>1, NodeInvariant, PTL

(* A settled call leaves neither a timer nor an answer to come: clearTimeout and
   req.destroy() of httpPostJSON. *)
THEOREM SettledLeavesNothing == Spec => []SettledIsClosed
<1>1. ASSUME IInv PROVE SettledIsClosed
  <2> SUFFICES ASSUME NEW c \in Calls, promise[c] \in Settled
               PROVE  timer[c] = Off /\ ~Unread(c)
    BY DEF SettledIsClosed
  <2>1. OutcomeInv(c) /\ TimeInv(c) /\ TypeOK
    BY <1>1 DEF IInv, AnswerInv
  <2> QED
    BY <2>1, UnreadOrAllRead DEF OutcomeInv, TimeInv, Settled
<1> QED
  BY <1>1, NodeInvariant, PTL
===============================================================================
