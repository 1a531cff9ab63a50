--------------------------- MODULE GeneratorProofs ---------------------------
(***************************************************************************)
(* What Generator promises for every scenario: its types, that nothing is  *)
(* sent once a limit is reached, the bound on the overshoot, and that      *)
(* without a limit every series is sent.  All of it rests on what one      *)
(* stretch of a group's task can do, stated first.                         *)
(***************************************************************************)
EXTENDS Generator, FiniteSetTheorems, WellFoundedInduction, TLAPS

(* The stretch ends the task of g or puts it to sleep ...                  *)
Rests(g, out) ==
  /\ flying' = out /\ file' = file
  /\ \E v \in {"done", "pause"} : pc' = [pc EXCEPT ![g] = v]

(* ... or sends a series.                                                  *)
Sends(g, t, out) ==
  /\ ~ShouldStopGlobal(t)
  /\ flying' = out \cup SlotsOf(g)
  /\ file' = [file EXCEPT ![g] = 1]
  /\ pc' = [pc EXCEPT ![g] = "send"]

(* The POSTs of other groups, as a stretch of g finds them.                *)
Others(g, out) == out \subseteq {s \in Slots : s[1] # g /\ pc[s[1]] = "send"}

-----------------------------------------------------------------------------
(* A stretch that begins a series sends it or ends the task. *)
LEMMA SeriesEffect ==
  ASSUME NEW g, NEW r, NEW t, NEW out, Series(g, r, t, out)
  PROVE  Rests(g, out) \/ Sends(g, t, out)
BY DEF Series, End, Rests, Sends

(* So does one that ends a series, counting it or not. *)
LEMMA SeriesEndEffect ==
  ASSUME NEW g, NEW t, NEW out, SeriesEnd(g, t, out)
  PROVE  /\ Rests(g, out) \/ Sends(g, t, out)
         /\ rep' = rep \/ rep' = [rep EXCEPT ![g] = Advanced(g)]
<1>1. CASE ShouldStopGlobal(t)
  BY <1>1 DEF SeriesEnd, End, Rests
<1>2. CASE ~ShouldStopGlobal(t)
  <2>1. rep' = [rep EXCEPT ![g] = Advanced(g)]
    BY <1>2 DEF SeriesEnd
  <2>2. CASE Series(g, Advanced(g), t, out)
    BY <2>1, <2>2, SeriesEffect
  <2>3. CASE ~Series(g, Advanced(g), t, out)
    BY <1>2, <2>1, <2>3 DEF SeriesEnd, End, Rests
  <2> QED
    BY <2>2, <2>3
<1> QED
  BY <1>1, <1>2

(* The slots of a group are its own, and a group that waits for nothing has
   no POST in flight. *)
LEMMA SlotsAreOwn ==
  /\ \A g \in Groups : SlotsOf(g) \subseteq Slots /\ \A s \in SlotsOf(g) : s[1] = g
  /\ \A s \in Slots : s[1] \in Groups /\ s \in SlotsOf(s[1])
BY DEF Slots, SlotsOf

(* What a step of g that rests or sends does to the types. *)
LEMMA StretchTypes ==
  ASSUME TypeOK, NEW g \in Groups, NEW t, NEW out, Others(g, out),
         Rests(g, out) \/ Sends(g, t, out)
  PROVE  /\ pc' \in [Groups -> {"delay", "send", "pause", "done"}]
         /\ file' \in [Groups -> Nat \ {0}]
         /\ flying' \subseteq {s \in Slots : pc'[s[1]] = "send"}
<1>1. CASE Rests(g, out)
  BY <1>1, SlotsAreOwn DEF Rests, TypeOK, Others
<1>2. CASE Sends(g, t, out)
  <2>1. flying' = out \cup SlotsOf(g) /\ pc' = [pc EXCEPT ![g] = "send"]
        /\ file' = [file EXCEPT ![g] = 1]
    BY <1>2 DEF Sends
  <2>2. ASSUME NEW s \in flying'
        PROVE  s \in Slots /\ pc'[s[1]] = "send"
    <3>1. CASE s \in out
      BY <2>1, <3>1, SlotsAreOwn DEF Others, TypeOK
    <3>2. CASE s \in SlotsOf(g)
      BY <2>1, <3>2, SlotsAreOwn DEF TypeOK
    <3> QED
      BY <2>1, <2>2, <3>1, <3>2
  <2> QED
    BY <2>1, <2>2 DEF TypeOK
<1> QED
  BY <1>1, <1>2

(* The POSTs in flight when g wakes, gets its answer or has gathered all of
   them are those of other groups. *)
LEMMA OthersFly ==
  ASSUME TypeOK, NEW g \in Groups
  PROVE  /\ pc[g] # "send" => Others(g, flying)
         /\ flying \cap SlotsOf(g) = {} => Others(g, flying)
         /\ g \in Sequential => Others(g, flying \ {<<g, 1>>})
<1>1. \A s \in flying : s \in Slots /\ pc[s[1]] = "send"
  BY DEF TypeOK
<1>2. \A s \in flying : s[1] = g => s \in SlotsOf(g)
  BY <1>1, SlotsAreOwn
<1>3. g \in Sequential => SlotsOf(g) = {<<g, 1>>}
  BY DEF SlotsOf
<1> QED
  BY <1>1, <1>2, <1>3 DEF Others

-----------------------------------------------------------------------------
(* Every step preserves the types. *)
LEMMA TypeStep ==
  ASSUME TypeOK, [Next]_vars
  PROVE  TypeOK'
<1> USE ScenarioAssumption
<1>1. CASE \E g \in Groups : Group(g)
  <2> PICK g \in Groups : Group(g)
    BY <1>1
  <2>1. CASE Wake(g)
    <3>1. Others(g, flying)
      BY <2>1, OthersFly DEF Wake
    <3>2. Rests(g, flying) \/ Sends(g, total, flying)
      BY <2>1, SeriesEffect DEF Wake
    <3> QED
      BY <2>1, <3>1, <3>2, StretchTypes DEF Wake, TypeOK
  <2>2. CASE Answer(g)
    <3> DEFINE out == flying \ {<<g, 1>>}
    <3>1. g \in Sequential /\ total' = total + 1
          /\ stop' = stop /\ expired' = expired /\ monitor' = monitor
      BY <2>2 DEF Answer
    <3>2. Others(g, out)
      BY <3>1, OthersFly
    <3>3. CASE SeriesEnd(g, total + 1, out)
      <4>1. Rests(g, out) \/ Sends(g, total + 1, out)
        BY <3>3, SeriesEndEffect
      <4>2. rep' \in [Groups -> Nat]
        BY <3>3, SeriesEndEffect DEF TypeOK, Advanced
      <4>3. /\ pc' \in [Groups -> {"delay", "send", "pause", "done"}]
            /\ file' \in [Groups -> Nat \ {0}]
            /\ flying' \subseteq {s \in Slots : pc'[s[1]] = "send"}
        <5> HIDE DEF out
        <5> QED
          BY <3>2, <4>1, StretchTypes
      <4> QED
        BY <3>1, <4>2, <4>3 DEF TypeOK
    <3>4. CASE End(g, out) /\ rep' = rep
      <4>1. Rests(g, out)
        BY <3>4 DEF End, Rests
      <4> QED
        BY <3>1, <3>2, <3>4, <4>1, StretchTypes DEF TypeOK
    <3>5. CASE /\ file' = [file EXCEPT ![g] = file[g] + 1]
               /\ UNCHANGED <<pc, flying, rep>>
      BY <3>1, <3>5 DEF TypeOK
    <3> QED
      BY <2>2, <3>3, <3>4, <3>5 DEF Answer
  <2>3. CASE OneParallel(g)
    BY <2>3 DEF OneParallel, TypeOK
  <2>4. CASE Gathered(g)
    <3>1. Others(g, flying)
      BY <2>4, OthersFly DEF Gathered
    <3>2. Rests(g, flying) \/ Sends(g, total, flying)
      BY <2>4, SeriesEndEffect DEF Gathered
    <3>3. rep' \in [Groups -> Nat]
      BY <2>4, SeriesEndEffect DEF Gathered, TypeOK, Advanced
    <3> QED
      BY <2>4, <3>1, <3>2, <3>3, StretchTypes DEF Gathered, TypeOK
  <2> QED
    BY <2>1, <2>2, <2>3, <2>4 DEF Group
<1>2. CASE GlobalMonitor \/ Expire \/ RequestStop \/ Idle \/ UNCHANGED vars
  BY <1>2 DEF GlobalMonitor, Expire, RequestStop, Idle, vars, TypeOK
<1> QED
  BY <1>1, <1>2 DEF Next

(* The type invariant holds for every scenario. *)
THEOREM GeneratorTypes == Spec => []TypeOK
<1>1. ASSUME Init PROVE TypeOK
  <2>1. monitor \in BOOLEAN /\ stop \in BOOLEAN /\ expired \in BOOLEAN
    BY <1>1, ScenarioAssumption, Zenon DEF Init
  <2> QED
    BY <1>1, <2>1 DEF Init, TypeOK
<1> QED
  BY <1>1, TypeStep, PTL DEF Spec

-----------------------------------------------------------------------------
(* When the stretch is over, g has at most sent what it may send under
   ShouldStopGlobal, or gone on to its next file under it. *)
LEMMA StoppedStretch ==
  ASSUME NEW g, NEW t, NEW out \in SUBSET flying, ShouldStopGlobal(t),
         Rests(g, out) \/ Sends(g, t, out)
  PROVE  flying' \subseteq flying /\ file' = file
BY DEF Rests, Sends

(* Counting a request does not lift a limit. *)
LEMMA LimitStays ==
  ASSUME total \in Nat, ShouldStopGlobal(total)
  PROVE  ShouldStopGlobal(total + 1)
BY ScenarioAssumption DEF ShouldStopGlobal

(* No step sends once a limit is reached, a signal has come or the time is
   over. *)
LEMMA SilentStep ==
  ASSUME TypeOK, [Next]_vars, ShouldStopGlobal(total)
  PROVE  flying' \subseteq flying /\ file' = file
<1>1. ShouldStopGlobal(total + 1)
  BY LimitStays DEF TypeOK
<1>2. CASE \E g \in Groups : Group(g)
  <2> PICK g \in Groups : Group(g)
    BY <1>2
  <2>1. CASE Wake(g)
    BY <2>1, SeriesEffect, StoppedStretch DEF Wake
  <2>2. CASE Answer(g)
    <3> DEFINE out == flying \ {<<g, 1>>}
    <3>1. CASE SeriesEnd(g, total + 1, out)
      <4>1. (Rests(g, out) \/ Sends(g, total + 1, out)) /\ out \in SUBSET flying
        BY <3>1, SeriesEndEffect
      <4> QED
        BY <1>1, <4>1, StoppedStretch
    <3>2. CASE End(g, out)
      BY <3>2 DEF End
    <3> QED
      BY <1>1, <2>2, <3>1, <3>2 DEF Answer
  <2>3. CASE OneParallel(g)
    BY <2>3 DEF OneParallel
  <2>4. CASE Gathered(g)
    BY <2>4, SeriesEndEffect, StoppedStretch DEF Gathered
  <2> QED
    BY <2>1, <2>2, <2>3, <2>4 DEF Group
<1>3. CASE GlobalMonitor \/ Expire \/ RequestStop \/ Idle \/ UNCHANGED vars
  BY <1>3 DEF GlobalMonitor, Expire, RequestStop, Idle, vars
<1> QED
  BY <1>2, <1>3 DEF Next

(* NothingSentAfterStop for every scenario: between the look at the limits
   and the POST a task never gives way to another. *)
THEOREM SilentAfterStop == Spec => NothingSentAfterStop
<1>1. TypeOK /\ [Next]_vars =>
        [ShouldStopGlobal(total) => flying' \subseteq flying /\ file' = file]_vars
  BY SilentStep
<1> QED
  BY <1>1, GeneratorTypes, PTL DEF Spec, NothingSentAfterStop

-----------------------------------------------------------------------------
(* Only finitely many POSTs can be in flight together. *)
LEMMA SlotsFinite == IsFiniteSet(Slots)
<1>1. \A g \in Groups : IsFiniteSet(SlotsOf(g))
  <2> TAKE g \in Groups
  <2>1. IsFiniteSet({g}) /\ IsFiniteSet({1})
    BY FS_Singleton
  <2>2. IsFiniteSet(1 .. Files[g])
    <3>1. Files[g] \in Int
      BY ScenarioAssumption
    <3> QED
      BY <3>1, FS_Interval
  <2> QED
    BY <2>1, <2>2, FS_Product DEF SlotsOf
<1> DEFINE own == [g \in Groups |-> SlotsOf(g)]
           all == {SlotsOf(g) : g \in Groups}
<1>2. own \in Surjection(Groups, all)
  BY DEF Surjection
<1>3. IsFiniteSet(all)
  BY <1>2, FS_Surjection, ScenarioAssumption
<1> QED
  BY <1>1, <1>3, FS_UNION DEF Slots

(* The bound has to hold after a stretch that found t requests counted and
   the POSTs out in flight, if it held for these. *)
LEMMA StretchBound ==
  ASSUME Capped, NEW g \in Groups, NEW t \in Nat, NEW out \in SUBSET Slots,
         t + Cardinality(out) < Cap + Cardinality(Slots), total' = t,
         Rests(g, out) \/ Sends(g, t, out)
  PROVE  total' + Cardinality(flying') < Cap + Cardinality(Slots)
<1>1. CASE Rests(g, out)
  BY <1>1 DEF Rests
<1>2. CASE Sends(g, t, out)
  <2>1. flying' \subseteq Slots
    BY <1>2, SlotsAreOwn DEF Sends
  <2>2. /\ Cardinality(flying') \in Nat /\ Cardinality(Slots) \in Nat
        /\ Cardinality(flying') <= Cardinality(Slots)
    BY <2>1, SlotsFinite, FS_Subset, FS_CardinalityType
  <2>3. t < Cap
    BY <1>2, ScenarioAssumption DEF Sends, ShouldStopGlobal
  <2> QED
    BY <2>2, <2>3, ScenarioAssumption
<1> QED
  BY <1>1, <1>2

(* An answer moves one request from those in flight to those counted. *)
LEMMA AnswerCounted ==
  ASSUME TypeOK, NEW s \in flying
  PROVE  /\ Cardinality(flying) \in Nat /\ Cardinality(flying \ {s}) \in Nat
         /\ total + 1 + Cardinality(flying \ {s}) = total + Cardinality(flying)
<1>1. IsFiniteSet(flying)
  BY SlotsFinite, FS_Subset DEF TypeOK
<1>2. Cardinality(flying \ {s}) = Cardinality(flying) - 1 /\ IsFiniteSet(flying \ {s})
  BY <1>1, FS_RemoveElement
<1>3. Cardinality(flying) \in Nat /\ Cardinality(flying \ {s}) \in Nat
  BY <1>1, <1>2, FS_CardinalityType
<1>4. total \in Nat
  BY DEF TypeOK
<1> QED
  BY <1>2, <1>3, <1>4

(* Every step keeps the overshoot within its bound. *)
LEMMA BoundStep ==
  ASSUME TypeOK, OvershootBounded, [Next]_vars
  PROVE  OvershootBounded'
<1> SUFFICES ASSUME Capped PROVE total' + Cardinality(flying') < Cap + Cardinality(Slots)
  BY DEF OvershootBounded
<1>1. total + Cardinality(flying) < Cap + Cardinality(Slots)
  BY DEF OvershootBounded
<1>2. total \in Nat /\ total + 1 \in Nat /\ flying \subseteq Slots
  BY DEF TypeOK
<1>3. CASE \E g \in Groups : Group(g)
  <2> PICK g \in Groups : Group(g)
    BY <1>3
  <2>1. CASE Wake(g)
    BY <1>1, <1>2, <2>1, SeriesEffect, StretchBound DEF Wake
  <2>2. CASE Answer(g)
    <3> DEFINE out == flying \ {<<g, 1>>}
    <3>1. <<g, 1>> \in flying /\ total' = total + 1
      BY <2>2 DEF Answer
    <3>2. total + 1 + Cardinality(out) < Cap + Cardinality(Slots) /\ out \subseteq Slots
      BY <1>1, <1>2, <3>1, AnswerCounted
    <3>3. CASE SeriesEnd(g, total + 1, out)
      <4>1. Rests(g, out) \/ Sends(g, total + 1, out)
        BY <3>3, SeriesEndEffect
      <4> QED
        BY <1>2, <3>1, <3>2, <4>1, StretchBound
    <3>4. CASE End(g, out)
      BY <3>1, <3>2, <3>4 DEF End
    <3>5. CASE /\ file' = [file EXCEPT ![g] = file[g] + 1]
               /\ flying' = flying /\ ~ShouldStopGlobal(total + 1)
      <4>1. pc[g] = "send"
        BY <3>1 DEF TypeOK
      <4>2. total + 1 < Cap
        BY <1>2, <3>5, ScenarioAssumption DEF ShouldStopGlobal
      <4>3. /\ Cardinality(flying) \in Nat /\ Cardinality(Slots) \in Nat
            /\ Cardinality(flying) <= Cardinality(Slots)
        BY <1>2, SlotsFinite, FS_Subset, FS_CardinalityType
      <4> QED
        BY <1>2, <3>1, <3>5, <4>2, <4>3, ScenarioAssumption
    <3> QED
      BY <2>2, <3>3, <3>4, <3>5 DEF Answer
  <2>3. CASE OneParallel(g)
    <3>1. PICK s \in flying : flying' = flying \ {s} /\ total' = total + 1
      BY <2>3 DEF OneParallel
    <3> QED
      BY <1>1, <3>1, AnswerCounted
  <2>4. CASE Gathered(g)
    BY <1>1, <1>2, <2>4, SeriesEndEffect, StretchBound DEF Gathered
  <2> QED
    BY <2>1, <2>2, <2>3, <2>4 DEF Group
<1>4. CASE GlobalMonitor \/ Expire \/ RequestStop \/ Idle \/ UNCHANGED vars
  BY <1>1, <1>4 DEF GlobalMonitor, Expire, RequestStop, Idle, vars
<1> QED
  BY <1>3, <1>4 DEF Next

(* A scenario has a group, so something can be in flight. *)
LEMMA SomeSlot == Cardinality(Slots) \in Nat \ {0}
<1>1. PICK g \in Groups : TRUE
  BY ScenarioAssumption
<1>2. <<g, 1>> \in SlotsOf(g)
  BY <1>1, ScenarioAssumption DEF SlotsOf
<1>3. Slots # {}
  BY <1>1, <1>2, SlotsAreOwn
<1> QED
  BY <1>3, SlotsFinite, FS_CardinalityType, FS_EmptySet

(* The requests counted and in flight exceed the limit by less than what all
   groups together can have in flight, for every scenario. *)
THEOREM OvershootWithinSlots == Spec => []OvershootBounded
<1>1. Init => OvershootBounded
  <2> SUFFICES ASSUME Init PROVE total + Cardinality(flying) < Cap + Cardinality(Slots)
    BY DEF OvershootBounded
  <2>1. total = 0 /\ Cardinality(flying) = 0
    BY FS_EmptySet DEF Init
  <2> QED
    BY <2>1, SomeSlot, ScenarioAssumption
<1> QED
  BY <1>1, BoundStep, GeneratorTypes, PTL DEF Spec

-----------------------------------------------------------------------------
(* Sums over finite sets.  MapThenSumSet is a recursive function on the     *)
(* subsets of its set; it exists, and what is proved of it is proved of the *)
(* smallest subset for which it might not hold.                             *)
One(s) == CHOOSE x \in s : TRUE

Summed(h, D, it) ==
  it = [s \in D |-> IF s = {} THEN 0 ELSE h[One(s)] + it[s \ {One(s)}]]

SumOf(h, S) == MapThenSumSet(LAMBDA g : h[g], S)

AtMost(S, n) == {s \in SUBSET S : Cardinality(s) <= n}

(* A set of naturals that is not empty has a least element. *)
LEMMA LeastExists ==
  ASSUME NEW S \in SUBSET Nat, S # {}
  PROVE  \E i \in S : \A j \in S : i <= j
<1>1. \E i \in S : \A j \in S : <<j, i>> \notin OpToRel(<, Nat)
  BY NatLessThanWellFounded, WFMin
<1>2. \A i, j \in Nat : <<j, i>> \notin OpToRel(<, Nat) => i <= j
  BY DEF OpToRel
<1> QED
  BY <1>1, <1>2

(* Without the element it chooses, a finite set has one less. *)
LEMMA OneLess ==
  ASSUME NEW S, IsFiniteSet(S), NEW s \in SUBSET S
  PROVE  /\ Cardinality(s) \in Nat
         /\ s # {} => /\ One(s) \in s /\ Cardinality(s) # 0
                      /\ s \ {One(s)} \in SUBSET S
                      /\ Cardinality(s \ {One(s)}) = Cardinality(s) - 1
<1>1. IsFiniteSet(s) /\ Cardinality(s) \in Nat
  BY FS_Subset, FS_CardinalityType
<1>2. ASSUME s # {} PROVE One(s) \in s
  BY <1>2 DEF One
<1>3. ASSUME s # {} PROVE Cardinality(s) # 0 /\ Cardinality(s \ {One(s)}) = Cardinality(s) - 1
  BY <1>1, <1>2, <1>3, FS_RemoveElement, FS_EmptySet
<1> QED
  BY <1>1, <1>2, <1>3

(* What sums the sets of at most n elements sums those with one more. *)
LEMMA SumsGrow ==
  ASSUME NEW h, NEW S, IsFiniteSet(S), NEW n \in Nat, n # 0,
         NEW it, Summed(h, AtMost(S, n - 1), it)
  PROVE  \E jt : Summed(h, AtMost(S, n), jt)
<1> DEFINE jt == [s \in AtMost(S, n) |-> IF s = {} THEN 0 ELSE h[One(s)] + it[s \ {One(s)}]]
<1>1. \A s \in AtMost(S, n) : s # {} => s \ {One(s)} \in AtMost(S, n - 1)
  BY OneLess DEF AtMost
<1>2. \A s \in AtMost(S, n - 1) : s \in AtMost(S, n)
  <2>1. \A s \in SUBSET S : Cardinality(s) \in Nat
    BY OneLess
  <2> QED
    BY <2>1 DEF AtMost
<1>3. \A s \in AtMost(S, n - 1) : it[s] = IF s = {} THEN 0 ELSE h[One(s)] + it[s \ {One(s)}]
  BY Zenon DEF Summed
<1>4. \A s \in AtMost(S, n - 1) : jt[s] = it[s]
  BY <1>2, <1>3
<1>5. jt = [s \in AtMost(S, n) |-> IF s = {} THEN 0 ELSE h[One(s)] + jt[s \ {One(s)}]]
  <2> HIDE DEF jt
  <2>1. \A s \in AtMost(S, n) : s # {} => jt[s \ {One(s)}] = it[s \ {One(s)}]
    BY <1>1, <1>4
  <2>2. jt = [s \in AtMost(S, n) |-> IF s = {} THEN 0 ELSE h[One(s)] + it[s \ {One(s)}]]
    BY DEF jt
  <2> QED
    BY <2>1, <2>2
<1> HIDE DEF jt
<1> QED
  BY <1>5 DEF Summed

(* So there are sums for the sets of any size. *)
LEMMA SumsExist ==
  ASSUME NEW h, NEW S, IsFiniteSet(S)
  PROVE  \E it : Summed(h, SUBSET S, it)
<1> DEFINE bad == {n \in Nat : ~ \E it : Summed(h, AtMost(S, n), it)}
<1>1. bad = {}
  <2> SUFFICES ASSUME bad # {} PROVE FALSE
    OBVIOUS
  <2>1. PICK n \in bad : \A m \in bad : n <= m
    BY LeastExists
  <2>2. CASE n = 0
    <3> DEFINE it == [s \in AtMost(S, 0) |-> 0]
    <3>1. ASSUME NEW s \in AtMost(S, 0) PROVE s = {}
      <4>1. s \in SUBSET S /\ Cardinality(s) <= 0
        BY DEF AtMost
      <4>2. Cardinality(s) \in Nat /\ (s # {} => Cardinality(s) # 0)
        BY <4>1, OneLess
      <4> QED
        BY <4>1, <4>2
    <3>2. Summed(h, AtMost(S, 0), it)
      BY <3>1 DEF Summed
    <3> QED
      BY <2>2, <3>2
  <2>3. CASE n # 0
    <3>1. n - 1 \in Nat /\ n - 1 \notin bad
      BY <2>1, <2>3
    <3>2. \E it : Summed(h, AtMost(S, n - 1), it)
      BY <3>1
    <3> QED
      BY <2>3, <3>2, SumsGrow
  <2> QED
    BY <2>2, <2>3
<1>2. Cardinality(S) \in Nat /\ AtMost(S, Cardinality(S)) = SUBSET S
  BY FS_Subset, FS_CardinalityType DEF AtMost
<1>3. \E it : Summed(h, AtMost(S, Cardinality(S)), it)
  BY <1>1, <1>2
<1> QED
  BY <1>2, <1>3

(* MapThenSumSet is one of them. *)
LEMMA SumIsSummed ==
  ASSUME NEW h, NEW S, IsFiniteSet(S)
  PROVE  \E it : Summed(h, SUBSET S, it) /\ SumOf(h, S) = it[S]
<1>1. SumOf(h, S) = (CHOOSE it : Summed(h, SUBSET S, it))[S]
  BY DEF SumOf, MapThenSumSet, MapThenFoldSet, Summed, One
<1>2. Summed(h, SUBSET S, CHOOSE it : Summed(h, SUBSET S, it))
  BY SumsExist
<1> QED
  BY <1>1, <1>2

(* The sum follows when one of its terms grows. *)
LEMMA SumGrows ==
  ASSUME NEW S, IsFiniteSet(S), NEW h \in [S -> Nat], NEW k \in [S -> Nat],
         NEW g \in S, NEW d \in Nat,
         \A x \in S : k[x] = IF x = g THEN h[x] + d ELSE h[x]
  PROVE  SumOf(h, S) \in Nat /\ SumOf(k, S) = SumOf(h, S) + d
<1>1. PICK it : Summed(h, SUBSET S, it) /\ SumOf(h, S) = it[S]
  BY SumIsSummed
<1>2. PICK jt : Summed(k, SUBSET S, jt) /\ SumOf(k, S) = jt[S]
  BY SumIsSummed
<1> DEFINE Good(s) == it[s] \in Nat /\ jt[s] = it[s] + (IF g \in s THEN d ELSE 0)
           bad == {n \in Nat : \E s \in SUBSET S : Cardinality(s) = n /\ ~Good(s)}
<1>3. ASSUME NEW s \in SUBSET S
      PROVE  /\ it[s] = IF s = {} THEN 0 ELSE h[One(s)] + it[s \ {One(s)}]
             /\ jt[s] = IF s = {} THEN 0 ELSE k[One(s)] + jt[s \ {One(s)}]
  BY <1>1, <1>2, Zenon DEF Summed
<1>4. bad = {}
  <2> SUFFICES ASSUME bad # {} PROVE FALSE
    OBVIOUS
  <2>1. PICK n \in bad : \A m \in bad : n <= m
    <3> HIDE DEF Good
    <3> QED
      BY LeastExists
  <2>2. PICK s \in SUBSET S : Cardinality(s) = n /\ ~Good(s)
    OBVIOUS
  <2>3. s # {}
    <3> SUFFICES ASSUME s = {} PROVE Good(s)
      BY <2>2
    <3>1. it[s] = 0 /\ jt[s] = 0 /\ g \notin s
      BY <1>3
    <3> QED
      BY <3>1
  <2> DEFINE x == One(s)
             r == s \ {x}
  <2>4. x \in s /\ r \in SUBSET S /\ Cardinality(r) = n - 1 /\ n - 1 \in Nat
    BY <2>2, <2>3, OneLess
  <2>5. Good(r)
    <3> HIDE DEF Good, r
    <3> QED
      BY <2>1, <2>4
  <2>6. it[s] = h[x] + it[r] /\ jt[s] = k[x] + jt[r]
    BY <1>3, <2>3
  <2>7. h[x] \in Nat /\ k[x] = IF x = g THEN h[x] + d ELSE h[x]
    BY <2>4
  <2>8. g \in s <=> x = g \/ g \in r
    BY <2>4
  <2>9. x \notin r
    OBVIOUS
  <2> HIDE DEF x, r
  <2> QED
    BY <2>2, <2>5, <2>6, <2>7, <2>8, <2>9
<1>5. Good(S)
  <2> HIDE DEF Good
  <2>1. Cardinality(S) \in Nat
    BY FS_CardinalityType
  <2> QED
    BY <1>4, <2>1
<1> QED
  BY <1>1, <1>2, <1>5

(* A sum of zeros is zero. *)
LEMMA SumOfZeros ==
  ASSUME NEW S, IsFiniteSet(S), NEW h, h = [x \in S |-> 0]
  PROVE  SumOf(h, S) = 0
<1>1. PICK it : Summed(h, SUBSET S, it) /\ SumOf(h, S) = it[S]
  BY SumIsSummed
<1> DEFINE bad == {n \in Nat : \E s \in SUBSET S : Cardinality(s) = n /\ it[s] # 0}
<1>2. ASSUME NEW s \in SUBSET S
      PROVE  it[s] = IF s = {} THEN 0 ELSE h[One(s)] + it[s \ {One(s)}]
  BY <1>1, Zenon DEF Summed
<1>3. bad = {}
  <2> SUFFICES ASSUME bad # {} PROVE FALSE
    OBVIOUS
  <2>1. PICK n \in bad : \A m \in bad : n <= m
    BY LeastExists
  <2>2. PICK s \in SUBSET S : Cardinality(s) = n /\ it[s] # 0
    OBVIOUS
  <2>3. s # {}
    BY <1>2, <2>2
  <2>4. /\ One(s) \in s /\ s \ {One(s)} \in SUBSET S
        /\ Cardinality(s \ {One(s)}) = n - 1 /\ n - 1 \in Nat
    BY <2>2, <2>3, OneLess
  <2>5. it[s \ {One(s)}] = 0
    BY <2>1, <2>4
  <2>6. h[One(s)] = 0
    BY <2>4
  <2> QED
    BY <1>2, <2>2, <2>3, <2>5, <2>6
<1>4. Cardinality(S) \in Nat
  BY FS_CardinalityType
<1> QED
  BY <1>1, <1>3, <1>4

-----------------------------------------------------------------------------
(* EverySeriesSent.  Active groups are those not refused; what follows is   *)
(* for scenarios all of whose files can be read.                            *)
Active == Groups \ Skipped
AllReadable == \A g \in Groups : Unreadable[g] = {}

(* The POSTs of the series under way that have been answered, and all that  *)
(* have been answered for a group.                                          *)
Answered(g) ==
  IF pc[g] # "send" THEN 0
  ELSE IF g \in Sequential THEN file[g] - 1
  ELSE Files[g] - Cardinality(flying \cap SlotsOf(g))

Sent == [g \in Active |-> rep[g] * Files[g] + Answered(g)]

(* A group that no limit has stopped is on its way through its series.      *)
Pace(g) ==
  /\ g \notin Endless => rep[g] <= Reps[g]
  /\ pc[g] = "done" => SeriesDone(g, rep[g])
  /\ pc[g] = "send" => ~SeriesDone(g, rep[g]) /\ file[g] <= Files[g]

SeriesInv ==
  /\ \A g \in Skipped : pc[g] = "done"
  /\ AllReadable /\ ~ShouldStopGlobal(total) =>
       /\ \A g \in Active : Pace(g)
       /\ Active \cap Endless = {} => total = SumOf(Sent, Active)

(* What a stretch of a task does that neither a limit nor a file stops, when *)
(* the group has completed r series and out is in flight.                    *)
Moves(g, r, out) ==
  \/ /\ SeriesDone(g, r)
     /\ flying' = out /\ file' = file /\ pc' = [pc EXCEPT ![g] = "done"]
  \/ /\ ~SeriesDone(g, r)
     /\ flying' = out /\ file' = file /\ pc' = [pc EXCEPT ![g] = "pause"]
  \/ /\ ~SeriesDone(g, r)
     /\ flying' = out \cup SlotsOf(g) /\ file' = [file EXCEPT ![g] = 1]
     /\ pc' = [pc EXCEPT ![g] = "send"]

(* A stretch that begins a series does one of these. *)
LEMMA SeriesMoves ==
  ASSUME AllReadable, NEW g \in Groups, NEW r, NEW t, NEW out,
         ~ShouldStopGlobal(t), Series(g, r, t, out)
  PROVE  Moves(g, r, out)
<1>1. CanLoad(g)
  BY DEF AllReadable, CanLoad
<1> QED
  BY <1>1 DEF Series, End, Moves

(* So does one that ends a series, having counted it. *)
LEMMA SeriesEndMoves ==
  ASSUME AllReadable, NEW g \in Groups, NEW t, NEW out,
         ~ShouldStopGlobal(t), SeriesEnd(g, t, out)
  PROVE  rep' = [rep EXCEPT ![g] = Advanced(g)] /\ Moves(g, Advanced(g), out)
<1>1. CASE Series(g, Advanced(g), t, out)
  BY <1>1, SeriesMoves DEF SeriesEnd
<1>2. CASE ~Series(g, Advanced(g), t, out)
  BY <1>2 DEF SeriesEnd, End, Moves
<1> QED
  BY <1>1, <1>2

(* How many POSTs of a group can be in flight, and that they are so many less
   than a series has. *)
LEMMA FlyingOfGroup ==
  ASSUME TypeOK, NEW g \in Groups
  PROVE  /\ IsFiniteSet(flying \cap SlotsOf(g))
         /\ Cardinality(flying \cap SlotsOf(g)) \in Nat
         /\ g \notin Sequential => Cardinality(SlotsOf(g)) = Files[g]
         /\ g \notin Sequential => Cardinality(flying \cap SlotsOf(g)) <= Files[g]
<1>1. Files[g] \in Nat \ {0}
  BY ScenarioAssumption
<1>2. IsFiniteSet(SlotsOf(g))
  BY SlotsFinite, SlotsAreOwn, FS_Subset
<1>3. ASSUME g \notin Sequential PROVE Cardinality(SlotsOf(g)) = Files[g]
  <2>1. IsFiniteSet(1 .. Files[g]) /\ Cardinality(1 .. Files[g]) = Files[g]
    BY <1>1, FS_Interval
  <2>2. IsFiniteSet({g}) /\ Cardinality({g}) = 1
    BY FS_Singleton
  <2>3. Cardinality({g} \X (1 .. Files[g])) = 1 * Files[g]
    BY <2>1, <2>2, FS_Product
  <2> QED
    BY <1>1, <1>3, <2>3 DEF SlotsOf
<1>4. /\ IsFiniteSet(flying \cap SlotsOf(g))
      /\ Cardinality(flying \cap SlotsOf(g)) <= Cardinality(SlotsOf(g))
  BY <1>2, FS_Subset
<1> QED
  BY <1>3, <1>4, FS_CardinalityType

(* So what has been sent is a number for each active group. *)
LEMMA SentType ==
  ASSUME TypeOK
  PROVE  Sent \in [Active -> Nat]
<1>1. ASSUME NEW g \in Active PROVE rep[g] * Files[g] + Answered(g) \in Nat
  <2>1. g \in Groups /\ rep[g] \in Nat /\ Files[g] \in Nat /\ file[g] \in Nat \ {0}
    BY ScenarioAssumption DEF TypeOK, Active
  <2>2. Answered(g) \in Nat
    BY <2>1, FlyingOfGroup DEF Answered
  <2>3. rep[g] * Files[g] \in Nat
    BY <2>1
  <2> QED
    BY <2>2, <2>3
<1> QED
  BY <1>1 DEF Sent

(* A stretch of g that has r series behind it leaves every group on its way, and
   of the group itself nothing but those r series. *)
LEMMA MovesOn ==
  ASSUME TypeOK, NEW g \in Active, NEW r \in Nat, g \notin Endless => r <= Reps[g],
         rep' = [rep EXCEPT ![g] = r], Moves(g, r, flying \ SlotsOf(g)),
         \A q \in Active : Pace(q)
  PROVE  /\ \A q \in Active : Pace(q)'
         /\ Sent' = [Sent EXCEPT ![g] = r * Files[g]]
<1>1. /\ g \in Groups /\ rep' \in [Groups -> Nat] /\ Files[g] \in Nat \ {0}
      /\ rep'[g] = r /\ r * Files[g] \in Nat
  <2>1. g \in Groups /\ Files[g] \in Nat \ {0}
    BY ScenarioAssumption DEF Active
  <2>2. r * Files[g] \in Nat
    BY <2>1
  <2>3. rep' \in [Groups -> Nat] /\ rep'[g] = r
    BY <2>1 DEF TypeOK
  <2> QED
    BY <2>1, <2>2, <2>3
<1>2. \A q \in Groups : q # g =>
        pc'[q] = pc[q] /\ rep'[q] = rep[q] /\ file'[q] = file[q]
  BY <1>1 DEF Moves, TypeOK
<1>3. \A q \in Groups : q # g => flying' \cap SlotsOf(q) = flying \cap SlotsOf(q)
  <2> SUFFICES ASSUME NEW q \in Groups, q # g
               PROVE  flying' \cap SlotsOf(q) = flying \cap SlotsOf(q)
    OBVIOUS
  <2>1. SlotsOf(q) \cap SlotsOf(g) = {}
    BY <1>1, SlotsAreOwn
  <2> QED
    BY <2>1 DEF Moves
<1>4. pc'[g] # "send" \/ (pc'[g] = "send" /\ file'[g] = 1 /\ flying' \cap SlotsOf(g) = SlotsOf(g))
  BY <1>1 DEF Moves, TypeOK
<1>5. ASSUME NEW q \in Active PROVE Pace(q)'
  <2>1. CASE q = g
    <3>1. pc'[g] = "done" => SeriesDone(g, r)
      BY <1>1 DEF Moves, TypeOK
    <3>2. pc'[g] = "send" => ~SeriesDone(g, r) /\ file'[g] = 1
      BY <1>1 DEF Moves, TypeOK
    <3> QED
      BY <1>1, <2>1, <3>1, <3>2 DEF Pace, SeriesDone
  <2>2. CASE q # g
    <3>1. q \in Groups /\ Pace(q)
      BY DEF Active
    <3> QED
      BY <1>2, <2>2, <3>1 DEF Pace, SeriesDone
  <2> QED
    BY <2>1, <2>2
<1>6. Answered(g)' = 0
  <2>1. g \notin Sequential => Cardinality(SlotsOf(g)) = Files[g]
    BY <1>1, FlyingOfGroup
  <2>2. Answered(g)' = IF pc'[g] # "send" THEN 0
                       ELSE IF g \in Sequential THEN file'[g] - 1
                       ELSE Files[g] - Cardinality(flying' \cap SlotsOf(g))
    BY DEF Answered, SlotsOf
  <2>3. CASE pc'[g] # "send"
    BY <2>2, <2>3
  <2>4. CASE pc'[g] = "send" /\ g \in Sequential
    BY <1>4, <2>2, <2>4
  <2>5. CASE pc'[g] = "send" /\ g \notin Sequential
    <3>1. Cardinality(flying' \cap SlotsOf(g)) = Files[g]
      BY <1>4, <2>1, <2>5
    <3> QED
      BY <1>1, <2>2, <2>5, <3>1
  <2> QED
    BY <2>3, <2>4, <2>5
<1>7. \A q \in Active : q # g => Answered(q)' = Answered(q)
  BY <1>2, <1>3 DEF Answered, SlotsOf, Active
<1>8. \A q \in Active : Sent'[q] = IF q = g THEN r * Files[g] ELSE Sent[q]
  BY <1>1, <1>2, <1>6, <1>7 DEF Sent, Active
<1>9. DOMAIN Sent = Active /\ DOMAIN Sent' = Active
      /\ Sent = [q \in Active |-> Sent[q]] /\ Sent' = [q \in Active |-> Sent'[q]]
  BY DEF Sent, Active
<1> QED
  BY <1>5, <1>8, <1>9

(* The sum follows when an answer is counted for a group, or none is. *)
LEMMA SumFollows ==
  ASSUME TypeOK, NEW g \in Active, NEW d \in {0, 1},
         Active \cap Endless = {} =>
           total = SumOf(Sent, Active) /\ Sent' = [Sent EXCEPT ![g] = Sent[g] + d],
         total' = total + d
  PROVE  Active \cap Endless = {} => total' = SumOf(Sent', Active)
<1> SUFFICES ASSUME Active \cap Endless = {} PROVE total' = SumOf(Sent', Active)
  OBVIOUS
<1>1. Sent \in [Active -> Nat] /\ IsFiniteSet(Active)
  BY SentType, ScenarioAssumption, FS_Subset DEF Active
<1>2. Sent' = [Sent EXCEPT ![g] = Sent[g] + d]
  OBVIOUS
<1>3. Sent' \in [Active -> Nat]
  BY <1>1, <1>2
<1>4. \A x \in Active : Sent'[x] = IF x = g THEN Sent[x] + d ELSE Sent[x]
  BY <1>1, <1>2
<1>5. d \in Nat
  OBVIOUS
<1>6. SumOf(Sent', Active) = SumOf(Sent, Active) + d
  BY <1>1, <1>3, <1>4, <1>5, SumGrows
<1> QED
  BY <1>6

(* Who takes a step is not over, and nobody else's task moves with it. *)
LEMMA OverStaysOver ==
  ASSUME TypeOK, NEW g \in Groups, Group(g)
  PROVE  /\ pc[g] # "done"
         /\ \A q \in Groups : q # g => pc'[q] = pc[q]
<1>1. ASSUME NEW t, NEW out, Rests(g, out) \/ Sends(g, t, out)
      PROVE  \A q \in Groups : q # g => pc'[q] = pc[q]
  BY <1>1 DEF Rests, Sends, TypeOK
<1>2. CASE Wake(g)
  BY <1>1, <1>2, SeriesEffect DEF Wake
<1>3. CASE Answer(g)
  <2>1. pc[g] = "send"
    BY <1>3 DEF Answer, TypeOK
  <2>2. CASE SeriesEnd(g, total + 1, flying \ {<<g, 1>>})
    BY <1>1, <2>1, <2>2, SeriesEndEffect
  <2>3. CASE End(g, flying \ {<<g, 1>>}) \/ pc' = pc
    BY <2>1, <2>3 DEF End, TypeOK
  <2> QED
    BY <1>3, <2>2, <2>3 DEF Answer
<1>4. CASE OneParallel(g)
  <2>1. PICK s \in flying : s \in SlotsOf(g)
    BY <1>4 DEF OneParallel
  <2> QED
    BY <1>4, <2>1, SlotsAreOwn DEF OneParallel, TypeOK
<1>5. CASE Gathered(g)
  BY <1>1, <1>5, SeriesEndEffect DEF Gathered
<1> QED
  BY <1>2, <1>3, <1>4, <1>5 DEF Group

(* What SeriesInv says of a scenario that nothing disturbs, before a step    *)
(* and after it.                                                             *)
Undisturbed ==
  /\ AllReadable /\ ~ShouldStopGlobal(total)
  /\ \A g \in Active : Pace(g)
  /\ Active \cap Endless = {} => total = SumOf(Sent, Active)

OnItsWay ==
  /\ \A g \in Active : Pace(g)'
  /\ Active \cap Endless = {} => total' = SumOf(Sent', Active)

(* A task that wakes up has nothing in flight, and nothing is counted. *)
LEMMA WakeOnWay ==
  ASSUME TypeOK, Undisturbed, NEW g \in Active, Wake(g)
  PROVE  OnItsWay
<1>1. /\ g \in Groups /\ rep[g] \in Nat /\ Files[g] \in Nat /\ pc[g] # "send"
      /\ total' = total + 0 /\ rep' = [rep EXCEPT ![g] = rep[g]]
  BY ScenarioAssumption DEF Wake, TypeOK, Active
<1>2. flying \ SlotsOf(g) = flying
  BY <1>1, SlotsAreOwn DEF TypeOK
<1>3. Moves(g, rep[g], flying \ SlotsOf(g))
  BY <1>1, <1>2, SeriesMoves DEF Wake, Undisturbed
<1>4. /\ \A q \in Active : Pace(q)'
      /\ Sent' = [Sent EXCEPT ![g] = rep[g] * Files[g]]
  BY <1>1, <1>3, MovesOn DEF Undisturbed, Pace
<1>5. Sent[g] + 0 = rep[g] * Files[g]
  <2>1. rep[g] * Files[g] \in Nat
    BY <1>1
  <2> QED
    BY <1>1, <2>1 DEF Sent, Answered
<1> QED
  BY <1>1, <1>4, <1>5, SumFollows DEF Undisturbed, OnItsWay

(* A group that has the last answer of a series goes on with the next. *)
LEMMA SeriesOver ==
  ASSUME TypeOK, Undisturbed, NEW g \in Active, NEW t \in Nat, pc[g] = "send",
         ~ShouldStopGlobal(t), SeriesEnd(g, t, flying \ SlotsOf(g))
  PROVE  /\ \A q \in Active : Pace(q)'
         /\ Active \cap Endless = {} =>
              Sent' = [Sent EXCEPT ![g] = rep[g] * Files[g] + Files[g]]
<1>1. g \in Groups /\ rep[g] \in Nat /\ Files[g] \in Nat /\ Reps[g] \in Nat
  BY ScenarioAssumption DEF TypeOK, Active
<1>2. Pace(g) /\ AllReadable
  BY DEF Undisturbed
<1>3. /\ Advanced(g) \in Nat
      /\ g \notin Endless => Advanced(g) = rep[g] + 1 /\ Advanced(g) <= Reps[g]
  BY <1>1, <1>2 DEF Advanced, Pace, SeriesDone
<1>4. rep' = [rep EXCEPT ![g] = Advanced(g)] /\ Moves(g, Advanced(g), flying \ SlotsOf(g))
  BY <1>1, <1>2, SeriesEndMoves
<1>5. /\ \A q \in Active : Pace(q)'
      /\ Sent' = [Sent EXCEPT ![g] = Advanced(g) * Files[g]]
  BY <1>3, <1>4, MovesOn DEF Undisturbed
<1>6. (rep[g] + 1) * Files[g] = rep[g] * Files[g] + Files[g]
  BY <1>1
<1> QED
  BY <1>3, <1>5, <1>6

(* A parallel group has counted all its answers when gather returns. *)
LEMMA GatheredOnWay ==
  ASSUME TypeOK, Undisturbed, NEW g \in Active, Gathered(g)
  PROVE  OnItsWay
<1>1. /\ g \in Groups /\ rep[g] \in Nat /\ Files[g] \in Nat /\ pc[g] = "send"
      /\ total \in Nat /\ total' = total + 0
  BY ScenarioAssumption DEF Gathered, TypeOK, Active
<1>2. flying \ SlotsOf(g) = flying /\ Cardinality(flying \cap SlotsOf(g)) = 0
  BY FS_EmptySet DEF Gathered
<1>3. /\ \A q \in Active : Pace(q)'
      /\ Active \cap Endless = {} =>
           Sent' = [Sent EXCEPT ![g] = rep[g] * Files[g] + Files[g]]
  BY <1>1, <1>2, SeriesOver DEF Gathered, Undisturbed
<1>4. Sent[g] + 0 = rep[g] * Files[g] + Files[g]
  <2>1. rep[g] * Files[g] \in Nat
    BY <1>1
  <2>2. Answered(g) = Files[g]
    BY <1>1, <1>2 DEF Answered, Gathered
  <2> QED
    BY <1>1, <2>1, <2>2 DEF Sent
<1> QED
  BY <1>1, <1>3, <1>4, SumFollows DEF Undisturbed, OnItsWay

(* An answer to a sequential group is counted. *)
LEMMA AnswerOnWay ==
  ASSUME TypeOK, Undisturbed, NEW g \in Active, Answer(g), ~ShouldStopGlobal(total + 1)
  PROVE  OnItsWay
<1>1. /\ g \in Groups /\ rep[g] \in Nat /\ Files[g] \in Nat /\ file[g] \in Nat \ {0}
      /\ total \in Nat /\ total' = total + 1 /\ pc[g] = "send" /\ g \in Sequential
  BY ScenarioAssumption DEF Answer, TypeOK, Active
<1>2. flying \ SlotsOf(g) = flying \ {<<g, 1>>}
  BY <1>1 DEF SlotsOf
<1>3. rep[g] * Files[g] \in Nat /\ Sent[g] = rep[g] * Files[g] + (file[g] - 1)
  <2>1. rep[g] * Files[g] \in Nat
    BY <1>1
  <2> QED
    BY <1>1, <2>1 DEF Sent, Answered
<1>4. CASE file[g] = Files[g] /\ SeriesEnd(g, total + 1, flying \ {<<g, 1>>})
  <2>1. /\ \A q \in Active : Pace(q)'
        /\ Active \cap Endless = {} =>
             Sent' = [Sent EXCEPT ![g] = rep[g] * Files[g] + Files[g]]
    <3>1. SeriesEnd(g, total + 1, flying \ SlotsOf(g))
      BY <1>2, <1>4
    <3>2. total + 1 \in Nat
      BY <1>1
    <3> QED
      BY <1>1, <3>1, <3>2, SeriesOver
  <2>2. Sent[g] + 1 = rep[g] * Files[g] + Files[g]
    BY <1>1, <1>3, <1>4
  <2> QED
    BY <1>1, <2>1, <2>2, SumFollows DEF Undisturbed, OnItsWay
<1>5. CASE /\ file[g] < Files[g] /\ rep' = rep
           /\ file' = [file EXCEPT ![g] = file[g] + 1] /\ UNCHANGED <<pc, flying>>
  <2>1. ASSUME NEW q \in Active PROVE Pace(q)'
    <3>1. Pace(q) /\ q \in Groups
      BY DEF Undisturbed, Active
    <3> QED
      BY <1>1, <1>5, <3>1 DEF Pace, SeriesDone, TypeOK
  <2>2. \A q \in Active : Sent'[q] = IF q = g THEN Sent[g] + 1 ELSE Sent[q]
    <3>1. Sent'[g] = rep[g] * Files[g] + file[g]
      BY <1>1, <1>5 DEF Sent, Answered, TypeOK
    <3>2. \A q \in Active : q # g => Sent'[q] = Sent[q]
      BY <1>1, <1>5 DEF Sent, Answered, TypeOK, SlotsOf, Active
    <3> QED
      BY <1>1, <1>3, <3>1, <3>2
  <2>3. Sent' = [Sent EXCEPT ![g] = Sent[g] + 1]
    BY <2>2 DEF Sent, Active
  <2> QED
    BY <1>1, <2>1, <2>3, SumFollows DEF Undisturbed, OnItsWay
<1>6. file[g] < Files[g] => file[g] + 1 \notin Unreadable[g]
  BY <1>1 DEF Undisturbed, AllReadable
<1> QED
  BY <1>4, <1>5, <1>6 DEF Answer

(* So is one to a parallel group, whichever comes first. *)
LEMMA ParallelOnWay ==
  ASSUME TypeOK, Undisturbed, NEW g \in Active, OneParallel(g)
  PROVE  OnItsWay
<1>1. PICK s \in flying \cap SlotsOf(g) : flying' = flying \ {s}
  BY DEF OneParallel
<1>2. /\ g \in Groups /\ rep[g] \in Nat /\ Files[g] \in Nat /\ s[1] = g
      /\ pc[g] = "send" /\ g \notin Sequential /\ total' = total + 1
      /\ UNCHANGED <<pc, rep, file>>
  BY <1>1, SlotsAreOwn, ScenarioAssumption DEF OneParallel, TypeOK, Active
<1>3. \A q \in Active : Pace(q)'
  BY <1>2 DEF Undisturbed, Pace, SeriesDone
<1> DEFINE c == Cardinality(flying \cap SlotsOf(g))
<1>4. c \in Nat /\ Cardinality(flying' \cap SlotsOf(g)) = c - 1 /\ c <= Files[g]
  <2>1. flying' \cap SlotsOf(g) = (flying \cap SlotsOf(g)) \ {s}
    BY <1>1
  <2>2. IsFiniteSet(flying \cap SlotsOf(g)) /\ c \in Nat /\ c <= Files[g]
    BY <1>2, FlyingOfGroup
  <2> QED
    BY <1>1, <2>1, <2>2, FS_RemoveElement
<1>5. \A q \in Active : q # g => flying' \cap SlotsOf(q) = flying \cap SlotsOf(q)
  BY <1>1, <1>2, SlotsAreOwn DEF Active
<1>6. \A q \in Active : Sent'[q] = IF q = g THEN Sent[g] + 1 ELSE Sent[q]
  <2>1. rep[g] * Files[g] \in Nat
    BY <1>2
  <2>2. Sent[g] = rep[g] * Files[g] + (Files[g] - c)
    BY <1>2 DEF Sent, Answered
  <2>3. Sent'[g] = rep[g] * Files[g] + (Files[g] - Cardinality(flying' \cap SlotsOf(g)))
    BY <1>2 DEF Sent, Answered, SlotsOf
  <2>4. \A q \in Active : q # g => Sent'[q] = Sent[q]
    BY <1>2, <1>5 DEF Sent, Answered, SlotsOf
  <2> HIDE DEF c
  <2> QED
    BY <1>2, <1>4, <2>1, <2>2, <2>3, <2>4
<1>7. Sent' = [Sent EXCEPT ![g] = Sent[g] + 1]
  BY <1>6 DEF Sent, Active
<1> QED
  BY <1>2, <1>3, <1>7, SumFollows DEF Undisturbed, OnItsWay

(* No answer, no look at the clock and no signal takes a limit away again. *)
LEMMA StopStays ==
  ASSUME TypeOK, [Next]_vars, ShouldStopGlobal(total)
  PROVE  ShouldStopGlobal(total)'
<1>1. total' \in Nat /\ total <= total' /\ (stop => stop') /\ (expired => expired')
  <2>1. CASE \E g \in Groups : Group(g)
    BY <2>1 DEF Group, Wake, Answer, OneParallel, Gathered, TypeOK
  <2>2. CASE GlobalMonitor \/ Expire \/ RequestStop \/ Idle \/ UNCHANGED vars
    BY <2>2 DEF GlobalMonitor, Expire, RequestStop, Idle, vars, TypeOK
  <2> QED
    BY <2>1, <2>2 DEF Next
<1> QED
  BY <1>1, ScenarioAssumption DEF ShouldStopGlobal, TypeOK

(* Every step leaves the groups on their way. *)
LEMMA SeriesStep ==
  ASSUME TypeOK, SeriesInv, [Next]_vars
  PROVE  SeriesInv'
<1>1. CASE \E g \in Groups : Group(g)
  <2> PICK g \in Groups : Group(g)
    BY <1>1
  <2>1. g \in Active /\ \A q \in Skipped : pc'[q] = "done"
    BY OverStaysOver, ScenarioAssumption DEF SeriesInv, Active
  <2>2. ASSUME AllReadable, ~ShouldStopGlobal(total)' PROVE OnItsWay
    <3>1. Undisturbed
      BY <2>2, StopStays DEF SeriesInv, Undisturbed
    <3>2. ASSUME Answer(g) PROVE ~ShouldStopGlobal(total + 1)
      BY <2>2, <3>2 DEF Answer, ShouldStopGlobal
    <3> QED
      BY <2>1, <3>1, <3>2, WakeOnWay, AnswerOnWay, ParallelOnWay, GatheredOnWay DEF Group
  <2> QED
    BY <2>1, <2>2 DEF SeriesInv, OnItsWay, AllReadable, Active
<1>2. CASE GlobalMonitor \/ Expire \/ RequestStop \/ Idle \/ UNCHANGED vars
  <2>1. UNCHANGED <<pc, rep, file, flying, total>>
    BY <1>2 DEF GlobalMonitor, Expire, RequestStop, Idle, vars
  <2>2. Sent' = Sent /\ \A g \in Active : Pace(g)' <=> Pace(g)
    BY <2>1 DEF Sent, Answered, Active, SlotsOf, Pace, SeriesDone
  <2>3. ShouldStopGlobal(total) => ShouldStopGlobal(total)'
    BY StopStays
  <2> QED
    BY <2>1, <2>2, <2>3 DEF SeriesInv, AllReadable, Active
<1> QED
  BY <1>1, <1>2 DEF Next

(* Nothing has been sent in the beginning. *)
LEMMA SeriesInit ==
  ASSUME Init
  PROVE  SeriesInv
<1>1. \A g \in Skipped : pc[g] = "done"
  BY ScenarioAssumption DEF Init
<1>2. ASSUME NEW g \in Active
      PROVE  /\ pc[g] = "delay" /\ Files[g] \in Nat /\ Reps[g] \in Nat /\ rep[g] = 0
             /\ rep[g] * Files[g] + Answered(g) = 0
  <2>1. pc[g] = "delay" /\ Files[g] \in Nat /\ Reps[g] \in Nat /\ rep[g] = 0
    BY ScenarioAssumption DEF Init, Active
  <2> QED
    BY <2>1 DEF Answered
<1>3. Sent = [g \in Active |-> 0]
  BY <1>2 DEF Sent
<1>4. IsFiniteSet(Active) /\ total = 0
  BY ScenarioAssumption, FS_Subset DEF Active, Init
<1>5. total = SumOf(Sent, Active)
  BY <1>3, <1>4, SumOfZeros
<1>6. \A g \in Active : Pace(g)
  BY <1>2 DEF Pace
<1> QED
  BY <1>1, <1>5, <1>6 DEF SeriesInv

(* The sum of what is due, as EverySeriesSent writes it. *)
LEMMA SumOfDue ==
  ASSUME NEW due, due = [g \in Active |-> Reps[g] * Files[g]]
  PROVE  SumOf(due, Active) = MapThenSumSet(LAMBDA g : Reps[g] * Files[g], Groups \ Skipped)
BY DEF SumOf, MapThenSumSet, MapThenFoldSet, Active

(* What run_scenario promises of group_runner, for every scenario: if no limit, no
   signal and no unreadable file stands in the way, each group that was not refused has
   sent all its files as many times as it should, and nothing more - whatever the
   order in which parallel POSTs are answered. *)
THEOREM SeriesAreSent == Spec => []EverySeriesSent
<1>1. TypeOK /\ SeriesInv => EverySeriesSent
  <2> SUFFICES ASSUME TypeOK, SeriesInv, GroupsOver, ~ShouldStopGlobal(total),
                      \A g \in Groups : Unreadable[g] = {}
               PROVE  total = MapThenSumSet(LAMBDA g : Reps[g] * Files[g], Groups \ Skipped)
    BY DEF EverySeriesSent
  <2> DEFINE due == [g \in Active |-> Reps[g] * Files[g]]
  <2>1. ASSUME NEW g \in Active
        PROVE  pc[g] = "done" /\ g \notin Endless /\ rep[g] = Reps[g]
    <3>1. pc[g] = "done" /\ Pace(g) /\ rep[g] \in Nat /\ Reps[g] \in Nat
      BY ScenarioAssumption DEF GroupsOver, SeriesInv, AllReadable, Active, TypeOK
    <3> QED
      BY <3>1 DEF Pace, SeriesDone
  <2>2. \A g \in Active : rep[g] * Files[g] + Answered(g) = Reps[g] * Files[g]
    <3> TAKE g \in Active
    <3>1. Reps[g] \in Nat /\ Files[g] \in Nat
      BY ScenarioAssumption DEF Active
    <3>2. Reps[g] * Files[g] \in Nat
      BY <3>1
    <3> QED
      BY <2>1, <3>2 DEF Answered
  <2>3. Sent = due
    BY <2>2 DEF Sent
  <2>4. total = SumOf(due, Active)
    BY <2>1, <2>3 DEF SeriesInv, AllReadable
  <2> QED
    BY <2>4, SumOfDue
<1> QED
  BY <1>1, SeriesInit, SeriesStep, GeneratorTypes, PTL DEF Spec
=============================================================================
