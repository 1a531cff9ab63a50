---------------------------- MODULE DialectsProofs ----------------------------
(***************************************************************************)
(* What passes from worker to worker keeps its meaning, along routes of    *)
(* any length and for counters of any size.  The segments of a message in  *)
(* transit are kin to those the client wrote: rust, go and java drop nulls *)
(* and fill in blanks, and that is all they do.                            *)
(***************************************************************************)
EXTENDS Dialects, TLAPS

(* Among the first h workers is one that drops nulls, or one that drops an empty
   list. *)
NullsGo(h) == \E j \in 1 .. h : LangAt(j) \in {"rs", "go", "ja"}
EmptyGoes(h) == \E j \in 1 .. h : LangAt(j) = "go"

Kin(h, s, m) ==
  /\ m \in Segment
  /\ m.lang = s.lang
  /\ \/ m.time = s.time
     \/ s.time \in {"null", "absent"} /\ m.time \in {"absent", "blank"}
  /\ \/ m.nested = s.nested
     \/ /\ m.nested = "absent"
        /\ \/ s.nested = "null" /\ NullsGo(h)
           \/ s.nested = "empty" /\ EmptyGoes(h)
  /\ \/ m.old = s.old
     \/ m.old = "absent" /\ s.old = "null" /\ NullsGo(h)

(* What a worker did with its segment, and what it would have done with the one
   the client wrote. *)
Meant(k) ==
  LET s == sent.route[k]
      direct == Taken(s.lang, s)
  IN  did[k] = direct
      \/ /\ direct \in {"refuse", "raise"}
         /\ \/ (s.old = "null" \/ s.nested = "null") /\ NullsGo(k - 1)
            \/ s.nested = "empty" /\ EmptyGoes(k - 1)

RouteInv ==
  /\ sent.route \in Seq(Segment) /\ msg.route \in Seq(Segment)
  /\ Len(msg.route) = Len(sent.route) /\ hop \in Nat
  /\ answer = "none" => hop < Len(sent.route)
  /\ \A i \in 1 .. Len(sent.route) : Kin(hop, sent.route[i], msg.route[i])

(* The counter is the client's, or text. *)
CounterInv ==
  msg.counter = sent.counter \/ msg.counter.form \in {"plain", "exponent", "infinite"}

DidInv ==
  /\ did \in Seq({"cpu", "nested"}) /\ Len(did) <= Len(sent.route)
  /\ answer = "none" => Len(did) = hop
  /\ Len(did) \in {hop, hop + 1}
  /\ \A k \in 1 .. Len(did) : Meant(k)

IInv == RouteInv /\ CounterInv /\ DidInv /\ NoNewFault

-----------------------------------------------------------------------------
(* What a worker says to a segment, language by language. *)
LEMMA TakenBy ==
  ASSUME NEW s \in Segment
  PROVE  /\ Taken("py", s) =
              IF s.old # "absent" \/ s.nested \in {"empty", "text"} \/ ~TimeOk("py", s.time)
              THEN "refuse" ELSE Kind(s)
         /\ Taken("js", s) =
              IF s.old # "absent" \/ s.nested \in {"empty", "text"} \/ ~TimeOk("js", s.time)
              THEN "refuse" ELSE Kind(s)
         /\ Taken("rs", s) =
              IF s.old \in {"text", "number"} \/ s.nested = "empty" \/ ~TimeOk("rs", s.time)
              THEN "refuse" ELSE Kind(s)
         /\ Taken("go", s) =
              IF s.old \in {"text", "number"} \/ ~TimeOk("go", s.time)
              THEN "refuse" ELSE Kind(s)
         /\ Taken("ja", s) =
              IF s.old # "absent" THEN "refuse"
              ELSE IF s.nested \in {"empty", "null", "text"} \/ ~TimeOk("ja", s.time)
                   THEN "raise" ELSE Kind(s)
         /\ Taken("cs", s) =
              IF s.old # "absent" THEN "refuse"
              ELSE IF s.time \in {"number", "longNumber"} THEN "raise"
              ELSE IF ~TimeOk("cs", s.time) THEN "refuse" ELSE Kind(s)
<1>1. s.old \in {"absent", "null", "text", "number"}
  BY DEF Segment, OldForms
<1>2. Taken("py", s) =
        IF s.old # "absent" \/ s.nested \in {"empty", "text"} \/ ~TimeOk("py", s.time)
        THEN "refuse" ELSE Kind(s)
  BY <1>1 DEF Taken, OldForms, Typed
<1>3. Taken("js", s) =
        IF s.old # "absent" \/ s.nested \in {"empty", "text"} \/ ~TimeOk("js", s.time)
        THEN "refuse" ELSE Kind(s)
  BY <1>1 DEF Taken, OldForms, Typed
<1>4. Taken("rs", s) =
        IF s.old \in {"text", "number"} \/ s.nested = "empty" \/ ~TimeOk("rs", s.time)
        THEN "refuse" ELSE Kind(s)
  BY <1>1 DEF Taken, OldForms, Typed
<1>5. Taken("go", s) =
        IF s.old \in {"text", "number"} \/ ~TimeOk("go", s.time)
        THEN "refuse" ELSE Kind(s)
  BY <1>1 DEF Taken, OldForms, Typed
<1>6. Taken("ja", s) =
        IF s.old # "absent" THEN "refuse"
        ELSE IF s.nested \in {"empty", "null", "text"} \/ ~TimeOk("ja", s.time)
             THEN "raise" ELSE Kind(s)
  BY <1>1 DEF Taken, OldForms, Typed
<1>7. Taken("cs", s) =
        IF s.old # "absent" THEN "refuse"
        ELSE IF s.time \in {"number", "longNumber"} THEN "raise"
        ELSE IF ~TimeOk("cs", s.time) THEN "refuse" ELSE Kind(s)
  BY <1>1 DEF Taken, OldForms, Typed
<1> QED
  BY <1>2, <1>3, <1>4, <1>5, <1>6, <1>7

(* Segments that differ in nulls, blanks and an empty list only are taken alike by
   every worker, or were refused with them. *)
LEMMA FormsAreTakenAlike ==
  ASSUME NEW l \in Langs, NEW s \in Segment, NEW m \in Segment,
         NEW d1 \in BOOLEAN, NEW d2 \in BOOLEAN,
         m.time = s.time \/ (s.time \in {"null", "absent"} /\ m.time \in {"absent", "blank"}),
         \/ m.nested = s.nested
         \/ m.nested = "absent" /\ ((s.nested = "null" /\ d1) \/ (s.nested = "empty" /\ d2)),
         m.old = s.old \/ (m.old = "absent" /\ s.old = "null" /\ d1)
  PROVE  /\ Taken(l, m) \in {"refuse", "raise"} => Taken(l, s) \in {"refuse", "raise"}
         /\ Taken(l, m) \in {"cpu", "nested"} =>
              \/ Taken(l, m) = Taken(l, s)
              \/ /\ Taken(l, s) \in {"refuse", "raise"}
                 /\ \/ (s.old = "null" \/ s.nested = "null") /\ d1
                    \/ s.nested = "empty" /\ d2
<1>1. TimeOk(l, m.time) <=> TimeOk(l, s.time)
  BY DEF TimeOk
<1>2. m.time \in {"number", "longNumber"} <=> s.time \in {"number", "longNumber"}
  OBVIOUS
<1>3. CASE l = "py"
  <2>1. /\ Taken(l, s) = IF s.old # "absent" \/ s.nested \in {"empty", "text"} \/ ~TimeOk(l, s.time)
              THEN "refuse" ELSE Kind(s)
        /\ Taken(l, m) = IF m.old # "absent" \/ m.nested \in {"empty", "text"} \/ ~TimeOk(l, m.time)
              THEN "refuse" ELSE Kind(m)
    BY <1>3, TakenBy
  <2> QED
    BY <1>1, <2>1 DEF Kind
<1>8. CASE l = "js"
  <2>1. /\ Taken(l, s) = IF s.old # "absent" \/ s.nested \in {"empty", "text"} \/ ~TimeOk(l, s.time)
              THEN "refuse" ELSE Kind(s)
        /\ Taken(l, m) = IF m.old # "absent" \/ m.nested \in {"empty", "text"} \/ ~TimeOk(l, m.time)
              THEN "refuse" ELSE Kind(m)
    BY <1>8, TakenBy
  <2> QED
    BY <1>1, <2>1 DEF Kind
<1>4. CASE l = "rs"
  BY <1>1, <1>4, TakenBy DEF Kind
<1>5. CASE l = "go"
  BY <1>1, <1>5, TakenBy DEF Kind
<1>6. CASE l = "ja"
  <2>1. /\ Taken(l, s) = IF s.old # "absent" THEN "refuse"
              ELSE IF s.nested \in {"empty", "null", "text"} \/ ~TimeOk(l, s.time)
                   THEN "raise" ELSE Kind(s)
        /\ Taken(l, m) = IF m.old # "absent" THEN "refuse"
              ELSE IF m.nested \in {"empty", "null", "text"} \/ ~TimeOk(l, m.time)
                   THEN "raise" ELSE Kind(m)
    BY <1>6, TakenBy
  <2> QED
    BY <1>1, <2>1 DEF Kind
<1>7. CASE l = "cs"
  <2>1. /\ Taken(l, s) = IF s.old # "absent" THEN "refuse"
              ELSE IF s.time \in {"number", "longNumber"} THEN "raise"
              ELSE IF ~TimeOk(l, s.time) THEN "refuse" ELSE Kind(s)
        /\ Taken(l, m) = IF m.old # "absent" THEN "refuse"
              ELSE IF m.time \in {"number", "longNumber"} THEN "raise"
              ELSE IF ~TimeOk(l, m.time) THEN "refuse" ELSE Kind(m)
    BY <1>7, TakenBy
  <2> QED
    BY <1>2, <1>1, <2>1 DEF Kind
<1> QED
  BY <1>3, <1>4, <1>5, <1>6, <1>7, <1>8 DEF Langs

(* The same of kin segments. *)
LEMMA KinIsTakenAlike ==
  ASSUME NEW h, NEW l \in Langs, NEW s \in Segment, NEW m, Kin(h, s, m)
  PROVE  /\ Taken(l, m) \in {"refuse", "raise"} => Taken(l, s) \in {"refuse", "raise"}
         /\ Taken(l, m) \in {"cpu", "nested"} =>
              \/ Taken(l, m) = Taken(l, s)
              \/ /\ Taken(l, s) \in {"refuse", "raise"}
                 /\ \/ (s.old = "null" \/ s.nested = "null") /\ NullsGo(h)
                    \/ s.nested = "empty" /\ EmptyGoes(h)
<1> DEFINE d1 == NullsGo(h)
           d2 == EmptyGoes(h)
<1>1. d1 \in BOOLEAN /\ d2 \in BOOLEAN
  BY Zenon DEF NullsGo, EmptyGoes
<1>2. /\ m \in Segment
      /\ m.time = s.time \/ (s.time \in {"null", "absent"} /\ m.time \in {"absent", "blank"})
      /\ \/ m.nested = s.nested
         \/ m.nested = "absent" /\ ((s.nested = "null" /\ d1) \/ (s.nested = "empty" /\ d2))
      /\ m.old = s.old \/ (m.old = "absent" /\ s.old = "null" /\ d1)
  BY Zenon DEF Kin
<1>3. /\ Taken(l, m) \in {"refuse", "raise"} => Taken(l, s) \in {"refuse", "raise"}
      /\ Taken(l, m) \in {"cpu", "nested"} =>
           \/ Taken(l, m) = Taken(l, s)
           \/ /\ Taken(l, s) \in {"refuse", "raise"}
              /\ \/ (s.old = "null" \/ s.nested = "null") /\ d1
                 \/ s.nested = "empty" /\ d2
  <2> HIDE DEF d1, d2
  <2> QED
    BY <1>1, <1>2, FormsAreTakenAlike
<1> QED
  BY <1>3

(* What a worker writes is kin to what it has read. *)
LEMMA RewritingKeepsKin ==
  ASSUME NEW h \in Nat, NEW s \in Segment, NEW m, Kin(h, s, m),
         NEW l \in Langs, LangAt(h + 1) = l
  PROVE  Kin(h + 1, s, Rewritten(l, m))
<1> DEFINE w == Rewritten(l, m)
<1>1. m \in Segment
  BY DEF Kin
<1>2. (NullsGo(h) => NullsGo(h + 1)) /\ (EmptyGoes(h) => EmptyGoes(h + 1))
  BY DEF NullsGo, EmptyGoes
<1>3. (l \in {"rs", "go", "ja"} => NullsGo(h + 1)) /\ (l = "go" => EmptyGoes(h + 1))
  BY DEF NullsGo, EmptyGoes
<1>4. CASE l = "rs"
  <2>1. w = [time   |-> IF m.time = "absent" THEN "blank" ELSE m.time,
             nested |-> IF m.nested = "null" THEN "absent" ELSE m.nested,
             old    |-> IF m.old = "null" THEN "absent" ELSE m.old,
             lang   |-> m.lang]
    BY <1>4 DEF Rewritten
  <2>2. w \in Segment
    BY <1>1, <2>1 DEF Segment, TimeForms, NestedForms, OldForms
  <2> QED
    BY <1>2, <1>3, <1>4, <2>1, <2>2 DEF Kin
<1>5. CASE l = "go"
  <2>1. w = [time   |-> IF m.time \in {"null", "absent"} THEN "blank" ELSE m.time,
             nested |-> IF m.nested \in {"null", "empty"} THEN "absent" ELSE m.nested,
             old    |-> IF m.old = "null" THEN "absent" ELSE m.old,
             lang   |-> m.lang]
    BY <1>5 DEF Rewritten
  <2>2. w \in Segment
    BY <1>1, <2>1 DEF Segment, TimeForms, NestedForms, OldForms
  <2> QED
    BY <1>2, <1>3, <1>5, <2>1, <2>2 DEF Kin
<1>6. CASE l = "ja"
  <2>1. w = [time   |-> IF m.time = "null" THEN "absent" ELSE m.time,
             nested |-> IF m.nested = "null" THEN "absent" ELSE m.nested,
             old    |-> IF m.old = "null" THEN "absent" ELSE m.old,
             lang   |-> m.lang]
    BY <1>1, <1>6 DEF Rewritten, Segment, Langs
  <2>2. w \in Segment
    BY <1>1, <2>1 DEF Segment, TimeForms, NestedForms, OldForms
  <2> QED
    BY <1>2, <1>3, <1>6, <2>1, <2>2 DEF Kin
<1>7. CASE l \notin {"rs", "go", "ja"}
  <2>1. w = m
    BY <1>7 DEF Rewritten
  <2> QED
    BY <1>2, <2>1 DEF Kin
<1> QED
  BY <1>4, <1>5, <1>6, <1>7

(* A message in transit is decoded wherever the client's would be. *)
LEMMA KinIsDecoded ==
  ASSUME RouteInv, CounterInv, NEW l \in Langs, Decodes(l, sent)
  PROVE  Decodes(l, msg)
<1>1. \A i \in 1 .. Len(sent.route) : Kin(hop, sent.route[i], msg.route[i])
  BY DEF RouteInv
<1>2. DOMAIN msg.route = 1 .. Len(sent.route) /\ DOMAIN sent.route = 1 .. Len(sent.route)
  BY DEF RouteInv
<1> QED
  BY <1>1, <1>2 DEF CounterInv, Decodes, Kin

-----------------------------------------------------------------------------
(* The segment of the next worker, as it is and as the client wrote it. *)
LEMMA NextSegment ==
  ASSUME IInv, answer = "none"
  PROVE  /\ hop + 1 \in 1 .. Len(sent.route)
         /\ sent.route[hop + 1] \in Segment
         /\ Kin(hop, sent.route[hop + 1], Here)
         /\ Lang = LangAt(hop + 1) /\ Lang \in Langs
<1>1. hop + 1 \in 1 .. Len(sent.route) /\ sent.route[hop + 1] \in Segment
  BY DEF IInv, RouteInv
<1>2. Kin(hop, sent.route[hop + 1], Here)
  BY <1>1 DEF IInv, RouteInv, Here
<1> QED
  BY <1>1, <1>2 DEF Kin, Lang, LangAt, Segment

(* The next worker refuses or raises over its segment only if it would have anyway,
   and takes it as meant. *)
LEMMA NextIsTakenAlike ==
  ASSUME IInv, answer = "none", NEW s, s = sent.route[hop + 1]
  PROVE  /\ s.lang = LangAt(hop + 1) /\ Lang = s.lang
         /\ Taken(Lang, Here) \in {"refuse", "raise"} => Taken(s.lang, s) \in {"refuse", "raise"}
         /\ Taken(Lang, Here) \in {"cpu", "nested"} =>
              \/ Taken(Lang, Here) = Taken(s.lang, s)
              \/ /\ Taken(s.lang, s) \in {"refuse", "raise"}
                 /\ \/ (s.old = "null" \/ s.nested = "null") /\ NullsGo(hop)
                    \/ s.nested = "empty" /\ EmptyGoes(hop)
<1>1. /\ s \in Segment /\ Kin(hop, s, Here)
      /\ s.lang = LangAt(hop + 1) /\ Lang = s.lang /\ Lang \in Langs
  BY NextSegment DEF LangAt
<1>2. /\ Taken(Lang, Here) \in {"refuse", "raise"} => Taken(Lang, s) \in {"refuse", "raise"}
      /\ Taken(Lang, Here) \in {"cpu", "nested"} =>
           \/ Taken(Lang, Here) = Taken(Lang, s)
           \/ /\ Taken(Lang, s) \in {"refuse", "raise"}
              /\ \/ (s.old = "null" \/ s.nested = "null") /\ NullsGo(hop)
                 \/ s.nested = "empty" /\ EmptyGoes(hop)
  BY <1>1, KinIsTakenAlike
<1> QED
  BY <1>1, <1>2

(* A worker that takes its segment takes it as it was meant. *)
LEMMA TakenAsMeant ==
  ASSUME IInv, answer = "none", Taken(Lang, Here) \in {"cpu", "nested"},
         did' = Append(did, Taken(Lang, Here)), sent' = sent
  PROVE  /\ did' \in Seq({"cpu", "nested"}) /\ Len(did') = hop + 1
         /\ \A k \in 1 .. Len(did') : Meant(k)'
<1> DEFINE t == Taken(Lang, Here)
<1>1. /\ t \in {"cpu", "nested"} /\ did \in Seq({"cpu", "nested"}) /\ Len(did) = hop /\ hop \in Nat
      /\ did' = Append(did, t)
  BY DEF IInv, DidInv, RouteInv
<1> DEFINE s == sent.route[hop + 1]
<1>2. \/ t = Taken(s.lang, s)
      \/ /\ Taken(s.lang, s) \in {"refuse", "raise"}
         /\ \/ (s.old = "null" \/ s.nested = "null") /\ NullsGo(hop)
            \/ s.nested = "empty" /\ EmptyGoes(hop)
  BY NextIsTakenAlike
<1> HIDE DEF t
<1>3. did' \in Seq({"cpu", "nested"}) /\ Len(did') = hop + 1
  BY <1>1
<1>4. ASSUME NEW k \in 1 .. hop PROVE Meant(k)'
  <2>1. did'[k] = did[k]
    BY <1>1, <1>4
  <2>2. Meant(k)
    BY <1>1, <1>4 DEF IInv, DidInv
  <2> QED
    BY <2>1, <2>2 DEF Meant, NullsGo, EmptyGoes, LangAt
<1>5. ASSUME NEW k, k = hop + 1 PROVE Meant(k)'
  <2>1. did'[k] = t /\ k - 1 = hop /\ sent' = sent
    BY <1>1, <1>5
  <2>2. \A h : (NullsGo(h)' <=> NullsGo(h)) /\ (EmptyGoes(h)' <=> EmptyGoes(h))
    BY DEF NullsGo, EmptyGoes, LangAt
  <2>3. sent'.route[k] = s
    BY <2>1, <1>5
  <2> HIDE DEF s
  <2> QED
    BY <1>2, <2>1, <2>2, <2>3 DEF Meant
<1>6. \A k \in 1 .. Len(did') : k \in 1 .. hop \/ k = hop + 1
  BY <1>1, <1>3
<1> QED
  BY <1>3, <1>4, <1>5, <1>6

LEMMA RefuseStep ==
  ASSUME IInv, Refuse \/ RaiseInStep
  PROVE  IInv'
<1>1. /\ answer = "none" /\ UNCHANGED <<sent, msg, hop, did, read>>
      /\ answer' \in {"refused", "raised"}
      /\ ~Decodes(Lang, msg) \/ Taken(Lang, Here) \in {"refuse", "raise"}
  BY DEF Refuse, RaiseInStep
<1>2. \/ ~Decodes(LangAt(hop + 1), sent)
      \/ Taken(LangAt(hop + 1), sent.route[hop + 1]) \in {"refuse", "raise"}
  <2>1. ~Decodes(Lang, msg) => ~Decodes(LangAt(hop + 1), sent)
    BY <1>1, NextSegment, KinIsDecoded DEF IInv
  <2>2. Taken(Lang, Here) \in {"refuse", "raise"} =>
          Taken(LangAt(hop + 1), sent.route[hop + 1]) \in {"refuse", "raise"}
    BY <1>1, NextIsTakenAlike
  <2> QED
    BY <1>1, <2>1, <2>2
<1>3. NoNewFault'
  BY <1>1, <1>2 DEF NoNewFault, LangAt, Decodes
<1> QED
  BY <1>1, <1>3 DEF IInv, RouteInv, CounterInv, DidInv, Kin, NullsGo, EmptyGoes, LangAt, Meant

LEMMA RaiseInCounterStep ==
  ASSUME IInv, RaiseInCounter
  PROVE  IInv'
<1>1. /\ answer = "none" /\ Taken(Lang, Here) \in {"cpu", "nested"}
      /\ did' = Append(did, Taken(Lang, Here)) /\ answer' = "raised"
      /\ UNCHANGED <<sent, msg, hop, read>>
  BY DEF RaiseInCounter
<1>2. /\ did' \in Seq({"cpu", "nested"}) /\ Len(did') = hop + 1
      /\ \A k \in 1 .. Len(did') : Meant(k)'
  BY <1>1, TakenAsMeant
<1>3. hop \in Nat /\ hop + 1 \in 1 .. Len(sent.route)
  BY <1>1, NextSegment DEF IInv, RouteInv
<1>4. NoNewFault'
  BY <1>1, <1>2, <1>3 DEF NoNewFault
<1>5. RouteInv' /\ CounterInv'
  BY <1>1 DEF IInv, RouteInv, CounterInv, Kin, NullsGo, EmptyGoes, LangAt
<1>6. DidInv'
  BY <1>1, <1>2, <1>3 DEF DidInv
<1> QED
  BY <1>4, <1>5, <1>6 DEF IInv

LEMMA VisitStep ==
  ASSUME IInv, Visit
  PROVE  IInv'
<1>1. /\ answer = "none" /\ Taken(Lang, Here) \in {"cpu", "nested"}
      /\ did' = Append(did, Taken(Lang, Here)) /\ sent' = sent /\ hop' = hop + 1
      /\ msg'.counter.form \in {"plain", "exponent", "infinite"}
      /\ msg'.route = [i \in DOMAIN msg.route |-> Rewritten(Lang, msg.route[i])]
      /\ answer' = IF hop + 1 = Len(msg.route) THEN "200" ELSE "none"
  BY DEF Visit, VisitTo, Written
<1>2. /\ did' \in Seq({"cpu", "nested"}) /\ Len(did') = hop + 1
      /\ \A k \in 1 .. Len(did') : Meant(k)'
  BY <1>1, TakenAsMeant
<1>3. /\ hop \in Nat /\ hop + 1 \in 1 .. Len(sent.route) /\ Lang = LangAt(hop + 1)
      /\ Lang \in Langs /\ Len(sent.route) = Len(msg.route)
      /\ sent.route \in Seq(Segment) /\ msg.route \in Seq(Segment)
  BY <1>1, NextSegment DEF IInv, RouteInv
<1>4. ASSUME NEW i \in 1 .. Len(sent.route)
      PROVE  msg'.route[i] \in Segment /\ Kin(hop, sent.route[i], msg.route[i])'
  <2>1. sent.route[i] \in Segment /\ Kin(hop, sent.route[i], msg.route[i])
    BY <1>3, <1>4 DEF IInv, RouteInv
  <2>2. Kin(hop + 1, sent.route[i], Rewritten(Lang, msg.route[i]))
    BY <1>3, <2>1, RewritingKeepsKin
  <2>3. msg'.route[i] = Rewritten(Lang, msg.route[i])
    BY <1>1, <1>3, <1>4
  <2> QED
    BY <1>1, <2>2, <2>3 DEF Kin, NullsGo, EmptyGoes, LangAt
<1>5. RouteInv'
  <2>1. DOMAIN msg.route = 1 .. Len(msg.route)
    BY <1>3
  <2>2. msg'.route = [i \in 1 .. Len(msg.route) |-> Rewritten(Lang, msg.route[i])]
    BY <1>1, <2>1
  <2>3. \A i \in 1 .. Len(msg.route) : Rewritten(Lang, msg.route[i]) \in Segment
    <3> SUFFICES ASSUME NEW i \in 1 .. Len(msg.route)
                 PROVE  Rewritten(Lang, msg.route[i]) \in Segment
      OBVIOUS
    <3>1. msg'.route[i] \in Segment
      BY <1>3, <1>4
    <3>2. msg'.route[i] = Rewritten(Lang, msg.route[i])
      BY <2>2
    <3> QED
      BY <3>1, <3>2
  <2>4. msg'.route \in Seq(Segment) /\ Len(msg'.route) = Len(msg.route)
    BY <1>3, <2>2, <2>3
  <2>5. \A i \in 1 .. Len(sent'.route) : Kin(hop, sent.route[i], msg.route[i])'
    BY <1>1, <1>4
  <2>6. hop' \in Nat /\ (answer' = "none" => hop' < Len(sent'.route))
    BY <1>1, <1>3
  <2> QED
    BY <1>1, <1>3, <2>4, <2>5, <2>6 DEF RouteInv
<1>6. CounterInv' /\ NoNewFault'
  BY <1>1 DEF CounterInv, NoNewFault
<1>7. DidInv'
  BY <1>1, <1>2, <1>3 DEF DidInv
<1> QED
  BY <1>5, <1>6, <1>7 DEF IInv

(* The message as the client wrote it. *)
LEMMA InitIInv == Init => IInv
<1> SUFFICES ASSUME Init PROVE IInv
  OBVIOUS
<1>1. sent.route \in Seq(Segment) /\ Len(sent.route) > 0
  <2> DEFINE U(r) == [i \in DOMAIN r |-> Usual(r[i])]
  <2>1. PICK r \in Routes :
          \/ \E f \in CounterForms, v \in Numbers :
               sent = [counter |-> [form |-> f, val |-> v], route |-> U(r)]
          \/ \E i \in DOMAIN r, t \in TimeForms, n \in NestedForms, o \in OldForms :
               sent = [counter |-> [form |-> "plain", val |-> 0],
                       route   |-> [U(r) EXCEPT ![i] = [lang |-> r[i], time |-> t,
                                                        nested |-> n, old |-> o]]]
    BY DEF Init, Strange
  <2>2. r \in Seq(Langs) /\ Len(r) > 0 /\ DOMAIN r = 1 .. Len(r)
    <3>1. r \in Seq(Langs) /\ r # <<>>
      BY RoutesAssumption DEF Langs
    <3> QED
      BY <3>1
  <2>3. \A l \in Langs : Usual(l) \in Segment
    BY DEF Usual, Segment, TimeForms, NestedForms, OldForms
  <2>4. U(r) \in Seq(Segment) /\ Len(U(r)) = Len(r)
    BY <2>2, <2>3
  <2>5. \A i \in DOMAIN r, t \in TimeForms, n \in NestedForms, o \in OldForms :
          [lang |-> r[i], time |-> t, nested |-> n, old |-> o] \in Segment
    BY <2>2 DEF Segment
  <2> HIDE DEF U
  <2>6. CASE \E f \in CounterForms, v \in Numbers :
               sent = [counter |-> [form |-> f, val |-> v], route |-> U(r)]
    BY <2>2, <2>4, <2>6
  <2>7. ASSUME NEW i \in DOMAIN r, NEW t \in TimeForms, NEW n \in NestedForms, NEW o \in OldForms,
               sent = [counter |-> [form |-> "plain", val |-> 0],
                       route   |-> [U(r) EXCEPT ![i] = [lang |-> r[i], time |-> t,
                                                        nested |-> n, old |-> o]]]
        PROVE  sent.route \in Seq(Segment) /\ Len(sent.route) > 0
    <3> DEFINE x == [lang |-> r[i], time |-> t, nested |-> n, old |-> o]
    <3>1. x \in Segment
      BY <2>5
    <3>2. sent.route = [U(r) EXCEPT ![i] = x]
      BY <2>7
    <3> HIDE DEF x
    <3> QED
      BY <2>2, <2>4, <3>1, <3>2
  <2> QED
    BY <2>1, <2>6, <2>7
<1>2. msg = sent /\ hop = 0 /\ did = <<>> /\ answer = "none"
  BY DEF Init
<1> QED
  BY <1>1, <1>2 DEF IInv, RouteInv, CounterInv, DidInv, NoNewFault, Kin

(* Every step keeps the invariant. *)
LEMMA StepIInv == IInv /\ [Next]_vars => IInv'
<1> SUFFICES ASSUME IInv, [Next]_vars PROVE IInv'
  OBVIOUS
<1>1. CASE Next
  BY <1>1, RefuseStep, RaiseInCounterStep, VisitStep DEF Next
<1>2. CASE UNCHANGED vars
  <2>1. RouteInv' /\ CounterInv'
    BY <1>2 DEF vars, IInv, RouteInv, CounterInv, Kin, NullsGo, EmptyGoes, LangAt
  <2>2. DidInv'
    BY <1>2 DEF vars, IInv, DidInv, Meant, NullsGo, EmptyGoes, LangAt
  <2>3. NoNewFault'
    BY <1>2 DEF vars, IInv, NoNewFault, LangAt
  <2> QED
    BY <2>1, <2>2, <2>3 DEF IInv
<1> QED
  BY <1>1, <1>2

THEOREM DialectsInvariant == Spec => []IInv
<1>1. Init => IInv
  BY InitIInv
<1>2. IInv /\ [Next]_vars => IInv'
  BY StepIInv
<1> QED
  BY <1>1, <1>2, PTL DEF Spec

-----------------------------------------------------------------------------
(* A segment means to its worker what it meant to the client, whatever the
   workers before it have made of the message. *)
THEOREM MeaningIsKept == Spec => []MeaningKept
<1>1. IInv => MeaningKept
  BY DEF IInv, DidInv, Meant, MeaningKept, NullsGo, EmptyGoes, LangAt
<1> QED
  BY <1>1, DialectsInvariant, PTL

(* No worker spoils a message for those behind it. *)
THEOREM NobodySpoils == Spec => []NoNewFault
<1>1. IInv => NoNewFault
  BY DEF IInv
<1> QED
  BY <1>1, DialectsInvariant, PTL

-----------------------------------------------------------------------------
(* Counters.                                                               *)

(* The value the first worker should read. *)
FirstValue == IF sent.counter.form \in {"null", "absent"} THEN 0 ELSE sent.counter.val

Unheld(k, v) == ~Holds(LangAt(k), v)

(* The counter in transit is what the last worker has written, and every
   departure from counting by one so far has its reason. *)
CountInv ==
  /\ sent.counter \in Counter /\ msg.counter \in Counter
  /\ answer \in {"none", "refused", "raised", "200"}
  /\ read \in Seq(Int) /\ Len(read) = hop
  /\ hop = 0 => msg.counter = sent.counter
  /\ hop > 0 => msg.counter = Written(LangAt(hop), Bumped(LangAt(hop), read[hop]))
  /\ hop > 0 /\ read[1] # FirstValue =>
       sent.counter.form \notin Numerals[LangAt(1)] \/ Unheld(1, FirstValue)
  /\ \A k \in 2 .. hop :
       read[k] # read[k - 1] + 1 => Unheld(k - 1, read[k - 1] + 1) \/ Unheld(k, read[k - 1] + 1)
  /\ hop > 0 /\ Len(did) > hop =>
       \/ Unheld(hop, read[hop] + 1)
       \/ Unheld(hop + 1, msg.counter.val) \/ Unheld(hop + 1, msg.counter.val + 1)

(* A double stands for an integer, and for itself as far as doubles have every integer. *)
LEMMA RoundedTypes ==
  ASSUME NEW v \in Int
  PROVE  Rounded(v) \in Int /\ (v \in -MaxExact .. MaxExact => Rounded(v) = v)
<1> DEFINE a == Abs(v)
<1>1. MaxExact \in Nat /\ MaxDouble \in Nat /\ MaxExact < MaxDouble
  BY WidthsAssumption
<1>2. a \in Nat /\ (v < 0 => a = -v) /\ (v >= 0 => a = v)
  BY DEF Abs
<1>3. a <= MaxDouble => Nearest(a) \in Int
  <2> SUFFICES ASSUME a <= MaxDouble PROVE Nearest(a) \in Int
    OBVIOUS
  <2>1. Spacing[a] \in Nat \ {0}
    BY <1>1, <1>2, SpacingAssumption
  <2>2. a % Spacing[a] \in Int
    BY <1>2, <2>1
  <2> QED
    BY <1>2, <2>1, <2>2 DEF Nearest
<1>4. a <= MaxExact => Nearest(a) = a
  <2> SUFFICES ASSUME a <= MaxExact PROVE Nearest(a) = a
    OBVIOUS
  <2>1. Spacing[a] = 1
    BY <1>1, <1>2, SpacingAssumption
  <2>2. a % 1 = 0
    BY <1>2
  <2> QED
    BY <1>2, <2>1, <2>2 DEF Nearest
<1> HIDE DEF a
<1>5. Rounded(v) = LET r == IF a <= MaxDouble THEN Nearest(a) ELSE MaxDouble + 1
                   IN  IF v < 0 THEN -r ELSE r
  BY DEF Rounded, a
<1> QED
  BY <1>1, <1>2, <1>3, <1>4, <1>5

(* What a worker reads and writes is an integer. *)
LEMMA CountTypes ==
  ASSUME NEW l \in Langs, NEW c \in Counter, NEW v \in Int
  PROVE  Readings(l, c) \subseteq Int /\ Bumped(l, v) \in Int /\ Written(l, v) \in Counter
<1>1. Max32 \in Nat /\ Max64 \in Nat
  BY WidthsAssumption
<1>2. \A w \in Int : Rounded(w) \in Int
  BY RoundedTypes
<1>3. c.val \in Int /\ \A w \in Int : Written(l, w) \in Counter /\ Written("js", w) \in Counter
  BY DEF Counter, Written, CounterForms
<1>4. \A k \in Counter : ParseInt(k) \subseteq Int
  <2> SUFFICES ASSUME NEW k \in Counter PROVE ParseInt(k) \subseteq Int
    OBVIOUS
  <2>1. k.val \in Int
    BY DEF Counter
  <2> QED
    BY <1>2, <2>1 DEF ParseInt, FirstDigits
<1>5. Readings(l, c) \subseteq Int
  <2>1. CASE l = "js"
    BY <1>2, <1>3, <1>4, <2>1 DEF Readings
  <2>2. CASE l # "js"
    <3> SUFFICES ASSUME NEW x \in Readings(l, c) PROVE x \in Int
      OBVIOUS
    <3>1. x \in {0, c.val, Max64, -(Max64 + 1)}
      BY <2>2 DEF Readings
    <3> QED
      BY <1>1, <1>3, <3>1
  <2> QED
    BY <2>1, <2>2
<1>6. \A w \in Int, m \in Nat : Wrapped(w, m) \in Int
  BY DEF Wrapped
<1>7. Bumped(l, v) \in Int
  <2>1. /\ v + 1 \in Int /\ Rounded(v + 1) \in Int
        /\ Wrapped(v + 1, Max64) \in Int /\ Wrapped(v + 1, Max32) \in Int
    BY <1>1, <1>2, <1>6
  <2> QED
    BY <2>1 DEF Bumped, Langs
<1> QED
  BY <1>3, <1>5, <1>7

(* A counter is read exactly by whoever reads its form and holds its value. *)
LEMMA ReadExactly ==
  ASSUME NEW l \in Langs, NEW c \in Counter, c.form \in Numerals[l],
         NEW v \in Readings(l, c), v # c.val
  PROVE  ~Holds(l, c.val)
<1>1. c.val \in Int /\ MaxExact \in Nat /\ MaxPlain \in Nat /\ MaxExact < MaxPlain
  BY WidthsAssumption DEF Counter
<1>2. CASE l = "js"
  <2> SUFFICES ASSUME c.val \in -MaxExact .. MaxExact PROVE FALSE
    BY <1>2 DEF Holds
  <2>1. Rounded(c.val) = c.val
    BY <1>1, RoundedTypes
  <2>2. Written("js", c.val).form = "plain" /\ Written("js", c.val).val = c.val
    BY <1>1 DEF Written, Abs
  <2>3. "plain" \in Numerals["js"] /\ "exponent" \notin Numerals["js"]
    BY DEF Numerals
  <2>4. ParseInt(Written("js", c.val)) = {c.val}
    BY <2>1, <2>2, <2>3 DEF ParseInt
  <2>5. ParseInt(c) = {c.val}
    BY <1>2, <2>1, <2>3 DEF ParseInt
  <2> QED
    BY <1>2, <2>1, <2>4, <2>5 DEF Readings
<1>3. CASE l # "js"
  BY <1>3 DEF Readings, Holds
<1> QED
  BY <1>2, <1>3

(* A counter goes up by one where the next value is held. *)
LEMMA BumpedExactly ==
  ASSUME NEW l \in Langs, NEW v \in Int, Bumped(l, v) # v + 1
  PROVE  ~Holds(l, v + 1)
<1>1. Max32 \in Nat /\ Max64 \in Nat /\ Max32 < Max64
  BY WidthsAssumption
<1>2. CASE l = "py"
  BY <1>2 DEF Bumped
<1>3. CASE l = "js"
  BY <1>3, RoundedTypes DEF Bumped, Holds
<1>4. CASE l = "go"
  BY <1>1, <1>4 DEF Bumped, Wrapped, Holds, Fits
<1>5. CASE l \in {"rs", "ja", "cs"}
  BY <1>1, <1>5 DEF Bumped, Wrapped, Holds, Fits
<1> QED
  BY <1>2, <1>3, <1>4, <1>5 DEF Langs

(* Every language reads what any of them writes, but for its size and for what nodejs
   writes of a value beyond its integers. *)
LEMMA WrittenIsRead ==
  ASSUME NEW k \in Langs, NEW l \in Langs, NEW v \in Int
  PROVE  LET c == Written(k, v)
         IN  /\ c \in Counter /\ c.val = v
             /\ Holds(k, v) => c.form \in Numerals[l]
             /\ CounterRaises(l, c) => ~Holds(k, v) \/ ~Holds(l, v) \/ ~Holds(l, v + 1)
<1> DEFINE c == Written(k, v)
<1>1. c \in Counter /\ c.val = v
  BY DEF Written, Counter, CounterForms
<1>2. Holds(k, v) => c.form = "plain"
  BY WidthsAssumption DEF Written, Abs, Holds
<1>3. "plain" \in Numerals[l] /\ "plain" \in Numerals["py"]
  BY DEF Numerals, Langs
<1>4. ASSUME c.form = "plain", CounterRaises(l, c)
      PROVE  ~Holds(l, v) \/ ~Holds(l, v + 1)
  <2> HIDE DEF c
  <2>1. \/ l = "py" /\ ~({v, v + 1} \subseteq -MaxDigits .. MaxDigits)
        \/ l = "cs" /\ ~Fits("cs", v)
    BY <1>1, <1>3, <1>4 DEF CounterRaises, Langs
  <2>2. CASE l = "cs" /\ ~Fits("cs", v)
    BY <2>2 DEF Holds
  <2>3. CASE l = "py" /\ ~({v, v + 1} \subseteq -MaxDigits .. MaxDigits)
    <3>1. \A w \in {v, v + 1} : Fits("py", w) => w \in -MaxDigits .. MaxDigits
      BY WidthsAssumption DEF Fits
    <3> QED
      BY <2>3, <3>1 DEF Holds
  <2> QED
    BY <2>1, <2>2, <2>3
<1> QED
  BY <1>1, <1>2, <1>3, <1>4

(* What the client wrote has the type of a counter. *)
LEMMA InitCountInv == Init => CountInv
<1> SUFFICES ASSUME Init PROVE CountInv
  OBVIOUS
<1>1. \A f \in CounterForms, v \in Numbers : [form |-> f, val |-> v] \in Counter
  BY NumbersAssumption DEF Counter
<1>2. [form |-> "plain", val |-> 0] \in Counter
  BY DEF Counter, CounterForms
<1>3. sent.counter \in Counter
  BY <1>1, <1>2 DEF Init, Strange
<1> QED
  BY <1>3 DEF Init, CountInv

(* Who has written the counter in transit, and what it had read. *)
LEMMA LastRead ==
  ASSUME IInv, CountInv, hop > 0
  PROVE  read[hop] \in Int /\ LangAt(hop) \in Langs
<1>1. hop \in Nat /\ hop \in 1 .. Len(read) /\ read \in Seq(Int)
  BY DEF IInv, RouteInv, CountInv
<1>2. Len(did) \in {hop, hop + 1} /\ Len(did) <= Len(sent.route) /\ sent.route \in Seq(Segment)
  BY DEF IInv, DidInv, RouteInv
<1>3. hop \in 1 .. Len(sent.route)
  <2>1. Len(sent.route) \in Nat
    BY <1>2
  <2> QED
    BY <1>1, <1>2, <2>1
<1>4. sent.route[hop] \in Segment
  BY <1>2, <1>3
<1> QED
  BY <1>1, <1>4 DEF Segment, LangAt

(* The worker that is next reads the counter. *)
LEMMA VisitCounts ==
  ASSUME IInv, IInv', CountInv, Visit
  PROVE  CountInv'
<1> DEFINE l == LangAt(hop + 1)
           c == msg.counter
<1>1. PICK v \in Readings(l, c) :
         /\ answer = "none" /\ read' = Append(read, v)
         /\ msg'.counter = Written(l, Bumped(l, v))
         /\ hop' = hop + 1 /\ sent' = sent /\ Len(did') = hop + 1
         /\ answer' \in {"none", "200"}
  <2>1. answer = "none"
    BY DEF Visit, VisitTo
  <2>2. Lang = l
    BY <2>1, NextSegment
  <2>3. Len(did') = hop + 1
    BY <2>1 DEF Visit, VisitTo, IInv, DidInv, RouteInv
  <2> QED
    BY <2>1, <2>2, <2>3 DEF Visit, VisitTo
<1> DEFINE w == Bumped(l, v)
<1>2. /\ l \in Langs /\ c \in Counter /\ hop \in Nat /\ read \in Seq(Int) /\ Len(read) = hop
      /\ sent.counter \in Counter
  BY <1>1, NextSegment DEF IInv, RouteInv, CountInv
<1>3. v \in Int /\ w \in Int /\ Written(l, w) \in Counter
  <2> HIDE DEF l, c
  <2>1. v \in Int
    BY <1>1, <1>2, CountTypes
  <2>2. w \in Int
    BY <1>2, <2>1, CountTypes
  <2> HIDE DEF w
  <2>3. Written(l, w) \in Counter
    BY <1>2, <2>2, CountTypes
  <2> QED
    BY <2>1, <2>2, <2>3
<1>4. /\ read' \in Seq(Int) /\ Len(read') = hop + 1 /\ read'[hop + 1] = v
      /\ \A k \in 1 .. hop : read'[k] = read[k]
  BY <1>1, <1>2, <1>3
<1>5. \A k : LangAt(k)' = LangAt(k)
  BY <1>1 DEF LangAt
<1>6. FirstValue' = FirstValue /\ \A k, n : Unheld(k, n)' <=> Unheld(k, n)
  BY <1>1, <1>5 DEF FirstValue, Unheld
<1>7. ASSUME hop = 0, v # FirstValue
      PROVE  sent.counter.form \notin Numerals[LangAt(1)] \/ Unheld(1, FirstValue)
  <2>1. c = sent.counter /\ l = LangAt(1)
    BY <1>7 DEF CountInv
  <2>2. \A k \in Langs : Numerals[k] \cap {"null", "absent"} = {}
    BY DEF Numerals, Langs
  <2> SUFFICES ASSUME c.form \in Numerals[l]
               PROVE  ~Holds(l, FirstValue)
    BY <2>1 DEF Unheld
  <2>3. FirstValue = c.val
    BY <1>2, <2>1, <2>2 DEF FirstValue
  <2> QED
    BY <1>1, <1>2, <1>7, <2>3, ReadExactly
<1>8. ASSUME hop > 0, v # read[hop] + 1
      PROVE  Unheld(hop, read[hop] + 1) \/ Unheld(hop + 1, read[hop] + 1)
  <2> DEFINE b == Bumped(LangAt(hop), read[hop])
  <2>1. /\ c = Written(LangAt(hop), b) /\ read[hop] \in Int /\ LangAt(hop) \in Langs
    BY <1>8, LastRead DEF CountInv
  <2>2. b \in Int
    BY <1>2, <2>1, CountTypes
  <2>3. CASE b # read[hop] + 1
    BY <2>1, <2>3, BumpedExactly DEF Unheld
  <2>4. CASE b = read[hop] + 1
    <3>1. c.val = b /\ (Holds(LangAt(hop), b) => c.form \in Numerals[l])
      BY <1>2, <2>1, <2>2, WrittenIsRead
    <3> QED
      BY <1>1, <1>2, <1>8, <2>4, <3>1, ReadExactly DEF Unheld
  <2> QED
    BY <2>3, <2>4
<1> HIDE DEF l, c, w
<1>9. hop' > 0 /\ read'[1] # FirstValue =>
        sent.counter.form \notin Numerals[LangAt(1)] \/ Unheld(1, FirstValue)
  <2>1. CASE hop = 0
    BY <1>4, <1>7, <2>1
  <2>2. CASE hop > 0
    BY <1>2, <1>4, <2>2 DEF CountInv
  <2> QED
    BY <1>2, <2>1, <2>2
<1>10. ASSUME NEW k \in 2 .. hop + 1, read'[k] # read'[k - 1] + 1
       PROVE  Unheld(k - 1, read'[k - 1] + 1) \/ Unheld(k, read'[k - 1] + 1)
  <2>1. CASE k = hop + 1
    <3>1. hop > 0 /\ k - 1 = hop /\ read'[k - 1] = read[hop]
      BY <1>2, <1>4, <1>10, <2>1
    <3> QED
      BY <1>4, <1>8, <1>10, <2>1, <3>1
  <2>2. CASE k # hop + 1
    <3>1. k \in 2 .. hop /\ k \in 1 .. hop /\ k - 1 \in 1 .. hop
      BY <1>2, <2>2
    <3>2. read'[k] = read[k] /\ read'[k - 1] = read[k - 1]
      BY <1>4, <3>1
    <3> QED
      BY <1>10, <3>1, <3>2 DEF CountInv
  <2> QED
    BY <2>1, <2>2
<1>11. /\ msg'.counter = Written(LangAt(hop)', Bumped(LangAt(hop)', read'[hop']))
       /\ msg'.counter \in Counter
  <2>1. LangAt(hop)' = l /\ read'[hop'] = v
    BY <1>1, <1>4, <1>5 DEF l
  <2> QED
    BY <1>1, <1>3, <2>1 DEF w
<1>12. (hop > 0 /\ read[1] # FirstValue =>
          sent.counter.form \notin Numerals[LangAt(1)] \/ Unheld(1, FirstValue))'
  BY <1>1, <1>5, <1>6, <1>9
<1>13. (\A k \in 2 .. hop :
          read[k] # read[k - 1] + 1 =>
            Unheld(k - 1, read[k - 1] + 1) \/ Unheld(k, read[k - 1] + 1))'
  BY <1>1, <1>6, <1>10
<1>14. (sent.counter \in Counter /\ read \in Seq(Int) /\ Len(read) = hop)'
  BY <1>1, <1>2, <1>4
<1>15. hop' > 0 /\ hop' # 0 /\ ~(Len(did') > hop')
  BY <1>1, <1>2
<1> QED
  BY <1>1, <1>11, <1>12, <1>13, <1>14, <1>15 DEF CountInv

(* Every step keeps the count explained. *)
LEMMA StepCountInv == IInv /\ IInv' /\ CountInv /\ [Next]_vars => CountInv'
<1> SUFFICES ASSUME IInv, IInv', CountInv, [Next]_vars PROVE CountInv'
  OBVIOUS
<1>1. CASE Refuse \/ RaiseInStep
  BY <1>1 DEF Refuse, RaiseInStep, CountInv, FirstValue, Unheld, LangAt
<1>2. CASE RaiseInCounter
  <2>1. /\ answer = "none" /\ CounterRaises(Lang, msg.counter) /\ answer' = "raised"
        /\ UNCHANGED <<sent, msg, hop, read>>
    BY <1>2 DEF RaiseInCounter
  <2>2. Lang = LangAt(hop + 1) /\ Lang \in Langs /\ hop \in Nat
    BY <2>1, NextSegment DEF IInv, RouteInv
  <2>3. hop > 0 =>
          \/ Unheld(hop, read[hop] + 1)
          \/ Unheld(hop + 1, msg.counter.val) \/ Unheld(hop + 1, msg.counter.val + 1)
    <3> SUFFICES ASSUME hop > 0, Holds(Lang, msg.counter.val), Holds(Lang, msg.counter.val + 1)
                 PROVE  Unheld(hop, read[hop] + 1)
      BY <2>2 DEF Unheld
    <3> DEFINE k == LangAt(hop)
               b == Bumped(k, read[hop])
    <3>1. read[hop] \in Int /\ k \in Langs
      BY LastRead
    <3>2. b \in Int /\ msg.counter = Written(k, b)
      BY <3>1, CountTypes DEF CountInv
    <3>3. ~Holds(k, b)
      BY <2>1, <2>2, <3>1, <3>2, WrittenIsRead
    <3>4. CASE b = read[hop] + 1
      BY <3>3, <3>4 DEF Unheld
    <3>5. CASE b # read[hop] + 1
      BY <3>1, <3>5, BumpedExactly DEF Unheld
    <3> QED
      BY <3>4, <3>5
  <2> QED
    BY <2>1, <2>3 DEF CountInv, FirstValue, Unheld, LangAt
<1>3. CASE Visit
  BY <1>3, VisitCounts
<1>4. CASE UNCHANGED vars
  BY <1>4 DEF vars, CountInv, FirstValue, Unheld, LangAt
<1> QED
  BY <1>1, <1>2, <1>3, <1>4 DEF Next

LEMMA CountInvariant == Spec => [](IInv /\ CountInv)
<1>1. Init => CountInv
  BY InitCountInv
<1>2. IInv /\ IInv' /\ CountInv /\ [Next]_vars => CountInv'
  BY StepCountInv
<1> QED
  BY <1>1, <1>2, DialectsInvariant, PTL DEF Spec

(* Messages in transit are well-formed, and what has been done and read is as long as the way. *)
THEOREM DialectsTypes == Spec => []TypeOK
<1>1. IInv /\ CountInv => TypeOK
  BY DEF IInv, RouteInv, DidInv, CountInv, TypeOK
<1> QED
  BY <1>1, CountInvariant, PTL

(* The counter goes up by one at every hop, and where it does not, the first worker has met a
   form it does not read, or a worker or nodejs before it a value its integers do not have. *)
THEOREM EveryCountIsExplained == Spec => []CountIsExplained
<1>1. IInv /\ CountInv => CountIsExplained
  <2> SUFFICES ASSUME IInv, CountInv PROVE CountIsExplained
    OBVIOUS
  <2>1. ASSUME hop > 0, msg.counter.val # read[hop] + 1
        PROVE  Unheld(hop, read[hop] + 1)
    <3>1. read[hop] \in Int /\ LangAt(hop) \in Langs
      BY <2>1, LastRead
    <3>2. msg.counter.val = Bumped(LangAt(hop), read[hop])
      BY <2>1 DEF CountInv, Written
    <3> QED
      BY <2>1, <3>1, <3>2, BumpedExactly DEF Unheld
  <2> QED
    BY <2>1 DEF CountInv, CountIsExplained, FirstValue, Unheld
<1> QED
  BY <1>1, CountInvariant, PTL
===============================================================================
