------------------------------- MODULE Dialects -------------------------------
(***************************************************************************)
(* How the six languages read and write one message.  rust and go decode   *)
(* the whole message into typed structures and encode those again; python, *)
(* java, csharp and nodejs keep the JSON tree and look only at the segment *)
(* they are to work on.  Pipeline has messages every worker reads in the   *)
(* same way; here one message with a strange counter or a strange step     *)
(* passes along a route of such workers.                                   *)
(*                                                                         *)
(* A value is named by its form in the message.  A counter has a form and  *)
(* the integer its numeral stands for.  A segment has one step, of which   *)
(* the forms of time and nested_route count, and perhaps the field         *)
(* processing_time of an older format.                                     *)
(***************************************************************************)
EXTENDS Integers, Sequences

CONSTANTS
  Max32,      \* the largest int of rust (i32), java and csharp
  MaxExact,   \* a double has every integer up to here
  Max64,      \* the largest int of go
  MaxPlain,   \* up to here nodejs writes a number in digits alone: 10^21 - 1
  MaxDouble,  \* the largest integer that as a double is not infinite
  MaxDigits,  \* the largest integer int() and str() of python take: 4300 digits
  Spacing,    \* Spacing[a]: the distance of neighbouring doubles around a
  Routes,     \* sequences of languages: the workers a message is to visit
  Numbers     \* what a counter may stand for

ASSUME WidthsAssumption ==
  /\ {Max32, MaxExact, Max64, MaxPlain, MaxDouble, MaxDigits} \subseteq Nat
  /\ Max32 < MaxExact /\ MaxExact < Max64 /\ Max64 < MaxPlain
  /\ MaxPlain < MaxDouble /\ MaxDouble < MaxDigits

ASSUME SpacingAssumption ==
  /\ Spacing \in [0 .. MaxDouble -> Nat \ {0}]
  /\ \A a \in 0 .. MaxExact : Spacing[a] = 1

ASSUME RoutesAssumption == Routes \subseteq Seq({"py", "rs", "go", "ja", "cs", "js"}) \ {<<>>}

ASSUME NumbersAssumption == Numbers \subseteq Int

VARIABLES
  sent,     \* the message as the client wrote it
  msg,      \* the message as it is in the body of the last POST
  hop,      \* how many segments have been worked through
  did,      \* what each of them has been taken for
  read,     \* the counter each of them has read
  answer    \* of the last worker reached

vars == <<sent, msg, hop, did, read, answer>>

Langs == {"py", "rs", "go", "ja", "cs", "js"}
Typed == {"rs", "go"}

(* "5s", "1e0s", "5 min", 5, 500 (above the limit), "500s", null, "".       *)
TimeForms == {"text", "loose", "bad", "number", "longNumber", "longText", "null", "blank", "absent"}
(* A good array, [], null, a string.                                       *)
NestedForms == {"good", "empty", "null", "text", "absent"}
OldForms == {"absent", "null", "text", "number"}
(* "5", "+5", " 5 ", "5x", "x", "1e+21", "Infinity", 5, 5.5, null.           *)
CounterForms == {"plain", "plus", "padded", "tail", "junk", "exponent", "infinite",
                 "number", "fraction", "null", "absent"}

-----------------------------------------------------------------------------
(* Counters.                                                               *)

Numerals == [py |-> {"plain", "plus", "padded", "number"},
             rs |-> {"plain", "plus"},
             go |-> {"plain", "plus", "padded"},
             ja |-> {"plain", "plus", "number"},
             cs |-> {"plain", "plus", "padded"},
             js |-> {"plain", "plus", "padded", "tail", "number", "fraction"}]

Abs(v) == IF v < 0 THEN -v ELSE v

Fits(l, v) ==
  \/ l = "js"
  \/ v \in -(Max32 + 1) .. Max32
  \/ l = "go" /\ v \in -(Max64 + 1) .. Max64
  \/ l = "py" /\ v \in -MaxDigits .. MaxDigits

(* The double nearest to an integer, of two the one with the even mantissa; *)
(* MaxDouble + 1 stands for infinity.                                      *)
Nearest(a) ==
  LET u == Spacing[a]
      over == a % u
      up == 2 * over > u \/ (2 * over = u /\ (a \div u) % 2 = 1)
  IN  IF up THEN a - over + u ELSE a - over

Rounded(v) ==
  LET r == IF Abs(v) <= MaxDouble THEN Nearest(Abs(v)) ELSE MaxDouble + 1
  IN  IF v < 0 THEN -r ELSE r

(* Every worker writes the counter back as text.  String() of a double has *)
(* an exponent from 10^21 on.                                              *)
NumberWritten(l, v) == [form |-> "number", val |-> v]   \* slip
Written(l, v) ==
  [form |-> IF l # "js" \/ Abs(v) <= MaxPlain THEN "plain"
            ELSE IF Abs(v) <= MaxDouble THEN "exponent" ELSE "infinite",
   val  |-> v]

(* parseInt: of a number with an exponent the first digit is left.         *)
FirstDigits(v) == IF v > 0 THEN 1 .. 9 ELSE IF v < 0 THEN -9 .. -1 ELSE {0}
ParseInt(c) ==
  IF c.form = "exponent" THEN FirstDigits(c.val)
  ELSE {IF c.form \in Numerals["js"] THEN Rounded(c.val) ELSE 0}

(* What a worker takes the counter for; what it cannot read is 0.          *)
Readings(l, c) ==
  CASE l = "js" -> ParseInt(IF c.form \in {"number", "fraction"}
                            THEN Written("js", Rounded(c.val)) ELSE c)
    [] l # "js" -> {IF c.form \notin Numerals[l] THEN 0
                    ELSE IF Fits(l, c.val) THEN c.val
                    ELSE IF l # "go" THEN 0
                    ELSE IF c.val > 0 THEN Max64 ELSE -(Max64 + 1)}

(* int(), str() and int.Parse raise, and so does getAsString() of a null;  *)
(* the others say 0.                                                       *)
CounterRaises(l, c) ==
  CASE l = "py" -> \/ c.form \notin Numerals["py"] \cup {"absent"}
                   \/ c.form \in Numerals["py"] /\ ~({c.val, c.val + 1} \subseteq -MaxDigits .. MaxDigits)
    [] l = "ja" -> c.form = "null"
    [] l = "cs" -> \/ c.form \in {"tail", "junk", "exponent", "infinite", "number", "fraction"}
                   \/ c.form \in Numerals["cs"] /\ ~Fits("cs", c.val)
    [] OTHER    -> FALSE

Wrapped(v, max) == IF v > max THEN -(max + 1) ELSE v

Bumped(l, v) ==
  CASE l = "py" -> v + 1
    [] l = "js" -> Rounded(v + 1)
    [] l = "go" -> Wrapped(v + 1, Max64)
    [] OTHER    -> Wrapped(v + 1, Max32)

-----------------------------------------------------------------------------
(* Segments.                                                               *)

(* serde and encoding/json refuse a value of another type anywhere in the  *)
(* message, also in segments for other workers.                            *)
Decodes(l, m) ==
  LET Clash(s) ==
        \/ s.time \in {"number", "longNumber"} \/ s.nested = "text"
        \/ l = "rs" /\ (s.time = "null" \/ s.old = "number")
  IN  l \in Typed =>
        /\ m.counter.form \notin {"number", "fraction"}
        /\ l = "rs" => m.counter.form # "null"
        /\ \A i \in DOMAIN m.route : ~Clash(m.route[i])

(* What a worker does with its segment: run a CPU step, post a nested one, *)
(* refuse it with 400 before anything is done, or raise within the step.   *)
TimeOk(l, t) ==
  CASE l \in {"py", "ja"} -> t \notin {"bad", "loose"}
    [] l = "js"           -> t \notin {"bad", "number", "longNumber"}
    [] OTHER              -> t # "bad"

Kind(s) == IF s.nested = "good" THEN "nested" ELSE "cpu"

Taken(l, s) ==
  LET refusedAs == [py |-> {"empty", "text"}, rs |-> {"empty"}, go |-> {}, ja |-> {},
                    cs |-> {}, js |-> {"empty", "text"}]
      oldRefused == IF l \in Typed THEN {"text", "number"} ELSE OldForms \ {"absent"}
      raises ==
        \/ l = "ja" /\ (s.nested \in {"empty", "null", "text"} \/ ~TimeOk(l, s.time))
        \/ l = "cs" /\ s.time \in {"number", "longNumber"}
  IN  IF s.old \in oldRefused THEN "refuse"
      ELSE IF raises THEN "raise"
      ELSE IF s.nested \in refusedAs[l] \/ ~TimeOk(l, s.time) THEN "refuse"
      ELSE Kind(s)

(* How long it spins: DEMO_MAX_PROCESSING_SEC limits what is longer.       *)
Spins(l, t) ==
  CASE t \in {"null", "blank", "absent"}   -> "zero"
    [] t = "longNumber" /\ l = "py"        -> "long"
    [] t = "longNumber" /\ l # "py"        -> "limit"
    [] t = "longText"                      -> "limit"
    [] t \in {"text", "loose", "number", "bad"} -> "given"

(* How a segment looks in the body the worker forwards.  The typed workers *)
(* write what their structures hold, java drops every null.                *)
WithoutOld(l, s) == [s EXCEPT !.old = "absent"]   \* slip
WithNullTime(l, s) ==   \* slip
  IF l = "go" /\ s.time = "absent" THEN [s EXCEPT !.time = "null"] ELSE s

Rewritten(l, s) ==
  CASE l = "rs" -> [time   |-> IF s.time = "absent" THEN "blank" ELSE s.time,
                    nested |-> IF s.nested = "null" THEN "absent" ELSE s.nested,
                    old    |-> IF s.old = "null" THEN "absent" ELSE s.old,
                    lang   |-> s.lang]
    [] l = "go" -> [time   |-> IF s.time \in {"null", "absent"} THEN "blank" ELSE s.time,
                    nested |-> IF s.nested \in {"null", "empty"} THEN "absent" ELSE s.nested,
                    old    |-> IF s.old = "null" THEN "absent" ELSE s.old,
                    lang   |-> s.lang]
    [] l = "ja" -> [f \in DOMAIN s |-> IF s[f] = "null" THEN "absent" ELSE s[f]]
    [] OTHER    -> s

-----------------------------------------------------------------------------
Segment == [lang : Langs, time : TimeForms, nested : NestedForms, old : OldForms]
Counter == [form : CounterForms, val : Int]

Usual(l) == [lang |-> l, time |-> "text", nested |-> "absent", old |-> "absent"]

(* What may stand in a message: no "+-5", no JSON number that is too long   *)
(* for json.loads.                                                         *)
Possible(f, v) ==
  /\ f = "plus" => v >= 0
  /\ f \in {"number", "fraction"} => v \in -MaxDigits .. MaxDigits

(* A client's message: a strange counter or one strange segment.           *)
Strange(m) ==
  \E r \in Routes :
    LET usual == [i \in DOMAIN r |-> Usual(r[i])]
    IN  \/ \E f \in CounterForms, v \in Numbers :
             Possible(f, v) /\ m = [counter |-> [form |-> f, val |-> v], route |-> usual]
        \/ \E i \in DOMAIN r, t \in TimeForms, n \in NestedForms, o \in OldForms :
             m = [counter |-> [form |-> "plain", val |-> 0],
                  route   |-> [usual EXCEPT ![i] = [lang |-> r[i], time |-> t,
                                                    nested |-> n, old |-> o]]]

Init ==
  /\ Strange(sent)
  /\ msg = sent /\ hop = 0 /\ did = <<>> /\ read = <<>> /\ answer = "none"

Here == msg.route[hop + 1]
Lang == Here.lang

(* The handler of the next worker, up to its own POST or answer.  A worker *)
(* that fails is heard of by all before it as a 502 or 500.                *)
Refuse ==
  /\ answer = "none"
  /\ ~Decodes(Lang, msg) \/ Taken(Lang, Here) = "refuse"
  /\ answer' = "refused"
  /\ UNCHANGED <<sent, msg, hop, did, read>>

RaiseInStep ==
  /\ answer = "none" /\ Decodes(Lang, msg)
  /\ Taken(Lang, Here) = "raise"
  /\ answer' = "raised"
  /\ UNCHANGED <<sent, msg, hop, did, read>>

RaiseInCounter ==
  /\ answer = "none" /\ Decodes(Lang, msg)
  /\ Taken(Lang, Here) \in {"cpu", "nested"} /\ CounterRaises(Lang, msg.counter)
  /\ did' = Append(did, Taken(Lang, Here))
  /\ answer' = "raised"
  /\ UNCHANGED <<sent, msg, hop, read>>

VisitTo(h) ==
  /\ answer = "none" /\ Decodes(Lang, msg)
  /\ Taken(Lang, Here) \in {"cpu", "nested"} /\ ~CounterRaises(Lang, msg.counter)
  /\ \E v \in Readings(Lang, msg.counter) :
       /\ read' = Append(read, v)
       /\ msg' = [counter |-> Written(Lang, Bumped(Lang, v)),
                  route   |-> [i \in DOMAIN msg.route |-> Rewritten(Lang, msg.route[i])]]
  /\ did' = Append(did, Taken(Lang, Here))
  /\ hop' = h
  /\ answer' = IF h = Len(msg.route) THEN "200" ELSE "none"
  /\ UNCHANGED sent

VisitUnmarked == VisitTo(hop)   \* slip: visited stays false

Visit == VisitTo(hop + 1)

Next == Refuse \/ RaiseInStep \/ RaiseInCounter \/ Visit

Spec == Init /\ [][Next]_vars

-----------------------------------------------------------------------------
(* Properties.                                                             *)

TypeOK ==
  /\ \A m \in {sent, msg} :
       m.counter \in Counter /\ \A i \in DOMAIN m.route : m.route[i] \in Segment
  /\ hop \in 0 .. Len(sent.route) /\ Len(read) = hop /\ Len(did) \in {hop, hop + 1}
  /\ answer \in {"none", "refused", "raised", "200"}

LangAt(k) == sent.route[k].lang
Holds(l, v) == Fits(l, v) /\ (l = "js" => v \in -MaxExact .. MaxExact)

(* The counter goes up by one at every hop, whatever languages follow each
   other: it starts anew, sticks or fails only where a worker, or nodejs right
   before it, meets a value its integers do not have.  A form of text it does not
   read only the first worker can meet, or one that nodejs has written for such a
   value (index.mjs:321). *)
CountIsExplained ==
  LET first == IF sent.counter.form \in {"null", "absent"} THEN 0 ELSE sent.counter.val
      Odd(k, v) == ~Holds(LangAt(k), v)
  IN  /\ hop > 0 /\ read[1] # first =>
           sent.counter.form \notin Numerals[LangAt(1)] \/ Odd(1, first)
      /\ \A k \in 2 .. hop :
           read[k] # read[k - 1] + 1 =>
             Odd(k - 1, read[k - 1] + 1) \/ Odd(k, read[k - 1] + 1)
      /\ hop > 0 /\ Len(did) > hop =>
           Odd(hop, read[hop] + 1) \/ Odd(hop + 1, msg.counter.val) \/ Odd(hop + 1, msg.counter.val + 1)
      /\ hop > 0 /\ msg.counter.val # read[hop] + 1 => Odd(hop, read[hop] + 1)

(* A segment means to its worker what it meant to the client, through whatever
   workers it has come.  The exceptions turn refusal into work: a null that
   rust, go or java do not write again, and an empty nested_route that go
   leaves out. *)
MeaningKept ==
  \A k \in DOMAIN did :
    LET s == sent.route[k]
        direct == Taken(s.lang, s)
        Through(langs) == \E j \in 1 .. k - 1 : LangAt(j) \in langs
    IN  did[k] = direct
        \/ /\ direct \in {"refuse", "raise"}
           /\ \/ "null" \in {s.old, s.nested} /\ Through({"rs", "go", "ja"})
              \/ s.nested = "empty" /\ Through({"go"})

(* No worker spoils a message for those behind it: what a worker refuses or
   raises over, it would refuse or raise over as the client wrote it. *)
NoNewFault ==
  answer \in {"refused", "raised"} /\ Len(did) = hop =>
    \/ ~Decodes(LangAt(hop + 1), sent)
    \/ Taken(LangAt(hop + 1), sent.route[hop + 1]) \in {"refuse", "raise"}

(* DEMO_MAX_PROCESSING_SEC limits the simulated CPU time of every step
   (python_gateway/_src/main.py:18). *)
SpinsAreLimited ==
  \A k \in DOMAIN did : Spins(LangAt(k), sent.route[k].time) # "long"
=============================================================================
