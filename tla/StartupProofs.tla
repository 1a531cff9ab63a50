---------------------------- MODULE StartupProofs -----------------------------
(***************************************************************************)
(* What the order of docker-compose.yml and go's one look-up are worth for *)
(* any number of stops and restarts.                                       *)
(***************************************************************************)
EXTENDS Startup, FiniteSetTheorems, TLAPS

(* Only running containers have an address, only started ones have listened, and
   docker has seen those listen that it calls healthy, and so has compose. *)
PhaseInv ==
  \A s \in Services :
    /\ addr[s] # 0 <=> Runs(s)
    /\ s \in heard => phase[s] # "created"
    /\ phase[s] = "listening" => s \in heard
    /\ s \in Checked /\ health[s] = "healthy" => s \in heard
    /\ \A d \in Checked : <<s, d>> \in met => d \in heard
    /\ phase[s] = "down" => stops > 0

(* The python worker waits for the gateway, go for the python worker. *)
OrderInv ==
  /\ StartedInOrder
  /\ phase["go"] # "created" => phase["pw"] # "created"
  /\ \A p \in Peers : book[p] # NotAsked => phase["go"] # "created"

IInv == TypeOK /\ PhaseInv /\ OrderInv /\ NoLookUpTooSoon /\ BookAgesOnlyByRestart

Names == Services = {"ja", "gateway", "pw", "go"} /\ Peers = {"ja", "gateway", "pw"}
         /\ Checked = {"ja", "gateway"} /\ Addresses = 1 .. 4

-----------------------------------------------------------------------------
(* The services by name. *)
LEMMA ServicesByName == Names
<1>1. Peers = {"ja", "gateway", "pw"}
  BY DEF Peers, Services
<1>2. Checked = {"ja", "gateway"}
  BY DEF Checked, Healthy, Services
<1>3. Cardinality(Services) = 4
  <2>1. IsFiniteSet({"ja"}) /\ Cardinality({"ja"}) = 1
    BY FS_Singleton
  <2>2. IsFiniteSet({"ja", "gateway"}) /\ Cardinality({"ja", "gateway"}) = 2
    BY <2>1, FS_AddElement, {"ja", "gateway"} = {"ja"} \cup {"gateway"}
  <2>3. IsFiniteSet({"ja", "gateway", "pw"}) /\ Cardinality({"ja", "gateway", "pw"}) = 3
    BY <2>2, FS_AddElement, {"ja", "gateway", "pw"} = {"ja", "gateway"} \cup {"pw"}
  <2>4. Services = {"ja", "gateway", "pw"} \cup {"go"}
    BY DEF Services
  <2> QED
    BY <2>3, <2>4, FS_AddElement
<1> QED
  BY <1>1, <1>2, <1>3 DEF Names, Services, Addresses

(* The least element of a set is one of its elements. *)
LEMMA MinIsMember ==
  ASSUME NEW S, \E a \in S : \A b \in S : a =< b
  PROVE  Min(S) \in S
BY DEF Min

(* A container that is started gets an address nobody has. *)
LEMMA AddressIsFree ==
  ASSUME TypeOK, NEW s \in Services, addr[s] = 0
  PROVE  FreeAddress \in Addresses /\ \A d \in Services : addr[d] # FreeAddress
<1> DEFINE F == {a \in Addresses : \A d \in Services : addr[d] # a}
<1>1. Names
  BY ServicesByName
<1>2. \A d \in Services : addr[d] \in 0 .. 4
  BY <1>1 DEF TypeOK, Names
<1>3. \E a \in 1 .. 4 : \A d \in Services : addr[d] # a
  BY <1>1, <1>2 DEF Names
<1>4. F \subseteq 1 .. 4 /\ F # {}
  BY <1>1, <1>3 DEF Names
<1>5. \E a \in F : \A b \in F : a =< b
  <2> HIDE DEF F
  <2>1. CASE 1 \in F
    BY <1>4, <2>1
  <2>2. CASE 1 \notin F /\ 2 \in F
    BY <1>4, <2>2
  <2>3. CASE 1 \notin F /\ 2 \notin F /\ 3 \in F
    BY <1>4, <2>3
  <2>4. CASE 1 \notin F /\ 2 \notin F /\ 3 \notin F
    <3>1. \A b \in F : b = 4
      BY <1>4, <2>4
    <3>2. PICK b \in F : TRUE
      BY <1>4
    <3> QED
      BY <3>1, <3>2
  <2> QED
    BY <2>1, <2>2, <2>3, <2>4
<1>6. FreeAddress \in F
  <2>1. FreeAddress = Min(F)
    BY DEF FreeAddress
  <2> HIDE DEF F
  <2> QED
    BY <1>5, <2>1, MinIsMember
<1> QED
  BY <1>6

-----------------------------------------------------------------------------
(* What a container that begins does, compose's start and a restart alike. *)
LEMMA BeginKeeps ==
  ASSUME IInv, NEW s \in Services, phase[s] \in {"created", "down"}, Begin(s),
         UNCHANGED <<compose, met, stops, heard>>,
         phase[s] = "created" =>
           /\ s # "ja" => "ja" \in heard
           /\ s \in {"pw", "go"} => "gateway" \in heard
           /\ s = "go" => phase["pw"] # "created"
  PROVE  IInv'
<1> DEFINE a == FreeAddress
<1>1. Names /\ addr[s] = 0
  BY ServicesByName DEF IInv, PhaseInv, Runs
<1>2. a \in Addresses /\ \A d \in Services : addr[d] # a
  BY <1>1, AddressIsFree DEF IInv
<1>3. /\ phase' = [phase EXCEPT ![s] = "booting"]
      /\ addr' = [addr EXCEPT ![s] = a]
      /\ health' = [d \in Checked |-> IF d = s THEN "starting" ELSE health[d]]
      /\ s = "go" => book' = [p \in Peers |-> NotAsked]
      /\ s # "go" => book' = book /\ gone' = gone /\ born' = born \cup {s}
  BY DEF Begin
<1> HIDE DEF a
<1>4. TypeOK'
  BY <1>1, <1>2, <1>3 DEF IInv, TypeOK, Names, NotAsked
<1>5. PhaseInv'
  BY <1>1, <1>2, <1>3 DEF IInv, TypeOK, PhaseInv, Runs, Names
<1>6. OrderInv'
  BY <1>1, <1>3 DEF IInv, TypeOK, OrderInv, StartedInOrder, Names, NotAsked
<1>7. NoLookUpTooSoon'
  BY <1>1, <1>3 DEF IInv, NoLookUpTooSoon, Names, NotAsked, NoSuchName
<1>8. BookAgesOnlyByRestart'
  BY <1>1, <1>2, <1>3 DEF IInv, TypeOK, PhaseInv, Runs, BookAgesOnlyByRestart, Names, NotAsked
<1> QED
  BY <1>4, <1>5, <1>6, <1>7, <1>8 DEF IInv

LEMMA StartStep ==
  ASSUME IInv, NEW s \in Services, Start(s)
  PROVE  IInv'
<1>1. \A d \in Healthy[s] : d \in heard
  BY ServicesByName DEF Start, IInv, PhaseInv, Names, Healthy
<1>2. /\ s # "ja" => "ja" \in heard
      /\ s \in {"pw", "go"} => "gateway" \in heard
      /\ s = "go" => phase["pw"] # "created"
  BY <1>1 DEF Start, IInv, OrderInv, StartedInOrder, Healthy, Started, Services
<1> QED
  BY <1>2, BeginKeeps DEF Start

LEMMA RestartStep ==
  ASSUME IInv, NEW s \in Services, Restart(s)
  PROVE  IInv'
BY BeginKeeps DEF Restart

LEMMA FindHealthyStep ==
  ASSUME IInv, NEW s \in Services, NEW d \in Checked, FindHealthy(s, d)
  PROVE  IInv'
<1>1. Names
  BY ServicesByName
<1>2. TypeOK' /\ PhaseInv'
  BY <1>1 DEF FindHealthy, IInv, TypeOK, PhaseInv, Runs, Names
<1>3. OrderInv' /\ NoLookUpTooSoon' /\ BookAgesOnlyByRestart'
  BY DEF FindHealthy, IInv, OrderInv, StartedInOrder, NoLookUpTooSoon, BookAgesOnlyByRestart
<1> QED
  BY <1>2, <1>3 DEF IInv

LEMMA StopStep ==
  ASSUME IInv, NEW s \in Services, Stop(s)
  PROVE  IInv'
<1>1. Names
  BY ServicesByName
<1>2. TypeOK'
  BY <1>1, StartupAssumption DEF Stop, IInv, TypeOK, Names
<1>3. PhaseInv'
  BY <1>1, StartupAssumption DEF Stop, IInv, TypeOK, PhaseInv, Runs, Names
<1>4. OrderInv' /\ NoLookUpTooSoon'
  BY <1>1, StartupAssumption
     DEF Stop, IInv, TypeOK, OrderInv, StartedInOrder, NoLookUpTooSoon, Runs, Names
<1>5. BookAgesOnlyByRestart'
  BY <1>1 DEF Stop, IInv, TypeOK, BookAgesOnlyByRestart, Names
<1> QED
  BY <1>2, <1>3, <1>4, <1>5 DEF IInv

LEMMA LookUpStep ==
  ASSUME IInv, NEW p \in Peers, LookUp(p)
  PROVE  IInv'
<1>1. Names
  BY ServicesByName
<1>2. PICK a \in Answers(p) : book' = [book EXCEPT ![p] = a]
  BY DEF LookUp
<1>3. /\ a \in Addresses => Runs(p) /\ a = addr[p]
      /\ a \in Addresses \cup {NoSuchName, TooSlow}
      /\ a = NoSuchName => ~Runs(p)
  BY <1>1, <1>2 DEF Answers, IInv, TypeOK, PhaseInv, Names, NoSuchName, TooSlow
<1>4. TypeOK'
  BY <1>1, <1>2, <1>3 DEF LookUp, IInv, TypeOK
<1>5. PhaseInv' /\ OrderInv'
  BY <1>1, <1>2, <1>3 DEF LookUp, IInv, TypeOK, PhaseInv, OrderInv, StartedInOrder, Runs, Names
<1>6. NoLookUpTooSoon'
  <2>1. stops = 0 => Runs(p)
    BY <1>1 DEF LookUp, IInv, TypeOK, PhaseInv, OrderInv, StartedInOrder, Runs, Names
  <2> QED
    BY <1>1, <1>2, <1>3, <2>1 DEF LookUp, IInv, TypeOK, NoLookUpTooSoon, Names
<1>7. BookAgesOnlyByRestart'
  BY <1>1, <1>2, <1>3 DEF LookUp, IInv, TypeOK, BookAgesOnlyByRestart, Names
<1> QED
  BY <1>4, <1>5, <1>6, <1>7 DEF IInv

LEMMA BootStep ==
  ASSUME IInv, NEW s \in Services, Boot(s)
  PROVE  IInv'
<1>1. Names
  BY ServicesByName
<1>2. TypeOK' /\ PhaseInv'
  BY <1>1 DEF Boot, IInv, TypeOK, PhaseInv, Runs, Names
<1>3. OrderInv' /\ NoLookUpTooSoon' /\ BookAgesOnlyByRestart'
  BY <1>1 DEF Boot, IInv, TypeOK, OrderInv, StartedInOrder, NoLookUpTooSoon,
              BookAgesOnlyByRestart, Names
<1> QED
  BY <1>2, <1>3 DEF IInv

(* Docker's verdicts and the end of compose touch neither phases nor addresses. *)
LEMMA VerdictStep ==
  ASSUME IInv, NEW s \in Checked, ProbeOk(s) \/ ProbesFail(s)
  PROVE  IInv'
<1>1. Names
  BY ServicesByName
<1>2. TypeOK' /\ PhaseInv'
  BY <1>1 DEF ProbeOk, ProbesFail, Judged, IInv, TypeOK, PhaseInv, Runs, Names
<1>3. OrderInv' /\ NoLookUpTooSoon' /\ BookAgesOnlyByRestart'
  BY DEF ProbeOk, ProbesFail, Judged, IInv, OrderInv, StartedInOrder, NoLookUpTooSoon,
         BookAgesOnlyByRestart
<1> QED
  BY <1>2, <1>3 DEF IInv

LEMMA EndStep ==
  ASSUME IInv, (compose' \in {"done", "failed"} \/ compose' = compose),
         UNCHANGED <<phase, health, addr, book, met, stops, heard, gone, born>>
  PROVE  IInv'
BY DEF IInv, TypeOK, PhaseInv, OrderInv, StartedInOrder, NoLookUpTooSoon,
       BookAgesOnlyByRestart, Runs

(* The initial state. *)
LEMMA InitIInv == Init => IInv
BY ServicesByName, StartupAssumption
   DEF Init, IInv, TypeOK, PhaseInv, OrderInv, StartedInOrder, NoLookUpTooSoon,
       BookAgesOnlyByRestart, Runs, Names, NotAsked, NoSuchName, TooSlow

(* Every step keeps the invariant. *)
LEMMA StepIInv == IInv /\ [Next]_vars => IInv'
<1> SUFFICES ASSUME IInv, [Next]_vars PROVE IInv'
  OBVIOUS
<1>1. CASE Compose
  <2>1. CASE GiveUp \/ Done
    BY <2>1, EndStep DEF GiveUp, Done, Over
  <2>2. CASE \E s \in Services : Start(s)
    BY <2>2, StartStep
  <2>3. CASE \E s \in Services, d \in Checked : FindHealthy(s, d)
    BY <2>3, FindHealthyStep
  <2> QED
    BY <1>1, <2>1, <2>2, <2>3 DEF Compose
<1>2. CASE \E s \in Services : Stop(s) \/ Restart(s) \/ Boot(s)
  BY <1>2, StopStep, RestartStep, BootStep
<1>3. CASE \E p \in Peers : LookUp(p)
  BY <1>3, LookUpStep
<1>4. CASE \E s \in Checked : ProbeOk(s) \/ ProbesFail(s)
  BY <1>4, VerdictStep
<1>5. CASE UNCHANGED vars
  BY <1>5, EndStep DEF vars
<1> QED
  BY <1>1, <1>2, <1>3, <1>4, <1>5 DEF Next

(* The invariant, and with it the types, in every reachable state. *)
THEOREM StartupInvariant == Spec => []IInv
<1>1. Init => IInv
  BY InitIInv
<1>2. IInv /\ [Next]_vars => IInv'
  BY StepIInv
<1> QED
  BY <1>1, <1>2, PTL DEF Spec

(* Phases, verdicts and addresses keep their types, and no two containers ever
   share an address: docker's network under docker-compose.yml. *)
THEOREM StartupTypes == Spec => []TypeOK
<1>1. IInv => TypeOK
  BY DEF IInv
<1> QED
  BY <1>1, StartupInvariant, PTL

-----------------------------------------------------------------------------
(* Nobody starts before whom it needs: depends_on of docker-compose.yml. *)
THEOREM OrderOfStart == Spec => []StartedInOrder
<1>1. IInv => StartedInOrder
  BY DEF IInv, OrderInv
<1> QED
  BY <1>1, StartupInvariant, PTL

(* Without a stop, go looks up none of the peers it depends on, itself or through
   another, before that has an address: materializePeerHosts after depends_on. *)
THEOREM PeersAreThere == Spec => []NoLookUpTooSoon
<1>1. IInv => NoLookUpTooSoon
  BY DEF IInv
<1> QED
  BY <1>1, StartupInvariant, PTL

(* go's book is wrong only after a restart since its look-up: the comment of
   materializePeerHosts. *)
THEOREM BookIsRightUntilRestart == Spec => []BookAgesOnlyByRestart
<1>1. IInv => BookAgesOnlyByRestart
  BY DEF IInv
<1> QED
  BY <1>1, StartupInvariant, PTL
===============================================================================
