----------------------------- MODULE MCGenerator -----------------------------
(***************************************************************************)
(* Instances of Generator for TLC: scenarios of the shapes found under     *)
(* src/stub/sender/python_traffic_generator/scenarios, with fewer          *)
(* repetitions.                                                            *)
(***************************************************************************)
EXTENDS Generator

\* Finite groups, no limit: "seq" posts its files in turn and pauses between
\* series, "par" posts them together without a pause, "bad" is refused.
SeriesGroups == {"seq", "par", "bad"}
SeriesFiles  == [seq |-> 2, par |-> 3, bad |-> 1]
SeriesReps   == [seq |-> 3, par |-> 2, bad |-> 2]
AllReadable  == [g \in SeriesGroups |-> {}]

\* Two endless groups and one with an unreadable file, under both limits.
LimitsGroups == {"seq", "par", "torn"}
LimitsFiles  == [seq |-> 2, par |-> 2, torn |-> 2]
LimitsReps   == [g \in LimitsGroups |-> 2]
LimitsTorn   == [seq |-> {}, par |-> {}, torn |-> {2}]
=============================================================================
