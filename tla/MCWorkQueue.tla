----------------------------- MODULE MCWorkQueue -----------------------------
(* A small portfolio for TLC: one registered ref with two commits, one       *)
(* consuming project reached by two kinds of work, and two configurations of *)
(* one topology that differ in their worker registry.                        *)
EXTENDS WorkQueue, TLC

CONSTANTS first, second, ref, consumer, before, after, old, new, inspect, retest, runner

MCLocusOf == [s \in {first, second} |-> ref]
MCFrontier == {inspect, retest} \X {first, second}
\* only one of the two commits asks for work
MCLaterFrontier == {inspect, retest} \X {second}
MCSubjectOf == [f \in Frontier |-> f[2]]
MCProjectOf == [f \in Frontier |-> consumer]
MCCollisionKeys == [f \in Frontier |-> {consumer}]
MCPrivate == {f \in Frontier : f[1] = retest}
MCTopologyOf == [c \in Config |-> "topology"]
MCWorkersOf == [c \in Config |-> c]
\* before, inspections run in place; the registry revision routes them too,
\* and tightens the retest's route
MCPolicyUnder ==
  [c \in Config |-> [f \in Frontier |->
     IF c = after THEN "NEVER" ELSE IF f[1] = inspect THEN Unrouted ELSE "SAFE"]]
\* whatever kind of work, it goes to the one worker there is
MCEndpointUnder ==
  [c \in Config |-> [f \in Frontier |-> IF PolicyUnder[c][f] = Unrouted THEN Unrouted ELSE runner]]
MCInspection == {f \in Frontier : f[1] = inspect}
MCReadyUnder == [c \in Config |-> Frontier]
MCRunsUnder == [p \in Planner |-> IF p = old THEN {before} ELSE {after}]
MCAnyConfig == [p \in Planner |-> Config]
=============================================================================
