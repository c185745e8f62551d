----------------------------- MODULE MCRunQueue -----------------------------
(* Instances of RunQueue for TLC: two issues a and b, the second blocked by  *)
(* the first and by a person's ticket x.                                     *)
EXTENDS RunQueue, TLC

CONSTANTS a, b, x

MCConfig(mode, dry, stopPlan, stopExec, requireGate, timed, forced) ==
    [mode |-> mode, dry |-> dry, stopPlan |-> stopPlan, stopExec |-> stopExec,
     requireGate |-> requireGate, timed |-> timed, forced |-> forced]

New       == MCConfig("New", FALSE, FALSE, FALSE, FALSE, FALSE, {})
NewStrict == MCConfig("New", FALSE, TRUE, FALSE, TRUE, TRUE, {a})
NewDry    == MCConfig("New", TRUE, FALSE, FALSE, FALSE, FALSE, {})
DryForced == MCConfig("New", TRUE, FALSE, FALSE, FALSE, FALSE, {a})
NewLimits == MCConfig("New", FALSE, TRUE, TRUE, FALSE, FALSE, {a})
NewStops  == MCConfig("New", FALSE, TRUE, TRUE, FALSE, FALSE, {})
Current   == MCConfig("Current", FALSE, TRUE, TRUE, TRUE, FALSE, {})

NoLabels   == [t \in Tickets |-> {}]
StopBefore == [t \in Tickets |-> IF t = a THEN {"stop-before"} ELSE {}]
HumanGate  == [t \in Tickets |-> IF t = x THEN {"ready-for-human"} ELSE {}]
NoBlockers == [i \in Issues |-> {}]
Chain      == [i \in Issues |-> IF i = b THEN {a, b} ELSE {}]
SpecChain  == [i \in Issues |-> IF i = b THEN {x} ELSE {}]
NoChildren == [t \in Tickets |-> {}]
Split      == [t \in Tickets |-> IF t = a THEN {x} ELSE {}]

OneRun   == {<<a, b>>}
Single   == {<<a>>}
EitherOne == {<<a>>, <<b>>}

QueueConfigs == {New, NewStrict}
FaultConfigs == {NewLimits, NewDry, DryForced}
CrashConfigs == {NewStops, Current}
NewOnly      == {New}

Swap == Permutations({a, b})
=============================================================================
