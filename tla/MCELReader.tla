----------------------------- MODULE MCELReader -----------------------------
(* TLC instance of ELReader: one AVS, set ids 0 and 1, and two contract    *)
(* states that differ in every view a check or a property looks at.        *)
EXTENDS ELReader, TLC

CONSTANTS a1

\* The operator is registered for set (1, a1), with an M2 registration and
\* a set allocation delay; the claim checks.
StateA ==
    [registered |-> {<<1, a1>>}, avsStatus |-> 1,
     delay |-> [isSet |-> TRUE, value |-> 7], claim |-> TRUE, view |-> "v"]

\* Deregistered everywhere, allocation delay never set, the claim fails.
StateB ==
    [registered |-> {}, avsStatus |-> 0,
     delay |-> [isSet |-> FALSE, value |-> 0], claim |-> FALSE, view |-> "w"]

MC_States == {StateA, StateB}

\* Every method except check_claim, which turns a failed call into an
\* answer and has a run of its own.
MC_Audited == Methods \ {"check_claim"}

=============================================================================
