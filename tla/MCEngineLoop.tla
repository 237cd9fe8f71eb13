---------------------------- MODULE MCEngineLoop ----------------------------
(* Instances of EngineLoop. *)
EXTENDS EngineLoop

CONSTANTS r1, r2, r3

TwoRequests == {r1, r2}
ThreeRequests == {r1, r2, r3}
OnlyFirst == {r1}
NoRequest == {}

\* Two prompts that fill their block exactly and one that does not.
Prompts == [r \in Request |-> IF r \in TwoRequests THEN 2 ELSE 3]
UpToTwo == [r \in Request |-> 2]
UpToThree == [r \in Request |-> 3]
\* The third outgrows four blocks of two, alone.
ThirdOutgrows == [r \in Request |-> IF r = r3 THEN 7 ELSE 2]
=============================================================================
