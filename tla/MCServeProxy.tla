---------------------------- MODULE MCServeProxy ----------------------------
(* Instances of ServeProxy. *)
EXTENDS ServeProxy
CONSTANTS r1, r2, r3, r4, a, b, c

\* Requests for a, a serial model that must be stopped for c to start, and for
\* c, which runs several at once; b is resident.
Four == {r1, r2, r3, r4}
ThreeModels == <<a, b, c>>
Targets == [r \in Four |-> IF r \in {r1, r2} THEN a ELSE c]
Sizes == [m \in Model |-> IF m = c THEN 2 ELSE 1]

\* Every request for one model.
OneModel == <<a>>
Three == {r1, r2, r3}
AllToA == [r \in Three |-> a]

OnlyFirst == {r1}
OnlyA == {a}
OnlyB == {b}
OnlyC == {c}
Nothing == {}
LastTwo == {r3, r4}

\* A behaviour has two requests for one of the models and one for the other.
OneOfEach == pc'[r2] = "start" \/ pc'[r4] = "start"
TwoAndOneSpec == ProxyInit /\ [][ProxyNext /\ OneOfEach]_proxyVars /\ ProxyFairness
=============================================================================
