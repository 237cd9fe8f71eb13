-------------------------- MODULE MCAdmissionQueue --------------------------
(* An instance of AdmissionQueue: two run, two wait, the fifth is refused. *)
EXTENDS AdmissionQueue
CONSTANTS r1, r2, r3, r4, r5
Five == {r1, r2, r3, r4, r5}
OnlyFirst == {r1}
=============================================================================
