-------------------------- MODULE MCProviderClient --------------------------
(* A create call, a second one or a cancellation, and a status call, in any *)
(* order and overlap, with QRs at both banks.                               *)
EXTENDS ProviderClient, TLC

CONSTANTS c1, c2, c3, m1, m2, o1, o2, mkassa, odengi

MCOrderOf == [q \in Qrs |-> IF q \in {m1, m2} THEN mkassa ELSE odengi]

MCOpsOf == (c1 :> {"create"}) @@ (c2 :> {"create", "cancel"}) @@ (c3 :> {"get"})

=============================================================================
