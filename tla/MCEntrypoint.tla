---------------------------- MODULE MCEntrypoint ----------------------------
(* Instances of Entrypoint for TLC.                                         *)
EXTENDS Entrypoint

\* Every other release does without the parts.
ShipsFewer == [r \in 1 .. MaxRelease |-> IF r % 2 = 1 THEN Parts ELSE {}]

=============================================================================
