------------------------------ MODULE Requests ------------------------------
(* The requests at the router's front door.                                *)
EXTENDS FiniteSets

CONSTANT Request

ASSUME RequestAssumption == IsFiniteSet(Request) /\ Request # {}

=============================================================================
