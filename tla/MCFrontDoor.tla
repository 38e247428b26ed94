---------------------------- MODULE MCFrontDoor -----------------------------
(***************************************************************************)
(* A small instance of FrontDoor: a caller with a tenant, one that counts  *)
(* as its service, and one that is not limited; and limits that become     *)
(* stricter with a reload.                                                 *)
(***************************************************************************)
EXTENDS FrontDoor

MCCaller ==
  {[tenant |-> "t", service |-> "s"], [tenant |-> "", service |-> "s"],
   [tenant |-> "b", service |-> ""]}
MCBypass == {"b"}
MCBurst == <<2, 1>>
MCAlike == {<<"p", "q">>, <<"p", "p">>, <<"q", "q">>}

\* No definition tells one request from another.
Interchangeable == Permutations(Request)

=============================================================================
