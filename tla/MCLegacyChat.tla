---------------------------- MODULE MCLegacyChat ----------------------------
(***************************************************************************)
(* A small instance of LegacyChat.                                         *)
(***************************************************************************)
EXTENDS LegacyChat

MCAccount == <<"a1", "a2">>
MCWindow == [a1 |-> 1, a2 |-> 0]

=============================================================================
