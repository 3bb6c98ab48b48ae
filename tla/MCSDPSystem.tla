------------------------------ MODULE MCSDPSystem ------------------------------
(***************************************************************************)
(* A small deployment of SDPSystem: two clients, each with an account of    *)
(* its own; the scanner bans the first.                                     *)
(***************************************************************************)
EXTENDS SDPSystem, TLC

CONSTANTS c1, c2, acc1, acc2

MCClientIPs == {c1, c2}
MCAccountOf == c1 :> acc1 @@ c2 :> acc2
MCDigestOf == <<0, 1>>
=============================================================================
