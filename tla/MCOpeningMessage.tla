-------------------------- MODULE MCOpeningMessage --------------------------
(***************************************************************************)
(* TLC instances of OpeningMessage: a workbench with two agents and one    *)
(* whose agent never comes up.                                             *)
(***************************************************************************)
EXTENDS OpeningMessage, TLC

CONSTANTS b1, b2, a1, a2

MCBenches == {b1, b2}
MCAgents  == {a1, a2}
MCTeams   == (b1 :> {a1, a2}) @@ (b2 :> {})

=============================================================================
