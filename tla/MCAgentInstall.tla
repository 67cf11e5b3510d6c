---------------------------- MODULE MCAgentInstall ----------------------------
(***************************************************************************)
(* TLC instance of AgentInstall.                                           *)
(***************************************************************************)
EXTENDS AgentInstall, TLC

\* The installs are interchangeable, and only safety is checked.
Symmetry == Permutations(Installs)

=============================================================================
