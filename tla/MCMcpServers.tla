---------------------------- MODULE MCMcpServers ----------------------------
(***************************************************************************)
(* TLC instances of McpServers.  Operations, tabs and benches are          *)
(* interchangeable.                                                        *)
(***************************************************************************)
EXTENDS McpServers, TLC

Symmetry == Permutations(Ops) \cup Permutations(Tabs) \cup Permutations(Benches)

=============================================================================
