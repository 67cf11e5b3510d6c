------------------------ MODULE MCProcessProvisioner ------------------------
(***************************************************************************)
(* TLC instances of ProcessProvisioner.  Calls are interchangeable.        *)
(***************************************************************************)
EXTENDS ProcessProvisioner, TLC

CallSymmetry == Permutations(Calls)

=============================================================================
