------------------------------- MODULE MCGoLive -------------------------------
(* GoLive on two devices, which are interchangeable. *)
EXTENDS GoLive, TLC

CONSTANTS phone, tablet

Devices  == {phone, tablet}
Symmetry == Permutations(Devices)

=============================================================================
