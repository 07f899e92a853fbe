--------------------------- MODULE MCTunnelServer ---------------------------
(* The keys may be exchanged for one another: nothing tells them apart.    *)
EXTENDS TunnelServer, TLC

KeySymmetry == Permutations(Keys)
=============================================================================
