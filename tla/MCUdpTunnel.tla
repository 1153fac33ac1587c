---------------------------- MODULE MCUdpTunnel ----------------------------
(* An instance of UdpTunnel with two endpoints.  The constructor is given   *)
(* no peer, both peers in either order, or one of them twice.  The set is   *)
(* closed under exchanging the endpoints, so symmetry is sound.             *)
EXTENDS UdpTunnel

CONSTANTS a, b

MCInitialPeers == {<<>>, <<a, b>>, <<b, a>>, <<a, a>>, <<b, b>>}

MCSymmetry == Permutations({a, b})
=============================================================================
