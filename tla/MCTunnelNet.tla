---------------------------- MODULE MCTunnelNet ----------------------------
(* Two sites: both list the other, or only one does and the other is asked. *)
EXTENDS TunnelNet

CONSTANTS a, b

MCPeerLists == {[s \in {a, b} |-> IF s = a THEN <<b>> ELSE <<a>>],
                [s \in {a, b} |-> IF s = a THEN <<b>> ELSE <<>>]}
MCMutual == {[s \in {a, b} |-> IF s = a THEN <<b>> ELSE <<a>>]}
=============================================================================
