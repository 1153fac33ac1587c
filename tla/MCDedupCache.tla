---------------------------- MODULE MCDedupCache ----------------------------
(* Three keys compete for two entries; one key stands for two messages that *)
(* differ in their destination, and one message is not filtered.            *)
EXTENDS DedupCache

CONSTANTS n1, n2, NoNode

MCSymmetry == Permutations(Thread)

MCMessage ==
    {[type |-> "BROADCAST",        from |-> n1, payload |-> 1, to |-> NoNode],
     [type |-> "BROADCAST",        from |-> n2, payload |-> 1, to |-> NoNode],
     [type |-> "UNICAST",          from |-> n1, payload |-> 1, to |-> n1],
     [type |-> "UNICAST",          from |-> n1, payload |-> 1, to |-> n2],
     [type |-> "MEASUREMENT_PING", from |-> n1, payload |-> 1, to |-> n2]}
=============================================================================
