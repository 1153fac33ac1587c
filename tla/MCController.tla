---------------------------- MODULE MCController ----------------------------
(* Three scenarios: a UdpTunnel that is taken down while an interface comes *)
(* and goes and the application calls in, the same for a ShmTunnel, and a   *)
(* tunnel that stays, with peers on both sides, one of them seen through    *)
(* both interfaces.                                                         *)
EXTENDS Controller

CONSTANTS eth, wifi, p1, p2

Udp == [shm |-> FALSE, flapping |-> {eth}, calls |-> TRUE, stops |-> TRUE, peers |-> {}]
Shm == [shm |-> TRUE, flapping |-> {eth, wifi}, calls |-> FALSE, stops |-> TRUE, peers |-> {}]
Counting == [shm |-> TRUE, flapping |-> {}, calls |-> FALSE, stops |-> FALSE,
             peers |-> {<<"local", p1, eth>>, <<"local", p1, wifi>>, <<"local", p2, eth>>,
                        <<"remote", p2, eth>>}]

MCScenarios == {Udp, Shm, Counting}
=============================================================================
