------------------------------ MODULE TunnelNet ------------------------------
(***************************************************************************)
(* The connection protocol between UdpTunnels: HELLO handshake, KEEPALIVE  *)
(* heartbeat, timeout, BYE.  Every site runs the handlers of TunnelCore;   *)
(* here they talk to each other over UDP.  Sites start, quit (Controller's *)
(* destructor calls stop_listening), crash and start again; datagrams can  *)
(* be lost, duplicated and overtaken.  Data messages and peer lists that   *)
(* change at run time are UdpTunnel.tla's business.                        *)
(*                                                                         *)
(* Time passes in maintenance intervals.  In each interval every site that *)
(* is up runs one maintenance pass, at any moment of it, and datagrams     *)
(* arrive within the interval they were sent in (a UDP round trip is far   *)
(* below kMaintenanceInterval = 5 s) or never.  Where in its interval a    *)
(* pass or an arrival lies is left open: a pass that finds a peer exactly  *)
(* kKeepaliveTimeout intervals old may find it timed out or not, since     *)
(* up to one interval more or less has really passed (TimedOut).           *)
(***************************************************************************)
EXTENDS TunnelCore

CONSTANTS
    PeerLists,   \* the assignments of configured peers to sites
    MaxLoss,     \* bound: lost datagrams
    MaxShuffle,  \* bound: duplicated or overtaken datagrams
    MaxCrash,    \* bound: crashes
    MaxQuit      \* bound: regular exits

ASSUME PeerListsAssumption == PeerLists \subseteq [Endpoint -> Seq(Endpoint)]

ASSUME FaultsAssumption ==
    MaxLoss \in Nat /\ MaxShuffle \in Nat /\ MaxCrash \in Nat /\ MaxQuit \in Nat

\* A peer heard of in the interval before is never timed out: 15 s against 5 s
\* in the code.
ASSUME IntervalAssumption == kKeepaliveTimeout >= 2

VARIABLES
    config,      \* the peers every site is started with
    up,          \* the site's process is running
    tun,         \* its UdpTunnel
    due,         \* its maintenance pass of this interval is still to come
    asked,       \* the endpoints whose unknown-peer callback is unanswered
    chan,        \* chan[a][b]: messages under way from a to b
    losses, shuffles, crashes, quits

faults == <<losses, shuffles, crashes, quits>>
vars == <<config, up, tun, due, asked, chan, losses, shuffles, crashes, quits>>

\* A single datagram per destination and handler (peer lists do not repeat).
Transmit(a, c, sent) ==
    [c EXCEPT ![a] = [b \in Endpoint |->
        LET here == {d \in sent : d.dst = b}
        IN  IF here = {} THEN @[b] ELSE Append(@[b], (CHOOSE d \in here : TRUE).msg)]]

Init ==
    /\ config \in PeerLists
    /\ up = [s \in Endpoint |-> FALSE]
    /\ tun = [s \in Endpoint |-> NewTunnel(config[s])]
    /\ due = [s \in Endpoint |-> FALSE]
    /\ asked = [s \in Endpoint |-> {}]
    /\ chan = [a \in Endpoint |-> [b \in Endpoint |-> <<>>]]
    /\ losses = 0 /\ shuffles = 0 /\ crashes = 0 /\ quits = 0

-----------------------------------------------------------------------------
(* A site's life.                                                          *)

\* The constructor posts the first maintenance pass.
Start(s) ==
    /\ ~up[s]
    /\ up' = [up EXCEPT ![s] = TRUE]
    /\ tun' = [tun EXCEPT ![s] = NewTunnel(config[s])]
    /\ due' = [due EXCEPT ![s] = TRUE]
    /\ UNCHANGED <<config, asked, chan, faults>>

\* The process is gone: nothing of its state survives.
Gone(s) ==
    /\ up[s]
    /\ up' = [up EXCEPT ![s] = FALSE]
    /\ tun' = [tun EXCEPT ![s] = NewTunnel(config[s])]
    /\ due' = [due EXCEPT ![s] = FALSE]
    /\ asked' = [asked EXCEPT ![s] = {}]

Crash(s) ==
    /\ crashes < MaxCrash
    /\ crashes' = crashes + 1
    /\ Gone(s)
    /\ UNCHANGED <<config, chan, losses, shuffles, quits>>

Quit(s) ==
    /\ quits < MaxQuit
    /\ quits' = quits + 1
    /\ Gone(s)
    /\ chan' = Transmit(s, chan, StopByes(tun[s]))
    /\ UNCHANGED <<config, losses, shuffles, crashes>>

\* Takes over what a handler of s returned; c is the network it sends into.
Apply(s, r, c) ==
    /\ tun' = [tun EXCEPT ![s] = r.tunnel]
    /\ chan' = Transmit(s, c, r.sent)

\* The first pass or the timer; the user may answer a callback at any time.
Maintain(s) ==
    /\ up[s]
    /\ due[s]
    /\ due' = [due EXCEPT ![s] = FALSE]
    /\ \E over \in SUBSET DOMAIN tun[s].mPeers :
          Apply(s, RunMaintenance(tun[s], over), chan)
    /\ UNCHANGED <<config, up, asked, faults>>

Answer(s, e) ==
    /\ e \in asked[s]
    /\ asked' = [asked EXCEPT ![s] = @ \ {e}]
    /\ \/ Apply(s, Accept(tun[s], e), chan)
       \/ Apply(s, Reject(tun[s], e), chan)
    /\ UNCHANGED <<config, up, due, faults>>

-----------------------------------------------------------------------------
(* The network.                                                            *)

\* A datagram for a site that is down vanishes.
Deliver(a, b) ==
    /\ chan[a][b] # <<>>
    /\ LET rest == [chan EXCEPT ![a][b] = Tail(@)]
           r    == HandleReceive(tun[b], a, Head(chan[a][b]))
       IN  IF up[b]
           THEN /\ Apply(b, r, rest)
                /\ asked' = [asked EXCEPT ![b] = @ \cup r.prompt]
           ELSE /\ chan' = rest
                /\ UNCHANGED <<tun, asked>>
    /\ UNCHANGED <<config, up, due, faults>>

Lose(a, b) ==
    /\ losses < MaxLoss
    /\ chan[a][b] # <<>>
    /\ losses' = losses + 1
    /\ chan' = [chan EXCEPT ![a][b] = Tail(@)]
    /\ UNCHANGED <<config, up, tun, due, asked, shuffles, crashes, quits>>

Duplicate(a, b) ==
    /\ shuffles < MaxShuffle
    /\ chan[a][b] # <<>>
    /\ shuffles' = shuffles + 1
    /\ chan' = [chan EXCEPT ![a][b] = Append(@, Head(@))]
    /\ UNCHANGED <<config, up, tun, due, asked, losses, crashes, quits>>

Overtake(a, b) ==
    /\ shuffles < MaxShuffle
    /\ Len(chan[a][b]) > 1
    /\ shuffles' = shuffles + 1
    /\ chan' = [chan EXCEPT ![a][b] = Append(Tail(@), Head(@))]
    /\ UNCHANGED <<config, up, tun, due, asked, losses, crashes, quits>>

Quiescent ==
    /\ \A s \in Endpoint : ~due[s]
    /\ \A a, b \in Endpoint : chan[a][b] = <<>>

\* The next interval begins: every running site's timer will expire in it.
\* All that an age keeps of last_seen is the boundaries passed since.
Tick ==
    /\ Quiescent
    /\ tun' = [s \in Endpoint |-> IF up[s] THEN Age(tun[s]) ELSE tun[s]]
    /\ due' = up
    /\ UNCHANGED <<config, up, asked, chan, faults>>

Next ==
    \/ \E s \in Endpoint : Start(s) \/ Crash(s) \/ Quit(s) \/ Maintain(s)
    \/ \E s, e \in Endpoint : Answer(s, e)
    \/ \E a, b \in Endpoint :
          Deliver(a, b) \/ Lose(a, b) \/ Duplicate(a, b) \/ Overtake(a, b)
    \/ Tick

\* The IO thread of a running site serves its timer, the network does not hold
\* a datagram back for ever, and time passes.  Nobody is obliged to start a
\* site, and no user to answer.
Fairness ==
    /\ \A s \in Endpoint : WF_vars(Maintain(s))
    /\ \A a, b \in Endpoint : WF_vars(Deliver(a, b))
    /\ WF_vars(Tick)

Spec == Init /\ [][Next]_vars /\ Fairness

-----------------------------------------------------------------------------
(* Properties.                                                             *)

\* The callbacks a site's user has not answered are about its pending endpoints.
PendingAsked == \A s \in Endpoint : asked[s] = tun[s].mPendingPeers

\* Every variable has its type, every fault counter keeps to its bound, and the
\* endpoints a site's user is still to decide about are its mPendingPeers: through
\* answers, passes, crashes and restarts no endpoint stays pending, and silenced,
\* with nobody left to decide.
TypeOK ==
    /\ config \in [Endpoint -> Seq(Endpoint)]
    /\ up \in [Endpoint -> BOOLEAN]
    /\ tun \in [Endpoint -> Tunnel]
    /\ due \in [Endpoint -> BOOLEAN]
    /\ asked \in [Endpoint -> SUBSET Endpoint]
    /\ chan \in [Endpoint -> [Endpoint -> Seq(Message)]]
    /\ losses \in 0..MaxLoss /\ shuffles \in 0..MaxShuffle
    /\ crashes \in 0..MaxCrash /\ quits \in 0..MaxQuit
    /\ PendingAsked

ConnectedTo(a, b) == up[a] /\ Known(tun[a], b) /\ PeerOf(tun[a], b).state = "CONNECTED"

\* a has b in its table and b has a.
Paired(a, b) == up[a] /\ up[b] /\ Known(tun[a], b) /\ Known(tun[b], a)

\* When nothing was lost and no site went away, two running sites that list each
\* other are connected both ways at the end of every interval, in whatever order
\* they started and their HELLOs crossed: the handshake needs no second round.
HandshakeDone ==
    losses = 0 /\ crashes = 0 /\ quits = 0 /\ Quiescent =>
        \A a, b \in Endpoint : a # b /\ Paired(a, b) => ConnectedTo(a, b)

\* However datagrams are lost and sites crash, a peer that is CONNECTED was heard
\* of within kKeepaliveTimeout plus the interval of the pass that notices.
DetectionBound ==
    \A a, b \in Endpoint :
        ConnectedTo(a, b) => PeerOf(tun[a], b).age <= kKeepaliveTimeout + 1

\* At least two lost datagrams fewer than kKeepaliveTimeout has intervals (one
\* lost datagram in the code), whichever they are, and shuffled ones never cost a
\* connection: while no site goes away, a connected peer stays connected.  Two
\* losses can cost it: the third KEEPALIVE may come just after the pass that finds
\* last_seen more than 15 s old.
SurvivesLosses ==
    [][\A a, b \in Endpoint :
          losses' + 1 < kKeepaliveTimeout /\ crashes' = 0 /\ quits' = 0 /\ ConnectedTo(a, b) =>
              ConnectedTo(a, b)']_vars

\* The echo of HELLOs dies out: every interval comes to an end.
EchoesEnd == []<>Quiescent

\* A peer that stays away, by crash or by exit with its BYE lost, is not left
\* CONNECTED: forward() stops sending to it.
DeadPeerDropped ==
    \A a, b \in Endpoint : <>[](up[a] /\ ~up[b]) => <>[]~ConnectedTo(a, b)

\* README.md: "automatic reconnection, so the session recovers gracefully if
\* connectivity is briefly lost": faults are bounded, so once two sites stay up
\* and list each other they end up connected both ways.
Recovers ==
    \A a, b \in Endpoint :
        a # b /\ <>[]Paired(a, b) => <>[](ConnectedTo(a, b) /\ ConnectedTo(b, a))
=============================================================================
