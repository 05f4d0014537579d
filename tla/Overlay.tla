------------------------------ MODULE Overlay ------------------------------
(***************************************************************************)
(* The task that drives the libp2p swarm, the consensus loop, and the      *)
(* three channels between them: commands to the driver, protocol events    *)
(* and, by broadcast, the peers that come and go.  The driver waits when   *)
(* the event channel is full and the loop waits when the command channel   *)
(* is full; the broadcast channel waits for nobody and drops its oldest    *)
(* entry.  The loop meters what it receives and sends with a RateLimiter.  *)
(***************************************************************************)
EXTENDS RateLimiter, FiniteSets, FiniteSetsExt, SequencesExt

CONSTANTS
    Peers,            \* the nodes that are allowed to connect
    Bootstraps,       \* those whose addresses are bootstrap_addrs
    Talkers,          \* the peers that exchange messages with the node
    Sizes,            \* sizes of the messages that are received
    OutSizes,         \* and of those that are sent
    EventCap, CmdCap, DiscoCap, \* the capacities of the three channels
    MaxIncoming,      \* max_established_incoming
    SwarmCap,         \* bound: events that the swarm holds when the network adds one
    MaxReplies,       \* bound: messages that the handler of one message sends
    MaxCalls,         \* bound: messages that the node sends
    MaxMessages,      \* bound: messages that peers send
    MaxFaults,        \* bound: connections that break by themselves
    MaxTime           \* bound: ticks of the clock

ASSUME OverlayAssumption ==
    /\ Bootstraps \cup Talkers \subseteq Peers /\ Sizes \cup OutSizes \subseteq Nat
    /\ {EventCap, CmdCap, DiscoCap} \subseteq Nat \ {0}
    /\ {MaxIncoming, SwarmCap, MaxReplies, MaxCalls, MaxMessages, MaxFaults, MaxTime} \subseteq Nat

VARIABLES
    links,    \* the connections of each peer: "dialed", "accepted"
    dialing,  \* the addresses that the swarm is dialling
    swarm,    \* events that the swarm has for the driver
    driver,   \* [peers, outbound_bootstrap, sends]: `sends` is what is left of the current handler
    events, cmds, disco, \* the channels
    lagged,   \* disco has dropped entries
    node,     \* [phase, peers_connected, sends, waiting]
    limiter,  \* peer to PeerState
    now,
    messages, calls, faults,
    admitted  \* ghost: what was let through, after metering, of each known peer

vars == <<links, dialing, swarm, driver, events, cmds, disco, lagged, node, limiter, now,
          messages, calls, faults, admitted>>

network == <<links, dialing, swarm, messages, faults>>
channels == <<events, cmds, disco, lagged>>
metered == <<limiter, admitted>>

NothingSince(t) == [since |-> t, messages |-> [k \in Kinds |-> 0], bytes |-> 0]

Init ==
    /\ links = [p \in Peers |-> {}] /\ dialing = Bootstraps /\ swarm = <<>>
    /\ driver = [peers |-> {}, outbound_bootstrap |-> {}, sends |-> <<>>]
    /\ events = <<>> /\ cmds = <<>> /\ disco = <<>> /\ lagged = FALSE
    /\ node = [phase |-> "starting", peers_connected |-> {}, sends |-> 0, waiting |-> <<>>]
    /\ limiter = [p \in {} |-> NewPeerState(0)] /\ now = 0
    /\ messages = 0 /\ calls = 0 /\ faults = 0
    /\ admitted = [p \in {} |-> NothingSince(0)]

(***************************************************************************)
(* libp2p and the other nodes.                                             *)
(***************************************************************************)
Up(p, side) == [kind |-> "up", peer |-> p, side |-> side]
Down(p, left) == [kind |-> "down", peer |-> p, left |-> left]

\* A second connection dialled to a peer is not told from the first: closing
\* one of the two leaves the peer connected, and the driver ignores the event.
Established(p, side) ==
    /\ Len(swarm) < SwarmCap
    /\ links' = [links EXCEPT ![p] = @ \cup {side}]
    /\ swarm' = Append(swarm, Up(p, side))

DialSucceeds(p) ==
    /\ p \in dialing /\ dialing' = dialing \ {p}
    /\ Established(p, "dialed")
    /\ UNCHANGED <<driver, channels, node, metered, now, messages, calls, faults>>

DialFails(p) ==
    /\ p \in dialing /\ dialing' = dialing \ {p}
    /\ faults < MaxFaults /\ faults' = faults + 1
    /\ UNCHANGED <<links, swarm, driver, channels, node, metered, now, messages, calls>>

\* The peer dials; allowed_peers and max_established_incoming are in the way.
Accept(p) ==
    /\ "accepted" \notin links[p]
    /\ Cardinality({q \in Peers : "accepted" \in links[q]}) < MaxIncoming
    /\ faults < MaxFaults
    /\ Established(p, "accepted")
    /\ UNCHANGED <<dialing, driver, channels, node, metered, now, messages, calls, faults>>

Breaks(p, side) ==
    /\ side \in links[p] /\ Len(swarm) < SwarmCap
    /\ faults < MaxFaults /\ faults' = faults + 1
    /\ links' = [links EXCEPT ![p] = @ \ {side}]
    /\ swarm' = Append(swarm, Down(p, Cardinality(links[p]) - 1))
    /\ UNCHANGED <<dialing, driver, channels, node, metered, now, messages, calls>>

\* The kinds, and what stands for an empty payload or an unknown wire tag, whose
\* size matters to nothing.
Tags == Kinds \cup {"unknown"}

\* A message is attributed to its author, who need not be connected when
\* another peer relays it.
PeerSends(p, kind, size) ==
    /\ \E q \in Peers : links[q] # {}
    /\ Len(swarm) < SwarmCap
    /\ messages < MaxMessages /\ messages' = messages + 1
    /\ swarm' = Append(swarm, [kind |-> "message", peer |-> p, of |-> kind,
                               size |-> IF kind \in Kinds THEN size ELSE 0])
    /\ UNCHANGED <<links, dialing, driver, channels, node, metered, now, calls, faults>>

Tick ==
    /\ now < MaxTime /\ now' = now + 1
    /\ UNCHANGED <<network, driver, channels, node, metered, calls>>

(***************************************************************************)
(* The driver.                                                             *)
(***************************************************************************)
Idle == driver.sends = <<>>

bootstraps_to_redial == Bootstraps \ driver.outbound_bootstrap

redial_missing_bootstraps ==
    /\ Idle
    /\ dialing' = dialing \cup bootstraps_to_redial
    /\ UNCHANGED <<links, swarm, driver, channels, node, metered, now, messages, calls, faults>>

\* The events of a disconnection, one for each connection.
Hangup(p) ==
    [i \in 1..Cardinality(links[p]) |-> Down(p, Cardinality(links[p]) - i)]

\* What is broadcast or sent to a peer leaves the model here.
HandleCommand ==
    LET cmd == Head(cmds)
        disconnects == cmd.kind = "disconnect"
    IN /\ Idle /\ cmds # <<>>
       /\ cmds' = Tail(cmds)
       /\ links' = IF disconnects THEN [links EXCEPT ![cmd.peer] = {}] ELSE links
       /\ swarm' = IF disconnects THEN swarm \o Hangup(cmd.peer) ELSE swarm
       /\ UNCHANGED <<dialing, driver, events, disco, lagged, node, metered, now, messages, calls, faults>>

ToEvents(e) == [to |-> "events", e |-> e]
ToDisco(e) == [to |-> "disco", e |-> e]

on_connected(d, p, side) ==
    LET seen == [d EXCEPT !.outbound_bootstrap =
                    IF side = "dialed" /\ p \in Bootstraps THEN @ \cup {p} ELSE @]
    IN IF p \in d.peers THEN seen
       ELSE [seen EXCEPT !.peers = @ \cup {p},
                         !.sends = <<ToEvents([kind |-> "connected", peer |-> p]),
                                     ToDisco([kind |-> "added", peer |-> p])>>]

\* The address stays covered.
DisconnectedStillCovered(d, p) ==
    IF p \notin d.peers THEN d
    ELSE [d EXCEPT !.peers = @ \ {p},
                   !.sends = <<ToEvents([kind |-> "disconnected", peer |-> p]),
                               ToDisco([kind |-> "removed", peer |-> p])>>]

on_disconnected(d, p) ==
    LET uncovered == [d EXCEPT !.outbound_bootstrap = @ \ {p}]
    IN IF p \notin d.peers THEN uncovered
       ELSE [uncovered EXCEPT !.peers = @ \ {p},
                              !.sends = <<ToEvents([kind |-> "disconnected", peer |-> p]),
                                          ToDisco([kind |-> "removed", peer |-> p])>>]

on_swarm_event(d, e) ==
    CASE e.kind = "up" -> on_connected(d, e.peer, e.side)
      [] e.kind = "down" /\ e.left = 0 -> on_disconnected(d, e.peer)
      [] e.kind = "message" -> [d EXCEPT !.sends = <<ToEvents(e)>>]
      [] OTHER -> d

HandleSwarmEvent ==
    /\ Idle /\ swarm # <<>>
    /\ driver' = on_swarm_event(driver, Head(swarm))
    /\ swarm' = Tail(swarm)
    /\ UNCHANGED <<links, dialing, channels, node, metered, now, messages, calls, faults>>

\* The driver never waits for the loop.
DriverNeverWaits ==
    LET send == Head(driver.sends)
    IN /\ ~Idle
       /\ driver' = [driver EXCEPT !.sends = Tail(@)]
       /\ events' = IF send.to = "events" THEN Append(events, send.e) ELSE events
       /\ disco' = IF send.to = "disco" THEN Append(disco, send.e) ELSE disco
       /\ UNCHANGED <<network, lagged, cmds, node, metered, now, calls>>

\* The next send of the handler.  A broadcast without a subscriber is lost.
DriverSends ==
    LET send == Head(driver.sends)
    IN /\ ~Idle
       /\ driver' = [driver EXCEPT !.sends = Tail(@)]
       /\ \/ /\ send.to = "events" /\ Len(events) < EventCap
             /\ events' = Append(events, send.e)
             /\ UNCHANGED <<disco, lagged>>
          \/ /\ send.to = "disco" /\ node.phase = "starting"
             /\ UNCHANGED <<events, disco, lagged>>
          \/ /\ send.to = "disco" /\ node.phase # "starting"
             /\ disco' = Append(IF Len(disco) = DiscoCap THEN Tail(disco) ELSE disco, send.e)
             /\ lagged' = (lagged \/ Len(disco) = DiscoCap)
             /\ UNCHANGED events
       /\ UNCHANGED <<network, cmds, node, metered, now, calls>>

(***************************************************************************)
(* The consensus loop.                                                     *)
(***************************************************************************)
Free == node.phase = "running" /\ node.sends = 0

Subscribe ==
    /\ node.phase = "starting" /\ node' = [node EXCEPT !.phase = "subscribed"]
    /\ UNCHANGED <<network, driver, channels, metered, now, calls>>

known_peers == driver.peers

ReadKnownPeers ==
    /\ node.phase = "subscribed"
    /\ node' = [node EXCEPT !.phase = "running", !.peers_connected = known_peers]
    /\ UNCHANGED <<network, driver, channels, metered, now, calls>>

\* A handler may send up to n messages.
Sends(n) == 0..Min({n, MaxCalls - calls})

\* Entries were lost: they are forgotten.
IgnoreLag(n) == n

OnLagged(n) == [n EXCEPT !.peers_connected = known_peers]

\* A peer that is added may be asked for a snapshot at once.
OnDiscoveryEvent(n, e) ==
    IF e.kind = "added" THEN [n EXCEPT !.peers_connected = @ \cup {e.peer}]
    ELSE [n EXCEPT !.peers_connected = @ \ {e.peer}]

TakeDiscovery ==
    /\ Free
    /\ \/ /\ lagged /\ lagged' = FALSE
          /\ node' = OnLagged(node)
          /\ UNCHANGED <<disco, calls>>
       \/ /\ ~lagged /\ disco # <<>>
          /\ \E k \in Sends(1) :
                /\ node' = [OnDiscoveryEvent(node, Head(disco)) EXCEPT !.sends = k]
                /\ calls' = calls + k
          /\ disco' = Tail(disco)
          /\ UNCHANGED lagged
    /\ UNCHANGED <<network, driver, events, cmds, metered, now>>

StateOf(p) == IF p \in DOMAIN limiter THEN limiter[p] ELSE NewPeerState(now)

CountOf(p) == IF p \in DOMAIN limiter THEN admitted[p] ELSE NothingSince(now)

Put(f, key, value) == [k \in DOMAIN f \cup {key} |-> IF k = key THEN value ELSE f[k]]

\* Discovery::disconnect gives up when the channel is full.
TrySend(cmd) == IF Len(cmds) < CmdCap THEN Append(cmds, cmd) ELSE cmds

Meter(m) ==
    LET a == admit(StateOf(m.peer), m.of, m.size, now)
        c == CountOf(m.peer)
    IN /\ limiter' = Put(limiter, m.peer, a.state)
       /\ admitted' = Put(admitted, m.peer,
                          IF a.decision = "allow"
                            THEN [c EXCEPT !.messages[m.of] = @ + 1, !.bytes = @ + m.size] ELSE c)
       /\ cmds' = IF a.decision = "disconnect"
                    THEN TrySend([kind |-> "disconnect", peer |-> m.peer]) ELSE cmds
       /\ IF a.decision = "allow"
            THEN \E k \in Sends(MaxReplies) : node' = [node EXCEPT !.sends = k] /\ calls' = calls + k
            ELSE UNCHANGED <<node, calls>>

\* A message without a known tag is let through unmetered; nothing decodes it.
admit_inbound(m) ==
    \/ m.of \in Kinds /\ Meter(m)
    \/ m.of \notin Kinds /\ UNCHANGED <<limiter, admitted, cmds, node, calls>>

\* Only when nothing is waiting on the discovery channel: the select is biased.
TakeMessage ==
    /\ Free /\ ~lagged /\ disco = <<>>
    /\ events # <<>> /\ Head(events).kind = "message" /\ events' = Tail(events)
    /\ admit_inbound(Head(events))
    /\ UNCHANGED <<network, driver, disco, lagged, now>>

Forget(f, p) == [q \in DOMAIN f \ {p} |-> f[q]]

TakePeerEvent ==
    LET e == Head(events)
    IN /\ Free /\ ~lagged /\ disco = <<>>
       /\ events # <<>> /\ e.kind # "message" /\ events' = Tail(events)
       /\ limiter' = IF e.kind = "disconnected" THEN Forget(limiter, e.peer) ELSE limiter
       /\ admitted' = IF e.kind = "disconnected" THEN Forget(admitted, e.peer) ELSE admitted
       /\ UNCHANGED <<network, driver, cmds, disco, lagged, node, now, calls>>

\* The next message of the handler: metered first, then handed to the driver.
send_outbound ==
    /\ node.sends > 0 /\ node.waiting = <<>>
    /\ \/ /\ node' = [node EXCEPT !.waiting = <<[kind |-> "broadcast"]>>]
          /\ UNCHANGED metered
       \/ \E p \in Talkers, size \in OutSizes :
             LET a == admit_outbound(StateOf(p), size, now)
             IN /\ limiter' = Put(limiter, p, a.state)
                /\ admitted' = Put(admitted, p, CountOf(p))
                /\ node' = IF a.decision = "drop" THEN [node EXCEPT !.sends = @ - 1]
                           ELSE [node EXCEPT !.waiting = <<[kind |-> "send_to", peer |-> p]>>]
    /\ UNCHANGED <<network, driver, channels, now, calls>>

Handover ==
    /\ node.waiting # <<>> /\ Len(cmds) < CmdCap
    /\ cmds' = Append(cmds, node.waiting[1])
    /\ node' = [node EXCEPT !.waiting = <<>>, !.sends = @ - 1]
    /\ UNCHANGED <<network, driver, events, disco, lagged, metered, now, calls>>

DriverSteps == HandleCommand \/ HandleSwarmEvent \/ DriverSends

NodeSteps ==
    Subscribe \/ ReadKnownPeers \/ TakeDiscovery \/ TakeMessage \/ TakePeerEvent
    \/ send_outbound \/ Handover

Next ==
    \/ DriverSteps \/ NodeSteps \/ redial_missing_bootstraps \/ Tick
    \/ \E p \in Talkers, kind \in Tags, size \in Sizes : PeerSends(p, kind, size)
    \/ \E p \in Peers :
          \/ DialSucceeds(p) \/ DialFails(p) \/ Accept(p)
          \/ \E side \in {"dialed", "accepted"} : Breaks(p, side)

Spec == Init /\ [][Next]_vars

\* Both tasks are scheduled, the timer of the redials ticks, and from some point
\* on a bootstrap that is dialled answers.
FairSpec ==
    /\ Spec
    /\ WF_vars(DriverSteps) /\ WF_vars(NodeSteps) /\ WF_vars(redial_missing_bootstraps)
    /\ \A p \in Peers : WF_vars(DialSucceeds(p))

-----------------------------------------------------------------------------
(***************************************************************************)
(* Properties.                                                             *)
(***************************************************************************)
\* The values of the variables; no channel holds more than its capacity.
TypeOK ==
    /\ links \in [Peers -> SUBSET {"dialed", "accepted"}] /\ dialing \subseteq Bootstraps
    /\ driver.peers \subseteq Peers /\ driver.outbound_bootstrap \subseteq Bootstraps
    /\ Len(events) <= EventCap /\ Len(cmds) <= CmdCap /\ Len(disco) <= DiscoCap
    /\ lagged \in BOOLEAN /\ node.phase \in {"starting", "subscribed", "running"}
    /\ node.peers_connected \subseteq Peers /\ node.sends \in 0..Max({1, MaxReplies})
    /\ Len(node.waiting) <= 1 /\ DOMAIN limiter \subseteq Peers /\ DOMAIN admitted = DOMAIN limiter
    /\ now \in 0..MaxTime /\ calls \in 0..MaxCalls
    /\ messages \in 0..MaxMessages /\ faults \in 0..MaxFaults

\* Once the loop has taken every discovery event, it thinks connected exactly
\* the peers that are, however connections come and go, in pairs or alone, and
\* also when the broadcast channel has dropped events.
PeersConverge ==
    (node.phase = "running" /\ disco = <<>> /\ ~lagged /\ Idle /\ swarm = <<>>)
        => /\ node.peers_connected = driver.peers
           /\ driver.peers = {p \in Peers : links[p] # {}}

\* Since it is known, a peer has never got more bytes, or more messages of a
\* kind, through in messages that have one of the kinds than the burst and the
\* rate allow, whatever was refused, refunded and refilled in between, and
\* whatever else it sent without a known tag, which is not metered.
AdmissionBounded ==
    \A p \in DOMAIN admitted :
        LET elapsed == now - admitted[p].since
        IN /\ admitted[p].bytes <= capacity(BytesRate) + elapsed * BytesRate
           /\ \A k \in Kinds :
                admitted[p].messages[k] <= capacity(KindRate[k]) + elapsed * KindRate[k]

\* The driver waits for the loop to take an event and the loop for the driver
\* to take a command; neither ever moves again.
WaitingOnEachOther ==
    /\ ~Idle /\ Head(driver.sends).to = "events" /\ Len(events) = EventCap
    /\ node.waiting # <<>> /\ Len(cmds) = CmdCap

\* A bootstrap whose connection broke is dialled until it is connected again,
\* and the consensus loop gets to know it, unless the two tasks have come to
\* wait for each other.
Reconnects ==
    \A p \in Bootstraps : <>[](p \in node.peers_connected \/ WaitingOnEachOther)
=============================================================================
