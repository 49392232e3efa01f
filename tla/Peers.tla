------------------------------- MODULE Peers --------------------------------
(***************************************************************************)
(* p2p.Node without its messages: Start with its two loops, the connection *)
(* to the bootstrap list, peer discovery, and the banner that bans the IP  *)
(* addresses of peers that use too much bandwidth.  cmd/mesh-bootstrap     *)
(* runs the same parts without the loops.                                  *)
(***************************************************************************)
EXTENDS Naturals, FiniteSets, Sequences

CONSTANTS
    Reach,              \* the connections that are possible: [peer, addr]
    BootstrapLists,     \* the lists a node may be given: sets of [peer, addr]
    Discoverable,       \* the peers found at each of the rendezvous points
    MayExceed, Greedy,  \* the peers above MaxBytesPerSecond sometimes, always
    NoIP,
    peerCountLow, peerCountHigh, violationsBeforeBan

Peer == {c.peer : c \in Reach}
Finder == {"initial", "ticker"}

ASSUME PeersAssumption ==
    /\ peerCountLow \in Nat /\ peerCountHigh \in Nat /\ violationsBeforeBan \in Nat \ {0}
    /\ Greedy \subseteq MayExceed /\ MayExceed \subseteq Peer
    /\ NoIP \notin Peer

VARIABLES
    role,          \* a Mesh node or a bootstrap node
    list,          \* BootstrapList
    start,         \* how far Node.Start, or the bootstrap node's main, is
    pending,       \* the bootstrap peers whose connection is being opened
    cancelled,     \* the context of the node
    handler,       \* startMessageHandler
    discovery,     \* startPeerDiscovery
    finder,        \* findNewPeers, at first and in the discovery loop
    conns,         \* the open connections
    violations,    \* violationsTracker: bandwidth violations of each peer
    check,         \* CheckBandwidthUsage
    denied,        \* the IP addresses that the filters deny
    protectedIPs   \* of the banner

bannerVars == <<violations, check, denied, protectedIPs>>
startVars == <<role, list, start, pending, cancelled>>
vars == <<startVars, handler, discovery, finder, conns, bannerVars>>

-----------------------------------------------------------------------------
\* A multiaddress is a sequence of components [protocol, value]; a relayed
\* connection has the address of the relay first.
ipFromMaddr(addr) ==
    LET zone == addr[1].protocol = "ip6zone" /\ Len(addr) > 1
        first == IF zone THEN addr[2] ELSE addr[1]
    IN  IF first.protocol \in {"ip4", "ip6"} THEN first.value ELSE NoIP

IPs(cs) == {ipFromMaddr(c.addr) : c \in cs} \ {NoIP}

\* ProtectIP, for every address of the bootstrap list.  One without an IP
\* address is passed over.
ProtectIPs(ips) ==
    /\ denied' = denied \ ips
    /\ protectedIPs' = protectedIPs \cup ips

\* Mutant: protected addresses are not looked up.
BanAnyIP(ip) ==
    denied' = IF ip = NoIP THEN denied ELSE denied \cup {ip}

\* BanIP: the check and the new filter are under protectedIPsMut.
BanIP(ip) ==
    denied' = IF ip = NoIP \/ ip \in protectedIPs THEN denied ELSE denied \cup {ip}

ConnsToPeer(p) == {c \in conns : c.peer = p}
Connected == {c.peer : c \in conns}

\* host.Connect: nothing is dialled twice, and no denied address.  (External:
\* libp2p.)  It fails once the context is cancelled.
Dialled(p) ==
    IF p \in Connected \/ cancelled THEN {conns}
    ELSE {conns} \cup {conns \cup {c} : c \in {c \in Reach : c.peer = p /\ ipFromMaddr(c.addr) \notin denied}}

\* Mutant: the loops look at the context of Start only, ...
OuterCancelled == cancelled

\* Mutant: ... or at the one that ends with Start only.
DetachedContext == start \in {"error", "nil"}

\* innerCtx, which ends when Start returns.
InnerCancelled == cancelled \/ start \in {"error", "nil"}

-----------------------------------------------------------------------------
\* CheckBandwidthUsage goes through the peers that were connected when it
\* began.
NoCheck == [todo |-> {}, peer |-> NoIP, conns |-> {}]

\* The count matters up to the limit only.
Counted(n) == IF n < violationsBeforeBan THEN n + 1 ELSE n

\* violationsTracker.add, and the connections to ban if there are too many.
\* The cache gives an entry back after violationsTTL too, and is larger than the
\* number of connected peers.
Violate(p) ==
    LET count == violations[p] + 1
    IN  /\ violations' = [violations EXCEPT ![p] = Counted(@)]
        /\ check' = IF count >= violationsBeforeBan
                    THEN [todo |-> check.todo \ {p}, peer |-> p, conns |-> ConnsToPeer(p)]
                    ELSE [check EXCEPT !.todo = @ \ {p}]

CheckPeer ==
    /\ handler = "checking" /\ check.peer = NoIP
    /\ \E p \in check.todo :
        \/ p \in MayExceed /\ Violate(p)
        \/ p \notin Greedy /\ check' = [check EXCEPT !.todo = @ \ {p}] /\ UNCHANGED violations
    /\ UNCHANGED <<startVars, handler, discovery, finder, conns, denied, protectedIPs>>

\* One connection of the peer after the other ...
BanConnection ==
    /\ handler = "checking" /\ check.peer # NoIP
    /\ \E c \in check.conns :
        /\ BanIP(ipFromMaddr(c.addr))
        /\ check' = [check EXCEPT !.conns = @ \ {c}]
    /\ UNCHANGED <<startVars, handler, discovery, finder, conns, violations, protectedIPs>>

\* Mutant: only the connections that were banned are closed.
CloseNothing ==
    /\ handler = "checking" /\ check.peer # NoIP /\ check.conns = {}
    /\ check' = [check EXCEPT !.peer = NoIP]
    /\ UNCHANGED <<startVars, handler, discovery, finder, conns, violations, denied, protectedIPs>>

\* ... and ClosePeer, which closes those that were opened meanwhile too.
ClosePeer ==
    /\ handler = "checking" /\ check.peer # NoIP /\ check.conns = {}
    /\ conns' = conns \ ConnsToPeer(check.peer)
    /\ check' = [check EXCEPT !.peer = NoIP]
    /\ UNCHANGED <<startVars, handler, discovery, finder, violations, denied, protectedIPs>>

EndCheck ==
    /\ handler = "checking" /\ check.peer = NoIP /\ check.todo = {}
    /\ handler' = IF InnerCancelled THEN "nil" ELSE "running"
    /\ UNCHANGED <<startVars, discovery, finder, conns, bannerVars>>

-----------------------------------------------------------------------------
\* Node.Start.
\* ConnectToBootstrapList, with a goroutine for each peer.
BadList ==
    /\ start = "connect" /\ \E c \in list : c.addr[1].protocol = "invalid"
    /\ start' = "error" /\ pending' = {}
    /\ UNCHANGED <<role, list, cancelled, handler, discovery, finder, conns, bannerVars>>

ConnectBootstrap ==
    /\ start = "connect" /\ \A c \in list : c.addr[1].protocol # "invalid"
    /\ \E p \in pending :
        /\ pending' = pending \ {p}
        /\ conns' \in Dialled(p)
    /\ UNCHANGED <<role, list, start, cancelled, handler, discovery, finder, bannerVars>>

\* Both protect the list when it is connected, ...
ProtectBootstrapList ==
    /\ start = "connect" /\ pending = {} /\ \A c \in list : c.addr[1].protocol # "invalid"
    /\ ProtectIPs(IPs(list))
    /\ start' = "running"
    /\ UNCHANGED <<role, list, pending, cancelled, conns, violations, check>>

\* ... and Node.Start begins its loops ...
StartLoops ==
    /\ role = "mesh" /\ ProtectBootstrapList
    /\ handler' = "running" /\ discovery' = "waiting"
    /\ finder' = [finder EXCEPT !["initial"].point = 1]

\* ... while the bootstrap node has none, and never checks the bandwidth.
StartBootstrapNode ==
    /\ role = "bootstrap" /\ ProtectBootstrapList
    /\ UNCHANGED <<handler, discovery, finder>>

\* startMessageHandler: a batch of messages, and sometimes a check.
HandleBatch ==
    /\ handler = "running"
    /\ \/ InnerCancelled /\ handler' = "nil" /\ UNCHANGED check
       \/ handler' = "error" /\ UNCHANGED check
       \/ handler' = "checking" /\ check' = [NoCheck EXCEPT !.todo = Connected]
    /\ UNCHANGED <<startVars, discovery, finder, conns, violations, denied, protectedIPs>>

\* startPeerDiscovery.  When the ticker has fired and the context is done, the
\* select takes either.
DiscoveryTick ==
    /\ discovery = "waiting"
    /\ discovery' = "finding"
    /\ finder' = [finder EXCEPT !["ticker"].point = 1]
    /\ UNCHANGED <<startVars, handler, conns, bannerVars>>

DiscoveryDone ==
    /\ discovery = "waiting" /\ InnerCancelled
    /\ discovery' = "nil"
    /\ UNCHANGED <<startVars, handler, finder, conns, bannerVars>>

\* findNewPeers goes on after a rendezvous point, or ends.  Only the loop passes
\* its error on.
Found(f, error) ==
    /\ finder' = [finder EXCEPT ![f] = [point |-> 0, found |-> {}]]
    /\ discovery' = IF f = "initial" THEN discovery ELSE IF error THEN "error" ELSE "waiting"

Continue(f, found) ==
    IF found = {} /\ finder[f].point = Len(Discoverable)
    THEN Found(f, FALSE)
    ELSE /\ finder' = [finder EXCEPT ![f] =
                [point |-> IF found = {} THEN @.point + 1 ELSE @.point, found |-> found]]
         /\ UNCHANGED discovery

\* A rendezvous point: as many peers as are missing, or an error.
FindPeers(f) ==
    /\ finder[f].point > 0 /\ finder[f].found = {}
    /\ \/ Cardinality(conns) >= peerCountLow /\ Found(f, FALSE)
       \/ Cardinality(conns) < peerCountLow /\ Found(f, TRUE)
       \/ /\ Cardinality(conns) < peerCountLow
          /\ \E found \in SUBSET Discoverable[finder[f].point] :
                /\ Cardinality(found) <= peerCountLow - Cardinality(conns)
                /\ Continue(f, found)
    /\ UNCHANGED <<startVars, handler, conns, bannerVars>>

\* The peers that were found are dialled one after the other.
DialFound(f) ==
    /\ \E p \in finder[f].found :
        /\ conns' \in Dialled(p)
        /\ Continue(f, finder[f].found \ {p})
    /\ UNCHANGED <<startVars, handler, bannerVars>>

FinderStep(f) == FindPeers(f) \/ DialFound(f)

Ended(loop) == loop \in {"nil", "error"}

\* Start waits for the first loop to end, and after one without an error for
\* the other one, whose error it does not look at.
StartReturns ==
    /\ role = "mesh"
    /\ \/ start = "running" /\ (handler = "error" \/ discovery = "error") /\ start' = "error"
       \/ start = "running" /\ (handler = "nil" \/ discovery = "nil") /\ start' = "waiting"
       \/ start = "waiting" /\ Ended(handler) /\ Ended(discovery) /\ start' = "nil"
    /\ UNCHANGED <<role, list, pending, cancelled, handler, discovery, finder, conns, bannerVars>>

-----------------------------------------------------------------------------
\* The context of the node is cancelled, and the host closes (New).
Cancel ==
    /\ role = "mesh" /\ ~cancelled
    /\ cancelled' = TRUE
    /\ UNCHANGED <<role, list, start, pending, handler, discovery, finder, conns, bannerVars>>

CloseHost ==
    /\ cancelled /\ conns # {}
    /\ conns' = {}
    /\ UNCHANGED <<startVars, handler, discovery, finder, bannerVars>>

\* External: a peer connects, at an address that is not denied; one disconnects
\* or is trimmed by the connection manager, which keeps peerCountHigh at most.
Accept ==
    /\ ~cancelled
    /\ \E c \in Reach \ conns :
        /\ ipFromMaddr(c.addr) \notin denied
        /\ Cardinality(conns) < peerCountHigh
        /\ conns' = conns \cup {c}
    /\ UNCHANGED <<startVars, handler, discovery, finder, bannerVars>>

Disconnect ==
    /\ ~cancelled
    /\ \E c \in conns : c.peer \notin Greedy /\ conns' = conns \ {c}
    /\ UNCHANGED <<startVars, handler, discovery, finder, bannerVars>>

\* New, and the same for the bootstrap node; {} when UseBootstrapList is false.
NewNode == role = "mesh" /\ list \in BootstrapLists
NewBootstrapNode == role = "bootstrap" /\ list \in BootstrapLists

Init ==
    /\ NewNode \/ NewBootstrapNode
    /\ start = "connect" /\ pending = {c.peer : c \in list} /\ cancelled = FALSE
    /\ handler = "none" /\ discovery = "none"
    /\ finder = [f \in Finder |-> [point |-> 0, found |-> {}]]
    /\ conns = {} /\ violations = [p \in Peer |-> 0] /\ check = NoCheck
    /\ denied = {} /\ protectedIPs = {}

StartStep == BadList \/ ConnectBootstrap \/ StartLoops \/ StartBootstrapNode \/ StartReturns
HandlerStep == HandleBatch \/ CheckPeer \/ BanConnection \/ ClosePeer \/ EndCheck

Next ==
    \/ StartStep \/ HandlerStep \/ DiscoveryTick \/ DiscoveryDone
    \/ \E f \in Finder : FinderStep(f)
    \/ Cancel \/ CloseHost \/ Accept \/ Disconnect

Spec == Init /\ [][Next]_vars

\* Every goroutine runs, and network requests end by their timeouts.  The
\* bandwidth is checked after a batch with a probability of a tenth, so it is
\* checked again and again; a select with two ready cases takes one at random,
\* so it does not always pass over the same one.
FairSpec ==
    /\ Spec
    /\ WF_vars(StartStep) /\ WF_vars(HandlerStep)
    /\ WF_vars(FinderStep("initial")) /\ WF_vars(FinderStep("ticker"))
    /\ SF_vars(DiscoveryDone)

-----------------------------------------------------------------------------
(***************************************************************************)
(* No IP address of the bootstrap list is denied once Start runs its loops,*)
(* however many violations are counted against the peers behind it, those  *)
(* that it relays included ("Protected IPs can never be banned").          *)
(***************************************************************************)
ProtectedNotDenied ==
    /\ denied \cap protectedIPs = {}
    /\ start = "running" => denied \cap IPs(list) = {}

(***************************************************************************)
(* An IP address is denied only when a peer that can be reached there has  *)
(* violated the bandwidth limit violationsBeforeBan times.                 *)
(***************************************************************************)
DeniedForViolations ==
    \A ip \in denied : \E c \in Reach :
        ipFromMaddr(c.addr) = ip /\ violations[c.peer] = violationsBeforeBan

StartOfNode == INSTANCE Runner WITH
    state <- IF start \in {"error", "nil"} THEN start ELSE "blocked"

(***************************************************************************)
(* Node.Start implements the contract of Start methods: it returns nil only*)
(* after the context was cancelled, and returns after a cancellation,      *)
(* whatever its two loops are doing.                                       *)
(***************************************************************************)
NodeImplementsRunner == StartOfNode!RunnerSpec

\* Node.Start returns nil only when both of its loops have ended.
NilAfterLoops == start = "nil" => Ended(handler) /\ Ended(discovery)

\* No loop is running any more when Start has returned nil; and when it has
\* returned an error, or is to return, its loops end.
LoopsEnd ==
    /\ []NilAfterLoops
    /\ [](role = "mesh" /\ (cancelled \/ start = "error") =>
            <>[](\A loop \in {handler, discovery} : loop = "none" \/ Ended(loop)))

(***************************************************************************)
(* A peer that is always above the bandwidth limit does not stay connected *)
(* for ever while the loops run, whichever addresses it connects from.     *)
(***************************************************************************)
GreedyIsDisconnected ==
    \A p \in Greedy : []<>(p \notin Connected \/ role = "bootstrap" \/ start # "running")
=============================================================================
