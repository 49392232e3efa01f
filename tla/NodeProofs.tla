----------------------------- MODULE NodeProofs ------------------------------
(***************************************************************************)
(* What the banner guarantees for every set of peers, every bootstrap list *)
(* and every limit, what the two Start methods do that run a Mesh process, *)
(* p2p.Node.Start and core.App.Start, and what the limiter of its Ethereum *)
(* RPC requests and the order validator that waits for it keep to.         *)
(***************************************************************************)
EXTENDS Peers, RateLimiter, FiniteSetTheorems, TLAPS

\* The peer that is being banned has reached the limit, and the addresses that
\* are still to be banned are its own.
BannerInv ==
    /\ conns \subseteq Reach
    /\ violations \in [Peer -> 0..violationsBeforeBan]
    /\ check \in [todo : SUBSET Peer, peer : Peer \cup {NoIP}, conns : SUBSET Reach]
    /\ check.peer # NoIP => violations[check.peer] = violationsBeforeBan
    /\ check.peer # NoIP => \A c \in check.conns : c.peer = check.peer
    /\ denied \cap protectedIPs = {}
    /\ start = "running" => IPs(list) \subseteq protectedIPs
    /\ DeniedForViolations

\* The counter stays in its range, and one that has reached the limit stays there.
LEMMA CountedRange ==
    ASSUME NEW n \in 0..violationsBeforeBan
    PROVE  /\ Counted(n) \in 0..violationsBeforeBan
           /\ n = violationsBeforeBan => Counted(n) = n
           /\ n + 1 >= violationsBeforeBan => Counted(n) = violationsBeforeBan
  BY PeersAssumption DEF Counted

\* What host.Connect opens are possible connections.
LEMMA DialledReach ==
    ASSUME NEW p, conns \subseteq Reach, NEW cs \in Dialled(p)
    PROVE  cs \subseteq Reach
  BY DEF Dialled

\* Nothing is denied at the start.
LEMMA BannerInit == Init => BannerInv
  <1> SUFFICES ASSUME Init PROVE BannerInv
    OBVIOUS
  <1>1. violations \in [Peer -> 0..violationsBeforeBan]
    BY PeersAssumption DEF Init
  <1> QED
    BY <1>1 DEF Init, BannerInv, DeniedForViolations, NoCheck, ConnsToPeer

\* A step that changes nothing of the banner.
LEMMA BannerUntouched ==
    ASSUME BannerInv, UNCHANGED bannerVars, UNCHANGED list, conns' \subseteq Reach,
           start' = "running" => start = "running"
    PROVE  BannerInv'
  BY DEF BannerInv, bannerVars, DeniedForViolations, IPs

\* A violation is counted, and a peer that reaches the limit is to be banned.
LEMMA ViolateKeeps ==
    ASSUME BannerInv, CheckPeer
    PROVE  BannerInv'
  <1>1. PICK p \in check.todo :
            \/ Violate(p)
            \/ check' = [check EXCEPT !.todo = @ \ {p}] /\ UNCHANGED violations
    BY DEF CheckPeer
  <1>2. /\ conns' = conns /\ denied' = denied /\ protectedIPs' = protectedIPs
        /\ start' = start /\ list' = list /\ check.peer = NoIP /\ p \in Peer
    BY DEF CheckPeer, startVars, BannerInv
  <1>3. CASE Violate(p)
    <2> DEFINE n == violations[p]
    <2>1. n \in 0..violationsBeforeBan
      BY <1>2 DEF BannerInv
    <2>2. violations' = [violations EXCEPT ![p] = Counted(n)]
      BY <1>3, <1>2 DEF Violate, BannerInv
    <2>3. violations' \in [Peer -> 0..violationsBeforeBan]
      BY <2>1, <2>2, CountedRange DEF BannerInv
    <2>4. \A q \in Peer : violations[q] = violationsBeforeBan => violations'[q] = violationsBeforeBan
      BY <2>1, <2>2, CountedRange DEF BannerInv
    <2>5. DeniedForViolations'
      BY <2>4, <1>2 DEF BannerInv, DeniedForViolations, Peer
    <2>6. /\ check' \in [todo : SUBSET Peer, peer : Peer \cup {NoIP}, conns : SUBSET Reach]
          /\ check'.peer # NoIP => violations'[check'.peer] = violationsBeforeBan
          /\ check'.peer # NoIP => \A c \in check'.conns : c.peer = check'.peer
      <3>1. CASE n + 1 >= violationsBeforeBan
        <4>1. check' = [todo |-> check.todo \ {p}, peer |-> p, conns |-> ConnsToPeer(p)]
          BY <1>3, <3>1 DEF Violate
        <4>2. violations'[p] = violationsBeforeBan
          BY <2>1, <2>2, <3>1, CountedRange, <1>2 DEF BannerInv
        <4> QED
          BY <4>1, <4>2, <1>2 DEF BannerInv, ConnsToPeer
      <3>2. CASE ~(n + 1 >= violationsBeforeBan)
        <4>1. check' = [check EXCEPT !.todo = @ \ {p}]
          BY <1>3, <3>2 DEF Violate
        <4> QED
          BY <4>1, <1>2 DEF BannerInv
      <3> QED
        BY <3>1, <3>2
    <2> QED
      BY <2>3, <2>5, <2>6, <1>2 DEF BannerInv, IPs
  <1>4. CASE check' = [check EXCEPT !.todo = @ \ {p}] /\ UNCHANGED violations
    BY <1>4, <1>2 DEF BannerInv, DeniedForViolations, IPs
  <1> QED
    BY <1>1, <1>3, <1>4

\* An address of the peer is denied, unless it is protected.
LEMMA BanKeeps ==
    ASSUME BannerInv, BanConnection
    PROVE  BannerInv'
  <1>1. PICK c \in check.conns :
            BanIP(ipFromMaddr(c.addr)) /\ check' = [check EXCEPT !.conns = @ \ {c}]
    BY Zenon DEF BanConnection
  <1>2. /\ conns' = conns /\ violations' = violations /\ protectedIPs' = protectedIPs
        /\ start' = start /\ list' = list /\ check.peer # NoIP
    BY DEF BanConnection, startVars
  <1>3. /\ check' \in [todo : SUBSET Peer, peer : Peer \cup {NoIP}, conns : SUBSET Reach]
        /\ check'.peer = check.peer /\ check'.conns \subseteq check.conns
    BY <1>1 DEF BannerInv
  <1>4. denied' \cap protectedIPs = {}
    BY <1>1 DEF BannerInv, BanIP
  <1>5. c \in Reach /\ violations[c.peer] = violationsBeforeBan
    BY <1>1, <1>2 DEF BannerInv
  <1>6. DeniedForViolations'
    BY <1>1, <1>2, <1>5 DEF BannerInv, DeniedForViolations, BanIP
  <1> QED
    BY <1>2, <1>3, <1>4, <1>6 DEF BannerInv, IPs

\* Every step keeps the invariant.
LEMMA BannerStep == BannerInv /\ [Next]_vars => BannerInv'
  <1> SUFFICES ASSUME BannerInv, [Next]_vars PROVE BannerInv'
    OBVIOUS
  <1>1. CASE StartStep
    <2>1. CASE BadList
      BY <2>1, BannerUntouched DEF BadList, BannerInv
    <2>2. CASE ConnectBootstrap
      BY <2>2, BannerUntouched, DialledReach DEF ConnectBootstrap, BannerInv
    <2>3. CASE StartLoops \/ StartBootstrapNode
      <3>1. /\ conns' = conns /\ violations' = violations /\ check' = check /\ list' = list
            /\ denied' = denied \ IPs(list) /\ protectedIPs' = protectedIPs \cup IPs(list)
        BY <2>3 DEF StartLoops, StartBootstrapNode, ProtectBootstrapList, ProtectIPs
      <3> QED
        BY <3>1 DEF BannerInv, DeniedForViolations, IPs
    <2>4. CASE StartReturns
      BY <2>4, BannerUntouched DEF StartReturns, BannerInv
    <2> QED
      BY <1>1, <2>1, <2>2, <2>3, <2>4 DEF StartStep
  <1>2. CASE HandlerStep
    <2>1. CASE HandleBatch
      <3>1. /\ conns' = conns /\ violations' = violations /\ denied' = denied
            /\ protectedIPs' = protectedIPs /\ list' = list /\ start' = start
            /\ check' = check \/ check' = [NoCheck EXCEPT !.todo = Connected]
        BY <2>1 DEF HandleBatch, startVars
      <3>2. Connected \subseteq Peer
        BY DEF Connected, Peer, BannerInv
      <3> QED
        BY <3>1, <3>2 DEF BannerInv, DeniedForViolations, IPs, NoCheck
    <2>2. CASE CheckPeer
      BY <2>2, ViolateKeeps
    <2>3. CASE BanConnection
      BY <2>3, BanKeeps
    <2>4. CASE ClosePeer
      <3>1. /\ conns' \subseteq conns /\ violations' = violations /\ denied' = denied
            /\ protectedIPs' = protectedIPs /\ list' = list /\ start' = start
            /\ check' = [check EXCEPT !.peer = NoIP]
        BY <2>4 DEF ClosePeer, startVars
      <3> QED
        BY <3>1 DEF BannerInv, DeniedForViolations, IPs
    <2>5. CASE EndCheck
      BY <2>5, BannerUntouched DEF EndCheck, startVars, BannerInv
    <2> QED
      BY <1>2, <2>1, <2>2, <2>3, <2>4, <2>5 DEF HandlerStep
  <1>3. CASE DiscoveryTick \/ DiscoveryDone
    BY <1>3, BannerUntouched DEF DiscoveryTick, DiscoveryDone, startVars, BannerInv
  <1>4. ASSUME NEW f \in Finder, FinderStep(f) PROVE BannerInv'
    BY <1>4, BannerUntouched, DialledReach, Zenon DEF FinderStep, FindPeers, DialFound, startVars, BannerInv
  <1>5. CASE Cancel \/ CloseHost \/ Accept \/ Disconnect
    BY <1>5, BannerUntouched DEF Cancel, CloseHost, Accept, Disconnect, startVars, BannerInv
  <1>6. CASE UNCHANGED vars
    BY <1>6, BannerUntouched DEF vars, startVars, BannerInv
  <1> QED
    BY <1>1, <1>2, <1>3, <1>4, <1>5, <1>6 DEF Next

(***************************************************************************)
(* CheckBandwidthUsage never denies a protected address, those of the      *)
(* bootstrap list stay open while the loops run, and every denied address  *)
(* is one of a peer that has reached violationsBeforeBan.                  *)
(***************************************************************************)
THEOREM BannerIsCorrect == Spec => [](ProtectedNotDenied /\ DeniedForViolations)
  <1>1. BannerInv => ProtectedNotDenied /\ DeniedForViolations
    BY DEF BannerInv, ProtectedNotDenied
  <1> QED
    BY <1>1, BannerInit, BannerStep, PTL DEF Spec

-----------------------------------------------------------------------------
\* A loop that has ended without an error was told to, and before Start returns only
\* the cancellation tells it.  A search for peers is under way in the discovery loop
\* only while that loop says so.
StartInv ==
    /\ handler = "nil" \/ discovery = "nil" \/ start \in {"waiting", "nil"} => cancelled \/ start = "error"
    /\ start = "connect" => discovery = "none"
    /\ DOMAIN finder = Finder
    /\ finder["ticker"].point > 0 \/ finder["ticker"].found # {} => discovery = "finding"
    /\ NilAfterLoops

\* A search goes on, or ends; in the loop, only its end moves the loop on.
LEMMA SearchSteps ==
    ASSUME StartInv, NEW f \in Finder, FinderStep(f)
    PROVE  /\ DOMAIN finder' = Finder
           /\ \/ /\ f = "initial" /\ discovery' = discovery /\ finder'["ticker"] = finder["ticker"]
              \/ /\ f = "ticker" /\ discovery = "finding" /\ discovery' = "finding"
              \/ /\ f = "ticker" /\ discovery = "finding" /\ discovery' \in {"waiting", "error"}
                 /\ finder'["ticker"] = [point |-> 0, found |-> {}]
  <1>1. PICK r : finder' = [finder EXCEPT ![f] = r]
    BY DEF FinderStep, FindPeers, DialFound, Continue, Found
  <1>2. DOMAIN finder = Finder
    BY DEF StartInv
  <1>3. finder[f].point > 0 \/ finder[f].found # {}
    BY Zenon DEF FinderStep, FindPeers, DialFound
  <1>4. discovery' = discovery \/ \E error : Found(f, error)
    BY Zenon DEF FinderStep, FindPeers, DialFound, Continue
  <1>5. CASE f = "initial"
    <2>1. discovery' = discovery
      BY <1>4, <1>5 DEF Found
    <2> QED
      BY <1>1, <1>2, <1>5, <2>1 DEF Finder
  <1>6. CASE f = "ticker"
    <2>1. discovery = "finding"
      BY <1>3, <1>6 DEF StartInv
    <2>2. ASSUME NEW error, Found(f, error)
          PROVE  discovery' \in {"waiting", "error"} /\ finder'["ticker"] = [point |-> 0, found |-> {}]
      BY <1>2, <1>6, <2>2 DEF Found, Finder
    <2> QED
      BY <1>1, <1>2, <1>4, <1>6, <2>1, <2>2
  <1> QED
    BY <1>5, <1>6 DEF Finder

\* Every step keeps the invariant.
LEMMA StartInvStep == StartInv /\ [Next]_vars => StartInv'
  <1> SUFFICES ASSUME StartInv, [Next]_vars PROVE StartInv'
    OBVIOUS
  <1>1. CASE StartStep
    <2>1. CASE BadList
      BY <2>1 DEF BadList, StartInv, NilAfterLoops
    <2>2. CASE ConnectBootstrap
      BY <2>2, Zenon DEF ConnectBootstrap, StartInv, NilAfterLoops
    <2>3. CASE StartLoops
      <3>1. /\ start = "connect" /\ start' = "running" /\ cancelled' = cancelled
            /\ handler' = "running" /\ discovery' = "waiting"
            /\ finder' = [finder EXCEPT !["initial"].point = 1]
        BY <2>3 DEF StartLoops, ProtectBootstrapList
      <3>2. DOMAIN finder = Finder /\ discovery = "none"
        BY <3>1 DEF StartInv
      <3>3. DOMAIN finder' = Finder /\ finder'["ticker"] = finder["ticker"]
        BY <3>1, <3>2 DEF Finder
      <3> QED
        BY <3>1, <3>2, <3>3 DEF StartInv, NilAfterLoops
    <2>4. CASE StartBootstrapNode
      BY <2>4 DEF StartBootstrapNode, ProtectBootstrapList, StartInv, NilAfterLoops
    <2>5. CASE StartReturns
      <3>1. /\ cancelled' = cancelled /\ handler' = handler /\ discovery' = discovery /\ finder' = finder
            /\ \/ start = "running" /\ start' = "error"
               \/ start = "running" /\ (handler = "nil" \/ discovery = "nil") /\ start' = "waiting"
               \/ start = "waiting" /\ Ended(handler) /\ Ended(discovery) /\ start' = "nil"
        BY <2>5, Zenon DEF StartReturns
      <3> QED
        BY <3>1 DEF StartInv, NilAfterLoops, Ended
    <2> QED
      BY <1>1, <2>1, <2>2, <2>3, <2>4, <2>5 DEF StartStep
  <1>2. CASE HandlerStep
    <2>1. /\ start' = start /\ cancelled' = cancelled /\ discovery' = discovery /\ finder' = finder
          /\ ~Ended(handler) \/ handler' = handler
          /\ handler' = "nil" => handler = "nil" \/ InnerCancelled
      BY <1>2, Zenon DEF HandlerStep, HandleBatch, CheckPeer, BanConnection, ClosePeer, EndCheck, startVars,
                         Ended
    <2> QED
      BY <2>1 DEF StartInv, NilAfterLoops, InnerCancelled, Ended
  <1>3. CASE DiscoveryTick
    <2>1. /\ start' = start /\ cancelled' = cancelled /\ handler' = handler
          /\ discovery = "waiting" /\ discovery' = "finding"
          /\ finder' = [finder EXCEPT !["ticker"].point = 1]
      BY <1>3 DEF DiscoveryTick, startVars
    <2> QED
      BY <2>1 DEF StartInv, NilAfterLoops, Ended
  <1>4. CASE DiscoveryDone
    <2>1. /\ start' = start /\ cancelled' = cancelled /\ handler' = handler /\ finder' = finder
          /\ discovery = "waiting" /\ discovery' = "nil" /\ InnerCancelled
      BY <1>4 DEF DiscoveryDone, startVars
    <2> QED
      BY <2>1 DEF StartInv, NilAfterLoops, Ended, InnerCancelled
  <1>5. ASSUME NEW f \in Finder, FinderStep(f) PROVE StartInv'
    <2>1. start' = start /\ cancelled' = cancelled /\ handler' = handler
      BY <1>5, Zenon DEF FinderStep, FindPeers, DialFound, startVars
    <2>2. CASE f = "initial" /\ discovery' = discovery /\ finder'["ticker"] = finder["ticker"]
      BY <1>5, <2>1, <2>2, SearchSteps DEF StartInv, NilAfterLoops
    <2>3. CASE discovery = "finding" /\ discovery' = "finding"
      BY <1>5, <2>1, <2>3, SearchSteps DEF StartInv, NilAfterLoops
    <2>4. CASE /\ discovery = "finding" /\ discovery' \in {"waiting", "error"}
               /\ finder'["ticker"] = [point |-> 0, found |-> {}]
      BY <1>5, <2>1, <2>4, SearchSteps DEF StartInv, NilAfterLoops, Ended
    <2> QED
      BY <1>5, <2>2, <2>3, <2>4, SearchSteps
  <1>6. CASE Cancel
    BY <1>6 DEF Cancel, StartInv, NilAfterLoops
  <1>7. CASE CloseHost \/ Accept \/ Disconnect \/ UNCHANGED vars
    <2>1. /\ start' = start /\ cancelled' = cancelled /\ handler' = handler
          /\ discovery' = discovery /\ finder' = finder
      BY <1>7, Zenon DEF CloseHost, Accept, Disconnect, vars, startVars
    <2> QED
      BY <2>1 DEF StartInv, NilAfterLoops
  <1> QED
    BY <1>1, <1>2, <1>3, <1>4, <1>5, <1>6, <1>7 DEF Next

\* What a step does to the context and to Start, seen from outside.
LEMMA RunnerStep ==
    ASSUME StartInv, [Next]_vars
    PROVE  [StartOfNode!RunnerNext]_(StartOfNode!runnerVars)
  <1>1. CASE start' = start /\ cancelled' = cancelled
    BY <1>1 DEF StartOfNode!runnerVars
  <1>2. CASE StartStep
    <2>1. cancelled' = cancelled
      BY <1>2, Zenon DEF StartStep, BadList, ConnectBootstrap, StartLoops, StartBootstrapNode,
                         ProtectBootstrapList, StartReturns
    <2>2. \/ start' = start
          \/ start = "connect" /\ start' \in {"running", "error"}
          \/ start = "running" /\ start' \in {"waiting", "error"}
          \/ start = "waiting" /\ start' = "nil"
      BY <1>2 DEF StartStep, BadList, ConnectBootstrap, StartLoops, StartBootstrapNode, ProtectBootstrapList,
                  StartReturns
    <2>3. start = "waiting" => cancelled
      BY DEF StartInv
    <2> QED
      BY <2>1, <2>2, <2>3 DEF StartOfNode!RunnerNext, StartOfNode!ReturnNil, StartOfNode!ReturnError,
                              StartOfNode!runnerVars
  <1>3. CASE Cancel
    BY <1>3 DEF Cancel, StartOfNode!RunnerNext, StartOfNode!CancelContext
  <1>4. CASE HandlerStep \/ DiscoveryTick \/ DiscoveryDone \/ CloseHost \/ Accept \/ Disconnect \/ UNCHANGED vars
    BY <1>1, <1>4, Zenon DEF HandlerStep, HandleBatch, CheckPeer, BanConnection, ClosePeer, EndCheck,
          DiscoveryTick, DiscoveryDone, CloseHost, Accept, Disconnect, vars, startVars
  <1>5. ASSUME NEW f \in Finder, FinderStep(f) PROVE start' = start /\ cancelled' = cancelled
    BY <1>5, Zenon DEF FinderStep, FindPeers, DialFound, startVars
  <1> QED
    BY <1>1, <1>2, <1>3, <1>4, <1>5 DEF Next

(***************************************************************************)
(* Node.Start implements the steps of a Start method, whatever the peers,  *)
(* the rendezvous points and the limits are: it returns nil only after the *)
(* context was cancelled, and only when both of its loops have ended.      *)
(***************************************************************************)
THEOREM NodeStartsAsPromised == Spec => StartOfNode!RunnerSteps /\ []NilAfterLoops
  <1>1. Init => StartInv
    BY DEF Init, StartInv, NilAfterLoops, Finder
  <1>2. Init => StartOfNode!RunnerInit
    BY DEF Init, StartOfNode!RunnerInit
  <1>3. StartInv => NilAfterLoops
    BY DEF StartInv
  <1>4. StartInv /\ [Next]_vars => [StartOfNode!RunnerNext]_(StartOfNode!runnerVars)
    BY RunnerStep
  <1> QED
    BY <1>1, <1>2, <1>3, <1>4, StartInvStep, PTL DEF Spec, StartOfNode!RunnerSteps

-----------------------------------------------------------------------------
(* The process that the node is a part of: its start, failures, end and    *)
(* the next start, for every configuration, every number of RPC servers    *)
(* and of starts.                                                          *)

CONSTANTS Chain, Mainnet, StandardChain, Custom, None, Server, MaxRuns
VARIABLES keyFile, chainInDB, runs, config, rpcChain, main, ctx, servers,
          phase, running, errors, node, started, dbOpen, call

App == INSTANCE App

\* The goroutine that watches for new addresses, and its like, end with the context
\* only, so not all of them have ended before the context is cancelled.  The context
\* is main's, which cancels it once, when an error has come.  The database is opened
\* after the chain ID has been compared, and the API is open when the node is set.
ProcessInv ==
    /\ main \in {"down", "key", "write", "metadata", "fatal", "new", "start"} => phase = "off" /\ ~ctx
    /\ main = "select" => ~ctx
    /\ ctx \in BOOLEAN
    /\ phase \notin {"off", "nil", "error"} => "quiet" \in running \/ ctx
    /\ main \in {"new", "start", "select", "waiting"} => chainInDB = config
    /\ dbOpen => main \in {"start", "select", "waiting"}
    /\ phase = "running" \/ phase = "signal" => node
    /\ started => node
    /\ call = "executing" => started

\* A process begins with nothing running.
LEMMA ProcessInit == App!Init => ProcessInv
  BY Zenon DEF App!Init, ProcessInv

\* It leaves nothing but its files.
LEMMA EndedKeeps ==
    ASSUME App!Ended
    PROVE  ProcessInv'
  BY Zenon DEF App!Ended, ProcessInv

\* The steps of New and of main.
LEMMA MainKeeps ==
    ASSUME ProcessInv, App!Launch \/ App!MainStep
    PROVE  ProcessInv'
  <1>1. CASE App!Launch
    BY <1>1 DEF App!Launch, ProcessInv, App!startVars, App!diskVars
  <1>2. CASE App!initPrivateKey \/ App!GenerateAndSavePrivateKey
    BY <1>2 DEF App!initPrivateKey, App!GenerateAndSavePrivateKey, ProcessInv, App!startVars, App!processVars
  <1>3. CASE App!initMetadata
    BY <1>3 DEF App!initMetadata, ProcessInv, App!startVars, App!processVars
  <1>4. CASE App!newWithPrivateConfig
    BY <1>4 DEF App!newWithPrivateConfig, ProcessInv, App!diskVars, App!processVars
  <1>5. CASE App!Fatal \/ App!Exit
    BY <1>5, EndedKeeps DEF App!Fatal, App!Exit
  <1>6. CASE App!Start
    BY <1>6 DEF App!Start, ProcessInv, App!diskVars, App!processVars
  <1>7. CASE App!MainError
    BY <1>7 DEF App!MainError, ProcessInv, App!startVars, App!diskVars, App!processVars
  <1> QED
    BY <1>1, <1>2, <1>3, <1>4, <1>5, <1>6, <1>7 DEF App!MainStep

\* The steps of App.Start.
LEMMA StartKeeps ==
    ASSUME ProcessInv, App!StartStep
    PROVE  ProcessInv'
  <1>0. /\ main' = main /\ ctx' = ctx /\ chainInDB' = chainInDB /\ config' = config
        /\ dbOpen' = dbOpen /\ call' = call
    BY Zenon DEF App!StartStep, App!SetupFails, App!FastSync, App!IsCaughtUp, App!WaitForBlock, App!Cleanup,
                 App!StartNode, App!Signal, App!Select,
                 App!StepVars, App!diskVars, App!processVars
  <1>1. /\ phase # "off" /\ phase' # "off"
        /\ phase \notin {"nil", "error"}
        /\ running \subseteq running'
        /\ node => node'
        /\ phase' \in {"running", "signal"} => node' \/ phase \in {"running", "signal"}
        /\ started' => started \/ phase \in {"running", "signal"}
        /\ started => started'
    BY DEF App!StartStep, App!SetupFails, App!FastSync, App!IsCaughtUp, App!WaitForBlock, App!Cleanup,
           App!StartNode, App!Signal, App!Select, App!StepVars
  <1> QED
    BY <1>0, <1>1 DEF ProcessInv

\* The goroutines of Start.
LEMMA GoroutineKeeps ==
    ASSUME ProcessInv, NEW g, App!Fail(g) \/ App!Finish(g)
    PROVE  ProcessInv'
  <1>0. /\ main' = main /\ ctx' = ctx /\ chainInDB' = chainInDB /\ config' = config
        /\ phase' = phase /\ node' = node /\ started' = started /\ call' = call
    BY DEF App!Fail, App!Finish, App!GoroutineVars, App!diskVars, App!processVars
  <1>1. dbOpen' => dbOpen
    <2>1. CASE dbOpen' = dbOpen
      BY <2>1
    <2>2. CASE dbOpen' = (dbOpen /\ g # "db")
      BY <2>2, Zenon
    <2> QED
      BY <2>1, <2>2, Zenon DEF App!Fail, App!Finish
  <1>2. /\ running' = running \ {g}
        /\ g = "quiet" => ctx \/ phase \in {"nil", "error"}
    BY DEF App!Fail, App!Finish, App!Reporting, App!InnerDone, App!Returned
  <1> QED
    BY <1>0, <1>1, <1>2 DEF ProcessInv

\* Every step keeps the invariant.
LEMMA ProcessStep == ProcessInv /\ [App!Next]_(App!vars) => ProcessInv'
  <1> SUFFICES ASSUME ProcessInv, [App!Next]_(App!vars) PROVE ProcessInv'
    OBVIOUS
  <1>1. CASE App!Crash
    BY <1>1, EndedKeeps DEF App!Crash
  <1>2. ASSUME NEW s \in Server, App!Listen(s) PROVE ProcessInv'
    <2>1. UNCHANGED <<App!diskVars, App!processVars, main, ctx, App!startVars, call>>
      BY <1>2, Zenon DEF App!Listen
    <2> QED
      BY <2>1 DEF ProcessInv, App!diskVars, App!processVars, App!startVars
  <1>3. CASE App!Call \/ App!Enter \/ App!Answer
    BY <1>3 DEF App!Call, App!Enter, App!Answer, ProcessInv, App!diskVars, App!processVars, App!startVars
  <1>4. CASE UNCHANGED App!vars
    BY <1>4 DEF ProcessInv, App!vars, App!diskVars, App!processVars, App!startVars
  <1> QED
    BY <1>1, <1>2, <1>3, <1>4, MainKeeps, StartKeeps, GoroutineKeeps DEF App!Next

\* What a step does to the context and to Start, seen from main.
LEMMA ProcessRunnerStep ==
    ASSUME ProcessInv, [App!Next]_(App!vars)
    PROVE  [App!StartOfApp!RunnerNext]_(App!StartOfApp!runnerVars)
  <1>0. CASE phase' = phase /\ ctx' = ctx
    BY <1>0 DEF App!StartOfApp!runnerVars, App!Returned
  <1>1. CASE App!Ended
    <2>1. ctx' = FALSE /\ phase' = "off"
      BY <1>1 DEF App!Ended
    <2> QED
      BY <2>1 DEF App!StartOfApp!RunnerNext, App!StartOfApp!StartAgain, App!Returned
  <1>2. CASE \/ App!Launch \/ App!initPrivateKey \/ App!GenerateAndSavePrivateKey
             \/ App!initMetadata \/ App!newWithPrivateConfig
    BY <1>0, <1>2, Zenon DEF App!Launch, App!initPrivateKey, App!GenerateAndSavePrivateKey, App!initMetadata,
                             App!newWithPrivateConfig, App!startVars
  <1>3. CASE App!Start
    <2>1. phase = "off" /\ phase' = "fastsync" /\ ctx' = ctx
      BY <1>3 DEF App!Start, ProcessInv
    <2> QED
      BY <2>1 DEF App!StartOfApp!runnerVars, App!Returned
  <1>4. CASE App!MainError
    <2>1. ~ctx /\ ctx' = TRUE /\ phase' = phase
      BY <1>4 DEF App!MainError, ProcessInv, App!startVars
    <2> QED
      BY <2>1 DEF App!StartOfApp!RunnerNext, App!StartOfApp!CancelContext, App!Returned
  <1>5. CASE App!StartStep
    <2>1. /\ ctx' = ctx /\ phase \notin {"nil", "error"}
          /\ phase' = "nil" => phase = "running" /\ running = {}
      BY <1>5 DEF App!StartStep, App!SetupFails, App!FastSync, App!IsCaughtUp, App!WaitForBlock, App!Cleanup,
                  App!StartNode, App!Signal, App!Select, App!StepVars
    <2>2. phase' = "nil" => ctx
      BY <2>1 DEF ProcessInv
    <2> QED
      BY <2>1, <2>2 DEF App!StartOfApp!RunnerNext, App!StartOfApp!ReturnNil, App!StartOfApp!ReturnError,
                        App!StartOfApp!runnerVars, App!Returned
  <1>6. ASSUME NEW g, App!Fail(g) \/ App!Finish(g) PROVE phase' = phase /\ ctx' = ctx
    BY <1>6 DEF App!Fail, App!Finish, App!GoroutineVars
  <1>7. ASSUME NEW s, App!Listen(s) PROVE phase' = phase /\ ctx' = ctx
    BY <1>7, Zenon DEF App!Listen, App!startVars
  <1>8. CASE App!Call \/ App!Enter \/ App!Answer \/ UNCHANGED App!vars
    BY <1>0, <1>8, Zenon DEF App!Call, App!Enter, App!Answer, App!vars, App!startVars
  <1>9. CASE App!Crash \/ App!Fatal \/ App!Exit
    BY <1>1, <1>9 DEF App!Crash, App!Fatal, App!Exit
  <1> QED
    BY <1>0, <1>2, <1>3, <1>4, <1>5, <1>6, <1>7, <1>8, <1>9 DEF App!Next, App!MainStep

(***************************************************************************)
(* core.App.Start implements the steps of a Start method, from one start   *)
(* of the process to the next and wherever it crashes: it returns nil only *)
(* after main has cancelled its context.                                   *)
(***************************************************************************)
THEOREM AppStartsAsPromised == App!Spec => App!StartOfApp!RunnerSteps
  <1>1. App!Init => App!StartOfApp!RunnerInit
    BY DEF App!Init, App!StartOfApp!RunnerInit, App!Returned
  <1>2. ProcessInv /\ [App!Next]_(App!vars) => [App!StartOfApp!RunnerNext]_(App!StartOfApp!runnerVars)
    BY ProcessRunnerStep
  <1> QED
    BY <1>1, <1>2, ProcessInit, ProcessStep, PTL DEF App!Spec, App!StartOfApp!RunnerSteps

(***************************************************************************)
(* However often the process is started, with whichever chain IDs, the     *)
(* database is used only by a process that is configured for its chain     *)
(* (initMetadata); and an API call that has passed its gate, the channel   *)
(* started, finds app.node set (GetStats, AddOrders, AddPeer).             *)
(***************************************************************************)
THEOREM ProcessIsSafe == App!Spec => [](App!ChainMatches /\ App!NodeIsSet)
  <1>1. ProcessInv => App!ChainMatches /\ App!NodeIsSet
    BY DEF ProcessInv, App!ChainMatches, App!NodeIsSet
  <1> QED
    BY <1>1, ProcessInit, ProcessStep, PTL DEF App!Spec

-----------------------------------------------------------------------------
(* The daily limit on Ethereum RPC requests, for any limit and any number  *)
(* of goroutines: first of the limiter on its own, then of the order       *)
(* validator that sends its requests through it.                           *)

\* The callers between the check and the increment can only have passed the
\* check, so each grant still to come is below the limit plus their number;
\* and a day that is counted is over before the reset that ends it.
LimiterInv ==
    /\ LimiterTypeOK
    /\ StoredIsBehind
    /\ checkpoint < resetAt
    /\ granted + Cardinality(waiting) < maxRequestsPer24Hrs + Cardinality(Caller)
    /\ waiting # {} => maxRequestsPer24Hrs > 0

\* The number of waiting callers, as they come and go.
LEMMA WaitingCount ==
    ASSUME NEW W \in SUBSET Caller, NEW c \in Caller
    PROVE  /\ Cardinality(W) \in Nat /\ Cardinality(Caller) \in Nat /\ Cardinality(Caller) > 0
           /\ Cardinality(W) <= Cardinality(Caller)
           /\ c \notin W => /\ Cardinality(W) < Cardinality(Caller)
                            /\ Cardinality(W \cup {c}) = Cardinality(W) + 1
           /\ c \in W => Cardinality(W \ {c}) = Cardinality(W) - 1
<1>1. IsFiniteSet(W) /\ Cardinality(W) <= Cardinality(Caller)
  BY FS_Subset, RateLimiterAssumption
<1>2. Cardinality(W) \in Nat /\ Cardinality(Caller) \in Nat
  BY <1>1, FS_CardinalityType, RateLimiterAssumption
<1>3. Cardinality(Caller) > 0
  BY <1>2, FS_EmptySet, RateLimiterAssumption
<1>4. c \notin W => Cardinality(W \cup {c}) = Cardinality(W) + 1
  BY <1>1, FS_AddElement
<1>5. c \notin W => Cardinality(W) < Cardinality(Caller)
  <2> SUFFICES ASSUME c \notin W PROVE Cardinality(W) < Cardinality(Caller)
    OBVIOUS
  <2>1. W \cup {c} \subseteq Caller
    OBVIOUS
  <2>2. Cardinality(W \cup {c}) <= Cardinality(Caller)
    BY <2>1, FS_Subset, RateLimiterAssumption
  <2> QED BY <2>2, <1>2, <1>4
<1>6. c \in W => Cardinality(W \ {c}) = Cardinality(W) - 1
  BY <1>1, FS_RemoveElement
<1> QED BY <1>1, <1>2, <1>3, <1>4, <1>5, <1>6

\* When no caller waits, none is counted.
LEMMA NobodyWaits == Cardinality({}) = 0
  BY FS_EmptySet

\* A new limiter has granted nothing.
LEMMA LimiterInitInv == LimiterInit => LimiterInv
<1> SUFFICES ASSUME LimiterInit PROVE LimiterInv
  OBVIOUS
<1>1. PICK c \in Caller : TRUE
  BY RateLimiterAssumption
<1>2. Cardinality(Caller) \in Nat /\ Cardinality(Caller) > 0
  BY <1>1, WaitingCount, Zenon
<1>3. LimiterTypeOK /\ StoredIsBehind
  BY DEF LimiterInit, LimiterTypeOK, StoredIsBehind
<1>4. granted + Cardinality(waiting) < maxRequestsPer24Hrs + Cardinality(Caller)
  BY <1>2, NobodyWaits, RateLimiterAssumption DEF LimiterInit
<1> QED BY <1>3, <1>4 DEF LimiterInv, LimiterInit

\* Every step of the limiter keeps the invariant.
LEMMA LimiterStepInv == LimiterInv /\ [LimiterStep]_limiterVars => LimiterInv'
<1> SUFFICES ASSUME LimiterInv, [LimiterStep]_limiterVars PROVE LimiterInv'
  OBVIOUS
<1> USE RateLimiterAssumption DEF LimiterInv, LimiterTypeOK, StoredIsBehind
<1>1. PICK d \in Caller : TRUE
  OBVIOUS
<1>2. /\ Cardinality(Caller) \in Nat /\ Cardinality(Caller) > 0
      /\ Cardinality(waiting) \in Nat /\ Cardinality(waiting) <= Cardinality(Caller)
  BY <1>1, WaitingCount, Zenon
<1>3. ASSUME NEW c \in Caller, WaitBegin(c) PROVE LimiterInv'
  <2>1. /\ Cardinality(waiting') = Cardinality(waiting) + 1
        /\ Cardinality(waiting) < Cardinality(Caller)
    BY <1>3, WaitingCount DEF WaitBegin
  <2> QED BY <1>2, <1>3, <2>1 DEF WaitBegin, TooManyRequests
<1>4. ASSUME NEW c \in Caller, WaitGranted(c) PROVE LimiterInv'
  <2>1. Cardinality(waiting') = Cardinality(waiting) - 1
    BY <1>4, WaitingCount DEF WaitGranted
  <2> QED BY <1>2, <1>4, <2>1 DEF WaitGranted
<1>5. ASSUME NEW c \in Caller, WaitCancelled(c) PROVE LimiterInv'
  <2>1. Cardinality(waiting') = Cardinality(waiting) - 1
    BY <1>5, WaitingCount DEF WaitCancelled
  <2> QED BY <1>2, <1>5, <2>1 DEF WaitCancelled
<1>6. CASE Midnight
  BY <1>2, <1>6 DEF Midnight
<1>7. CASE ResetGrants
  <2>1. 0 + Cardinality(waiting) < maxRequestsPer24Hrs + Cardinality(Caller)
    BY <1>2, NobodyWaits
  <2> QED BY <1>2, <1>7, <2>1 DEF ResetGrants
<1>8. CASE StoreCheckpoint
  BY <1>2, <1>8 DEF StoreCheckpoint
<1>9. CASE Restart
  <2>1. Restored \in Nat /\ Restored <= granted
    BY DEF Restored
  <2>2. LimiterTypeOK' /\ StoredIsBehind'
    <3>1. CASE checkpoint = day
      BY <1>9, <2>1, <3>1 DEF Restart
    <3>2. CASE checkpoint # day
      BY <1>9, <2>1, <3>2 DEF Restart, Restored
    <3> QED BY <3>1, <3>2
  <2>3. granted' + Cardinality(waiting') < maxRequestsPer24Hrs + Cardinality(Caller)
    BY <1>2, <1>9, <2>1, NobodyWaits DEF Restart
  <2> QED BY <1>9, <2>2, <2>3 DEF Restart
<1>10. CASE UNCHANGED limiterVars
  BY <1>2, <1>10 DEF limiterVars
<1> QED BY <1>3, <1>4, <1>5, <1>6, <1>7, <1>8, <1>9, <1>10, Zenon DEF LimiterStep

\* The invariant bounds what a day is granted.
LEMMA LimiterInvImplies == LimiterInv => DailyBound
<1> SUFFICES ASSUME LimiterInv PROVE DailyBound
  OBVIOUS
<1>1. Cardinality(waiting) \in Nat /\ Cardinality(Caller) \in Nat
  BY FS_Subset, FS_CardinalityType, RateLimiterAssumption DEF LimiterInv, LimiterTypeOK
<1> QED BY <1>1, RateLimiterAssumption DEF LimiterInv, LimiterTypeOK, StoredIsBehind, DailyBound

(***************************************************************************)
(* On its own, the limiter never grants more than the daily limit, plus    *)
(* the callers between check and increment, plus what restarts forgot.     *)
(***************************************************************************)
THEOREM LimiterBound == LimiterSpec => [](DailyBound /\ StoredIsBehind)
<1>1. LimiterInv => DailyBound /\ StoredIsBehind
  BY LimiterInvImplies DEF LimiterInv
<1> QED BY <1>1, LimiterInitInv, LimiterStepInv, PTL DEF LimiterSpec

CONSTANTS Batches, Answers, ChaiBridge, MaximumGasPrice, NullAddress, maxRequestContentLength,
          jsonRPCPayloadByteLength, concurrencyLimit, MaxAttempts, MaxRestarts
VARIABLES batch, validation, valid, lookups, found, chunks, request, results, raced, restarts

Validator == INSTANCE Validator WITH phase <- validation

(***************************************************************************)
(* Whatever BatchValidate and the node do, the limiter only takes its own  *)
(* steps: no path of the client sends a request without a grant, and none  *)
(* leaves a caller behind in Wait.                                         *)
(***************************************************************************)
LEMMA NextIsLimiterStep ==
    ASSUME Validator!ValidatorAssumption, [Validator!Next]_(Validator!vars)
    PROVE  [LimiterStep]_limiterVars
<1>0. Validator!limiterVars = limiterVars /\ Validator!limiterVars' = limiterVars'
  BY DEF Validator!limiterVars, limiterVars
<1>1. ASSUME NEW c \in Caller, Validator!ClientFails(c) PROVE LimiterStep \/ UNCHANGED limiterVars
  BY <1>0, <1>1, Zenon DEF Validator!ClientFails, Validator!WaitCancelled, LimiterStep, WaitCancelled
<1>2. Validator!LookUpEndpoint => LimiterStep \/ UNCHANGED limiterVars
  <2>1. Validator!Main \in Caller
    BY Validator!ValidatorAssumption, Zenon
  <2>2. Validator!LookUpEndpoint => Validator!ClientFails(Validator!Main) \/ UNCHANGED Validator!limiterVars
    BY Zenon DEF Validator!LookUpEndpoint
  <2> QED BY <1>0, <1>1, <2>1, <2>2, Zenon
<1>3. CASE Validator!LimiterGoroutines
  BY <1>3, Zenon DEF Validator!LimiterGoroutines, Validator!Midnight, Validator!ResetGrants,
        Validator!StoreCheckpoint, LimiterStep, Midnight, ResetGrants, StoreCheckpoint
<1>4. CASE Validator!RestartNode
  BY <1>4, Zenon DEF Validator!RestartNode, Validator!Restart, Validator!Restored, LimiterStep, Restart, Restored
<1>5. CASE Validator!MainStep
  BY <1>0, <1>2, <1>5, Zenon DEF Validator!MainStep, Validator!Offchain, Validator!AskCoordinator,
        Validator!StartChunks, Validator!Return
<1>6. ASSUME NEW c \in Caller, Validator!AskLimiter(c) \/ Validator!SendRequest(c) PROVE LimiterStep
  BY <1>6, Zenon DEF Validator!AskLimiter, Validator!SendRequest, Validator!WaitBegin, Validator!WaitGranted,
        Validator!TooManyRequests, LimiterStep, WaitBegin, WaitGranted, TooManyRequests
<1>7. ASSUME NEW c \in Caller, Validator!ChunkStep(c) PROVE LimiterStep \/ UNCHANGED limiterVars
  BY <1>0, <1>1, <1>7, Zenon DEF Validator!ChunkStep, Validator!AcquireSemaphore, Validator!RetryOrGiveUp,
        Validator!ContractAnswers, Validator!ReadResults, Validator!AppendResults
<1>8. CASE UNCHANGED Validator!vars
  BY <1>0, <1>8, Zenon DEF Validator!vars
<1> QED BY <1>3, <1>4, <1>5, <1>6, <1>7, <1>8, Zenon DEF Validator!Next

(***************************************************************************)
(* The validator implements the limiter's specification, and so the bound  *)
(* on the requests of a day holds of it, for any batch and any limit.      *)
(***************************************************************************)
THEOREM ValidatorBound ==
    ASSUME Validator!ValidatorAssumption
    PROVE  Validator!Spec => LimiterSpec /\ [](DailyBound /\ StoredIsBehind)
<1>1. Validator!Init => LimiterInit
  BY DEF Validator!Init, Validator!LimiterInit, LimiterInit
<1>2. [Validator!Next]_(Validator!vars) => [LimiterStep]_limiterVars
  BY NextIsLimiterStep, Zenon
<1>3. Validator!Spec => LimiterSpec
  BY <1>1, <1>2, PTL DEF Validator!Spec, LimiterSpec
<1> QED BY <1>3, LimiterBound, Zenon
=============================================================================
