--------------------------------- MODULE App --------------------------------
(***************************************************************************)
(* The life of a Mesh process: core.New, core.App.Start with its           *)
(* goroutines, cmd/mesh's main with its two RPC servers, and an API call   *)
(* that waits for the start.  The process may crash and be started again   *)
(* with another configuration on the same data directory.                  *)
(***************************************************************************)
EXTENDS Naturals, FiniteSets

CONSTANTS
    Chain,      \* the chain IDs of configurations and of Ethereum nodes
    Mainnet, StandardChain,
    Custom,     \* CustomContractAddresses: [given, names]
    None,
    Server,     \* the RPC servers
    MaxRuns     \* bound: how often the process is started

\* The goroutines of Start that report errors, the one that closes the database,
\* and those that only wait: snapshots, new addresses and statistics.
Reporting == {"limiter", "orders", "chainID", "blocks", "ordersync", "p2p"}
Goroutine == Reporting \cup {"db", "quiet"}

VARIABLES
    keyFile, chainInDB,     \* what is on disk: the private key, the metadata
    runs,                   \* number of starts
    config,                 \* EthereumChainID
    rpcChain,               \* the chain of the Ethereum node
    main,                   \* cmd/mesh
    ctx,                    \* its context was cancelled
    servers,                \* the RPC servers' goroutines
    phase,                  \* how far App.Start is
    running,                \* the goroutines of Start
    errors,                 \* the errors in the channels that Start has not read:
                            \* of the chain ID, of another one
    node, started,          \* app.node is set; app.started is closed
    dbOpen,                 \* app.db
    call                    \* an API call

diskVars == <<keyFile, chainInDB>>
processVars == <<runs, config, rpcChain>>
startVars == <<phase, running, errors, node, started, dbOpen>>
vars == <<diskVars, processVars, main, ctx, servers, startVars, call>>

-----------------------------------------------------------------------------
Running == main \in {"select", "waiting"}

\* Nothing of a process is left when it ends.
Ended ==
    /\ main' = "down" /\ ctx' = FALSE
    /\ servers' = [s \in Server |-> "off"]
    /\ phase' = "off" /\ running' = {} /\ errors' = {}
    /\ node' = FALSE /\ started' = FALSE /\ dbOpen' = FALSE
    /\ call' = "idle"

Crash ==
    /\ main # "down"
    /\ Ended
    /\ UNCHANGED <<diskVars, processVars>>

\* The addresses of the contracts: custom ones for a chain that is not the main
\* one, with all that are required, or those of a standard chain.
RequiredAddress == {"exchange", "devUtils", "erc20Proxy", "erc721Proxy", "erc1155Proxy"}
ValidateContractAddressesForChainID(chain, names) == chain # Mainnet /\ RequiredAddress \subseteq names
NewContractAddressesForChainID(chain) == chain \in StandardChain

ContractAddresses(chain, custom) ==
    IF custom.given THEN ValidateContractAddressesForChainID(chain, custom.names)
    ELSE NewContractAddressesForChainID(chain)

\* A process begins: it is given a chain ID, and an Ethereum node.
Launch ==
    /\ main = "down" /\ runs < MaxRuns
    /\ runs' = runs + 1
    /\ config' \in Chain /\ rpcChain' \in Chain
    /\ \E custom \in Custom :
            main' = IF ContractAddresses(config', custom) THEN "key" ELSE "fatal"
    /\ UNCHANGED <<diskVars, ctx, servers, startVars, call>>

\* initPrivateKey: the key is read, or it is generated when there is no file.
\* The file exists, and is empty, before the key is written to it; a file that
\* holds no key is an error.
initPrivateKey ==
    /\ main = "key"
    /\ \/ keyFile.key # 0 /\ main' = "metadata" /\ UNCHANGED keyFile
       \/ ~keyFile.exists /\ keyFile' = [exists |-> TRUE, key |-> 0] /\ main' = "write"
       \/ keyFile.exists /\ keyFile.key = 0 /\ main' = "fatal" /\ UNCHANGED keyFile
    /\ UNCHANGED <<chainInDB, processVars, ctx, servers, startVars, call>>

\* The key is a new one.
GenerateAndSavePrivateKey ==
    /\ main = "write"
    /\ keyFile' = [exists |-> TRUE, key |-> runs] /\ main' = "metadata"
    /\ UNCHANGED <<chainInDB, processVars, ctx, servers, startVars, call>>

\* The database is opened, and initMetadata stores or compares the chain ID.
initMetadata ==
    /\ main = "metadata"
    /\ \/ chainInDB \in {None, config} /\ chainInDB' = config /\ main' = "new"
       \/ main' = "fatal" /\ UNCHANGED chainInDB
    /\ UNCHANGED <<keyFile, processVars, ctx, servers, startVars, call>>

\* New checks the other options and creates the parts of the App; any of them may
\* fail.
newWithPrivateConfig ==
    /\ main = "new"
    /\ \/ main' = "start" /\ dbOpen' = TRUE
       \/ main' = "fatal" /\ UNCHANGED dbOpen
    /\ UNCHANGED <<diskVars, processVars, ctx, servers, phase, running, errors, node, started, call>>

\* log.Fatal.
Fatal ==
    /\ main = "fatal"
    /\ Ended
    /\ UNCHANGED <<diskVars, processVars>>

\* main starts its three goroutines, and Start its first ones.
Start ==
    /\ main = "start"
    /\ main' = "select"
    /\ servers' = [s \in Server |-> "listening"]
    /\ phase' = "fastsync"
    /\ running' = {"db", "limiter", "quiet", "orders", "chainID"}
    /\ UNCHANGED <<diskVars, processVars, ctx, errors, node, started, dbOpen, call>>

-----------------------------------------------------------------------------
\* App.Start, up to the signal.  Each step may return an error.
Returned == phase \in {"nil", "error"}
InnerDone == ctx \/ Returned

StepVars == <<diskVars, processVars, main, ctx, servers, errors, dbOpen, call>>

SetupFails ==
    /\ phase \in {"fastsync", "wait", "cleanup", "node"}
    /\ phase' = "error" /\ errors' = {}
    /\ UNCHANGED <<diskVars, processVars, main, ctx, servers, dbOpen, call, running, node, started>>

FastSync ==
    /\ phase = "fastsync" /\ ~InnerDone
    /\ phase' = "caughtUp" /\ running' = running \cup {"blocks"}
    /\ UNCHANGED <<StepVars, node, started>>

IsCaughtUp ==
    /\ phase = "caughtUp"
    /\ phase' \in {"wait", "cleanup", "node"}
    /\ UNCHANGED <<StepVars, running, node, started>>

\* WaitForAtLeastOneBlockToBeProcessed: the order watcher has processed one, and
\* may have failed since.  SetupFails is the timeout.
WaitForBlock ==
    /\ phase = "wait"
    /\ phase' \in {"cleanup", "node"}
    /\ UNCHANGED <<StepVars, running, node, started>>

Cleanup ==
    /\ phase = "cleanup"
    /\ phase' = "node"
    /\ UNCHANGED <<StepVars, running, node, started>>

\* p2p.New and ordersync.New, and the goroutines that use the node.
StartNode ==
    /\ phase = "node"
    /\ phase' = "signal" /\ node' = TRUE
    /\ running' = running \cup {"ordersync", "p2p"}
    /\ UNCHANGED <<StepVars, started>>

Signal ==
    /\ phase = "signal"
    /\ phase' = "running" /\ started' = TRUE
    /\ UNCHANGED <<StepVars, running, node>>

\* Mutant: the first goroutine that ends without an error ends Start.
SelectAny ==
    /\ phase = "running"
    /\ \/ errors # {} /\ phase' = "error"
       \/ running # Goroutine /\ phase' = "nil"
    /\ UNCHANGED <<StepVars, running, node, started>>

\* Mutant: the channel of the chain ID is not read.
SelectButChainID ==
    /\ phase = "running"
    /\ \/ errors \ {"chainID"} # {} /\ phase' = "error"
       \/ running = {} /\ phase' = "nil"
    /\ UNCHANGED <<StepVars, running, node, started>>

\* The last loop of Start: the first error that is read, or all goroutines ended.
\* When both are there, the select takes either.
Select ==
    /\ phase = "running"
    /\ \/ errors # {} /\ phase' = "error"
       \/ running = {} /\ phase' = "nil"
    /\ UNCHANGED <<StepVars, running, node, started>>

StartStep ==
    SetupFails \/ FastSync \/ IsCaughtUp \/ WaitForBlock \/ Cleanup \/ StartNode \/ Signal \/ Select

-----------------------------------------------------------------------------
\* The goroutines of Start.
GoroutineVars == <<diskVars, processVars, main, ctx, servers, phase, node, started, call>>

\* One returns an error: the chain ID that the Ethereum node reports is another
\* one, or a request, the database or the network fails.  Nothing reads its
\* channel once Start has returned.
Fail(g) ==
    /\ g \in running \cap Reporting
    /\ running' = running \ {g}
    /\ errors' = IF Returned THEN errors ELSE errors \cup {IF g = "chainID" THEN g ELSE "other"}
    /\ UNCHANGED <<GoroutineVars, dbOpen>>

\* One returns nil, and the database is closed by its goroutine, whether the
\* others have ended or not.
Finish(g) ==
    /\ g \in running
    /\ InnerDone \/ (g = "chainID" /\ rpcChain = config)
    /\ running' = running \ {g}
    /\ dbOpen' = (dbOpen /\ g # "db")
    /\ UNCHANGED <<GoroutineVars, errors>>

-----------------------------------------------------------------------------
\* cmd/mesh.  Server.Listen returns nil when the listener was closed because of
\* the context, and any other error of http.Serve.
Listen(s) ==
    /\ servers[s] = "listening"
    /\ \/ ctx /\ servers' = [servers EXCEPT ![s] = "nil"]
       \/ servers' = [servers EXCEPT ![s] = "error"]
    /\ UNCHANGED <<diskVars, processVars, main, ctx, startVars, call>>

\* Mutant: the context is not cancelled.
ErrorWithoutCancel ==
    /\ main = "select"
    /\ (phase = "error" \/ \E s \in Server : servers[s] = "error")
    /\ main' = "waiting"
    /\ UNCHANGED <<diskVars, processVars, ctx, servers, startVars, call>>

\* main's select: an error cancels the context, and main waits for all three.
MainError ==
    /\ main = "select"
    /\ (phase = "error" \/ \E s \in Server : servers[s] = "error")
    /\ main' = "waiting" /\ ctx' = TRUE
    /\ UNCHANGED <<diskVars, processVars, servers, startVars, call>>

Exit ==
    /\ main = "waiting" /\ Returned
    /\ \A s \in Server : servers[s] # "listening"
    /\ Ended
    /\ UNCHANGED <<diskVars, processVars>>

\* An API call: GetOrders, AddOrders, AddPeer or GetStats of rpcHandler.
Call ==
    /\ call = "idle" /\ \E s \in Server : servers[s] = "listening"
    /\ call' = "gate"
    /\ UNCHANGED <<diskVars, processVars, main, ctx, servers, startVars>>

Enter ==
    /\ call = "gate" /\ started
    /\ call' = "executing"
    /\ UNCHANGED <<diskVars, processVars, main, ctx, servers, startVars>>

\* It returns, with a result or an error.
Answer ==
    /\ call = "executing"
    /\ call' = "idle"
    /\ UNCHANGED <<diskVars, processVars, main, ctx, servers, startVars>>

Init ==
    /\ keyFile = [exists |-> FALSE, key |-> 0] /\ chainInDB = None
    /\ runs = 0 /\ config \in Chain /\ rpcChain = config
    /\ main = "down" /\ ctx = FALSE /\ servers = [s \in Server |-> "off"]
    /\ phase = "off" /\ running = {} /\ errors = {}
    /\ node = FALSE /\ started = FALSE /\ dbOpen = FALSE
    /\ call = "idle"

MainStep ==
    \/ initPrivateKey \/ GenerateAndSavePrivateKey \/ initMetadata \/ newWithPrivateConfig
    \/ Fatal \/ Start \/ MainError \/ Exit

Next ==
    \/ Launch \/ Crash \/ MainStep \/ StartStep
    \/ \E g \in Goroutine : Fail(g) \/ Finish(g)
    \/ \E s \in Server : Listen(s)
    \/ Call \/ Enter \/ Answer

Spec == Init /\ [][Next]_vars

\* Every goroutine runs, requests to the Ethereum node end by their timeouts, and
\* a listener that was closed makes http.Serve return.
FairSpec ==
    /\ Spec
    /\ WF_vars(MainStep) /\ WF_vars(StartStep)
    /\ WF_vars(Fail("chainID") \/ \E g \in Goroutine : Finish(g))
    /\ WF_vars(ctx /\ \E s \in Server : Listen(s))
    /\ WF_vars(Enter \/ Answer)

-----------------------------------------------------------------------------
StartOfApp == INSTANCE Runner WITH
    cancelled <- ctx, state <- IF Returned THEN phase ELSE "blocked"

(***************************************************************************)
(* App.Start implements the contract of Start methods: nil only after all  *)
(* its goroutines ended because of the context, and a return after a       *)
(* cancellation, at whichever step of the set up it arrives.               *)
(***************************************************************************)
StartImplementsRunner == StartOfApp!RunnerSpec

\* initMetadata has compared the chain IDs before anything uses the database.
ChainMatches == dbOpen => chainInDB = config

(***************************************************************************)
(* A process that uses the database is configured for the chain that the   *)
(* database was made for, whatever crashed or was started before; and one  *)
(* whose Ethereum node is on another chain ends, although the chain ID is  *)
(* asked for while the blocks are already being stored.                    *)
(***************************************************************************)
OneChain ==
    /\ []ChainMatches
    /\ [](Running /\ rpcChain # config => <>(main = "down"))

\* A call that is past <-app.started finds app.node set.
NodeIsSet == call = "executing" => node

(***************************************************************************)
(* Every API call is answered, or its process ends, also when it was made  *)
(* before the start and the start then fails; and past its gate it finds   *)
(* app.node set, which AddOrders, AddPeer and GetStats dereference.        *)
(***************************************************************************)
CallsAreAnswered ==
    /\ []<>(call \notin {"gate", "executing"})
    /\ []NodeIsSet
=============================================================================
