------------------------------ MODULE Deployment ------------------------------
(***************************************************************************)
(* The deployment script set_up.sh with config/init-chain.sh and           *)
(* config/init-relayer.sh: two nodes and a relayer in the background, a    *)
(* few transactions whose execution nobody awaits, and a loop that         *)
(* restarts the relayer until the transfer shows.  A command that fails    *)
(* ends the script (bash -e), which leaves its processes behind; the user  *)
(* may then start it again.                                                *)
(***************************************************************************)
EXTENDS Naturals

CONSTANTS
  MaxRuns,  \* bound on how often the script is started
  MayDie    \* nodes and relayers may die

VARIABLES
  run,        \* the current run of the script
  pc,         \* the command it is at
  nodes,      \* the node processes
  txs,        \* the transactions the run submitted
  packet,     \* the packet of ica_bank_send: "none", "waiting", "executed", "refused"
  relayers,   \* the relayer processes the run started
  hermesPid,  \* which of them hermes.pid names
  retries     \* RETRIES

vars == <<run, pc, nodes, txs, packet, relayers, hermesPid, retries>>

ASSUME DeploymentAssumption ==
  MaxRuns \in Nat \ {0} /\ MayDie \in BOOLEAN

MAX_RETRIES == 3
Chains == {"a-chain", "b-chain"}
Relayers == 1..(MAX_RETRIES + 1)
TxChain == [store |-> "a-chain", instantiate |-> "a-chain", fund |-> "b-chain", execute |-> "a-chain"]

DefaultPorts == {1317, 9090, 9091, 26658, 26657, 26656, 26660, 6060}

\* The sed commands on app.toml and config.toml, which are for the second
\* chain only.
Remapped(port) ==
  CASE port = 1317 -> 1316 [] port = 9090 -> 9088 [] port = 9091 -> 9089
    [] port = 26658 -> 26655 [] port = 26657 -> 26654 [] port = 26656 -> 26652
    [] port = 26660 -> 26666 [] OTHER -> port

Ports(chain) ==
  IF chain = "a-chain" THEN DefaultPorts ELSE {Remapped(port) : port \in DefaultPorts}

RpcPort(chain) == IF chain = "a-chain" THEN 26657 ELSE 26654

\* What lsof finds on the RPC port of a chain.
Listening(chain) ==
  {n \in nodes : n.state = "listening" /\ RpcPort(chain) \in Ports(n.chain)}

\* Whoever answers for the chain, it is a node of this run: another one does
\* not know the accounts of this run, and every command sent to it fails.
Own(chain) == \E n \in Listening(chain) : n.run = run
OwnChains == \A chain \in Chains : Own(chain)

Running(r) == relayers[r] \in {"starting", "up", "deaf"}
Pending(tx) == txs[tx] = "pending"
Over == pc \in {"success", "failed"}

Init ==
  /\ run = 1
  /\ pc = "chainA"
  /\ nodes = {}
  /\ txs = [tx \in DOMAIN TxChain |-> "none"]
  /\ packet = "none"
  /\ relayers = [r \in Relayers |-> "none"]
  /\ hermesPid \in Relayers
  /\ retries = 0

-----------------------------------------------------------------------------
(* The script *)

\* info, and loading in the loop, sleep for AVG_BLOCK_TIME before a command that
\* relies on an earlier transaction: a chain that runs is taken to have made a
\* block by then.  The loadings of 3 seconds allow no such conclusion.
Waited == \A tx \in DOMAIN txs : Pending(tx) => ~Own(TxChain[tx])

\* kill -9 of the listeners on a chain's port, then init-chain.sh, which
\* starts a node and leaves before it listens.
StartChain(killed, chain) ==
  nodes' = (nodes \ Listening(killed)) \cup {[chain |-> chain, run |-> run, state |-> "starting"]}

StartChainA ==
  /\ pc = "chainA" /\ pc' = "chainB"
  /\ StartChain("a-chain", "a-chain")
  /\ UNCHANGED <<run, txs, packet, relayers, hermesPid, retries>>

\* The port that is cleared is still the first chain's.
StartChainB ==
  /\ pc = "chainB" /\ pc' = "store"
  /\ StartChain("a-chain", "b-chain")
  /\ UNCHANGED <<run, txs, packet, relayers, hermesPid, retries>>

\* The relayer signs with the script's own accounts: once it runs, a transaction
\* may carry a stale sequence number and be dropped, for which the command does
\* not fail.
MayBeDropped == \E r \in Relayers : Running(r)

Submit(at, tx, next) ==
  /\ pc = at /\ Waited
  /\ IF Own(TxChain[tx])
     THEN /\ pc' = next
          /\ txs' \in {[txs EXCEPT ![tx] = "pending"]} \cup IF MayBeDropped THEN {txs} ELSE {}
     ELSE pc' = "failed" /\ UNCHANGED txs
  /\ UNCHANGED <<run, nodes, packet, relayers, hermesPid, retries>>

\* A query on which the script depends.
Ask(at, chain, next) ==
  /\ pc = at
  /\ pc' = IF Own(chain) THEN next ELSE "failed"
  /\ UNCHANGED <<run, nodes, txs, packet, relayers, hermesPid, retries>>

\* hermes create channel, which fails without the contract's address and may
\* fail on an account sequence mismatch; then hermes start in the background.
InitRelayer ==
  /\ pc = "relayer" /\ Waited
  /\ \/ /\ OwnChains /\ txs.instantiate = "committed"
        /\ pc' = "query"
        /\ relayers' = [relayers EXCEPT ![1] = "starting"]
        /\ hermesPid' = 1
     \/ pc' = "failed" /\ UNCHANGED <<relayers, hermesPid>>
  /\ UNCHANGED <<run, nodes, txs, packet, retries>>

CheckBalance ==
  /\ pc = "check" /\ retries < MAX_RETRIES /\ Waited
  /\ pc' = IF ~Own("b-chain") THEN "failed"
           ELSE IF packet = "executed" THEN "success"
           ELSE "restart"
  /\ UNCHANGED <<run, nodes, txs, packet, relayers, hermesPid, retries>>

\* The loop is left without another look at the balance.
GiveUp ==
  /\ pc = "check" /\ retries >= MAX_RETRIES
  /\ pc' = "failed"
  /\ UNCHANGED <<run, nodes, txs, packet, relayers, hermesPid, retries>>

\* Mutant: the restarted relayer's pid is not written down.
RestartRelayerUntracked ==
  /\ pc = "restart"
  /\ IF Running(hermesPid)
     THEN /\ relayers' = [relayers EXCEPT ![hermesPid] = "dead", ![retries + 2] = "starting"]
          /\ retries' = retries + 1
          /\ pc' = "check"
     ELSE pc' = "failed" /\ UNCHANGED <<relayers, retries>>
  /\ UNCHANGED <<run, nodes, txs, packet, hermesPid>>

\* Mutant: the retry is not counted.
RestartRelayerUncounted ==
  /\ pc = "restart"
  /\ IF Running(hermesPid)
     THEN /\ relayers' = [relayers EXCEPT ![hermesPid] = "starting"]
          /\ pc' = "check"
     ELSE pc' = "failed" /\ UNCHANGED relayers
  /\ UNCHANGED <<run, nodes, txs, packet, hermesPid, retries>>

\* kill fails if the relayer has died.
RestartRelayer ==
  /\ pc = "restart"
  /\ IF Running(hermesPid)
     THEN /\ relayers' = [relayers EXCEPT ![hermesPid] = "dead", ![retries + 2] = "starting"]
          /\ hermesPid' = retries + 2
          /\ retries' = retries + 1
          /\ pc' = "check"
     ELSE pc' = "failed" /\ UNCHANGED <<relayers, hermesPid, retries>>
  /\ UNCHANGED <<run, nodes, txs, packet>>

ScriptStep ==
  \/ StartChainA
  \/ StartChainB
  \/ Submit("store", "store", "instantiate")
  \/ Submit("instantiate", "instantiate", "relayer")
  \/ InitRelayer
  \/ Ask("query", "a-chain", "fund")
  \/ Submit("fund", "fund", "balances")
  \/ Ask("balances", "b-chain", "execute")
  \/ Submit("execute", "execute", "check")
  \/ CheckBalance
  \/ GiveUp
  \/ RestartRelayer

\* The clean-up removes files; the processes of the last run stay, and what
\* its relayer does is of no account to the new chains.
StartAgain ==
  /\ pc = "failed" /\ run < MaxRuns
  /\ run' = run + 1
  /\ pc' = "chainA"
  /\ txs' = [tx \in DOMAIN TxChain |-> "none"]
  /\ packet' = "none"
  /\ relayers' = [r \in Relayers |-> "none"]
  /\ retries' = 0
  /\ UNCHANGED <<nodes, hermesPid>>

-----------------------------------------------------------------------------
(* The processes *)

\* A node whose RPC port is taken exits; a taken profiling port it does
\* without.
NodeListens(n) ==
  /\ n.state = "starting"
  /\ nodes' = IF Listening(n.chain) # {} THEN nodes \ {n}
              ELSE (nodes \ {n}) \cup {[n EXCEPT !.state = "listening"]}
  /\ UNCHANGED <<run, pc, txs, packet, relayers, hermesPid, retries>>

Commit(chain) ==
  /\ Own(chain)
  /\ \E tx \in DOMAIN txs : Pending(tx) /\ TxChain[tx] = chain
  /\ txs' = [tx \in DOMAIN txs |->
       IF Pending(tx) /\ TxChain[tx] = chain THEN "committed" ELSE txs[tx]]
  /\ packet' = IF Pending("execute") /\ chain = "a-chain" THEN "waiting" ELSE packet
  /\ UNCHANGED <<run, pc, nodes, relayers, hermesPid, retries>>

\* The transfer is executed if the account has been funded by then.
Delivered ==
  IF packet = "waiting" THEN IF txs.fund = "committed" THEN "executed" ELSE "refused"
  ELSE packet

\* Mutant: clear_on_start = false.
RelayerStartsUncleared(r) ==
  /\ relayers[r] = "starting" /\ OwnChains
  /\ \E s \in {"up", "deaf"} : relayers' = [relayers EXCEPT ![r] = s]
  /\ UNCHANGED <<run, pc, nodes, txs, packet, hermesPid, retries>>

\* A relayer clears the packets that wait when it starts (clear_on_start),
\* and may then be deaf to new ones.
RelayerStarts(r) ==
  /\ relayers[r] = "starting" /\ OwnChains
  /\ \E s \in {"up", "deaf"} : relayers' = [relayers EXCEPT ![r] = s]
  /\ packet' = Delivered
  /\ UNCHANGED <<run, pc, nodes, txs, hermesPid, retries>>

RelayerDelivers(r) ==
  /\ relayers[r] = "up" /\ OwnChains /\ packet = "waiting"
  /\ packet' = Delivered
  /\ UNCHANGED <<run, pc, nodes, txs, relayers, hermesPid, retries>>

Dies ==
  /\ MayDie
  /\ \/ \E n \in nodes : nodes' = nodes \ {n} /\ UNCHANGED relayers
     \/ \E r \in Relayers :
          Running(r) /\ relayers' = [relayers EXCEPT ![r] = "dead"] /\ UNCHANGED nodes
  /\ UNCHANGED <<run, pc, txs, packet, hermesPid, retries>>

Next ==
  \/ ScriptStep
  \/ StartAgain
  \/ \E n \in nodes : NodeListens(n)
  \/ \E chain \in Chains : Commit(chain)
  \/ \E r \in Relayers : RelayerStarts(r) \/ RelayerDelivers(r)
  \/ Dies

\* The script is scheduled, nodes start and make blocks, and a relayer that
\* runs does its work; nobody has to start the script again, nothing has to die.
Fairness ==
  /\ WF_vars(ScriptStep)
  /\ \A chain \in Chains : WF_vars(Commit(chain))
  /\ WF_vars(\E n \in nodes : NodeListens(n))
  /\ \A r \in Relayers : WF_vars(RelayerStarts(r)) /\ WF_vars(RelayerDelivers(r))

Spec == Init /\ [][Next]_vars
FairSpec == Spec /\ Fairness

-----------------------------------------------------------------------------

\* Of the relayers a run started, the one hermes.pid names is the only one
\* left running, so that two never relay and sign for one account at once,
\* however often the loop restarted it and whatever died (lines 184 to 186).
RelayerTracked == \A r \in Relayers : Running(r) => r = hermesPid

\* The script ends by itself (RETRIES, bash -e).
ScriptEnds == ~Over ~> Over

\* A packet that waits is picked up, also when every relayer the script starts
\* turns deaf: each clears what waits when it starts, and one is started after
\* the packet is sent, or one that hears is there already.  The run must not
\* have lost a chain, or its relayer.
PacketPickedUp ==
  packet = "waiting" ~> packet # "waiting" \/ ~OwnChains \/ ~Running(hermesPid)

-----------------------------------------------------------------------------
(* What the README says *)

\* README.md: "Set up 2 identical Cudos chains (as background processes)", so
\* the script must not kill one it has set up (set_up.sh:64).
OwnChainsSurvive ==
  [][run' = run =>
       \A n \in nodes : n.run = run /\ n.state = "listening" => n \in nodes']_vars

\* README.md: "In case of script execution failure, please re-start it", so the
\* chain that answers a restarted script must be the one it started.
TargetChainIsOwn ==
  pc \notin {"chainA", "chainB", "failed"} /\ Listening("b-chain") # {} => Own("b-chain")

\* README.md: the script restarts the relayer "in order for the test to
\* proceed", so it must not fail once the transfer is there to be seen.
ExecutedIsNoticed ==
  [][pc = "check" /\ packet = "executed" /\ OwnChains => pc' # "failed"]_vars

==============================================================================
