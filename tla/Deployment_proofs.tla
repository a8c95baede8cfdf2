-------------------------- MODULE Deployment_proofs ---------------------------
(***************************************************************************)
(* hermes.pid names the one relayer of a run that is left, and the script  *)
(* never goes round in circles, however often it is started and whatever   *)
(* dies.                                                                   *)
(***************************************************************************)
EXTENDS Deployment, TLAPS

RelayerStates == {"none", "starting", "up", "deaf", "dead"}

BeforeRelayer == {"chainA", "chainB", "store", "instantiate", "relayer"}

\* RelayerTracked is inductive once it is known that a run has no relayer
\* before init-relayer.sh, and that a restart takes a number still free.
TrackedInv ==
  /\ relayers \in [Relayers -> RelayerStates]
  /\ hermesPid \in Relayers
  /\ retries \in 0..MAX_RETRIES
  /\ pc = "restart" => retries < MAX_RETRIES
  /\ pc \in BeforeRelayer => \A r \in Relayers : relayers[r] = "none"
  /\ RelayerTracked

LEMMA TrackedInit == Init => TrackedInv
  <1> SUFFICES ASSUME Init PROVE TrackedInv
    OBVIOUS
  <1>1. relayers \in [Relayers -> RelayerStates] /\ \A r \in Relayers : relayers[r] = "none"
    BY DEF Init, RelayerStates
  <1>2. hermesPid \in Relayers /\ pc = "chainA"
    BY DEF Init
  <1>3. retries = 0
    BY DEF Init
  <1>4. retries \in 0..MAX_RETRIES
    BY <1>3 DEF MAX_RETRIES
  <1>5. RelayerTracked
    BY <1>1 DEF RelayerTracked, Running
  <1> QED
    BY <1>1, <1>2, <1>4, <1>5 DEF TrackedInv

LEMMA InitRelayerTracks == TrackedInv /\ InitRelayer => TrackedInv'
  <1> SUFFICES ASSUME TrackedInv, InitRelayer PROVE TrackedInv'
    OBVIOUS
  <1> USE DEF TrackedInv, InitRelayer, BeforeRelayer, RelayerStates
  <1>1. CASE UNCHANGED <<relayers, hermesPid>>
    BY <1>1 DEF RelayerTracked, Running
  <1>2. CASE /\ pc' = "query"
             /\ relayers' = [relayers EXCEPT ![1] = "starting"]
             /\ hermesPid' = 1
    <2>1. \A r \in Relayers : relayers[r] = "none"
      OBVIOUS
    <2> QED
      BY <1>2, <2>1 DEF RelayerTracked, Running, Relayers, MAX_RETRIES
  <1> QED
    BY <1>1, <1>2

\* The relayer that is killed is the only one that runs.
LEMMA RestartTracks == TrackedInv /\ RestartRelayer => TrackedInv'
  <1> SUFFICES ASSUME TrackedInv, RestartRelayer PROVE TrackedInv'
    OBVIOUS
  <1> USE DEF TrackedInv, RestartRelayer, BeforeRelayer, RelayerStates
  <1>1. CASE ~Running(hermesPid)
    BY <1>1 DEF RelayerTracked, Running
  <1>2. CASE Running(hermesPid)
    <2> DEFINE new == retries + 2
    <2>1. /\ new \in Relayers
          /\ relayers' = [relayers EXCEPT ![hermesPid] = "dead", ![new] = "starting"]
          /\ hermesPid' = new /\ retries' = retries + 1 /\ pc' = "check"
      BY <1>2 DEF Relayers, MAX_RETRIES
    <2>2. retries' \in 0..MAX_RETRIES
      BY <2>1 DEF MAX_RETRIES
    <2> HIDE DEF new
    <2>3. \A r \in Relayers : Running(r)' => r = new
      BY <2>1 DEF RelayerTracked, Running
    <2> QED
      BY <2>1, <2>2, <2>3 DEF RelayerTracked
  <1> QED
    BY <1>1, <1>2

\* A step that starts no relayer and does not go back in the script.
LEMMA NoneStarted ==
  ASSUME TrackedInv, relayers' \in [Relayers -> RelayerStates],
         UNCHANGED <<hermesPid, retries>>,
         pc' = "restart" => retries < MAX_RETRIES,
         \A r \in Relayers : Running(r)' => Running(r),
         pc' \in BeforeRelayer => \A r \in Relayers : relayers'[r] = "none"
  PROVE  TrackedInv'
  BY DEF TrackedInv, RelayerTracked

LEMMA ScriptTracks == TrackedInv /\ ScriptStep => TrackedInv'
  <1> SUFFICES ASSUME TrackedInv, ScriptStep PROVE TrackedInv'
    OBVIOUS
  <1> USE DEF BeforeRelayer
  <1>1. CASE InitRelayer
    BY <1>1, InitRelayerTracks
  <1>2. CASE RestartRelayer
    BY <1>2, RestartTracks
  <1>3. ASSUME UNCHANGED <<relayers, hermesPid, retries>>,
               pc' = "restart" => retries < MAX_RETRIES,
               pc' \in BeforeRelayer => pc \in BeforeRelayer
        PROVE  TrackedInv'
    BY <1>3, NoneStarted DEF TrackedInv, Running
  <1>4. CASE StartChainA \/ StartChainB
    BY <1>3, <1>4 DEF StartChainA, StartChainB
  <1>5. CASE \/ Submit("store", "store", "instantiate")
             \/ Submit("instantiate", "instantiate", "relayer")
             \/ Submit("fund", "fund", "balances")
             \/ Submit("execute", "execute", "check")
    BY <1>3, <1>5 DEF Submit
  <1>6. CASE Ask("query", "a-chain", "fund") \/ Ask("balances", "b-chain", "execute")
    BY <1>3, <1>6 DEF Ask
  <1>7. CASE CheckBalance \/ GiveUp
    BY <1>3, <1>7 DEF CheckBalance, GiveUp
  <1> QED
    BY <1>1, <1>2, <1>4, <1>5, <1>6, <1>7 DEF ScriptStep

LEMMA TrackedStep == TrackedInv /\ [Next]_vars => TrackedInv'
  <1> SUFFICES ASSUME TrackedInv, [Next]_vars PROVE TrackedInv'
    OBVIOUS
  <1> USE DEF RelayerStates, BeforeRelayer
  <1>1. CASE ScriptStep
    BY <1>1, ScriptTracks
  <1>2. CASE StartAgain
    <2>1. relayers' \in [Relayers -> RelayerStates] /\ \A r \in Relayers : relayers'[r] = "none"
      BY <1>2 DEF StartAgain
    <2>2. hermesPid' \in Relayers /\ pc' = "chainA"
      BY <1>2 DEF StartAgain, TrackedInv
    <2>3. retries' = 0
      BY <1>2 DEF StartAgain
    <2>4. retries' \in 0..MAX_RETRIES
      BY <2>3 DEF MAX_RETRIES
    <2>5. RelayerTracked'
      BY <2>1 DEF RelayerTracked, Running
    <2> QED
      BY <2>1, <2>2, <2>4, <2>5 DEF TrackedInv
  <1>3. ASSUME UNCHANGED <<pc, relayers, hermesPid, retries>> PROVE TrackedInv'
    BY <1>3 DEF TrackedInv, RelayerTracked, Running
  <1>4. ASSUME NEW n \in nodes, NodeListens(n) PROVE TrackedInv'
    BY <1>3, <1>4 DEF NodeListens
  <1>5. ASSUME NEW chain \in Chains, Commit(chain) PROVE TrackedInv'
    BY <1>3, <1>5 DEF Commit
  <1>6. ASSUME NEW r \in Relayers, RelayerStarts(r) PROVE TrackedInv'
    BY <1>6, NoneStarted DEF RelayerStarts, TrackedInv, Running
  <1>7. ASSUME NEW r \in Relayers, RelayerDelivers(r) PROVE TrackedInv'
    BY <1>3, <1>7 DEF RelayerDelivers
  <1>8. CASE Dies
    BY <1>3, <1>8, NoneStarted DEF Dies, TrackedInv, Running
  <1>9. CASE UNCHANGED vars
    BY <1>3, <1>9 DEF vars
  <1> QED
    BY <1>1, <1>2, <1>4, <1>5, <1>6, <1>7, <1>8, <1>9 DEF Next

\* However often the loop of the script restarts the relayer, however often the
\* script itself is started, and whatever dies: no relayer of a run is left
\* running but the one hermes.pid names.
THEOREM OnlyOneRelayer == Spec => []RelayerTracked
  <1>1. TrackedInv => RelayerTracked
    BY DEF TrackedInv
  <1> QED
    BY <1>1, TrackedInit, TrackedStep, PTL DEF Spec

(***************************************************************************)
(* The variant behind ScriptEnds: what is left of a run of the script.     *)
(***************************************************************************)

Commands == {"chainA", "chainB", "store", "instantiate", "relayer", "query", "fund",
             "balances", "execute", "check", "restart", "success", "failed"}

\* The commands that lead to the loop, counted from its end.
Ahead ==
  [command \in Commands |->
     IF command = "chainA" THEN 17 ELSE IF command = "chainB" THEN 16
     ELSE IF command = "store" THEN 15 ELSE IF command = "instantiate" THEN 14
     ELSE IF command = "relayer" THEN 13 ELSE IF command = "query" THEN 12
     ELSE IF command = "fund" THEN 11 ELSE IF command = "balances" THEN 10
     ELSE IF command = "execute" THEN 9 ELSE 0]

\* A bound on the commands a run still has before it; a retry is two of them.
CommandsLeft ==
  IF pc = "check" THEN 2 * (MAX_RETRIES - retries) + 2
  ELSE IF pc = "restart" THEN 2 * (MAX_RETRIES - retries) + 1
  ELSE Ahead[pc]

VariantInv == TrackedInv /\ pc \in Commands /\ run \in Nat

LEMMA CommandsLeftIsNat ==
  ASSUME VariantInv
  PROVE  CommandsLeft \in Nat /\ (CommandsLeft = 0 <=> Over)
  <1>1. retries \in 0..3
    BY DEF VariantInv, TrackedInv, MAX_RETRIES
  <1> QED
    BY <1>1 DEF VariantInv, Commands, Ahead, CommandsLeft, MAX_RETRIES, Over

LEMMA ScriptSteps ==
  ASSUME VariantInv, ScriptStep
  PROVE  pc' \in Commands /\ CommandsLeft' < CommandsLeft
  <1> USE DEF Commands, Ahead, CommandsLeft, MAX_RETRIES
  <1>0. retries \in 0..3 /\ (pc = "restart" => retries < 3)
    BY DEF VariantInv, TrackedInv
  <1>1. CASE StartChainA \/ StartChainB
    BY <1>1 DEF StartChainA, StartChainB
  <1>2. CASE Submit("store", "store", "instantiate")
             \/ Submit("instantiate", "instantiate", "relayer")
             \/ Submit("fund", "fund", "balances")
    BY <1>2 DEF Submit
  <1>3. CASE Submit("execute", "execute", "check")
    BY <1>0, <1>3 DEF Submit
  <1>4. CASE Ask("query", "a-chain", "fund") \/ Ask("balances", "b-chain", "execute")
    BY <1>4 DEF Ask
  <1>5. CASE InitRelayer
    BY <1>5 DEF InitRelayer
  <1>6. CASE CheckBalance \/ GiveUp
    BY <1>0, <1>6 DEF CheckBalance, GiveUp
  <1>7. CASE RestartRelayer
    BY <1>0, <1>7 DEF RestartRelayer
  <1> QED
    BY <1>1, <1>2, <1>3, <1>4, <1>5, <1>6, <1>7 DEF ScriptStep

LEMMA ScriptStaysInRun == ScriptStep => run' = run
  BY DEF ScriptStep, StartChainA, StartChainB, Submit, Ask, InitRelayer, CheckBalance, GiveUp,
         RestartRelayer

\* What is not a command of the script leaves the script where it is, or is
\* its user.
LEMMA OtherSteps ==
  ASSUME [Next]_vars, ~ScriptStep
  PROVE  UNCHANGED <<run, pc, retries>> \/ StartAgain
  BY DEF Next, NodeListens, Commit, RelayerStarts, RelayerDelivers, Dies, vars

LEMMA VariantStep == VariantInv /\ [Next]_vars => VariantInv'
  <1> SUFFICES ASSUME VariantInv, [Next]_vars PROVE VariantInv'
    OBVIOUS
  <1>1. TrackedInv'
    BY TrackedStep DEF VariantInv
  <1>2. CASE StartAgain
    BY <1>1, <1>2 DEF StartAgain, VariantInv, Commands
  <1>3. CASE ScriptStep
    BY <1>1, <1>3, ScriptSteps, ScriptStaysInRun DEF VariantInv
  <1> QED
    BY <1>1, <1>2, <1>3, OtherSteps DEF VariantInv

\* Within a run only the script's own commands move it, each of them forward,
\* and it has none left exactly when it is over.
ForwardStep ==
  /\ CommandsLeft \in Nat
  /\ CommandsLeft = 0 <=> Over
  /\ ScriptStep => CommandsLeft' < CommandsLeft
  /\ ~ScriptStep /\ run' = run => CommandsLeft' = CommandsLeft

ScriptAdvances == [][ForwardStep]_vars

\* However the restarts of the relayer turn out, a run is over after at most
\* 17 commands: the loop of the script cannot go on for ever, and nothing the
\* nodes and relayers do or fail to do takes the script back.
THEOREM ScriptOnlyAdvances == Spec => ScriptAdvances
  <1>1. Init => VariantInv
    BY TrackedInit DEF VariantInv, Init, Commands
  <1>2. VariantInv /\ [Next]_vars => [ForwardStep]_vars
    <2> SUFFICES ASSUME VariantInv, [Next]_vars PROVE ForwardStep
      OBVIOUS
    <2>1. CommandsLeft \in Nat /\ (CommandsLeft = 0 <=> Over)
      BY CommandsLeftIsNat
    <2>2. ScriptStep => CommandsLeft' < CommandsLeft
      BY ScriptSteps
    <2>3. ASSUME ~ScriptStep, run' = run PROVE CommandsLeft' = CommandsLeft
      <3>1. ~StartAgain
        BY <2>3 DEF StartAgain, VariantInv
      <3>2. UNCHANGED <<pc, retries>>
        BY <2>3, <3>1, OtherSteps
      <3> QED
        BY <3>2 DEF CommandsLeft
    <2> QED
      BY <2>1, <2>2, <2>3 DEF ForwardStep
  <1> QED
    BY <1>1, <1>2, VariantStep, PTL DEF Spec, ScriptAdvances

==============================================================================
