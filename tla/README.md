# Verification of the ICA controller contract

The repository is a CosmWasm contract that controls an interchain account on
another chain over one ordered IBC channel (ICS-27), and a script that deploys it
on two local chains with a Hermes relayer. This directory holds TLA+ modules that
model the contract, what it talks to and the script, TLC configurations that check
them on small instances, and TLAPS proofs of the main properties for every value of
the constants. Paths below are relative to the repository.

## The system

| Part | State | Operations | Hard behaviour |
|---|---|---|---|
| Entry points and executes, `src/contract.rs` | - | `instantiate`, `send_custom_ica_messages`, `ica_bank_send`, queries | a send reads `ica_info`, which outlives the channel it describes; a client acts on queries that are old by then |
| Storage, `src/types/state.rs` | `STATE` (admin, `ica_info`), `CHANNEL_STATE`, `CALLBACK_COUNTER` | `set_ica_info`, `close`, increments | three items that must agree; `u32` counters that abort on overflow |
| Handshake, `src/ibc/handshake.rs` | through storage | `init`, `on_acknowledgement`, `confirm` | checks made at OpenInit are acted on at OpenAck; handshakes of several channels interleave; reopening |
| Packet callbacks, `src/ibc/relay.rs` | through storage | acknowledgement, timeout | callbacks of another channel than the stored one; acknowledgements that do not parse |
| Events, `src/ibc/types/events.rs` | - | `packet_ack` | they are all an observer has to tell one packet from another |
| Errors, `src/types/error.rs` | - | - | which refusals may go away when the relayer tries again |
| Metadata, `src/ibc/types/metadata.rs` | - | `from_channel`, `validate`, `is_previous_version_equal`, `validate_ica_address` | empty, unparsable and wrapped versions; a query that may fail |
| Packets, `src/ibc/types/packet.rs`, `cosmos_msg.rs` | - | build data, `to_ibc_msg` | two encodings; tags and account fields the host must know; a timestamp that overflows |
| Stargate query, `src/ibc/types/stargate.rs` | - | `counterparty_connection_id` | not supported on every chain |
| Deployment, `set_up.sh`, `config/*.sh` | processes, ports, `hermes.pid`, `RETRIES` | start chains and relayer, open the channel, send, retry | background processes, retries, port clashes, a second start after a failure |
| Schema, `src/bin/schema.rs`; container and build files | - | - | - |
| Outside: IBC core, fee middleware, ICA host, relayer | channel ends, packet commitments, account | ICS-04 datagrams | reordering between channels, loss of acknowledgements when an ordered channel closes |

The users call `execute`; the contract answers with a `SendPacket` message that
the core runs in the same transaction. A relayer carries datagrams between the
chains; the core of the controller chain turns each into a callback of the
contract. A callback or execute that returns an error or panics aborts its whole
transaction, the core's part included.

What makes each part correct:

- metadata: only metadata for the channel's connection, with an admissible
  address, is accepted, and a reopening proposes what the last channel had;
- handshake and storage: account, channel id and encoding come from one handshake;
  at most one channel is open; the stored status is the core's; a channel that
  closed can be had again;
- executes: a packet spends from the account of the channel it leaves on, in the
  encoding of that channel, and the host can read it;
- callbacks and events: each packet is counted once, in the right counter, and only
  a packet that never ran is counted as timed out; the events name the packets;
- all together: packets settle, handshakes complete, closes arrive;
- script: it ends, does not kill or mistake its chains, keeps one relayer, and sees
  the transfer when it is there.

## Modules

- `IcaMetadata` - pure operators of `metadata.rs`. A version string that parses is
  represented by the metadata it holds; the other two kinds the code distinguishes
  are the empty string and a string that is not metadata.
- `IcaPacket` - what the contract and the core exchange: `IbcChannel`, packets, the
  timeout computation of `to_ibc_msg`, kinds of acknowledgement. An amount is a
  string that parses as a `u128` or one that does not; custom messages are opaque.
- `IcaController` - the contract. Its variables are the three storage items; every
  handler is one operator, the conjunction of the conditions under which it
  succeeds and of what it writes. `OpenTry`, `OpenConfirm`, `CloseInit` and
  `PacketReceive` always panic and so have no operator.
- `IbcNetwork` - external: both chains' channel ends, packets sent, the host's
  acknowledgements, packet commitments, block time.
- `IcaSystem` - the composition: each action conjoins a step of the core with the
  handler it calls. It states most properties and the fairness.
- `IcaErrors` - the result each handler returns: `Ok` or the first error it runs
  into, in the order of its checks. A relayer learns from it whether to try again.
- `IcaEvents` - `IcaSystem` with an observer, who sees the events and at some time
  reads the counters.
- `IcaEncoding` - the example messages, the two forms of packet data, and what the
  host reads in them.
- `IcaClient` - `IcaSystem` with the admin's client, which queries the contract item
  by item, builds custom messages from the answers and sends them later. Here the
  custom messages are no longer opaque. The client itself is not in the repository.
- `IcaSession`, `IcaRefinement` - what the contract promises its admin without
  channels and packets (sessions over one account, one after the other, callbacks
  only during a session), and the mapping under which `IcaSystem` implements it.
- `Deployment` - `set_up.sh` with `init-chain.sh` and `init-relayer.sh`, independent of
  the others: `pc` is the command the script is at, nodes and relayers are processes
  that start, listen, work and die beside it, transactions are submitted by one
  command and committed later. Starting the script again after a failure is an action
  (`StartAgain`), and the processes of the failed run stay.
- `MCIcaSystem`, `MCIcaEvents`, `MCIcaClient` - constants for TLC.
- `IcaSystem_proofs`, `IcaErrors_proofs`, `IcaAccounting_proofs`, `IcaEvents_proofs`,
  `IcaClient_proofs`, `IcaRefinement_proofs`, `Deployment_proofs` - the theorems.

Operators whose comment begins with "Mutant" are variants of a handler with a
plausible mistake in it; each property is known to be violated by one of them.

### What is assumed of the environment

- The controller's core records a version at OpenInit and the host's version at
  OpenAck, and then also the counterparty's channel id. The repository does not pin a
  wasmd version, so the channel shown to `ibc_channel_connect` may hold the old or the
  new value of each (`ShownAtAck`).
- `FeeMiddleware`: the counterparty chain uses the fee middleware. As the comment at
  `metadata.rs:76` describes, the recorded version of a handshake begun with an empty
  version is then wrapped and does not parse as metadata, and stays so; one begun with
  metadata, as in `config/init-relayer.sh:43`, is not wrapped. The counterparty's
  version that `on_acknowledgement` parses is never wrapped in the model: otherwise
  the contract would store nothing, and there would be no previous version for that
  comment to speak of.
- The host checks the connection ids it is proposed, refuses a handshake while it
  has an open channel on the connection, echoes the metadata with the account's
  address filled in, and keeps one account per connection.
- Ordered delivery: packets are received, and acknowledgements delivered, in order.
  A timeout needs a proof that the packet was not received and cannot be; it closes
  an ordered end. Whether the core still lets packets of an already closed end time
  out differs between versions: `TimeoutClosedEnds`.
- Both chains share one clock. A host that may close its end is `HostMayClose`.
- `ConcurrentHandshakes = FALSE` says that a handshake begins only when no other
  can still complete, as in `config/init-relayer.sh`, which creates one channel.
  Nothing enforces it: anybody may submit an OpenInit, and the repository's README
  (caveat 1) expects handshakes to be retried. A handshake the host refuses stays
  INIT for ever and does not count as pending.
- The host knows the six message types by the type urls and signer fields of the
  Cosmos SDK (`Signers`).
- Script: a running chain makes a block during `AVG_BLOCK_TIME` (`Waited`), although the
  relayer's configuration allows for blocks of 10 s where the script waits 8 s. Only
  the waits of that length are relied on: those of `info` before store, instantiate,
  `init-relayer.sh`, the account's query and the send (`set_up.sh:70,83,99,114,161`),
  and the one in the loop (`set_up.sh:179`). The waits of 3 s (`set_up.sh:125,138,145,153`)
  guarantee nothing: no command after them is taken to find an earlier transaction
  committed because of them. Further, a node whose RPC port is taken exits;
  accounts are made anew by each run, so that a chain of an earlier run refuses
  its commands; a relayer signs with the script's accounts, so that a transaction
  sent beside it may be dropped. What the relayers of an earlier run do is left
  out, as is the packet's own timeout of 600 s, longer than the loop's waits.

## Runs

| Run | Asks |
|---|---|
| `Sequential` | one handshake at a time: types; account, channel and encoding belong together; packets leave for the right account; counters are exact; the stored channel mirrors the core; what OpenInit let through is not refused at OpenAck; a closed channel can be had again; a channel is replaced only when closed |
| `Concurrent` | handshakes interleave, closed ends' packets time out, an observer looks on: which of these survive; is at least the channel called open open in the core; do the events identify every packet and its outcome; what may be concluded from an old reading of the counters |
| `Refinement` | three channels in sequence, the counterparty behind the fee middleware, implement `IcaSession`; a stored version that is wrapped is final, while a channel begun with metadata can be followed by others |
| `Liveness` | packets settle, handshakes complete, a close by the host arrives; of the errors an OpenInit is refused with, only `ActiveChannelAlreadySet` can go away |
| `Client` | a client that sends what it encoded from earlier, torn reads, closes, late timeouts and reopenings in between: the host can read every packet and finds it signed by its account; account and encoding of the first channel, whichever they are, never change |
| `Deployment` | two runs of the script over processes that may die: it ends, no second relayer of a run is left, a waiting packet is picked up although relayers turn deaf |
| `TwoActiveChannels`, `MisattributedTimeout`, `RefusedFallback`, `ChainKilled`, `StaleChain`, `UncheckedRestart` | sentences of the source the code does not keep, see below |

Bounds. Two connections with one account each, so that an account can be the wrong
one; two channels (three where reopening twice matters), since the contract stores
one channel and every confusion is between the stored one and another; two packets
in all (`MaxPackets`), enough for one to time out while another is acknowledged or
still in flight, and for two channels to have one each; counters up to 1 or 2
(`MaxU32`), so that saturation happens; block times before and at the default
timeout, and in `Concurrent` one in between so that the second of two packets
expires first; an address of 129 characters in `Sequential`, which
leaves one account to be stored there, and two in all other runs; a `timeout_seconds`
beyond `MaxTimestamp` in `Sequential`. In `Liveness` three kinds of proposal, so that each
error occurs. In `Client` one packet, since its data depends on no other packet,
but all six message types, both encodings, both accounts and handshakes begun with
and without a version. In `Deployment` two runs, since the second is already
met by everything a first can leave, and the script's own three restarts.
Channels are interchangeable and the safety runs use that symmetry. Deadlock is not
checked: the contract may idle for ever, a bound on packets ends every behaviour,
and the script ends.

Fairness of `Liveness`. The relayer's configuration enables channels and
packets, clears pending packets on start and every 100 blocks, and `set_up.sh`
restarts it when it hangs; so each datagram that stays possible is delivered: weak
fairness per channel and packet. Blocks keep being made. Nobody is obliged to begin
a handshake, to send, or to close. `PacketSettles` excepts a channel that closed, an
acknowledgement the contract cannot parse, and a saturated counter: in each of
these the callback really never comes. `HandshakeCompletes` supposes that the
metadata names the host's connection and that the account's address is admissible.
`HostCloseReachesContract` supposes that the stored channel equals the core's: when
the core changed the version or the counterparty's channel id after the callback,
`confirm` refuses the close for ever.

Fairness of `Deployment`. The script is scheduled, nodes that started listen or
exit, chains that run make blocks, a relayer that runs starts up and delivers
unless it is deaf. Nothing has to die, and nobody has to start the script again.
`PacketPickedUp` excepts a run that lost a chain or its relayer.

### Disagreements with the source's own words

- `TwoActiveChannels`: `handshake.rs:92` and `state.rs:153` say that only one channel
  is supported. `init` refuses a second one only when the first is already
  acknowledged, and `on_acknowledgement` does not look again: two handshakes that
  interleave leave two open channels, the first one forgotten.
- `MisattributedTimeout`: `relay.rs:46` says the underlying channel end is closed. The
  callback closes whatever channel is stored; after the interleaving above that is
  another one, whose end is open.
- `RefusedFallback`: `metadata.rs:71` presents the query for the counterparty's
  connection as the fallback when the stored version cannot be read, and names the
  wrapped one as the case. With a stored channel `init` compares what the fallback
  built with the stored version (`handshake.rs:98`), and nothing equals one that does
  not parse: where the comment's case arises the fallback never helps, and the
  contract cannot have another channel (`WrappedVersionIsFinal`).
- `ChainKilled`: the README sets up two chains as background processes. Before it
  starts chain B the script kills what listens on chain A's port (`set_up.sh:64`):
  chain A itself, if it listens by then.
- `StaleChain`: the README says to start the script again after a failure. Chain B's
  port is never cleared, so the old chain B stays, the new one exits, and the script
  talks to a chain that does not know its accounts.
- `UncheckedRestart`: the README says the script restarts the relayer for the test to
  proceed. The loop leaves before it looks at what the third restart delivered
  (`set_up.sh:178`), and fails with the transfer executed.
- Two smaller ones have no run: `metadata.rs:30` says that only JSON is supported,
  while the contract speaks both encodings and the script uses proto3; and the comment
  at `config/init-chain.sh:265` lists 6060 among the ports it remaps, which it does not.

## Proofs

For every value of the constants, under the named assumptions of the modules:

`IcaSystem_proofs`
- `TypeCorrect`: the types, one step per operation.
- `InfoDescribesStoredChannel`, `PacketsHaveProvenance`: whatever the interleaving.
  They are inductive (`IdentityInv`) with `HandshakeRecords`, which ties the core's
  end, the host's end and the proposed metadata of a channel together. The argument
  is that an end never loses its connection or its proposal (`EndsStep`), that an
  acknowledgement sets account, channel and encoding in one step
  (`OpenAckDescribes`), and that every other step keeps them or only closes.
- `OpenIsOpen`: whatever the interleaving, and also if packets of closed ends time
  out. It is inductive with `IdentityInv`: every step that closes an end also marks the
  stored channel closed, whichever that is (`OpenEndStays`).
- `StoredMirrorsCore`, `ReplacedOnlyWhenClosed`: assuming that handshakes come one at a
  time and that packets of closed ends do not time out. The first assumption alone
  gives `OneHandshakeInv`: at most one handshake can still complete, and the host
  answers only that one; an acknowledgement leaves none (`AckLeavesNonePending`).
  `MirrorInv` adds that none is pending while the stored channel is open, for which
  the second assumption is needed: a late timeout would close a channel not its own.
- `IdentityStable`: assuming only that handshakes come one at a time. `StableInv` adds to
  `OneHandshakeInv` that the stored version speaks of the stored account, which makes
  `is_previous_version_equal` compare the right thing, and that the pending handshake
  proposes that account's connection and encoding.
- `WrappedIsFinal`: under the same assumption, and with or without the middleware. No
  handshake is pending while a stored
  version is no metadata: none can begin, and the one that stored it was alone.

`IcaErrors_proofs`
- `OpenInitExact`, `HandlersExact`: the errors are those of the handlers, no more and no
  less: a handler takes its step exactly when its result is `Ok`, in both directions
  for every handler.
- `ClosedCanReopen`: whatever the interleaving. `ReopenInv` adds to `IdentityInv` that
  of every end, and of the stored channel, the proposal and the version, if it parses,
  are valid for its connection and differ in the address alone.
- `AnswersAccepted`: whatever the interleaving, from `ReopenInv` too: the host's answer is
  the proposal that passed OpenInit with the account's address filled in, so only the
  address can still be refused. It is the safety part of `HandshakeCompletes`.
- `RefusedForGood`: a refusal other than `ActiveChannelAlreadySet` is for ever, if
  handshakes come one at a time. The property speaks of all later states, but it is
  one of safety. `Hopeless` says what is wrong with such a proposal; a refusal shows
  it (`FinalErrorIsHopeless`), it implies a refusal (`HopelessIsRefused`), and no step
  mends it, because of the stored version only the address ever changes, or it becomes
  one that is no metadata, which nothing equals (`StoredVersionStep`). For this
  `RefusalInv` adds to `ReopenInv` and `OneHandshakeInv` that the pending proposal was
  compared with the version still stored.

`IcaAccounting_proofs`
- `CallbacksAccounted`: whatever the interleaving, and also if packets of closed ends
  time out. `AccountingInv` adds that only packets sent are waited for, and that a
  packet counted as timed out is beyond execution: its time is over or the host's end
  is closed, neither of which is ever taken back (`HostClosedStays`). Without it
  the host could execute such a packet later. A step settles nothing
  (`NothingSettled`) or one packet (`OneSettled`).

`IcaEvents_proofs`
- `CountedSettles`: counters only grow, and add up to no more than the settled packets.
- `EventsIdentify`: whatever the interleaving. `EventsInv` is the property with
  `AccountingInv`: a step that emits settles one packet that was not settled before,
  and the event it appends names that packet; every other step settles nothing that
  the host answered.
- `ObserverImplementsSystem`: the observer only looks on.

`IcaClient_proofs`
- `ClientImplementsSystem`: what the client sends is a custom send of `IcaSystem`, so that
  everything above holds of `IcaClient` too. `ClientAssumption` says that the opaque
  messages of `IcaSystem` include those the client builds.
- `PacketsAreExecutable`: assuming that handshakes come one at a time. `ClientInv` adds to
  `StableInv` that the account and the encoding the client has read, however long
  ago, are those the contract has now, and that what was fit for the channel it was
  sent on stays so. Both need that account and encoding never change, and so it does
  not hold when handshakes interleave.

`IcaRefinement_proofs`
- `ContractImplementsSession`: the refinement, under both assumptions of
  `StoredMirrorsCore`. OpenAck maps to `Begin`, an acknowledgement to `Callback`, a
  timeout or a confirmed close to `End`, all else to a stutter; that `Begin` is enabled
  is `MirrorInv`, that it keeps the account is `StableInv`.

`Deployment_proofs`
- `OnlyOneRelayer`: `TrackedInv` adds that a run has no relayer before
  `init-relayer.sh` and that a restart takes a number not used yet. Any number of runs.
- `ScriptOnlyAdvances`: every command lowers `CommandsLeft`, a number of at most 17, and
  nothing else raises it but starting the script again. That a run ends then only
  needs that its commands go on being run, which is the fairness `ScriptEnds` assumes.

Only model-checked: the liveness properties, `PacketSettles`, `HandshakeCompletes`,
`HostCloseReachesContract`, `ScriptEnds` and `PacketPickedUp`, since liveness under
fairness is out of the prover's reach; and the six properties that are violated.
Every other property of the runs is a theorem.

## Not modelled, and the plan

Not modelled: the text of JSON and the bytes of protobuf (only what the two sides tell
apart is kept), the schema writer (no state, no behaviour), container and build files,
the making of genesis and configuration files by `init-chain.sh`.

1. A finer relayer in `IcaSystem`: a hang and a restart as actions, so that the fairness
   of `Liveness` is derived from clearing on start as it is in `Deployment`.
2. What the liveness properties rest on, as far as it is safety: that a packet which
   can neither be acknowledged nor time out is one `PacketSettles` excepts.
