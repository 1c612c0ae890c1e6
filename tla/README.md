# A TLA+ model of the Photon node (SuperNode)

Photon is an off-chain payment network: pairs of nodes open a channel in the
TokenNetwork contract, exchange signed balance proofs, and route payments over
several channels with hash locks. SuperNode is the Photon node of MetaLife plus
a loop that pays rewards over its channels. This directory holds TLA+ modules
of the parts of the node in which two actors, or an actor and a failure, can
meet; TLC configurations; and proofs checked by TLAPS. `PROJECT.json` maps
every definition to the lines it models, and lists runs, mutants, hazards,
findings and theorems.

## 1. Inventory

| Component | State it keeps | Operations | What is hard | What makes it correct |
|---|---|---|---|---|
| Payment channel (`channel/`, the handlers in `messagehandler.go`, `eventhandler.go`) | each node's copy of both `EndState`s: deposit, balance proof, lock tree, pending and unclaimed locks | direct and mediated transfer, unlock, remove expired, announce disposed and its response, register a secret, deposit | two nodes sign concurrently; each sees blocks, deposits and secrets at its own time | both ends agree on balance proofs, never sign away more than there is, never lose a lock whose secret was on chain in time, never block each other |
| Message protocol (`network/protocol.go`, `sendAsync`, `restore.go`) | a queue and goroutine per channel, hash table of sent messages, saved envelopes, saved Acks | queue, send, retry, Ack, forget, restart | loss, duplicates, crash of either end between two saves, an Ack for what was not saved, a goroutine going to sleep | in-order exactly-once registration; a message is kept until it is registered; everything handed over arrives |
| Mediator (`transfer/mediatedtransfer/mediator`) | a `StateManager` with a pair (payer, payee), routes, secret | init, refund by a payee, secret off chain and on chain, balance proof, block | expirations of two channels, refunds, closing, an uncooperative payer | a paid payee is covered by the payer; one payee at most; the transfer ends |
| Initiator, target, crash-node machines (`transfer/mediatedtransfer/`, `restore.go`) | a `StateManager` each, the locks in their channels, the transfer's recorded status, the caller's result | start, refund and retry, secret request and reveal, cancel, expiry, restart | hops that do anything, cancel racing a refund, a crash between two locks, late registration | pays at most once, never for what was reported as failed; the target is paid; the caller gets an answer |
| Chain events (`blockchain/events.go`) | block of the last poll, `txDone`, the event channel, the saved block | poll, confirm, sort, dispatch, restart | missed polls, reorganisations, restart | no event lost, in order, secrets before the blocks that depend on them |
| Close and settle (`channel/`, `TokensNetwork.sol`) | the channel's state, what the node believes the contract has, calls not mined yet, the contract's record | close, update, unlock, punish, settle | calls and events of both ends in any order, old proofs, disposed locks | an honest node is paid what its books say, can settle, is not punished |
| Withdraw and cooperative settlement | the channel's state and open block, requests and responses, contract state | prepare, ask, accept, call, follow the event | crossing requests, payments in flight, a channel opened anew | one agreement at a time, no payment undone, both ends in step afterwards |
| Reward loop (`supernode/`, `pubChannelCheck` in `photonService.go`) | snapshots of channels and ledger | open, top up, pay | acts on snapshots after waiting for the chain | each reward is paid once |
| Matrix wake-up, token swap, fees, graph and routes, Merkle tree, storage, encodings, REST/mobile/CLI | see the component list of `PROJECT.json` | | | |

Interactions: the event loop of `Service` takes messages, chain events and user
requests one at a time. A handler changes channels, dispatches a state change
to the state machines, saves the channel and calls `sendAsync`. The
protocol's goroutines run beside the loop and report back through a channel of
results. The alarm task polls the chain and feeds blocks and events into the
loop. Each module takes one of these seams.

## 2. Modules

| Module | Models | Composition |
|---|---|---|
| `Channel` | the two nodes of one open channel, their queues, and the chain | the delivery of `Protocol` is abstracted to a FIFO whose head stays until it is registered; the event order of `ChainEvents` is the guard of `handleBlockStateChange` |
| `FiniteSums` | lemmas about sums over finite sets | |
| `ChannelProofs` | theorems about `Channel` | extends `Channel`, `FiniteSums` |
| `ReliableDelivery` | abstract specification of the message layer | |
| `Protocol` | the sending queue of one channel, with threads, database, network and restart | implements `ReliableDelivery` |
| `ProtocolProofs` | theorems about `Protocol` | extends `Protocol` |
| `Mediator` | one mediated transfer at the mediating node | channels abstracted to the state of their lock |
| `MediatorProofs` | theorems about `Mediator` | extends `Mediator` |
| `ChainEvents` | alarm task, event channel and main loop against a chain that reorganises | |
| `ChainEventsProofs` | theorems about `ChainEvents` | extends `ChainEvents`, `FiniteSums` |
| `Settlement` | a channel that is closed and settled: both nodes, their calls, the contract, its events | extends `Channel`; implements `Escrow` |
| `SettlementProofs` | theorems about `Settlement` | extends `Settlement`, `ChannelProofs` |
| `Negotiation` | withdraw and cooperative settlement between the two nodes and the contract | extends `Channel`; implements `Escrow` |
| `NegotiationProofs` | theorems about `Negotiation` | extends `Negotiation`, `ChannelProofs` |
| `Escrow` | abstract specification of the contract's custody of one channel's tokens | |
| `Payment` | one payment from the initiator to the target, with restarts of both | mediators are the environment: `Mediator` has what they may rely on; channels abstracted to their locks |
| `PaymentProofs` | theorems about `Payment` | extends `Payment`, `FiniteSums` |
| `MCChannel`, `MCProtocol`, `MCMediator`, `MCChainEvents`, `MCSettlement`, `MCNegotiation`, `MCPayment` | instances for TLC | |

Definitions keep the names of the Go functions. Definitions marked
"Mutant" are faulty variants of the definition that follows them; the mutants
listed in `PROJECT.json` put them in its place and TLC must then find the named
property violated. They take no part in the specifications.

### Channel

`end[n][m]` is node n's `EndState` of participant m: contract balance, balance
proof (nonce, transferred amount, locks root), tree, pending, unclaimed and
on-chain locks. A Merkle root is the set of locks it commits to (hashes do not
collide), a secret is the lock it opens, signatures cannot be forged. A message
is created from the sender's state, registered there with the code the receiver
will run (`Send`), and appended to `queue[n]`. The receiver's handlers are
`messageX`; a handler that returns an error changes nothing and the message
comes again, so a refused message stays at the head. `AnnounceDisposed` carries
no balance proof and travels outside the queue. `blk[n]` is the block a node
has reached; a secret's event is handled before the blocks after it. `fate` is a
history variable.

A secret can be known only after the target asked for it, hence only after the
receiver of this channel's lock has registered the lock (`Revealable`). A node
may be told of a deposit late, and before or after its partner.

Assumptions: `NodesAssumption` (two different nodes), `LocksAssumption` (finitely many locks, which
have a sender, a positive amount and an expiration), `NumbersAssumption`
(deposits are natural numbers, direct transfers positive, `ForkConfirmNumber`
positive).

### Protocol

One direction of one channel. `todo` is what the current handler of the event
loop still has to do, one entry per call that changes shared state; `Program`
gives the two orders in which the code saves: `channelFirst`
(`eventSendUnlock`, `eventSendMediatedTransfer`) and `envelopFirst`
(`directTransferAsync`). `gpc` is the program counter of the goroutine; taking
from the queue, finding it empty and waiting on `wakeUpChan` are separate
because `mapLock` is released between the last two. `CrashAndRestart` keeps
only `savedNonce` and `envelopes`; `Resend` is `reSendEnvelopMessage`, after
which `StartReceive` opens the receiving side.

The partner's `receiveInternal` has four ways. It resends a saved Ack
(`resendAck`); it registers the message and saves channel and Ack in one
transaction (`receiveMessage`, `UpdateChannelAndSaveAck`); it registers a lock
that is late, disposed of before or a duplicate, and acknowledges it without
saving the channel (`receiveUnsaved`); it acknowledges a RemoveExpired for a
channel that cannot continue without registering it (`receiveSkipped`). In the last
two the Ack is sent first and saved afterwards (`pending`, `saveAck`).
`savePartnerChannel` is any later save of the channel. `crashPartner` takes the
partner back to what is saved. What it skipped, or acknowledged and then
forgot, is in the history variable `lapsed`. A handler that returns an error is
`lose`. The network is a set of packets that loses, reorders and delivers again.
`env`, chosen at the start from `Environments`, says which save orders the node
uses, how often each end may crash, and whether the channel may stop or be removed.

### Mediator

`pair` is the one `MediationPairState` (a refund replaces it), `payerLock` and
`payeeLock` what became of the locks in the channels, `canPunish` the routes
whose `AnnounceDisposed` is stored (`MarkLockHashCanPunish`). Channel 0 is the
payer's, channel i that of route i; any in `MayClose` may be closed. A payee may
give its lock up after its channel was closed: the next route is tried, the
response fails (`channel.go:845`) and the lock stays, but unlocking it can be
punished, which is why `Claimable` leaves it out. The transition steps
(`eventsForRevealSecret`, `eventsForBalanceProof`, `eventsForRegisterSecret`,
`setExpiredPairs`, `clearIfFinalized`) are operators on the pair, combined by
the handlers in the order of the code. Amounts, capacity and fees are the
`usable` flag of a route. A `RevealSecret` is handled once for each sender,
since its second arrival finds a saved Ack. The payer may pay or not; a
registration asked for at block b is mined by b + `RevealTimeout`, which is what
the reveal timeout is for. The node handles each block before the next is
mined; blocks beyond `MaxHeight` are handled like the last. An `AnnounceDisposed`
for a lock whose secret reached the chain too late finds the lock pending and the
secret in the state manager, and the handler panics (`transition.go:916`); the model
takes no such step.

### ChainEvents

An event is a number with the block it is mined in. `Poll` is a round of
`startAlarmTask`: the window starts `2 * ForkConfirmNumber` blocks before the
previous poll; events in `txDone` with the same block are dropped, those that
need confirmation are held back; the rest goes out sorted, blocks between them.
`handleEthRPCConnectionOK` restarts the task with `txDone` kept,
`CrashAndStart` without. `Reorg` moves an event among the last
`ForkConfirmNumber` blocks. Nothing bounds the blocks that pass between two polls,
during a lost connection or while the node is down, except the length of the chain
(`MaxHeight`); `jumpedAt` remembers the newest block of the last poll that passed
over more than `ForkConfirmNumber` blocks. A round whose query fails changes nothing
and is not a step. (`parseLogsToEvents` notes logs in `txDone` one by one, so a
log that cannot be unpacked, `events.go:420`, would leave those before it noted and
not delivered; the logs of the deployed contracts always unpack, and the model has no
such log.) `EnableForkConfirm` is a variable that keeps the
value it starts with: off (the default) every event goes out at the first poll
that sees it, on (the flag `--enable-fork-confirm`) after confirmation. The other
modules assume the default order of events.

### Settlement

Adds to `Channel` what happens once `Close` is called. `contract` is the channel
in TokensNetwork: state, closer, deposits (`share`), the last proof of each
participant and the locks unlocked under which nonce; a balance hash is the pair
it commits to. The `...OK` operators are the `require` statements, the actions of
the same name the calls. `pool[n]` holds the calls of n that are not mined:
a call is estimated before it is sent (`Sent`), mined in the order of the account,
and may revert by then (`Revert`); a close may be lost (`Drop`). `log` is the list
of contract events, `seen[n]` how far n has handled them, `onContract[n][m]` the
`ContractTransferAmount` and `ContractLocksRoot` n has noted for m. The handlers
`handleClosed`, `handleBalanceProofOnChain`, `handleUnlockOnChain`,
`handlePunishedOnChain`, `handleSettled` stand for the event handler together
with the `Channel.Handle...` function it calls. The transfers of `Channel` go on
under the guards of the channel's state (`CanTransfer`, `CanDealUnlock`,
`CanContinueTransfer`, `IsClosed`). A node in `Cheaters` runs the same code
except that `ExternalState.Unlock` does not skip disposed locks.

### Negotiation

Adds to `Channel` the states around withdraw and cooperative settlement. A request
travels in the queue of balance proofs, a response beside it. `epoch` is the open
block number: a withdrawal opens the channel anew, each node resets its copy when it
sees the event, the sender drops messages of the old epoch and the receiver
refuses them. `calls` are signed by both; one that would revert stays and never
takes effect. `pendingDeposit` is a deposit call that `withdraw` finds in the
table of transactions. `cooperativeSettleChannel` and `DepositAsync` take any
state, since the state was checked in the database by another goroutine. After a
close the module stops: `Settlement` goes on.

### Payment

`ini` and `tgt` are the state managers of the initiator A and the target T with
the fields of `InitiatorState`, `TargetState` or, after a restart, `CrashState`.
`lock[r]` and `tlock[r]` are the locks in A's channel with the first hop and in T's
channel with the last hop of route r. `status` is `SentTransferDetail.Status`,
`result` what the caller received. `responding` separates, in the handler of
AnnounceDisposed, sending the new lock from responding for the old one: each
saves, and a crash may come between. A route that is chosen need not get its lock
(`CanLock`): the choice looks at the amount without the fee, and the channel with the
first hop may still hold a lock of this payment; the machine then runs on without one.
A restart of A keeps locks and status, loses secret, routes, the caller and the
messages that are not saved, and sees the chain's events again; a restart of T can also
lose a lock that is in no saved copy of its channel (`Unsaved`: one that came too late to
ask for the secret, or besides a running transfer).
Mediators may forward, forward too little, give up, keep back, and use any secret
that was told to one of them; anyone with the secret may register it. T
handles each block before the next, A may lag. What T asks the registry is mined
within `RegisterDelay` blocks.

## 3. Runs

Every passing run checks each of its properties against a mutant.

| Run | Bounds | Shows |
|---|---|---|
| `channel` | two locks, one in each direction, amounts 2 and 1, deposits 2 and 0 with one more possible, 4 blocks, direct transfers up to nonce 2 | `ProofAgreement`, `BooksMatchProof`, `Solvent`, `TimelySecretNeverExpires`, `HeadAcceptable`; every signed balance proof is registered in the end (`EveryMessageRegistered`) |
| `protocol` | 2 messages in five environments: a crash of the sender with both save orders, one with the channel saved first, a crash of the partner, a channel that is removed, one that stops | `Delivery` (refinement of `ReliableDelivery`, for a sender that saves its channel first), `KeptUnlessLapsed`; a message once begun is acknowledged and forgotten (`BegunIsAcknowledged`) |
| `protocol_wakeup` (violation) | 2 messages | finding 1 |
| `mediator` | 3 routes (unusable, long, short settle timeout), the payer's channel and those of the usable routes may close, payer's expiration 9, reveal timeout 2, 12 blocks | `PaidPayeeIsCovered`, `OnePayee`, `DisposedMeansNoPayee`; the transfer ends (`ManagerRemoved`) |
| `mediator_short` (violation) | payee's lock expires at 3, payer's at 9 | finding 2 |
| `chain_events` | 2 events, with and without fork confirmation, 7 blocks with polls and outages of any length among them, a restart, a reorganisation | `NeverLost`, `ConfirmedIsFinal`, `SecretBeforeRemoval` for events that are not held back, without confirmation `InOrder` |
| `chain_events_confirm` (violation) | one event that needs confirmation, 8 blocks | finding 5 |
| `settlement` | deposits 2 and 1, a lock of 2 that may be disposed of and registered, a direct transfer of 2 each way, 5 blocks, settle timeout 1, B may cheat | `SettleArgumentsMatch`, `RegisteredIsSubmitted`, `HonestNeverPunished`, `CheaterLosesAll`, `PaidAsAgreed`, `EscrowKept` (refinement of `Escrow`) |
| `settlement_unlock` (violation) | the same without disposal and cheating, settle timeout 2 | finding 3 |
| `negotiation` | deposits 2 and 0 and one more, a lock of 1, transfers of 1, withdrawals of 1, one reopening, 2 blocks | `OneAgreement`, `NoPaymentUndone`, `OpenedInStep`, `NoneSkipped`, `NoPanicOnResponse`, `EscrowKept` |
| `payment` | two mediated routes with an unusable one between them, the direct channel, a second route without the fee, or two routes over one channel; reveal timeout 2, 8 blocks, 2 crashes of A or T; cancel only without routes left | `PaidOnce`, `FailedIsNotPaid`, `TargetIsPaid`; the caller gets an answer (`AnswerGiven`) |
| `payment_cancel` (violation) | the first two of these lists, cancel at any time before the secret is sent | finding 4 |

Why the bounds are enough. In `Channel` the first lock is as large as A's first
deposit and B starts with nothing, so that spending what was just received,
locks that exhaust a balance, and proofs that cross are all reached; the chain
runs two blocks past the earlier expiration, so the removal of l1, and a secret
registered in its last block, happen, and one block past the later one, the
first in which l2 may be removed. In `Protocol` two messages leave one
sending and one queued or being created when an end crashes, and the partner may
lose one of them or both. An environment says which troubles a behaviour may meet;
they are taken one at a time so that liveness can be checked with all of them, while
the theorems about `Delivery` and `KeptUnlessLapsed` are for any number of messages
and crashes and any mixture. In `Mediator` the heights reach from before the reveal
timeout to past both expirations plus confirmation. In `ChainEvents` the chain is
longer than the window of a query, so an outage can pass over all of it. In `Settlement` one node may close with a
proof older than the last, both may close, the settle window is open for two
blocks and the lock expires inside the run, so proofs with and without the lock,
unlocks, punishments and both orders of update and unlock are mined before
settle. In `Negotiation` both ends can ask for both things, payments and a
lock can be in flight while they do, and the second epoch carries transfers
again. In `Payment` the first lock expires before the last block minus
confirmation, so that expiry, late registration and a retry on a second route all
happen, and two crashes allow both ends to fail, or one of them
twice. Deadlock is not checked: all these systems may come to rest when their
bounded inputs are used up.

Fairness.

* `Channel`: message handlers, weakly, since an unacknowledged message is
  resent for ever; block, deposit and secret events (`FollowChain`), weakly,
  since a running node keeps polling. Nobody is obliged to start a transfer or
  to mine.
* `Protocol`: weak fairness for the two threads, the event loop as one (the Go
  scheduler runs what can run; `resendTimeout` is a timer); strong fairness for the arrival of a packet
  that is sent again and again and for noticing the Ack before the timer; weak
  fairness for `saveAck`, the next statement of `receiveInternal`. No fairness for
  creating messages, losses, crashes, removal, or a later save by the partner.
* `Mediator`: blocks are mined and the node handles them. The payer and the
  payees owe nothing.
* `Payment`: blocks are mined, both nodes handle blocks and events, and a
  handler that has begun ends (`Progress`). Hops, the partner and the user owe
  nothing.
* `Settlement` and `Negotiation` state safety only; a call need never be mined.

## 4. Findings

Each is a run with `expect: violation` whose property restates a sentence of
the repository; the texts, with both places, are in `PROJECT.json`.

1. `protocol_wakeup`: a message appended between the goroutine's look at the
   empty queue and its wait wakes nobody.
2. `mediator_short`: the state of a paid payee is overwritten when its lock
   expires before the payer's, so the secret is not registered for the payer.
3. `settlement_unlock`: `HandleBalanceProofUpdated` takes the participant of the
   event for the one that submitted the proof; the contract names the other one.
   The node that did not close never unlocks after its update.
4. `payment_cancel`: a cancel clears the secret of the current lock only. When the
   hop then gives the lock up, the next route is tried with the real secret, and
   the payment is made after the caller was told that it was cancelled.
5. `chain_events_confirm`: with fork confirmation the first poll after a long outage
   finds the events of the first missed blocks unconfirmed, because it compares with
   the block before the outage, and the window of the next poll starts behind them.

Known limits, met while modelling. Each is excluded by a bound or an exception
that is named here; widening it makes TLC show the behaviour.

* `Channel`, a lock in both `Disposable` and `Registrable`: a lock given up by
  its receiver whose secret then reaches the chain makes the receiver refuse the
  AnnounceDisposedResponse for good (`messagehandler.go:425`), and
  `HeadAcceptable` fails.
* `Protocol`: a crash between saving the channel and saving the message
  (`eventhandler.go:226`) uses up a nonce of which no message is left, and a crash
  between saving a direct transfer and its channel (`photonService.go:962`) lets
  a nonce be signed twice. The partner
  acknowledges a lock that is late, disposed of before or a duplicate without saving
  its channel (`photonService.go:1287`, `target/transition.go:75`), although the
  comment on `UpdateChannelAndSaveAck` wants the two together (`photonService.go:1944`);
  the sender deletes the message, a crash of the partner loses it, and the two ends
  disagree about every later nonce. `KeptUnlessLapsed` names such messages (`lapsed`)
  and allows no others. A crash can also lose the Ack of a message that was saved. `NeverNext`
  names the messages that are stuck for one of these; `BegunIsAcknowledged` excepts
  them, so it says that nothing else gets a message stuck.
* `ChainEvents`: `NeverLost` excepts the events that finding 5 loses. With fork
  confirmation, opened, deposit, withdraw and secret events are held back and closed
  and settled ones are not, so a close can overtake the deposit before it, and a
  block in which an expired lock is removed can overtake the secret registered in
  time; `InOrder` is therefore stated without it and `SecretBeforeRemoval` for
  events that are not held back.
* `Mediator`: closing the payer's channel before the secret is known makes
  `isSecretRegisterNeeded` true and the node asks for the registration of an empty
  secret; the model keeps the change of state and leaves out the useless
  transaction.
* `Negotiation`: a deposit mined between a withdraw request and the withdrawal is
  credited to the partner, since the contract gives it all that is not in the signed
  balance (`photonService.go:1537` looks for pending deposits only before).
  `NoPaymentUndone` counts, for the requester, the deposits it knew of.
* `Payment`: a secret registered after A's lock is over makes the initiator
  remove its state manager; when that is less than `ForkConfirmNumber` blocks
  after the expiration, the lock is not removed and the caller not answered
  (`initiator/transition.go:305`, whose comment says the removal should be sent).
  `AnswerGiven` excepts this, and routes that share their first channel
  (`DistinctHops`): the lock for the second of them is refused as a duplicate
  (`channel/ChannelEndState.go:354`), the response then removes the first one, and at
  the expiration the initiator takes its lock for removed
  (`initiator/transition.go:163`) and ends without reporting the failure. The other
  properties of the run are checked over such routes too. After a crash of A nobody waits for the answer.
* `Settlement`: two secrets registered in one block are unlocked with the same
  transferred amount (`eventhandler.go:352`); the second call reverts and is not
  repeated. The run has one lock.

Met while reading, and not reached by a property:

* The target does not unlock on chain when the secret is registered in the very
  block of the expiration, which the contract would accept
  (`target/transition.go:103`).
* When the settle transaction is lost the channel stays in Settling, from which
  the user cannot settle again (`channel/channel.go:1386`).
* The error message for a withdrawal that is too large reads a request that does
  not exist yet (`channel/channel.go:946`); `Negotiation` takes the check of the
  API before it as a guard.

## 5. Proofs

The theorems hold for every value of the constants that the named assumptions
allow: any locks, amounts, expirations, deposits, messages, routes and bounds. Each
is of the form `Spec => []Inv` (or `Spec => AbstractSpec`), and rests on an
invariant that a step keeps. Where the invariant of the run is not inductive, the
one that is, is named here with the reason.

### Channel (`ChannelProofs`, `FiniteSums`)

| Theorem | Property | Inductive invariant |
|---|---|---|
| `TypeCorrect` | `TypeOK` | itself. `StepKinds` first sorts the actions into those that send an envelope (`SendStep`), receive one, announce, learn a secret, or see the chain, since each kind changes the same variables in the same way |
| `BooksTheorem` | `BooksMatchProof` | itself, with `TypeOK`. `RegisterTransferBooks`: a new lock is fresh, a removed one was known, and the root in the message is the one the tree then has |
| `AgreementTheorem` | `ProofAgreement` | `LanesInv`: the i-th queued message has the receiver's nonce plus i and the last one carries the sender's own proof. Without it nothing says that the head of a queue is the successor of the receiver's proof |
| `TimelyTheorem` | `TimelySecretNeverExpires` | `LockInv` and `QueueInv`: what `fate` records of a lock agrees with both copies of the tree, with the blocks the two nodes have reached and with what is queued about it. A removal is decided by one node's block and carried out at the other's, so the property of a single state is not enough |
| `SolventTheorem` | `Solvent` | `FundedInv`: every proof of a node, its own, its partner's copy and each one in the queue, owes with its pending locks at most its deposit plus what it has received; a copy of a deposit may lag. It speaks of sums over sets of locks: `FiniteSums` proves that such sums exist, are unique, and change by the amount of the lock that comes or goes, by an argument from the least counterexample |
| `HeadTheorem` | `HeadAcceptable` | `ReplayInv`: every queued message is acceptable after the messages before it. Assumes that no lock is both given up by its receiver and registered on chain; without this the property is false (known limits), so the hypothesis is the weakest that the code admits |

### Protocol (`ProtocolProofs`)

| Theorem | Property | Inductive invariant |
|---|---|---|
| `TypeCorrect` | `TypeOK` | `TypeInv`: also that a handler's list of calls ends well (the call after `sendWithResult` may be dropped, so it must be there), and that the goroutine sends a message |
| `KeptTheorem` | `KeptUnlessLapsed` | `AckInv`: an Ack, wherever it is noted, in the network, in either database, in the results, is for a message that the partner has registered, or has itself skipped or forgotten. `HandledGrows`: the set of these only grows, also when the partner crashes |
| `DeliveryTheorem` | `Delivery`, the refinement of `ReliableDelivery` | `OrderInv`: the saved messages have growing nonces, none above the saved one; the registered ones are a prefix of them; everything in flight was saved; and the event loop is either resending or about to save the one new message. `OrderInv` and `Delivery` are for the environments in which the channel is saved before the message (`ChannelFirst`). `directTransferAsync` saves the other way round, and then a crash lets a nonce be signed twice (known limits): the order of the messages is indeed lost |

### Mediator (`MediatorProofs`)

| Theorem | Property | Inductive invariant |
|---|---|---|
| `TypeCorrect`, `OnePayeeTheorem`, `DisposedTheorem` | `TypeOK`, `OnePayee`, `DisposedMeansNoPayee` | `HopInv`: a lock that can be claimed or was paid belongs to the route of the current pair, later routes have none, a payer's lock that was given up leaves no pair. A lock that stayed in a closed channel after it was given up is in `canPunish` |
| `CoveredTheorem` | `PaidPayeeIsCovered` | `CoverInv`: the node is at most one block behind, a registration that was asked for is mined before its deadline, and until it is asked for the pair shows the payee as paid while there is still time. Assumes a reveal timeout of at least 2 and `LocksLastLongEnough`: a payee's lock lasts until the secret has to be registered for the payer. Without the second, finding 2 is the counterexample |

### ChainEvents (`ChainEventsProofs`)

`StateChangesFacts` comes first: a finite set of state changes has exactly one
sorted arrangement, so what a poll appends to the queue contains every event it
found, each after the announcement of its block. Five invariants are kept together (`ChainInv`).

| Theorem | Property | Inductive invariant |
|---|---|---|
| `TypeCorrect` | `TypeOK` | itself |
| `NeverLostTheorem`, `SecretTheorem` | `NeverLost`, `SecretBeforeRemoval` | `DueInv`: an event that is not handled has a place at which it comes, in the queue or after it, and no block that is saved, or announced before that place, is more than `Slack` blocks after the event (`2 * ForkConfirmNumber` if the event needs confirmation, else `ForkConfirmNumber`). A restart begins at any of these blocks, so the property of the present block is not enough. `DoneInv`: what `txDone` drops was delivered. `DueInv` excepts what `NeverLost` does: an event that needs confirmation and is older than a poll over more than `ForkConfirmNumber` blocks (finding 5). Neither theorem bounds an outage |
| `FinalTheorem` | `ConfirmedIsFinal` | `FinalInv`: an event that needs confirmation is at least `ForkConfirmNumber` blocks deep when it enters the queue |
| `OrderTheorem` | `InOrder` | `OrderInv`: of the blocks seen, everything in the window is in `txDone`, so a poll adds only later events; queue and handled events ascend |

### Settlement (`SettlementProofs`)

The steps of `Settlement` are those of the open channel under other guards, the
calls, the mining of calls and the handling of events; `ChannelSteps` reduces
the first to lemmas of `ChannelProofs`, `CallSteps`, `PoolSteps`,
`ContractSteps` and `LogSteps` say what the others may change.

| Theorem | Property | Inductive invariant |
|---|---|---|
| `SettleTypeCorrect` | `SettleTypeOK` | itself; the subtractions in `punishObsoleteUnlock` and `settle` stay natural numbers |
| `EscrowTheorem` | `EscrowKept`, the refinement of `Escrow` | `MoneyInv`: the two shares add up to the deposits, before and after a punishment, and nothing is paid before the channel is gone |
| `HonestTheorem` | `HonestNeverPunished` | `HonestInv`: a node unlocks locks whose secrets are on chain and disposes of locks whose secrets are not; what waits in its pool of calls, and what its partner holds as a proof of disposal, are bounded by these two sets |
| `SubmitTheorem` | `RegisteredIsSubmitted` | `SubmitInv`: the proof calls in the pool carry the amount the node holds, which no longer grows once the channel leaves the open state |
| `PunishTheorem` | `CheaterLosesAll` | `PunishInv`: the share, the proof and the nonce of who was punished by a node that has not cheated itself. Assumes that one of the two nodes is honest (`Cheaters # Nodes`; nobody is protected otherwise), and `NoncesFit`: the nonce of a call fits an uint64, the type it has in the message and in the contract, where a punishment sets it to the largest one |
| `ArgumentsTheorem` | `SettleArgumentsMatch` | `ArgumentsInv`: the contract's proof of a participant is what the last event about it in the log says (`Replayed`), and a node's note of it is what the last such event among those it has handled says; at the end of the log the two are the same |
| `PaidTheorem` | `PaidAsAgreed` | `BackedInv`: a proof that a node signed, in whatever state its partner holds it or hands it in, asks for no more than the node's newest one, not counting locks that expired or were given up (`BackedStep`: a lock that can still be claimed leaves the tree only by an Unlock message, which pays for it). `UnlocksInv`: the contract adds a lock once to a proof, one of its root whose secret was registered in time. `FundsInv`: `FundedInv` for a channel that ends; a punishment may change the booked deposits, but nothing is signed any more that needs them. `ShareInv`: without a punishment the shares are the deposits, and what is paid out is `SettleAmounts`. Together with `LockInv`, `MoneyInv`, `SubmitInv` and `PunishInv`. Assumes `NoncesFit` only; who may cheat is arbitrary |

### Negotiation (`NegotiationProofs`)

A withdrawal resets both nodes' copies, at different times, and drops what is
queued, so the invariants of the open channel do not hold here and `NegInv` is a
new one; of `ChannelProofs` only the lemmas about the operators are used.
`NegStepKinds` first sorts the steps into kinds (`Sent`, `Got`, `Requested`,
`Granted`, `Called`, ...), and one lemma for each kind shows that it keeps the parts
of `NegInv`. Nothing is assumed beyond the named assumptions of `Channel` and `Negotiation`.

| Theorem | Property | Parts of the inductive invariant |
|---|---|---|
| `NegTypeCorrect` | `NegTypeOK` | `FundedHere`: what a node counts as owed is covered by what it counts as deposited, so a request never carries a negative balance. `EpochInv`: a node's epoch counts the withdrawals it has seen in the log |
| `OneAgreementTheorem` | `OneAgreement` | `AgreeInv`: for the epoch of a response or a call both ends have left the states in which they transfer or grant; `UniqueInv`: so there is one for each epoch, as a response or as a call. The property of the calls alone says nothing of the responses that will become calls |
| `InStepTheorem`, `NoneSkippedTheorem` | `OpenedInStep`, `NoneSkipped` | `TrailInv`: a queue leads, requests in between, from the balance proof its receiver holds to the newest one of its sender; a receiver that has not seen the last withdrawal will start from nothing. `LateInv`: who has a request in its queue, or waits for a response, registers nothing new and has none of its partner's locks |
| `NoPanicTheorem` | `NoPanicOnResponse` | `LateInv` |
| `NoPaymentUndoneTheorem` | `NoPaymentUndone`, an action property | `CallInv`: the requester's share in a call is at least what its own books say, and what it leaves is at least what its partner's books say. It needs `TrailInv` (the sender's transferred amount is at least the receiver's copy) and `DepositInv`: within an epoch the announced balances grow, and no node counts more than was deposited |
| `NegEscrowTheorem` | `EscrowKept`, the refinement of `Escrow` | the types; a mined agreement pays out no more than the deposits by the guards of the contract |

### Payment (`PaymentProofs`)

| Theorem | Property | Inductive invariant |
|---|---|---|
| `TypeCorrect`, `PaidOnceTheorem` | `TypeOK`, `PaidOnce` | `CoreInv`: `SecretInv` (until A has sent the secret nobody has it, so nothing is unlocked or registered) and `RouteInv` (while the initiator runs, only the lock of its route, if it could be made, and the one it has still to respond for are under way, and the secret is sent only when there is no such response). `PaidOnce` speaks of the states after the secret is out; what excludes a second lock happens before |
| `FailedTheorem` | `FailedIsNotPaid` | `FailInv`: a failure is reported only when the secret stays with A or no lock is left, and nothing later can change that. Assumes `~ CancelWhileRoutes`; a cancel while there are routes to try is finding 4 |
| `TargetTheorem` | `TargetIsPaid` | `ClaimInv`: each safe lock is unlocked, registered in time, awaits a registration before its expiration, or belongs to a machine that has still the time to ask for one; and its secret is known, so the channel was saved and no crash loses it. Assumes `RegisterDelay < RevealTimeout`: the machine of a node that has crashed registers one block later than that of a target. With `RegisterDelay = RevealTimeout` TLC finds a lock that is lost |

### What is only model-checked

* The temporal properties `EveryMessageRegistered`, `BegunIsAcknowledged`,
  `ManagerRemoved` and `AnswerGiven`: the prover supports neither fairness
  nor ENABLED.
* That the properties violated in the finding runs fail; those are
  counterexamples.

No module declares a RECURSIVE operator.

## 6. Not modelled

The byte layout of messages, signatures, storage encodings, the RPC
wrappers and the REST, mobile and command line interfaces: input and output
around the operations modelled here. Opening a channel, delegates of the
contract (third parties call them) and token callbacks.

In `Mediator` the repeated arrival of the same transfer (`MediatorReReceive`) and
the cancelling of a route by a withdrawal or a cooperative settlement are left
out, in `Payment` token swap, secrets chosen by the user, channels that close, and
the same cancelling. `Settlement` has no withdrawals, `Negotiation` no
on-chain secrets and no disposal. Crashes are those of `Protocol`, `ChainEvents`
and `Payment`; a crash while a channel is being closed is not modelled. The offline
wait of the matrix transport and the reward loop, which acts on services outside
the repository, are not modelled.

## 7. Plan

Done: `Channel`, `Protocol` with `ReliableDelivery`, `Mediator`, `ChainEvents`,
`Settlement` and `Negotiation` with `Escrow`, and `Payment`, each with its
theorems. Left to model: the wait of the matrix transport for an offline peer, the
reward loop, token swap, restart during a close, and the Merkle tree as operators
against the set of its leaves.

Every invariant, action property and refinement of the passing runs is the subject of
a theorem; the liveness properties stay with TLC.
